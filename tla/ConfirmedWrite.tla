---------------------------- MODULE ConfirmedWrite ----------------------------
(***************************************************************************)
(* What the metadata ledger and its provider adapter promise: an operation *)
(* holds a field of the organization from the moment it is asked for; it   *)
(* is agreed to, then granted one write, then the write is sent; and the   *)
(* field is given up only by an operation that has sent nothing and never  *)
(* will.                                                                   *)
(***************************************************************************)
CONSTANTS Ops, Fields, TargetOf, Nobody

VARIABLES asked, agreed, granted, sent, hold

vars == <<asked, agreed, granted, sent, hold>>

Init ==
    /\ asked = {} /\ agreed = {} /\ granted = {} /\ sent = {}
    /\ hold = [f \in Fields |-> Nobody]

Holds(o) == hold[TargetOf[o]] = o

Ask(o) ==
    /\ o \notin asked /\ hold[TargetOf[o]] = Nobody
    /\ asked' = asked \cup {o}
    /\ hold' = [hold EXCEPT ![TargetOf[o]] = o]
    /\ UNCHANGED <<agreed, granted, sent>>

Agree(o) ==
    /\ Holds(o) /\ o \notin agreed
    /\ agreed' = agreed \cup {o}
    /\ UNCHANGED <<asked, granted, sent, hold>>

Grant(o) ==
    /\ Holds(o) /\ o \in agreed \ granted
    /\ granted' = granted \cup {o}
    /\ UNCHANGED <<asked, agreed, sent, hold>>

Send(o) ==
    /\ Holds(o) /\ o \in granted \ sent
    /\ sent' = sent \cup {o}
    /\ UNCHANGED <<asked, agreed, granted, hold>>

Release(o) ==
    /\ Holds(o) /\ o \notin sent
    /\ hold' = [hold EXCEPT ![TargetOf[o]] = Nobody]
    /\ UNCHANGED <<asked, agreed, granted, sent>>

Next == \E o \in Ops : Ask(o) \/ Agree(o) \/ Grant(o) \/ Send(o) \/ Release(o)

Spec == Init /\ [][Next]_vars
=============================================================================
