------------------------------ MODULE LedgerRules ------------------------------
(***************************************************************************)
(* The rules of the event ledger of src/bus_server.py, as operators over   *)
(* the append-only table `events`: the queries that reduce it to the state *)
(* of a work item, what Store._add_event authorizes, and what the four     *)
(* BEFORE INSERT triggers of migrate_schema let into the table.            *)
(*                                                                         *)
(* The table is a sequence L of rows; a row's seq is its index.  SQL NULL  *)
(* is 0 for lease, generation and token, and NoOne for an assignment.      *)
(* `payload` stands for every other stored column of the caller (payload,  *)
(* evidence_ref, parent_work_id, project): only its identity matters.      *)
(* A token is the seq of the CLAIM row it was minted for, so tokens of     *)
(* different claims differ, as 32 random bytes do.                         *)
(***************************************************************************)
EXTENDS Naturals, Sequences

CONSTANTS MaxLease,   \* MAX_LEASE_HOURS, in ticks of the clock
          NoOne       \* assigned_to IS NULL

NoLease == 0
NoToken == 0
NoGen   == 0

Observations == {"NOTE", "FINDING"}
ClaimantTypes == {"PROGRESS", "BLOCK", "RELEASE", "COMPLETE"}
FencedTypes == ClaimantTypes \cup {"CANCEL"}
EventTypes == {"CREATE", "CLAIM"} \cup FencedTypes \cup Observations
Statuses == {"OPEN", "CLAIMED", "RUNNING", "BLOCKED", "REVIEW", "DONE", "CANCELLED"}
ActiveStatuses == {"CLAIMED", "RUNNING"}

\* CANONICAL_TRANSITION_STATUS, as the pairs it allows; PROGRESS, CREATE and
\* the observations carry any status.
Canonical(type, status) ==
    /\ type = "CLAIM"    => status = "CLAIMED"
    /\ type = "BLOCK"    => status = "BLOCKED"
    /\ type = "RELEASE"  => status = "OPEN"
    /\ type = "COMPLETE" => status = "DONE"
    /\ type = "CANCEL"   => status = "CANCELLED"

\* Faulty variant: one tick more than the cap.
HorizonOffByOne(now) == now + MaxLease + 1
Horizon(now) == now + MaxLease

-----------------------------------------------------------------------------
(* Queries.  Latest is ORDER BY seq DESC LIMIT 1 (0: no row).              *)

Latest(S) == IF S = {} THEN 0 ELSE CHOOSE i \in S : \A j \in S : j <= i

Rows(L, w) == {i \in DOMAIN L : L[i].work = w}

\* Faulty variant: observations reduce the state like any event.
StateRowsAll(L, w) == Rows(L, w)
StateRows(L, w) == {i \in Rows(L, w) : L[i].type \notin Observations}
Claims(L, w) == {i \in Rows(L, w) : L[i].type = "CLAIM"}
FencedClaims(L, w) == {i \in Claims(L, w) : L[i].token # NoToken}
\* Faulty variant: the lease of an observation counts.
LeaseRowsAll(L, w) == {i \in Rows(L, w) : L[i].lease # NoLease}
LeaseRows(L, w) == {i \in StateRows(L, w) : L[i].lease # NoLease}
AssignRows(L, w) == {i \in StateRows(L, w) : L[i].assigned # NoOne}

LastClaim(L, w) == Latest(Claims(L, w))
IsFenced(L, w) == LastClaim(L, w) # 0 /\ L[LastClaim(L, w)].token # NoToken

\* work_hold: the latest state event decides whether there is a hold, the most
\* recent CLAIM whose it is, the most recent non-null lease until when.
Active(L, w) ==
    LET s == Latest(StateRows(L, w)) IN s # 0 /\ L[s].status \in ActiveStatuses
LeaseOf(L, w) ==
    LET i == Latest(LeaseRows(L, w)) IN IF i = 0 THEN NoLease ELSE L[i].lease
Held(L, w, now) == Active(L, w) /\ LeaseOf(L, w) > now
Holder(L, w) ==
    IF LastClaim(L, w) # 0 THEN L[LastClaim(L, w)].actor
                           ELSE L[Latest(StateRows(L, w))].actor

MaxGen(L, w) ==
    LET gens == {L[i].gen : i \in Claims(L, w)} IN
    IF gens = {} THEN 0 ELSE CHOOSE g \in gens : \A h \in gens : h <= g

\* The wake query of Store.inbox at one moment: the state row of every work item
\* it returns for a tag (its assignment carries forward from an earlier row).
AddressedTo(L, w) ==
    LET s == Latest(StateRows(L, w))  a == Latest(AssignRows(L, w)) IN
    IF L[s].assigned # NoOne THEN L[s].assigned
    ELSE IF a = 0 THEN NoOne ELSE L[a].assigned
Actionable(L, w, tag, now) ==
    LET s == Latest(StateRows(L, w)) IN
    \/ L[s].status \in {"OPEN", "BLOCKED"}
    \/ L[s].status \in ActiveStatuses /\ Held(L, w, now) /\ Holder(L, w) = tag
Inbox(L, works, tag, now) ==
    {Latest(StateRows(L, w)) : w \in
        {x \in works : /\ StateRows(L, x) # {}
                       /\ AddressedTo(L, x) \in {tag, "ALL", "ANY"}
                       /\ Actionable(L, x, tag, now)}}

-----------------------------------------------------------------------------
(* What the application accepts: a body b is what the caller sends.        *)

\* add_event, before the writer is reserved.
Valid(b, now) ==
    /\ b.type = "CREATE" => b.assigned # NoOne
    /\ b.type = "CLAIM" => /\ Canonical(b.type, b.status)
                           /\ b.lease # NoLease
                           /\ b.lease <= Horizon(now)
    /\ b.type \notin FencedTypes \cup {"CLAIM"} => b.token = NoToken

\* Faulty variant: the retry is recognised by its author, not by its content.
MatchesAnyPayload(r, b) ==
    /\ r.type = b.type /\ r.work = b.work /\ r.actor = b.actor
    /\ r.status = b.status /\ r.token = b.token

\* The exact-COMPLETE lookup: every stored column the caller supplied is equal.
Matches(r, b) ==
    /\ r.type = b.type /\ r.work = b.work /\ r.actor = b.actor
    /\ r.assigned = b.assigned /\ r.status = b.status /\ r.lease = b.lease
    /\ r.payload = b.payload /\ r.token = b.token
Replays(L, b) == {i \in DOMAIN L : b.type = "COMPLETE" /\ Matches(L[i], b)}
FirstReplay(L, b) == CHOOSE i \in Replays(L, b) : \A j \in Replays(L, b) : i <= j

\* Faulty variants: the actor tag alone renews a live claim; or nobody looks at
\* the hold.
MayClaimByTag(L, b, at) ==
    Held(L, b.work, at) => Holder(L, b.work) = b.actor
MayClaimAnyTime(L, b, at) ==
    b.token # NoToken => /\ IsFenced(L, b.work)
                         /\ L[LastClaim(L, b.work)].token = b.token

MayClaim(L, b, at) ==
    LET c == LastClaim(L, b.work) IN
    IF Held(L, b.work, at)
    THEN /\ Holder(L, b.work) = b.actor
         /\ b.token = IF IsFenced(L, b.work) THEN L[c].token ELSE NoToken
    ELSE b.token # NoToken => /\ IsFenced(L, b.work)
                              /\ L[c].actor = b.actor
                              /\ L[c].token = b.token

MayTransition(L, b, at) ==
    LET c == LastClaim(L, b.work) IN
    IF IsFenced(L, b.work)
    THEN /\ Canonical(b.type, b.status)
         /\ b.lease # NoLease => b.lease <= Horizon(at)
         /\ b.token = L[c].token
         /\ b.type \in ClaimantTypes => b.actor = L[c].actor
         /\ Held(L, b.work, at)
         /\ Holder(L, b.work) = L[c].actor
    ELSE /\ b.token = NoToken
         /\ c # 0 => FencedClaims(L, b.work) = {}

Authorized(L, b, at) ==
    /\ (b.type = "CREATE") <=> (Rows(L, b.work) = {})
    /\ b.type = "CLAIM" => MayClaim(L, b, at)
    /\ b.type \in FencedTypes => MayTransition(L, b, at)

\* Faulty variant: a claim reuses the generation of the latest one.
StoredGenReused(L, b) ==
    IF b.type \in FencedTypes \cup {"CLAIM"} /\ IsFenced(L, b.work)
    THEN L[LastClaim(L, b.work)].gen
    ELSE IF b.type = "CLAIM" THEN 1 ELSE NoGen

\* The generation and the token the INSERT stores.
StoredGen(L, b) ==
    IF b.type = "CLAIM" THEN MaxGen(L, b.work) + 1
    ELSE IF b.type \in FencedTypes /\ IsFenced(L, b.work)
         THEN L[LastClaim(L, b.work)].gen
         ELSE NoGen
StoredToken(L, b) == IF b.type = "CLAIM" THEN Len(L) + 1 ELSE b.token

-----------------------------------------------------------------------------
(* What the database accepts: one operator per trigger, r the new row.     *)

\* Faulty variant: an unfenced CLAIM is let in after a fenced one.
ClaimFenceOpen(L, r) ==
    r.type = "CLAIM" /\ r.gen # NoGen => r.gen = MaxGen(L, r.work) + 1

ClaimFence(L, r) ==
    r.type = "CLAIM" =>
        \/ r.gen = NoGen /\ r.token = NoToken /\ FencedClaims(L, r.work) = {}
        \/ /\ r.gen # NoGen /\ r.token # NoToken
           /\ r.status = "CLAIMED"
           /\ r.gen = MaxGen(L, r.work) + 1

\* Faulty variant: the trigger trusts the lease check of the application.
ScopedFenceNoLease(L, r, now) ==
    LET c == LastClaim(L, r.work) IN
    r.type \in FencedTypes =>
        \/ r.token = NoToken /\ FencedClaims(L, r.work) = {}
        \/ c # 0 /\ r.gen = L[c].gen /\ r.token = L[c].token

ScopedFence(L, r, now) ==
    LET c == LastClaim(L, r.work) IN
    r.type \in FencedTypes =>
        \/ r.gen = NoGen /\ r.token = NoToken /\ FencedClaims(L, r.work) = {}
        \/ /\ c # 0
           /\ L[c].gen # NoGen /\ L[c].token # NoToken
           /\ r.gen = L[c].gen /\ r.token = L[c].token
           /\ r.type # "CANCEL" => r.actor = L[c].actor
           /\ Active(L, r.work)
           /\ LeaseOf(L, r.work) > now

TransitionStatus(L, r) ==
    r.type \in FencedTypes \ {"PROGRESS"} /\ FencedClaims(L, r.work) # {}
        => Canonical(r.type, r.status)

LeaseHorizon(L, r, now) ==
    r.type \notin Observations /\ (r.token # NoToken \/ FencedClaims(L, r.work) # {})
        => /\ r.type = "CLAIM" => r.lease # NoLease
           /\ r.lease # NoLease => r.lease <= Horizon(now)

\* The unique indexes on (work_id, claim_generation) and on fence_token.
UniqueClaim(L, r) ==
    r.type = "CLAIM" /\ r.token # NoToken =>
        \A i \in DOMAIN L : L[i].type = "CLAIM" =>
            /\ L[i].token # r.token
            /\ L[i].work = r.work => L[i].gen # r.gen

Admitted(L, r, now) ==
    /\ ClaimFence(L, r)
    /\ ScopedFence(L, r, now)
    /\ TransitionStatus(L, r)
    /\ LeaseHorizon(L, r, now)
    /\ UniqueClaim(L, r)
=============================================================================
