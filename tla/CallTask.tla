------------------------------ MODULE CallTask ------------------------------
(***************************************************************************)
(* The life of a call task, call_lifecycle.py: a claim in two transactions *)
(* (PREPARED with its side effects, then OPEN), the agent's card and       *)
(* completion, cancellation, lazy expiry, and the fence the publisher asks *)
(* before it shows a card.  Every operation is one WATCHed transaction; a  *)
(* transaction that lost its race changes nothing and is not a step.       *)
(*                                                                         *)
(* The clients are unconstrained: a request is served late, never, or more *)
(* than once, a cancellation may name any revision, and a claim's reply is *)
(* lost or reports that only some of its commands took effect.  A card is  *)
(* named by the request that brought it, and stands for its digest; the    *)
(* source binding of a task is fixed by its id and is left out.            *)
(***************************************************************************)
EXTENDS Integers

CONSTANTS Tasks,     \* task ids: one ask of the owner, for one agent
          Requests,  \* ids of call-task requests
          NoCard,
          Partial    \* the effects an unconfirmed claim may leave

Effects == {"card", "inbox", "active", "ring"}
ASSUME NoCardAssumption == NoCard \notin Requests
ASSUME PartialAssumption == Partial \subseteq SUBSET Effects

VARIABLES task,    \* the authoritative records
          open,    \* the index of open tasks, with a copy of the record
          card,    \* the bridge's own card in the agent's partition
          work,    \* the agent's card in its partition
          inbox,   \* entries for the task in the agent's inbox
          ring,    \* tasks queued for the doorbell
          active,  \* tasks whose expiry key is there
          past,    \* tasks whose deadline the clients' clocks have passed
          request, \* requests sent
          claiming,\* claims whose first transaction is confirmed
          applied  \* history: how often a request took effect

shown == <<card, work>>
clients == <<request, claiming, applied>>
taskVars == <<task, open, shown, inbox, ring, active, past, clients>>

Terminal == {"CANCELLED", "EXPIRED", "DONE"}
States == {"none", "PREPARED", "OPEN"} \cup Terminal
Displays == {"claimed", "unconfirmed", "no_wake"}
NoDisplay == "none"
\* display is the claim card's digest, hash that of the agent's card, closedBy
\* the request that completed the task.
RecordType == [state : States, rev : Nat, display : Displays \cup {NoDisplay},
               hash : Requests \cup {NoCard}, closedBy : Requests \cup {NoCard}]
NoRecord == [state |-> "none", rev |-> 0, display |-> NoDisplay, hash |-> NoCard, closedBy |-> NoCard]
Ops == {"status", "card", "complete"}
RequestType == [op : Ops \cup {"none"}, task : Tasks, rev : Nat, hash : Requests \cup {NoCard}]

TaskTypeOK ==
    /\ task \in [Tasks -> RecordType] /\ open \in [Tasks -> RecordType]
    /\ card \in [Tasks -> Displays \cup {NoDisplay}]
    /\ work \in [Tasks -> Requests \cup {NoCard}]
    /\ inbox \in [Tasks -> Nat] /\ ring \subseteq Tasks
    /\ active \subseteq Tasks /\ past \subseteq Tasks
    /\ request \in [Requests -> RequestType]
    /\ claiming \subseteq Tasks /\ applied \in [Requests -> Nat]

TaskInit ==
    /\ task = [t \in Tasks |-> NoRecord] /\ open = [t \in Tasks |-> NoRecord]
    /\ card = [t \in Tasks |-> NoDisplay] /\ work = [t \in Tasks |-> NoCard]
    /\ inbox = [t \in Tasks |-> 0] /\ ring = {} /\ active = {} /\ past = {}
    /\ request = [q \in Requests |-> [op |-> "none", task |-> CHOOSE t \in Tasks : TRUE,
                                      rev |-> 0, hash |-> NoCard]]
    /\ claiming = {} /\ applied = [q \in Requests |-> 0]

-----------------------------------------------------------------------------
(* The claim.                                                              *)

Prepared == [NoRecord EXCEPT !.state = "PREPARED", !.rev = 1, !.display = "claimed"]

\* What the first transaction leaves, when landed are the effects that took.
Land(t, landed) ==
    /\ task' = [task EXCEPT ![t] = Prepared]
    /\ card' = IF "card" \in landed THEN [card EXCEPT ![t] = "claimed"] ELSE card
    /\ inbox' = IF "inbox" \in landed THEN [inbox EXCEPT ![t] = @ + 1] ELSE inbox
    /\ active' = IF "active" \in landed THEN active \cup {t} ELSE active
    /\ ring' = IF "ring" \in landed THEN ring \cup {t} ELSE ring

\* Faulty variant: a task that is still PREPARED is claimed again.
ClaimAgain(t, rings) ==
    /\ task[t].state \in {"none", "PREPARED"}
    /\ Land(t, IF rings THEN Effects ELSE Effects \ {"ring"})
    /\ claiming' = claiming \cup {t}
    /\ UNCHANGED <<open, work, past, request, applied>>

\* The first transaction, for a task nobody has claimed.  Its ring is queued
\* only when the bridge has a doorbell.
Claim(t, rings) ==
    /\ task[t] = NoRecord
    /\ Land(t, IF rings THEN Effects ELSE Effects \ {"ring"})
    /\ claiming' = claiming \cup {t}
    /\ UNCHANGED <<open, work, past, request, applied>>

\* Its outcome unconfirmed: the task stays PREPARED and nobody activates it.
ClaimUnknown(t, rings) ==
    /\ task[t] = NoRecord
    /\ \E landed \in Partial : Land(t, IF rings THEN landed ELSE landed \ {"ring"})
    /\ UNCHANGED <<open, work, past, clients>>

\* The second transaction: it finds its own record and the expiry key, or refuses.
Activates(t) == task[t] = Prepared /\ t \in active
Activate(t) ==
    /\ t \in claiming /\ claiming' = claiming \ {t}
    /\ IF Activates(t)
       THEN /\ task' = [task EXCEPT ![t].state = "OPEN"]
            /\ open' = [open EXCEPT ![t] = task'[t]]
       ELSE UNCHANGED <<task, open>>
    /\ UNCHANGED <<shown, inbox, ring, active, past, request, applied>>

\* The claimant dies between its two transactions.
Abandon(t) ==
    /\ t \in claiming /\ claiming' = claiming \ {t}
    /\ UNCHANGED <<task, open, shown, inbox, ring, active, past, request, applied>>

-----------------------------------------------------------------------------
(* The end of a task.                                                      *)

Live(t) == t \in active /\ t \notin past

\* Revocation and withdrawal in one transaction: _terminal.
Terminate(t, state) ==
    /\ task' = [task EXCEPT ![t].state = state, ![t].rev = @ + 1]
    /\ open' = [open EXCEPT ![t] = NoRecord]
    /\ ring' = ring \ {t}
    /\ card' = [card EXCEPT ![t] = NoDisplay]
    /\ work' = [work EXCEPT ![t] = NoCard]
    /\ UNCHANGED <<inbox, active, past>>

\* cancel_event: the owner's typed command for one revision of the task.  Here
\* only the expiry key is asked, not the clock.
CancelEvent(t, rev) ==
    /\ task[t].rev = rev /\ task[t].state \in {"PREPARED", "OPEN"}
    /\ Terminate(t, IF task[t].state = "OPEN" /\ t \notin active THEN "EXPIRED" ELSE "CANCELLED")
    /\ UNCHANGED clients

-----------------------------------------------------------------------------
(* operate: a request of the task's agent.                                 *)

\* The owner's agent learnt a revision and a digest from earlier receipts.
Send(q, t, op, rev, hash) ==
    /\ request[q].op = "none" /\ task[t].state # "none"
    /\ request' = [request EXCEPT ![q] = [op |-> op, task |-> t, rev |-> rev, hash |-> hash]]
    /\ UNCHANGED <<task, open, shown, inbox, ring, active, past, claiming, applied>>

OnTime(q) == LET t == request[q].task IN request[q].op \in Ops /\ task[t].state = "OPEN" /\ Live(t)
Apply(q) == applied' = [applied EXCEPT ![q] = @ + 1]

\* A request that finds its OPEN task out of time ends it, whatever it asks.
Expire(q) ==
    LET t == request[q].task IN
    /\ request[q].op \in Ops /\ task[t].state = "OPEN" /\ ~Live(t)
    /\ Terminate(t, "EXPIRED")
    /\ UNCHANGED clients

\* Faulty variant: a card is taken for any revision.
PutCardLate(q) ==
    LET t == request[q].task IN
    /\ request[q].op = "card" /\ OnTime(q)
    /\ task[t].hash # q
    /\ work' = [work EXCEPT ![t] = q]
    /\ task' = [task EXCEPT ![t].rev = @ + 1, ![t].hash = q]
    /\ open' = [open EXCEPT ![t] = task'[t]]
    /\ Apply(q)
    /\ UNCHANGED <<card, inbox, ring, active, past, request, claiming>>

\* Any other request that is a status, a replay, or too late has no effect, and
\* neither has one for another revision.
PutCard(q) ==
    LET t == request[q].task IN
    /\ request[q].op = "card" /\ OnTime(q)
    /\ task[t].hash # q /\ request[q].rev = task[t].rev
    /\ work' = [work EXCEPT ![t] = q]
    /\ task' = [task EXCEPT ![t].rev = @ + 1, ![t].hash = q]
    /\ open' = [open EXCEPT ![t] = task'[t]]
    /\ Apply(q)
    /\ UNCHANGED <<card, inbox, ring, active, past, request, claiming>>

\* Complete names the very card that is stored.
Complete(q) ==
    LET t == request[q].task IN
    /\ request[q].op = "complete" /\ OnTime(q) /\ request[q].rev = task[t].rev
    /\ work[t] # NoCard /\ work[t] = task[t].hash /\ request[q].hash = task[t].hash
    /\ task' = [task EXCEPT ![t].state = "DONE", ![t].rev = @ + 1, ![t].closedBy = q]
    /\ open' = [open EXCEPT ![t] = NoRecord]
    /\ ring' = ring \ {t}
    /\ card' = [card EXCEPT ![t] = NoDisplay]
    /\ Apply(q)
    /\ UNCHANGED <<work, inbox, active, past, request, claiming>>

\* Faulty variant: a card is refreshed without a look at its task.
RefreshesAll(t) == task[t] # NoRecord
\* refresh_claim_card: the bridge's display, of a task that is OPEN and in time.
Refreshes(t) == task[t].state = "OPEN" /\ Live(t)
\* Faulty variant: the index keeps the copy it had.
RefreshUnindexed(t, display) ==
    /\ Refreshes(t)
    /\ card' = [card EXCEPT ![t] = display]
    /\ task' = [task EXCEPT ![t].display = display]
    /\ UNCHANGED <<open, work, inbox, ring, active, past, clients>>
\* Faulty variant: the task is not told of its new card.
RefreshUnbound(t, display) ==
    /\ Refreshes(t)
    /\ card' = [card EXCEPT ![t] = display]
    /\ UNCHANGED <<task, open, work, inbox, ring, active, past, clients>>
Refresh(t, display) ==
    /\ Refreshes(t)
    /\ card' = [card EXCEPT ![t] = display]
    /\ task' = [task EXCEPT ![t].display = display]
    /\ open' = [open EXCEPT ![t] = task'[t]]
    /\ UNCHANGED <<work, inbox, ring, active, past, clients>>

-----------------------------------------------------------------------------
(* Time.  Redis drops the expiry key and the clients' clocks pass the      *)
(* deadline, in either order.                                              *)

KeyExpires(t) ==
    /\ t \in active /\ active' = active \ {t}
    /\ UNCHANGED <<task, open, shown, inbox, ring, past, clients>>
ClockPasses(t) ==
    /\ task[t].state # "none" /\ t \notin past /\ past' = past \cup {t}
    /\ UNCHANGED <<task, open, shown, inbox, ring, active, clients>>

\* The doorbell takes a task it rang off its queue.
Dequeue(t) ==
    /\ ring' = ring \ {t}
    /\ UNCHANGED <<task, open, shown, inbox, active, past, clients>>

TaskNext ==
    \/ \E t \in Tasks :
          \/ \E rings \in BOOLEAN : Claim(t, rings) \/ ClaimUnknown(t, rings)
          \/ Activate(t) \/ Abandon(t) \/ KeyExpires(t) \/ ClockPasses(t) \/ Dequeue(t)
          \/ \E rev \in Nat : CancelEvent(t, rev)
          \/ \E display \in Displays : Refresh(t, display)
          \/ \E q \in Requests, op \in Ops, rev \in Nat, hash \in Requests \cup {NoCard} :
                Send(q, t, op, rev, hash)
    \/ \E q \in Requests : Expire(q) \/ PutCard(q) \/ Complete(q)

TaskSpec == TaskInit /\ [][TaskNext]_taskVars

-----------------------------------------------------------------------------
(* Properties.                                                             *)

\* visible: what the publisher shows of a task, asked of the authoritative
\* record, the expiry key and the card as it is stored.
Shows(t) == task[t].state = "OPEN" /\ Live(t)
ClaimVisible(t) ==
    Shows(t) /\ task[t].hash = NoCard /\ card[t] # NoDisplay /\ card[t] = task[t].display
WorkVisible(t) ==
    /\ Shows(t) \/ task[t].state = "DONE"
    /\ task[t].hash # NoCard /\ work[t] = task[t].hash

\* The index the bridge and the fleet read is the authority itself: exactly the
\* open tasks, each with its present record, after any mix of late requests,
\* refreshes, cancellations and lost replies.
IndexIsTask == \A t \in Tasks : open[t] = IF task[t].state = "OPEN" THEN task[t] ELSE NoRecord

\* The page shows one card for one piece of work: an open task in time shows the
\* bridge's card or the agent's and never both or neither, a completed one keeps
\* the agent's card, and nothing is shown of any other, whatever was written.
ShowsOneCard ==
    \A t \in Tasks :
        /\ Shows(t) => (ClaimVisible(t) <=> ~WorkVisible(t))
        /\ task[t].state = "DONE" => WorkVisible(t)
        /\ ~Shows(t) /\ task[t].state # "DONE" => ~ClaimVisible(t) /\ ~WorkVisible(t)

\* The ask is in the agent's inbox once before its task can be open or done, and
\* an uncertain claim never delivers it a second time.
DeliveredOnce ==
    \A t \in Tasks : inbox[t] <= 1 /\ (task[t].state \in {"OPEN", "DONE"} => inbox[t] = 1)

\* A request takes effect at most once, however often it is served, and at most
\* one completion is ever accepted, of the card that is stored.
AppliedOnce ==
    /\ \A q \in Requests : applied[q] <= 1
    /\ \A t \in Tasks : task[t].state = "DONE" =>
          request[task[t].closedBy].op = "complete" /\ request[task[t].closedBy].hash = work[t]

\* A task that has ended is never changed, revived or rung again.
EndIsFinal ==
    [][\A t \in Tasks : task[t].state \in Terminal =>
          task'[t] = task[t] /\ card'[t] = card[t] /\ work'[t] = work[t] /\ t \notin ring']_taskVars
=============================================================================
