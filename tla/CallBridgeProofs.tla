-------------------------- MODULE CallBridgeProofs --------------------------
(***************************************************************************)
(* Proofs about the call bridge and the call tasks under it, for any       *)
(* agents, number of turns, executions, faults and lapses of the lock.     *)
(*                                                                         *)
(* TaskInv is inductive for the operations on a task, and RoomInv, which   *)
(* says what the turns, ticks and bells are, carries it to every step of   *)
(* the bridge.  On RoomInv stand the invariants of the doorbell (BellInv), *)
(* of the routes (RouteInv), of the consent behind a task (ConsentInv) and *)
(* of the turns that were consumed (ServeInv), each with those it needs:   *)
(* with the lock, one bridge works on the turn after the cursor and on the *)
(* proposal as it is.                                                      *)
(***************************************************************************)
EXTENDS CallBridge, TLAPS, WellFoundedInduction

-----------------------------------------------------------------------------
(* The tasks.                                                              *)

\* One task: its record, its copy in the index, its cards, its entry in the inbox
\* and its ring.
TaskOK(t) ==
    /\ open[t] = IF task[t].state = "OPEN" THEN task[t] ELSE NoRecord
    /\ inbox[t] <= 1
    /\ task[t].state = "none" =>
         /\ task[t] = NoRecord /\ card[t] = NoDisplay /\ work[t] = NoCard
         /\ inbox[t] = 0 /\ t \notin claiming /\ t \notin ring
    /\ task[t].state = "PREPARED" =>
         /\ task[t] = Prepared /\ work[t] = NoCard
         /\ t \in claiming => card[t] = "claimed" /\ inbox[t] = 1
    /\ task[t].state = "OPEN" =>
         /\ task[t].display # NoDisplay /\ card[t] = task[t].display
         /\ work[t] = task[t].hash /\ inbox[t] = 1
    /\ task[t].state = "DONE" =>
         /\ work[t] = task[t].hash /\ work[t] # NoCard /\ inbox[t] = 1
         /\ task[t].closedBy \in Requests
         /\ request[task[t].closedBy].op = "complete" /\ request[task[t].closedBy].hash = work[t]
    /\ task[t].state \in Terminal => t \notin ring

\* A request that took effect named a revision the task has left behind.
RequestOK(q) ==
    \/ applied[q] = 0
    \/ /\ applied[q] = 1 /\ request[q].op \in Ops
       /\ request[q].rev < task[request[q].task].rev

TaskInv == TaskTypeOK /\ (\A t \in Tasks : TaskOK(t)) /\ (\A q \in Requests : RequestOK(q))

\* The record of a task nobody has claimed, and that of one just claimed.
LEMMA RecordsAre == /\ NoRecord \in RecordType /\ Prepared \in RecordType
                    /\ NoRecord.state = "none" /\ Prepared.state = "PREPARED"
                    /\ NoRecord.rev = 0 /\ Prepared.rev = 1
                    /\ Prepared.display = "claimed" /\ Prepared.hash = NoCard
  BY DEF NoRecord, Prepared, RecordType, States, Terminal, Displays, NoDisplay

\* Nothing has been claimed at the start.
LEMMA TaskInitOK == ASSUME TaskInit, Tasks # {} PROVE TaskInv
<1>1. (CHOOSE t \in Tasks : TRUE) \in Tasks
  OBVIOUS
<1>2. TaskTypeOK
  BY <1>1, RecordsAre DEF TaskInit, TaskTypeOK, RequestType
<1>3. ASSUME NEW t \in Tasks PROVE TaskOK(t)
  <2>1. /\ task[t] = NoRecord /\ open[t] = NoRecord /\ card[t] = NoDisplay /\ work[t] = NoCard
        /\ inbox[t] = 0 /\ t \notin ring /\ t \notin claiming
    BY DEF TaskInit
  <2>2. task[t].state = "none"
    BY <2>1, RecordsAre
  <2> QED BY <2>1, <2>2 DEF TaskOK, Terminal
<1>4. \A q \in Requests : RequestOK(q)
  BY DEF TaskInit, RequestOK
<1> QED BY <1>2, <1>3, <1>4 DEF TaskInv

\* What the first transaction of a claim leaves.
LEMMA LandKeeps ==
    ASSUME TaskInv, NEW t \in Tasks, task[t] = NoRecord, NEW landed \in SUBSET Effects, Land(t, landed),
           UNCHANGED <<open, work, past, request, applied>>,
           \/ claiming' = claiming \cup {t} /\ {"card", "inbox"} \subseteq landed
           \/ claiming' = claiming
    PROVE  TaskInv'
<1>1. TaskTypeOK /\ TaskOK(t) /\ task[t].state = "none" /\ task[t].rev = 0
  BY RecordsAre DEF TaskInv
<1>2. card[t] = NoDisplay /\ work[t] = NoCard /\ inbox[t] = 0 /\ t \notin claiming /\ open[t] = NoRecord
  BY <1>1 DEF TaskOK
<1>3. task' = [task EXCEPT ![t] = Prepared] /\ task'[t] = Prepared
  BY <1>1 DEF Land, TaskTypeOK
<1>4. card' \in [Tasks -> Displays \cup {NoDisplay}] /\ ("card" \in landed => card'[t] = "claimed")
  BY <1>1 DEF Land, TaskTypeOK, Displays
<1>5. inbox' \in [Tasks -> Nat] /\ inbox'[t] <= 1 /\ ("inbox" \in landed => inbox'[t] = 1)
  BY <1>1, <1>2 DEF Land, TaskTypeOK
<1>6. active' \subseteq Tasks /\ ring' \subseteq Tasks
  BY <1>1 DEF Land, TaskTypeOK
<1>7. TaskTypeOK'
  BY <1>1, <1>3, <1>4, <1>5, <1>6, RecordsAre DEF TaskTypeOK
<1>8. TaskOK(t)'
  BY <1>2, <1>3, <1>4, <1>5, RecordsAre DEF TaskOK, Terminal
<1>9. ASSUME NEW u \in Tasks, u # t PROVE TaskOK(u)'
  <2>1. /\ task'[u] = task[u] /\ card'[u] = card[u] /\ inbox'[u] = inbox[u]
        /\ u \in ring' <=> u \in ring
        /\ u \in claiming' <=> u \in claiming
    BY <1>1, <1>3, <1>9 DEF Land, TaskTypeOK
  <2>2. TaskOK(u)
    BY DEF TaskInv
  <2> QED BY <2>1, <2>2 DEF TaskOK
<1>10. ASSUME NEW q \in Requests PROVE RequestOK(q)'
  <2>1. RequestOK(q)
    BY DEF TaskInv
  <2>2. request[q].task \in Tasks /\ request[q].rev \in Nat
    BY <1>1 DEF TaskTypeOK, RequestType
  <2>3. request[q].task # t => task'[request[q].task] = task[request[q].task]
    BY <1>1, <1>3, <2>2 DEF TaskTypeOK
  <2> QED BY <1>1, <1>3, <2>1, <2>2, <2>3, RecordsAre DEF RequestOK
<1> QED BY <1>7, <1>8, <1>9, <1>10 DEF TaskInv

\* A confirmed claim: every effect of the transaction is there.
LEMMA ClaimKeeps == ASSUME TaskInv, NEW t \in Tasks, NEW rings \in BOOLEAN, Claim(t, rings) PROVE TaskInv'
<1>1. PICK landed : landed = IF rings THEN Effects ELSE Effects \ {"ring"}
  OBVIOUS
<1>2. landed \in SUBSET Effects /\ {"card", "inbox"} \subseteq landed
  BY <1>1 DEF Effects
<1> QED BY <1>1, <1>2, LandKeeps DEF Claim

\* A claim with an unknown outcome: the task is PREPARED with some of its effects, and is not claimed again.
LEMMA ClaimUnknownKeeps == ASSUME TaskInv, NEW t \in Tasks, NEW rings \in BOOLEAN, ClaimUnknown(t, rings)
                           PROVE  TaskInv'
<1>1. PICK some \in Partial : Land(t, IF rings THEN some ELSE some \ {"ring"})
  BY DEF ClaimUnknown
<1>2. PICK landed : landed = IF rings THEN some ELSE some \ {"ring"}
  OBVIOUS
<1>3. landed \in SUBSET Effects
  BY <1>2, PartialAssumption
<1> QED BY <1>1, <1>2, <1>3, LandKeeps DEF ClaimUnknown, clients

\* Only task t has to be looked at; its revision never goes back.
LEMMA OneTaskChanges ==
    ASSUME TaskInv, NEW t \in Tasks, NEW r \in RecordType, task' = [task EXCEPT ![t] = r],
           r.rev >= task[t].rev,
           NEW o \in RecordType, open' = [open EXCEPT ![t] = o],
           NEW c \in Displays \cup {NoDisplay}, card' = [card EXCEPT ![t] = c],
           NEW w \in Requests \cup {NoCard}, work' = [work EXCEPT ![t] = w],
           ring' = ring \/ ring' = ring \ {t}, claiming' = claiming \/ claiming' = claiming \ {t},
           UNCHANGED <<inbox, active, past, request>>,
           TaskOK(t)',
           \/ applied' = applied
           \/ \E q \in Requests : /\ applied' = [applied EXCEPT ![q] = @ + 1] /\ request[q].op \in Ops
                                  /\ request[q].task = t /\ request[q].rev = task[t].rev
                                  /\ r.rev > task[t].rev
    PROVE  TaskInv'
<1>1. TaskTypeOK /\ TaskTypeOK'
  <2>1. TaskTypeOK
    BY DEF TaskInv
  <2>2. applied' \in [Requests -> Nat]
    BY <2>1 DEF TaskTypeOK
  <2> QED BY <2>1, <2>2 DEF TaskTypeOK
<1>2. task'[t] = r /\ \A u \in Tasks \ {t} : task'[u] = task[u]
  BY <1>1 DEF TaskTypeOK
<1>3. ASSUME NEW u \in Tasks, u # t PROVE TaskOK(u)'
  <2>1. /\ task'[u] = task[u] /\ card'[u] = card[u] /\ inbox'[u] = inbox[u]
        /\ open'[u] = open[u] /\ work'[u] = work[u]
        /\ u \in ring' <=> u \in ring
        /\ u \in claiming' <=> u \in claiming
    BY <1>1, <1>3 DEF TaskTypeOK
  <2>2. TaskOK(u)
    BY DEF TaskInv
  <2> QED BY <2>1, <2>2 DEF TaskOK
<1>4. ASSUME NEW q \in Requests PROVE RequestOK(q)'
  <2>1. RequestOK(q) /\ request[q].task \in Tasks /\ request[q].rev \in Nat
    BY <1>1 DEF TaskInv, TaskTypeOK, RequestType
  <2>2. task[request[q].task].rev \in Nat /\ task'[request[q].task].rev \in Nat
    BY <1>1, <2>1 DEF TaskTypeOK, RecordType
  <2>3. task'[request[q].task].rev >= task[request[q].task].rev
    BY <1>2, <2>1, <2>2
  <2>4. CASE applied'[q] = applied[q]
    BY <2>1, <2>2, <2>3, <2>4 DEF RequestOK
  <2>5. CASE applied'[q] # applied[q]
    <3>1. /\ applied' = [applied EXCEPT ![q] = @ + 1] /\ request[q].op \in Ops
          /\ request[q].task = t /\ request[q].rev = task[t].rev /\ r.rev > task[t].rev
      BY <1>1, <2>5 DEF TaskTypeOK
    <3>2. applied[q] = 0
      BY <2>1, <2>2, <3>1 DEF RequestOK
    <3>3. applied'[q] = 1
      BY <1>1, <3>1, <3>2 DEF TaskTypeOK
    <3> QED BY <1>2, <3>1, <3>3 DEF RequestOK
  <2> QED BY <2>4, <2>5
<1> QED BY <1>1, <1>3, <1>4 DEF TaskInv

\* Writing back the value that is there changes nothing.
LEMMA SameValue == ASSUME NEW S, NEW f \in [Tasks -> S], NEW t \in Tasks PROVE f = [f EXCEPT ![t] = f[t]]
  OBVIOUS

\* A claimant that is done with its claim.
LEMMA ClaimingKeeps == ASSUME TaskInv, NEW t \in Tasks, claiming' = claiming \ {t},
                              UNCHANGED <<task, open, shown, inbox, ring, active, past, request, applied>>
                       PROVE  TaskInv'
<1>1. TaskTypeOK'
  BY DEF TaskInv, TaskTypeOK, shown
<1>2. ASSUME NEW u \in Tasks PROVE TaskOK(u)'
  BY DEF TaskInv, TaskOK, shown
<1>3. \A q \in Requests : RequestOK(q)'
  BY DEF TaskInv, RequestOK
<1> QED BY <1>1, <1>2, <1>3 DEF TaskInv

\* The claimant dies between its two transactions.
LEMMA AbandonKeeps == ASSUME TaskInv, NEW t \in Tasks, Abandon(t) PROVE TaskInv'
  BY ClaimingKeeps DEF Abandon

\* The second transaction opens the task it finds as it left it, and only with its ask delivered.
LEMMA ActivateKeeps == ASSUME TaskInv, NEW t \in Tasks, Activate(t) PROVE TaskInv'
<1>1. TaskTypeOK /\ TaskOK(t)
  BY DEF TaskInv
<1>2. CASE ~Activates(t)
  BY <1>2, ClaimingKeeps DEF Activate
<1>3. CASE Activates(t)
  <2>1. PICK r : r = [task[t] EXCEPT !.state = "OPEN"]
    OBVIOUS
  <2>2. task[t] = Prepared /\ task[t] \in RecordType
    BY <1>1, <1>3 DEF Activates, TaskTypeOK
  <2>3. /\ r \in RecordType /\ r.state = "OPEN" /\ r.rev = 1 /\ r.display = "claimed" /\ r.hash = NoCard
    BY <2>1, <2>2 DEF Prepared, NoRecord, RecordType, States
  <2>4. task' = [task EXCEPT ![t] = r]
    BY <1>1, <1>3, <2>1 DEF Activate, TaskTypeOK
  <2>5. task'[t] = r
    BY <1>1, <2>4 DEF TaskTypeOK
  <2>6. open' = [open EXCEPT ![t] = r]
    BY <1>3, <2>5 DEF Activate
  <2>7. card[t] = "claimed" /\ inbox[t] = 1 /\ work[t] = NoCard
    BY <1>1, <2>2, RecordsAre DEF TaskOK, Activate
  <2>8. TaskOK(t)'
    <3>1. open'[t] = r
      BY <1>1, <2>6 DEF TaskTypeOK
    <3> QED BY <2>3, <2>5, <2>7, <3>1 DEF Activate, shown, TaskOK, Terminal, NoDisplay
  <2>9. card[t] \in Displays \cup {NoDisplay} /\ work[t] \in Requests \cup {NoCard}
    BY <1>1 DEF TaskTypeOK
  <2>10. card' = [card EXCEPT ![t] = card[t]] /\ work' = [work EXCEPT ![t] = work[t]]
    BY <1>1, SameValue DEF TaskTypeOK, Activate, shown
  <2>11. r.rev >= task[t].rev
    BY <2>2, <2>3, RecordsAre
  <2> QED BY <2>3, <2>4, <2>6, <2>8, <2>9, <2>10, <2>11, OneTaskChanges DEF Activate
<1> QED BY <1>2, <1>3

\* The end of a task that was PREPARED or OPEN: index, queue and cards go with it.
LEMMA TerminateKeeps ==
    ASSUME TaskInv, NEW t \in Tasks, task[t].state \in {"PREPARED", "OPEN"},
           NEW state \in {"CANCELLED", "EXPIRED"}, Terminate(t, state), UNCHANGED clients
    PROVE  TaskInv'
<1>1. TaskTypeOK /\ TaskOK(t) /\ task[t] \in RecordType
  BY DEF TaskInv, TaskTypeOK
<1>2. PICK r : r = [task[t] EXCEPT !.state = state, !.rev = @ + 1]
  OBVIOUS
<1>3. r \in RecordType /\ r.state = state /\ r.rev = task[t].rev + 1 /\ task[t].rev \in Nat
  <2>1. r = [state |-> state, rev |-> task[t].rev + 1, display |-> task[t].display,
             hash |-> task[t].hash, closedBy |-> task[t].closedBy]
    BY <1>1, <1>2 DEF RecordType
  <2> QED BY <1>1, <2>1 DEF RecordType, States, Terminal
<1>4. task' = [task EXCEPT ![t] = r]
  BY <1>1, <1>2 DEF Terminate, TaskTypeOK
<1>5. task'[t] = r /\ open'[t] = NoRecord
  BY <1>1, <1>4 DEF Terminate, TaskTypeOK
<1>6. inbox[t] <= 1
  BY <1>1 DEF TaskOK
<1>7. TaskOK(t)'
  BY <1>3, <1>5, <1>6 DEF Terminate, TaskOK, Terminal
<1>8. r.rev >= task[t].rev
  BY <1>3
<1>9. /\ open' = [open EXCEPT ![t] = NoRecord] /\ card' = [card EXCEPT ![t] = NoDisplay]
      /\ work' = [work EXCEPT ![t] = NoCard] /\ ring' = ring \ {t}
      /\ UNCHANGED <<inbox, active, past, request, claiming, applied>>
  BY DEF Terminate, clients
<1> QED BY <1>3, <1>4, <1>7, <1>8, <1>9, RecordsAre, OneTaskChanges

\* The owner's cancellation of one revision.
LEMMA CancelEventKeeps == ASSUME TaskInv, NEW t \in Tasks, NEW rev, CancelEvent(t, rev) PROVE TaskInv'
<1>1. PICK state \in {"CANCELLED", "EXPIRED"} : Terminate(t, state)
  BY DEF CancelEvent
<1> QED BY <1>1, TerminateKeeps DEF CancelEvent

\* A request that finds its task out of time.
LEMMA ExpireKeeps == ASSUME TaskInv, NEW q \in Requests, Expire(q) PROVE TaskInv'
<1>1. request[q].task \in Tasks
  BY DEF TaskInv, TaskTypeOK, RequestType
<1> QED BY <1>1, TerminateKeeps DEF Expire

\* A request that is sent: it has had no effect yet.
LEMMA SendKeeps ==
    ASSUME TaskInv, NEW q \in Requests, NEW t \in Tasks, NEW op \in Ops, NEW rev \in Nat,
           NEW hash \in Requests \cup {NoCard}, Send(q, t, op, rev, hash)
    PROVE  TaskInv'
<1>1. TaskTypeOK /\ RequestOK(q)
  BY DEF TaskInv
<1>2. PICK s : s = [op |-> op, task |-> t, rev |-> rev, hash |-> hash]
  OBVIOUS
<1>3. s \in RequestType /\ request' = [request EXCEPT ![q] = s]
  BY <1>2 DEF RequestType, Send
<1>4. TaskTypeOK'
  BY <1>1, <1>3 DEF TaskTypeOK, Send, shown
<1>5. ASSUME NEW p \in Requests, p # q PROVE request'[p] = request[p]
  BY <1>1, <1>3, <1>5 DEF TaskTypeOK
<1>6. request[q].op = "none" /\ applied[q] = 0
  BY <1>1 DEF Send, RequestOK, Ops
<1>7. ASSUME NEW u \in Tasks PROVE TaskOK(u)'
  <2>1. TaskOK(u)
    BY DEF TaskInv
  <2>2. task[u].state = "DONE" => task[u].closedBy # q /\ task[u].closedBy \in Requests
    BY <2>1, <1>6 DEF TaskOK
  <2> QED BY <2>1, <2>2, <1>5 DEF TaskOK, Send, shown
<1>8. ASSUME NEW p \in Requests PROVE RequestOK(p)'
  BY <1>5, <1>6 DEF TaskInv, RequestOK, Send
<1> QED BY <1>4, <1>7, <1>8 DEF TaskInv

\* The agent's card: the revision it names is gone after it, so a replay finds another.
LEMMA PutCardKeeps == ASSUME TaskInv, NEW q \in Requests, PutCard(q) PROVE TaskInv'
<1>1. PICK t : t = request[q].task
  OBVIOUS
<1>2. TaskTypeOK /\ t \in Tasks /\ TaskOK(t) /\ task[t] \in RecordType
  BY <1>1 DEF TaskInv, TaskTypeOK, RequestType
<1>3. PICK r : r = [task[t] EXCEPT !.rev = @ + 1, !.hash = q]
  OBVIOUS
<1>4. /\ r \in RecordType /\ r.state = task[t].state /\ r.rev = task[t].rev + 1 /\ r.hash = q
      /\ r.display = task[t].display /\ task[t].rev \in Nat
  <2>1. r = [state |-> task[t].state, rev |-> task[t].rev + 1, display |-> task[t].display,
             hash |-> q, closedBy |-> task[t].closedBy]
    BY <1>2, <1>3 DEF RecordType
  <2> QED BY <1>2, <2>1 DEF RecordType
<1>5. task' = [task EXCEPT ![t] = r]
  BY <1>1, <1>2, <1>3 DEF PutCard, TaskTypeOK
<1>6. task'[t] = r
  BY <1>2, <1>5 DEF TaskTypeOK
<1>7. open' = [open EXCEPT ![t] = r] /\ open'[t] = r
  BY <1>1, <1>2, <1>6 DEF PutCard, TaskTypeOK
<1>8. work' = [work EXCEPT ![t] = q] /\ work'[t] = q
  BY <1>1, <1>2 DEF PutCard, TaskTypeOK
<1>9. task[t].state = "OPEN" /\ request[q].op \in Ops /\ request[q].rev = task[t].rev
  BY <1>1 DEF PutCard, OnTime
<1>10. TaskOK(t)'
  <2>1. task[t].display # NoDisplay /\ card[t] = task[t].display /\ inbox[t] = 1
    BY <1>2, <1>9 DEF TaskOK
  <2>2. UNCHANGED <<card, inbox, ring>>
    BY DEF PutCard
  <2> QED BY <1>4, <1>6, <1>7, <1>8, <1>9, <2>1, <2>2 DEF TaskOK, Terminal
<1>11. card[t] \in Displays \cup {NoDisplay}
  BY <1>2 DEF TaskTypeOK
<1>12. card' = [card EXCEPT ![t] = card[t]]
  BY <1>2, SameValue DEF TaskTypeOK, PutCard
<1>13. r.rev >= task[t].rev /\ r.rev > task[t].rev
  BY <1>4
<1>14. applied' = [applied EXCEPT ![q] = @ + 1]
  BY DEF PutCard, Apply
<1> QED BY <1>1, <1>2, <1>4, <1>5, <1>7, <1>8, <1>9, <1>10, <1>11, <1>12, <1>13, <1>14, OneTaskChanges
      DEF PutCard

\* A completion closes the task with the card that is stored.
LEMMA CompleteKeeps == ASSUME TaskInv, NEW q \in Requests, Complete(q) PROVE TaskInv'
<1>1. PICK t : t = request[q].task
  OBVIOUS
<1>2. TaskTypeOK /\ t \in Tasks /\ TaskOK(t) /\ task[t] \in RecordType
  BY <1>1 DEF TaskInv, TaskTypeOK, RequestType
<1>3. PICK r : r = [task[t] EXCEPT !.state = "DONE", !.rev = @ + 1, !.closedBy = q]
  OBVIOUS
<1>4. /\ r \in RecordType /\ r.state = "DONE" /\ r.rev = task[t].rev + 1 /\ r.hash = task[t].hash
      /\ r.closedBy = q /\ task[t].rev \in Nat
  <2>1. r = [state |-> "DONE", rev |-> task[t].rev + 1, display |-> task[t].display,
             hash |-> task[t].hash, closedBy |-> q]
    BY <1>2, <1>3 DEF RecordType
  <2> QED BY <1>2, <2>1 DEF RecordType, States, Terminal
<1>5. task' = [task EXCEPT ![t] = r]
  BY <1>1, <1>2, <1>3 DEF Complete, TaskTypeOK
<1>6. task'[t] = r
  BY <1>2, <1>5 DEF TaskTypeOK
<1>7. open' = [open EXCEPT ![t] = NoRecord] /\ open'[t] = NoRecord
  BY <1>1, <1>2 DEF Complete, TaskTypeOK
<1>8. /\ task[t].state = "OPEN" /\ request[q].op = "complete" /\ request[q].rev = task[t].rev
      /\ work[t] # NoCard /\ work[t] = task[t].hash /\ request[q].hash = task[t].hash
  BY <1>1 DEF Complete, OnTime
<1>9. t \notin ring' /\ UNCHANGED <<work, inbox, request>>
  BY <1>1 DEF Complete
<1>10. TaskOK(t)'
  BY <1>2, <1>4, <1>6, <1>7, <1>8, <1>9 DEF TaskOK, Terminal
<1>11. work[t] \in Requests \cup {NoCard}
  BY <1>2 DEF TaskTypeOK
<1>12. work' = [work EXCEPT ![t] = work[t]] /\ card' = [card EXCEPT ![t] = NoDisplay]
  BY <1>1, <1>2, SameValue DEF TaskTypeOK, Complete
<1>13. r.rev >= task[t].rev /\ r.rev > task[t].rev /\ request[q].op \in Ops
  BY <1>4, <1>8 DEF Ops
<1>14. applied' = [applied EXCEPT ![q] = @ + 1] /\ ring' = ring \ {t}
  BY <1>1 DEF Complete, Apply
<1> QED BY <1>1, <1>2, <1>4, <1>5, <1>7, <1>8, <1>10, <1>11, <1>12, <1>13, <1>14, RecordsAre, OneTaskChanges
        DEF Complete

\* The bridge's card, its task and the index change together.
LEMMA RefreshKeeps ==
    ASSUME TaskInv, NEW t \in Tasks, NEW display \in Displays, Refresh(t, display) PROVE TaskInv'
<1>1. TaskTypeOK /\ TaskOK(t) /\ task[t] \in RecordType /\ task[t].state = "OPEN"
  BY DEF TaskInv, TaskTypeOK, Refresh, Refreshes
<1>2. PICK r : r = [task[t] EXCEPT !.display = display]
  OBVIOUS
<1>3. /\ r \in RecordType /\ r.state = "OPEN" /\ r.rev = task[t].rev /\ r.hash = task[t].hash
      /\ r.display = display /\ task[t].rev \in Nat /\ display # NoDisplay
  BY <1>1, <1>2 DEF RecordType, Displays, NoDisplay
<1>4. task' = [task EXCEPT ![t] = r]
  BY <1>1, <1>2 DEF Refresh, TaskTypeOK
<1>5. task'[t] = r
  BY <1>1, <1>4 DEF TaskTypeOK
<1>6. open' = [open EXCEPT ![t] = r] /\ open'[t] = r /\ card' = [card EXCEPT ![t] = display]
         /\ card'[t] = display
  BY <1>1, <1>5 DEF Refresh, TaskTypeOK
<1>7. TaskOK(t)'
  BY <1>1, <1>3, <1>5, <1>6 DEF Refresh, TaskOK, Terminal
<1>8. work[t] \in Requests \cup {NoCard} /\ work' = [work EXCEPT ![t] = work[t]]
  BY <1>1, SameValue DEF TaskTypeOK, Refresh
<1>9. r.rev >= task[t].rev
  BY <1>3
<1>10. UNCHANGED <<inbox, ring, active, past, request, claiming, applied>>
  BY DEF Refresh, clients
<1> QED BY <1>3, <1>4, <1>6, <1>7, <1>8, <1>9, <1>10, OneTaskChanges

\* The queue, the expiry keys and the clocks are not part of what the records agree on.
LEMMA AsideKeeps ==
    ASSUME TaskInv, UNCHANGED <<task, open, shown, inbox, clients>>, ring' \subseteq ring,
           active' \subseteq Tasks, past' \subseteq Tasks
    PROVE  TaskInv'
<1>1. TaskTypeOK'
  BY DEF TaskInv, TaskTypeOK, shown, clients
<1>2. ASSUME NEW t \in Tasks PROVE TaskOK(t)'
  BY DEF TaskInv, TaskOK, shown, clients
<1>3. \A q \in Requests : RequestOK(q)'
  BY DEF TaskInv, RequestOK, clients
<1> QED BY <1>1, <1>2, <1>3 DEF TaskInv

\* Every operation on the tasks keeps their invariant.
LEMMA TaskNextKeeps == ASSUME TaskInv, [TaskNext]_taskVars PROVE TaskInv'
<1>1. active \subseteq Tasks /\ past \subseteq Tasks
  BY DEF TaskInv, TaskTypeOK
<1>2. CASE UNCHANGED taskVars
  BY <1>1, <1>2, AsideKeeps DEF taskVars, shown, clients
<1>3. ASSUME NEW t \in Tasks, NEW rings \in BOOLEAN, Claim(t, rings) \/ ClaimUnknown(t, rings) PROVE TaskInv'
  BY <1>3, ClaimKeeps, ClaimUnknownKeeps
<1>4. ASSUME NEW t \in Tasks, Activate(t) \/ Abandon(t) PROVE TaskInv'
  BY <1>4, ActivateKeeps, AbandonKeeps
<1>5. ASSUME NEW t \in Tasks, KeyExpires(t) \/ ClockPasses(t) \/ Dequeue(t) PROVE TaskInv'
  BY <1>1, <1>5, AsideKeeps DEF KeyExpires, ClockPasses, Dequeue
<1>6. ASSUME NEW t \in Tasks, NEW rev, CancelEvent(t, rev) PROVE TaskInv'
  BY <1>6, CancelEventKeeps
<1>7. ASSUME NEW t \in Tasks, NEW display \in Displays, Refresh(t, display) PROVE TaskInv'
  BY <1>7, RefreshKeeps
<1>8. ASSUME NEW t \in Tasks, NEW q \in Requests, NEW op \in Ops, NEW rev \in Nat,
             NEW hash \in Requests \cup {NoCard}, Send(q, t, op, rev, hash)
      PROVE  TaskInv'
  BY <1>8, SendKeeps
<1>9. ASSUME NEW q \in Requests, Expire(q) \/ PutCard(q) \/ Complete(q) PROVE TaskInv'
  BY <1>9, ExpireKeeps, PutCardKeeps, CompleteKeeps
<1> QED BY <1>2, <1>3, <1>4, <1>5, <1>6, <1>7, <1>8, <1>9 DEF TaskNext

\* What the publisher is shown follows from the invariant.
LEMMA TaskInvShows == ASSUME TaskInv PROVE ShowsOneCard
<1> SUFFICES ASSUME NEW t \in Tasks
             PROVE /\ Shows(t) => (ClaimVisible(t) <=> ~WorkVisible(t))
                   /\ task[t].state = "DONE" => WorkVisible(t)
                   /\ ~Shows(t) /\ task[t].state # "DONE" => ~ClaimVisible(t) /\ ~WorkVisible(t)
  BY DEF ShowsOneCard
<1>1. TaskOK(t)
  BY DEF TaskInv
<1> QED BY <1>1 DEF TaskOK, Shows, ClaimVisible, WorkVisible

\* So do the agreement of the index, of the inboxes and of the requests with the records.
LEMMA TaskInvAgrees == ASSUME TaskInv PROVE IndexIsTask /\ DeliveredOnce /\ AppliedOnce
<1>1. \A t \in Tasks : TaskOK(t)
  BY DEF TaskInv
<1>2. IndexIsTask /\ DeliveredOnce
  BY <1>1 DEF TaskOK, IndexIsTask, DeliveredOnce
<1>3. \A q \in Requests : applied[q] <= 1
  BY DEF TaskInv, RequestOK
<1> QED BY <1>1, <1>2, <1>3 DEF TaskOK, AppliedOnce

\* Nothing of task t changes that the end of a task fixes.
Rests(t) == task'[t] = task[t] /\ card'[t] = card[t] /\ work'[t] = work[t] /\ t \notin ring'

\* A task that has ended stays as it is under every operation.
LEMMA EndedRests == ASSUME TaskInv, [TaskNext]_taskVars, NEW t \in Tasks, task[t].state \in Terminal
                    PROVE  Rests(t)
<1>1. TaskTypeOK /\ t \notin ring
  BY DEF TaskInv, TaskOK
<1>2. task[t] # NoRecord /\ task[t] # Prepared /\ task[t].state \notin {"none", "PREPARED", "OPEN"}
  BY RecordsAre DEF Terminal
<1>3. CASE UNCHANGED taskVars
  BY <1>1, <1>3 DEF taskVars, shown, Rests
<1>4. ASSUME NEW u \in Tasks, NEW landed, task[u] = NoRecord, Land(u, landed), UNCHANGED work PROVE Rests(t)
  BY <1>1, <1>2, <1>4 DEF Land, Rests, TaskTypeOK
<1>5. ASSUME NEW u \in Tasks, NEW rings \in BOOLEAN, Claim(u, rings) \/ ClaimUnknown(u, rings) PROVE Rests(t)
  BY <1>4, <1>5 DEF Claim, ClaimUnknown
<1>6. ASSUME NEW u \in Tasks, Activate(u) PROVE Rests(t)
  BY <1>1, <1>2, <1>6 DEF Activate, Activates, Rests, TaskTypeOK, shown
<1>7. ASSUME NEW u \in Tasks, \/ Abandon(u) \/ KeyExpires(u) \/ ClockPasses(u) \/ Dequeue(u) PROVE Rests(t)
  BY <1>1, <1>7 DEF Abandon, KeyExpires, ClockPasses, Dequeue, Rests, shown
<1>8. ASSUME NEW u \in Tasks, NEW state, task[u].state \in {"PREPARED", "OPEN"}, Terminate(u, state)
      PROVE  Rests(t)
  BY <1>1, <1>2, <1>8 DEF Terminate, Rests, TaskTypeOK
<1>9. ASSUME NEW u \in Tasks, NEW rev, CancelEvent(u, rev) PROVE Rests(t)
  BY <1>8, <1>9 DEF CancelEvent
<1>10. ASSUME NEW u \in Tasks, NEW display \in Displays, Refresh(u, display) PROVE Rests(t)
  BY <1>1, <1>2, <1>10 DEF Refresh, Refreshes, Rests, TaskTypeOK
<1>11. ASSUME NEW u \in Tasks, NEW q, NEW op, NEW rev, NEW hash, Send(q, u, op, rev, hash) PROVE Rests(t)
  BY <1>1, <1>11 DEF Send, Rests, shown
<1>12. ASSUME NEW q \in Requests, Expire(q) \/ PutCard(q) \/ Complete(q) PROVE Rests(t)
  <2>1. request[q].task \in Tasks
    BY <1>1 DEF TaskTypeOK, RequestType
  <2>2. CASE Expire(q)
    BY <1>8, <2>1, <2>2 DEF Expire
  <2>3. CASE PutCard(q)
    BY <1>1, <1>2, <2>1, <2>3 DEF PutCard, OnTime, Rests, TaskTypeOK
  <2>4. CASE Complete(q)
    BY <1>1, <1>2, <2>1, <2>4 DEF Complete, OnTime, Rests, TaskTypeOK
  <2> QED BY <1>12, <2>2, <2>3, <2>4
<1> QED BY <1>3, <1>5, <1>6, <1>7, <1>9, <1>10, <1>11, <1>12 DEF TaskNext

-----------------------------------------------------------------------------
(* What is said, and what a tick has in hand.                              *)

\* The steps of a tick that serves an event; of them, those that go by a copy of
\* the proposal, those that go through the agents, and those that are at one agent.
Keeping == {"keep", "close", "drop", "supersede"}
AtAgent == {"route", "claim", "open", "after"}
Serving == {"agents"} \cup AtAgent
Working == {"event", "mark", "propose", "cards"} \cup Keeping \cup Serving

\* Events are in the order of time.  The chair's voice reads back an earlier ask,
\* in the same unit of time; a revocation names one task.
SaidOK ==
    /\ Len(said) <= MaxSaid
    /\ \A i \in Turns :
         /\ said[i].at <= clock
         /\ \A j \in Turns : i <= j => said[i].at <= said[j].at
         /\ said[i].kind = "spoken" => said[i].of \in 1..(i - 1) /\ said[said[i].of].at = said[i].at
         /\ said[i].kind = "revoke" => \E t \in Tasks : said[i].of = t[1] /\ said[i].to = {t[2]}

\* A proposal is of an ask that was said; once it is spoken, the chair's voice
\* read it back for these voices.
PropOK(p) ==
    p.of # 0 =>
      /\ p.of \in Turns /\ said[p.of].kind = "ask" /\ p.to # {}
      /\ p.spoken # 0 =>
           /\ p.spoken \in Turns /\ p.of < p.spoken /\ said[p.spoken].kind = "spoken"
           /\ said[p.spoken].of = p.of /\ p.to \subseteq said[p.spoken].to

LocalFor(T) ==
    /\ T.now <= clock
    /\ T.at \in Working => T.e >= 1 /\ T.e <= T.upto /\ T.upto <= Len(said)
    /\ T.at \in Keeping => T.held.of # 0 /\ PropOK(T.held)
    /\ T.at = "keep" => /\ said[T.e].kind = "spoken" /\ said[T.e].of = T.held.of
                        /\ said[T.e].to = T.held.to
    /\ T.at \in {"supersede", "propose", "cards"} => said[T.e].kind = "ask" /\ said[T.e].to # {}
    /\ T.at \in Serving => T.todo = {} \/ T.src >= 1
    /\ T.at \in AtAgent => T.t[1] = T.src /\ T.t[2] \in T.todo
    /\ T.at = "route" => T.to[2] = T.t[2] /\ T.to[1] < T.t[1]

WordsOK == /\ mode \in Modes /\ said \in Seq(Event) /\ clock \in 0..mode.time /\ acks \subseteq Tasks
           /\ SaidOK
Asked == [of : 0..MaxSaid, to : SUBSET Agents]
Proposal == [of : 0..MaxSaid, to : SUBSET Agents, spoken : 0..MaxSaid]
AskedOK == /\ pending \in Asked /\ readback \in Asked /\ proposal \in Proposal
           /\ offer \in [Tasks -> Offers]
           /\ PropOK(proposal) /\ (readback.of # 0 => readback.of \in Turns)
LivingOK == routed \subseteq Tasks /\ revise \in [Tasks -> Seq(1..MaxSaid)]
BellOK == /\ wake \in [Tasks -> [state : WakeStates, due : BOOLEAN]]
          /\ rows \in [Tasks -> [first : Nat, second : Nat]]
RunOK == /\ lock \in Bridges \cup {Nobody} /\ settle \in [Bridges -> SettleType]
         /\ faults \in 0..mode.faults /\ lapses \in 0..mode.lapses
TicksOK == tick \in [Bridges -> TickType] /\ \A b \in Bridges : LocalFor(tick[b])

RoomInv == /\ TaskInv /\ WordsOK /\ cursor \in 0..Len(said)
           /\ AskedOK /\ LivingOK /\ BellOK /\ RunOK /\ TicksOK

\* The tasks: one turn of the room, for one agent.
LEMMA TasksAre == /\ Tasks = (1..MaxSaid) \X Agents /\ MaxSaid \in Nat /\ MaxSaid >= 1
                  /\ Tasks # {} /\ SomeTask \in Tasks
<1>1. MaxSaid \in Nat /\ MaxSaid >= 1 /\ 1 \in 1..MaxSaid
  BY TasksAssumption
<1>2. PICK a : a \in Agents
  BY TasksAssumption
<1>3. <<1, a>> \in Tasks
  BY <1>1, <1>2, TasksAssumption
<1> QED BY <1>1, <1>3, TasksAssumption DEF SomeTask

\* A task is the pair of its turn and its agent.
LEMMA TaskIs == ASSUME NEW t \in Tasks PROVE t[1] \in 1..MaxSaid /\ t[2] \in Agents /\ t = <<t[1], t[2]>>
  BY TasksAre

\* A turn and an agent make a task.
LEMMA TaskMade == ASSUME NEW e \in 1..MaxSaid, NEW a \in Agents
                  PROVE  <<e, a>> \in Tasks /\ <<e, a>>[1] = e /\ <<e, a>>[2] = a
  BY TasksAre

\* What a bridge is started with.
LEMMA ModeIs == ASSUME RoomInv
    PROVE /\ mode \in ModeType /\ mode.time \in Nat /\ mode.said \in 0..MaxSaid /\ mode.doorbell \in BOOLEAN
          /\ mode.faults \in Nat /\ mode.lapses \in Nat /\ mode.requests \subseteq Requests
          /\ mode.ops \subseteq Ops
          /\ mode.readback \in BOOLEAN /\ mode.bridges \subseteq Bridges
          /\ \A w \in mode.words : w.kind \in {"ask", "go", "cancel"} /\ w.to \subseteq Agents
<1>1. mode \in ModeType
  BY ModesAssumption DEF RoomInv, WordsOK
<1> QED BY <1>1 DEF ModeType

\* The turns of the room, as far as they have been said and consumed.
LEMMA WordsAre == ASSUME RoomInv
    PROVE /\ Len(said) \in Nat /\ Len(said) <= MaxSaid /\ Turns = 1..Len(said) /\ clock \in Nat
          /\ cursor \in Nat /\ cursor <= Len(said)
          /\ \A i \in Turns : /\ said[i] \in Event /\ said[i].kind \in Kinds /\ said[i].to \subseteq Agents
                              /\ said[i].of \in 0..MaxSaid /\ said[i].rev \in Nat /\ said[i].at \in Nat
<1>1. said \in Seq(Event) /\ Len(said) \in Nat /\ Turns = 1..Len(said)
  BY DEF RoomInv, WordsOK, Turns
<1>2. \A i \in Turns : said[i] \in Event
  BY <1>1
<1>3. clock \in Nat /\ Len(said) <= MaxSaid /\ cursor \in Nat /\ cursor <= Len(said)
  BY <1>1, ModeIs DEF RoomInv, WordsOK, SaidOK
<1> QED BY <1>1, <1>2, <1>3 DEF Event

\* The states that nothing is under way in.
LEMMA RestIs == /\ NoProposal \in Proposal /\ Nothing \in Asked /\ NoProposal.of = 0 /\ Nothing.of = 0
                /\ Idle \in TickType /\ Off \in TickType /\ Quiet \in SettleType
                /\ Idle.at = "idle" /\ Off.at = "off" /\ Idle.now = 0 /\ Off.now = 0
<1>1. /\ NoProposal \in Proposal /\ Nothing \in Asked /\ NoProposal.of = 0 /\ Nothing.of = 0
  BY TasksAre DEF NoProposal, Nothing, Proposal, Asked
<1>2. Idle \in TickType /\ Idle.at = "idle" /\ Idle.now = 0
  BY <1>1, TasksAre DEF Idle, TickType, Steps, Proposal, Displays
<1>3. Off \in TickType /\ Off.at = "off" /\ Off.now = 0
  BY <1>2 DEF Off, TickType, Steps
<1>4. Quiet \in SettleType
  BY TasksAre DEF Quiet, SettleType, WakeStates
<1> QED BY <1>1, <1>2, <1>3, <1>4

\* Nothing has been said and no bridge runs.
LEMMA RoomInit == ASSUME Init PROVE RoomInv
<1>1. TaskInv
  BY TasksAre, TaskInitOK DEF Init
<1>2. mode \in ModeType /\ said = <<>> /\ Len(said) = 0 /\ Turns = {}
  BY ModesAssumption DEF Init, Turns
<1>3. WordsOK
  BY <1>2, TasksAre DEF Init, WordsOK, SaidOK, ModeType
<1>4. AskedOK
  BY RestIs DEF Init, AskedOK, PropOK, Offers
<1>5. LivingOK /\ BellOK
  BY DEF Init, LivingOK, BellOK, NoWake, WakeStates
<1>6. RunOK
  BY <1>2, RestIs DEF Init, RunOK, ModeType
<1>7. LocalFor(Off)
  BY RestIs, <1>2 DEF Init, LocalFor, Working, Keeping, Serving, AtAgent
<1>8. TicksOK
  BY <1>7, RestIs DEF Init, TicksOK
<1> QED BY <1>1, <1>2, <1>3, <1>4, <1>5, <1>6, <1>8 DEF RoomInv, Init

\* What a step leaves alone stays as it is.
LEMMA FramesStand ==
    ASSUME RoomInv
    PROVE /\ [TaskNext]_taskVars => TaskInv'
          /\ UNCHANGED <<mode, words>> => WordsOK'
          /\ UNCHANGED <<mode, words, asked>> => AskedOK'
          /\ UNCHANGED living => LivingOK'
          /\ UNCHANGED bell => BellOK'
          /\ UNCHANGED <<mode, lock, settle, bounds>> => RunOK'
<1>1. [TaskNext]_taskVars => TaskInv'
  BY TaskNextKeeps DEF RoomInv
<1>2. UNCHANGED <<mode, words>> => WordsOK'
  BY DEF RoomInv, WordsOK, SaidOK, words, Turns
<1>3. UNCHANGED <<mode, words, asked>> => AskedOK'
  BY DEF RoomInv, AskedOK, PropOK, words, asked, Turns
<1>4. UNCHANGED living => LivingOK'
  BY DEF RoomInv, LivingOK, living
<1>5. UNCHANGED bell => BellOK'
  BY DEF RoomInv, BellOK, bell
<1>6. UNCHANGED <<mode, lock, settle, bounds>> => RunOK'
  BY DEF RoomInv, RunOK, bounds
<1> QED BY <1>1, <1>2, <1>3, <1>4, <1>5, <1>6

\* Only the acting execution has to be looked at.
LEMMA OneTickSteps ==
    ASSUME RoomInv, NEW b \in Bridges, NEW T \in TickType, LocalFor(T), tick' = [tick EXCEPT ![b] = T],
           [TaskNext]_taskVars, UNCHANGED <<mode, words>>, cursor' \in 0..Len(said),
           AskedOK', LivingOK', BellOK', RunOK'
    PROVE  RoomInv'
<1>1. TaskInv' /\ WordsOK'
  BY FramesStand
<1>2. cursor' \in 0..Len(said')
  BY DEF words
<1>3. TicksOK'
  <2>1. tick' \in [Bridges -> TickType]
    BY DEF RoomInv, TicksOK
  <2>2. ASSUME NEW u \in Bridges PROVE LocalFor(tick'[u])
    <3>1. tick'[u] = T \/ tick'[u] = tick[u]
      BY DEF RoomInv, TicksOK
    <3> QED BY <3>1 DEF RoomInv, TicksOK
  <2>3. UNCHANGED <<said, clock>>
    BY DEF words
  <2> QED BY <2>1, <2>2, <2>3 DEF TicksOK, LocalFor, PropOK, Turns
<1> QED BY <1>1, <1>2, <1>3 DEF RoomInv

\* What a bridge knows during its tick, part by part.
LEMMA TickIs == ASSUME RoomInv, NEW b \in Bridges
    PROVE /\ tick[b] \in TickType /\ LocalFor(tick[b])
          /\ tick[b].e \in Nat /\ tick[b].e <= MaxSaid /\ tick[b].upto \in Nat /\ tick[b].upto <= MaxSaid
          /\ tick[b].src \in 0..MaxSaid /\ tick[b].todo \subseteq Agents /\ tick[b].held \in Proposal
          /\ tick[b].t \in Tasks /\ tick[b].to \in Tasks /\ tick[b].now \in Nat
          /\ tick[b].retire \in BOOLEAN /\ tick[b].display \in Displays /\ tick[b].left \subseteq Tasks
<1>1. tick[b] \in TickType /\ LocalFor(tick[b])
  BY DEF RoomInv, TicksOK
<1> QED BY <1>1, TasksAre DEF TickType, Proposal

\* What a bridge knows during its board pass.
LEMMA SettleIs == ASSUME RoomInv, NEW b \in Bridges
    PROVE settle[b] \in SettleType /\ settle[b].t \in Tasks /\ settle[b].seen \in WakeStates
  BY DEF RoomInv, RunOK, SettleType

\* A tick that only goes on to another step.
LEMMA GoIs == ASSUME RoomInv, NEW b \in Bridges, NEW step \in Steps, Go(b, step)
    PROVE \E T \in TickType :
            /\ tick' = [tick EXCEPT ![b] = T] /\ T = [tick[b] EXCEPT !.at = step] /\ T.at = step
            /\ T.now = tick[b].now /\ T.upto = tick[b].upto /\ T.e = tick[b].e /\ T.src = tick[b].src
            /\ T.todo = tick[b].todo /\ T.go = tick[b].go /\ T.t = tick[b].t /\ T.to = tick[b].to
            /\ T.retire = tick[b].retire /\ T.left = tick[b].left /\ T.held = tick[b].held
            /\ T.display = tick[b].display
<1>1. PICK T : T = [tick[b] EXCEPT !.at = step]
  OBVIOUS
<1>2. tick[b] \in TickType /\ tick' = [tick EXCEPT ![b] = T]
  BY <1>1, TickIs DEF Go, RoomInv, TicksOK
<1>3. T \in TickType
  BY <1>1, <1>2 DEF TickType
<1> QED BY <1>1, <1>2, <1>3 DEF TickType

\* A proposal that is kept is of a turn that was said.
LEMMA KeptIs == ASSUME RoomInv, NEW of \in 1..MaxSaid, of \in Turns, NEW to \in SUBSET Agents,
                       NEW spoken \in 0..MaxSaid, Kept(of, to, spoken), UNCHANGED said
    PROVE /\ proposal' = [of |-> of, to |-> to, spoken |-> spoken] /\ proposal' \in Proposal
          /\ readback' \in Asked /\ (readback'.of # 0 => readback'.of \in Turns')
<1>1. proposal' \in Proposal /\ [of |-> of, to |-> to] \in Asked
  BY TasksAre DEF Kept, Proposal, Asked
<1>2. readback' = Nothing \/ readback' = [of |-> of, to |-> to]
  BY DEF Kept
<1> QED BY <1>1, <1>2, RestIs DEF Kept, Turns

\* A proposal that is dropped leaves none.
LEMMA DroppedIs == ASSUME Dropped
    PROVE /\ proposal' = NoProposal /\ proposal' \in Proposal /\ readback' \in Asked
          /\ proposal'.of = 0 /\ readback'.of = 0
  BY RestIs DEF Dropped

\* What is left of a proposal that is closed for some voices, and of its cards.
LEMMA ClosedIs == ASSUME RoomInv, NEW of, NEW to, NEW retire, of # 0,
                         Closed(of, to, retire), UNCHANGED <<said, pending>>
    PROVE /\ \/ UNCHANGED <<proposal, readback>>
             \/ proposal' = NoProposal /\ readback' = Nothing
             \/ /\ proposal.of = of /\ proposal.of # 0
                /\ proposal'.of = proposal.of /\ proposal'.to = proposal.to \ to /\ proposal'.to # {}
                /\ proposal'.spoken = proposal.spoken \/ proposal'.spoken = 0
          /\ (proposal.of = of /\ proposal.to \subseteq to) => proposal' = NoProposal
          /\ offer' \in [Tasks -> Offers]
          /\ \A t \in Tasks : \/ offer'[t] = offer[t]
                              \/ offer[t] = "proposed" /\ offer'[t] = "unstarted"
                              \/ /\ offer[t] = "proposed" /\ offer'[t] = "none"
                                 /\ \/ task[t] # NoRecord
                                    \/ retire /\ t[1] = of /\ t[2] \in to
          /\ AskedOK'
<1>1. /\ proposal \in Proposal /\ readback \in Asked /\ offer \in [Tasks -> Offers] /\ pending \in Asked
      /\ PropOK(proposal) /\ (readback.of # 0 => readback.of \in Turns)
  BY DEF RoomInv, AskedOK
<1>2. offer' = [t \in Tasks |->
          IF t[1] # of \/ t[2] \notin to \/ offer[t] # "proposed" THEN offer[t]
          ELSE IF retire \/ task[t] # NoRecord THEN "none" ELSE "unstarted"]
  BY DEF Closed
<1>3. offer' \in [Tasks -> Offers]
  BY <1>1, <1>2 DEF Offers
<1>4. ASSUME NEW t \in Tasks PROVE
          \/ offer'[t] = offer[t]
          \/ offer[t] = "proposed" /\ offer'[t] = "unstarted"
          \/ /\ offer[t] = "proposed" /\ offer'[t] = "none"
             /\ \/ task[t] # NoRecord
                \/ retire /\ t[1] = of /\ t[2] \in to
  BY <1>2
<1>5. CASE proposal.of # of
  <2>1. UNCHANGED <<proposal, readback>>
    BY <1>5 DEF Closed
  <2> QED BY <2>1, <1>1, <1>3, <1>4, <1>5 DEF AskedOK, PropOK, Turns
<1>6. CASE proposal.of = of /\ proposal.to \subseteq to
  <2>1. proposal' = NoProposal /\ readback' = Nothing
    BY <1>6 DEF Closed, Dropped
  <2> QED BY <2>1, <1>1, <1>3, <1>4, RestIs DEF AskedOK, PropOK, Turns
<1>7. CASE proposal.of = of /\ ~(proposal.to \subseteq to)
  <2>1. PICK spoken : spoken = IF proposal.to \cap to = {} THEN proposal.spoken ELSE 0
    OBVIOUS
  <2>2. Kept(of, proposal.to \ to, spoken)
    BY <1>7, <2>1 DEF Closed
  <2>3. /\ of \in Turns /\ of \in 1..MaxSaid /\ proposal.to \ to \in SUBSET Agents /\ spoken \in 0..MaxSaid
    BY <1>1, <1>7, <2>1, TasksAre DEF PropOK, Proposal
  <2>4. /\ proposal' = [of |-> of, to |-> proposal.to \ to, spoken |-> spoken] /\ proposal' \in Proposal
        /\ readback' \in Asked /\ (readback'.of # 0 => readback'.of \in Turns')
    BY <2>2, <2>3, KeptIs
  <2>5. /\ proposal'.of = of /\ proposal'.to = proposal.to \ to /\ proposal'.spoken = spoken
    BY <2>4
  <2>6. PropOK(proposal)'
    BY <1>1, <1>7, <2>1, <2>5 DEF PropOK, Turns
  <2> QED BY <1>1, <1>3, <1>4, <1>7, <2>1, <2>4, <2>5, <2>6 DEF AskedOK
<1> QED BY <1>5, <1>6, <1>7

\* The tick of one execution moves, in a step that leaves the rest of the world alone
\* but for the tasks and what the owner is asked.
LEMMA RoomStep ==
    ASSUME RoomInv, NEW b \in Bridges, NEW T \in TickType, LocalFor(T), tick' = [tick EXCEPT ![b] = T],
           [TaskNext]_taskVars, UNCHANGED <<mode, words, living, bell, lock, settle>>,
           cursor' \in 0..Len(said), AskedOK' \/ UNCHANGED asked,
           faults' \in 0..mode.faults, UNCHANGED lapses
    PROVE  RoomInv'
<1>1. AskedOK' /\ LivingOK' /\ BellOK'
  BY FramesStand
<1>2. RunOK'
  BY DEF RoomInv, RunOK
<1> QED BY <1>1, <1>2, OneTickSteps

\* The bound on faults.
LEMMA FaultIs == ASSUME RoomInv, Fault PROVE faults' \in 0..mode.faults
  BY ModeIs DEF RoomInv, RunOK, Fault

\* The counters are within their bounds.
LEMMA BoundsAre == ASSUME RoomInv
                   PROVE  faults \in 0..mode.faults /\ lapses \in 0..mode.lapses /\ cursor \in 0..Len(said)
  BY DEF RoomInv, RunOK

\* The schedule starts an execution.
LEMMA LaunchTyped == ASSUME RoomInv, NEW b \in Bridges, Launch(b) PROVE RoomInv'
<1>1. UNCHANGED <<taskVars, mode, words, cursor, asked, living, bell, settle, bounds>> /\ lock' = b
  BY DEF Launch
<1>2. AskedOK' /\ LivingOK' /\ BellOK' /\ cursor' \in 0..Len(said)
  BY <1>1, FramesStand, BoundsAre
<1>3. RunOK'
  BY <1>1 DEF RoomInv, RunOK, bounds
<1>4. CASE Alive(b)
  <2>1. tick' = [tick EXCEPT ![b] = tick[b]]
    BY <1>4 DEF Launch, RoomInv, TicksOK
  <2> QED BY <1>1, <1>2, <1>3, <2>1, TickIs, OneTickSteps
<1>5. CASE ~Alive(b)
  <2>1. PICK T \in TickType : /\ tick' = [tick EXCEPT ![b] = T] /\ T.at = "idle" /\ T.now = tick[b].now
    BY <1>5, GoIs DEF Launch, Steps
  <2>2. LocalFor(T)
    BY <2>1, TickIs DEF LocalFor, Working, Keeping, Serving, AtAgent
  <2> QED BY <1>1, <1>2, <1>3, <2>1, <2>2, OneTickSteps
<1> QED BY <1>4, <1>5

\* A tick that is over, or has not begun.
LEMMA RestLocal == ASSUME RoomInv PROVE LocalFor(Idle) /\ LocalFor(Off)
  BY RestIs, WordsAre DEF LocalFor, Working, Keeping, Serving, AtAgent

\* An execution ends.
LEMMA EndTyped == ASSUME RoomInv, NEW b \in Bridges, End(b) PROVE RoomInv'
  BY RestIs, RestLocal, BoundsAre, RoomStep DEF End, bounds

\* An execution that stops abandons the claim it was in.
LEMMA DropsIs == ASSUME RoomInv, NEW b \in Bridges, Drops(b) PROVE [TaskNext]_taskVars
  BY TickIs DEF Drops, TaskNext

\* A tick fails; its execution goes on.
LEMMA FailTyped == ASSUME RoomInv, NEW b \in Bridges, Fail(b) PROVE RoomInv'
<1>1. [TaskNext]_taskVars /\ faults' \in 0..mode.faults
  BY DropsIs, FaultIs DEF Fail
<1> QED BY <1>1, RestIs, RestLocal, BoundsAre, RoomStep DEF Fail

\* An execution dies.
LEMMA DieTyped == ASSUME RoomInv, NEW b \in Bridges, Die(b) PROVE RoomInv'
<1>1. [TaskNext]_taskVars /\ faults' \in 0..mode.faults
  BY DropsIs, FaultIs DEF Die
<1>2. RunOK'
  BY <1>1, RestIs DEF Die, RoomInv, RunOK
<1>3. AskedOK' /\ LivingOK' /\ BellOK'
  BY FramesStand DEF Die
<1> QED BY <1>1, <1>2, <1>3, RestIs, RestLocal, BoundsAre, OneTickSteps DEF Die

\* The lock runs out under a live execution.
LEMMA LapseTyped == ASSUME RoomInv, NEW b \in Bridges, Lapse(b) PROVE RoomInv'
<1>1. RunOK'
  BY ModeIs DEF Lapse, RoomInv, RunOK
<1>2. AskedOK' /\ LivingOK' /\ BellOK'
  BY FramesStand DEF Lapse
<1>3. tick' = [tick EXCEPT ![b] = tick[b]]
  BY DEF Lapse, RoomInv, TicksOK
<1> QED BY <1>1, <1>2, <1>3, TickIs, BoundsAre, OneTickSteps DEF Lapse

\* The next event of a tick, or its sweep.
LEMMA OnwardIs ==
    ASSUME RoomInv, NEW b \in Bridges, NEW e \in Nat, NEW now \in Nat, NEW upto \in Nat,
           now <= clock, upto <= Len(said), Onward(b, e, now, upto)
    PROVE \E T \in TickType :
            /\ tick' = [tick EXCEPT ![b] = T] /\ LocalFor(T) /\ T.now = now
            /\ T.at \in {"event", "sweep"} /\ (T.at = "event" <=> e < upto)
            /\ T.at = "event" => T.e = e + 1 /\ T.upto = upto
            /\ T.todo = {} /\ T.retire = FALSE
<1>1. CASE e < upto
  <2>1. PICK T : T = [Idle EXCEPT !.at = "event", !.now = now, !.e = e + 1, !.upto = upto]
    OBVIOUS
  <2>2. e + 1 \in 0..MaxSaid /\ upto \in 0..MaxSaid
    BY <1>1, WordsAre, TasksAre
  <2>3. /\ T \in TickType /\ T.at = "event" /\ T.now = now /\ T.e = e + 1 /\ T.upto = upto
        /\ T.todo = {} /\ T.retire = FALSE
    BY <2>1, <2>2, RestIs DEF TickType, Steps, Idle
  <2>4. LocalFor(T)
    BY <1>1, <2>3 DEF LocalFor, Working, Keeping, Serving, AtAgent
  <2>5. tick' = [tick EXCEPT ![b] = T]
    BY <1>1, <2>1 DEF Onward
  <2> QED BY <1>1, <2>3, <2>4, <2>5
<1>2. CASE ~(e < upto)
  <2>1. PICK T : T = [Idle EXCEPT !.at = "sweep", !.now = now, !.e = 0, !.upto = 0]
    OBVIOUS
  <2>0. 0 \in 0..MaxSaid
    BY TasksAre
  <2>2. T \in TickType /\ T.at = "sweep" /\ T.now = now /\ T.todo = {} /\ T.retire = FALSE
    BY <2>0, <2>1, RestIs DEF TickType, Steps, Idle
  <2>3. LocalFor(T)
    BY <2>2 DEF LocalFor, Working, Keeping, Serving, AtAgent
  <2>4. tick' = [tick EXCEPT ![b] = T]
    BY <1>2, <2>1 DEF Onward
  <2> QED BY <1>2, <2>2, <2>3, <2>4
<1> QED BY <1>1, <1>2

\* A tick starts, with the turns that are there.
LEMMA LookTyped == ASSUME RoomInv, NEW b \in Bridges, Look(b) PROVE RoomInv'
<1>0. cursor \in Nat /\ clock \in Nat /\ Len(said) \in Nat /\ clock <= clock /\ Len(said) <= Len(said)
  BY WordsAre
<1>2. Onward(b, cursor, clock, Len(said))
  BY DEF Look
<1>1. PICK T \in TickType : tick' = [tick EXCEPT ![b] = T] /\ LocalFor(T)
  BY <1>0, <1>2, OnwardIs
<1> QED BY <1>1, BoundsAre, RoomStep DEF Look, Room

\* The event a tick is at.
LEMMA HeardIs == ASSUME RoomInv, NEW b \in Bridges, tick[b].at \in Working
    PROVE /\ tick[b].e \in Turns /\ tick[b].e \in 1..MaxSaid /\ tick[b].e <= tick[b].upto
          /\ tick[b].upto <= Len(said) /\ tick[b].now <= clock
          /\ Heard(b) = said[tick[b].e] /\ Heard(b) \in Event /\ Heard(b).to \subseteq Agents
  BY TickIs, WordsAre DEF LocalFor, Heard

\* A turn is consumed and the next one taken up.
LEMMA MarkTyped == ASSUME RoomInv, NEW b \in Bridges, Mark(b) PROVE RoomInv'
<1>1. tick[b].at \in Working
  BY DEF Mark, At, Working
<1>2. PICK T \in TickType : tick' = [tick EXCEPT ![b] = T] /\ LocalFor(T)
  BY <1>1, HeardIs, TickIs, OnwardIs DEF Mark
<1>3. cursor' \in 0..Len(said)
  BY <1>1, HeardIs, WordsAre DEF Mark
<1> QED BY <1>2, <1>3, BoundsAre, RoomStep DEF Mark, Room

\* A tick that has served its event, or goes on with it.
LEMMA GoLocal == ASSUME RoomInv, NEW b \in Bridges, tick[b].at \in Working, NEW T \in TickType,
                        T.at = "mark", T.now = tick[b].now, T.upto = tick[b].upto, T.e = tick[b].e
                 PROVE  LocalFor(T)
  BY TickIs DEF LocalFor, Working, Keeping, Serving, AtAgent

\* A turn that needs no more than its mark.
LEMMA ToMark == ASSUME RoomInv, NEW b \in Bridges, tick[b].at \in Working, Go(b, "mark")
                PROVE  \E T \in TickType : /\ tick' = [tick EXCEPT ![b] = T] /\ LocalFor(T) /\ T.at = "mark"
                                           /\ T.e = tick[b].e /\ T.now = tick[b].now
<1>1. PICK T \in TickType : /\ tick' = [tick EXCEPT ![b] = T] /\ T.at = "mark" /\ T.now = tick[b].now
                            /\ T.upto = tick[b].upto /\ T.e = tick[b].e
  BY GoIs DEF Steps
<1> QED BY <1>1, GoLocal

\* A typed revocation.
LEMMA RevokeTyped == ASSUME RoomInv, NEW b \in Bridges, Revoke(b) PROVE RoomInv'
<1>1. tick[b].at \in Working /\ Heard(b).kind = "revoke"
  BY DEF Revoke, Hears, At, Working
<1>2. PICK T \in TickType : tick' = [tick EXCEPT ![b] = T] /\ LocalFor(T)
  BY <1>1, ToMark DEF Revoke
<1>3. PICK t \in Tasks : Heard(b).of = t[1] /\ Heard(b).to = {t[2]}
  BY <1>1, HeardIs DEF RoomInv, WordsOK, SaidOK
<1>4. <<Heard(b).of, CHOOSE a \in Heard(b).to : TRUE>> = t
  <2>1. (CHOOSE a \in {t[2]} : TRUE) = t[2]
    OBVIOUS
  <2> QED BY <1>3, <2>1, TaskIs
<1>5. Heard(b).rev \in Nat
  BY <1>1, HeardIs DEF Event
<1>6. CancelEvent(t, Heard(b).rev) \/ UNCHANGED taskVars
  BY <1>4 DEF Revoke
<1>7. [TaskNext]_taskVars
  BY <1>5, <1>6 DEF TaskNext
<1> QED BY <1>2, <1>7, BoundsAre, RoomStep DEF Revoke, bounds

\* A step that goes by a copy of the proposal.
LEMMA HoldsCopy == ASSUME RoomInv, NEW b \in Bridges, tick[b].at = "event", NEW T \in TickType,
                          T.at \in {"close", "drop", "supersede"}, T.now = tick[b].now, T.upto = tick[b].upto,
                          T.e = tick[b].e, T.held = proposal, proposal.of # 0,
                          T.at = "supersede" => Heard(b).kind = "ask" /\ Heard(b).to # {}
                   PROVE  LocalFor(T)
<1>1. PropOK(T.held)
  BY DEF RoomInv, AskedOK
<1> QED BY <1>1, TickIs, HeardIs DEF LocalFor, Working, Keeping, Serving, AtAgent

\* The tick goes on to a step with a copy of the proposal.
Copies(b, step) == tick' = [tick EXCEPT ![b].at = step, ![b].held = proposal]

\* A step that copies the proposal and goes on from the copy.
LEMMA CopiesIs == ASSUME RoomInv, NEW b \in Bridges, NEW step \in Steps, Copies(b, step)
    PROVE \E T \in TickType :
            /\ tick' = [tick EXCEPT ![b] = T] /\ T.at = step /\ T.held = proposal
            /\ T.now = tick[b].now /\ T.upto = tick[b].upto /\ T.e = tick[b].e
<1>1. PICK T : T = [tick[b] EXCEPT !.at = step, !.held = proposal]
  OBVIOUS
<1>2. tick[b] \in TickType
  BY TickIs
<1>3. proposal \in [of : 0..MaxSaid, to : SUBSET Agents, spoken : 0..MaxSaid]
  BY DEF RoomInv, AskedOK, Proposal
<1>4. T = [at |-> step, now |-> tick[b].now, upto |-> tick[b].upto, e |-> tick[b].e, src |-> tick[b].src,
           todo |-> tick[b].todo, go |-> tick[b].go, t |-> tick[b].t, to |-> tick[b].to,
           retire |-> tick[b].retire, left |-> tick[b].left, held |-> proposal, display |-> tick[b].display]
  BY <1>1, <1>2 DEF TickType
<1>5. /\ T \in TickType /\ T.at = step /\ T.held = proposal /\ T.now = tick[b].now /\ T.upto = tick[b].upto
      /\ T.e = tick[b].e
  BY <1>2, <1>3, <1>4 DEF TickType
<1>6. tick' = [tick EXCEPT ![b] = T]
  BY <1>1 DEF Copies, RoomInv, TicksOK
<1> QED BY <1>5, <1>6

\* What the chair read back was asked before.
LEMMA SpokenIs == ASSUME RoomInv, NEW b \in Bridges, tick[b].at \in Working, said[tick[b].e].kind = "spoken"
                  PROVE  Heard(b).of \in 1..(tick[b].e - 1) /\ said[Heard(b).of].at = Heard(b).at
<1>1. tick[b].e \in Turns /\ Heard(b) = said[tick[b].e]
  BY HeardIs
<1> QED BY <1>1 DEF RoomInv, WordsOK, SaidOK

\* The chair has read an ask back.
LEMMA SpokenTyped == ASSUME RoomInv, NEW b \in Bridges, Spoken(b) PROVE RoomInv'
<1>1. tick[b].at = "event" /\ tick[b].at \in Working /\ Heard(b).kind = "spoken"
  BY DEF Spoken, Hears, At, Working
<1>2. CASE Go(b, "mark")
  BY <1>1, <1>2, ToMark, BoundsAre, RoomStep DEF Spoken, Room
<1>3. CASE /\ proposal.of = Heard(b).of /\ proposal.to = Heard(b).to
           /\ tick' = [tick EXCEPT ![b].at = "keep", ![b].held = proposal]
  <2>1. Copies(b, "keep")
    BY <1>3 DEF Copies
  <2>2. PropOK(proposal)
    BY DEF RoomInv, AskedOK
  <2>3. PICK T \in TickType :
            /\ tick' = [tick EXCEPT ![b] = T] /\ T.at = "keep" /\ T.held = proposal
            /\ T.now = tick[b].now /\ T.upto = tick[b].upto /\ T.e = tick[b].e
    BY <2>1, CopiesIs DEF Steps
  <2>5. proposal.of # 0
    <3>1. Heard(b).of \in 1..(tick[b].e - 1)
      BY <1>1, HeardIs, SpokenIs
    <3> QED BY <1>3, <3>1
  <2>6. LocalFor(T)
    BY <1>1, <1>3, <2>2, <2>3, <2>5, HeardIs DEF LocalFor, Working, Keeping, Serving, AtAgent
  <2> QED BY <2>3, <2>6, BoundsAre, RoomStep DEF Spoken, Room
<1> QED BY <1>2, <1>3 DEF Spoken

\* The read-back is kept in the proposal.
LEMMA KeepTyped == ASSUME RoomInv, NEW b \in Bridges, Keep(b) PROVE RoomInv'
<1>1. tick[b].at = "keep" /\ tick[b].at \in Working
  BY DEF Keep, At, Working, Keeping
<1>2. PICK T \in TickType : tick' = [tick EXCEPT ![b] = T] /\ LocalFor(T)
  BY <1>1, ToMark DEF Keep
<1>3. PICK p : p = tick[b].held
  OBVIOUS
<1>4. /\ p \in Proposal /\ p.of \in Turns /\ said[p.of].kind = "ask" /\ p.to # {} /\ p.of # 0
      /\ said[tick[b].e].kind = "spoken" /\ said[tick[b].e].of = p.of /\ said[tick[b].e].to = p.to
  BY <1>1, <1>3, TickIs DEF LocalFor, PropOK, Keeping
<1>5. p.of \in 1..MaxSaid /\ p.to \in SUBSET Agents /\ tick[b].e \in 0..MaxSaid
  BY <1>1, <1>4, HeardIs, TasksAre DEF Proposal
<1>6. Kept(p.of, p.to, tick[b].e) /\ UNCHANGED said
  BY <1>3 DEF Keep, Room, words
<1>7. /\ proposal' = [of |-> p.of, to |-> p.to, spoken |-> tick[b].e] /\ proposal' \in Proposal
      /\ readback' \in Asked /\ (readback'.of # 0 => readback'.of \in Turns')
  BY <1>4, <1>5, <1>6, KeptIs
<1>8. p.of < tick[b].e
  <2>1. Heard(b).of \in 1..(tick[b].e - 1) /\ Heard(b).of = p.of /\ tick[b].e \in Nat
    BY <1>1, <1>4, SpokenIs, HeardIs, TickIs
  <2> QED BY <2>1
<1>9. PropOK(proposal)'
  BY <1>1, <1>4, <1>6, <1>7, <1>8, HeardIs DEF PropOK, Turns
<1>10. AskedOK'
  BY <1>7, <1>9 DEF Keep, RoomInv, AskedOK
<1> QED BY <1>2, <1>10, BoundsAre, RoomStep DEF Keep, Room

\* The owner calls it off.
LEMMA CancelTyped == ASSUME RoomInv, NEW b \in Bridges, Cancel(b) PROVE RoomInv'
<1>1. tick[b].at = "event" /\ tick[b].at \in Working
  BY DEF Cancel, Hears, At, Working
<1>2. AskedOK'
  BY RestIs DEF Cancel, Room, words, RoomInv, AskedOK, PropOK, Turns
<1>3. CASE Go(b, "mark")
  BY <1>1, <1>2, <1>3, ToMark, BoundsAre, RoomStep DEF Cancel, Room
<1>4. CASE /\ proposal.of \in 1..(tick[b].e - 1)
           /\ tick' = [tick EXCEPT ![b].at = "close", ![b].held = proposal]
  <2>1. Copies(b, "close")
    BY <1>4 DEF Copies
  <2>3. PICK T \in TickType :
            /\ tick' = [tick EXCEPT ![b] = T] /\ T.at = "close" /\ T.held = proposal
            /\ T.now = tick[b].now /\ T.upto = tick[b].upto /\ T.e = tick[b].e
    BY <2>1, CopiesIs DEF Steps
  <2>5. proposal.of # 0
    BY <1>4, TickIs
  <2>6. LocalFor(T)
    BY <1>1, <2>3, <2>5, HoldsCopy
  <2> QED BY <1>2, <2>3, <2>6, BoundsAre, RoomStep DEF Cancel, Room
<1> QED BY <1>3, <1>4 DEF Cancel

\* The proposal that was called off is closed.
LEMMA CloseTyped == ASSUME RoomInv, NEW b \in Bridges, Close(b) PROVE RoomInv'
<1>1. tick[b].at = "close" /\ tick[b].at \in Working
  BY DEF Close, At, Working, Keeping
<1>2. PICK T \in TickType : tick' = [tick EXCEPT ![b] = T] /\ LocalFor(T)
  BY <1>1, ToMark DEF Close
<1>3. tick[b].held.of # 0
  BY <1>1, TickIs DEF LocalFor, Keeping
<1>4. AskedOK'
  BY <1>3, ClosedIs DEF Close, Room, words
<1> QED BY <1>2, <1>4, BoundsAre, RoomStep DEF Close, Room

\* The go-ahead is read against the proposal.
LEMMA GoConfirmsTyped == ASSUME RoomInv, NEW b \in Bridges, GoConfirms(b) PROVE RoomInv'
<1>1. tick[b].at = "event" /\ tick[b].at \in Working
  BY DEF GoConfirms, Hears, At, Working
<1>2. UNCHANGED <<Room, cursor, asked, faults>>
  BY DEF GoConfirms
<1>3. proposal.of # 0 => proposal.to \subseteq Agents
  BY DEF RoomInv, AskedOK, Proposal
<1>4. CASE Go(b, "mark")
  BY <1>1, <1>2, <1>4, ToMark, BoundsAre, RoomStep DEF Room
<1>5. CASE proposal.of # 0 /\ Copies(b, "close")
  <2>1. PICK T \in TickType :
            /\ tick' = [tick EXCEPT ![b] = T] /\ T.at = "close" /\ T.held = proposal
            /\ T.now = tick[b].now /\ T.upto = tick[b].upto /\ T.e = tick[b].e
    BY <1>5, CopiesIs DEF Steps
  <2>2. LocalFor(T)
    BY <1>1, <1>5, <2>1, HoldsCopy
  <2> QED BY <1>2, <2>1, <2>2, BoundsAre, RoomStep DEF Room
<1>6. CASE /\ proposal.of # 0
           /\ tick' = [tick EXCEPT ![b].at = "drop", ![b].held = proposal,
                                   ![b].todo = GoAgents(proposal.to, Heard(b).to)]
  <2>1. PICK todo : todo = GoAgents(proposal.to, Heard(b).to)
    OBVIOUS
  <2>2. todo \subseteq Agents
    BY <1>1, <1>3, <1>6, <2>1, HeardIs DEF GoAgents
  <2>3. proposal \in [of : 0..MaxSaid, to : SUBSET Agents, spoken : 0..MaxSaid]
    BY DEF RoomInv, AskedOK, Proposal
  <2>4. tick[b] \in TickType
    BY TickIs
  <2>0. PICK T : T = [tick[b] EXCEPT !.at = "drop", !.held = proposal, !.todo = todo]
    OBVIOUS
  <2>5. T = [at |-> "drop", now |-> tick[b].now, upto |-> tick[b].upto, e |-> tick[b].e,
           src |-> tick[b].src, todo |-> todo, go |-> tick[b].go, t |-> tick[b].t, to |-> tick[b].to,
           retire |-> tick[b].retire, left |-> tick[b].left, held |-> proposal, display |-> tick[b].display]
    BY <2>0, <2>4 DEF TickType
  <2>6. /\ T \in TickType /\ T.at = "drop" /\ T.held = proposal /\ T.now = tick[b].now
        /\ T.upto = tick[b].upto /\ T.e = tick[b].e
    BY <2>2, <2>3, <2>4, <2>5 DEF TickType, Steps
  <2>7. tick' = [tick EXCEPT ![b] = T]
    BY <1>6, <2>0, <2>1 DEF RoomInv, TicksOK
  <2>8. LocalFor(T)
    BY <1>1, <1>6, <2>6, HoldsCopy
  <2> QED BY <1>2, <2>6, <2>7, <2>8, BoundsAre, RoomStep DEF Room
<1> QED BY <1>4, <1>5, <1>6 DEF GoConfirms, Copies

\* An execution that goes through the agents of one ask.
LEMMA ServesLocal == ASSUME RoomInv, NEW b \in Bridges, tick[b].at \in Working, NEW T \in TickType,
                            T.at = "agents", T.now = tick[b].now, T.upto = tick[b].upto, T.e = tick[b].e,
                            T.todo = {} \/ T.src >= 1
                     PROVE  LocalFor(T)
  BY TickIs DEF LocalFor, Working, Keeping, Serving, AtAgent

\* What was confirmed leaves the proposal and is served.
LEMMA DropTyped == ASSUME RoomInv, NEW b \in Bridges, Drop(b) PROVE RoomInv'
<1>1. tick[b].at = "drop" /\ tick[b].at \in Working
  BY DEF Drop, At, Working, Keeping
<1>2. tick[b] \in TickType /\ tick[b].held \in Proposal /\ tick[b].held.of # 0
  BY <1>1, TickIs DEF LocalFor, Keeping
<1>3. PICK src : src = tick[b].held.of
  OBVIOUS
<1>4. src \in 0..MaxSaid /\ src >= 1
  BY <1>2, <1>3, TasksAre DEF Proposal
<1>0. PICK T : T = [tick[b] EXCEPT !.at = "agents", !.src = src, !.go = TRUE]
  OBVIOUS
<1>5. T = [at |-> "agents", now |-> tick[b].now, upto |-> tick[b].upto, e |-> tick[b].e,
         src |-> src, todo |-> tick[b].todo, go |-> TRUE, t |-> tick[b].t, to |-> tick[b].to,
         retire |-> tick[b].retire, left |-> tick[b].left, held |-> tick[b].held, display |-> tick[b].display]
  BY <1>0, <1>2 DEF TickType
<1>6. /\ T \in TickType /\ T.at = "agents" /\ T.now = tick[b].now /\ T.upto = tick[b].upto /\ T.e = tick[b].e
      /\ T.src = src
  BY <1>2, <1>4, <1>5 DEF TickType, Steps
<1>7. tick' = [tick EXCEPT ![b] = T]
  BY <1>0, <1>3 DEF Drop, RoomInv, TicksOK
<1>8. LocalFor(T)
  BY <1>1, <1>4, <1>6, ServesLocal
<1>9. offer' \in [Tasks -> Offers]
  BY DEF Drop, RoomInv, AskedOK, Offers
<1>10. AskedOK'
  BY <1>9, DroppedIs DEF Drop, RoomInv, AskedOK, PropOK, Turns
<1> QED BY <1>6, <1>7, <1>8, <1>10, BoundsAre, RoomStep DEF Drop, Room

\* The tick goes through the agents in todo for the ask src.
Serves(b, src, todo) == tick' = [tick EXCEPT ![b].at = "agents", ![b].src = src, ![b].todo = todo]

\* A step that goes on to serve agents with the words of a turn.
LEMMA ServesIs == ASSUME RoomInv, NEW b \in Bridges, tick[b].at \in Working, NEW src \in 0..MaxSaid,
                         NEW todo \in SUBSET Agents, todo = {} \/ src >= 1, Serves(b, src, todo)
    PROVE \E T \in TickType : /\ tick' = [tick EXCEPT ![b] = T] /\ LocalFor(T) /\ T.at = "agents"
                              /\ T.now = tick[b].now /\ T.upto = tick[b].upto /\ T.e = tick[b].e
                              /\ T.src = src /\ T.todo = todo
<1>1. tick[b] \in TickType
  BY TickIs
<1>0. PICK T : T = [tick[b] EXCEPT !.at = "agents", !.src = src, !.todo = todo]
  OBVIOUS
<1>2. T = [at |-> "agents", now |-> tick[b].now, upto |-> tick[b].upto, e |-> tick[b].e,
         src |-> src, todo |-> todo, go |-> tick[b].go, t |-> tick[b].t, to |-> tick[b].to,
         retire |-> tick[b].retire, left |-> tick[b].left, held |-> tick[b].held, display |-> tick[b].display]
  BY <1>0, <1>1 DEF TickType
<1>3. /\ T \in TickType /\ T.at = "agents" /\ T.now = tick[b].now /\ T.upto = tick[b].upto /\ T.e = tick[b].e
      /\ T.src = src /\ T.todo = todo
  BY <1>1, <1>2 DEF TickType, Steps
<1>4. tick' = [tick EXCEPT ![b] = T]
  BY <1>0 DEF Serves, RoomInv, TicksOK
<1>5. LocalFor(T)
  BY <1>3, ServesLocal
<1> QED BY <1>3, <1>4, <1>5

\* A go-ahead without the read-back.
LEMMA GoDirectTyped == ASSUME RoomInv, NEW b \in Bridges, GoDirect(b) PROVE RoomInv'
<1>1. tick[b].at = "event" /\ tick[b].at \in Working
  BY DEF GoDirect, Hears, At, Working
<1>2. PICK todo : todo = IF pending.of = 0 THEN {} ELSE GoAgents(pending.to, Heard(b).to)
  OBVIOUS
<1>3. PICK src : src = pending.of
  OBVIOUS
<1>4. pending \in Asked /\ src \in 0..MaxSaid /\ pending.to \subseteq Agents /\ (todo = {} \/ src >= 1)
  BY <1>2, <1>3, TasksAre DEF RoomInv, AskedOK, Asked
<1>5. todo \in SUBSET Agents
  BY <1>1, <1>2, <1>4, HeardIs DEF GoAgents
<1>6. Serves(b, src, todo)
  BY <1>2, <1>3 DEF GoDirect, Serves
<1>7. PICK T \in TickType : tick' = [tick EXCEPT ![b] = T] /\ LocalFor(T)
  BY <1>1, <1>4, <1>5, <1>6, ServesIs
<1> QED BY <1>7, BoundsAre, RoomStep DEF GoDirect, Room

\* An ask without the read-back is served at once.
LEMMA AskDirectTyped == ASSUME RoomInv, NEW b \in Bridges, AskDirect(b) PROVE RoomInv'
<1>1. tick[b].at = "event" /\ tick[b].at \in Working
  BY DEF AskDirect, Hears, At, Working
<1>2. PICK e, to : e = tick[b].e /\ to = Heard(b).to
  OBVIOUS
<1>3. e \in 0..MaxSaid /\ to \in SUBSET Agents /\ e >= 1
  BY <1>1, <1>2, HeardIs, TasksAre
<1>4. Serves(b, e, to)
  BY <1>2 DEF AskDirect, Serves
<1>5. PICK T \in TickType : tick' = [tick EXCEPT ![b] = T] /\ LocalFor(T)
  BY <1>1, <1>3, <1>4, ServesIs
<1>6. pending' \in Asked
  BY <1>2, <1>3 DEF AskDirect, Asked
<1>7. AskedOK'
  BY <1>6 DEF AskDirect, Room, words, RoomInv, AskedOK, PropOK, Turns
<1> QED BY <1>5, <1>7, BoundsAre, RoomStep DEF AskDirect, Room

\* Of what the owner is asked only the cards of the proposals change.
LEMMA OffersOnly == ASSUME RoomInv, UNCHANGED <<mode, words, pending, proposal, readback>>,
                           offer' \in [Tasks -> Offers]
                    PROVE  AskedOK'
  BY DEF RoomInv, AskedOK, PropOK, words, Turns

\* An ask of the read-back goes on to be proposed.
LEMMA ProposesLocal == ASSUME RoomInv, NEW b \in Bridges, tick[b].at \in Working, NEW T \in TickType,
                              T.at \in {"propose", "cards"}, T.now = tick[b].now, T.upto = tick[b].upto,
                              T.e = tick[b].e, said[T.e].kind = "ask", said[T.e].to # {}
                       PROVE  LocalFor(T)
  BY TickIs DEF LocalFor, Working, Keeping, Serving, AtAgent

\* An ask that has to be read back first.
LEMMA AskReadbackTyped == ASSUME RoomInv, NEW b \in Bridges, AskReadback(b) PROVE RoomInv'
<1>1. tick[b].at = "event" /\ tick[b].at \in Working /\ Heard(b).kind = "ask"
  BY DEF AskReadback, Hears, At, Working
<1>2. UNCHANGED <<Room, cursor, pending, proposal, readback, faults>>
  BY DEF AskReadback
<1>3. offer' \in [Tasks -> Offers]
  <2>1. offer \in [Tasks -> Offers]
    BY DEF RoomInv, AskedOK
  <2>2. \/ UNCHANGED offer
        \/ \E mine : offer' = [t \in Tasks |-> IF t \in mine THEN "waiting" ELSE offer[t]]
    BY DEF AskReadback
  <2> QED BY <2>1, <2>2 DEF Offers
<1>4. AskedOK'
  BY <1>2, <1>3, OffersOnly DEF Room
<1>5. CASE Go(b, "mark")
  BY <1>1, <1>2, <1>4, <1>5, ToMark, BoundsAre, RoomStep DEF Room
<1>6. CASE Heard(b).to # {} /\ Go(b, "propose")
  <2>1. PICK T \in TickType : /\ tick' = [tick EXCEPT ![b] = T] /\ T.at = "propose" /\ T.now = tick[b].now
                              /\ T.upto = tick[b].upto /\ T.e = tick[b].e
    BY <1>6, GoIs DEF Steps
  <2>2. LocalFor(T)
    BY <1>1, <1>6, <2>1, HeardIs, ProposesLocal
  <2> QED BY <1>2, <1>4, <2>1, <2>2, BoundsAre, RoomStep DEF Room
<1>7. CASE Heard(b).to # {} /\ proposal.of # 0 /\ Copies(b, "supersede")
  <2>1. PICK T \in TickType :
            /\ tick' = [tick EXCEPT ![b] = T] /\ T.at = "supersede" /\ T.held = proposal
            /\ T.now = tick[b].now /\ T.upto = tick[b].upto /\ T.e = tick[b].e
    BY <1>7, CopiesIs DEF Steps
  <2>2. LocalFor(T)
    BY <1>1, <1>7, <2>1, HoldsCopy
  <2> QED BY <1>2, <1>4, <2>1, <2>2, BoundsAre, RoomStep DEF Room
<1>8. {tick[b].e} \X Heard(b).to = {} \/ Heard(b).to # {}
  OBVIOUS
<1> QED BY <1>5, <1>6, <1>7, <1>8 DEF AskReadback, Copies

\* The proposal before it is superseded.
LEMMA SupersedeTyped == ASSUME RoomInv, NEW b \in Bridges, Supersede(b) PROVE RoomInv'
<1>1. tick[b].at = "supersede" /\ tick[b].at \in Working
  BY DEF Supersede, At, Working, Keeping
<1>2. /\ tick[b].held.of # 0 /\ said[tick[b].e].kind = "ask" /\ said[tick[b].e].to # {}
  BY <1>1, TickIs DEF LocalFor, Keeping
<1>3. AskedOK'
  BY <1>2, ClosedIs DEF Supersede, Room, words
<1>4. PICK T \in TickType : /\ tick' = [tick EXCEPT ![b] = T] /\ T.at = "propose" /\ T.now = tick[b].now
                            /\ T.upto = tick[b].upto /\ T.e = tick[b].e
  BY GoIs DEF Supersede, Steps
<1>5. LocalFor(T)
  BY <1>1, <1>2, <1>4, ProposesLocal
<1> QED BY <1>3, <1>4, <1>5, BoundsAre, RoomStep DEF Supersede, Room

\* The new proposal is stored.
LEMMA ProposeTyped == ASSUME RoomInv, NEW b \in Bridges, Propose(b) PROVE RoomInv'
<1>1. tick[b].at = "propose" /\ tick[b].at \in Working
  BY DEF Propose, At, Working
<1>2. said[tick[b].e].kind = "ask" /\ said[tick[b].e].to # {}
  BY <1>1, TickIs DEF LocalFor
<1>3. PICK e, to : e = tick[b].e /\ to = Heard(b).to
  OBVIOUS
<1>4. e \in 1..MaxSaid /\ e \in Turns /\ to \in SUBSET Agents /\ to = said[e].to
  BY <1>1, <1>3, HeardIs
<1>5. Kept(e, to, 0) /\ 0 \in 0..MaxSaid /\ UNCHANGED said
  BY <1>3, TasksAre DEF Propose, Room, words
<1>6. /\ proposal' = [of |-> e, to |-> to, spoken |-> 0] /\ proposal' \in Proposal
      /\ readback' \in Asked /\ (readback'.of # 0 => readback'.of \in Turns')
  BY <1>4, <1>5, KeptIs
<1>7. PropOK(proposal)'
  BY <1>2, <1>3, <1>4, <1>5, <1>6 DEF PropOK, Turns
<1>8. AskedOK'
  BY <1>6, <1>7 DEF Propose, RoomInv, AskedOK
<1>9. PICK T \in TickType : /\ tick' = [tick EXCEPT ![b] = T] /\ T.at = "cards" /\ T.now = tick[b].now
                            /\ T.upto = tick[b].upto /\ T.e = tick[b].e
  BY GoIs DEF Propose, Steps
<1>10. LocalFor(T)
  BY <1>1, <1>2, <1>9, ProposesLocal
<1> QED BY <1>8, <1>9, <1>10, BoundsAre, RoomStep DEF Propose, Room

\* Its cards are put up.
LEMMA CardsTyped == ASSUME RoomInv, NEW b \in Bridges, Cards(b) PROVE RoomInv'
<1>1. tick[b].at = "cards" /\ tick[b].at \in Working
  BY DEF Cards, At, Working
<1>2. offer' \in [Tasks -> Offers]
  BY DEF Cards, RoomInv, AskedOK, Offers
<1>3. AskedOK'
  BY <1>2, OffersOnly DEF Cards, Room
<1>4. PICK T \in TickType : tick' = [tick EXCEPT ![b] = T] /\ LocalFor(T)
  BY <1>1, ToMark DEF Cards
<1> QED BY <1>3, <1>4, BoundsAre, RoomStep DEF Cards, Room

-----------------------------------------------------------------------------
(* The agents of one ask.                                                  *)

\* A set of an agent's cards has a newest one: the order on numbers is well-founded.
LEMMA NewestIs == ASSUME NEW cards \in SUBSET Tasks, cards # {} PROVE Newest(cards) \in cards
<1>1. PICK R : R = {ss \in Nat \X Nat : ss[1] < ss[2]}
  OBVIOUS
<1>2. IsWellFoundedOn(R, Nat)
  BY <1>1, NatLessThanWellFounded DEF OpToRel
<1>3. PICK S : S = {MaxSaid - l[1] : l \in cards}
  OBVIOUS
<1>4. \A l \in cards : l[1] \in 1..MaxSaid
  BY TaskIs
<1>5. S \in SUBSET Nat /\ S # {}
  <2>1. \A l \in cards : MaxSaid - l[1] \in Nat
    BY <1>4, TasksAre
  <2> QED BY <1>3, <2>1
<1>6. PICK x \in S : \A y \in S : <<y, x>> \notin R
  BY <1>2, <1>5, WFMin
<1>7. PICK l \in cards : x = MaxSaid - l[1]
  BY <1>3
<1>8. ASSUME NEW other \in cards PROVE other[1] <= l[1]
  <2>1. MaxSaid - other[1] \in S /\ MaxSaid - l[1] \in S
    BY <1>3
  <2>2. ~(MaxSaid - other[1] < MaxSaid - l[1])
    BY <1>1, <1>5, <1>6, <1>7, <2>1
  <2> QED BY <1>4, <2>2, TasksAre
<1>9. \E m \in cards : \A other \in cards : other[1] <= m[1]
  BY <1>8
<1> QED BY <1>9 DEF Newest

\* The tick goes on with the words t for the agent's card to.
Takes(b, step, t, to) == tick' = [tick EXCEPT ![b].at = step, ![b].t = t, ![b].to = to]

\* A step that takes up one of the agents.
LEMMA TakesIs == ASSUME RoomInv, NEW b \in Bridges, tick[b].at = "agents", NEW step \in AtAgent,
                        NEW t \in Tasks, t[1] = tick[b].src, t[2] \in tick[b].todo, NEW to \in Tasks,
                        Takes(b, step, t, to), step = "route" => to[2] = t[2] /\ to[1] < t[1]
    PROVE \E T \in TickType : /\ tick' = [tick EXCEPT ![b] = T] /\ LocalFor(T) /\ T.at = step
                              /\ T.now = tick[b].now /\ T.upto = tick[b].upto /\ T.e = tick[b].e
                              /\ T.src = tick[b].src /\ T.todo = tick[b].todo /\ T.go = tick[b].go
                              /\ T.t = t /\ T.to = to /\ T.retire = tick[b].retire
<1>1. tick[b] \in TickType /\ tick[b].src >= 1 /\ step \in Steps
  BY TickIs DEF LocalFor, Serving, AtAgent, Steps
<1>2. PICK T : T = [tick[b] EXCEPT !.at = step, !.t = t, !.to = to]
  OBVIOUS
<1>3. T = [at |-> step, now |-> tick[b].now, upto |-> tick[b].upto, e |-> tick[b].e,
         src |-> tick[b].src, todo |-> tick[b].todo, go |-> tick[b].go, t |-> t, to |-> to,
         retire |-> tick[b].retire, left |-> tick[b].left, held |-> tick[b].held, display |-> tick[b].display]
  BY <1>1, <1>2 DEF TickType
<1>4. /\ T \in TickType /\ T.at = step /\ T.now = tick[b].now /\ T.upto = tick[b].upto /\ T.e = tick[b].e
      /\ T.src = tick[b].src /\ T.todo = tick[b].todo /\ T.go = tick[b].go /\ T.t = t /\ T.to = to
      /\ T.retire = tick[b].retire
  BY <1>1, <1>3 DEF TickType
<1>5. tick' = [tick EXCEPT ![b] = T]
  BY <1>2 DEF Takes, RoomInv, TicksOK
<1>6. LocalFor(T)
  BY <1>1, <1>4, TickIs DEF LocalFor, Working, Keeping, Serving, AtAgent
<1> QED BY <1>4, <1>5, <1>6

\* What is taken from the agents of an ask, and where it goes.
PickTo(b, T) ==
    /\ T.now = tick[b].now /\ T.upto = tick[b].upto /\ T.e = tick[b].e
    /\ \/ T.at = "mark" /\ tick[b].todo = {}
       \/ /\ T.at \in {"route", "claim", "after"} /\ tick[b].todo # {} /\ Holds(b)
          /\ T.src = tick[b].src /\ T.todo = tick[b].todo /\ T.go = tick[b].go /\ T.retire = tick[b].retire
          /\ T.t \in Tasks /\ T.t[1] = T.src /\ T.t[2] \in T.todo
          /\ T.at = "after" => T.t \in routed
          /\ T.at = "claim" => T.t \notin routed

\* Where Pick leads: the mark, a living card, a claim, past it, or out of the tick without the lock.
LEMMA PickIs == ASSUME RoomInv, NEW b \in Bridges, Pick(b)
    PROVE \E T \in TickType : /\ tick' = [tick EXCEPT ![b] = T] /\ LocalFor(T)
                              /\ (T = Idle /\ ~Holds(b)) \/ PickTo(b, T)
<1>1. tick[b].at = "agents" /\ tick[b].at \in Working /\ tick[b] \in TickType
  BY TickIs DEF Pick, At, Working, Serving
<1>2. CASE tick[b].todo = {} /\ Go(b, "mark")
  <2>1. PICK T \in TickType : /\ tick' = [tick EXCEPT ![b] = T] /\ T.at = "mark" /\ T.now = tick[b].now
                              /\ T.upto = tick[b].upto /\ T.e = tick[b].e
    BY <1>2, GoIs DEF Steps
  <2>2. LocalFor(T)
    BY <1>1, <2>1, GoLocal
  <2> QED BY <1>2, <2>1, <2>2 DEF PickTo
<1>3. CASE ~Holds(b) /\ tick' = [tick EXCEPT ![b] = Idle]
  BY <1>3, RestIs, RestLocal
<1>4. ASSUME NEW a \in tick[b].todo, NEW step \in {"route", "claim", "after"}, NEW to \in Tasks, Holds(b),
             Takes(b, step, <<tick[b].src, a>>, to),
             step = "route" => to[2] = a /\ to[1] < tick[b].src,
             step = "after" => <<tick[b].src, a>> \in routed, step = "claim"
                   => <<tick[b].src, a>> \notin routed
      PROVE  \E T \in TickType : /\ tick' = [tick EXCEPT ![b] = T] /\ LocalFor(T)
                                 /\ (T = Idle /\ ~Holds(b)) \/ PickTo(b, T)
  <2>1. PICK t : t = <<tick[b].src, a>>
    OBVIOUS
  <2>2. tick[b].src \in 1..MaxSaid /\ a \in Agents
    BY <1>1, TickIs, TasksAre DEF LocalFor, Serving
  <2>3. t \in Tasks /\ t[1] = tick[b].src /\ t[2] = a /\ t[2] \in tick[b].todo
    BY <2>1, <2>2, TaskMade
  <2>4. step \in AtAgent /\ Takes(b, step, t, to) /\ (step = "route" => to[2] = t[2] /\ to[1] < t[1])
    BY <1>4, <2>1, <2>3 DEF AtAgent
  <2>5. PICK T \in TickType : /\ tick' = [tick EXCEPT ![b] = T] /\ LocalFor(T) /\ T.at = step
                              /\ T.now = tick[b].now /\ T.upto = tick[b].upto /\ T.e = tick[b].e
                              /\ T.src = tick[b].src /\ T.todo = tick[b].todo /\ T.go = tick[b].go
                              /\ T.t = t /\ T.to = to /\ T.retire = tick[b].retire
    BY <1>1, <2>3, <2>4, TakesIs
  <2>6. PickTo(b, T)
    BY <1>4, <2>1, <2>3, <2>5 DEF PickTo
  <2> QED BY <2>5, <2>6
<1>5. ASSUME NEW a \in tick[b].todo, NEW step \in {"claim", "after"}, NEW t,
             tick' = [tick EXCEPT ![b].at = step, ![b].t = t]
      PROVE  Takes(b, step, t, tick[b].to)
  <2>1. PICK T, U : T = [tick[b] EXCEPT !.at = step, !.t = t]
                    /\ U = [tick[b] EXCEPT !.at = step, !.t = t, !.to = tick[b].to]
    OBVIOUS
  <2>2. T = U
    BY <1>1, <2>1 DEF TickType
  <2>3. tick' = [tick EXCEPT ![b] = T]
    BY <1>5, <2>1
  <2>4. tick' = [tick EXCEPT ![b] = U]
    BY <2>2, <2>3
  <2> QED BY <2>1, <2>4 DEF Takes
<1>6. ASSUME NEW a \in tick[b].todo, Holds(b), Living(a) # {} /\ tick[b].src > Newest(Living(a))[1],
             Takes(b, "route", <<tick[b].src, a>>, Newest(Living(a)))
      PROVE  \E T \in TickType : /\ tick' = [tick EXCEPT ![b] = T] /\ LocalFor(T)
                                 /\ (T = Idle /\ ~Holds(b)) \/ PickTo(b, T)
  <2>1. Living(a) \in SUBSET Tasks
    BY DEF Living
  <2>2. Newest(Living(a)) \in Living(a)
    BY <1>6, <2>1, NewestIs
  <2>3. PICK to \in Tasks : to = Newest(Living(a)) /\ to[2] = a /\ tick[b].src > to[1]
    BY <1>6, <2>2 DEF Living
  <2>4. to[1] < tick[b].src
    BY <2>3, TaskIs, TickIs, TasksAre
  <2> QED BY <1>4, <1>6, <2>3, <2>4
<1>7. ASSUME NEW a \in tick[b].todo, Holds(b),
             tick' = [tick EXCEPT ![b].at = IF <<tick[b].src, a>> \in routed THEN "after" ELSE "claim",
                                  ![b].t = <<tick[b].src, a>>]
      PROVE  \E T \in TickType : /\ tick' = [tick EXCEPT ![b] = T] /\ LocalFor(T)
                                 /\ (T = Idle /\ ~Holds(b)) \/ PickTo(b, T)
  <2>1. PICK step \in {"claim", "after"} : step = IF <<tick[b].src, a>> \in routed THEN "after" ELSE "claim"
    OBVIOUS
  <2>2. Takes(b, step, <<tick[b].src, a>>, tick[b].to)
    BY <1>5, <1>7, <2>1
  <2> QED BY <1>4, <1>7, <2>1, <2>2, TickIs
<1>8. CASE \E a \in tick[b].todo :
              LET t == <<tick[b].src, a>> IN
              IF Living(a) # {} /\ t[1] > Newest(Living(a))[1]
              THEN tick' = [tick EXCEPT ![b].at = "route", ![b].t = t, ![b].to = Newest(Living(a))]
              ELSE tick' = [tick EXCEPT ![b].at = IF t \in routed THEN "after" ELSE "claim", ![b].t = t]
  <2>1. PICK a \in tick[b].todo :
              LET t == <<tick[b].src, a>> IN
              IF Living(a) # {} /\ t[1] > Newest(Living(a))[1]
              THEN tick' = [tick EXCEPT ![b].at = "route", ![b].t = t, ![b].to = Newest(Living(a))]
              ELSE tick' = [tick EXCEPT ![b].at = IF t \in routed THEN "after" ELSE "claim", ![b].t = t]
    BY <1>8
  <2>2. <<tick[b].src, a>>[1] = tick[b].src
    OBVIOUS
  <2>3. CASE ~Holds(b)
    BY <1>1, <1>3, <2>1, <2>3 DEF Pick
  <2>4. CASE Holds(b)
    BY <1>6, <1>7, <2>1, <2>2, <2>4 DEF Takes
  <2> QED BY <2>3, <2>4
<1> QED BY <1>1, <1>2, <1>3, <1>8 DEF Pick

\* The next agent of the words at hand.
LEMMA PickTyped == ASSUME RoomInv, NEW b \in Bridges, Pick(b) PROVE RoomInv'
<1>1. PICK T \in TickType : tick' = [tick EXCEPT ![b] = T] /\ LocalFor(T)
  BY PickIs
<1> QED BY <1>1, BoundsAre, RoomStep DEF Pick, Room

\* The agent's share of the ask is served.
LEMMA ToAfter == ASSUME RoomInv, NEW b \in Bridges, tick[b].at \in AtAgent, NEW step \in {"open", "after"},
                        Go(b, step)
                 PROVE  \E T \in TickType :
                          /\ tick' = [tick EXCEPT ![b] = T] /\ LocalFor(T) /\ T.at = step
                          /\ T.now = tick[b].now /\ T.upto = tick[b].upto /\ T.e = tick[b].e
                          /\ T.src = tick[b].src /\ T.todo = tick[b].todo /\ T.go = tick[b].go
                          /\ T.t = tick[b].t /\ T.retire = tick[b].retire
<1>1. PICK T \in TickType :
         /\ tick' = [tick EXCEPT ![b] = T] /\ T.at = step
         /\ T.now = tick[b].now /\ T.upto = tick[b].upto /\ T.e = tick[b].e /\ T.src = tick[b].src
         /\ T.todo = tick[b].todo /\ T.t = tick[b].t /\ T.go = tick[b].go /\ T.retire = tick[b].retire
  BY GoIs DEF Steps
<1>2. LocalFor(T)
  BY <1>1, TickIs DEF LocalFor, Working, Keeping, Serving, AtAgent
<1> QED BY <1>1, <1>2

\* The words go to a living card.
LEMMA RouteTyped == ASSUME RoomInv, NEW b \in Bridges, Route(b) PROVE RoomInv'
<1>1. tick[b].at = "route" /\ tick[b].at \in AtAgent /\ tick[b] \in TickType
  BY TickIs DEF Route, At, AtAgent
<1>2. PICK T : T = [tick[b] EXCEPT !.at = "after", !.retire = TRUE]
  OBVIOUS
<1>3. T = [at |-> "after", now |-> tick[b].now, upto |-> tick[b].upto, e |-> tick[b].e,
         src |-> tick[b].src, todo |-> tick[b].todo, go |-> tick[b].go, t |-> tick[b].t, to |-> tick[b].to,
         retire |-> TRUE, left |-> tick[b].left, held |-> tick[b].held, display |-> tick[b].display]
  BY <1>1, <1>2 DEF TickType
<1>4. /\ T \in TickType /\ T.at = "after" /\ T.now = tick[b].now /\ T.upto = tick[b].upto /\ T.e = tick[b].e
      /\ T.src = tick[b].src /\ T.todo = tick[b].todo /\ T.t = tick[b].t
  BY <1>1, <1>3 DEF TickType, Steps
<1>5. tick' = [tick EXCEPT ![b] = T]
  BY <1>2 DEF Route, RoomInv, TicksOK
<1>6. LocalFor(T)
  BY <1>1, <1>4, TickIs DEF LocalFor, Working, Keeping, Serving, AtAgent
<1>7. LivingOK'
  <2>1. PICK t, to : t = tick[b].t /\ to = tick[b].to
    OBVIOUS
  <2>2. t \in Tasks /\ to \in Tasks /\ t[1] \in 1..MaxSaid
    BY <2>1, TickIs, TaskIs
  <2>3. revise[to] \in Seq(1..MaxSaid) /\ Append(revise[to], t[1]) \in Seq(1..MaxSaid)
    BY <2>2 DEF RoomInv, LivingOK
  <2> QED BY <2>1, <2>2, <2>3 DEF Route, RoomInv, LivingOK
<1>8. UNCHANGED <<taskVars, mode, words, cursor, asked, bell, lock, settle, bounds>>
  BY DEF Route
<1>9. AskedOK' /\ BellOK' /\ RunOK' /\ cursor' \in 0..Len(said)
  BY <1>8, FramesStand, BoundsAre
<1> QED BY <1>4, <1>5, <1>6, <1>7, <1>8, <1>9, OneTickSteps

\* The first transaction of a claim.
LEMMA ClaimAskTyped == ASSUME RoomInv, NEW b \in Bridges, ClaimAsk(b) PROVE RoomInv'
<1>1. tick[b].at \in AtAgent /\ tick[b].t \in Tasks /\ mode.doorbell \in BOOLEAN
  BY TickIs, ModeIs DEF ClaimAsk, At, AtAgent
<1>2. PICK step \in {"open", "after"} : Go(b, step)
  BY DEF ClaimAsk
<1>3. PICK T \in TickType : tick' = [tick EXCEPT ![b] = T] /\ LocalFor(T)
  BY <1>1, <1>2, ToAfter
<1>4. [TaskNext]_taskVars
  BY <1>1 DEF ClaimAsk, TaskNext
<1>5. faults' \in 0..mode.faults
  BY FaultIs, BoundsAre DEF ClaimAsk
<1> QED BY <1>3, <1>4, <1>5, BoundsAre, RoomStep DEF ClaimAsk

\* The second transaction of a claim.
LEMMA OpenAskTyped == ASSUME RoomInv, NEW b \in Bridges, OpenAsk(b) PROVE RoomInv'
<1>1. tick[b].at \in AtAgent /\ tick[b].t \in Tasks
  BY TickIs DEF OpenAsk, At, AtAgent
<1>2. PICK T \in TickType : tick' = [tick EXCEPT ![b] = T] /\ LocalFor(T)
  BY <1>1, ToAfter DEF OpenAsk
<1>3. [TaskNext]_taskVars
  BY <1>1 DEF OpenAsk, TaskNext
<1>4. faults' \in 0..mode.faults
  BY FaultIs, BoundsAre DEF OpenAsk
<1> QED BY <1>2, <1>3, <1>4, BoundsAre, RoomStep DEF OpenAsk

\* The agent has been served.
LEMMA AfterIs == ASSUME RoomInv, NEW b \in Bridges, After(b)
    PROVE \E T \in TickType : /\ tick' = [tick EXCEPT ![b] = T] /\ LocalFor(T) /\ T.at = "agents"
                              /\ T.now = tick[b].now /\ T.upto = tick[b].upto /\ T.e = tick[b].e
                              /\ T.src = tick[b].src /\ T.todo = tick[b].todo \ {tick[b].t[2]}
                              /\ T.go = tick[b].go /\ T.retire = FALSE
<1>1. tick[b].at = "after" /\ tick[b].at \in AtAgent /\ tick[b].at \in Working /\ tick[b] \in TickType
  BY TickIs DEF After, At, AtAgent, Working, Serving
<1>2. tick[b].src >= 1 /\ SomeTask \in Tasks
  BY <1>1, TickIs, TasksAre DEF LocalFor, AtAgent, Serving
<1>3. PICK a : a = tick[b].t[2]
  OBVIOUS
<1>4. PICK T : T = [tick[b] EXCEPT !.at = "agents", !.todo = tick[b].todo \ {a}, !.retire = FALSE,
                                  !.t = SomeTask, !.to = SomeTask]
  OBVIOUS
<1>5. T = [at |-> "agents", now |-> tick[b].now, upto |-> tick[b].upto, e |-> tick[b].e,
         src |-> tick[b].src, todo |-> tick[b].todo \ {a}, go |-> tick[b].go, t |-> SomeTask, to |-> SomeTask,
         retire |-> FALSE, left |-> tick[b].left, held |-> tick[b].held, display |-> tick[b].display]
  BY <1>1, <1>4 DEF TickType
<1>6. /\ T \in TickType /\ T.at = "agents" /\ T.now = tick[b].now /\ T.upto = tick[b].upto /\ T.e = tick[b].e
      /\ T.src = tick[b].src /\ T.todo = tick[b].todo \ {a} /\ T.go = tick[b].go /\ T.retire = FALSE
  BY <1>1, <1>2, <1>5 DEF TickType, Steps
<1>7. tick' = [tick EXCEPT ![b] = T]
  BY <1>3, <1>4 DEF After, RoomInv, TicksOK
<1>8. LocalFor(T)
  BY <1>1, <1>2, <1>6, ServesLocal
<1> QED BY <1>3, <1>6, <1>7, <1>8

\* Its proposal card goes or says what became of it.
LEMMA AfterTyped == ASSUME RoomInv, NEW b \in Bridges, After(b) PROVE RoomInv'
<1>1. PICK T \in TickType : tick' = [tick EXCEPT ![b] = T] /\ LocalFor(T)
  BY AfterIs
<1>2. AskedOK' \/ UNCHANGED asked
  <2>1. CASE tick[b].go
    <3>1. PICK of, to, retire : of = tick[b].t[1] /\ to = {tick[b].t[2]} /\ retire = tick[b].retire
      OBVIOUS
    <3>2. of # 0
      BY <3>1, TickIs, TaskIs
    <3>3. Closed(of, to, retire) /\ UNCHANGED <<said, pending>>
      BY <2>1, <3>1 DEF After, Room, words
    <3> QED BY <3>2, <3>3, ClosedIs
  <2>2. CASE ~tick[b].go
    BY <2>2 DEF After, asked
  <2> QED BY <2>1, <2>2
<1> QED BY <1>1, <1>2, BoundsAre, RoomStep DEF After, Room

\* A tick that is at its doorbell, or done.
LEMMA BellLocal ==
    ASSUME RoomInv, NEW b \in Bridges, NEW T, T.now = tick[b].now \/ T.now = 0, T.at \notin Working
                   PROVE  LocalFor(T)
<1>1. T.now <= clock
  BY TickIs, WordsAre DEF LocalFor
<1> QED BY <1>1 DEF LocalFor, Working, Keeping, Serving, AtAgent

\* Where the sweep leads: to the doorbell, or out of the tick.
LEMMA SweepIs == ASSUME RoomInv, NEW b \in Bridges, Sweep(b)
    PROVE \E T \in TickType : /\ tick' = [tick EXCEPT ![b] = T] /\ LocalFor(T) /\ T.at \in {"ring", "idle"}
                              /\ T.now = 0 /\ T.todo = {} /\ T.left \subseteq ring
<1>1. PICK T : T = [Idle EXCEPT !.at = "ring", !.left = ring]
  OBVIOUS
<1>2. ring \subseteq Tasks
  BY DEF RoomInv, TaskInv, TaskTypeOK
<1>3. T \in TickType /\ T.at = "ring" /\ T.now = 0 /\ T.todo = {} /\ T.left = ring
  BY <1>1, <1>2, RestIs DEF Idle, TickType, Steps
<1>4. LocalFor(T)
  BY <1>3, BellLocal DEF Working, Keeping, Serving, AtAgent
<1>5. tick' = [tick EXCEPT ![b] = T] \/ tick' = [tick EXCEPT ![b] = Idle]
  BY <1>1 DEF Sweep
<1>6. Idle.todo = {} /\ Idle.left = {}
  BY DEF Idle
<1> QED BY <1>3, <1>4, <1>5, <1>6, RestIs, RestLocal

\* What the sweep closes, if anything.
Closes(to) == proposal.of # 0 /\ Closed(proposal.of, to, FALSE)

\* The sweep of the proposal.
LEMMA SweepTyped == ASSUME RoomInv, NEW b \in Bridges, Sweep(b) PROVE RoomInv'
<1>1. PICK T \in TickType : tick' = [tick EXCEPT ![b] = T] /\ LocalFor(T)
  BY SweepIs
<1>2. UNCHANGED <<proposal, readback, offer>> \/ \E to : Closes(to)
  BY DEF Sweep, Closes
<1>3. AskedOK' \/ UNCHANGED asked
  <2>1. UNCHANGED <<said, pending>>
    BY DEF Sweep, Room, words
  <2> QED BY <1>2, <2>1, ClosedIs DEF Closes, asked
<1> QED BY <1>1, <1>3, BoundsAre, RoomStep DEF Sweep, Room

-----------------------------------------------------------------------------
(* The doorbell and the acknowledgements.                                  *)

\* A step of the doorbell that leaves the room alone.
LEMMA BellStep ==
    ASSUME RoomInv, NEW b \in Bridges, NEW T \in TickType, T.now = tick[b].now \/ T.now = 0, T.at \notin Working,
           tick' = [tick EXCEPT ![b] = T], [TaskNext]_taskVars, UNCHANGED Bell, BellOK' \/ UNCHANGED bell,
           faults' \in 0..mode.faults
    PROVE  RoomInv'
<1>1. UNCHANGED <<mode, words, cursor, asked, living, lock, settle, lapses>>
  BY DEF Bell
<1>2. AskedOK' /\ LivingOK' /\ BellOK'
  BY <1>1, FramesStand
<1>3. RunOK'
  BY <1>1 DEF RoomInv, RunOK
<1>4. cursor' \in 0..Len(said) /\ LocalFor(T)
  BY <1>1, BoundsAre, BellLocal
<1> QED BY <1>1, <1>2, <1>3, <1>4, OneTickSteps

\* Steps of the doorbell.
Ringing == {"idle", "ring", "rung", "rang", "unqueue", "check", "reached", "again", "rering", "rerang",
      "nowake",
            "look", "show"}

\* The doorbell's steps are no part of the work on a turn.
LEMMA RingingIs == ASSUME NEW step \in Ringing PROVE step \in Steps /\ step \notin Working
  BY DEF Ringing, Steps, Working, Keeping, Serving, AtAgent

\* The doorbell's tick goes on to step.
LEMMA BellGoes ==
    ASSUME RoomInv, NEW b \in Bridges, NEW step \in Ringing, Go(b, step), [TaskNext]_taskVars,
           UNCHANGED Bell, BellOK' \/ UNCHANGED bell, faults' \in 0..mode.faults
    PROVE  RoomInv'
<1>1. PICK T \in TickType : tick' = [tick EXCEPT ![b] = T] /\ T.at = step /\ T.now = tick[b].now
  BY RingingIs, GoIs
<1> QED BY <1>1, RingingIs, BellStep

\* A bell record is written.
LEMMA WakeTyped == ASSUME RoomInv, NEW t \in Tasks, NEW w \in [state : WakeStates, due : BOOLEAN],
                          wake' = [wake EXCEPT ![t] = w], UNCHANGED rows
                   PROVE  BellOK'
  BY DEF RoomInv, BellOK

\* A row is appended to the board.
LEMMA RowTyped ==
    ASSUME RoomInv, NEW t \in Tasks, NEW which \in {"first", "second"}, Append1(t, which), UNCHANGED wake
                  PROVE  BellOK'
<1>1. rows[t] \in [first : Nat, second : Nat]
  BY DEF RoomInv, BellOK
<1>2. PICK r : r = [rows[t] EXCEPT ![which] = rows[t][which] + 1]
  OBVIOUS
<1>3. r \in [first : Nat, second : Nat]
  <2>1. CASE which = "first"
    BY <1>1, <1>2, <2>1
  <2>2. CASE which = "second"
    BY <1>1, <1>2, <2>2
  <2> QED BY <2>1, <2>2
<1>4. rows' = [rows EXCEPT ![t] = r]
  BY <1>2 DEF Append1, RoomInv, BellOK
<1> QED BY <1>3, <1>4 DEF RoomInv, BellOK

\* The doorbell reserves a ring that nobody has sent, or goes on to its checks.
ReservesTo(b, T) ==
    /\ T.now \in {tick[b].now, 0}
    /\ \/ T = Idle /\ UNCHANGED wake
       \/ T.at = "check" /\ UNCHANGED wake
       \/ /\ T.at = "rung" /\ T.t \in tick[b].left /\ wake[T.t].state = "none" /\ Holds(b)
          /\ wake' = [wake EXCEPT ![T.t].state = "unknown"]

\* What a reservation of a ring does to the tick.
LEMMA ReserveIs == ASSUME RoomInv, NEW b \in Bridges, Reserve(b)
    PROVE /\ tick[b].at = "ring" /\ UNCHANGED rows
          /\ \E T \in TickType : tick' = [tick EXCEPT ![b] = T] /\ ReservesTo(b, T)
<1>1. tick[b] \in TickType /\ tick[b].left \subseteq Tasks /\ tick[b].at = "ring"
  BY TickIs DEF Reserve, At
<1>2. CASE tick' = [tick EXCEPT ![b] = Idle] /\ UNCHANGED wake
  BY <1>1, <1>2, RestIs DEF Reserve, ReservesTo
<1>3. CASE tick' = [tick EXCEPT ![b].at = "check", ![b].left = OpenTasks] /\ UNCHANGED wake
  <2>1. PICK T : T = [tick[b] EXCEPT !.at = "check", !.left = OpenTasks]
    OBVIOUS
  <2>2. T = [at |-> "check", now |-> tick[b].now, upto |-> tick[b].upto, e |-> tick[b].e,
         src |-> tick[b].src, todo |-> tick[b].todo, go |-> tick[b].go, t |-> tick[b].t, to |-> tick[b].to,
         retire |-> tick[b].retire, left |-> OpenTasks, held |-> tick[b].held, display |-> tick[b].display]
    BY <1>1, <2>1 DEF TickType
  <2>3. OpenTasks \subseteq Tasks
    BY DEF OpenTasks
  <2>4. T \in TickType /\ T.at = "check" /\ T.now = tick[b].now
    BY <1>1, <2>2, <2>3 DEF TickType, Steps
  <2>5. tick' = [tick EXCEPT ![b] = T]
    BY <1>3, <2>1 DEF RoomInv, TicksOK
  <2> QED BY <1>1, <1>3, <2>4, <2>5 DEF Reserve, ReservesTo
<1>4. ASSUME NEW t \in Unrung(tick[b].left), Holds(b), wake' = [wake EXCEPT ![t].state = "unknown"],
             tick' = [tick EXCEPT ![b].at = "rung", ![b].left = Unrung(tick[b].left) \ {t}, ![b].t = t]
      PROVE  \E T \in TickType : tick' = [tick EXCEPT ![b] = T] /\ ReservesTo(b, T)
  <2>1. t \in Tasks /\ t \in tick[b].left /\ wake[t].state = "none"
    BY <1>1 DEF Unrung
  <2>2. PICK left : left = Unrung(tick[b].left) \ {t}
    OBVIOUS
  <2>3. left \subseteq Tasks
    BY <1>1, <2>2 DEF Unrung
  <2>4. PICK T : T = [tick[b] EXCEPT !.at = "rung", !.left = left, !.t = t]
    OBVIOUS
  <2>5. T = [at |-> "rung", now |-> tick[b].now, upto |-> tick[b].upto, e |-> tick[b].e,
         src |-> tick[b].src, todo |-> tick[b].todo, go |-> tick[b].go, t |-> t, to |-> tick[b].to,
         retire |-> tick[b].retire, left |-> left, held |-> tick[b].held, display |-> tick[b].display]
    BY <1>1, <2>4 DEF TickType
  <2>6. T \in TickType /\ T.at = "rung" /\ T.now = tick[b].now /\ T.t = t
    BY <1>1, <2>1, <2>3, <2>5 DEF TickType, Steps
  <2>7. tick' = [tick EXCEPT ![b] = T]
    BY <1>4, <2>2, <2>4 DEF RoomInv, TicksOK
  <2> QED BY <1>4, <2>1, <2>6, <2>7 DEF ReservesTo
<1>5. UNCHANGED rows
  BY DEF Reserve
<1>6. \/ tick' = [tick EXCEPT ![b] = Idle] /\ UNCHANGED wake
      \/ tick' = [tick EXCEPT ![b].at = "check", ![b].left = OpenTasks] /\ UNCHANGED wake
      \/ \E t \in Unrung(tick[b].left) :
           /\ Holds(b) /\ wake' = [wake EXCEPT ![t].state = "unknown"]
           /\ tick' = [tick EXCEPT ![b].at = "rung", ![b].left = Unrung(tick[b].left) \ {t}, ![b].t = t]
  BY DEF Reserve
<1> QED BY <1>1, <1>2, <1>3, <1>4, <1>5, <1>6

\* Uncertainty is written before the row.
LEMMA ReserveTyped == ASSUME RoomInv, NEW b \in Bridges, Reserve(b) PROVE RoomInv'
<1>1. PICK T \in TickType : tick' = [tick EXCEPT ![b] = T] /\ ReservesTo(b, T)
  BY ReserveIs
<1>2. T.at \notin Working /\ (T.now = tick[b].now \/ T.now = 0)
  BY <1>1, RestIs DEF ReservesTo, Working, Keeping, Serving, AtAgent
<1>3. BellOK' \/ UNCHANGED bell
  <2>1. CASE UNCHANGED wake
    BY <2>1, ReserveIs DEF bell
  <2>2. CASE wake' = [wake EXCEPT ![T.t].state = "unknown"]
    <3>1. PICK t : t = T.t
      OBVIOUS
    <3>2. t \in Tasks
      BY <3>1 DEF TickType
    <3>3. PICK w : w = [wake[t] EXCEPT !.state = "unknown"]
      OBVIOUS
    <3>4. w \in [state : WakeStates, due : BOOLEAN]
      BY <3>2, <3>3 DEF RoomInv, BellOK, WakeStates
    <3>5. wake' = [wake EXCEPT ![t] = w]
      BY <2>2, <3>1, <3>3 DEF RoomInv, BellOK
    <3> QED BY <3>2, <3>4, <3>5, ReserveIs, WakeTyped
  <2> QED BY <1>1, <2>1, <2>2 DEF ReservesTo
<1> QED BY <1>1, <1>2, <1>3, BoundsAre, BellStep DEF Reserve

\* The first row.
LEMMA RingTyped == ASSUME RoomInv, NEW b \in Bridges, Ring(b) PROVE RoomInv'
<1>1. PICK t : t = tick[b].t
  OBVIOUS
<1>2. t \in Tasks
  BY <1>1, TickIs
<1>3. UNCHANGED rows \/ Append1(t, "first")
  BY <1>1 DEF Ring
<1>4. BellOK' \/ UNCHANGED bell
  BY <1>2, <1>3, RowTyped DEF Ring, bell
<1>5. faults' \in 0..mode.faults
  BY FaultIs, BoundsAre DEF Ring
<1>6. PICK step \in Ringing : Go(b, step)
  BY DEF Ring, Ringing
<1> QED BY <1>4, <1>5, <1>6, BellGoes DEF Ring

\* The first row is confirmed.
LEMMA RangTyped == ASSUME RoomInv, NEW b \in Bridges, Rang(b) PROVE RoomInv'
<1>1. PICK t, w : t = tick[b].t /\ w = [state |-> "rung", due |-> FALSE]
  OBVIOUS
<1>2. t \in Tasks /\ w \in [state : WakeStates, due : BOOLEAN]
  BY <1>1, TickIs DEF WakeStates
<1>3. BellOK'
  BY <1>1, <1>2, WakeTyped DEF Rang
<1>4. Go(b, "unqueue") /\ "unqueue" \in Ringing
  BY DEF Rang, Ringing
<1> QED BY <1>3, <1>4, BoundsAre, BellGoes DEF Rang

\* The task is taken off the queue.
LEMMA UnqueueTyped == ASSUME RoomInv, NEW b \in Bridges, Unqueue(b) PROVE RoomInv'
<1>1. Go(b, "ring") /\ "ring" \in Ringing
  BY DEF Unqueue, Ringing
<1>2. [TaskNext]_taskVars
  BY TickIs DEF Unqueue, TaskNext
<1> QED BY <1>1, <1>2, BoundsAre, BellGoes DEF Unqueue

\* A check takes a ring that is due, or the checks are over.
Reminds(t) == IF work[t] # NoCard THEN "reached"
              ELSE IF wake[t].state = "unknown" THEN "show"
              ELSE IF wake[t].state = "rung" THEN "again" ELSE "nowake"
ChecksTo(b, T) ==
    \/ T = Idle
    \/ /\ T.now = tick[b].now /\ T.t \in ToCheck(tick[b].left) /\ T.display = "unconfirmed"
       /\ Holds(b) /\ T.at = Reminds(T.t)

\* Where the wake check leads.
LEMMA CheckIs == ASSUME RoomInv, NEW b \in Bridges, Check(b)
                 PROVE  \E T \in TickType : tick' = [tick EXCEPT ![b] = T] /\ ChecksTo(b, T)
<1>1. tick[b] \in TickType /\ tick[b].left \subseteq Tasks
  BY TickIs
<1>2. CASE tick' = [tick EXCEPT ![b] = Idle]
  BY <1>2, RestIs DEF ChecksTo
<1>3. ASSUME NEW t \in ToCheck(tick[b].left), NEW step, Holds(b), step = Reminds(t),
             tick' = [tick EXCEPT ![b].left = ToCheck(tick[b].left) \ {t}, ![b].t = t,
                                  ![b].display = "unconfirmed", ![b].at = step]
      PROVE  \E T \in TickType : tick' = [tick EXCEPT ![b] = T] /\ ChecksTo(b, T)
  <2>1. t \in Tasks /\ step \in Steps
    BY <1>1, <1>3 DEF ToCheck, Steps, Reminds
  <2>2. PICK left : left = ToCheck(tick[b].left) \ {t}
    OBVIOUS
  <2>3. left \subseteq Tasks
    BY <1>1, <2>2 DEF ToCheck
  <2>4. PICK T : T = [tick[b] EXCEPT !.left = left, !.t = t, !.display = "unconfirmed", !.at = step]
    OBVIOUS
  <2>5. T = [at |-> step, now |-> tick[b].now, upto |-> tick[b].upto, e |-> tick[b].e,
         src |-> tick[b].src, todo |-> tick[b].todo, go |-> tick[b].go, t |-> t, to |-> tick[b].to,
         retire |-> tick[b].retire, left |-> left, held |-> tick[b].held, display |-> "unconfirmed"]
    BY <1>1, <2>4 DEF TickType
  <2>6. T \in TickType /\ T.at = step /\ T.now = tick[b].now /\ T.t = t /\ T.display = "unconfirmed"
    BY <1>1, <2>1, <2>3, <2>5 DEF TickType, Displays
  <2>7. tick' = [tick EXCEPT ![b] = T]
    BY <1>3, <2>2, <2>4 DEF RoomInv, TicksOK
  <2> QED BY <1>3, <2>6, <2>7 DEF ChecksTo
<1>4. \/ tick' = [tick EXCEPT ![b] = Idle]
      \/ /\ Holds(b)
         /\ \E t \in ToCheck(tick[b].left) :
              tick' = [tick EXCEPT ![b].left = ToCheck(tick[b].left) \ {t}, ![b].t = t,
                                   ![b].display = "unconfirmed", ![b].at = Reminds(t)]
  BY DEF Check, Reminds
<1> QED BY <1>2, <1>3, <1>4

\* The wake check takes up a task that was rung.
LEMMA CheckTyped == ASSUME RoomInv, NEW b \in Bridges, Check(b) PROVE RoomInv'
<1>1. PICK T \in TickType : tick' = [tick EXCEPT ![b] = T] /\ ChecksTo(b, T)
  BY CheckIs
<1>2. T.at \notin Working /\ (T.now = tick[b].now \/ T.now = 0)
  BY <1>1, RestIs DEF ChecksTo, Reminds, Working, Keeping, Serving, AtAgent
<1> QED BY <1>1, <1>2, BoundsAre, BellStep DEF Check

\* A step that only writes a bell record.
LEMMA WakesTyped == ASSUME RoomInv, NEW b \in Bridges, NEW from, NEW state \in WakeStates, NEW to \in Ringing,
                           Wakes(b, from, state, to)
                    PROVE  RoomInv'
<1>1. PICK t, w : t = tick[b].t /\ w = [state |-> state, due |-> FALSE]
  OBVIOUS
<1>2. t \in Tasks /\ w \in [state : WakeStates, due : BOOLEAN]
  BY <1>1, TickIs
<1>3. BellOK'
  BY <1>1, <1>2, WakeTyped DEF Wakes
<1> QED BY <1>3, BoundsAre, BellGoes DEF Wakes

\* The records the wake check writes.
LEMMA RemindTyped == ASSUME RoomInv, NEW b \in Bridges, \/ ByCard(b) \/ Again(b) \/ Rerang(b) \/ NoWakeYet(b)
                     PROVE  RoomInv'
<1>1. {"acked", "unknown", "rerung", "no_wake"} \subseteq WakeStates
         /\ {"check", "rering", "look"} \subseteq Ringing
  BY DEF WakeStates, Ringing
<1>2. CASE ByCard(b)
  BY <1>1, <1>2, WakesTyped DEF ByCard
<1>3. CASE Again(b)
  BY <1>1, <1>3, WakesTyped DEF Again
<1>4. CASE Rerang(b)
  BY <1>1, <1>4, WakesTyped DEF Rerang
<1>5. CASE NoWakeYet(b)
  BY <1>1, <1>5, WakesTyped DEF NoWakeYet
<1> QED BY <1>2, <1>3, <1>4, <1>5

\* The second row.
LEMMA ReringTyped == ASSUME RoomInv, NEW b \in Bridges, Rering(b) PROVE RoomInv'
<1>1. PICK t : t = tick[b].t
  OBVIOUS
<1>2. t \in Tasks
  BY <1>1, TickIs
<1>3. UNCHANGED rows \/ Append1(t, "second")
  BY <1>1 DEF Rering
<1>4. BellOK' \/ UNCHANGED bell
  BY <1>2, <1>3, RowTyped DEF Rering, bell
<1>5. faults' \in 0..mode.faults
  BY FaultIs, BoundsAre DEF Rering
<1>6. PICK step \in Ringing : Go(b, step)
  BY DEF Rering, Ringing
<1> QED BY <1>4, <1>5, <1>6, BellGoes DEF Rering

\* Where the look at the card leads.
LEMMA LookAtCardIs == ASSUME RoomInv, NEW b \in Bridges, LookAtCard(b)
    PROVE \E T \in TickType : /\ tick' = [tick EXCEPT ![b] = T] /\ T.now = tick[b].now /\ T.t = tick[b].t
                              /\ T.at \in {"show", "check"} /\ T.display = "no_wake"
<1>1. tick[b] \in TickType
  BY TickIs
<1>2. PICK step \in {"show", "check"} : step = IF card[tick[b].t] = "claimed" THEN "show" ELSE "check"
  OBVIOUS
<1>3. PICK T : T = [tick[b] EXCEPT !.at = step, !.display = "no_wake"]
  OBVIOUS
<1>4. T = [at |-> step, now |-> tick[b].now, upto |-> tick[b].upto, e |-> tick[b].e,
         src |-> tick[b].src, todo |-> tick[b].todo, go |-> tick[b].go, t |-> tick[b].t, to |-> tick[b].to,
         retire |-> tick[b].retire, left |-> tick[b].left, held |-> tick[b].held, display |-> "no_wake"]
  BY <1>1, <1>3 DEF TickType
<1>5. T \in TickType /\ T.now = tick[b].now /\ T.t = tick[b].t /\ T.at = step /\ T.display = "no_wake"
  BY <1>1, <1>4 DEF TickType, Steps, Displays
<1>6. tick' = [tick EXCEPT ![b] = T]
  BY <1>2, <1>3 DEF LookAtCard, RoomInv, TicksOK
<1> QED BY <1>5, <1>6

\* The card is looked at before it says that nobody woke.
LEMMA LookAtCardTyped == ASSUME RoomInv, NEW b \in Bridges, LookAtCard(b) PROVE RoomInv'
<1>1. PICK T \in TickType : tick' = [tick EXCEPT ![b] = T] /\ T.now = tick[b].now
         /\ T.at \in {"show", "check"}
  BY LookAtCardIs
<1>2. T.at \notin Working
  BY <1>1 DEF Working, Keeping, Serving, AtAgent
<1> QED BY <1>1, <1>2, BoundsAre, BellStep DEF LookAtCard

\* The bridge's card is refreshed.
LEMMA ShowTyped == ASSUME RoomInv, NEW b \in Bridges, Show(b) PROVE RoomInv'
<1>1. Go(b, "check") /\ "check" \in Ringing
  BY DEF Show, Ringing
<1>2. [TaskNext]_taskVars
  BY TickIs DEF Show, TaskNext
<1> QED BY <1>1, <1>2, BoundsAre, BellGoes DEF Show

\* A step of the board passes.
LEMMA SettleStep ==
    ASSUME RoomInv, NEW b \in Bridges, NEW S \in SettleType, settle' = [settle EXCEPT ![b] = S],
           [TaskNext]_taskVars, UNCHANGED Elsewhere, BellOK' \/ UNCHANGED wake
    PROVE  RoomInv'
<1>1. UNCHANGED <<mode, words, cursor, asked, living, rows, lock, tick, bounds>>
  BY DEF Elsewhere
<1>2. AskedOK' /\ LivingOK' /\ BellOK'
  BY <1>1, FramesStand DEF bell
<1>3. RunOK'
  BY <1>1 DEF RoomInv, RunOK, bounds
<1>4. tick' = [tick EXCEPT ![b] = tick[b]]
  BY <1>1 DEF RoomInv, TicksOK
<1> QED BY <1>1, <1>2, <1>3, <1>4, BoundsAre, TickIs, OneTickSteps

\* A board pass that goes on with its task.
LEMMA ThenIs == ASSUME RoomInv, NEW b \in Bridges, NEW step \in {"look", "show"}
                PROVE  Then(b, step) \in SettleType /\ Then(b, step).t = settle[b].t
                                                       /\ Then(b, step).at = step
<1>1. settle[b] \in SettleType
  BY SettleIs
<1>2. Then(b, step) = [at |-> step, t |-> settle[b].t, seen |-> settle[b].seen]
  BY <1>1 DEF Then, SettleType
<1> QED BY <1>1, <1>2 DEF SettleType

\* An acknowledgement is found.
LEMMA SeeAckTyped == ASSUME RoomInv, NEW b \in Bridges, SeeAck(b) PROVE RoomInv'
<1>1. PICK t \in acks : settle' = [settle EXCEPT ![b] = [at |-> "write", t |-> t, seen |-> wake[t].state]]
  BY DEF SeeAck
<1>2. t \in Tasks /\ wake[t].state \in WakeStates
  BY DEF RoomInv, WordsOK, BellOK
<1>3. PICK S : S = [at |-> "write", t |-> t, seen |-> wake[t].state]
  OBVIOUS
<1>4. S \in SettleType /\ settle' = [settle EXCEPT ![b] = S]
  BY <1>1, <1>2, <1>3 DEF SettleType
<1> QED BY <1>4, SettleStep DEF SeeAck

\* It is kept.
LEMMA KeepAckTyped == ASSUME RoomInv, NEW b \in Bridges, KeepAck(b) PROVE RoomInv'
<1>1. PICK S : S = IF settle[b].seen \in {"no_wake", "unknown"} THEN Then(b, "look") ELSE Quiet
  OBVIOUS
<1>2. S \in SettleType
  BY <1>1, RestIs, ThenIs
<1>3. settle' = [settle EXCEPT ![b] = S]
  BY <1>1 DEF KeepAck, RoomInv, RunOK
<1>4. PICK t, w : t = settle[b].t /\ w = [state |-> "acked", due |-> FALSE]
  OBVIOUS
<1>5. t \in Tasks /\ w \in [state : WakeStates, due : BOOLEAN]
  BY <1>4, SettleIs DEF WakeStates
<1>6. BellOK'
  BY <1>4, <1>5, WakeTyped DEF KeepAck, Elsewhere
<1> QED BY <1>2, <1>3, <1>6, SettleStep DEF KeepAck

\* The card is looked at.
LEMMA AckLookTyped == ASSUME RoomInv, NEW b \in Bridges, AckLook(b) PROVE RoomInv'
<1>1. PICK S : S = IF card[settle[b].t] \in {"no_wake", "unconfirmed"} THEN Then(b, "show") ELSE Quiet
  OBVIOUS
<1>2. S \in SettleType
  BY <1>1, RestIs, ThenIs
<1>3. settle' = [settle EXCEPT ![b] = S]
  BY <1>1 DEF AckLook, RoomInv, RunOK
<1> QED BY <1>2, <1>3, SettleStep DEF AckLook

\* The card is taken back to claimed.
LEMMA AckShowTyped == ASSUME RoomInv, NEW b \in Bridges, AckShow(b) PROVE RoomInv'
<1>1. [TaskNext]_taskVars
  BY SettleIs DEF AckShow, TaskNext, Displays
<1> QED BY <1>1, RestIs, SettleStep DEF AckShow

-----------------------------------------------------------------------------
(* The room, the board, the agents and time.                               *)

\* Everything but what is said, when it is and what is acknowledged stands.
LEMMA AsideIs ==
    ASSUME RoomInv, [TaskNext]_taskVars, WordsOK', Len(said') >= Len(said), clock' >= clock,
          Len(said') \in Nat,
           \A i \in Turns : i \in Turns' /\ said'[i] = said[i],
           UNCHANGED <<mode, cursor, asked, living, lock, tick, settle, bounds>>, BellOK'
    PROVE  RoomInv'
<1>1. TaskInv' /\ LivingOK' /\ RunOK'
  BY FramesStand
<1>2. cursor' \in 0..Len(said')
  BY WordsAre
<1>3. ASSUME NEW p \in Proposal, PropOK(p) PROVE PropOK(p)'
  <2>1. CASE p.of # 0
    <3>1. p.of \in Turns' /\ said'[p.of] = said[p.of] /\ said[p.of].kind = "ask" /\ p.to # {}
      BY <1>3, <2>1 DEF PropOK
    <3>2. p.spoken # 0 => /\ p.spoken \in Turns' /\ said'[p.spoken] = said[p.spoken]
                          /\ p.of < p.spoken /\ said[p.spoken].kind = "spoken"
                          /\ said[p.spoken].of = p.of /\ p.to \subseteq said[p.spoken].to
      BY <1>3, <2>1 DEF PropOK
    <3> QED BY <3>1, <3>2 DEF PropOK
  <2>2. CASE p.of = 0
    BY <2>2 DEF PropOK
  <2> QED BY <2>1, <2>2
<1>4. AskedOK'
  <2>1. UNCHANGED <<pending, proposal, readback, offer>>
    BY DEF asked
  <2>2. PropOK(proposal)'
    BY <1>3, <2>1 DEF RoomInv, AskedOK, PropOK
  <2> QED BY <2>1, <2>2 DEF RoomInv, AskedOK
<1>5. ASSUME NEW b \in Bridges PROVE LocalFor(tick[b])'
  <2>1. PICK T : T = tick[b]
    OBVIOUS
  <2>2. LocalFor(T) /\ T \in TickType /\ T.held \in Proposal
    BY <2>1, TickIs
  <2>3. T.at \in Working => T.e \in Turns /\ said'[T.e] = said[T.e]
    BY <2>1, HeardIs
  <2>4. T.now <= clock' /\ (T.at \in Working => T.upto <= Len(said'))
    BY <2>1, <2>2, TickIs, WordsAre DEF LocalFor, RoomInv, WordsOK
  <2>5. T.at \in Keeping => PropOK(T.held)'
    BY <1>3, <2>2 DEF LocalFor, PropOK
  <2> QED BY <2>1, <2>2, <2>3, <2>4, <2>5 DEF LocalFor, Working, Keeping, Serving, AtAgent
<1>6. TicksOK'
  BY <1>5 DEF RoomInv, TicksOK
<1> QED BY <1>1, <1>2, <1>4, <1>6 DEF RoomInv

\* One more event is said.
SaysIt(event) ==
    /\ event \in Event /\ Len(said) < MaxSaid /\ Hear(event)
    /\ event.at = clock
    /\ event.kind = "spoken" => /\ event.of \in Turns /\ said[event.of].at = clock
                                /\ event.of = readback.of /\ event.to = readback.to
    /\ event.kind = "revoke" => \E t \in Tasks : event.of = t[1] /\ event.to = {t[2]}

\* What can be said: words of the owner, a revocation, or a read-back of the chair.
LEMMA SayIs == ASSUME RoomInv, Say
               PROVE  UNCHANGED Said /\ \E event : SaysIt(event)
<1>1. Len(said) < MaxSaid /\ clock \in Nat /\ MaxSaid \in Nat
  BY ModeIs, WordsAre, TasksAre DEF Say
<1>2. ASSUME NEW w \in mode.words, NEW e,
             e = [kind |-> w.kind, to |-> w.to, of |-> 0, rev |-> 0, at |-> clock],
             Hear(e)
      PROVE  SaysIt(e)
  <2>1. w.kind \in {"ask", "go", "cancel"} /\ w.to \subseteq Agents
    BY ModeIs
  <2>2. e \in Event /\ e.at = clock /\ e.kind = w.kind
    BY <1>1, <1>2, <2>1 DEF Event, Kinds
  <2> QED BY <1>1, <1>2, <2>1, <2>2 DEF SaysIt
<1>3. ASSUME NEW t \in Tasks, NEW e, Hear(e),
             e = [kind |-> "revoke", to |-> {t[2]}, of |-> t[1], rev |-> task[t].rev, at |-> clock]
      PROVE  SaysIt(e)
  <2>1. task[t].rev \in Nat
    BY DEF RoomInv, TaskInv, TaskTypeOK, RecordType
  <2>2. t[1] \in 0..MaxSaid /\ {t[2]} \subseteq Agents
    BY TaskIs, TasksAre
  <2>3. e \in Event /\ e.at = clock /\ e.kind = "revoke" /\ e.of = t[1] /\ e.to = {t[2]}
    BY <1>1, <1>3, <2>1, <2>2 DEF Event, Kinds
  <2> QED BY <1>1, <1>3, <2>3 DEF SaysIt
<1>4. ASSUME readback.of # 0, said[readback.of].at = clock, NEW e, Hear(e),
             e = [kind |-> "spoken", to |-> readback.to, of |-> readback.of, rev |-> 0, at |-> clock]
      PROVE  SaysIt(e)
  <2>1. readback.of \in Turns /\ readback.of \in 0..MaxSaid /\ readback.to \subseteq Agents
    BY <1>4 DEF RoomInv, AskedOK, Asked
  <2>2. e \in Event /\ e.at = clock /\ e.kind = "spoken" /\ e.of = readback.of /\ e.to = readback.to
    BY <1>1, <1>4, <2>1 DEF Event, Kinds
  <2> QED BY <1>1, <1>4, <2>1, <2>2 DEF SaysIt
<1> QED BY <1>2, <1>3, <1>4 DEF Say

\* A turn is added at the end, and no other changes.
LEMMA SaidAre == ASSUME RoomInv, NEW event, SaysIt(event)
    PROVE /\ said' \in Seq(Event) /\ Len(said') = Len(said) + 1 /\ Turns' = 1..Len(said')
          /\ said'[Len(said')] = event /\ Len(said') \in Turns'
          /\ \A i \in Turns : i \in Turns' /\ said'[i] = said[i]
          /\ \A i \in Turns' : i \in Turns \/ i = Len(said')
<1>1. said \in Seq(Event) /\ event \in Event /\ said' = Append(said, event) /\ Len(said) \in Nat
  BY WordsAre DEF SaysIt, Hear, RoomInv, WordsOK
<1>2. said' \in Seq(Event) /\ Len(said') = Len(said) + 1
  BY <1>1
<1>3. said'[Len(said')] = event
  BY <1>1
<1>4. Turns' = 1..Len(said') /\ Turns = 1..Len(said)
  BY <1>2, WordsAre DEF Turns
<1>5. \A i \in 1..Len(said) : said'[i] = said[i]
  BY <1>1
<1> QED BY <1>1, <1>2, <1>3, <1>4, <1>5

\* Something is said.
LEMMA SayTyped == ASSUME RoomInv, Say PROVE RoomInv'
<1>1. PICK event : SaysIt(event)
  BY SayIs
<1>2. UNCHANGED <<taskVars, mode, clock, acks, cursor, asked, living, bell, lock, tick, settle, bounds>>
  BY SayIs DEF Said
<1>3. PICK n \in Nat : n = Len(said') /\ n = Len(said) + 1
  BY SaidAre, WordsAre, <1>1
<1>4. n <= MaxSaid
  BY <1>1, <1>3, WordsAre, TasksAre DEF SaysIt
<1>5. ASSUME NEW i \in Turns' PROVE said'[i].at <= clock
  BY <1>1, SaidAre, WordsAre DEF SaysIt, RoomInv, WordsOK, SaidOK
<1>6. ASSUME NEW i \in Turns', NEW j \in Turns', i <= j PROVE said'[i].at <= said'[j].at
  <2>1. CASE j \in Turns
    <3>1. i \in Turns
      BY <1>1, <1>6, <2>1, SaidAre, WordsAre
    <3> QED BY <1>1, <1>6, <2>1, <3>1, SaidAre DEF RoomInv, WordsOK, SaidOK
  <2>2. CASE j = Len(said')
    BY <1>1, <1>5, <2>2, SaidAre DEF SaysIt
  <2> QED BY <1>1, <2>1, <2>2, SaidAre
<1>7. ASSUME NEW i \in Turns', said'[i].kind = "spoken"
      PROVE  said'[i].of \in 1..(i - 1) /\ said'[said'[i].of].at = said'[i].at
  <2>1. CASE i \in Turns
    <3>1. said'[i] = said[i] /\ said[i].of \in 1..(i - 1) /\ said[said[i].of].at = said[i].at
      BY <1>1, <1>7, <2>1, SaidAre DEF RoomInv, WordsOK, SaidOK
    <3>2. said[i].of \in Turns
      BY <2>1, <3>1, WordsAre
    <3> QED BY <1>1, <3>1, <3>2, SaidAre
  <2>2. CASE i = Len(said')
    <3>1. said'[i] = event /\ event.of \in Turns /\ said[event.of].at = clock /\ event.at = clock
      BY <1>1, <1>7, <2>2, SaidAre DEF SaysIt
    <3>2. said'[event.of] = said[event.of]
      BY <1>1, <3>1, SaidAre
    <3>3. event.of \in 1..Len(said) /\ i = Len(said) + 1 /\ Len(said) \in Nat
      BY <1>3, <2>2, <3>1, WordsAre
    <3>4. event.of \in 1..(i - 1)
      BY <3>3
    <3> QED BY <3>1, <3>2, <3>4
  <2> QED BY <1>1, <2>1, <2>2, SaidAre
<1>8. ASSUME NEW i \in Turns', said'[i].kind = "revoke"
      PROVE  \E t \in Tasks : said'[i].of = t[1] /\ said'[i].to = {t[2]}
  <2>1. CASE i \in Turns
    BY <1>1, <1>8, <2>1, SaidAre DEF RoomInv, WordsOK, SaidOK
  <2>2. CASE i = Len(said')
    BY <1>1, <1>8, <2>2, SaidAre DEF SaysIt
  <2> QED BY <1>1, <2>1, <2>2, SaidAre
<1>9. WordsOK'
  <2>1. SaidOK'
    BY <1>2, <1>3, <1>4, <1>5, <1>6, <1>7, <1>8 DEF SaidOK
  <2> QED BY <1>1, <1>2, <2>1, SaidAre DEF RoomInv, WordsOK
<1>10. BellOK' /\ [TaskNext]_taskVars
  BY <1>2, FramesStand
<1>11. /\ Len(said') >= Len(said) /\ clock' >= clock /\ Len(said') \in Nat
       /\ \A i \in Turns : i \in Turns' /\ said'[i] = said[i]
  BY <1>1, <1>2, <1>3, SaidAre, WordsAre
<1> QED BY <1>2, <1>9, <1>10, <1>11, AsideIs

\* Time passes.
LEMMA TimeTyped == ASSUME RoomInv, Time PROVE RoomInv'
<1>1. UNCHANGED <<taskVars, mode, said, acks, cursor, asked, living, bell, lock, tick, settle, bounds>>
  BY DEF Time
<1>2. clock' \in 0..mode.time /\ clock' >= clock /\ clock' = clock + 1
  BY ModeIs, WordsAre DEF Time
<1>3. SaidOK'
  <2>1. Turns' = Turns /\ said' = said
    BY <1>1 DEF Turns
  <2>2. \A i \in Turns : said[i].at \in Nat /\ said[i].at <= clock /\ clock \in Nat
    BY WordsAre DEF RoomInv, WordsOK, SaidOK
  <2>3. \A i \in Turns : said[i].at <= clock'
    BY <1>2, <2>2
  <2> QED BY <2>1, <2>3 DEF RoomInv, WordsOK, SaidOK
<1>4. WordsOK'
  BY <1>1, <1>2, <1>3 DEF RoomInv, WordsOK
<1>5. BellOK' /\ [TaskNext]_taskVars
  BY <1>1, FramesStand
<1>6. /\ Len(said') >= Len(said) /\ Len(said') \in Nat
      /\ \A i \in Turns : i \in Turns' /\ said'[i] = said[i]
  BY <1>1, WordsAre DEF Turns
<1> QED BY <1>1, <1>2, <1>4, <1>5, <1>6, AsideIs

\* A ring has been without an answer for too long.
LEMMA DueTyped == ASSUME RoomInv, NEW t \in Tasks, Due(t) PROVE RoomInv'
<1>1. UNCHANGED <<taskVars, mode, words, cursor, asked, living, rows, lock, tick, settle, bounds>>
  BY DEF Due
<1>2. PICK w : w = [wake[t] EXCEPT !.due = TRUE]
  OBVIOUS
<1>3. w \in [state : WakeStates, due : BOOLEAN]
  BY <1>2 DEF RoomInv, BellOK
<1>4. wake' = [wake EXCEPT ![t] = w]
  BY <1>2 DEF Due, RoomInv, BellOK
<1>5. BellOK'
  BY <1>1, <1>3, <1>4, WakeTyped
<1>6. WordsOK' /\ [TaskNext]_taskVars
  BY <1>1, FramesStand
<1>7. /\ Len(said') >= Len(said) /\ Len(said') \in Nat /\ clock' >= clock
      /\ \A i \in Turns : i \in Turns' /\ said'[i] = said[i]
  BY <1>1, WordsAre DEF Turns, words
<1> QED BY <1>1, <1>5, <1>6, <1>7, AsideIs

\* An agent takes its ask from the inbox.
LEMMA AckTyped == ASSUME RoomInv, NEW t \in Tasks, Ack(t) PROVE RoomInv'
<1>1. UNCHANGED <<taskVars, mode, said, clock, cursor, asked, living, bell, lock, tick, settle, bounds>>
  BY DEF Ack
<1>2. WordsOK'
  BY <1>1 DEF Ack, RoomInv, WordsOK, SaidOK, Turns
<1>3. BellOK' /\ [TaskNext]_taskVars
  BY <1>1, FramesStand
<1>4. /\ Len(said') >= Len(said) /\ Len(said') \in Nat /\ clock' >= clock
      /\ \A i \in Turns : i \in Turns' /\ said'[i] = said[i]
  BY <1>1, WordsAre DEF Turns
<1> QED BY <1>1, <1>2, <1>3, <1>4, AsideIs

\* The agents, and the keys and clocks of the tasks.
LEMMA AgentTyped == ASSUME RoomInv, Agent PROVE RoomInv' /\ [TaskNext]_taskVars
<1>1. UNCHANGED <<mode, words, cursor, asked, living, bell, lock, tick, settle, bounds>>
  BY DEF Agent
<1>2. [TaskNext]_taskVars
  <2>1. ASSUME NEW q \in mode.requests, NEW op \in mode.ops, NEW t \in Tasks, NEW rev \in 1..task[t].rev,
               NEW hash \in IF op = "complete" THEN Requests ELSE {NoCard}, Send(q, t, op, rev, hash)
        PROVE  TaskNext
    <3>1. q \in Requests /\ op \in Ops
      BY ModeIs
    <3>2. rev \in Nat
      BY DEF RoomInv, TaskInv, TaskTypeOK, RecordType
    <3>3. hash \in Requests \cup {NoCard}
      OBVIOUS
    <3> QED BY <2>1, <3>1, <3>2, <3>3 DEF TaskNext
  <2>2. ASSUME NEW t \in Tasks, KeyExpires(t) \/ ClockPasses(t) PROVE TaskNext
    BY <2>2 DEF TaskNext
  <2>3. ASSUME NEW q \in Requests, Expire(q) \/ PutCard(q) \/ Complete(q) PROVE TaskNext
    BY <2>3 DEF TaskNext
  <2> QED BY <2>1, <2>2, <2>3 DEF Agent
<1>3. WordsOK' /\ BellOK'
  BY <1>1, FramesStand
<1>4. /\ Len(said') >= Len(said) /\ Len(said') \in Nat /\ clock' >= clock
      /\ \A i \in Turns : i \in Turns' /\ said'[i] = said[i]
  BY <1>1, WordsAre DEF Turns, words
<1> QED BY <1>1, <1>2, <1>3, <1>4, AsideIs

\* A step of something else.
LEMMA StutterTyped == ASSUME RoomInv, UNCHANGED vars PROVE RoomInv'
<1>1. UNCHANGED <<taskVars, mode, words, cursor, asked, living, bell, lock, tick, settle, bounds>>
  BY DEF vars
<1>2. WordsOK' /\ BellOK'
  BY <1>1, FramesStand
<1>3. /\ Len(said') >= Len(said) /\ Len(said') \in Nat /\ clock' >= clock
      /\ \A i \in Turns : i \in Turns' /\ said'[i] = said[i]
  BY <1>1, WordsAre DEF Turns, words
<1> QED BY <1>1, <1>2, <1>3, AsideIs

\* Every step of a tick keeps the room typed.
LEMMA TickTyped == ASSUME RoomInv, NEW b \in Bridges, Tick(b) PROVE RoomInv'
<1>1. CASE Launch(b) \/ End(b) \/ Look(b) \/ Mark(b) \/ Revoke(b) \/ Spoken(b) \/ Keep(b) \/ Cancel(b)
              \/ Close(b)
  BY <1>1, LaunchTyped, EndTyped, LookTyped, MarkTyped, RevokeTyped, SpokenTyped, KeepTyped, CancelTyped,
        CloseTyped
<1>2. CASE \/ GoConfirms(b) \/ Drop(b) \/ GoDirect(b) \/ AskDirect(b) \/ AskReadback(b) \/ Supersede(b)
           \/ Propose(b) \/ Cards(b)
  BY <1>2, GoConfirmsTyped, DropTyped, GoDirectTyped, AskDirectTyped, AskReadbackTyped, SupersedeTyped,
     ProposeTyped, CardsTyped
<1>3. CASE Pick(b) \/ Route(b) \/ ClaimAsk(b) \/ OpenAsk(b) \/ After(b) \/ Sweep(b)
  BY <1>3, PickTyped, RouteTyped, ClaimAskTyped, OpenAskTyped, AfterTyped, SweepTyped
<1>4. CASE \/ Reserve(b) \/ Ring(b) \/ Rang(b) \/ Unqueue(b) \/ Check(b) \/ ByCard(b) \/ Again(b)
           \/ Rering(b) \/ Rerang(b) \/ NoWakeYet(b) \/ LookAtCard(b) \/ Show(b)
  BY <1>4, ReserveTyped, RingTyped, RangTyped, UnqueueTyped, CheckTyped, RemindTyped, ReringTyped,
     LookAtCardTyped, ShowTyped
<1> QED BY <1>1, <1>2, <1>3, <1>4 DEF Tick

\* Every step of a board pass keeps the room typed.
LEMMA SettleTyped == ASSUME RoomInv, NEW b \in Bridges, Settle(b) PROVE RoomInv'
  BY SeeAckTyped, KeepAckTyped, AckLookTyped, AckShowTyped DEF Settle

\* Every step of the system keeps the room typed.
LEMMA RoomNext == ASSUME RoomInv, [Next]_vars PROVE RoomInv'
<1>1. ASSUME NEW b \in Bridges, Tick(b) \/ Settle(b) \/ Fail(b) \/ Die(b) \/ Lapse(b) PROVE RoomInv'
  BY <1>1, TickTyped, SettleTyped, FailTyped, DieTyped, LapseTyped
<1>2. CASE Say \/ Time \/ Agent
  BY <1>2, SayTyped, TimeTyped, AgentTyped
<1>3. ASSUME NEW t \in Tasks, Due(t) \/ Ack(t) PROVE RoomInv'
  BY <1>3, DueTyped, AckTyped
<1>4. CASE UNCHANGED vars
  BY <1>4, StutterTyped
<1> QED BY <1>1, <1>2, <1>3, <1>4 DEF Next

\* A revocation the bridge serves cancels one task.
LEMMA RevokeIsCancel == ASSUME RoomInv, NEW b \in Bridges, Revoke(b) PROVE [TaskNext]_taskVars
<1>1. tick[b].at \in Working /\ Heard(b).kind = "revoke"
  BY DEF Revoke, Hears, At, Working
<1>2. PICK t \in Tasks : Heard(b).of = t[1] /\ Heard(b).to = {t[2]}
  BY <1>1, HeardIs DEF RoomInv, WordsOK, SaidOK
<1>3. <<Heard(b).of, CHOOSE a \in Heard(b).to : TRUE>> = t
  <2>1. (CHOOSE a \in {t[2]} : TRUE) = t[2]
    OBVIOUS
  <2> QED BY <1>2, <2>1, TaskIs
<1>4. Heard(b).rev \in Nat
  BY <1>1, HeardIs DEF Event
<1>5. CancelEvent(t, Heard(b).rev) \/ UNCHANGED taskVars
  BY <1>3 DEF Revoke
<1> QED BY <1>4, <1>5 DEF TaskNext

\* A step of a tick does to the tasks one operation of theirs, or nothing.
LEMMA TickDrives == ASSUME RoomInv, NEW b \in Bridges, Tick(b) PROVE [TaskNext]_taskVars
<1>0. tick[b].t \in Tasks /\ mode.doorbell \in BOOLEAN /\ tick[b].display \in Displays
  BY TickIs, ModeIs
<1>1. CASE Launch(b) \/ End(b) \/ Look(b) \/ Mark(b) \/ Spoken(b) \/ Keep(b) \/ Cancel(b) \/ Close(b)
  BY <1>1 DEF Launch, End, Look, Mark, Spoken, Keep, Cancel, Close, Room
<1>2. CASE \/ GoConfirms(b) \/ Drop(b) \/ GoDirect(b) \/ AskDirect(b) \/ AskReadback(b) \/ Supersede(b)
           \/ Propose(b) \/ Cards(b)
  BY <1>2 DEF GoConfirms, Drop, GoDirect, AskDirect, AskReadback, Supersede, Propose, Cards, Room
<1>3. CASE Pick(b) \/ Route(b) \/ After(b) \/ Sweep(b)
  BY <1>3 DEF Pick, Route, After, Sweep, Room
<1>4. CASE ClaimAsk(b) \/ OpenAsk(b)
  BY <1>0, <1>4 DEF ClaimAsk, OpenAsk, TaskNext
<1>5. CASE \/ Reserve(b) \/ Ring(b) \/ Rang(b) \/ Check(b) \/ ByCard(b) \/ Again(b)
           \/ Rering(b) \/ Rerang(b) \/ NoWakeYet(b) \/ LookAtCard(b)
  BY <1>5 DEF Reserve, Ring, Rang, Check, ByCard, Again, Rering, Rerang, NoWakeYet, LookAtCard, Wakes
<1>6. CASE Unqueue(b) \/ Show(b)
  BY <1>0, <1>6 DEF Unqueue, Show, TaskNext
<1>7. CASE Revoke(b)
  BY <1>7, RevokeIsCancel
<1> QED BY <1>1, <1>2, <1>3, <1>4, <1>5, <1>6, <1>7 DEF Tick

\* So does every step of the system.
LEMMA BridgeDrives == ASSUME RoomInv, [Next]_vars PROVE [TaskNext]_taskVars
<1>1. ASSUME NEW b \in Bridges, Tick(b) PROVE [TaskNext]_taskVars
  BY <1>1, TickDrives
<1>2. ASSUME NEW b \in Bridges, Settle(b) PROVE [TaskNext]_taskVars
  BY <1>2, SettleIs DEF Settle, SeeAck, KeepAck, AckLook, AckShow, TaskNext, Displays
<1>3. ASSUME NEW b \in Bridges, Fail(b) \/ Die(b) \/ Lapse(b) PROVE [TaskNext]_taskVars
  BY <1>3, DropsIs DEF Fail, Die, Lapse
<1>4. CASE Say \/ Time \/ UNCHANGED vars
  BY <1>4 DEF Say, Said, Time, vars
<1>5. CASE Agent
  BY <1>5, AgentTyped
<1>6. ASSUME NEW t \in Tasks, Due(t) \/ Ack(t) PROVE [TaskNext]_taskVars
  BY <1>6 DEF Due, Ack
<1> QED BY <1>1, <1>2, <1>3, <1>4, <1>5, <1>6 DEF Next

\* The turns, ticks and bells are what the steps take them for (call_bridge.py, every step).
THEOREM RoomStands == Spec => []RoomInv
<1>1. Init => RoomInv
  BY RoomInit
<1>2. RoomInv /\ [Next]_vars => RoomInv'
  BY RoomNext
<1> QED BY <1>1, <1>2, PTL DEF Spec

\* The type invariant is part of it.
LEMMA RoomInvTyped == ASSUME RoomInv PROVE TypeOK
<1>1. TaskTypeOK
  BY DEF RoomInv, TaskInv
<1> QED BY <1>1 DEF TypeOK, RoomInv, WordsOK, AskedOK, Asked, Proposal, LivingOK, BellOK, RunOK, TicksOK

\* The call bridge, with its faults, deaths and lost locks, does nothing to the tasks that
\* call_lifecycle.py does not allow: a behaviour of the bridge is one of the tasks.
THEOREM BridgeDrivesTheTasks == Spec => TaskSpec
<1>1. Init => TaskInit
  BY DEF Init
<1>2. RoomInv /\ [Next]_vars => [TaskNext]_taskVars
  BY BridgeDrives
<1> QED BY <1>1, <1>2, RoomStands, PTL DEF Spec, TaskSpec

\* The page shows one card for one piece of work, whatever the bridge and the agents
\* write late or twice (call_lifecycle.py, visible).
THEOREM OneCardIsShown == Spec => []ShowsOneCard
<1>1. RoomInv => ShowsOneCard
  BY TaskInvShows DEF RoomInv
<1> QED BY <1>1, RoomStands, PTL

\* A task that has ended is never changed, revived or rung again by a bridge.
THEOREM EndsStand == Spec => EndIsFinal
<1> DEFINE Still == \A t \in Tasks : task[t].state \in Terminal =>
          task'[t] = task[t] /\ card'[t] = card[t] /\ work'[t] = work[t] /\ t \notin ring'
<1>1. RoomInv /\ [Next]_vars => [Still]_taskVars
  BY BridgeDrives, EndedRests DEF RoomInv, Rests
<1> HIDE DEF Still
<1>2. Spec => [][Still]_taskVars
  BY <1>1, RoomStands, PTL DEF Spec
<1> QED BY <1>2 DEF Still, EndIsFinal

-----------------------------------------------------------------------------
(* One execution at a time, while the lock does not lapse.                 *)

OthersStand(b) == \A c \in Bridges \ {b} : tick'[c] = tick[c]

\* A step of one bridge leaves the ticks of the others alone.
LEMMA OthersAre == ASSUME RoomInv, NEW b \in Bridges, Tick(b) \/ Fail(b) \/ Die(b) PROVE OthersStand(b)
<1>0. tick \in [Bridges -> TickType]
  BY DEF RoomInv, TicksOK
<1>1. CASE Launch(b) \/ End(b) \/ Look(b) \/ Mark(b) \/ Spoken(b) \/ Keep(b) \/ Cancel(b) \/ Close(b)
  BY <1>0, <1>1 DEF Launch, End, Look, Mark, Spoken, Keep, Cancel, Close, Room, Go, Onward, OthersStand
<1>2. CASE \/ GoConfirms(b) \/ Drop(b) \/ GoDirect(b) \/ AskDirect(b) \/ AskReadback(b) \/ Supersede(b)
           \/ Propose(b) \/ Cards(b)
  BY <1>0, <1>2 DEF GoConfirms, Drop, GoDirect, AskDirect, AskReadback, Supersede, Propose, Cards, Go,
        OthersStand
<1>3. CASE Pick(b) \/ Route(b) \/ After(b) \/ Sweep(b) \/ ClaimAsk(b) \/ OpenAsk(b) \/ Revoke(b)
  BY <1>0, <1>3 DEF Pick, Route, After, Sweep, ClaimAsk, OpenAsk, Revoke, Go, OthersStand
<1>4. CASE \/ Reserve(b) \/ Ring(b) \/ Rang(b) \/ Check(b) \/ ByCard(b) \/ Again(b)
           \/ Rering(b) \/ Rerang(b) \/ NoWakeYet(b) \/ LookAtCard(b) \/ Unqueue(b) \/ Show(b)
  BY <1>0, <1>4 DEF Reserve, Ring, Rang, Check, ByCard, Again, Rering, Rerang, NoWakeYet, LookAtCard, Wakes,
     Unqueue, Show, Go, OthersStand
<1>5. CASE Fail(b) \/ Die(b)
  BY <1>0, <1>5 DEF Fail, Die, OthersStand
<1> QED BY <1>1, <1>2, <1>3, <1>4, <1>5 DEF Tick

\* All steps of a tick but the first are those of an execution that lives.
LEMMA TickAlive ==
    ASSUME NEW b \in Bridges, Tick(b), ~Launch(b) PROVE Alive(b) /\ UNCHANGED <<mode, lock, settle, lapses>>
<1>1. CASE \/ End(b) \/ Look(b) \/ Mark(b) \/ Spoken(b) \/ Keep(b) \/ Cancel(b) \/ Close(b)
  BY <1>1 DEF End, Look, Mark, Spoken, Keep, Cancel, Close, Room, Hears, At, Alive, bounds
<1>2. CASE \/ GoConfirms(b) \/ Drop(b) \/ GoDirect(b) \/ AskDirect(b) \/ AskReadback(b) \/ Supersede(b)
           \/ Propose(b) \/ Cards(b)
  BY <1>2 DEF GoConfirms, Drop, GoDirect, AskDirect, AskReadback, Supersede, Propose, Cards, Room, Hears,
        At, Alive
<1>3. CASE Pick(b) \/ Route(b) \/ After(b) \/ Sweep(b) \/ ClaimAsk(b) \/ OpenAsk(b) \/ Revoke(b)
  BY <1>3 DEF Pick, Route, After, Sweep, ClaimAsk, OpenAsk, Revoke, Room, Hears, At, Alive, bounds
<1>4. CASE \/ Reserve(b) \/ Ring(b) \/ Rang(b) \/ Check(b) \/ ByCard(b) \/ Again(b)
           \/ Rering(b) \/ Rerang(b) \/ NoWakeYet(b) \/ LookAtCard(b) \/ Unqueue(b) \/ Show(b)
  BY <1>4 DEF Reserve, Ring, Rang, Check, ByCard, Again, Rering, Rerang, NoWakeYet, LookAtCard, Wakes,
     Unqueue, Show, Bell, At, Alive
<1> QED BY <1>1, <1>2, <1>3, <1>4 DEF Tick

\* While the lock does not lapse, only its holder lives.
LockInv == lapses = 0 => \A b \in Bridges : Alive(b) => Holds(b)

\* No bridge runs at the start.
LEMMA LockInit == ASSUME Init PROVE LockInv
  BY RestIs DEF Init, LockInv, Alive, At

\* A lapse of the lock is not forgotten, and the settings stand.
LEMMA LapsesGrow == ASSUME RoomInv, [Next]_vars PROVE (lapses' = 0 => lapses = 0) /\ mode' = mode
<1>0. lapses \in Nat
  BY ModeIs DEF RoomInv, RunOK
<1>1. ASSUME NEW b \in Bridges, Tick(b) PROVE UNCHANGED <<mode, lapses>>
  BY <1>1, TickAlive DEF Launch, bounds
<1>2. ASSUME NEW b \in Bridges, Settle(b) PROVE UNCHANGED <<mode, lapses>>
  BY <1>2 DEF Settle, SeeAck, KeepAck, AckLook, AckShow, Elsewhere, bounds
<1>3. ASSUME NEW b \in Bridges, Fail(b) \/ Die(b) \/ Lapse(b)
      PROVE  (lapses' = 0 => lapses = 0) /\ mode' = mode
  BY <1>0, <1>3 DEF Fail, Die, Lapse
<1>4. CASE Say \/ Time \/ Agent \/ UNCHANGED vars
  BY <1>4 DEF Say, Said, Time, Agent, vars, bounds
<1>5. ASSUME NEW t \in Tasks, Due(t) \/ Ack(t) PROVE UNCHANGED <<mode, lapses>>
  BY <1>5 DEF Due, Ack, bounds
<1> QED BY <1>1, <1>2, <1>3, <1>4, <1>5 DEF Next

\* While the lock has not lapsed, the one bridge that works holds it.
LEMMA LockKeeps == ASSUME RoomInv, LockInv, [Next]_vars PROVE LockInv'
<1>0. SUFFICES ASSUME lapses' = 0 PROVE \A c \in Bridges : Alive(c)' => Holds(c)'
  BY DEF LockInv
<1>1. \A c \in Bridges : Alive(c) => Holds(c)
  BY <1>0, LapsesGrow DEF LockInv
<1>2. ASSUME NEW b \in Bridges, Launch(b) PROVE \A c \in Bridges : Alive(c)' => Holds(c)'
  <2>1. OthersStand(b) /\ lock = Nobody /\ lock' = b
    BY <1>2, OthersAre DEF Tick, Launch
  <2>2. \A c \in Bridges : ~Alive(c)
    BY <1>1, <2>1, NobodyAssumption DEF Holds
  <2> QED BY <2>1, <2>2 DEF OthersStand, Alive, At, Holds
<1>3. ASSUME NEW b \in Bridges, Tick(b), ~Launch(b) PROVE \A c \in Bridges : Alive(c)' => Holds(c)'
  <2>1. OthersStand(b) /\ Alive(b) /\ lock' = lock
    BY <1>3, OthersAre, TickAlive
  <2> QED BY <1>1, <2>1 DEF OthersStand, Alive, At, Holds
<1>4. ASSUME NEW b \in Bridges, Fail(b) PROVE \A c \in Bridges : Alive(c)' => Holds(c)'
  <2>1. OthersStand(b) /\ Alive(b) /\ lock' = lock
    BY <1>4, OthersAre DEF Fail, Alive, At
  <2> QED BY <1>1, <2>1 DEF OthersStand, Alive, At, Holds
<1>5. ASSUME NEW b \in Bridges, Die(b) PROVE \A c \in Bridges : Alive(c)' => Holds(c)'
  <2>1. OthersStand(b) /\ Alive(b)
    BY <1>5, OthersAre DEF Die
  <2>2. \A c \in Bridges \ {b} : ~Alive(c)
    BY <1>1, <2>1 DEF Holds
  <2>3. tick'[b] = Off
    BY <1>5 DEF Die, RoomInv, TicksOK
  <2> QED BY <2>1, <2>2, <2>3, RestIs DEF OthersStand, Alive, At
<1>6. ASSUME NEW b \in Bridges, Lapse(b) PROVE FALSE
  BY <1>0, <1>6, ModeIs DEF Lapse, RoomInv, RunOK
<1>7. ASSUME UNCHANGED <<tick, lock>> PROVE \A c \in Bridges : Alive(c)' => Holds(c)'
  BY <1>1, <1>7 DEF Alive, At, Holds
<1>8. ASSUME NEW b \in Bridges, Settle(b) PROVE UNCHANGED <<tick, lock>>
  BY <1>8 DEF Settle, SeeAck, KeepAck, AckLook, AckShow, Elsewhere
<1>9. CASE Say \/ Time \/ Agent \/ UNCHANGED vars
  BY <1>7, <1>9 DEF Say, Said, Time, Agent, vars
<1>10. ASSUME NEW t \in Tasks, Due(t) \/ Ack(t) PROVE UNCHANGED <<tick, lock>>
  BY <1>10 DEF Due, Ack
<1> QED BY <1>2, <1>3, <1>4, <1>5, <1>6, <1>7, <1>8, <1>9, <1>10 DEF Next

-----------------------------------------------------------------------------
(* The doorbell.                                                           *)

\* A ring is on the board once; the second one follows a first that is confirmed, and
\* once it has been sent no record takes it back to the first.
WakeOK(t) ==
  /\ wake[t].state = "none" => rows[t].first = 0 /\ rows[t].second = 0
  /\ wake[t].state \in {"rung", "rerung", "no_wake"} => rows[t].first = 1
  /\ rows[t].first <= 1 /\ (rows[t].second > 0 => rows[t].first = 1)
  /\ wake[t].state \in {"rerung", "no_wake"} \/ card[t] = "no_wake" => rows[t].second > 0
  /\ lapses = 0 => rows[t].second <= 1 /\ (wake[t].state = "rung" => rows[t].second = 0)

Rung == {"rang", "again", "rering", "rerang", "nowake", "look"}
BellFor(T) ==
  /\ T.at = "rung" => wake[T.t].state # "none" /\ rows[T.t].first = 0
  /\ T.at \in Rung => rows[T.t].first = 1
  /\ T.at \in {"rerang", "nowake", "look"} \/ (T.at = "show" /\ T.display = "no_wake") => rows[T.t].second > 0
  /\ lapses = 0 /\ T.at \in {"rang", "again", "rering"} => rows[T.t].second = 0
  /\ lapses = 0 /\ T.at = "rering" => wake[T.t].state # "rung"

\* A ring that is reserved and not sent yet is in the hands of one execution.
OneRinger == \A b, c \in Bridges : At(b, "rung") /\ At(c, "rung") /\ tick[b].t = tick[c].t => b = c

BellInv == /\ \A t \in Tasks : WakeOK(t)
           /\ \A b \in Bridges : BellFor(tick[b])
           /\ OneRinger

BellRecord == [state : WakeStates, due : BOOLEAN]
BellRows == [first : Nat, second : Nat]

\* The bell record and the rows of a task.
LEMMA BellsAre == ASSUME RoomInv, NEW t \in Tasks
                  PROVE  /\ wake \in [Tasks -> BellRecord] /\ rows \in [Tasks -> BellRows]
                         /\ wake[t].state \in WakeStates /\ rows[t].first \in Nat /\ rows[t].second \in Nat
  BY DEF RoomInv, BellOK, BellRecord, BellRows

\* Nobody has been rung.
LEMMA BellInit == ASSUME Init PROVE BellInv
<1>1. \A t \in Tasks : wake[t] = NoWake /\ rows[t] = [first |-> 0, second |-> 0] /\ card[t] = NoDisplay
  BY DEF Init, TaskInit
<1>2. \A b \in Bridges : tick[b] = Off
  BY DEF Init
<1>3. NoWake.state = "none" /\ NoDisplay = "none"
  BY DEF NoWake, NoDisplay
<1> QED BY <1>1, <1>2, <1>3, RestIs DEF BellInv, WakeOK, BellFor, OneRinger, At, Rung

\* No card is put to "no_wake".
CardsStand == \A t \in Tasks : card'[t] = "no_wake" => card[t] = "no_wake"

\* The rings stand, and nobody takes one in hand.
LEMMA BellCalm ==
    ASSUME RoomInv, BellInv, CardsStand, UNCHANGED bell, lapses' = 0 => lapses = 0,
           \A b \in Bridges : \/ tick'[b] = tick[b]
                              \/ tick'[b].at \notin Rung \cup {"rung", "show"}
    PROVE  BellInv'
<1>1. wake' = wake /\ rows' = rows
  BY DEF bell
<1>2. ASSUME NEW t \in Tasks PROVE WakeOK(t)'
  BY <1>1 DEF BellInv, WakeOK, CardsStand
<1>3. ASSUME NEW b \in Bridges PROVE BellFor(tick[b])'
  BY <1>1 DEF BellInv, BellFor, Rung
<1>4. OneRinger'
  BY DEF BellInv, OneRinger, At
<1> QED BY <1>2, <1>3, <1>4 DEF BellInv

\* Only the acting execution has to be looked at, and the one task whose ring moves.
LEMMA BellMoves ==
    ASSUME RoomInv, BellInv, NEW b \in Bridges, NEW T, tick'[b] = T, OthersStand(b),
           NEW t \in Tasks, NEW w, NEW r, w = wake'[t], r = rows'[t],
           \A u \in Tasks \ {t} : wake'[u] = wake[u] /\ rows'[u] = rows[u],
           CardsStand, lapses' = 0 => lapses = 0,
           WakeOK(t)', BellFor(T)',
           T.at = "rung" => \A c \in Bridges \ {b} : At(c, "rung") => tick[c].t # T.t,
           \A c \in Bridges \ {b} : tick[c].t = t => BellFor(tick[c])'
    PROVE  BellInv'
<1>1. ASSUME NEW u \in Tasks PROVE WakeOK(u)'
  BY DEF BellInv, WakeOK, CardsStand
<1>2. ASSUME NEW c \in Bridges PROVE BellFor(tick[c])'
  <2>1. CASE c = b
    BY <2>1 DEF BellFor
  <2>2. CASE c # b /\ tick[c].t = t
    BY <2>2 DEF BellFor, OthersStand
  <2>3. CASE c # b /\ tick[c].t # t
    BY <2>3, TickIs DEF BellInv, BellFor, OthersStand
  <2> QED BY <2>1, <2>2, <2>3
<1>3. OneRinger'
  BY DEF BellInv, OneRinger, At, OthersStand
<1> QED BY <1>1, <1>2, <1>3 DEF BellInv

\* The operations on one task put no card to asleep.
LEMMA TaskCards ==
    ASSUME TaskInv, NEW t \in Tasks,
           \/ \E rings \in BOOLEAN : Claim(t, rings) \/ ClaimUnknown(t, rings)
           \/ Activate(t) \/ Abandon(t) \/ KeyExpires(t) \/ ClockPasses(t) \/ Dequeue(t)
           \/ \E rev \in Nat : CancelEvent(t, rev)
           \/ \E display \in {"claimed", "unconfirmed"} : Refresh(t, display)
    PROVE  CardsStand
<1>0. card \in [Tasks -> Displays \cup {NoDisplay}] /\ NoDisplay # "no_wake"
  BY DEF TaskInv, TaskTypeOK, NoDisplay
<1>1. ASSUME NEW landed, Land(t, landed) PROVE CardsStand
  BY <1>0, <1>1 DEF Land, CardsStand
<1>2. ASSUME NEW state, Terminate(t, state) PROVE CardsStand
  BY <1>0, <1>2 DEF Terminate, CardsStand
<1>3. CASE \E rings \in BOOLEAN : Claim(t, rings) \/ ClaimUnknown(t, rings)
  BY <1>1, <1>3 DEF Claim, ClaimUnknown
<1>4. CASE Activate(t) \/ Abandon(t) \/ KeyExpires(t) \/ ClockPasses(t) \/ Dequeue(t)
  BY <1>4 DEF Activate, Abandon, KeyExpires, ClockPasses, Dequeue, shown, CardsStand
<1>5. CASE \E rev \in Nat : CancelEvent(t, rev)
  BY <1>2, <1>5 DEF CancelEvent
<1>6. CASE \E display \in {"claimed", "unconfirmed"} : Refresh(t, display)
  BY <1>0, <1>6 DEF Refresh, CardsStand
<1> QED BY <1>3, <1>4, <1>5, <1>6

\* Nor does a request of an agent.
LEMMA RequestCards ==
    ASSUME TaskInv, NEW q \in Requests, Expire(q) \/ PutCard(q) \/ Complete(q) PROVE CardsStand
<1>0. card \in [Tasks -> Displays \cup {NoDisplay}] /\ NoDisplay # "no_wake"
  BY DEF TaskInv, TaskTypeOK, NoDisplay
<1>1. CASE Expire(q)
  BY <1>0, <1>1 DEF Expire, Terminate, CardsStand
<1>2. CASE PutCard(q)
  BY <1>2 DEF PutCard, CardsStand
<1>3. CASE Complete(q)
  BY <1>0, <1>3 DEF Complete, CardsStand
<1> QED BY <1>1, <1>2, <1>3

\* Nor does anything the agents and the clocks do.
LEMMA AgentCards == ASSUME RoomInv, Agent PROVE CardsStand
<1>1. ASSUME NEW q, NEW op, NEW t, NEW rev, NEW hash, Send(q, t, op, rev, hash) PROVE CardsStand
  BY <1>1 DEF Send, shown, CardsStand
<1> QED BY <1>1, TaskCards, RequestCards DEF Agent, RoomInv

\* Nor does a claim that is given up.
LEMMA DropsCards == ASSUME RoomInv, NEW b \in Bridges, Drops(b) PROVE CardsStand
<1>1. CASE UNCHANGED taskVars
  BY <1>1 DEF taskVars, shown, CardsStand
<1>2. CASE Abandon(tick[b].t)
  BY <1>2, TickIs, TaskCards DEF RoomInv
<1> QED BY <1>1, <1>2 DEF Drops

\* The steps of a tick that does not go to its doorbell.
RoomTick(b) ==
    \/ Launch(b) \/ End(b) \/ Look(b) \/ Mark(b) \/ Revoke(b) \/ Spoken(b) \/ Keep(b) \/ Cancel(b) \/ Close(b)
    \/ GoConfirms(b) \/ Drop(b) \/ GoDirect(b) \/ AskDirect(b) \/ AskReadback(b) \/ Supersede(b)
    \/ Propose(b) \/ Cards(b) \/ Pick(b) \/ Route(b) \/ ClaimAsk(b) \/ OpenAsk(b) \/ After(b) \/ Sweep(b)

\* The work on the room rings nobody and calls nobody asleep.
LEMMA RoomTickCalm == ASSUME RoomInv, NEW b \in Bridges, RoomTick(b)
                      PROVE  UNCHANGED bell /\ CardsStand
<1>1. CASE Launch(b) \/ End(b) \/ Look(b) \/ Mark(b) \/ Spoken(b) \/ Keep(b) \/ Cancel(b) \/ Close(b)
  BY <1>1 DEF Launch, End, Look, Mark, Spoken, Keep, Cancel, Close, Room, taskVars, shown, CardsStand
<1>2. CASE \/ GoConfirms(b) \/ Drop(b) \/ GoDirect(b) \/ AskDirect(b) \/ AskReadback(b) \/ Supersede(b)
           \/ Propose(b) \/ Cards(b)
  BY <1>2 DEF GoConfirms, Drop, GoDirect, AskDirect, AskReadback, Supersede, Propose, Cards, Room,
        taskVars, shown,
     CardsStand
<1>3. CASE Pick(b) \/ Route(b) \/ After(b) \/ Sweep(b)
  BY <1>3 DEF Pick, Route, After, Sweep, Room, taskVars, shown, CardsStand
<1>4. CASE ClaimAsk(b)
  <2>1. UNCHANGED bell
    BY <1>4 DEF ClaimAsk
  <2>2. CASE UNCHANGED taskVars
    BY <2>1, <2>2 DEF taskVars, shown, CardsStand
  <2>3. CASE Claim(tick[b].t, mode.doorbell) \/ ClaimUnknown(tick[b].t, mode.doorbell)
    BY <2>1, <2>3, TickIs, ModeIs, TaskCards DEF RoomInv
  <2> QED BY <1>4, <2>2, <2>3 DEF ClaimAsk
<1>5. CASE OpenAsk(b)
  BY <1>5, TickIs, TaskCards DEF OpenAsk, RoomInv
<1>6. CASE Revoke(b)
  <2>1. UNCHANGED bell
    BY <1>6 DEF Revoke
  <2>2. CASE UNCHANGED taskVars
    BY <2>1, <2>2 DEF taskVars, shown, CardsStand
  <2>3. CASE ~UNCHANGED taskVars
    <3>1. PICK t, rev : CancelEvent(t, rev)
      BY <1>6, <2>3 DEF Revoke
    <3>2. card' = [card EXCEPT ![t] = NoDisplay]
      BY <3>1 DEF CancelEvent, Terminate
    <3>3. card \in [Tasks -> Displays \cup {NoDisplay}] /\ NoDisplay # "no_wake"
      BY DEF RoomInv, TaskInv, TaskTypeOK, NoDisplay
    <3> QED BY <2>1, <3>2, <3>3 DEF CardsStand
  <2> QED BY <2>2, <2>3
<1> QED BY <1>1, <1>2, <1>3, <1>4, <1>5, <1>6 DEF RoomTick

\* The work on the room does not lead into the middle of a ring.
LEMMA RoomTickGoes == ASSUME RoomInv, NEW b \in Bridges, RoomTick(b)
                      PROVE  tick'[b] = tick[b] \/ tick'[b].at \notin Rung \cup {"rung", "show"}
<1>0. tick \in [Bridges -> TickType] /\ tick[b] \in TickType
  BY TickIs DEF RoomInv, TicksOK
<1>a. ASSUME NEW step, Go(b, step) PROVE tick'[b].at = step
  BY <1>0, <1>a DEF Go, TickType
<1>b. ASSUME NEW step, Copies(b, step) PROVE tick'[b].at = step
  BY <1>0, <1>b DEF Copies, TickType
<1>c. ASSUME NEW src, NEW todo, Serves(b, src, todo) PROVE tick'[b].at = "agents"
  BY <1>0, <1>c DEF Serves, TickType
<1>1. CASE Launch(b) \/ Keep(b) \/ Close(b) \/ Revoke(b) \/ Supersede(b) \/ Propose(b) \/ Cards(b)
  BY <1>1, <1>a DEF Launch, Keep, Close, Revoke, Supersede, Propose, Cards, Rung
<1>d. CASE End(b)
  BY <1>0, <1>d, RestIs DEF End, Rung
<1>e. CASE Spoken(b) \/ Cancel(b)
  BY <1>a, <1>b, <1>e DEF Spoken, Cancel, Copies, Rung
<1>f. CASE AskReadback(b)
  BY <1>a, <1>b, <1>f DEF AskReadback, Copies, Rung
<1>g. CASE GoDirect(b) \/ AskDirect(b)
  BY <1>c, <1>g DEF GoDirect, AskDirect, Serves, Rung
<1>h. CASE Drop(b)
  BY <1>0, <1>h DEF Drop, TickType, Rung
<1>2. CASE GoConfirms(b)
  <2>1. CASE Go(b, "mark") \/ Copies(b, "close")
    BY <1>a, <1>b, <2>1 DEF Rung
  <2>2. ASSUME NEW todo, tick' = [tick EXCEPT ![b].at = "drop", ![b].held = proposal, ![b].todo = todo]
        PROVE  tick'[b].at = "drop"
    BY <1>0, <2>2 DEF TickType
  <2> QED BY <1>2, <2>1, <2>2 DEF GoConfirms, Copies, Rung
<1>3. CASE Pick(b)
  <2>1. PICK T \in TickType : tick' = [tick EXCEPT ![b] = T] /\ ((T = Idle /\ ~Holds(b)) \/ PickTo(b, T))
    BY <1>3, PickIs
  <2> QED BY <1>0, <2>1, RestIs DEF PickTo, Rung
<1>4. CASE Route(b) \/ ClaimAsk(b) \/ OpenAsk(b)
  BY <1>0, <1>4 DEF Route, ClaimAsk, OpenAsk, Go, TickType, Rung
<1>5. CASE After(b)
  <2>1. PICK T \in TickType : tick' = [tick EXCEPT ![b] = T] /\ T.at = "agents"
    BY <1>5, AfterIs
  <2> QED BY <1>0, <2>1 DEF Rung
<1>6. CASE Sweep(b)
  <2>1. PICK T \in TickType : tick' = [tick EXCEPT ![b] = T] /\ T.at \in {"ring", "idle"}
    BY <1>6, SweepIs
  <2> QED BY <1>0, <2>1 DEF Rung
<1>7. ASSUME NEW e, NEW now, NEW upto, Onward(b, e, now, upto) PROVE tick'[b].at \in {"event", "sweep"}
  BY <1>0, <1>7, RestIs DEF Onward, Idle
<1>8. CASE Look(b) \/ Mark(b)
  <2>1. tick'[b].at \in {"event", "sweep"}
    BY <1>7, <1>8 DEF Look, Mark
  <2> QED BY <2>1 DEF Rung
<1> QED BY <1>1, <1>d, <1>e, <1>f, <1>g, <1>h, <1>2, <1>3, <1>4, <1>5, <1>6, <1>8 DEF RoomTick

\* While the lock does not lapse nobody else is at work.
LEMMA AloneAtWork == ASSUME LockInv, NEW b \in Bridges, NEW c \in Bridges, Alive(b), c # b, lapses = 0
                     PROVE  tick[c].at = "off"
  BY DEF LockInv, Holds, Alive, At

\* The work on the room keeps what is known of the rings.
LEMMA RoomTickRings == ASSUME RoomInv, BellInv, NEW b \in Bridges, RoomTick(b) PROVE BellInv'
<1>1. UNCHANGED bell /\ CardsStand /\ OthersStand(b)
  BY RoomTickCalm, OthersAre DEF RoomTick, Tick
<1>2. lapses' = 0 => lapses = 0
  BY LapsesGrow DEF RoomTick, Tick, Next
<1>3. \A c \in Bridges : tick'[c] = tick[c] \/ tick'[c].at \notin Rung \cup {"rung", "show"}
  BY <1>1, RoomTickGoes DEF OthersStand
<1> QED BY <1>1, <1>2, <1>3, BellCalm

\* What is said of a step of the doorbell that goes on to step with the same task.
LEMMA BellGoesTo ==
    ASSUME RoomInv, NEW b \in Bridges, Tick(b), NEW step \in Steps, Go(b, step), UNCHANGED Bell
    PROVE /\ OthersStand(b) /\ tick'[b].at = step /\ tick'[b].t = tick[b].t
          /\ tick'[b].display = tick[b].display /\ UNCHANGED lapses
<1>1. PICK T \in TickType : /\ tick' = [tick EXCEPT ![b] = T] /\ T.at = step /\ T.t = tick[b].t
                            /\ T.display = tick[b].display
  BY GoIs
<1>2. tick'[b] = T
  BY <1>1 DEF RoomInv, TicksOK
<1> QED BY <1>1, <1>2, OthersAre DEF Bell

\* A step that leaves the tasks alone.
LEMMA CardsAsTheyAre == ASSUME UNCHANGED taskVars PROVE CardsStand
  BY DEF taskVars, shown, CardsStand

\* A ring is reserved once: the record says unknown from here on.
LEMMA ReserveRings == ASSUME RoomInv, BellInv, NEW b \in Bridges, Reserve(b) PROVE BellInv'
<1>1. PICK T \in TickType : tick' = [tick EXCEPT ![b] = T] /\ ReservesTo(b, T)
  BY ReserveIs
<1>2. /\ tick'[b] = T /\ OthersStand(b) /\ UNCHANGED rows /\ UNCHANGED lapses /\ CardsStand
      /\ tick[b].left \subseteq Tasks
  BY <1>1, ReserveIs, OthersAre, CardsAsTheyAre, TickIs DEF Tick, Reserve, Bell, RoomInv, TicksOK
<1>3. CASE UNCHANGED wake /\ T.at \notin Rung \cup {"rung", "show"}
  <2>1. \A c \in Bridges : tick'[c] = tick[c] \/ tick'[c].at \notin Rung \cup {"rung", "show"}
    BY <1>2, <1>3 DEF OthersStand
  <2> QED BY <1>2, <1>3, <2>1, BellCalm DEF bell
<1>4. CASE /\ T.at = "rung" /\ T.t \in tick[b].left /\ wake[T.t].state = "none"
           /\ wake' = [wake EXCEPT ![T.t].state = "unknown"]
  <2>1. PICK t : t = T.t
    OBVIOUS
  <2>2. t \in Tasks /\ wake[t] \in BellRecord
    BY <1>2, <1>4, <2>1, BellsAre
  <2>3. /\ wake'[t].state = "unknown" /\ rows'[t] = rows[t]
        /\ \A u \in Tasks \ {t} : wake'[u] = wake[u] /\ rows'[u] = rows[u]
    BY <1>2, <1>4, <2>1, <2>2, BellsAre DEF BellRecord
  <2>4. rows[t].first = 0 /\ rows[t].second = 0 /\ card[t] # "no_wake"
    BY <1>4, <2>1, <2>2 DEF BellInv, WakeOK
  <2>5. WakeOK(t)'
    BY <1>2, <2>2, <2>3, <2>4 DEF WakeOK, CardsStand
  <2>6. BellFor(T)'
    BY <1>4, <2>1, <2>3, <2>4 DEF BellFor, Rung
  <2>7. ASSUME NEW c \in Bridges \ {b}, tick[c].t = t
        PROVE  tick[c].at \notin Rung \cup {"rung"} /\ ~(tick[c].at = "show" /\ tick[c].display = "no_wake")
    <3>1. BellFor(tick[c])
      BY DEF BellInv
    <3> QED BY <1>4, <2>1, <2>4, <2>7, <3>1 DEF BellFor
  <2>8. \A c \in Bridges \ {b} : tick[c].t = t => BellFor(tick[c])'
    BY <1>2, <2>7 DEF BellFor, OthersStand, Rung
  <2>9. \A c \in Bridges \ {b} : At(c, "rung") => tick[c].t # T.t
    BY <2>1, <2>7 DEF At
  <2> QED BY <1>2, <2>2, <2>3, <2>5, <2>6, <2>8, <2>9, BellMoves
<1> QED BY <1>1, <1>3, <1>4, RestIs DEF ReservesTo, Rung

\* A row counts for its own task and its own ring.
LEMMA RowsMove == ASSUME RoomInv, NEW t \in Tasks, NEW which \in {"first", "second"}, Append1(t, which)
    PROVE /\ \A u \in Tasks \ {t} : rows'[u] = rows[u]
          /\ which = "first" => rows'[t].first = rows[t].first + 1 /\ rows'[t].second = rows[t].second
          /\ which = "second" => rows'[t].second = rows[t].second + 1 /\ rows'[t].first = rows[t].first
<1>1. rows[t] \in BellRows /\ rows \in [Tasks -> BellRows]
  BY BellsAre
<1>2. PICK r : r = [rows[t] EXCEPT ![which] = rows[t][which] + 1]
  OBVIOUS
<1>3. rows' = [rows EXCEPT ![t] = r]
  BY <1>1, <1>2 DEF Append1
<1>4. /\ which = "first" => r.first = rows[t].first + 1 /\ r.second = rows[t].second
      /\ which = "second" => r.second = rows[t].second + 1 /\ r.first = rows[t].first
  BY <1>1, <1>2 DEF BellRows
<1> QED BY <1>1, <1>3, <1>4

\* The first row goes only for a record that was reserved in this very pass.
LEMMA RingRings == ASSUME RoomInv, LockInv, BellInv, NEW b \in Bridges, Ring(b) PROVE BellInv'
<1>1. PICK t : t = tick[b].t
  OBVIOUS
<1>2. t \in Tasks /\ tick[b].at = "rung" /\ Alive(b) /\ BellFor(tick[b]) /\ rows[t].second \in Nat
  BY <1>1, TickIs, BellsAre DEF Ring, At, Alive, BellInv
<1>3. PICK step \in {"ring", "rang"} : Go(b, step) /\ (step = "rang" => Append1(t, "first"))
  BY <1>1 DEF Ring
<1>4. /\ OthersStand(b) /\ tick'[b].at = step /\ tick'[b].t = t /\ UNCHANGED lapses /\ CardsStand
      /\ UNCHANGED wake
  BY <1>1, <1>3, BellGoesTo, CardsAsTheyAre DEF Ring, Tick, Steps
<1>5. /\ rows[t].first = 0 /\ wake[t].state # "none" /\ WakeOK(t) /\ rows[t].second = 0
  BY <1>1, <1>2 DEF BellInv, BellFor, WakeOK
<1>6. CASE UNCHANGED rows /\ step = "ring"
  <2>1. \A c \in Bridges : tick'[c] = tick[c] \/ tick'[c].at \notin Rung \cup {"rung", "show"}
    BY <1>4, <1>6 DEF OthersStand, Rung
  <2> QED BY <1>4, <1>6, <2>1, BellCalm DEF bell
<1>7. CASE Append1(t, "first")
  <2>1. /\ \A u \in Tasks \ {t} : wake'[u] = wake[u] /\ rows'[u] = rows[u]
        /\ rows'[t].first = 1 /\ rows'[t].second = 0
    BY <1>2, <1>4, <1>5, <1>7, RowsMove
  <2>2. WakeOK(t)'
    BY <1>2, <1>4, <1>5, <2>1 DEF WakeOK, CardsStand
  <2>7. PICK T : T = tick'[b]
    OBVIOUS
  <2>3. BellFor(T)'
    BY <1>3, <1>4, <1>5, <2>1, <2>7 DEF BellFor, Rung
  <2>4. ASSUME NEW c \in Bridges \ {b}, tick[c].t = t
        PROVE  tick[c].at \notin Rung \cup {"rung"} /\ ~(tick[c].at = "show" /\ tick[c].display = "no_wake")
    <3>1. BellFor(tick[c]) /\ tick[c].at # "rung"
      BY <1>1, <1>2, <2>4 DEF BellInv, OneRinger, At
    <3> QED BY <1>5, <2>4, <3>1 DEF BellFor
  <2>5. \A c \in Bridges \ {b} : tick[c].t = t => BellFor(tick[c])'
    BY <1>4, <2>4 DEF BellFor, OthersStand, Rung
  <2>6. T.at # "rung"
    BY <1>4, <2>7
  <2> QED BY <1>2, <1>4, <2>1, <2>2, <2>3, <2>5, <2>6, <2>7, BellMoves
<1> QED BY <1>1, <1>3, <1>6, <1>7 DEF Ring, Go

\* A record is that of its own task.
LEMMA WakeMoves ==
    ASSUME RoomInv, NEW t \in Tasks, NEW state, wake' = [wake EXCEPT ![t] = [state |-> state, due |-> FALSE]]
                   PROVE  wake'[t].state = state /\ \A u \in Tasks \ {t} : wake'[u] = wake[u]
  BY BellsAre

\* A wake record that is written anew, by an execution whose tick is at T then.
LEMMA WakeRings ==
    ASSUME RoomInv, BellInv, NEW b \in Bridges, NEW t \in Tasks, NEW state \in WakeStates \ {"none"}, NEW T,
           wake' = [wake EXCEPT ![t] = [state |-> state, due |-> FALSE]], UNCHANGED rows,
           OthersStand(b), tick'[b] = T, T.at # "rung", BellFor(T)', CardsStand, lapses' = 0 => lapses = 0,
           state \in {"rung", "rerung", "no_wake"} => rows[t].first = 1,
           state \in {"rerung", "no_wake"} => rows[t].second > 0,
           lapses' = 0 /\ state = "rung" => rows[t].second = 0,
           lapses' = 0 /\ state = "rung" => \A c \in Bridges \ {b} : tick[c].at # "rering"
    PROVE  BellInv'
<1>1. wake'[t].state = state /\ \A u \in Tasks \ {t} : wake'[u] = wake[u]
  BY WakeMoves
<1>2. WakeOK(t)
  BY DEF BellInv
<1>3. WakeOK(t)'
  BY <1>1, <1>2 DEF WakeOK, CardsStand
<1>4. ASSUME NEW c \in Bridges \ {b}, tick[c].t = t PROVE BellFor(tick[c])'
  <2>1. BellFor(tick[c]) /\ tick'[c] = tick[c]
    BY DEF BellInv, OthersStand
  <2> QED BY <1>1, <1>4, <2>1 DEF BellFor
<1> QED BY <1>1, <1>3, <1>4, BellMoves

\* A ring is called confirmed after its row.
LEMMA RangRings == ASSUME RoomInv, LockInv, BellInv, NEW b \in Bridges, Rang(b) PROVE BellInv'
<1>1. PICK t, T : t = tick[b].t /\ T = tick'[b]
  OBVIOUS
<1>2. t \in Tasks /\ tick[b].at = "rang" /\ Alive(b) /\ BellFor(tick[b])
  BY <1>1, TickIs DEF Rang, At, Alive, BellInv
<1>3. Go(b, "unqueue") /\ UNCHANGED rows /\ wake' = [wake EXCEPT ![t] = [state |-> "rung", due |-> FALSE]]
  BY <1>1 DEF Rang
<1>4. OthersStand(b) /\ T.at = "unqueue" /\ UNCHANGED lapses /\ CardsStand
  BY <1>1, <1>3, BellGoesTo, CardsAsTheyAre DEF Rang, Tick, Steps
<1>5. BellFor(T)'
  BY <1>4 DEF BellFor, Rung
<1>6. rows[t].first = 1 /\ (lapses = 0 => rows[t].second = 0)
  BY <1>1, <1>2 DEF BellFor, Rung
<1>7. lapses = 0 => \A c \in Bridges \ {b} : tick[c].at # "rering"
  BY <1>2, AloneAtWork
<1>8. "rung" \in WakeStates \ {"none"}
  BY DEF WakeStates
<1> QED BY <1>1, <1>2, <1>3, <1>4, <1>5, <1>6, <1>7, <1>8, WakeRings

\* A reminder or its outcome is recorded.
LEMMA WakesRing ==
    ASSUME RoomInv, BellInv, NEW b \in Bridges, NEW from, NEW state \in WakeStates \ {"none", "rung"},
           NEW to \in {"check", "rering", "look"}, Wakes(b, from, state, to), Tick(b), BellFor(tick[b]),
           state \in {"rerung", "no_wake"} => from \in {"rerang", "nowake"},
           to = "rering" => from = "again" /\ state = "unknown",
           to = "look" => from = "nowake"
    PROVE  BellInv'
<1>1. PICK t, T : t = tick[b].t /\ T = tick'[b]
  OBVIOUS
<1>2. t \in Tasks /\ tick[b].at = from /\ to \in Steps
  BY <1>1, TickIs DEF Wakes, At, Steps
<1>3. Go(b, to) /\ UNCHANGED rows /\ wake' = [wake EXCEPT ![t] = [state |-> state, due |-> FALSE]]
  BY <1>1 DEF Wakes
<1>4. OthersStand(b) /\ T.at = to /\ T.t = t /\ UNCHANGED lapses /\ CardsStand
  BY <1>1, <1>2, <1>3, BellGoesTo, CardsAsTheyAre DEF Wakes
<1>5. /\ state \in {"rerung", "no_wake"} => rows[t].first = 1 /\ rows[t].second > 0
      /\ to = "rering" => rows[t].first = 1 /\ (lapses = 0 => rows[t].second = 0)
      /\ to = "look" => rows[t].first = 1 /\ rows[t].second > 0
  BY <1>1, <1>2 DEF BellFor, Rung
<1>6. wake'[t].state = state
  BY <1>2, <1>3, WakeMoves
<1>7. BellFor(T)'
  BY <1>3, <1>4, <1>5, <1>6 DEF BellFor, Rung
<1> QED BY <1>1, <1>2, <1>3, <1>4, <1>5, <1>7, WakeRings

\* The records of the wake check: a second ring only after a confirmed first one.
LEMMA RemindRings ==
    ASSUME RoomInv, BellInv, NEW b \in Bridges, \/ ByCard(b) \/ Again(b) \/ Rerang(b) \/ NoWakeYet(b)
                     PROVE  BellInv'
<1>1. {"acked", "unknown", "rerung", "no_wake"} \subseteq WakeStates \ {"none", "rung"}
  BY DEF WakeStates
<1>2. BellFor(tick[b]) /\ Tick(b)
  BY DEF BellInv, Tick
<1>3. CASE ByCard(b)
  BY <1>1, <1>2, <1>3, WakesRing DEF ByCard
<1>4. CASE Again(b)
  BY <1>1, <1>2, <1>4, WakesRing DEF Again
<1>5. CASE Rerang(b)
  BY <1>1, <1>2, <1>5, WakesRing DEF Rerang
<1>6. CASE NoWakeYet(b)
  BY <1>1, <1>2, <1>6, WakesRing DEF NoWakeYet
<1> QED BY <1>3, <1>4, <1>5, <1>6

\* The second row, once while one bridge holds the lock.
LEMMA ReringRings == ASSUME RoomInv, LockInv, BellInv, NEW b \in Bridges, Rering(b) PROVE BellInv'
<1>1. PICK t, T : t = tick[b].t /\ T = tick'[b]
  OBVIOUS
<1>2. /\ t \in Tasks /\ tick[b].at = "rering" /\ Alive(b) /\ BellFor(tick[b]) /\ rows[t].second \in Nat
      /\ rows[t].first \in Nat
  BY <1>1, TickIs, BellsAre DEF Rering, At, Alive, BellInv
<1>3. PICK step \in {"rerang", "check"} : Go(b, step) /\ (step = "rerang" => Append1(t, "second"))
  BY <1>1 DEF Rering
<1>4. /\ OthersStand(b) /\ T.at = step /\ T.t = t /\ UNCHANGED lapses /\ CardsStand /\ UNCHANGED wake
  BY <1>1, <1>3, BellGoesTo, CardsAsTheyAre DEF Rering, Tick, Steps
<1>5. /\ rows[t].first = 1 /\ (lapses = 0 => rows[t].second = 0 /\ wake[t].state # "rung") /\ WakeOK(t)
  BY <1>1, <1>2 DEF BellInv, BellFor, Rung
<1>6. CASE UNCHANGED rows /\ step = "check"
  <2>1. \A c \in Bridges : tick'[c] = tick[c] \/ tick'[c].at \notin Rung \cup {"rung", "show"}
    BY <1>1, <1>4, <1>6 DEF OthersStand, Rung
  <2> QED BY <1>4, <1>6, <2>1, BellCalm DEF bell
<1>7. CASE Append1(t, "second")
  <2>1. /\ \A u \in Tasks \ {t} : wake'[u] = wake[u] /\ rows'[u] = rows[u]
        /\ rows'[t].first = 1 /\ rows'[t].second = rows[t].second + 1
    BY <1>2, <1>4, <1>5, <1>7, RowsMove
  <2>2. rows'[t].second > 0 /\ (lapses = 0 => rows'[t].second = 1)
    BY <1>2, <1>5, <2>1
  <2>3. WakeOK(t)'
    BY <1>4, <1>5, <2>1, <2>2 DEF WakeOK, CardsStand
  <2>4. BellFor(T)'
    BY <1>3, <1>4, <2>1, <2>2 DEF BellFor, Rung
  <2>5. ASSUME NEW c \in Bridges \ {b}, tick[c].t = t PROVE BellFor(tick[c])'
    <3>1. BellFor(tick[c]) /\ tick'[c] = tick[c] /\ (lapses = 0 => tick[c].at = "off")
      BY <1>2, <1>4, AloneAtWork DEF BellInv, OthersStand
    <3> QED BY <1>4, <1>5, <2>1, <2>2, <2>5, <3>1 DEF BellFor
  <2>6. T.at # "rung"
    BY <1>4
  <2> QED BY <1>1, <1>2, <1>4, <2>1, <2>3, <2>4, <2>5, <2>6, BellMoves
<1> QED BY <1>1, <1>3, <1>6, <1>7 DEF Rering, Go

\* The rings stand, and one execution takes what is said of it in hand.
LEMMA BellStands ==
    ASSUME RoomInv, BellInv, NEW b \in Bridges, NEW T, tick'[b] = T, OthersStand(b), UNCHANGED bell,
           lapses' = 0 => lapses = 0, T.at # "rung", BellFor(T)', \A t \in Tasks : WakeOK(t)'
    PROVE  BellInv'
<1>1. wake' = wake /\ rows' = rows
  BY DEF bell
<1>2. ASSUME NEW c \in Bridges PROVE BellFor(tick[c])'
  <2>1. CASE c = b
    BY <2>1 DEF BellFor
  <2>2. CASE c # b
    BY <1>1, <2>2 DEF BellInv, BellFor, OthersStand
  <2> QED BY <2>1, <2>2
<1>3. OneRinger'
  BY DEF BellInv, OneRinger, At, OthersStand
<1> QED BY <1>2, <1>3 DEF BellInv

\* A step that leaves the bells alone and adds no card that calls an agent asleep.
LEMMA WakesStand == ASSUME BellInv, UNCHANGED bell, CardsStand, lapses' = 0 => lapses = 0
                    PROVE  \A t \in Tasks : WakeOK(t)'
<1>1. wake' = wake /\ rows' = rows
  BY DEF bell
<1> QED BY <1>1 DEF BellInv, WakeOK, CardsStand

\* Taking a task off the queue rings nobody.
LEMMA UnqueueRings == ASSUME RoomInv, BellInv, NEW b \in Bridges, Unqueue(b) PROVE BellInv'
<1>1. PICK T : T = tick'[b]
  OBVIOUS
<1>2. OthersStand(b) /\ T.at = "ring" /\ UNCHANGED lapses /\ UNCHANGED bell
  BY <1>1, BellGoesTo DEF Unqueue, Tick, Steps
<1>3. CardsStand
  BY TickIs, TaskCards DEF Unqueue, RoomInv
<1>4. BellFor(T)'
  BY <1>2 DEF BellFor, Rung
<1>5. \A t \in Tasks : WakeOK(t)'
  BY <1>2, <1>3, WakesStand
<1> QED BY <1>1, <1>2, <1>4, <1>5, BellStands

\* The wake check goes by the record of the task it takes up.
LEMMA CheckRings == ASSUME RoomInv, BellInv, NEW b \in Bridges, Check(b) PROVE BellInv'
<1>1. PICK T \in TickType : tick' = [tick EXCEPT ![b] = T] /\ ChecksTo(b, T)
  BY CheckIs
<1>2. tick'[b] = T /\ OthersStand(b) /\ UNCHANGED bell /\ UNCHANGED lapses /\ CardsStand
  BY <1>1, OthersAre, CardsAsTheyAre DEF Tick, Check, Bell, RoomInv, TicksOK
<1>3. wake' = wake /\ rows' = rows /\ lapses' = lapses
  BY <1>2 DEF bell
<1>4. T.at # "rung" /\ BellFor(T)'
  <2>1. CASE T = Idle
    BY <2>1, RestIs DEF BellFor, Rung
  <2>2. CASE T.t \in ToCheck(tick[b].left) /\ T.display = "unconfirmed" /\ T.at = Reminds(T.t)
    <3>1. PICK t : t = T.t
      OBVIOUS
    <3>2. t \in Tasks /\ wake[t].state \in {"rung", "rerung", "unknown"} /\ WakeOK(t)
      BY <2>2, <3>1, TickIs DEF ToCheck, BellInv
    <3>3. /\ T.at \in {"reached", "show", "again", "nowake"}
          /\ T.at = "again" => wake[t].state = "rung"
          /\ T.at = "nowake" => wake[t].state = "rerung"
      BY <2>2, <3>1, <3>2 DEF Reminds
    <3>4. BellFor(T)'
      BY <1>3, <2>2, <3>1, <3>2, <3>3, BellsAre DEF BellFor, Rung, WakeOK
    <3> QED BY <3>3, <3>4
  <2> QED BY <1>1, <2>1, <2>2 DEF ChecksTo
<1>5. \A t \in Tasks : WakeOK(t)'
  BY <1>2, WakesStand
<1> QED BY <1>2, <1>4, <1>5, BellStands

\* A card is called asleep only after the second ring.
LEMMA LookAtCardRings == ASSUME RoomInv, BellInv, NEW b \in Bridges, LookAtCard(b) PROVE BellInv'
<1>1. PICK T \in TickType : /\ tick' = [tick EXCEPT ![b] = T] /\ T.t = tick[b].t
                            /\ T.at \in {"show", "check"} /\ T.display = "no_wake"
  BY LookAtCardIs
<1>2. tick'[b] = T /\ OthersStand(b) /\ UNCHANGED bell /\ UNCHANGED lapses /\ CardsStand
  BY <1>1, OthersAre, CardsAsTheyAre DEF Tick, LookAtCard, Bell, RoomInv, TicksOK
<1>3. BellFor(tick[b]) /\ tick[b].at = "look" /\ rows' = rows
  BY <1>2 DEF BellInv, LookAtCard, At, bell
<1>4. BellFor(T)'
  BY <1>1, <1>3 DEF BellFor, Rung
<1>5. \A t \in Tasks : WakeOK(t)'
  BY <1>2, WakesStand
<1> QED BY <1>1, <1>2, <1>4, <1>5, BellStands

\* A card is put to "no_wake" only after both rings.
LEMMA ShowRings == ASSUME RoomInv, BellInv, NEW b \in Bridges, Show(b) PROVE BellInv'
<1>1. PICK T, t, display : T = tick'[b] /\ t = tick[b].t /\ display = tick[b].display
  OBVIOUS
<1>2. OthersStand(b) /\ T.at = "check" /\ UNCHANGED lapses /\ UNCHANGED bell
  BY <1>1, BellGoesTo DEF Show, Tick, Steps
<1>3. BellFor(T)' /\ wake' = wake /\ rows' = rows /\ lapses' = lapses
  BY <1>2 DEF BellFor, Rung, bell
<1>4. BellFor(tick[b]) /\ tick[b].at = "show" /\ t \in Tasks
  BY <1>1, TickIs DEF BellInv, Show, At
<1>5. display = "no_wake" => rows[t].second > 0
  BY <1>1, <1>4 DEF BellFor
<1>6. ASSUME NEW u \in Tasks PROVE WakeOK(u)'
  <2>1. card'[u] = card[u] \/ (u = t /\ card'[u] = display)
    BY <1>1, <1>4 DEF Show, Refresh, taskVars, shown, RoomInv, TaskInv, TaskTypeOK
  <2>2. WakeOK(u)
    BY DEF BellInv
  <2> QED BY <1>3, <1>5, <2>1, <2>2 DEF WakeOK
<1> QED BY <1>1, <1>2, <1>3, <1>6, BellStands

\* Every step of a tick keeps what is known of the rings.
LEMMA TickRings == ASSUME RoomInv, LockInv, BellInv, NEW b \in Bridges, Tick(b) PROVE BellInv'
<1>1. CASE RoomTick(b)
  BY <1>1, RoomTickRings
<1>2. CASE ~RoomTick(b)
  BY <1>2, ReserveRings, RingRings, RangRings, UnqueueRings, CheckRings, RemindRings, ReringRings,
     LookAtCardRings, ShowRings DEF Tick, RoomTick
<1> QED BY <1>1, <1>2

\* The ticks stand, and no card is put to "no_wake": only the wake records can have moved.
LEMMA TicksAside ==
    ASSUME RoomInv, BellInv, UNCHANGED <<tick, rows>>, CardsStand, lapses' = 0 => lapses = 0,
           \A t \in Tasks : wake'[t].state \in {wake[t].state, "acked"}
    PROVE  BellInv'
<1>1. ASSUME NEW t \in Tasks PROVE WakeOK(t)'
  BY DEF BellInv, WakeOK, CardsStand
<1>2. ASSUME NEW b \in Bridges PROVE BellFor(tick[b])'
  <2>1. PICK T : T = tick[b]
    OBVIOUS
  <2>2. BellFor(T) /\ T.t \in Tasks /\ tick'[b] = T
    BY <2>1, TickIs DEF BellInv
  <2>3. BellFor(T)'
    BY <2>2 DEF BellFor
  <2> QED BY <2>2, <2>3 DEF BellFor
<1>3. OneRinger'
  BY DEF BellInv, OneRinger, At
<1> QED BY <1>1, <1>2, <1>3 DEF BellInv

\* So does every step of a board pass.
LEMMA SettleRings == ASSUME RoomInv, BellInv, NEW b \in Bridges, Settle(b) PROVE BellInv'
<1>1. UNCHANGED <<tick, rows>> /\ lapses' = lapses
  BY DEF Settle, SeeAck, KeepAck, AckLook, AckShow, Elsewhere, bounds
<1>2. settle[b].t \in Tasks
  BY SettleIs
<1>3. CASE SeeAck(b) \/ AckLook(b)
  <2>1. CardsStand /\ wake' = wake
    BY <1>3, CardsAsTheyAre DEF SeeAck, AckLook
  <2> QED BY <1>1, <2>1, TicksAside
<1>4. CASE KeepAck(b)
  <2>1. CardsStand
    BY <1>4, CardsAsTheyAre DEF KeepAck
  <2>2. PICK t : t = settle[b].t
    OBVIOUS
  <2>3. t \in Tasks /\ wake' = [wake EXCEPT ![t] = [state |-> "acked", due |-> FALSE]]
    BY <1>2, <1>4, <2>2 DEF KeepAck
  <2>4. \A u \in Tasks : wake'[u].state \in {wake[u].state, "acked"}
    BY <2>3, WakeMoves
  <2> QED BY <1>1, <2>1, <2>4, TicksAside
<1>5. CASE AckShow(b)
  <2>1. ASSUME UNCHANGED taskVars PROVE CardsStand
    BY <2>1, CardsAsTheyAre
  <2>2. ASSUME Refresh(settle[b].t, "claimed") PROVE CardsStand
    BY <1>2, <2>2, TaskCards DEF RoomInv
  <2>3. CardsStand /\ wake' = wake
    BY <1>5, <2>1, <2>2 DEF AckShow
  <2> QED BY <1>1, <2>3, TicksAside
<1> QED BY <1>3, <1>4, <1>5 DEF Settle

\* So does a tick that fails or an execution that dies.
LEMMA FaultRings == ASSUME RoomInv, BellInv, NEW b \in Bridges, Fail(b) \/ Die(b) PROVE BellInv'
<1>1. UNCHANGED bell /\ CardsStand /\ OthersStand(b) /\ lapses' = lapses
  BY DropsCards, OthersAre DEF Fail, Die
<1>2. tick'[b] \in {Idle, Off}
  BY DEF Fail, Die, RoomInv, TicksOK
<1>3. \A c \in Bridges : tick'[c] = tick[c] \/ tick'[c].at \notin Rung \cup {"rung", "show"}
  BY <1>1, <1>2, RestIs DEF OthersStand, Rung
<1> QED BY <1>1, <1>3, BellCalm

\* So does a ring that falls due.
LEMMA DueRings == ASSUME RoomInv, BellInv, NEW t \in Tasks, Due(t) PROVE BellInv'
<1>1. UNCHANGED <<tick, rows>> /\ CardsStand /\ lapses' = lapses
  BY CardsAsTheyAre DEF Due, bounds
<1>2. PICK w : w = [wake[t] EXCEPT !.due = TRUE]
  OBVIOUS
<1>3. wake' = [wake EXCEPT ![t] = w] /\ w.state = wake[t].state
  BY <1>2, BellsAre DEF Due, BellRecord
<1>4. \A u \in Tasks : wake'[u].state = wake[u].state
  BY <1>3, BellsAre
<1> QED BY <1>1, <1>4, TicksAside

\* So does every step of the system.
LEMMA BellNext == ASSUME RoomInv, LockInv, BellInv, [Next]_vars PROVE BellInv'
<1>1. lapses' = 0 => lapses = 0
  BY LapsesGrow
<1>2. ASSUME NEW b \in Bridges, Lapse(b) PROVE BellInv'
  <2>1. UNCHANGED <<tick, rows, wake>> /\ CardsStand
    BY <1>2, CardsAsTheyAre DEF Lapse, bell
  <2> QED BY <1>1, <2>1, TicksAside
<1>3. CASE Say \/ Time \/ UNCHANGED vars
  <2>1. UNCHANGED <<tick, rows, wake>> /\ CardsStand
    BY <1>3, CardsAsTheyAre DEF Say, Said, Time, vars, bell
  <2> QED BY <1>1, <2>1, TicksAside
<1>4. CASE Agent
  <2>1. UNCHANGED <<tick, rows, wake>> /\ CardsStand
    BY <1>4, AgentCards DEF Agent, bell
  <2> QED BY <1>1, <2>1, TicksAside
<1>5. ASSUME NEW t \in Tasks, Ack(t) PROVE BellInv'
  <2>1. UNCHANGED <<tick, rows, wake>> /\ CardsStand
    BY <1>5, CardsAsTheyAre DEF Ack, bell
  <2> QED BY <1>1, <2>1, TicksAside
<1> QED BY <1>2, <1>3, <1>4, <1>5, TickRings, SettleRings, FaultRings, DueRings DEF Next

\* While the lock does not lapse, one execution at a time lives and works.
THEOREM OneBridgeWorks == Spec => []LockInv
<1>1. Init => LockInv
  BY LockInit
<1>2. RoomInv /\ LockInv /\ [Next]_vars => LockInv'
  BY LockKeeps
<1> QED BY <1>1, <1>2, RoomStands, PTL DEF Spec

\* What every reachable state of the doorbell satisfies.
THEOREM BellStandsAlways == Spec => []BellInv
<1>1. Init => BellInv
  BY BellInit
<1>2. RoomInv /\ LockInv /\ BellInv /\ [Next]_vars => BellInv'
  BY BellNext
<1> QED BY <1>1, <1>2, RoomStands, OneBridgeWorks, PTL DEF Spec

\* An agent is rung no more than the property allows.
LEMMA BellIsBounded == ASSUME BellInv PROVE RungAtMostTwice
  BY DEF BellInv, WakeOK, RungAtMostTwice

\* The record of a task, its index, its inbox and its requests agree whatever dies between
\* which of the bridge's steps, and nobody is rung a third time for it.
THEOREM BridgeIsSafe == Spec => []BridgeInv
<1>1. RoomInv /\ BellInv => BridgeInv
  <2> SUFFICES ASSUME RoomInv, BellInv PROVE BridgeInv
    OBVIOUS
  <2>1. TypeOK /\ RungAtMostTwice
    BY RoomInvTyped, BellIsBounded
  <2>2. IndexIsTask /\ DeliveredOnce /\ AppliedOnce
    BY TaskInvAgrees DEF RoomInv
  <2> QED BY <2>1, <2>2 DEF BridgeInv
<1> QED BY <1>1, RoomStands, BellStandsAlways, PTL

-----------------------------------------------------------------------------
(* Words are served once: as a change to a living card, or as a claim.     *)

\* Everything that is done to a task but its claim leaves a task that is not claimed so.
LEMMA UnclaimedRests ==
    ASSUME TaskInv, NEW u \in Tasks, task[u] = NoRecord, NEW t \in Tasks,
           \/ Activate(t) \/ Abandon(t) \/ KeyExpires(t) \/ ClockPasses(t) \/ Dequeue(t)
           \/ \E rev \in Nat : CancelEvent(t, rev)
           \/ \E display \in Displays : Refresh(t, display)
    PROVE  task'[u] = NoRecord
<1>0. task \in [Tasks -> RecordType] /\ NoRecord.state = "none" /\ Prepared.state = "PREPARED"
  BY DEF TaskInv, TaskTypeOK, NoRecord, Prepared
<1>1. CASE Activate(t)
  BY <1>0, <1>1 DEF Activate, Activates
<1>2. CASE Abandon(t) \/ KeyExpires(t) \/ ClockPasses(t) \/ Dequeue(t)
  BY <1>2 DEF Abandon, KeyExpires, ClockPasses, Dequeue
<1>3. CASE \E rev \in Nat : CancelEvent(t, rev)
  BY <1>0, <1>3 DEF CancelEvent, Terminate
<1>4. CASE \E display \in Displays : Refresh(t, display)
  BY <1>0, <1>4 DEF Refresh, Refreshes
<1> QED BY <1>1, <1>2, <1>3, <1>4

\* A request cannot claim a task.
LEMMA UnclaimedUnasked == ASSUME TaskInv, NEW u \in Tasks, task[u] = NoRecord, NEW q \in Requests,
                                 Expire(q) \/ PutCard(q) \/ Complete(q)
                          PROVE  task'[u] = NoRecord
<1>0. task \in [Tasks -> RecordType] /\ NoRecord.state = "none"
  BY DEF TaskInv, TaskTypeOK, NoRecord
<1> QED BY <1>0 DEF Expire, PutCard, Complete, Terminate, OnTime

\* Only the claim of a bridge makes a task.
LEMMA ClaimsOnly == ASSUME RoomInv, [Next]_vars, NEW u \in Tasks, task[u] = NoRecord
                    PROVE  task'[u] = NoRecord \/ \E b \in Bridges : ClaimAsk(b) /\ tick[b].t = u
<1>0. UNCHANGED taskVars => task'[u] = NoRecord
  BY DEF taskVars
<1>1. ASSUME NEW b \in Bridges, ClaimAsk(b), tick[b].t # u PROVE task'[u] = NoRecord
  <2>1. PICK t \in Tasks : t = tick[b].t
    BY TickIs
  <2>2. ASSUME NEW landed, Land(t, landed) PROVE task'[u] = NoRecord
    BY <1>1, <2>1, <2>2 DEF Land
  <2>3. UNCHANGED taskVars \/ Claim(t, mode.doorbell) \/ ClaimUnknown(t, mode.doorbell)
    BY <1>1, <2>1 DEF ClaimAsk
  <2> QED BY <1>0, <2>2, <2>3 DEF Claim, ClaimUnknown
<1>2. ASSUME NEW b \in Bridges, Tick(b), ~ClaimAsk(b) PROVE task'[u] = NoRecord
  <2>0. tick[b].t \in Tasks /\ tick[b].display \in Displays
    BY TickIs
  <2>1. CASE Launch(b) \/ End(b) \/ Look(b) \/ Mark(b) \/ Spoken(b) \/ Keep(b) \/ Cancel(b) \/ Close(b)
    BY <1>0, <2>1 DEF Launch, End, Look, Mark, Spoken, Keep, Cancel, Close, Room
  <2>2. CASE \/ GoConfirms(b) \/ Drop(b) \/ GoDirect(b) \/ AskDirect(b) \/ AskReadback(b) \/ Supersede(b)
             \/ Propose(b) \/ Cards(b)
    BY <1>0, <2>2 DEF GoConfirms, Drop, GoDirect, AskDirect, AskReadback, Supersede, Propose, Cards, Room
  <2>3. CASE Pick(b) \/ Route(b) \/ After(b) \/ Sweep(b)
    BY <1>0, <2>3 DEF Pick, Route, After, Sweep, Room
  <2>4. CASE OpenAsk(b) \/ Unqueue(b)
    BY <2>0, <2>4, UnclaimedRests DEF OpenAsk, Unqueue, RoomInv
  <2>5. CASE \/ Reserve(b) \/ Ring(b) \/ Rang(b) \/ Check(b) \/ ByCard(b) \/ Again(b)
             \/ Rering(b) \/ Rerang(b) \/ NoWakeYet(b) \/ LookAtCard(b)
    BY <1>0, <2>5 DEF Reserve, Ring, Rang, Check, ByCard, Again, Rering, Rerang, NoWakeYet, LookAtCard, Wakes
  <2>6. CASE Show(b)
    BY <1>0, <2>0, <2>6, UnclaimedRests DEF Show, RoomInv
  <2>7. CASE Revoke(b)
    <3>1. ASSUME NEW t, NEW rev, CancelEvent(t, rev) PROVE task'[u] = NoRecord
      BY <3>1 DEF CancelEvent, Terminate, NoRecord, RoomInv, TaskInv, TaskTypeOK
    <3> QED BY <1>0, <2>7, <3>1 DEF Revoke
  <2> QED BY <1>2, <2>1, <2>2, <2>3, <2>4, <2>5, <2>6, <2>7 DEF Tick
<1>3. ASSUME NEW b \in Bridges, Settle(b) PROVE task'[u] = NoRecord
  <2>1. CASE SeeAck(b) \/ KeepAck(b) \/ AckLook(b)
    BY <1>0, <2>1 DEF SeeAck, KeepAck, AckLook
  <2>2. CASE AckShow(b)
    <3>1. settle[b].t \in Tasks /\ "claimed" \in Displays
      BY SettleIs DEF Displays
    <3>2. UNCHANGED taskVars \/ Refresh(settle[b].t, "claimed")
      BY <2>2 DEF AckShow
    <3> QED BY <1>0, <3>1, <3>2, UnclaimedRests DEF RoomInv
  <2> QED BY <1>3, <2>1, <2>2 DEF Settle
<1>4. ASSUME NEW b \in Bridges, Fail(b) \/ Die(b) \/ Lapse(b) PROVE task'[u] = NoRecord
  <2>1. UNCHANGED taskVars \/ Abandon(tick[b].t)
    BY <1>4 DEF Fail, Die, Lapse, Drops
  <2> QED BY <1>0, <2>1, TickIs, UnclaimedRests DEF RoomInv
<1>5. CASE Say \/ Time \/ UNCHANGED vars
  BY <1>0, <1>5 DEF Say, Said, Time, vars
<1>6. CASE Agent
  <2>1. ASSUME NEW q, NEW op, NEW t, NEW rev, NEW hash, Send(q, t, op, rev, hash) PROVE task'[u] = NoRecord
    BY <2>1 DEF Send
  <2> QED BY <1>6, <2>1, UnclaimedRests, UnclaimedUnasked DEF Agent, RoomInv
<1>7. ASSUME NEW t \in Tasks, Due(t) \/ Ack(t) PROVE task'[u] = NoRecord
  BY <1>0, <1>7 DEF Due, Ack
<1> QED BY <1>1, <1>2, <1>3, <1>4, <1>5, <1>6, <1>7 DEF Next

\* Only a route changes a living card.
LEMMA RoutesOnly == ASSUME [Next]_vars PROVE UNCHANGED living \/ \E b \in Bridges : Route(b)
<1>1. ASSUME NEW b \in Bridges, Tick(b), ~Route(b) PROVE UNCHANGED living
  <2>1. CASE Launch(b) \/ End(b) \/ Look(b) \/ Mark(b) \/ Spoken(b) \/ Keep(b) \/ Cancel(b) \/ Close(b)
    BY <2>1 DEF Launch, End, Look, Mark, Spoken, Keep, Cancel, Close, Room
  <2>2. CASE \/ GoConfirms(b) \/ Drop(b) \/ GoDirect(b) \/ AskDirect(b) \/ AskReadback(b) \/ Supersede(b)
             \/ Propose(b) \/ Cards(b)
    BY <2>2 DEF GoConfirms, Drop, GoDirect, AskDirect, AskReadback, Supersede, Propose, Cards, Room
  <2>3. CASE Pick(b) \/ After(b) \/ Sweep(b) \/ ClaimAsk(b) \/ OpenAsk(b) \/ Revoke(b)
    BY <2>3 DEF Pick, After, Sweep, ClaimAsk, OpenAsk, Revoke, Room
  <2>4. CASE \/ Reserve(b) \/ Ring(b) \/ Rang(b) \/ Check(b) \/ ByCard(b) \/ Again(b)
             \/ Rering(b) \/ Rerang(b) \/ NoWakeYet(b) \/ LookAtCard(b) \/ Unqueue(b) \/ Show(b)
    BY <2>4 DEF Reserve, Ring, Rang, Check, ByCard, Again, Rering, Rerang, NoWakeYet, LookAtCard, Wakes,
       Unqueue, Show, Bell
  <2> QED BY <1>1, <2>1, <2>2, <2>3, <2>4 DEF Tick
<1>2. ASSUME NEW b \in Bridges, Settle(b) \/ Fail(b) \/ Die(b) \/ Lapse(b) PROVE UNCHANGED living
  BY <1>2 DEF Settle, SeeAck, KeepAck, AckLook, AckShow, Elsewhere, Fail, Die, Lapse
<1>3. CASE Say \/ Time \/ Agent \/ UNCHANGED vars
  BY <1>3 DEF Say, Said, Time, Agent, vars
<1>4. ASSUME NEW t \in Tasks, Due(t) \/ Ack(t) PROVE UNCHANGED living
  BY <1>4 DEF Due, Ack
<1> QED BY <1>1, <1>2, <1>3, <1>4 DEF Next

\* A tick that changes has taken a step of its own, or has ended.
LEMMA TicksMove == ASSUME RoomInv, [Next]_vars
    PROVE \A c \in Bridges : \/ tick'[c] = tick[c]
                             \/ Tick(c) \/ tick'[c] \in {Idle, Off}
<1>1. ASSUME NEW b \in Bridges, Tick(b) PROVE \A c \in Bridges : tick'[c] = tick[c] \/ Tick(c)
  BY <1>1, OthersAre DEF OthersStand
<1>2. ASSUME NEW b \in Bridges, Fail(b) \/ Die(b)
      PROVE  \A c \in Bridges : tick'[c] = tick[c] \/ tick'[c] \in {Idle, Off}
  BY <1>2 DEF Fail, Die, RoomInv, TicksOK
<1>3. ASSUME NEW b \in Bridges, Settle(b) \/ Lapse(b) PROVE UNCHANGED tick
  BY <1>3 DEF Settle, SeeAck, KeepAck, AckLook, AckShow, Elsewhere, Lapse
<1>4. CASE Say \/ Time \/ Agent \/ UNCHANGED vars
  BY <1>4 DEF Say, Said, Time, Agent, vars
<1>5. ASSUME NEW t \in Tasks, Due(t) \/ Ack(t) PROVE UNCHANGED tick
  BY <1>5 DEF Due, Ack
<1> QED BY <1>1, <1>2, <1>3, <1>4, <1>5 DEF Next

\* The doorbell leads no tick back into the work on a turn.
LEMMA RingingGoes == ASSUME RoomInv, NEW b \in Bridges, Tick(b), ~RoomTick(b)
                     PROVE  tick'[b].at \notin Working
<1>0. tick \in [Bridges -> TickType] /\ tick[b] \in TickType
  BY TickIs DEF RoomInv, TicksOK
<1>a. ASSUME NEW step, Go(b, step) PROVE tick'[b].at = step
  BY <1>0, <1>a DEF Go, TickType
<1>1. CASE Reserve(b)
  <2>1. PICK T \in TickType : tick' = [tick EXCEPT ![b] = T] /\ ReservesTo(b, T)
    BY <1>1, ReserveIs
  <2> QED BY <1>0, <2>1, RestIs DEF ReservesTo, Working, Keeping, Serving, AtAgent
<1>2. CASE Ring(b) \/ Rang(b) \/ Unqueue(b) \/ Rering(b) \/ Show(b)
  BY <1>a, <1>2 DEF Ring, Rang, Unqueue, Rering, Show, Working, Keeping, Serving, AtAgent
<1>3. CASE ByCard(b) \/ Again(b) \/ Rerang(b) \/ NoWakeYet(b)
  BY <1>a, <1>3 DEF ByCard, Again, Rerang, NoWakeYet, Wakes, Working, Keeping, Serving, AtAgent
<1>4. CASE Check(b)
  <2>1. PICK T \in TickType : tick' = [tick EXCEPT ![b] = T] /\ ChecksTo(b, T)
    BY <1>4, CheckIs
  <2> QED BY <1>0, <2>1, RestIs DEF ChecksTo, Reminds, Working, Keeping, Serving, AtAgent
<1>5. CASE LookAtCard(b)
  <2>1. PICK T \in TickType : tick' = [tick EXCEPT ![b] = T] /\ T.at \in {"show", "check"}
    BY <1>5, LookAtCardIs
  <2> QED BY <1>0, <2>1 DEF Working, Keeping, Serving, AtAgent
<1> QED BY <1>1, <1>2, <1>3, <1>4, <1>5 DEF Tick, RoomTick

\* Where the steps of a tick lead, of those that serve an event.
Leads(b, to) ==
    /\ Launch(b) \/ End(b) \/ Sweep(b) => to \notin Working
    /\ Look(b) \/ Mark(b) => to \in {"event", "sweep"}
    /\ Revoke(b) \/ Keep(b) \/ Close(b) \/ Cards(b) => to = "mark"
    /\ Spoken(b) => to \in {"keep", "mark"}
    /\ Cancel(b) => to \in {"close", "mark"}
    /\ GoConfirms(b) => to \in {"mark", "close", "drop"}
    /\ AskReadback(b) => to \in {"mark", "propose", "supersede"}
    /\ Supersede(b) => to = "propose"
    /\ Propose(b) => to = "cards"
    /\ Drop(b) \/ GoDirect(b) \/ AskDirect(b) \/ After(b) => to = "agents"
    /\ Pick(b) => to \in {"idle", "mark", "route", "claim", "after"}
    /\ ClaimAsk(b) => to \in {"open", "after"}
    /\ Route(b) \/ OpenAsk(b) => to = "after"

\* Where each step of the work on a turn leads.
LEMMA RoomTickLeads ==
    ASSUME RoomInv, NEW b \in Bridges, RoomTick(b), NEW to, to = tick'[b].at, tick'[b] # tick[b]
                       PROVE  Leads(b, to)
<1>0. tick \in [Bridges -> TickType] /\ tick[b] \in TickType
  BY TickIs DEF RoomInv, TicksOK
<1>a. ASSUME NEW step, Go(b, step) PROVE to = step
  BY <1>0, <1>a DEF Go, TickType
<1>b. ASSUME NEW step, Copies(b, step) PROVE to = step
  BY <1>0, <1>b DEF Copies, TickType
<1>c. ASSUME NEW src, NEW todo, Serves(b, src, todo) PROVE to = "agents"
  BY <1>0, <1>c DEF Serves, TickType
<1>1. (Launch(b) \/ End(b) \/ Sweep(b)) => to \notin Working
  <2>1. Launch(b) => to = "idle"
    BY <1>a DEF Launch
  <2>2. End(b) => to = "off"
    BY <1>0, RestIs DEF End
  <2>3. Sweep(b) => to \in {"ring", "idle"}
    <3>1. ASSUME Sweep(b) PROVE to \in {"ring", "idle"}
      <4>1. PICK T \in TickType : tick' = [tick EXCEPT ![b] = T] /\ T.at \in {"ring", "idle"}
        BY <3>1, SweepIs
      <4> QED BY <1>0, <4>1
    <3> QED BY <3>1
  <2> QED BY <2>1, <2>2, <2>3 DEF Working, Keeping, Serving, AtAgent
<1>2. Look(b) \/ Mark(b) => to \in {"event", "sweep"}
  <2>1. ASSUME NEW e, NEW now, NEW upto, Onward(b, e, now, upto) PROVE to \in {"event", "sweep"}
    BY <1>0, <2>1, RestIs DEF Onward, Idle
  <2> QED BY <2>1 DEF Look, Mark
<1>3. Revoke(b) \/ Keep(b) \/ Close(b) \/ Cards(b) => to = "mark"
  BY <1>a DEF Revoke, Keep, Close, Cards
<1>4. /\ Spoken(b) => to \in {"keep", "mark"}
      /\ Cancel(b) => to \in {"close", "mark"}
      /\ AskReadback(b) => to \in {"mark", "propose", "supersede"}
  BY <1>a, <1>b DEF Spoken, Cancel, AskReadback, Copies
<1>5. GoConfirms(b) => to \in {"mark", "close", "drop"}
  <2>1. ASSUME NEW todo, tick' = [tick EXCEPT ![b].at = "drop", ![b].held = proposal, ![b].todo = todo]
        PROVE  to = "drop"
    BY <1>0, <2>1 DEF TickType
  <2> QED BY <1>a, <1>b, <2>1 DEF GoConfirms, Copies
<1>6. /\ Supersede(b) => to = "propose"
      /\ Propose(b) => to = "cards"
      /\ Route(b) \/ OpenAsk(b) => to = "after"
      /\ ClaimAsk(b) => to \in {"open", "after"}
  BY <1>0, <1>a DEF Supersede, Propose, Route, OpenAsk, ClaimAsk, TickType
<1>7. Drop(b) \/ GoDirect(b) \/ AskDirect(b) => to = "agents"
  <2>1. Drop(b) => to = "agents"
    BY <1>0 DEF Drop, TickType
  <2>2. GoDirect(b) \/ AskDirect(b) => to = "agents"
    BY <1>c DEF GoDirect, AskDirect, Serves
  <2> QED BY <2>1, <2>2
<1>8. After(b) => to = "agents"
  <2>1. ASSUME After(b) PROVE to = "agents"
    <3>1. PICK T \in TickType : tick' = [tick EXCEPT ![b] = T] /\ T.at = "agents"
      BY <2>1, AfterIs
    <3> QED BY <1>0, <3>1
  <2> QED BY <2>1
<1>9. Pick(b) => to \in {"idle", "mark", "route", "claim", "after"}
  <2>1. ASSUME Pick(b) PROVE to \in {"idle", "mark", "route", "claim", "after"}
    <3>1. PICK T \in TickType : tick' = [tick EXCEPT ![b] = T] /\ ((T = Idle /\ ~Holds(b)) \/ PickTo(b, T))
      BY <2>1, PickIs
    <3> QED BY <1>0, <3>1, RestIs DEF PickTo
  <2> QED BY <2>1
<1> QED BY <1>1, <1>2, <1>3, <1>4, <1>5, <1>6, <1>7, <1>8, <1>9 DEF Leads

\* A tick that serves an event came to its step by a step of the room.
LEMMA WorkMoves == ASSUME RoomInv, [Next]_vars, NEW c \in Bridges, tick'[c].at \in Working, tick'[c] # tick[c]
                   PROVE  RoomTick(c) /\ Tick(c) /\ Leads(c, tick'[c].at)
<1>1. PICK to : to = tick'[c].at
  OBVIOUS
<1>2. Tick(c)
  BY TicksMove, RestIs DEF Working, Keeping, Serving, AtAgent
<1>3. RoomTick(c)
  BY <1>2, RingingGoes
<1> QED BY <1>1, <1>2, <1>3, RoomTickLeads

\* A change that went to a card has its marker, and what is at its claim has none.
RouteInv ==
    /\ RevisedOnce
    /\ \A l \in Tasks : \A i \in DOMAIN revise[l] : <<revise[l][i], l[2]>> \in routed
    /\ lapses = 0 => \A b \in Bridges : At(b, "claim") => tick[b].t \notin routed

\* Nothing has been routed.
LEMMA RouteInit == ASSUME Init PROVE RouteInv
<1>1. \A l \in Tasks : DOMAIN revise[l] = {}
  BY DEF Init
<1>2. \A b \in Bridges : ~At(b, "claim")
  BY RestIs DEF Init, At
<1> QED BY <1>1, <1>2 DEF RouteInv, RevisedOnce

\* A claim is taken up only for words that went to no card.
LEMMA ClaimIsNew ==
    ASSUME RoomInv, RouteInv, [Next]_vars, lapses' = 0, NEW b \in Bridges, tick'[b].at = "claim"
                    PROVE  tick'[b].t \notin routed
<1>1. CASE tick'[b] = tick[b]
  BY <1>1, LapsesGrow DEF RouteInv, At
<1>2. CASE tick'[b] # tick[b]
  <2>1. RoomTick(b) /\ Leads(b, "claim")
    BY <1>2, WorkMoves DEF Working, Serving, AtAgent
  <2>2. Pick(b)
    BY <2>1 DEF Leads, RoomTick, Working, Serving, AtAgent
  <2>3. PICK T \in TickType : tick' = [tick EXCEPT ![b] = T] /\ ((T = Idle /\ ~Holds(b)) \/ PickTo(b, T))
    BY <2>2, PickIs
  <2>4. tick'[b] = T
    BY <2>3 DEF RoomInv, TicksOK
  <2> QED BY <2>3, <2>4, RestIs DEF PickTo
<1> QED BY <1>1, <1>2

\* Words change one card, once: the marker is asked in the same transaction.
LEMMA RouteRevises == ASSUME RoomInv, RouteInv, NEW b \in Bridges, Route(b) PROVE
    /\ RevisedOnce'
    /\ \A l \in Tasks : \A i \in DOMAIN revise'[l] : <<revise'[l][i], l[2]>> \in routed'
<1>1. PICK t, to : t = tick[b].t /\ to = tick[b].to
  OBVIOUS
<1>2. t \in Tasks /\ to \in Tasks /\ to[2] = t[2] /\ to[1] < t[1] /\ t = <<t[1], t[2]>>
  BY <1>1, TickIs, TaskIs DEF Route, At, LocalFor
<1>3. routed' = routed \cup {t}
  BY <1>1 DEF Route
<1>4. /\ RevisedOnce
      /\ \A l \in Tasks : \A i \in DOMAIN revise[l] : <<revise[l][i], l[2]>> \in routed
  BY DEF RouteInv
<1>5. CASE t \in routed
  <2>1. revise' = revise
    BY <1>1, <1>5 DEF Route
  <2> QED BY <1>3, <1>4, <2>1 DEF RevisedOnce
<1>6. CASE t \notin routed
  <2>1. revise' = [revise EXCEPT ![to] = Append(revise[to], t[1])] /\ revise \in [Tasks -> Seq(1..MaxSaid)]
    BY <1>1, <1>6 DEF Route, RoomInv, LivingOK
  <2>2. \A l \in Tasks \ {to} : revise'[l] = revise[l]
    BY <2>1
  <2>3. PICK n \in Nat : n = Len(revise[to]) /\ DOMAIN revise[to] = 1..n
    <3>1. revise[to] \in Seq(1..MaxSaid)
      BY <1>2, <2>1
    <3> QED BY <3>1
  <2>4. revise'[to] = Append(revise[to], t[1])
    BY <1>2, <2>1
  <2>5. DOMAIN revise'[to] = 1..(n + 1) /\ revise'[to][n + 1] = t[1]
           /\ \A i \in 1..n : revise'[to][i] = revise[to][i]
    BY <1>2, <2>1, <2>3, <2>4
  <2>6. \A i \in DOMAIN revise'[to] : (i = n + 1 /\ i \notin DOMAIN revise[to]) \/ i \in DOMAIN revise[to]
    BY <2>3, <2>5
  <2>7. ASSUME NEW l \in Tasks, NEW i \in DOMAIN revise'[l]
        PROVE  \/ l = to /\ i = n + 1 /\ revise'[l][i] = t[1] /\ i \notin DOMAIN revise[l]
               \/ i \in DOMAIN revise[l] /\ revise'[l][i] = revise[l][i]
    BY <2>2, <2>3, <2>5, <2>6
  <2>8. ASSUME NEW l \in Tasks, NEW i \in DOMAIN revise[l], l[2] = t[2] PROVE revise[l][i] # t[1]
    <3>1. <<revise[l][i], l[2]>> \in routed
      BY <1>4
    <3> QED BY <1>2, <1>6, <2>8, <3>1
  <2>9. ASSUME NEW l \in Tasks, NEW i \in DOMAIN revise'[l] PROVE <<revise'[l][i], l[2]>> \in routed'
    <3>1. CASE l = to /\ revise'[l][i] = t[1]
      BY <1>2, <1>3, <3>1
    <3>2. CASE i \in DOMAIN revise[l] /\ revise'[l][i] = revise[l][i]
      BY <1>3, <1>4, <3>2
    <3> QED BY <2>7, <3>1, <3>2
  <2>10. ASSUME NEW l \in Tasks, NEW i \in DOMAIN revise'[l] PROVE revise'[l][i] > l[1]
    <3>1. CASE l = to /\ revise'[l][i] = t[1]
      BY <1>2, <3>1, TaskIs, TasksAre
    <3>2. CASE i \in DOMAIN revise[l] /\ revise'[l][i] = revise[l][i]
      BY <1>4, <3>2 DEF RevisedOnce
    <3> QED BY <2>7, <3>1, <3>2
  <2>11. ASSUME NEW l \in Tasks, NEW m \in Tasks, NEW i \in DOMAIN revise'[l], NEW j \in DOMAIN revise'[m],
                l[2] = m[2], revise'[l][i] = revise'[m][j]
         PROVE  l = m /\ i = j
    <3>1. CASE i \in DOMAIN revise[l] /\ revise'[l][i] = revise[l][i] /\ j \in DOMAIN revise[m]
                  /\ revise'[m][j] = revise[m][j]
      <4>1. revise[l][i] = revise[m][j] /\ i \in DOMAIN revise[l] /\ j \in DOMAIN revise[m]
        BY <2>11, <3>1
      <4>2. \A p, q \in Tasks : \A x \in DOMAIN revise[p], y \in DOMAIN revise[q] :
                p[2] = q[2] /\ revise[p][x] = revise[q][y] => p = q /\ x = y
        BY <1>4 DEF RevisedOnce
      <4> QED BY <2>11, <4>1, <4>2
    <3>2. CASE l = to /\ i = n + 1 /\ revise'[l][i] = t[1] /\ j \in DOMAIN revise[m]
                  /\ revise'[m][j] = revise[m][j]
      BY <1>2, <2>8, <2>11, <3>2
    <3>3. CASE m = to /\ j = n + 1 /\ revise'[m][j] = t[1] /\ i \in DOMAIN revise[l]
                  /\ revise'[l][i] = revise[l][i]
      BY <1>2, <2>8, <2>11, <3>3
    <3>4. CASE l = to /\ i = n + 1 /\ m = to /\ j = n + 1
      BY <3>4
    <3> QED BY <2>7, <3>1, <3>2, <3>3, <3>4
  <2> QED BY <2>9, <2>10, <2>11 DEF RevisedOnce
<1> QED BY <1>5, <1>6

\* Every step of the system keeps what is known of the routes.
LEMMA RouteNext == ASSUME RoomInv, LockInv, RouteInv, [Next]_vars PROVE RouteInv'
<1>1. CASE UNCHANGED living
  <2>1. routed' = routed /\ revise' = revise
    BY <1>1 DEF living
  <2>2. lapses' = 0 => \A b \in Bridges : tick'[b].at = "claim" => tick'[b].t \notin routed'
    BY <2>1, ClaimIsNew
  <2>3. RevisedOnce' /\ \A l \in Tasks : \A i \in DOMAIN revise'[l] : <<revise'[l][i], l[2]>> \in routed'
    BY <2>1 DEF RouteInv, RevisedOnce
  <2> QED BY <2>2, <2>3 DEF RouteInv, At
<1>2. ASSUME NEW b \in Bridges, Route(b) PROVE RouteInv'
  <2>1. OthersStand(b) /\ Alive(b) /\ tick'[b].at = "after"
    BY <1>2, OthersAre, TickIs DEF Tick, Route, At, Alive, RoomInv, TicksOK, TickType
  <2>2. ASSUME lapses' = 0, NEW c \in Bridges PROVE tick'[c].at # "claim"
    <3>1. CASE c = b
      BY <2>1, <3>1
    <3>2. CASE c # b
      BY <2>1, <2>2, <3>2, AloneAtWork, LapsesGrow DEF OthersStand
    <3> QED BY <3>1, <3>2
  <2>3. RevisedOnce' /\ \A l \in Tasks : \A i \in DOMAIN revise'[l] : <<revise'[l][i], l[2]>> \in routed'
    BY <1>2, RouteRevises
  <2> QED BY <2>2, <2>3 DEF RouteInv, At
<1> QED BY <1>1, <1>2, RoutesOnly

\* Routing and claiming, in every reachable state.
THEOREM RoutesStand == Spec => []RouteInv
<1>1. Init => RouteInv
  BY RouteInit
<1>2. RoomInv /\ LockInv /\ RouteInv /\ [Next]_vars => RouteInv'
  BY RouteNext
<1> QED BY <1>1, <1>2, RoomStands, OneBridgeWorks, PTL DEF Spec

\* Words of the owner are served once, as a change to a living card or as a claim.
THEOREM WordsAreServedOnce == Spec => ServedOneWay
<1> DEFINE Step == \A t \in routed : lapses' = 0 /\ task[t] = NoRecord => task'[t] = NoRecord
<1>1. RouteInv => RevisedOnce
  BY DEF RouteInv
<1>2. RoomInv /\ RouteInv /\ [Next]_vars => [Step]_vars
  <2> SUFFICES ASSUME RoomInv, RouteInv, [Next]_vars, NEW t \in routed, lapses' = 0, task[t] = NoRecord
               PROVE  task'[t] = NoRecord
    OBVIOUS
  <2>1. t \in Tasks /\ lapses = 0
    BY LapsesGrow DEF RoomInv, LivingOK
  <2>2. ASSUME NEW b \in Bridges, ClaimAsk(b) PROVE tick[b].t # t
    BY <2>1, <2>2 DEF ClaimAsk, RouteInv
  <2> QED BY <2>1, <2>2, ClaimsOnly
<1> HIDE DEF Step
<1>3. Spec => [][Step]_vars
  BY <1>2, RoomStands, RoutesStand, PTL DEF Spec
<1>4. Spec => []RevisedOnce
  BY <1>1, RoutesStand, PTL
<1>5. [][Step]_vars <=> RoutedIsNotClaimed
  BY DEF Step, RoutedIsNotClaimed
<1> QED BY <1>3, <1>4, <1>5 DEF ServedOneWay

-----------------------------------------------------------------------------
(* What has been said stands, and a tick goes on with its event.           *)

\* What was said stands, and time does not go back.
LEMMA SaidGrows == ASSUME RoomInv, [Next]_vars
    PROVE clock' >= clock /\ \A i \in Turns : i \in Turns' /\ said'[i] = said[i]
<1>0. clock \in Nat
  BY WordsAre
<1>1. UNCHANGED words => clock' >= clock /\ \A i \in Turns : i \in Turns' /\ said'[i] = said[i]
  BY <1>0 DEF words, Turns
<1>2. ASSUME NEW b \in Bridges, Tick(b) PROVE UNCHANGED words
  <2>1. CASE \/ Launch(b) \/ End(b) \/ Look(b) \/ Mark(b) \/ Spoken(b) \/ Keep(b) \/ Cancel(b) \/ Close(b)
    BY <2>1 DEF Launch, End, Look, Mark, Spoken, Keep, Cancel, Close, Room
  <2>2. CASE \/ GoConfirms(b) \/ Drop(b) \/ GoDirect(b) \/ AskDirect(b) \/ AskReadback(b) \/ Supersede(b)
             \/ Propose(b) \/ Cards(b)
    BY <2>2 DEF GoConfirms, Drop, GoDirect, AskDirect, AskReadback, Supersede, Propose, Cards, Room
  <2>3. CASE Pick(b) \/ Route(b) \/ After(b) \/ Sweep(b) \/ ClaimAsk(b) \/ OpenAsk(b) \/ Revoke(b)
    BY <2>3 DEF Pick, Route, After, Sweep, ClaimAsk, OpenAsk, Revoke, Room
  <2>4. CASE \/ Reserve(b) \/ Ring(b) \/ Rang(b) \/ Check(b) \/ ByCard(b) \/ Again(b)
             \/ Rering(b) \/ Rerang(b) \/ NoWakeYet(b) \/ LookAtCard(b) \/ Unqueue(b) \/ Show(b)
    BY <2>4 DEF Reserve, Ring, Rang, Check, ByCard, Again, Rering, Rerang, NoWakeYet, LookAtCard, Wakes,
       Unqueue, Show, Bell
  <2> QED BY <1>2, <2>1, <2>2, <2>3, <2>4 DEF Tick
<1>3. ASSUME NEW b \in Bridges, Settle(b) \/ Fail(b) \/ Die(b) \/ Lapse(b) PROVE UNCHANGED words
  BY <1>3 DEF Settle, SeeAck, KeepAck, AckLook, AckShow, Elsewhere, Fail, Die, Lapse
<1>4. CASE Say
  <2>1. PICK event : SaysIt(event)
    BY <1>4, SayIs
  <2> QED BY <1>0, <1>4, <2>1, SaidAre DEF Say, Said
<1>5. CASE Time
  BY <1>0, <1>5 DEF Time, Turns
<1>6. CASE Agent \/ UNCHANGED vars
  BY <1>1, <1>6 DEF Agent, vars
<1>7. ASSUME NEW t \in Tasks, Due(t) \/ Ack(t) PROVE UNCHANGED <<said, clock>>
  BY <1>7 DEF Due, Ack, words
<1> QED BY <1>0, <1>1, <1>2, <1>3, <1>4, <1>5, <1>6, <1>7 DEF Next, Turns

\* Where a tick goes after a turn: to the next, or to the sweep.
LEMMA OnwardGoes ==
    ASSUME RoomInv, NEW b \in Bridges, NEW e, NEW now, NEW upto, Onward(b, e, now, upto)
    PROVE  /\ tick'[b].now = now /\ tick'[b].at \in {"event", "sweep"} /\ tick'[b].todo = {}
              /\ tick'[b].retire = FALSE
           /\ tick'[b].at = "event" => tick'[b].e = e + 1
<1>1. tick'[b] = [Idle EXCEPT !.at = IF e < upto THEN "event" ELSE "sweep", !.now = now,
                       !.e = IF e < upto THEN e + 1 ELSE 0, !.upto = IF e < upto THEN upto ELSE 0]
  BY DEF Onward, RoomInv, TicksOK
<1> QED BY <1>1 DEF Idle

\* The next event, or the event at hand.
GoesOn(b, T) ==
    \/ Look(b) /\ T.at = "event" /\ T.now = clock /\ T.e = cursor + 1
    \/ Mark(b) /\ T.at = "event" /\ T.now = tick[b].now /\ T.e = tick[b].e + 1 /\ tick[b].at \in Working
    \/ ~Look(b) /\ ~Mark(b) /\ T.now = tick[b].now /\ T.e = tick[b].e /\ tick[b].at \in Working

\* A step of the work on a turn stays with its turn or takes up the next one.
LEMMA RoomTickGoesOn ==
    ASSUME RoomInv, NEW b \in Bridges, RoomTick(b), NEW T, T = tick'[b], T.at \in Working, tick'[b] # tick[b]
    PROVE  GoesOn(b, T)
<1>0. /\ tick \in [Bridges -> TickType] /\ tick[b] \in TickType /\ Leads(b, T.at)
      /\ clock \in Nat /\ cursor \in Nat /\ Len(said) \in Nat
  BY TickIs, RoomTickLeads, WordsAre DEF RoomInv, TicksOK
<1>a. ASSUME NEW step, Go(b, step) \/ Copies(b, step) PROVE T.now = tick[b].now /\ T.e = tick[b].e
  BY <1>0, <1>a DEF Go, Copies, TickType
<1>b. ASSUME NEW src, NEW todo, Serves(b, src, todo) PROVE T.now = tick[b].now /\ T.e = tick[b].e
  BY <1>0, <1>b DEF Serves, TickType
<1>1. CASE Look(b)
  <2>1. Onward(b, cursor, clock, Len(said)) /\ clock <= clock /\ Len(said) <= Len(said)
    BY <1>0, <1>1 DEF Look
  <2>2. PICK e, now, upto : e = cursor /\ now = clock /\ upto = Len(said)
    OBVIOUS
  <2>3. Onward(b, e, now, upto)
    BY <2>1, <2>2
  <2>4. T.now = now /\ T.at \in {"event", "sweep"} /\ (T.at = "event" => T.e = e + 1)
    BY <2>3, OnwardGoes
  <2> QED BY <1>1, <2>2, <2>4 DEF GoesOn, Working, Keeping, Serving, AtAgent
<1>2. CASE Mark(b)
  <2>0. tick[b].at \in Working
    BY <1>2 DEF Mark, At, Working
  <2>1. Onward(b, tick[b].e, tick[b].now, tick[b].upto)
    BY <1>2 DEF Mark
  <2>2. PICK e, now, upto : e = tick[b].e /\ now = tick[b].now /\ upto = tick[b].upto
    OBVIOUS
  <2>3. Onward(b, e, now, upto)
    BY <2>1, <2>2
  <2>4. T.now = now /\ T.at \in {"event", "sweep"} /\ (T.at = "event" => T.e = e + 1)
    BY <2>3, OnwardGoes
  <2> QED BY <1>2, <2>0, <2>2, <2>4 DEF GoesOn, Working, Keeping, Serving, AtAgent
<1>3. CASE ~Look(b) /\ ~Mark(b)
  <2>1. tick[b].at \in Working
    <3>1. ~(Launch(b) \/ End(b) \/ Sweep(b))
      BY <1>0 DEF Leads
    <3>2. CASE \/ Revoke(b) \/ Spoken(b) \/ Keep(b) \/ Cancel(b) \/ Close(b) \/ GoConfirms(b) \/ Drop(b)
               \/ GoDirect(b) \/ AskDirect(b) \/ AskReadback(b)
      BY <3>2 DEF Revoke, Spoken, Keep, Cancel, Close, GoConfirms, Drop, GoDirect, AskDirect, AskReadback,
            Hears, At,
         Working, Keeping
    <3>3. CASE Supersede(b) \/ Propose(b) \/ Cards(b) \/ Pick(b) \/ Route(b) \/ ClaimAsk(b)
                  \/ OpenAsk(b) \/ After(b)
      BY <3>3 DEF Supersede, Propose, Cards, Pick, Route, ClaimAsk, OpenAsk, After, At, Working, Keeping,
            Serving,
         AtAgent
    <3> QED BY <1>3, <3>1, <3>2, <3>3 DEF RoomTick
  <2>2. CASE \/ Revoke(b) \/ Spoken(b) \/ Keep(b) \/ Cancel(b) \/ Close(b) \/ AskReadback(b)
             \/ Supersede(b) \/ Propose(b) \/ Cards(b) \/ ClaimAsk(b) \/ OpenAsk(b)
    <3>1. T.now = tick[b].now /\ T.e = tick[b].e
      BY <1>a, <2>2 DEF Revoke, Spoken, Keep, Cancel, Close, AskReadback, Supersede, Propose, Cards, ClaimAsk,
         OpenAsk, Copies
    <3> QED BY <1>3, <2>1, <3>1 DEF GoesOn
  <2>3. CASE GoDirect(b) \/ AskDirect(b)
    <3>1. T.now = tick[b].now /\ T.e = tick[b].e
      BY <1>b, <2>3 DEF GoDirect, AskDirect, Serves
    <3> QED BY <1>3, <2>1, <3>1 DEF GoesOn
  <2>4. CASE GoConfirms(b)
    <3>1. ASSUME NEW todo, tick' = [tick EXCEPT ![b].at = "drop", ![b].held = proposal, ![b].todo = todo]
          PROVE  T.now = tick[b].now /\ T.e = tick[b].e
      BY <1>0, <3>1 DEF TickType
    <3>2. T.now = tick[b].now /\ T.e = tick[b].e
      BY <1>a, <2>4, <3>1 DEF GoConfirms, Copies
    <3> QED BY <1>3, <2>1, <3>2 DEF GoesOn
  <2>5. CASE Drop(b) \/ Route(b)
    <3>1. T.now = tick[b].now /\ T.e = tick[b].e
      BY <1>0, <2>5 DEF Drop, Route, TickType
    <3> QED BY <1>3, <2>1, <3>1 DEF GoesOn
  <2>6. CASE Pick(b)
    <3>1. PICK U \in TickType : tick' = [tick EXCEPT ![b] = U] /\ ((U = Idle /\ ~Holds(b)) \/ PickTo(b, U))
      BY <2>6, PickIs
    <3>2. T = U /\ T # Idle
      BY <1>0, <3>1, RestIs DEF Working, Keeping, Serving, AtAgent
    <3> QED BY <1>3, <2>1, <3>1, <3>2 DEF PickTo, GoesOn
  <2>7. CASE After(b)
    <3>1. PICK U \in TickType : tick' = [tick EXCEPT ![b] = U] /\ U.now = tick[b].now /\ U.e = tick[b].e
      BY <2>7, AfterIs
    <3> QED BY <1>0, <1>3, <2>1, <3>1 DEF GoesOn
  <2>8. ~(Launch(b) \/ End(b) \/ Sweep(b))
    BY <1>0 DEF Leads
  <2> QED BY <1>3, <2>2, <2>3, <2>4, <2>5, <2>6, <2>7, <2>8 DEF RoomTick
<1> QED BY <1>1, <1>2, <1>3

\* A tick at work was so before this step, or has just taken up a turn.
LEMMA WorkGoesOn == ASSUME RoomInv, [Next]_vars, NEW c \in Bridges, NEW T, T = tick'[c], T.at \in Working
                    PROVE  T = tick[c] \/ (GoesOn(c, T) /\ RoomTick(c) /\ Tick(c) /\ Leads(c, T.at))
  BY WorkMoves, RoomTickGoesOn

\* The steps that write the cursor, the proposal and the proposal cards.
Proposes(b) == Keep(b) \/ Close(b) \/ Drop(b) \/ Supersede(b) \/ Propose(b) \/ After(b) \/ Sweep(b)
OffersTo(b) == Close(b) \/ Drop(b) \/ AskReadback(b) \/ Supersede(b) \/ Cards(b) \/ After(b) \/ Sweep(b)

\* Who changes the cursor, the proposal and the proposal cards.
LEMMA AskedMoves == ASSUME [Next]_vars
    PROVE /\ cursor' = cursor \/ \E b \in Bridges : Mark(b)
          /\ proposal' = proposal \/ \E b \in Bridges : Proposes(b)
          /\ offer' = offer \/ \E b \in Bridges : OffersTo(b)
<1>1. ASSUME NEW b \in Bridges, Tick(b)
      PROVE  /\ cursor' = cursor \/ Mark(b)
             /\ proposal' = proposal \/ Proposes(b)
             /\ offer' = offer \/ OffersTo(b)
  <2>1. CASE Launch(b) \/ End(b) \/ Look(b) \/ Mark(b) \/ Spoken(b) \/ Keep(b) \/ Cancel(b) \/ Close(b)
    BY <2>1 DEF Launch, End, Look, Mark, Spoken, Keep, Cancel, Close, asked, Proposes, OffersTo
  <2>2. CASE \/ GoConfirms(b) \/ Drop(b) \/ GoDirect(b) \/ AskDirect(b) \/ AskReadback(b) \/ Supersede(b)
             \/ Propose(b) \/ Cards(b)
    BY <2>2 DEF GoConfirms, Drop, GoDirect, AskDirect, AskReadback, Supersede, Propose, Cards, asked,
          Proposes,
       OffersTo
  <2>3. CASE Pick(b) \/ Route(b) \/ After(b) \/ Sweep(b) \/ ClaimAsk(b) \/ OpenAsk(b) \/ Revoke(b)
    BY <2>3 DEF Pick, Route, After, Sweep, ClaimAsk, OpenAsk, Revoke, Room, asked, Proposes, OffersTo
  <2>4. CASE \/ Reserve(b) \/ Ring(b) \/ Rang(b) \/ Check(b) \/ ByCard(b) \/ Again(b)
             \/ Rering(b) \/ Rerang(b) \/ NoWakeYet(b) \/ LookAtCard(b) \/ Unqueue(b) \/ Show(b)
    BY <2>4 DEF Reserve, Ring, Rang, Check, ByCard, Again, Rering, Rerang, NoWakeYet, LookAtCard, Wakes,
       Unqueue, Show, Bell, asked
  <2> QED BY <1>1, <2>1, <2>2, <2>3, <2>4 DEF Tick
<1>2. ASSUME NEW b \in Bridges, Settle(b) \/ Fail(b) \/ Die(b) \/ Lapse(b) PROVE UNCHANGED <<cursor, asked>>
  BY <1>2 DEF Settle, SeeAck, KeepAck, AckLook, AckShow, Elsewhere, Fail, Die, Lapse
<1>3. CASE Say \/ Time \/ Agent \/ UNCHANGED vars
  BY <1>3 DEF Say, Said, Time, Agent, vars, asked
<1>4. ASSUME NEW t \in Tasks, Due(t) \/ Ack(t) PROVE UNCHANGED <<cursor, asked>>
  BY <1>4 DEF Due, Ack
<1> QED BY <1>1, <1>2, <1>3, <1>4 DEF Next, asked

\* An execution that writes the room lives, and while the lock does not lapse it is alone.
LEMMA WriterIsAlone ==
    ASSUME RoomInv, LockInv, NEW b \in Bridges, lapses = 0, Mark(b) \/ Proposes(b) \/ OffersTo(b)
    PROVE  /\ OthersStand(b) /\ Alive(b)
           /\ \A c \in Bridges \ {b} : tick'[c].at \notin Working
<1>1. Tick(b) /\ Alive(b)
  BY DEF Proposes, OffersTo, Mark, Keep, Close, Drop, Supersede, Propose, After, Sweep, AskReadback, Cards,
        Hears, At, Alive,
     Tick
<1>2. OthersStand(b)
  BY <1>1, OthersAre
<1>3. \A c \in Bridges \ {b} : tick[c].at = "off"
  BY <1>1, AloneAtWork
<1> QED BY <1>1, <1>2, <1>3 DEF OthersStand, Working, Keeping, Serving, AtAgent

\* While the lock does not lapse an event is served once all before it are consumed.
CursorInv == lapses = 0 => \A b \in Bridges : tick[b].at \in Working => cursor = tick[b].e - 1

\* No turn has been consumed.
LEMMA CursorInit == ASSUME Init PROVE CursorInv
  BY RestIs DEF Init, CursorInv, Working, Keeping, Serving, AtAgent

\* Under the lock a tick is past the cursor by no more than the turn it works on.
LEMMA CursorNext == ASSUME RoomInv, LockInv, CursorInv, [Next]_vars PROVE CursorInv'
<1>0. SUFFICES ASSUME lapses' = 0, NEW c \in Bridges, tick'[c].at \in Working PROVE cursor' = tick'[c].e - 1
  BY DEF CursorInv
<1>1. lapses = 0 /\ cursor \in Nat
  BY <1>0, LapsesGrow, WordsAre
<1>2. tick[c].at \in Working => cursor = tick[c].e - 1
  BY <1>1 DEF CursorInv
<1>3. tick'[c] = tick[c] \/ GoesOn(c, tick'[c])
  BY <1>0, WorkMoves, RoomTickGoesOn
<1>4. CASE cursor' = cursor
  <2>1. CASE Mark(c)
    <3>1. /\ tick[c].at \in Working /\ cursor' = tick[c].e /\ tick[c].e \in Nat
      BY <2>1, TickIs DEF Mark, At, Working
    <3> QED BY <1>1, <1>2, <1>4, <3>1
  <2>2. CASE ~Mark(c)
    <3>1. tick[c].e \in Nat
      BY TickIs
    <3> QED BY <1>0, <1>1, <1>2, <1>3, <1>4, <2>2, <3>1 DEF GoesOn
  <2> QED BY <2>1, <2>2
<1>5. ASSUME NEW b \in Bridges, Mark(b) PROVE cursor' = tick'[c].e - 1
  <2>1. c = b
    BY <1>0, <1>1, <1>5, WriterIsAlone
  <2>2. cursor' = tick[b].e /\ tick[b].e \in Nat /\ Onward(b, tick[b].e, tick[b].now, tick[b].upto)
    BY <1>5, TickIs DEF Mark
  <2>3. PICK e, now, upto : e = tick[b].e /\ now = tick[b].now /\ upto = tick[b].upto
    OBVIOUS
  <2>4. Onward(b, e, now, upto)
    BY <2>2, <2>3
  <2>5. tick'[b].at \in {"event", "sweep"} /\ (tick'[b].at = "event" => tick'[b].e = e + 1)
    BY <2>4, OnwardGoes
  <2>6. tick'[b].at # "sweep"
    BY <1>0, <2>1 DEF Working, Keeping, Serving, AtAgent
  <2> QED BY <2>1, <2>2, <2>3, <2>5, <2>6
<1> QED BY <1>4, <1>5, AskedMoves

\* Under the lock a tick works on the turn after those consumed (call_bridge.py, tick).
THEOREM CursorStands == Spec => []CursorInv
<1>1. Init => CursorInv
  BY CursorInit
<1>2. RoomInv /\ LockInv /\ CursorInv /\ [Next]_vars => CursorInv'
  BY CursorNext
<1> QED BY <1>1, <1>2, RoomStands, OneBridgeWorks, PTL DEF Spec

\* The kind of the event a tick serves.
HeardFor(T) ==
    /\ T.at \in Keeping \cup {"propose", "cards"} => mode.readback
    /\ T.at = "close" => said[T.e].kind \in {"go", "cancel"}
    /\ T.at = "drop" \/ (mode.readback /\ T.at \in Serving) => said[T.e].kind = "go"
KindInv == \A b \in Bridges : HeardFor(tick[b])

\* A tick that came to a new step, and still serves the event it was at.
LEMMA SameEvent ==
    ASSUME RoomInv, [Next]_vars, NEW c \in Bridges, tick'[c].at \in Working, tick'[c] # tick[c],
          tick'[c].at # "event"
    PROVE  /\ RoomTick(c) /\ Leads(c, tick'[c].at) /\ ~Look(c) /\ ~Mark(c)
           /\ tick'[c].e = tick[c].e /\ tick'[c].now = tick[c].now /\ tick[c].at \in Working
           /\ tick[c].e \in Turns /\ said'[tick[c].e] = said[tick[c].e] /\ mode' = mode
<1>1. RoomTick(c) /\ Leads(c, tick'[c].at)
  BY WorkMoves
<1>2. PICK T : T = tick'[c]
  OBVIOUS
<1>3. GoesOn(c, T)
  BY <1>1, <1>2, RoomTickGoesOn
<1>4. ~Look(c) /\ ~Mark(c) /\ T.now = tick[c].now /\ T.e = tick[c].e /\ tick[c].at \in Working
  BY <1>2, <1>3 DEF GoesOn
<1>5. tick[c].e \in Turns
  BY <1>4, HeardIs
<1> QED BY <1>1, <1>2, <1>4, <1>5, SaidGrows, LapsesGrow

\* What holds of the proposal a tick takes in hand.
LEMMA Copied == ASSUME RoomInv, NEW b \in Bridges, RoomTick(b), Leads(b, tick'[b].at), tick'[b].at \in Keeping
    PROVE /\ mode.readback /\ tick'[b].held = proposal /\ UNCHANGED <<proposal, cursor>>
          /\ Spoken(b) \/ Cancel(b) \/ GoConfirms(b) \/ AskReadback(b)
<1>0. tick \in [Bridges -> TickType] /\ tick[b] \in TickType
  BY TickIs DEF RoomInv, TicksOK
<1>a. ASSUME NEW step, Go(b, step) PROVE tick'[b].at = step
  BY <1>0, <1>a DEF Go, TickType
<1>b. ASSUME NEW step, Copies(b, step) PROVE tick'[b].held = proposal
  BY <1>0, <1>b DEF Copies, TickType
<1>c. ASSUME NEW todo, tick' = [tick EXCEPT ![b].at = "drop", ![b].held = proposal, ![b].todo = todo]
      PROVE  tick'[b].held = proposal
  BY <1>0, <1>c DEF TickType
<1>1. Spoken(b) \/ Cancel(b) \/ GoConfirms(b) \/ AskReadback(b)
  BY DEF Leads, RoomTick, Working, Keeping, Serving, AtAgent
<1>2. ~Go(b, "mark") /\ ~Go(b, "propose")
  BY <1>a DEF Keeping
<1>3. CASE Spoken(b)
  BY <1>1, <1>2, <1>3, <1>b DEF Spoken, Copies, asked
<1>4. CASE Cancel(b)
  BY <1>1, <1>2, <1>4, <1>b DEF Cancel, Copies
<1>5. CASE GoConfirms(b)
  BY <1>1, <1>2, <1>5, <1>b, <1>c DEF GoConfirms, Copies, asked
<1>6. CASE AskReadback(b)
  BY <1>1, <1>2, <1>6, <1>b DEF AskReadback, Copies
<1> QED BY <1>1, <1>3, <1>4, <1>5, <1>6

\* No tick is at work.
LEMMA KindInit == ASSUME Init PROVE KindInv
  BY RestIs DEF Init, KindInv, HeardFor, Keeping, Serving, AtAgent

\* A tick is at a step that its turn calls for.
LEMMA KindNext == ASSUME RoomInv, KindInv, [Next]_vars PROVE KindInv'
<1>0. SUFFICES ASSUME NEW c \in Bridges PROVE HeardFor(tick[c])'
  BY DEF KindInv
<1>1. PICK to : to = tick'[c].at
  OBVIOUS
<1>2. HeardFor(tick[c]) /\ mode' = mode /\ mode.readback \in BOOLEAN
  BY LapsesGrow, ModeIs DEF KindInv
<1>3. CASE to \notin Working
  BY <1>1, <1>3 DEF HeardFor, Working, Keeping, Serving, AtAgent
<1>4. CASE to \in Working /\ tick'[c] = tick[c]
  <2>1. tick[c].e \in Turns /\ said'[tick[c].e] = said[tick[c].e]
    BY <1>1, <1>4, HeardIs, SaidGrows
  <2>2. PICK T : T = tick[c]
    OBVIOUS
  <2>3. HeardFor(T)'
    BY <1>2, <2>1, <2>2 DEF HeardFor
  <2> QED BY <1>4, <2>2, <2>3 DEF HeardFor
<1>5. CASE to \in {"event", "mark"}
  BY <1>1, <1>5 DEF HeardFor, Keeping, Serving, AtAgent
<1>6. CASE to \in Working \ {"event", "mark"} /\ tick'[c] # tick[c]
  <2>1. /\ RoomTick(c) /\ Leads(c, to) /\ ~Look(c) /\ ~Mark(c) /\ tick'[c].e = tick[c].e
        /\ said'[tick[c].e] = said[tick[c].e]
    BY <1>1, <1>6, SameEvent
  <2>2. ~(Launch(c) \/ End(c) \/ Sweep(c) \/ Revoke(c) \/ Keep(c) \/ Close(c) \/ Cards(c))
    BY <1>6, <2>1 DEF Leads
  <2>3. CASE Spoken(c) \/ Cancel(c) \/ GoConfirms(c) \/ AskReadback(c)
    <3>1. mode.readback /\ to \in Keeping \cup {"propose", "cards"}
      BY <1>1, <1>6, <2>1, <2>3, Copied DEF Leads, Keeping, AskReadback
    <3>2. to = "close" => Heard(c).kind \in {"go", "cancel"}
      BY <1>6, <2>1, <2>3 DEF Leads, Cancel, GoConfirms, Hears
    <3>3. to = "drop" => Heard(c).kind = "go"
      BY <1>6, <2>1, <2>3 DEF Leads, GoConfirms, Hears
    <3> QED BY <1>1, <1>2, <2>1, <3>1, <3>2, <3>3 DEF HeardFor, Heard, Keeping, Serving, AtAgent
  <2>4. CASE Supersede(c) \/ Propose(c)
    <3>1. mode.readback /\ to \in {"propose", "cards"}
      BY <1>2, <2>1, <2>4 DEF Leads, Supersede, Propose, At, HeardFor, Keeping
    <3> QED BY <1>1, <1>2, <3>1 DEF HeardFor, Keeping, Serving, AtAgent
  <2>5. CASE Drop(c) \/ After(c) \/ Pick(c) \/ ClaimAsk(c) \/ OpenAsk(c) \/ Route(c)
    <3>1. to \in Serving
      BY <1>6, <2>1, <2>5 DEF Leads, Working, Keeping, Serving, AtAgent
    <3>2. tick[c].at = "drop" \/ tick[c].at \in Serving
      BY <2>5 DEF Drop, After, Pick, ClaimAsk, OpenAsk, Route, At, Serving, AtAgent
    <3>3. mode.readback => said[tick[c].e].kind = "go"
      BY <1>2, <3>2 DEF HeardFor
    <3> QED BY <1>1, <1>2, <2>1, <3>1, <3>3 DEF HeardFor, Keeping, Serving, AtAgent
  <2>6. CASE GoDirect(c) \/ AskDirect(c)
    <3>1. ~mode.readback /\ to = "agents"
      BY <2>1, <2>6 DEF Leads, GoDirect, AskDirect
    <3> QED BY <1>1, <1>2, <3>1 DEF HeardFor, Keeping, Serving, AtAgent
  <2> QED BY <2>1, <2>2, <2>3, <2>4, <2>5, <2>6 DEF RoomTick
<1> QED BY <1>3, <1>4, <1>5, <1>6

\* The step a tick is at fits the kind of its turn.
THEOREM KindsStand == Spec => []KindInv
<1>1. Init => KindInv
  BY KindInit
<1>2. RoomInv /\ KindInv /\ [Next]_vars => KindInv'
  BY KindNext
<1> QED BY <1>1, <1>2, RoomStands, PTL DEF Spec

\* A step that writes the proposal is done with its copy of it.
LEMMA WriterLeaves == ASSUME RoomInv, NEW b \in Bridges, Proposes(b)
    PROVE /\ tick'[b].at \notin Keeping
          /\ Keep(b) \/ Close(b) => tick'[b].at = "mark"
          /\ ~(Keep(b) \/ Close(b)) => tick'[b].at # "mark"
<1>0. tick \in [Bridges -> TickType] /\ tick[b] \in TickType
  BY TickIs DEF RoomInv, TicksOK
<1>a. ASSUME NEW step, Go(b, step) PROVE tick'[b].at = step
  BY <1>0, <1>a DEF Go, TickType
<1>1. /\ Keep(b) \/ Close(b) => tick'[b].at = "mark"
      /\ Supersede(b) => tick'[b].at = "propose"
      /\ Propose(b) => tick'[b].at = "cards"
  BY <1>a DEF Keep, Close, Supersede, Propose
<1>2. Drop(b) => tick'[b].at = "agents"
  BY <1>0 DEF Drop, TickType
<1>3. After(b) => tick'[b].at = "agents"
  <2>1. ASSUME After(b) PROVE tick'[b].at = "agents"
    <3>1. PICK T \in TickType : tick' = [tick EXCEPT ![b] = T] /\ T.at = "agents"
      BY <2>1, AfterIs
    <3> QED BY <1>0, <3>1
  <2> QED BY <2>1
<1>4. Sweep(b) => tick'[b].at \in {"ring", "idle"}
  <2>1. ASSUME Sweep(b) PROVE tick'[b].at \in {"ring", "idle"}
    <3>1. PICK T \in TickType : tick' = [tick EXCEPT ![b] = T] /\ T.at \in {"ring", "idle"}
      BY <2>1, SweepIs
    <3> QED BY <1>0, <3>1
  <2> QED BY <2>1
<1> QED BY <1>1, <1>2, <1>3, <1>4 DEF Proposes, Keeping

\* While the lock does not lapse, what a tick holds of the proposal is the proposal.
CopyInv == lapses = 0 => \A b \in Bridges : tick[b].at \in Keeping => tick[b].held = proposal

\* No tick holds a copy.
LEMMA CopyInit == ASSUME Init PROVE CopyInv
  BY RestIs DEF Init, CopyInv, Keeping

\* Under the lock the copy a tick holds is the proposal as it is.
LEMMA CopyNext == ASSUME RoomInv, LockInv, CopyInv, [Next]_vars PROVE CopyInv'
<1>0. SUFFICES ASSUME lapses' = 0, NEW c \in Bridges, tick'[c].at \in Keeping PROVE tick'[c].held = proposal'
  BY DEF CopyInv
<1>1. lapses = 0 /\ tick'[c].at \in Working
  BY <1>0, LapsesGrow DEF Working
<1>2. CASE tick'[c] = tick[c]
  <2>1. tick'[c].held = proposal
    BY <1>0, <1>1, <1>2 DEF CopyInv
  <2>2. ASSUME NEW b \in Bridges, Proposes(b) PROVE FALSE
    <3>1. b = c
      BY <1>1, <2>2, WriterIsAlone
    <3> QED BY <1>0, <2>2, <3>1, WriterLeaves
  <2> QED BY <2>1, <2>2, AskedMoves
<1>3. CASE tick'[c] # tick[c]
  <2>1. RoomTick(c) /\ Leads(c, tick'[c].at)
    BY <1>1, <1>3, WorkMoves
  <2> QED BY <1>0, <2>1, Copied
<1> QED BY <1>2, <1>3

\* Under the lock nobody writes the proposal between the read and the write of another tick.
THEOREM CopiesStand == Spec => []CopyInv
<1>1. Init => CopyInv
  BY CopyInit
<1>2. RoomInv /\ LockInv /\ CopyInv /\ [Next]_vars => CopyInv'
  BY CopyNext
<1> QED BY <1>1, <1>2, RoomStands, OneBridgeWorks, PTL DEF Spec

-----------------------------------------------------------------------------
(* What the owner called off is not confirmed afterwards.                  *)

\* A cancellation that is served leaves no earlier proposal, and one that was said while
\* the proposal stood was said before the time of the present, and of any tick.
CancelInv ==
    lapses = 0 /\ mode.readback =>
      /\ \A b \in Bridges : At(b, "mark") /\ Heard(b).kind = "cancel" => proposal.of \notin 1..(tick[b].e - 1)
      /\ proposal.of # 0 => \A c \in proposal.of..cursor : said[c].kind = "cancel" =>
            said[c].at < clock /\ \A b \in Bridges : tick[b].at \in Working => said[c].at < tick[b].now

\* Nothing has been called off.
LEMMA CancelInit == ASSUME Init PROVE CancelInv
  BY RestIs DEF Init, CancelInv, At

\* What a step that writes the proposal makes of it.
LEMMA ProposesTo == ASSUME RoomInv, LockInv, CopyInv, CursorInv, lapses = 0, NEW b \in Bridges, Proposes(b)
    PROVE /\ proposal'.of \in {0, proposal.of} \/ (Propose(b) /\ proposal'.of = cursor + 1)
          /\ Close(b) => proposal'.of = 0
          /\ UNCHANGED <<said, clock, cursor>>
<1>1. tick[b].held \in Proposal /\ LocalFor(tick[b]) /\ tick[b].t \in Tasks /\ tick[b].e \in Nat
  BY TickIs
<1>2. UNCHANGED <<said, clock, cursor>>
  BY DEF Proposes, Keep, Close, Drop, Supersede, Propose, After, Sweep, Room, words
<1>3. tick[b].at \in Keeping => tick[b].held = proposal /\ proposal.of # 0
  BY <1>1 DEF CopyInv, LocalFor
<1>4. CASE Keep(b)
  BY <1>2, <1>3, <1>4 DEF Keep, Kept, At, Keeping, Close
<1>5. CASE Close(b) \/ Supersede(b)
  <2>1. Closed(proposal.of, proposal.to, FALSE)
    BY <1>3, <1>5 DEF Close, Supersede, At, Keeping
  <2>2. Dropped
    BY <2>1 DEF Closed
  <2> QED BY <1>2, <2>2, DroppedIs
<1>6. CASE Drop(b)
  BY <1>2, <1>6, DroppedIs DEF Drop, Close
<1>7. CASE Propose(b)
  <2>1. proposal'.of = tick[b].e /\ tick[b].at = "propose"
    BY <1>7 DEF Propose, Kept, At
  <2>2. cursor = tick[b].e - 1
    BY <2>1 DEF CursorInv, Working
  <2> QED BY <1>1, <1>2, <1>7, <2>1, <2>2 DEF Close, At
<1>8. CASE After(b)
  <2>1. UNCHANGED proposal \/ Closed(tick[b].t[1], {tick[b].t[2]}, tick[b].retire)
    BY <1>8 DEF After
  <2>2. proposal'.of \in {0, proposal.of}
    BY <2>1, DroppedIs DEF Closed, Kept
  <2> QED BY <1>2, <1>8, <2>2 DEF After, Close, At
<1>9. CASE Sweep(b)
  <2>1. \/ UNCHANGED proposal
        \/ \E to : Closed(proposal.of, to, FALSE)
    BY <1>9 DEF Sweep
  <2>2. proposal'.of \in {0, proposal.of}
    BY <2>1, DroppedIs DEF Closed, Kept
  <2> QED BY <1>2, <1>9, <2>2 DEF Sweep, Close, At
<1> QED BY <1>4, <1>5, <1>6, <1>7, <1>8, <1>9 DEF Proposes

\* A turn before the time of the present, and of any tick.
Past(c) == said[c].at < clock /\ \A b \in Bridges : tick[b].at \in Working => said[c].at < tick[b].now

\* A turn that is past its time stays so.
LEMMA PastStays == ASSUME RoomInv, [Next]_vars, NEW c \in Turns, Past(c)
                   PROVE  said'[c].at < clock' /\ \A b \in Bridges : tick'[b].at \in Working
                                                  => said'[c].at < tick'[b].now
<1>0. said'[c] = said[c] /\ clock' >= clock /\ said[c].at \in Nat /\ clock \in Nat /\ clock' \in Nat
  <2>1. RoomInv'
    BY RoomNext
  <2>2. clock' \in 0..mode'.time /\ mode'.time \in Nat
    BY <2>1, LapsesGrow, ModeIs DEF RoomInv, WordsOK
  <2> QED BY <2>2, SaidGrows, WordsAre
<1>1. said[c].at < clock
  BY DEF Past
<1>2. said'[c].at < clock'
  BY <1>0, <1>1
<1>3. ASSUME NEW b \in Bridges, tick'[b].at \in Working PROVE said'[c].at < tick'[b].now
  <2>1. tick[b].at \in Working => said[c].at < tick[b].now
    BY DEF Past
  <2>2. tick'[b] = tick[b] \/ GoesOn(b, tick'[b])
    BY <1>3, WorkMoves, RoomTickGoesOn
  <2>3. tick'[b].now = clock \/ (tick'[b].now = tick[b].now /\ tick[b].at \in Working)
    BY <1>3, <2>2 DEF GoesOn
  <2> QED BY <1>0, <1>1, <2>1, <2>3
<1> QED BY <1>2, <1>3

\* When a cancellation is consumed, no proposal from before it is left.
LEMMA CancelMark ==
    ASSUME RoomInv, LockInv, CopyInv, CursorInv, KindInv, CancelInv, [Next]_vars, lapses = 0, mode.readback,
           NEW c \in Bridges, tick'[c].at = "mark", said'[tick'[c].e].kind = "cancel"
    PROVE  proposal'.of \notin 1..(tick'[c].e - 1)
<1>0. tick'[c].at \in Working
  BY DEF Working
<1>1. CASE tick'[c] = tick[c]
  <2>1. said[tick[c].e].kind = "cancel" /\ tick[c].at = "mark"
    BY <1>0, <1>1, HeardIs, SaidGrows
  <2>2. proposal.of \notin 1..(tick[c].e - 1)
    BY <2>1 DEF CancelInv, At, Heard
  <2>3. ASSUME NEW b \in Bridges, Proposes(b) PROVE FALSE
    <3>1. b = c
      BY <1>0, <2>3, WriterIsAlone
    <3>2. Keep(c) \/ Close(c)
      BY <2>3, <3>1, WriterLeaves
    <3> QED BY <2>1, <3>2 DEF Keep, Close, At
  <2> QED BY <1>1, <2>2, <2>3, AskedMoves
<1>2. CASE tick'[c] # tick[c]
  <2>1. /\ RoomTick(c) /\ Leads(c, "mark") /\ ~Look(c) /\ ~Mark(c) /\ tick'[c].e = tick[c].e
        /\ said[tick[c].e].kind = "cancel" /\ tick[c].at \in Working
    BY <1>0, <1>2, SameEvent
  <2>2. /\ ~(Launch(c) \/ End(c) \/ Sweep(c) \/ Supersede(c) \/ Propose(c) \/ Drop(c) \/ GoDirect(c)
           \/ AskDirect(c))
        /\ ~(After(c) \/ ClaimAsk(c) \/ Route(c) \/ OpenAsk(c))
    BY <2>1 DEF Leads, Working
  <2>3. ~(Revoke(c) \/ Spoken(c) \/ GoConfirms(c) \/ AskReadback(c))
    BY <2>1 DEF Revoke, Spoken, GoConfirms, AskReadback, Hears, Heard
  <2>4. ~(Keep(c) \/ Cards(c))
    BY <2>1, TickIs DEF Keep, Cards, At, LocalFor
  <2>5. ~Pick(c)
    BY <2>1 DEF Pick, At, KindInv, HeardFor, Serving
  <2>6. CASE Close(c)
    <3>1. proposal'.of = 0
      BY <2>6, ProposesTo DEF Proposes
    <3> QED BY <3>1
  <2>7. CASE Cancel(c)
    <3>1. ASSUME Copies(c, "close") PROVE FALSE
      BY <3>1 DEF Copies, RoomInv, TicksOK, TickType
    <3>2. proposal.of \notin 1..(tick[c].e - 1) /\ proposal' = proposal
      BY <2>7, <3>1 DEF Cancel, Copies
    <3> QED BY <2>1, <3>2
  <2> QED BY <2>1, <2>2, <2>3, <2>4, <2>5, <2>6, <2>7 DEF RoomTick
<1> QED BY <1>1, <1>2

\* The event a bridge consumes is in the past, if it is a cancellation of the proposal.
LEMMA MarkedIsPast ==
    ASSUME RoomInv, LockInv, CursorInv, CancelInv, lapses = 0, mode.readback, NEW b \in Bridges, Mark(b),
          proposal.of # 0,
           proposal.of <= tick[b].e, said[tick[b].e].kind = "cancel"
    PROVE  Past(tick[b].e)
<1>1. /\ tick[b].at \in Working /\ tick[b].e \in Turns /\ tick[b].e \in 1..MaxSaid /\ tick[b].now <= clock
      /\ tick[b].now \in Nat /\ clock \in Nat /\ said[tick[b].e].at \in Nat
  BY HeardIs, TickIs, WordsAre DEF Mark, At, Working
<1>2. proposal.of \in 0..MaxSaid /\ said[proposal.of].kind = "ask"
  BY DEF RoomInv, AskedOK, Proposal, PropOK
<1>3. ~At(b, "mark")
  <2>1. ASSUME At(b, "mark") PROVE FALSE
    <3>1. proposal.of \notin 1..(tick[b].e - 1)
      BY <2>1 DEF CancelInv, Heard
    <3>2. proposal.of = tick[b].e
      BY <1>1, <1>2, <3>1, TasksAre
    <3> QED BY <1>2, <3>2
  <2> QED BY <2>1
<1>4. said[tick[b].e].at < tick[b].now
  BY <1>3 DEF Mark, Stale, Heard
<1>5. said[tick[b].e].at < clock
  BY <1>1, <1>4
<1>6. ASSUME NEW d \in Bridges, tick[d].at \in Working PROVE d = b
  BY <1>1, <1>6, AloneAtWork DEF Alive, At, Working, Keeping, Serving, AtAgent
<1> QED BY <1>4, <1>5, <1>6 DEF Past

\* Every step of the system keeps what was called off from being proposed.
LEMMA CancelNext ==
    ASSUME RoomInv, LockInv, CopyInv, CursorInv, KindInv, CancelInv, [Next]_vars PROVE CancelInv'
<1>0. SUFFICES ASSUME lapses' = 0, mode'.readback
               PROVE  /\ \A b \in Bridges : tick'[b].at = "mark" /\ said'[tick'[b].e].kind = "cancel" =>
                            proposal'.of \notin 1..(tick'[b].e - 1)
                      /\ proposal'.of # 0 => \A c \in proposal'.of..cursor' : said'[c].kind = "cancel" =>
                            /\ said'[c].at < clock'
                            /\ \A b \in Bridges : tick'[b].at \in Working => said'[c].at < tick'[b].now
  BY DEF CancelInv, At, Heard
<1>1. lapses = 0 /\ mode.readback
  BY <1>0, LapsesGrow
<1>2. ASSUME NEW b \in Bridges, tick'[b].at = "mark", said'[tick'[b].e].kind = "cancel"
      PROVE  proposal'.of \notin 1..(tick'[b].e - 1)
  BY <1>1, <1>2, CancelMark
<1>3. ASSUME proposal'.of # 0, NEW c \in proposal'.of..cursor', said'[c].kind = "cancel"
      PROVE  c \in Turns /\ Past(c)
  <2>0. /\ proposal.of \in 0..MaxSaid /\ cursor \in Nat /\ Len(said) \in Nat /\ cursor <= Len(said)
        /\ Turns = 1..Len(said) /\ MaxSaid \in Nat
    BY WordsAre, TasksAre DEF RoomInv, AskedOK, Proposal
  <2>1. CASE proposal.of # 0 /\ c \in proposal.of..cursor
    <3>1. c \in Turns
      BY <2>0, <2>1
    <3>2. said[c].kind = "cancel"
      BY <1>3, <3>1, SaidGrows
    <3> QED BY <1>1, <2>1, <3>1, <3>2 DEF CancelInv, Past
  <2>2. CASE ~(proposal.of # 0 /\ c \in proposal.of..cursor)
    <3>1. ASSUME NEW b \in Bridges, Mark(b) PROVE c \in Turns /\ Past(c)
      <4>1. proposal' = proposal
        BY <3>1 DEF Mark, asked
      <4>2. tick[b].at \in Working /\ cursor' = tick[b].e
        BY <3>1 DEF Mark, At, Working
      <4>3. tick[b].e \in Turns /\ tick[b].e \in Nat /\ cursor = tick[b].e - 1
        BY <1>1, <4>2, HeardIs, TickIs DEF CursorInv
      <4>4. c = tick[b].e /\ proposal.of <= tick[b].e /\ proposal.of # 0
        BY <1>3, <2>0, <2>2, <4>1, <4>2, <4>3
      <4>5. said[tick[b].e].kind = "cancel"
        BY <1>3, <4>3, <4>4, SaidGrows
      <4> QED BY <1>1, <3>1, <4>3, <4>4, <4>5, MarkedIsPast
    <3>2. ASSUME NEW b \in Bridges, Proposes(b) PROVE FALSE
      <4>1. /\ proposal'.of \in {0, proposal.of} \/ proposal'.of = cursor + 1
            /\ cursor' = cursor
        BY <1>1, <3>2, ProposesTo
      <4> QED BY <1>3, <2>0, <2>2, <4>1
    <3>3. CASE cursor' = cursor /\ proposal' = proposal
      BY <1>3, <2>2, <3>3
    <3> QED BY <3>1, <3>2, <3>3, AskedMoves
  <2> QED BY <2>1, <2>2
<1>4. ASSUME proposal'.of # 0, NEW c \in proposal'.of..cursor', said'[c].kind = "cancel"
      PROVE  /\ said'[c].at < clock'
             /\ \A b \in Bridges : tick'[b].at \in Working => said'[c].at < tick'[b].now
  BY <1>3, <1>4, PastStays
<1> QED BY <1>2, <1>4

\* Under the lock a cancellation leaves no proposal from before it, and one that was said while
\* the proposal stood is out of its time (call_bridge.py, process).
THEOREM CancelsStand == Spec => []CancelInv
<1>1. Init => CancelInv
  BY CancelInit
<1>2. RoomInv /\ LockInv /\ CopyInv /\ CursorInv /\ KindInv /\ CancelInv /\ [Next]_vars => CancelInv'
  BY CancelNext
<1> QED BY <1>1, <1>2, RoomStands, OneBridgeWorks, CopiesStand, CursorStands, KindsStand, PTL DEF Spec

\* What the owner heard read back and then confirmed, and did not call off before.
Confirms(t, s, g) ==
    /\ t[1] < s /\ s < g /\ said[s].at = said[g].at
    /\ said[s].kind = "spoken" /\ said[s].of = t[1] /\ t[2] \in said[s].to
    /\ said[g].kind = "go" /\ (said[g].to = {} \/ t[2] \in said[g].to)
    /\ lapses = 0 => \A c \in t[1]..g : said[c].kind # "cancel"
Confirmed(t) == \E s, g \in Turns : Confirms(t, s, g)

\* What was confirmed stays confirmed: the turns stand.
LEMMA ConfirmedStays == ASSUME RoomInv, [Next]_vars, NEW t \in Tasks, Confirmed(t) PROVE Confirmed(t)'
<1>1. PICK s \in Turns, g \in Turns : Confirms(t, s, g)
  BY DEF Confirmed
<1>2. s \in Turns' /\ g \in Turns' /\ said'[s] = said[s] /\ said'[g] = said[g]
  BY SaidGrows
<1>3. lapses' = 0 => lapses = 0
  BY LapsesGrow
<1>4. ASSUME NEW c \in t[1]..g PROVE said'[c] = said[c]
  <2>1. c \in Turns
    BY TaskIs, WordsAre, TasksAre
  <2> QED BY <2>1, SaidGrows
<1>5. Confirms(t, s, g)'
  BY <1>1, <1>2, <1>3, <1>4 DEF Confirms
<1> QED BY <1>2, <1>5 DEF Confirmed

\* A go-ahead of the proposal confirms it for the agents it is for.
LEMMA GoAheadConfirms ==
    ASSUME RoomInv, CursorInv, CancelInv, NEW b \in Bridges, GoConfirms(b), proposal.of # 0,
           proposal.spoken \in 1..(tick[b].e - 1), said[proposal.spoken].at = Heard(b).at,
           NEW a \in GoAgents(proposal.to, Heard(b).to)
    PROVE  <<proposal.of, a>> \in Tasks /\ Confirmed(<<proposal.of, a>>)
<1>1. PICK of, s, e : of = proposal.of /\ s = proposal.spoken /\ e = tick[b].e
  OBVIOUS
<1>2. /\ tick[b].at = "event" /\ tick[b].at \in Working /\ ~Stale(b) /\ Heard(b).kind = "go" /\ mode.readback
  BY DEF GoConfirms, Hears, At, Working
<1>3. e \in Turns /\ Turns = 1..Len(said) /\ Len(said) \in Nat /\ e \in 1..MaxSaid /\ Heard(b) = said[e]
  BY <1>1, <1>2, HeardIs, WordsAre
<1>4. /\ of \in Turns /\ of \in 1..MaxSaid /\ proposal.to # {} /\ proposal.to \subseteq Agents
      /\ s \in Turns /\ of < s /\ said[s].kind = "spoken" /\ said[s].of = of
      /\ proposal.to \subseteq said[s].to
  BY <1>1, TasksAre DEF RoomInv, AskedOK, Proposal, PropOK
<1>5. a \in proposal.to /\ (said[e].to = {} \/ a \in said[e].to)
  BY <1>3, <1>4 DEF GoAgents
<1>6. s < e
  BY <1>1, <1>3, <1>4, TasksAre
<1>7. PICK t \in Tasks : t = <<of, a>> /\ t[1] = of /\ t[2] = a
  <2>1. a \in Agents
    BY <1>4, <1>5
  <2>2. <<of, a>> \in Tasks /\ <<of, a>>[1] = of /\ <<of, a>>[2] = a
    BY <1>4, <2>1, TaskMade
  <2> QED BY <2>2
<1>8. ASSUME lapses = 0, NEW c \in of..e PROVE said[c].kind # "cancel"
  <2>1. SUFFICES ASSUME said[c].kind = "cancel" PROVE FALSE
    OBVIOUS
  <2>2. c # e /\ c \in Turns /\ c \in Nat /\ e \in Nat /\ of \in Nat /\ of <= c
    BY <1>2, <1>3, <1>4, <2>1, TasksAre
  <2>3. cursor = e - 1
    BY <1>1, <1>2, <1>8 DEF CursorInv
  <2>4. c \in proposal.of..cursor
    BY <1>1, <2>2, <2>3
  <2>5. said[c].at < tick[b].now
    BY <1>2, <1>8, <2>1, <2>4 DEF CancelInv
  <2>6. said[of].at = said[s].at /\ said[of].at <= said[c].at
    BY <1>4, <2>2 DEF RoomInv, WordsOK, SaidOK
  <2>7. ~(said[e].at < tick[b].now) /\ said[e].at = said[s].at
    BY <1>1, <1>2, <1>3 DEF Stale
  <2>8. said[c].at \in Nat /\ said[of].at \in Nat /\ tick[b].now \in Nat
    BY <1>4, <2>2, WordsAre, TickIs
  <2> QED BY <2>5, <2>6, <2>7, <2>8
<1>9. Confirms(t, s, e)
  BY <1>1, <1>2, <1>3, <1>4, <1>5, <1>6, <1>7, <1>8 DEF Confirms
<1> QED BY <1>1, <1>3, <1>4, <1>7, <1>9 DEF Confirmed

\* What is at work with the read-back was confirmed.
ConfirmedFor(T) ==
    \A t \in Tasks : t[2] \in T.todo =>
        /\ T.at = "drop" /\ t[1] = T.held.of => Confirmed(t)
        /\ T.at \in Serving /\ t[1] = T.src => Confirmed(t)
ConsentInv == mode.readback =>
    /\ \A t \in Tasks : task[t] # NoRecord => Confirmed(t)
    /\ \A b \in Bridges : ConfirmedFor(tick[b])

\* Nothing is served.
LEMMA ConsentInit == ASSUME Init PROVE ConsentInv
<1>1. \A t \in Tasks : task[t] = NoRecord
  BY DEF Init, TaskInit
<1> QED BY <1>1, RestIs DEF Init, ConsentInv, ConfirmedFor, Serving, AtAgent

\* A task is claimed only for an ask the tick was confirmed for.
LEMMA ClaimIsConfirmed ==
    ASSUME RoomInv, ConsentInv, [Next]_vars, mode.readback, NEW t \in Tasks, task'[t] # NoRecord
                          PROVE  Confirmed(t)'
<1>1. CASE task[t] # NoRecord
  BY <1>1, ConfirmedStays DEF ConsentInv
<1>2. CASE task[t] = NoRecord
  <2>1. PICK b \in Bridges : ClaimAsk(b) /\ tick[b].t = t
    BY <1>2, ClaimsOnly
  <2>2. tick[b].at \in AtAgent /\ tick[b].at \in Serving
    BY <2>1 DEF ClaimAsk, At, AtAgent, Serving
  <2>3. t[1] = tick[b].src /\ t[2] \in tick[b].todo
    BY <2>1, <2>2, TickIs DEF LocalFor
  <2>4. Confirmed(t)
    BY <2>2, <2>3 DEF ConsentInv, ConfirmedFor
  <2> QED BY <2>4, ConfirmedStays
<1> QED BY <1>1, <1>2

\* The agents of one ask are gone through, and none is added.
ServesOn(b) == /\ tick[b].at \in Serving /\ tick'[b].src = tick[b].src /\ tick'[b].todo \subseteq tick[b].todo
               /\ ~After(b) => tick'[b].todo = tick[b].todo
               /\ After(b) => tick'[b].todo = tick[b].todo \ {tick[b].t[2]}
Starts(b) == \/ Drop(b) /\ tick'[b].src = tick[b].held.of /\ tick'[b].todo = tick[b].todo
             \/ GoDirect(b)
             \/ AskDirect(b) /\ tick'[b].src = tick[b].e /\ tick'[b].todo = Heard(b).to

\* A tick serves what it has been serving, or starts with a confirmed proposal or a direct ask.
LEMMA ServingFrom ==
    ASSUME RoomInv, NEW b \in Bridges, RoomTick(b), Leads(b, tick'[b].at), tick'[b].at \in Serving
                     PROVE  ServesOn(b) \/ Starts(b)
<1>0. tick \in [Bridges -> TickType] /\ tick[b] \in TickType
  BY TickIs DEF RoomInv, TicksOK
<1>1. \/ Drop(b) \/ GoDirect(b) \/ AskDirect(b)
      \/ Pick(b) \/ Route(b) \/ ClaimAsk(b) \/ OpenAsk(b) \/ After(b)
  BY DEF Leads, RoomTick, Working, Serving, AtAgent
<1>2. CASE Drop(b)
  <2>1. tick'[b].src = tick[b].held.of /\ tick'[b].todo = tick[b].todo
    BY <1>0, <1>2 DEF Drop, TickType
  <2> QED BY <1>2, <2>1 DEF Starts
<1>3. CASE AskDirect(b)
  <2>1. tick'[b].src = tick[b].e /\ tick'[b].todo = Heard(b).to
    BY <1>0, <1>3 DEF AskDirect, TickType
  <2> QED BY <1>3, <2>1 DEF Starts
<1>4. CASE Pick(b)
  <2>1. PICK T \in TickType : tick' = [tick EXCEPT ![b] = T] /\ ((T = Idle /\ ~Holds(b)) \/ PickTo(b, T))
    BY <1>4, PickIs
  <2>2. T = tick'[b] /\ T # Idle
    BY <1>0, <2>1, RestIs DEF Serving, AtAgent
  <2>3. T.src = tick[b].src /\ T.todo = tick[b].todo
    BY <2>1, <2>2 DEF PickTo, Serving, AtAgent
  <2> QED BY <1>4, <2>2, <2>3 DEF ServesOn, Pick, After, At, Serving
<1>5. CASE Route(b) \/ ClaimAsk(b) \/ OpenAsk(b)
  <2>1. tick'[b].src = tick[b].src /\ tick'[b].todo = tick[b].todo
    <3>1. ASSUME NEW step, Go(b, step) PROVE tick'[b].src = tick[b].src /\ tick'[b].todo = tick[b].todo
      BY <1>0, <3>1 DEF Go, TickType
    <3>2. Route(b) => tick'[b].src = tick[b].src /\ tick'[b].todo = tick[b].todo
      BY <1>0 DEF Route, TickType
    <3> QED BY <1>5, <3>1, <3>2 DEF ClaimAsk, OpenAsk
  <2> QED BY <1>5, <2>1 DEF ServesOn, Route, ClaimAsk, OpenAsk, After, At, Serving, AtAgent
<1>6. CASE After(b)
  <2>1. PICK T \in TickType : /\ tick' = [tick EXCEPT ![b] = T] /\ T.src = tick[b].src
                              /\ T.todo = tick[b].todo \ {tick[b].t[2]}
    BY <1>6, AfterIs
  <2>2. T = tick'[b]
    BY <1>0, <2>1
  <2> QED BY <1>6, <2>1, <2>2 DEF ServesOn, After, At, Serving, AtAgent
<1> QED BY <1>1, <1>2, <1>3, <1>4, <1>5, <1>6 DEF Starts

\* The go-ahead that confirms names the agents.
LEMMA ToDrop == ASSUME RoomInv, NEW b \in Bridges, GoConfirms(b), tick'[b].at = "drop"
    PROVE /\ proposal.of # 0 /\ proposal.spoken \in 1..(tick[b].e - 1)
             /\ said[proposal.spoken].at = Heard(b).at
          /\ tick'[b].held = proposal /\ tick'[b].todo = GoAgents(proposal.to, Heard(b).to)
<1>0. tick \in [Bridges -> TickType] /\ tick[b] \in TickType
  BY TickIs DEF RoomInv, TicksOK
<1>1. ~Go(b, "mark")
  BY <1>0 DEF Go, TickType
<1>2. ~Copies(b, "close")
  BY <1>0 DEF Copies, TickType
<1>3. /\ proposal.of # 0 /\ proposal.spoken \in 1..(tick[b].e - 1) /\ said[proposal.spoken].at = Heard(b).at
      /\ tick' = [tick EXCEPT ![b].at = "drop", ![b].held = proposal, ![b].todo = GoAgents(proposal.to, Heard(b).to)]
  BY <1>1, <1>2 DEF GoConfirms, Copies
<1>4. ASSUME NEW todo, tick' = [tick EXCEPT ![b].at = "drop", ![b].held = proposal, ![b].todo = todo]
      PROVE  tick'[b].held = proposal /\ tick'[b].todo = todo
  BY <1>0, <1>4 DEF TickType
<1> QED BY <1>3, <1>4

\* A go-ahead confirms what the proposal says was read back in time.
LEMMA ConsentDrop ==
    ASSUME RoomInv, CursorInv, CancelInv, ConsentInv, [Next]_vars, mode.readback, NEW c \in Bridges,
           tick'[c].at = "drop", NEW t \in Tasks, t[1] = tick'[c].held.of, t[2] \in tick'[c].todo
    PROVE  Confirmed(t)
<1>1. CASE tick'[c] = tick[c]
  BY <1>1 DEF ConsentInv, ConfirmedFor
<1>2. CASE tick'[c] # tick[c]
  <2>1. RoomTick(c) /\ Leads(c, "drop")
    BY <1>2, WorkMoves DEF Working, Keeping
  <2>2. GoConfirms(c)
    BY <2>1 DEF Leads, RoomTick, Working, Keeping, Serving, AtAgent
  <2>3. /\ proposal.of # 0 /\ proposal.spoken \in 1..(tick[c].e - 1) /\ said[proposal.spoken].at = Heard(c).at
        /\ t[1] = proposal.of /\ t[2] \in GoAgents(proposal.to, Heard(c).to)
    BY <2>2, ToDrop
  <2>4. Confirmed(<<proposal.of, t[2]>>)
    BY <2>2, <2>3, GoAheadConfirms
  <2>5. t = <<proposal.of, t[2]>>
    BY <2>3, TaskIs
  <2> QED BY <2>4, <2>5
<1> QED BY <1>1, <1>2

\* What is served with the read-back has been confirmed.
LEMMA ConsentServes ==
    ASSUME RoomInv, ConsentInv, [Next]_vars, mode.readback, NEW c \in Bridges,
           tick'[c].at \in Serving, NEW t \in Tasks, t[1] = tick'[c].src, t[2] \in tick'[c].todo
    PROVE  Confirmed(t)
<1>1. CASE tick'[c] = tick[c]
  BY <1>1 DEF ConsentInv, ConfirmedFor
<1>2. CASE tick'[c] # tick[c]
  <2>1. RoomTick(c) /\ Leads(c, tick'[c].at)
    BY <1>2, WorkMoves DEF Working
  <2>2. ServesOn(c) \/ Starts(c)
    BY <2>1, ServingFrom
  <2>3. ~GoDirect(c) /\ ~AskDirect(c)
    BY DEF GoDirect, AskDirect
  <2>4. \/ tick[c].at \in Serving /\ t[1] = tick[c].src /\ t[2] \in tick[c].todo
        \/ tick[c].at = "drop" /\ t[1] = tick[c].held.of /\ t[2] \in tick[c].todo
    BY <2>2, <2>3 DEF ServesOn, Starts, Drop, At
  <2> QED BY <2>4 DEF ConsentInv, ConfirmedFor
<1> QED BY <1>1, <1>2

\* Every step of the system keeps the consent behind every task.
LEMMA ConsentNext == ASSUME RoomInv, CursorInv, CancelInv, ConsentInv, [Next]_vars PROVE ConsentInv'
<1>0. SUFFICES ASSUME mode'.readback
               PROVE  /\ \A t \in Tasks : task'[t] # NoRecord => Confirmed(t)'
                      /\ \A c \in Bridges : ConfirmedFor(tick[c])'
  BY DEF ConsentInv
<1>1. mode.readback
  BY <1>0, LapsesGrow
<1>2. ASSUME NEW t \in Tasks, task'[t] # NoRecord PROVE Confirmed(t)'
  BY <1>1, <1>2, ClaimIsConfirmed
<1>3. ASSUME NEW c \in Bridges, NEW t \in Tasks, t[2] \in tick'[c].todo,
             \/ tick'[c].at = "drop" /\ t[1] = tick'[c].held.of
             \/ tick'[c].at \in Serving /\ t[1] = tick'[c].src
      PROVE  Confirmed(t)'
  <2>1. Confirmed(t)
    BY <1>1, <1>3, ConsentDrop, ConsentServes
  <2> QED BY <2>1, ConfirmedStays
<1> QED BY <1>2, <1>3 DEF ConfirmedFor

\* Behind every task, and behind every agent still to serve, are the words read back and the go-ahead.
THEOREM ConsentStands == Spec => []ConsentInv
<1>1. Init => ConsentInv
  BY ConsentInit
<1>2. RoomInv /\ CursorInv /\ CancelInv /\ ConsentInv /\ [Next]_vars => ConsentInv'
  BY ConsentNext
<1> QED BY <1>1, <1>2, RoomStands, CursorStands, CancelsStand, PTL DEF Spec

\* With the read-back an agent works only on what the owner heard and then confirmed, and under
\* the lock never on what he called off before (call_bridge.py, process).
THEOREM ClaimsAreConfirmed == Spec => []ClaimedAsConfirmed
<1>1. ConsentInv => ClaimedAsConfirmed
  BY DEF ConsentInv, Confirmed, Confirms, ClaimedAsConfirmed
<1> QED BY <1>1, ConsentStands, PTL

-----------------------------------------------------------------------------
(* A turn that is consumed has been served.                                *)

\* A task is not forgotten.
LEMMA ClaimedStays == ASSUME TaskInv, [TaskNext]_taskVars, NEW t \in Tasks, task[t] # NoRecord
                      PROVE  task'[t] # NoRecord
<1>0. NoRecord.state = "none" /\ Prepared.state = "PREPARED"
  BY DEF NoRecord, Prepared
<1>1. TaskTypeOK /\ task[t].state # "none"
  BY DEF TaskInv, TaskOK
<1>2. SUFFICES task'[t].state # "none"
  BY <1>0
<1>3. CASE UNCHANGED taskVars
  BY <1>1, <1>3 DEF taskVars
<1>4. ASSUME NEW u \in Tasks, NEW landed, Land(u, landed) PROVE task'[t].state # "none"
  BY <1>0, <1>1, <1>4 DEF Land, TaskTypeOK
<1>5. ASSUME NEW u \in Tasks, NEW rings \in BOOLEAN, Claim(u, rings) \/ ClaimUnknown(u, rings)
      PROVE  task'[t].state # "none"
  BY <1>4, <1>5 DEF Claim, ClaimUnknown
<1>6. ASSUME NEW u \in Tasks, Activate(u) PROVE task'[t].state # "none"
  BY <1>1, <1>6 DEF Activate, TaskTypeOK, RecordType
<1>7. ASSUME NEW u \in Tasks, \/ Abandon(u) \/ KeyExpires(u) \/ ClockPasses(u) \/ Dequeue(u)
      PROVE  task'[t].state # "none"
  BY <1>1, <1>7 DEF Abandon, KeyExpires, ClockPasses, Dequeue
<1>8. ASSUME NEW u \in Tasks, NEW state, state # "none", Terminate(u, state) PROVE task'[t].state # "none"
  <2>1. task' = [task EXCEPT ![u].state = state, ![u].rev = @ + 1]
    BY <1>8 DEF Terminate
  <2> QED BY <1>1, <1>8, <2>1 DEF TaskTypeOK, RecordType
<1>9. ASSUME NEW u \in Tasks, NEW rev, CancelEvent(u, rev) PROVE task'[t].state # "none"
  BY <1>8, <1>9 DEF CancelEvent
<1>10. ASSUME NEW u \in Tasks, NEW display \in Displays, Refresh(u, display) PROVE task'[t].state # "none"
  BY <1>1, <1>10 DEF Refresh, TaskTypeOK, RecordType
<1>11. ASSUME NEW u \in Tasks, NEW q, NEW op, NEW rev, NEW hash, Send(q, u, op, rev, hash)
       PROVE  task'[t].state # "none"
  BY <1>1, <1>11 DEF Send
<1>12. ASSUME NEW q \in Requests, Expire(q) \/ PutCard(q) \/ Complete(q) PROVE task'[t].state # "none"
  <2>1. request[q].task \in Tasks
    BY <1>1, <1>12 DEF TaskTypeOK, RequestType
  <2>2. CASE Expire(q)
    BY <1>8, <2>1, <2>2 DEF Expire
  <2>3. CASE PutCard(q)
    BY <1>1, <2>1, <2>3 DEF PutCard, TaskTypeOK, RecordType
  <2>4. CASE Complete(q)
    BY <1>1, <2>1, <2>4 DEF Complete, TaskTypeOK, RecordType
  <2> QED BY <1>12, <2>2, <2>3, <2>4
<1> QED BY <1>3, <1>5, <1>6, <1>7, <1>9, <1>10, <1>11, <1>12 DEF TaskNext

\* Only words that went to a card retire a proposal card, and a claim that is to be opened is there.
RetireFor(T) == /\ T.retire => T.at = "after" /\ T.t \in routed
                /\ T.at = "open" => task[T.t] # NoRecord
RetireInv == \A b \in Bridges : RetireFor(tick[b])

\* Only a route retires a proposal card for its words.
LEMMA RetireOnly ==
    ASSUME RoomInv, NEW b \in Bridges, Tick(b), tick'[b].retire, ~Route(b) PROVE tick[b].retire /\ ~After(b)
<1>0. tick \in [Bridges -> TickType] /\ tick[b] \in TickType /\ Idle.retire = FALSE /\ Off.retire = FALSE
  BY TickIs DEF RoomInv, TicksOK, Idle, Off
<1>1. ~After(b)
  <2>1. ASSUME After(b) PROVE FALSE
    <3>1. PICK T \in TickType : tick' = [tick EXCEPT ![b] = T] /\ T.retire = FALSE
      BY <2>1, AfterIs
    <3> QED BY <1>0, <3>1
  <2> QED BY <2>1
<1>z. SUFFICES tick[b].retire
  BY <1>1
<1>a. ASSUME NEW step, Go(b, step) PROVE tick[b].retire
  BY <1>0, <1>a DEF Go, TickType
<1>b. ASSUME NEW step, Copies(b, step) PROVE tick[b].retire
  BY <1>0, <1>b DEF Copies, TickType
<1>c. ASSUME NEW src, NEW todo, Serves(b, src, todo) PROVE tick[b].retire
  BY <1>0, <1>c DEF Serves, TickType
<1>d. ASSUME NEW e, NEW now, NEW upto, Onward(b, e, now, upto) PROVE FALSE
  BY <1>d, OnwardGoes
<1>2. CASE Launch(b) \/ End(b)
  BY <1>0, <1>2, <1>a DEF Launch, End
<1>3. CASE Look(b) \/ Mark(b)
  BY <1>3, <1>d DEF Look, Mark
<1>4. CASE Revoke(b) \/ Spoken(b) \/ Keep(b) \/ Cancel(b) \/ Close(b) \/ AskReadback(b)
  BY <1>4, <1>a, <1>b DEF Revoke, Spoken, Keep, Cancel, Close, AskReadback, Copies
<1>5. CASE Supersede(b) \/ Propose(b) \/ Cards(b) \/ ClaimAsk(b) \/ OpenAsk(b)
  BY <1>5, <1>a DEF Supersede, Propose, Cards, ClaimAsk, OpenAsk
<1>6. CASE GoDirect(b) \/ AskDirect(b)
  BY <1>6, <1>c DEF GoDirect, AskDirect, Serves
<1>7. CASE GoConfirms(b)
  <2>1. ASSUME NEW todo, tick' = [tick EXCEPT ![b].at = "drop", ![b].held = proposal, ![b].todo = todo]
        PROVE  tick[b].retire
    BY <1>0, <2>1 DEF TickType
  <2> QED BY <1>7, <1>a, <1>b, <2>1 DEF GoConfirms, Copies
<1>8. CASE Drop(b)
  BY <1>0, <1>8 DEF Drop, TickType
<1>9. CASE Pick(b)
  <2>1. CASE tick[b].todo = {}
    BY <1>9, <1>a, <2>1 DEF Pick
  <2>2. CASE tick[b].todo # {}
    <3>1. PICK T \in TickType : tick' = [tick EXCEPT ![b] = T] /\ ((T = Idle /\ ~Holds(b)) \/ PickTo(b, T))
      BY <1>9, PickIs
    <3>2. T.retire = FALSE \/ T.retire = tick[b].retire
      BY <1>0, <2>2, <3>1 DEF PickTo
    <3> QED BY <1>0, <3>1, <3>2
  <2> QED BY <2>1, <2>2
<1>10. CASE Sweep(b)
  <2>1. ASSUME NEW left, tick' = [tick EXCEPT ![b] = [Idle EXCEPT !.at = "ring", !.left = left]] PROVE FALSE
    BY <1>0, <2>1 DEF Idle
  <2> QED BY <1>0, <1>10, <2>1 DEF Sweep
<1>11. CASE Ring(b) \/ Rang(b) \/ Unqueue(b) \/ Rering(b) \/ Show(b) \/ ByCard(b) \/ Again(b)
               \/ Rerang(b) \/ NoWakeYet(b)
  BY <1>11, <1>a DEF Ring, Rang, Unqueue, Rering, Show, ByCard, Again, Rerang, NoWakeYet, Wakes
<1>12. CASE Reserve(b)
  <2>1. ASSUME NEW left, tick' = [tick EXCEPT ![b].at = "check", ![b].left = left] PROVE tick[b].retire
    BY <1>0, <2>1 DEF TickType
  <2>2. ASSUME NEW left, NEW t, tick' = [tick EXCEPT ![b].at = "rung", ![b].left = left, ![b].t = t]
        PROVE  tick[b].retire
    BY <1>0, <2>2 DEF TickType
  <2>3. CASE ~Holds(b)
    BY <1>0, <1>12, <2>3 DEF Reserve
  <2>4. CASE Holds(b) /\ Unrung(tick[b].left) = {}
    <3>1. tick' = [tick EXCEPT ![b].at = "check", ![b].left = OpenTasks]
      BY <1>12, <2>4 DEF Reserve
    <3> QED BY <2>1, <3>1
  <2>5. CASE Holds(b) /\ Unrung(tick[b].left) # {}
    <3>1. PICK t \in Unrung(tick[b].left) :
             tick' = [tick EXCEPT ![b].at = "rung", ![b].left = Unrung(tick[b].left) \ {t}, ![b].t = t]
      BY <1>12, <2>5 DEF Reserve
    <3> QED BY <2>2, <3>1
  <2> QED BY <2>3, <2>4, <2>5
<1>13. CASE Check(b)
  <2>1. ASSUME NEW left, NEW t, NEW to,
               tick' = [tick EXCEPT ![b].left = left, ![b].t = t, ![b].display = "unconfirmed", ![b].at = to]
        PROVE  tick[b].retire
    BY <1>0, <2>1 DEF TickType
  <2>2. CASE tick' = [tick EXCEPT ![b] = Idle]
    BY <1>0, <2>2
  <2>3. CASE tick' # [tick EXCEPT ![b] = Idle]
    <3>1. PICK t \in ToCheck(tick[b].left) :
             tick' = [tick EXCEPT ![b].left = ToCheck(tick[b].left) \ {t}, ![b].t = t, ![b].display = "unconfirmed",
                ![b].at = IF work[t] # NoCard THEN "reached"
                          ELSE IF wake[t].state = "unknown" THEN "show"
                          ELSE IF wake[t].state = "rung" THEN "again" ELSE "nowake"]
      BY <1>13, <2>3 DEF Check
    <3>2. PICK left, to : /\ left = ToCheck(tick[b].left) \ {t}
                          /\ to = IF work[t] # NoCard THEN "reached"
                                  ELSE IF wake[t].state = "unknown" THEN "show"
                                  ELSE IF wake[t].state = "rung" THEN "again" ELSE "nowake"
      OBVIOUS
    <3>3. tick' = [tick EXCEPT ![b].left = left, ![b].t = t, ![b].display = "unconfirmed", ![b].at = to]
      BY <3>1, <3>2
    <3> QED BY <2>1, <3>3
  <2> QED BY <2>2, <2>3
<1>14. CASE LookAtCard(b)
  <2>1. ASSUME NEW to, tick' = [tick EXCEPT ![b].at = to, ![b].display = "no_wake"] PROVE tick[b].retire
    BY <1>0, <2>1 DEF TickType
  <2> QED BY <1>14, <2>1 DEF LookAtCard
<1> QED BY <1>1, <1>2, <1>3, <1>4, <1>5, <1>6, <1>7, <1>8, <1>9, <1>10, <1>11, <1>12, <1>13, <1>14 DEF Tick

\* A tick leaves the end of a service by its own step.
LEMMA AfterOnly == ASSUME NEW b \in Bridges, Tick(b), tick[b].at = "after", tick'[b] # tick[b] PROVE After(b)
<1>1. CASE Launch(b) \/ End(b) \/ Look(b) \/ Mark(b) \/ Spoken(b) \/ Keep(b) \/ Cancel(b) \/ Close(b)
  BY <1>1 DEF Launch, End, Look, Mark, Spoken, Keep, Cancel, Close, Hears, At, Alive
<1>2. CASE \/ GoConfirms(b) \/ Drop(b) \/ GoDirect(b) \/ AskDirect(b) \/ AskReadback(b) \/ Supersede(b)
           \/ Propose(b) \/ Cards(b)
  BY <1>2 DEF GoConfirms, Drop, GoDirect, AskDirect, AskReadback, Supersede, Propose, Cards, Hears, At
<1>3. CASE Pick(b) \/ Route(b) \/ Sweep(b) \/ ClaimAsk(b) \/ OpenAsk(b) \/ Revoke(b)
  BY <1>3 DEF Pick, Route, Sweep, ClaimAsk, OpenAsk, Revoke, Hears, At
<1>4. CASE \/ Reserve(b) \/ Ring(b) \/ Rang(b) \/ Check(b) \/ ByCard(b) \/ Again(b)
           \/ Rering(b) \/ Rerang(b) \/ NoWakeYet(b) \/ LookAtCard(b) \/ Unqueue(b) \/ Show(b)
  BY <1>4 DEF Reserve, Ring, Rang, Check, ByCard, Again, Rering, Rerang, NoWakeYet, LookAtCard, Wakes,
     Unqueue, Show, At
<1> QED BY <1>1, <1>2, <1>3, <1>4 DEF Tick

\* A route is not forgotten.
LEMMA RoutedStays == ASSUME [Next]_vars PROVE routed \subseteq routed'
<1>1. ASSUME NEW b \in Bridges, Route(b) PROVE routed \subseteq routed'
  BY <1>1 DEF Route
<1> QED BY <1>1, RoutesOnly DEF living

\* A claim is not forgotten.
LEMMA ClaimStays == ASSUME RoomInv, [Next]_vars, NEW t \in Tasks, task[t] # NoRecord PROVE task'[t] # NoRecord
  BY BridgeDrives, ClaimedStays DEF RoomInv

\* After its claim a task is there.
LEMMA Claims == ASSUME RoomInv, NEW b \in Bridges, ClaimAsk(b)
                PROVE  task'[tick[b].t] # NoRecord /\ tick'[b].t = tick[b].t
<1>0. tick \in [Bridges -> TickType] /\ tick[b] \in TickType /\ tick[b].t \in Tasks
  BY TickIs DEF RoomInv, TicksOK
<1>1. ASSUME NEW landed, Land(tick[b].t, landed) PROVE task'[tick[b].t] # NoRecord
  BY <1>0, <1>1 DEF Land, Prepared, NoRecord, RoomInv, TaskInv, TaskTypeOK
<1>2. task'[tick[b].t] # NoRecord
  BY <1>1 DEF ClaimAsk, Claim, ClaimUnknown, taskVars
<1>3. ASSUME NEW step, Go(b, step) PROVE tick'[b].t = tick[b].t
  BY <1>0, <1>3 DEF Go, TickType
<1> QED BY <1>2, <1>3 DEF ClaimAsk

\* No tick is at the end of a service.
LEMMA RetireInit == ASSUME Init PROVE RetireInv
<1>1. Off.retire = FALSE /\ Off.at = "off"
  BY DEF Off, Idle
<1> QED BY <1>1 DEF Init, RetireInv, RetireFor

\* A card is retired for words that went to a living card.
LEMMA RetireNext == ASSUME RoomInv, RetireInv, [Next]_vars PROVE RetireInv'
<1>0. SUFFICES ASSUME NEW c \in Bridges PROVE RetireFor(tick[c])'
  BY DEF RetireInv
<1>1. RetireFor(tick[c]) /\ tick[c].t \in Tasks /\ Idle.retire = FALSE /\ Off.retire = FALSE
      /\ tick \in [Bridges -> TickType] /\ tick[c] \in TickType
  BY TickIs DEF RetireInv, RoomInv, TicksOK, Idle, Off
<1>2. ASSUME tick'[c].retire PROVE tick'[c].at = "after" /\ tick'[c].t \in routed'
  <2>1. CASE tick'[c] = tick[c]
    BY <1>1, <1>2, <2>1, RoutedStays DEF RetireFor
  <2>2. CASE tick'[c] # tick[c]
    <3>1. Tick(c)
      BY <1>1, <1>2, <2>2, TicksMove
    <3>2. CASE ~Route(c)
      <4>1. tick[c].retire /\ ~After(c)
        BY <1>2, <3>1, <3>2, RetireOnly
      <4>2. tick[c].at = "after"
        BY <1>1, <4>1 DEF RetireFor
      <4> QED BY <2>2, <3>1, <4>1, <4>2, AfterOnly
    <3>3. CASE Route(c)
      <4>1. tick'[c].at = "after" /\ tick'[c].t = tick[c].t
        BY <1>1, <3>3 DEF Route, TickType
      <4> QED BY <3>3, <4>1 DEF Route
    <3> QED BY <3>2, <3>3
  <2> QED BY <2>1, <2>2
<1>3. ASSUME tick'[c].at = "open" PROVE task'[tick'[c].t] # NoRecord
  <2>1. CASE tick'[c] = tick[c]
    <3>1. task[tick[c].t] # NoRecord
      BY <1>1, <1>3, <2>1 DEF RetireFor
    <3> QED BY <1>1, <2>1, <3>1, ClaimStays
  <2>2. CASE tick'[c] # tick[c]
    <3>1. RoomTick(c) /\ Leads(c, "open")
      BY <1>3, <2>2, WorkMoves DEF Working, Serving, AtAgent
    <3>2. ClaimAsk(c)
      BY <3>1 DEF Leads, RoomTick, Working, Serving, AtAgent
    <3> QED BY <3>2, Claims
  <2> QED BY <2>1, <2>2
<1> QED BY <1>2, <1>3 DEF RetireFor

\* A tick that retires a card has routed its words, and one at its second transaction has claimed.
THEOREM RetiresStand == Spec => []RetireInv
<1>1. Init => RetireInv
  BY RetireInit
<1>2. RoomInv /\ RetireInv /\ [Next]_vars => RetireInv'
  BY RetireNext
<1> QED BY <1>1, <1>2, RoomStands, PTL DEF Spec

\* What became of the words t asks for.
Served(t) == task[t] # NoRecord \/ t \in routed \/ offer[t] # "none"

\* A proposal card goes only when the words have a card, and is put up by Cards.
LEMMA OffersMove == ASSUME RoomInv, RetireInv, NEW b \in Bridges, OffersTo(b), NEW t \in Tasks
    PROVE /\ offer[t] # "none" /\ offer'[t] = "none" => task[t] # NoRecord \/ t \in routed
          /\ \/ offer'[t] \notin {"proposed", "unstarted"}
             \/ offer[t] \in {"proposed", "unstarted"}
             \/ Cards(b) /\ t \in {tick[b].e} \X Heard(b).to
<1>0. offer \in [Tasks -> Offers] /\ tick[b].t \in Tasks /\ LocalFor(tick[b]) /\ RetireFor(tick[b])
  BY TickIs DEF RoomInv, AskedOK, RetireInv
<1>a. ASSUME NEW of, NEW to, NEW retire, Closed(of, to, retire), retire
             => (t[1] = of /\ t[2] \in to => t \in routed)
      PROVE  /\ offer[t] # "none" /\ offer'[t] = "none" => task[t] # NoRecord \/ t \in routed
             /\ offer'[t] \notin {"proposed", "unstarted"} \/ offer[t] \in {"proposed", "unstarted"}
  BY <1>0, <1>a DEF Closed
<1>1. CASE Close(b) \/ Supersede(b)
  BY <1>1, <1>a DEF Close, Supersede
<1>2. CASE Drop(b)
  BY <1>0, <1>2 DEF Drop
<1>3. CASE AskReadback(b)
  BY <1>0, <1>3 DEF AskReadback
<1>4. CASE Cards(b)
  BY <1>0, <1>4 DEF Cards
<1>5. CASE After(b)
  <2>1. CASE tick[b].go
    <3>1. PICK of, to, retire : of = tick[b].t[1] /\ to = {tick[b].t[2]} /\ retire = tick[b].retire
      OBVIOUS
    <3>2. Closed(of, to, retire)
      BY <1>5, <2>1, <3>1 DEF After
    <3>3. retire /\ t[1] = of /\ t[2] \in to => t \in routed
      <4>1. t[1] = of /\ t[2] \in to => t = tick[b].t
        BY <1>0, <3>1, TaskIs
      <4> QED BY <1>0, <3>1, <4>1 DEF RetireFor
    <3> QED BY <1>a, <3>2, <3>3
  <2>2. CASE ~tick[b].go
    BY <1>5, <2>2 DEF After
  <2> QED BY <2>1, <2>2
<1>6. CASE Sweep(b)
  BY <1>0, <1>6, <1>a DEF Sweep
<1> QED BY <1>1, <1>2, <1>3, <1>4, <1>5, <1>6 DEF OffersTo

\* An ask that was served stays so: a proposal card goes only with a claim or a route.
LEMMA ServedStays == ASSUME RoomInv, RetireInv, [Next]_vars, NEW t \in Tasks, Served(t) PROVE Served(t)'
<1>1. task[t] # NoRecord => task'[t] # NoRecord
  BY ClaimStays
<1>2. t \in routed => t \in routed'
  BY RoutedStays
<1>3. offer[t] # "none" => offer'[t] # "none" \/ task[t] # NoRecord \/ t \in routed
  BY OffersMove, AskedMoves
<1> QED BY <1>1, <1>2, <1>3 DEF Served

\* What a tick leaves behind at an agent has been served.
AfterInv == \A b \in Bridges : tick[b].at = "after" => Served(tick[b].t)

\* A tick that comes to the end of a service has served its task.
LEMMA AfterNext == ASSUME RoomInv, RetireInv, AfterInv, [Next]_vars PROVE AfterInv'
<1>0. SUFFICES ASSUME NEW c \in Bridges, tick'[c].at = "after" PROVE Served(tick[c].t)'
  BY DEF AfterInv
<1>1. /\ tick \in [Bridges -> TickType] /\ tick[c] \in TickType /\ tick[c].t \in Tasks
      /\ RetireFor(tick[c]) /\ (tick[c].at = "after" => Served(tick[c].t))
  BY TickIs DEF RoomInv, TicksOK, RetireInv, AfterInv
<1>2. CASE tick'[c] = tick[c]
  <2>1. Served(tick[c].t)
    BY <1>0, <1>1, <1>2
  <2>2. PICK t \in Tasks : t = tick[c].t
    BY <1>1
  <2>3. Served(t)'
    BY <2>1, <2>2, ServedStays
  <2> QED BY <1>2, <2>2, <2>3 DEF Served
<1>3. CASE tick'[c] # tick[c]
  <2>1. RoomTick(c) /\ Leads(c, "after")
    BY <1>0, <1>3, WorkMoves DEF Working, Serving, AtAgent
  <2>2. Pick(c) \/ Route(c) \/ ClaimAsk(c) \/ OpenAsk(c)
    BY <2>1 DEF Leads, RoomTick, Working, Serving, AtAgent
  <2>3. CASE Pick(c)
    <3>1. PICK T \in TickType : tick' = [tick EXCEPT ![c] = T] /\ ((T = Idle /\ ~Holds(c)) \/ PickTo(c, T))
      BY <2>3, PickIs
    <3>2. tick'[c].t \in routed
      BY <1>0, <1>1, <3>1, RestIs DEF PickTo
    <3> QED BY <3>2, RoutedStays DEF Served
  <2>4. CASE Route(c)
    <3>1. tick'[c].t = tick[c].t
      BY <1>1, <2>4 DEF Route, TickType
    <3> QED BY <2>4, <3>1 DEF Route, Served
  <2>5. CASE ClaimAsk(c)
    BY <2>5, Claims DEF Served
  <2>6. CASE OpenAsk(c)
    <3>1. task[tick[c].t] # NoRecord
      BY <1>1, <2>6 DEF OpenAsk, At, RetireFor
    <3>2. task'[tick[c].t] # NoRecord
      BY <1>1, <3>1, ClaimStays
    <3>3. tick'[c].t = tick[c].t
      BY <1>1, <2>6 DEF OpenAsk, Go, TickType
    <3> QED BY <3>2, <3>3 DEF Served
  <2> QED BY <2>2, <2>3, <2>4, <2>5, <2>6
<1> QED BY <1>2, <1>3

\* No tick is at the end of a service.
LEMMA AfterInit == ASSUME Init PROVE AfterInv
  BY RestIs DEF Init, AfterInv

\* At the end of a service the task is claimed or its words are routed.
THEOREM AftersStand == Spec => []AfterInv
<1>1. Init => AfterInv
  BY AfterInit
<1>2. RoomInv /\ RetireInv /\ AfterInv /\ [Next]_vars => AfterInv'
  BY AfterNext
<1> QED BY <1>1, <1>2, RoomStands, RetiresStand, PTL DEF Spec

\* The cursor does not go back, while the lock does not lapse.
LEMMA CursorGrows ==
    ASSUME RoomInv, CursorInv, [Next]_vars, lapses = 0 PROVE cursor' >= cursor /\ cursor' \in Nat
<1>1. cursor \in Nat
  BY WordsAre
<1>2. ASSUME NEW b \in Bridges, Mark(b) PROVE cursor' >= cursor /\ cursor' \in Nat
  <2>1. cursor' = tick[b].e /\ tick[b].at \in Working /\ tick[b].e \in Nat
    BY <1>2, TickIs DEF Mark, At, Working
  <2>2. cursor = tick[b].e - 1
    BY <2>1 DEF CursorInv
  <2> QED BY <1>1, <2>1, <2>2
<1> QED BY <1>1, <1>2, AskedMoves

\* While the lock does not lapse, what is proposed, confirmed and claimed is of turns
\* that were read.
ReadFor(T) == /\ T.at = "drop" => T.held.of <= cursor
              /\ T.at \in Serving /\ T.todo # {} => T.src <= cursor
ReadInv == lapses = 0 /\ mode.readback =>
    /\ proposal.of <= cursor + 1
    /\ \A b \in Bridges : ReadFor(tick[b])
    /\ \A t \in Tasks : task[t] # NoRecord => t[1] <= cursor

\* No tick is at work.
LEMMA ReadInit == ASSUME Init PROVE ReadInv
<1>1. proposal.of = 0 /\ cursor = 0
  BY RestIs DEF Init
<1>2. \A t \in Tasks : task[t] = NoRecord
  BY DEF Init, TaskInit
<1>3. \A b \in Bridges : tick[b].at = "off"
  BY RestIs DEF Init
<1> QED BY <1>1, <1>2, <1>3 DEF ReadInv, ReadFor, Serving, AtAgent

\* Under the lock what a tick confirms and serves is of turns that were read.
LEMMA ReadTick ==
    ASSUME RoomInv, CursorInv, ReadInv, [Next]_vars, lapses = 0, mode.readback, NEW c \in Bridges
    PROVE  ReadFor(tick[c])'
<1>0. cursor \in Nat /\ cursor' \in Nat /\ cursor' >= cursor
  BY WordsAre, CursorGrows
<1>1. ReadFor(tick[c]) /\ tick[c].src \in Nat /\ tick[c].held.of \in Nat
  BY TickIs, TasksAre DEF ReadInv, Proposal
<1>2. ASSUME tick'[c].at = "drop" PROVE tick'[c].held.of <= cursor'
  <2>1. CASE tick'[c] = tick[c]
    <3>1. tick[c].held.of <= cursor
      BY <1>1, <1>2, <2>1 DEF ReadFor
    <3> QED BY <1>0, <1>1, <2>1, <3>1
  <2>2. CASE tick'[c] # tick[c]
    <3>1. RoomTick(c) /\ Leads(c, "drop")
      BY <1>2, <2>2, WorkMoves DEF Working, Keeping
    <3>2. GoConfirms(c)
      BY <3>1 DEF Leads, RoomTick, Working, Keeping, Serving, AtAgent
    <3>3. /\ proposal.of # 0 /\ proposal.spoken \in 1..(tick[c].e - 1) /\ tick'[c].held = proposal
      BY <1>2, <3>2, ToDrop
    <3>4. tick[c].at \in Working /\ tick[c].e \in Nat
      BY <3>2, TickIs DEF GoConfirms, Hears, At, Working
    <3>5. cursor = tick[c].e - 1
      BY <3>4 DEF CursorInv
    <3>6. proposal.of < proposal.spoken /\ proposal.of \in Nat
      BY <3>3, TasksAre DEF RoomInv, AskedOK, PropOK, Proposal
    <3>7. proposal.of <= cursor
      BY <3>3, <3>4, <3>5, <3>6
    <3> QED BY <1>0, <3>3, <3>6, <3>7
  <2> QED BY <2>1, <2>2
<1>3. ASSUME tick'[c].at \in Serving, tick'[c].todo # {} PROVE tick'[c].src <= cursor'
  <2>1. CASE tick'[c] = tick[c]
    <3>1. tick[c].src <= cursor
      BY <1>1, <1>3, <2>1 DEF ReadFor
    <3> QED BY <1>0, <1>1, <2>1, <3>1
  <2>2. CASE tick'[c] # tick[c]
    <3>1. RoomTick(c) /\ Leads(c, tick'[c].at)
      BY <1>3, <2>2, WorkMoves DEF Working
    <3>2. (ServesOn(c) \/ Starts(c)) /\ ~GoDirect(c) /\ ~AskDirect(c)
      BY <1>3, <3>1, ServingFrom DEF GoDirect, AskDirect
    <3>3. \/ tick[c].at \in Serving /\ tick'[c].src = tick[c].src /\ tick[c].todo # {}
          \/ tick[c].at = "drop" /\ tick'[c].src = tick[c].held.of
      BY <1>3, <3>2 DEF ServesOn, Starts, Drop, At
    <3>4. tick'[c].src <= cursor /\ tick'[c].src \in Nat
      BY <1>1, <3>3 DEF ReadFor
    <3> QED BY <1>0, <3>4
  <2> QED BY <2>1, <2>2
<1> QED BY <1>2, <1>3 DEF ReadFor

\* Every step of the system keeps that.
LEMMA ReadNext == ASSUME RoomInv, LockInv, CopyInv, CursorInv, ReadInv, [Next]_vars PROVE ReadInv'
<1>0. SUFFICES ASSUME lapses' = 0, mode'.readback
               PROVE  /\ proposal'.of <= cursor' + 1
                      /\ \A b \in Bridges : ReadFor(tick[b])'
                      /\ \A t \in Tasks : task'[t] # NoRecord => t[1] <= cursor'
  BY DEF ReadInv
<1>1. lapses = 0 /\ mode.readback /\ cursor \in Nat
  BY <1>0, LapsesGrow, WordsAre
<1>2. cursor' \in Nat /\ cursor' >= cursor
  BY <1>1, CursorGrows
<1>3. proposal'.of <= cursor' + 1
  <2>1. proposal.of \in Nat /\ proposal.of <= cursor + 1
    BY <1>1, TasksAre DEF ReadInv, RoomInv, AskedOK, Proposal
  <2>2. proposal'.of \in {0, proposal.of} \/ proposal'.of = cursor + 1
    BY <1>1, ProposesTo, AskedMoves
  <2> QED BY <1>1, <1>2, <2>1, <2>2
<1>4. \A b \in Bridges : ReadFor(tick[b])'
  BY <1>1, ReadTick
<1>5. ASSUME NEW t \in Tasks, task'[t] # NoRecord PROVE t[1] <= cursor'
  <2>1. t[1] \in Nat
    BY TaskIs, TasksAre
  <2>2. t[1] <= cursor
    <3>1. CASE task[t] # NoRecord
      BY <1>1, <3>1 DEF ReadInv
    <3>2. CASE task[t] = NoRecord
      <4>1. PICK b \in Bridges : ClaimAsk(b) /\ tick[b].t = t
        BY <1>5, <3>2, ClaimsOnly
      <4>2. tick[b].at \in AtAgent /\ tick[b].at \in Serving
        BY <4>1 DEF ClaimAsk, At, AtAgent, Serving
      <4>3. t[1] = tick[b].src /\ tick[b].todo # {}
        BY <4>1, <4>2, TickIs DEF LocalFor
      <4> QED BY <1>1, <4>2, <4>3 DEF ReadInv, ReadFor
    <3> QED BY <3>1, <3>2
  <2> QED BY <1>1, <1>2, <2>1, <2>2
<1> QED BY <1>3, <1>4, <1>5

\* Under the lock what is proposed, confirmed and claimed is of turns that were read.
THEOREM ReadStands == Spec => []ReadInv
<1>1. Init => ReadInv
  BY ReadInit
<1>2. RoomInv /\ LockInv /\ CopyInv /\ CursorInv /\ ReadInv /\ [Next]_vars => ReadInv'
  BY ReadNext
<1> QED BY <1>1, <1>2, RoomStands, OneBridgeWorks, CopiesStand, CursorStands, PTL DEF Spec

\* Whom the turn e asked, in the time of the present, has been served.
AllServed(e) ==
    said[e].kind = "ask" /\ said[e].at = clock =>
        \A t \in Tasks : t[1] = e /\ t[2] \in said[e].to => Served(t)

\* A turn that was served stays so, and one that is out of time is no more asked for.
LEMMA AllServedStays ==
    ASSUME RoomInv, RetireInv, [Next]_vars, NEW e \in Turns, AllServed(e) PROVE AllServed(e)'
<1>1. said'[e] = said[e] /\ clock' >= clock /\ said[e].at <= clock /\ said[e].at \in Nat /\ clock \in Nat
  BY SaidGrows, WordsAre DEF RoomInv, WordsOK, SaidOK
<1>2. clock' \in Nat
  BY RoomNext, ModeIs, LapsesGrow DEF RoomInv, WordsOK
<1>3. said'[e].at = clock' => said[e].at = clock
  BY <1>1, <1>2
<1>4. \A t \in Tasks : Served(t) => Served(t)'
  BY ServedStays
<1> QED BY <1>1, <1>3, <1>4 DEF AllServed

\* A proposal puts up a card for every agent that was asked.
LEMMA CardsServe == ASSUME NEW b \in Bridges, Cards(b), NEW e, e = tick[b].e PROVE AllServed(e)'
<1>1. /\ offer' = [t \in Tasks |-> IF t \in {tick[b].e} \X Heard(b).to THEN "proposed" ELSE offer[t]]
      /\ said' = said
  BY DEF Cards, Room, words
<1>3. ASSUME NEW t \in Tasks, t[1] = e, t[2] \in said'[e].to PROVE Served(t)'
  <2>1. t \in {tick[b].e} \X Heard(b).to
    BY <1>1, <1>3, TaskIs DEF Heard
  <2>2. offer'[t] = "proposed"
    BY <1>1, <2>1
  <2> QED BY <2>2 DEF Served
<1> QED BY <1>3 DEF AllServed

\* A proposal card stands for a turn whose agents all have one.
OfferInv == \A t \in Tasks : offer[t] \in {"proposed", "unstarted"} => t[1] \in Turns /\ AllServed(t[1])

\* There are no proposal cards.
LEMMA OfferInit == ASSUME Init PROVE OfferInv
  BY DEF Init, OfferInv

\* Cards are put up for all agents of a turn in one step.
LEMMA OfferNext == ASSUME RoomInv, RetireInv, OfferInv, [Next]_vars PROVE OfferInv'
<1>0. SUFFICES ASSUME NEW t \in Tasks, offer'[t] \in {"proposed", "unstarted"}
               PROVE  t[1] \in Turns' /\ AllServed(t[1])'
  BY DEF OfferInv
<1>1. CASE offer[t] \in {"proposed", "unstarted"}
  <2>1. t[1] \in Turns /\ AllServed(t[1])
    BY <1>1 DEF OfferInv
  <2> QED BY <2>1, AllServedStays, SaidGrows
<1>2. CASE offer[t] \notin {"proposed", "unstarted"}
  <2>1. PICK b \in Bridges : OffersTo(b)
    BY <1>0, <1>2, AskedMoves
  <2>2. Cards(b) /\ t \in {tick[b].e} \X Heard(b).to
    BY <1>0, <1>2, <2>1, OffersMove
  <2>3. tick[b].e \in Turns /\ t[1] = tick[b].e
    BY <2>2, HeardIs DEF Cards, At, Working
  <2>4. AllServed(t[1])'
    BY <2>2, <2>3, CardsServe
  <2> QED BY <2>3, <2>4, SaidGrows
<1> QED BY <1>1, <1>2

\* A proposal card stands for a turn whose agents all have one, a claim or a route.
THEOREM OffersStand == Spec => []OfferInv
<1>1. Init => OfferInv
  BY OfferInit
<1>2. RoomInv /\ RetireInv /\ OfferInv /\ [Next]_vars => OfferInv'
  BY OfferNext
<1> QED BY <1>1, <1>2, RoomStands, RetiresStand, PTL DEF Spec

\* With the read-back an ask is consumed when its cards say what became of it.
LEMMA AskMarked ==
    ASSUME RoomInv, LockInv, CursorInv, ReadInv, RetireInv, OfferInv, [Next]_vars, lapses = 0,
           NEW b \in Bridges, AskReadback(b), tick'[b].at = "mark", NEW e \in Turns, e = tick[b].e
    PROVE  AllServed(e)'
<1>0. /\ tick \in [Bridges -> TickType] /\ tick[b] \in TickType /\ tick[b].at = "event" /\ mode.readback
      /\ tick[b].at \in Working /\ Heard(b) = said[e] /\ said' = said
      /\ proposal.of \in 0..MaxSaid /\ cursor \in Nat /\ MaxSaid \in Nat
  BY TickIs, TasksAre, WordsAre DEF RoomInv, TicksOK, AskReadback, Hears, At, Working, Room, words, Heard,
        AskedOK, Proposal
<1>1. cursor = e - 1 /\ e \in Nat
  BY <1>0, TickIs DEF CursorInv
<1>2. Holds(b)
  BY <1>0 DEF LockInv, Alive, At
<1>a. ASSUME NEW step, Go(b, step) PROVE step = "mark"
  BY <1>0, <1>a DEF Go, TickType
<1>b. ASSUME Copies(b, "supersede") PROVE FALSE
  BY <1>0, <1>b DEF Copies, TickType
<1>3. CASE {e} \X Heard(b).to = {}
  <2>1. ASSUME NEW a \in said[e].to PROVE FALSE
    <3>1. <<e, a>> \in {e} \X said[e].to
      OBVIOUS
    <3> QED BY <1>0, <1>3, <3>1
  <2> QED BY <1>0, <2>1 DEF AllServed
<1>4. CASE \E t \in {e} \X Heard(b).to : Blocks(t)
  <2>1. PICK t \in {e} \X Heard(b).to : Blocks(t)
    BY <1>4
  <2>2. t[1] = e /\ t \in Tasks
    <3>1. e \in 1..MaxSaid /\ Heard(b).to \subseteq Agents
      BY <1>0, HeardIs
    <3> QED BY <3>1, TasksAre
  <2>3. CASE offer[t] \in {"proposed", "unstarted"}
    <3>1. AllServed(e)
      BY <2>2, <2>3 DEF OfferInv
    <3> QED BY <3>1, AllServedStays
  <2>4. CASE task[t] # NoRecord
    <3>1. e <= cursor
      BY <1>0, <2>2, <2>4 DEF ReadInv
    <3> QED BY <1>1, <3>1
  <2> QED BY <2>1, <2>3, <2>4 DEF Blocks
<1>5. CASE /\ {e} \X Heard(b).to # {} /\ ~\E t \in {e} \X Heard(b).to : Blocks(t)
  <2>1. proposal.of \notin {0, e}
    BY <1>2, <1>5, <1>a DEF AskReadback
  <2>2. ~(e < proposal.of)
    <3>1. proposal.of <= cursor + 1
      BY <1>0 DEF ReadInv
    <3> QED BY <1>0, <1>1, <3>1
  <2>3. offer' = [t \in Tasks |-> IF t \in {e} \X Heard(b).to THEN "waiting" ELSE offer[t]]
    BY <1>2, <1>5, <1>b, <2>1, <2>2 DEF AskReadback, Copies
  <2>4. ASSUME NEW t \in Tasks, t[1] = e, t[2] \in said'[e].to PROVE Served(t)'
    <3>1. t \in {e} \X Heard(b).to
      BY <1>0, <2>4, TaskIs
    <3>2. offer'[t] = "waiting"
      BY <2>3, <3>1
    <3> QED BY <3>2 DEF Served
  <2> QED BY <2>4 DEF AllServed
<1> QED BY <1>3, <1>4, <1>5

\* Every turn before the one at hand has been served, and of the ask at hand all
\* agents but those still to serve.
ServesFor(T) ==
    /\ T.at \in Working => \A e \in 1..(T.e - 1) : AllServed(e)
    /\ T.at = "mark" => AllServed(T.e)
    /\ T.at \in Serving /\ said[T.e].kind = "ask" =>
         /\ T.src = T.e
         /\ \A t \in Tasks : t[1] = T.e /\ t[2] \in said[T.e].to \ T.todo => Served(t)
Sure == mode.readback => lapses = 0
ServeInv == Sure => /\ \A e \in 1..cursor : AllServed(e)
                    /\ \A b \in Bridges : ServesFor(tick[b])

\* No turn has been consumed.
LEMMA ServeInit == ASSUME Init PROVE ServeInv
<1>1. \A b \in Bridges : tick[b].at = "off"
  BY RestIs DEF Init
<1>2. \A e \in 1..cursor : FALSE
  BY DEF Init
<1> QED BY <1>1, <1>2 DEF ServeInv, ServesFor, Working, Keeping, Serving, AtAgent

\* An event is consumed when all of its turn and of those before it has been served.
LEMMA MarkServes == ASSUME RoomInv, ServeInv, Sure, NEW b \in Bridges, Mark(b), NEW e \in 1..tick[b].e
                    PROVE  e \in Turns /\ AllServed(e)
<1>1. tick[b].at \in Working /\ ServesFor(tick[b])
  BY DEF Mark, At, Working, ServeInv
<1>2. /\ tick[b].e \in Nat /\ tick[b].e \in Turns /\ Turns = 1..Len(said) /\ Len(said) \in Nat
      /\ tick[b].now <= clock /\ tick[b].now \in Nat /\ clock \in Nat /\ Heard(b) = said[tick[b].e]
      /\ said[tick[b].e].at \in Nat
  BY <1>1, HeardIs, TickIs, WordsAre
<1>3. e \in Turns
  BY <1>2
<1>4. CASE e = tick[b].e
  <2>1. CASE At(b, "mark")
    BY <1>1, <1>3, <1>4, <2>1 DEF ServesFor, At
  <2>2. CASE Stale(b)
    <3>1. said[e].at # clock
      BY <1>2, <1>4, <2>2 DEF Stale
    <3> QED BY <1>3, <3>1 DEF AllServed
  <2> QED BY <1>3, <1>4, <2>1, <2>2 DEF Mark
<1>5. CASE e # tick[b].e
  <2>1. e \in 1..(tick[b].e - 1)
    BY <1>2, <1>5
  <2> QED BY <1>1, <1>3, <2>1 DEF ServesFor
<1> QED BY <1>4, <1>5, <1>3

\* The turns before the one at hand have been served.
LEMMA BeforeServed ==
    ASSUME RoomInv, RetireInv, ServeInv, Sure, [Next]_vars, NEW c \in Bridges, tick'[c].at \in Working,
           NEW e \in 1..(tick'[c].e - 1)
    PROVE  AllServed(e)'
<1>0. Len(said) \in Nat /\ Turns = 1..Len(said) /\ cursor \in Nat /\ cursor <= Len(said) /\ tick[c].e \in Nat
  BY WordsAre, TickIs
<1>1. PICK T : T = tick'[c]
  OBVIOUS
<1>2. T = tick[c] \/ GoesOn(c, T)
  BY <1>1, WorkGoesOn
<1>3. e \in Turns /\ AllServed(e)
  <2>1. CASE Look(c) /\ T.e = cursor + 1
    <3>1. e \in 1..cursor
      BY <1>0, <1>1, <2>1
    <3> QED BY <1>0, <3>1 DEF ServeInv
  <2>2. CASE Mark(c) /\ T.e = tick[c].e + 1
    <3>1. e \in 1..tick[c].e
      BY <1>0, <1>1, <2>2
    <3> QED BY <2>2, <3>1, MarkServes
  <2>3. CASE T.e = tick[c].e /\ tick[c].at \in Working
    <3>1. e \in 1..(tick[c].e - 1) /\ tick[c].e \in Turns
      BY <1>1, <2>3, HeardIs
    <3>2. AllServed(e)
      BY <2>3, <3>1 DEF ServeInv, ServesFor
    <3> QED BY <1>0, <3>1, <3>2
  <2> QED BY <1>1, <1>2, <2>1, <2>2, <2>3 DEF GoesOn
<1> QED BY <1>3, AllServedStays

\* A tick comes to consume an event once its turn has been served.
LEMMA MarkedServed ==
    ASSUME RoomInv, LockInv, CursorInv, KindInv, ReadInv, RetireInv, OfferInv, ServeInv, Sure, [Next]_vars,
           NEW c \in Bridges, tick'[c].at = "mark", NEW e, e = tick'[c].e
    PROVE  AllServed(e)'
<1>0. tick'[c].at \in Working
  BY DEF Working
<1>1. CASE tick'[c] = tick[c]
  <2>1. AllServed(e) /\ e \in Turns
    BY <1>0, <1>1, HeardIs DEF ServeInv, ServesFor
  <2> QED BY <2>1, AllServedStays
<1>2. CASE tick'[c] # tick[c]
  <2>1. /\ RoomTick(c) /\ Leads(c, "mark") /\ ~Look(c) /\ ~Mark(c) /\ tick[c].e = e
        /\ e \in Turns /\ said'[e] = said[e] /\ tick[c].at \in Working /\ Heard(c) = said[e]
    BY <1>0, <1>2, SameEvent, HeardIs
  <2>2. /\ ~(Launch(c) \/ End(c) \/ Sweep(c) \/ Supersede(c) \/ Propose(c) \/ Drop(c) \/ GoDirect(c)
           \/ AskDirect(c))
        /\ ~(After(c) \/ ClaimAsk(c) \/ Route(c) \/ OpenAsk(c))
    BY <2>1 DEF Leads, Working
  <2>3. CASE Revoke(c) \/ Spoken(c) \/ Cancel(c) \/ GoConfirms(c)
    <3>1. said[e].kind # "ask"
      BY <2>1, <2>3 DEF Revoke, Spoken, Cancel, GoConfirms, Hears
    <3> QED BY <2>1, <3>1 DEF AllServed
  <2>4. CASE Keep(c)
    <3>1. said[e].kind # "ask"
      BY <2>1, <2>4, TickIs DEF Keep, At, LocalFor
    <3> QED BY <2>1, <3>1 DEF AllServed
  <2>5. CASE Close(c)
    <3>1. said[e].kind # "ask"
      BY <2>1, <2>5 DEF Close, At, KindInv, HeardFor
    <3> QED BY <2>1, <3>1 DEF AllServed
  <2>6. CASE Cards(c)
    BY <2>1, <2>6, CardsServe
  <2>7. CASE AskReadback(c)
    <3>1. lapses = 0
      BY <2>7 DEF AskReadback, Sure
    <3> QED BY <2>1, <2>7, <3>1, AskMarked
  <2>8. CASE Pick(c)
    <3>1. PICK T \in TickType : tick' = [tick EXCEPT ![c] = T] /\ ((T = Idle /\ ~Holds(c)) \/ PickTo(c, T))
      BY <2>8, PickIs
    <3>2. T.at = "mark"
      BY <3>1 DEF RoomInv, TicksOK
    <3>3. tick[c].todo = {} /\ tick[c].at \in Serving
      BY <2>8, <3>1, <3>2, RestIs DEF PickTo, Pick, At, Serving
    <3>4. AllServed(e)
      BY <2>1, <3>3 DEF ServeInv, ServesFor, AllServed
    <3> QED BY <2>1, <3>4, AllServedStays
  <2> QED BY <2>1, <2>2, <2>3, <2>4, <2>5, <2>6, <2>7, <2>8 DEF RoomTick
<1> QED BY <1>1, <1>2

\* An ask that goes through its agents leaves each of them served.
LEMMA AgentsServed ==
    ASSUME RoomInv, KindInv, RetireInv, AfterInv, ServeInv, Sure, [Next]_vars,
           NEW c \in Bridges, tick'[c].at \in Serving, NEW e, e = tick'[c].e, said'[e].kind = "ask"
    PROVE  /\ tick'[c].src = e
           /\ \A t \in Tasks : t[1] = e /\ t[2] \in said'[e].to \ tick'[c].todo => Served(t)'
<1>0. tick'[c].at \in Working /\ tick'[c].at # "event"
  BY DEF Working, Serving, AtAgent
<1>1. SUFFICES tick'[c].src = e /\ \A t \in Tasks : t[1] = e /\ t[2] \in said'[e].to \ tick'[c].todo
                                   => Served(t)
  BY ServedStays
<1>2. CASE tick'[c] = tick[c]
  <2>1. e \in Turns /\ said'[e] = said[e]
    BY <1>0, <1>2, HeardIs, SaidGrows
  <2> QED BY <1>2, <2>1 DEF ServeInv, ServesFor
<1>3. CASE tick'[c] # tick[c]
  <2>1. /\ RoomTick(c) /\ Leads(c, tick'[c].at) /\ tick[c].e = e
        /\ e \in Turns /\ said'[e] = said[e] /\ tick[c].at \in Working /\ Heard(c) = said[e]
    BY <1>0, <1>3, SameEvent, HeardIs
  <2>2. ServesOn(c) \/ Starts(c)
    BY <2>1, ServingFrom
  <2>3. CASE Starts(c)
    <3>1. ~Drop(c) /\ ~GoDirect(c)
      BY <1>3, <2>1 DEF Drop, GoDirect, Hears, At, KindInv, HeardFor
    <3> QED BY <2>1, <2>3, <3>1 DEF Starts
  <2>4. CASE ServesOn(c)
    <3>1. /\ tick[c].src = e
          /\ \A t \in Tasks : t[1] = e /\ t[2] \in said[e].to \ tick[c].todo => Served(t)
      BY <2>1, <2>4 DEF ServesOn, ServeInv, ServesFor
    <3>2. ASSUME NEW t \in Tasks, t[1] = e, t[2] \in said[e].to \ tick'[c].todo PROVE Served(t)
      <4>1. CASE t[2] \notin tick[c].todo
        BY <3>1, <3>2, <4>1
      <4>2. CASE t[2] \in tick[c].todo
        <5>1. After(c) /\ t[2] = tick[c].t[2]
          BY <2>4, <3>2, <4>2 DEF ServesOn
        <5>2. tick[c].at = "after" /\ tick[c].at \in AtAgent
          BY <5>1 DEF After, At, AtAgent
        <5>3. tick[c].t[1] = e /\ tick[c].t \in Tasks
          BY <3>1, <5>2, TickIs DEF LocalFor
        <5>4. t = tick[c].t
          BY <3>2, <5>1, <5>3, TaskIs
        <5> QED BY <5>2, <5>4 DEF AfterInv
      <4> QED BY <4>1, <4>2
    <3> QED BY <2>1, <2>4, <3>1, <3>2 DEF ServesOn
  <2> QED BY <2>2, <2>3, <2>4
<1> QED BY <1>2, <1>3

\* Every step of the system keeps that.
LEMMA ServeNext ==
    ASSUME RoomInv, LockInv, CursorInv, KindInv, ReadInv, RetireInv, AfterInv, OfferInv, ServeInv, [Next]_vars
    PROVE  ServeInv'
<1>0. SUFFICES ASSUME Sure' PROVE /\ \A e \in 1..cursor' : AllServed(e)'
                                  /\ \A c \in Bridges : ServesFor(tick[c])'
  BY DEF ServeInv
<1>1. Sure
  BY <1>0, LapsesGrow DEF Sure
<1>2. ASSUME NEW e \in 1..cursor' PROVE AllServed(e)'
  <2>1. CASE cursor' = cursor
    <3>1. e \in Turns
      BY <2>1, WordsAre
    <3> QED BY <1>1, <2>1, <3>1, AllServedStays DEF ServeInv
  <2>2. ASSUME NEW b \in Bridges, Mark(b) PROVE AllServed(e)'
    <3>1. e \in 1..tick[b].e
      BY <2>2 DEF Mark
    <3> QED BY <1>1, <2>2, <3>1, MarkServes, AllServedStays
  <2> QED BY <2>1, <2>2, AskedMoves
<1>3. ASSUME NEW c \in Bridges PROVE ServesFor(tick[c])'
  <2>1. PICK at, e : at = tick'[c].at /\ e = tick'[c].e
    OBVIOUS
  <2>2. at \in Working => \A i \in 1..(e - 1) : AllServed(i)'
    BY <1>1, <2>1, BeforeServed
  <2>3. at = "mark" => AllServed(e)'
    BY <1>1, <2>1, MarkedServed
  <2>4. at \in Serving /\ said'[e].kind = "ask" =>
          /\ tick'[c].src = e
          /\ \A t \in Tasks : t[1] = e /\ t[2] \in said'[e].to \ tick'[c].todo => Served(t)'
    BY <1>1, <2>1, AgentsServed
  <2>5. at = "mark" => AllServed(tick[c].e)'
    BY <2>1, <2>3 DEF AllServed
  <2> QED BY <2>1, <2>2, <2>4, <2>5 DEF ServesFor
<1> QED BY <1>2, <1>3

\* Every turn that was consumed has been served.
THEOREM ServesStand == Spec => []ServeInv
<1>1. Init => ServeInv
  BY ServeInit
<1>2. RoomInv /\ LockInv /\ CursorInv /\ KindInv /\ ReadInv /\ RetireInv /\ AfterInv /\ OfferInv /\ ServeInv
        /\ [Next]_vars => ServeInv'
  BY ServeNext
<1> QED BY <1>1, <1>2, RoomStands, OneBridgeWorks, CursorStands, KindsStand, ReadStands, RetiresStand,
        AftersStand, OffersStand, PTL DEF Spec

\* No ask the bridge consumed is lost: each agent it named has a task, a change to its card, or a
\* proposal card (call_bridge.py, process).
THEOREM NothingIsPassedOver == Spec => []NoAskPassedOver
<1>1. RoomInv /\ ServeInv => NoAskPassedOver
  <2>1. SUFFICES ASSUME RoomInv, ServeInv, Sure, NEW e \in 1..cursor, said[e].kind = "ask",
                        said[e].at = clock,
                        NEW a \in said[e].to
                 PROVE  task[<<e, a>>] # NoRecord \/ <<e, a>> \in routed \/ offer[<<e, a>>] # "none"
    BY DEF NoAskPassedOver, Sure
  <2>2. e \in Turns /\ e \in 1..MaxSaid /\ said[e].to \subseteq Agents
    <3>1. cursor \in Nat /\ cursor <= Len(said) /\ Len(said) \in Nat /\ Turns = 1..Len(said)
      BY <2>1, WordsAre
    <3>2. e \in Turns
      BY <2>1, <3>1
    <3>3. e \in 1..MaxSaid
      <4>1. e \in Nat /\ e >= 1 /\ e <= Len(said) /\ Len(said) \in Nat
        BY <3>1, <3>2
      <4>2. Len(said) <= MaxSaid /\ MaxSaid \in Nat
        BY <2>1, WordsAre, TasksAre
      <4> QED BY <4>1, <4>2
    <3>4. said[e].to \subseteq Agents
      BY <2>1, <3>2, WordsAre
    <3> QED BY <3>2, <3>3, <3>4
  <2>3. PICK t \in Tasks : t = <<e, a>> /\ t[1] = e /\ t[2] = a
    <3>1. a \in Agents
      BY <2>2
    <3>2. <<e, a>> \in Tasks /\ <<e, a>>[1] = e /\ <<e, a>>[2] = a
      BY <2>2, <3>1, TaskMade
    <3> QED BY <3>2
  <2>4. Served(t)
    BY <2>1, <2>3 DEF ServeInv, AllServed
  <2> QED BY <2>3, <2>4 DEF Served
<1> QED BY <1>1, RoomStands, ServesStand, PTL
=============================================================================
