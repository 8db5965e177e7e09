----------------------------- MODULE DriveIntake -----------------------------
(***************************************************************************)
(* The Drive intake, cloud/drive-intake: the request of a doc becomes one  *)
(* task on one worker's inbox, and the doc says how far it is.  A pass     *)
(* comes from the scheduled poll or from a push of the folder's changes.   *)
(* It reads the doc, admits the request, claims it, and takes the claim    *)
(* forward one compare-and-set at a time: bound to a worker under a lease, *)
(* put on the inbox, rung, and dispatched when every line reads back.      *)
(*                                                                         *)
(* A claim carries the time of its last change, so a pass's copy of it is  *)
(* whether it has changed since (held); only a lease that was given up has *)
(* no time, and can come back (given).                                     *)
(* One step is one call to Drive, Redis or inbox-wake; reads that follow   *)
(* each other are one step.  A pass may die at any of them.                *)
(***************************************************************************)
EXTENDS DriveDoc

CONSTANTS Pushes,  \* passes that come from a push
          Rooms    \* deployments, requests and bounds the intake is run against

ASSUME PushesAssumption == Pushes \subseteq Passes

\* filter: the task filter is on; live: the task dials or spends, so it is rate
\* limited; up: the laptop is, at first; to, cli: whom the doc addresses, and whether it needs the laptop's
\* tools; api: an API worker is named; allowed: the workers this deploy may
\* hand work to; polled: the ring is the worker's own poll; delivered: it
\* begins with the first request on the API worker's inbox.  only, cap: the API
\* worker takes addressed docs alone, and what it may spend in a day.  budget:
\* the bounds, how often each of them may happen.
Bounds == {"fault", "lapse", "forget", "flip", "edit", "day", "age", "wake"}
RoomType == [passes : SUBSET Passes, works : SUBSET Works, filter : BOOLEAN, live : BOOLEAN, up : BOOLEAN,
             to : Workers \cup {NoWorker}, cli : BOOLEAN, api : BOOLEAN, allowed : SUBSET Workers,
             polled : BOOLEAN, delivered : BOOLEAN, only : BOOLEAN, cap : Nat, budget : [Bounds -> Nat]]
ASSUME RoomsAssumption == \A x \in Rooms : x \in RoomType

VARIABLES room, budget,
          day,       \* Toronto days since the one the doc's TASK-OK line names
          beat,      \* the laptop's heartbeat is inside its window
          young,     \* the doc is younger than FRESH_SECONDS
          gap,       \* a live task was reserved less than MIN_GAP_SECONDS ago
          processed, \* fleet:intake:processed has the doc
          titled,    \* its title still starts with a task prefix
          claim,     \* claim[t]: fleet:intake:claim
          marker,    \* marker[t]: fleet:intake:put
          inbox,     \* inbox[w]: the tasks on fleet:inbox:<worker>, in order
          seen,      \* seen[t]: fleet:wake:seen of inbox-wake
          woken,     \* woken[t][w]: how often w was woken for it
          pending,   \* fleet:intake:pending has the doc
          pass

weather == <<room, day, beat, young>>
gates == <<gap, processed, titled>>
queues == <<marker, inbox, seen, woken>>
intakeVars == <<doc, pen, weather, budget, gates, claim, queues, pending, pass>>

ClaimType == [phase : {"none", "intake", "delivering", "on_inbox", "rung", "dispatched"} \cup Waits,
              to : Workers \cup {NoWorker}, via : Waits \cup {"none"}, lease : {"none", "live", "dead"}]
NoClaim == [phase |-> "none", to |-> NoWorker, via |-> "none", lease |-> "none"]
Bare(phase) == [NoClaim EXCEPT !.phase = phase]
Bound(phase, to, via) == [phase |-> phase, to |-> to, via |-> via, lease |-> "none"]
GivenUp(to, via) == Bound("delivering", to, via)
Leased(to, via) == [GivenUp(to, via) EXCEPT !.lease = "live"]

Steps == {"off", "advance", "read", "admit", "claim", "seed", "wait", "waiting", "bind", "holder", "rebind",
          "put", "check", "give", "landed", "ring", "rung", "settle", "consume", "end"}
\* trail, named: what the doc said of the task when it was read, and the worker
\* of its REQUESTED line; fin: nothing is left for a later pass.
PassType == [at : Steps, req : Requests, to : Workers \cup {NoWorker},
             state : Waits \cup {"none", "REQUESTED"}, via : Waits \cup {"none"}, held : BOOLEAN,
             given : BOOLEAN, trail : SUBSET (Waits \cup {"REQUESTED"}), named : Workers \cup {NoWorker},
             fin : BOOLEAN]
Off == [at |-> "off", req |-> 1, to |-> NoWorker, state |-> "none", via |-> "none", held |-> FALSE,
        given |-> FALSE, trail |-> {}, named |-> NoWorker, fin |-> FALSE]

IntakeTypeOK ==
    /\ DocTypeOK /\ room \in Rooms /\ budget \in [Bounds -> Nat] /\ day \in Nat
    /\ {beat, young, gap, processed, titled, pending} \subseteq BOOLEAN
    /\ claim \in [Requests -> ClaimType] /\ marker \in [Requests -> Workers \cup {NoWorker}]
    /\ inbox \in [Workers -> Seq(Requests)] /\ seen \in [Requests -> SUBSET Workers]
    /\ woken \in [Requests -> [Workers -> Nat]] /\ pass \in [Passes -> PassType]

\* What an intake has written of a task it delivered to the API worker.
Delivered == {[by |-> "drive-intake", task |-> 1, to |-> Api, state |-> s] : s \in {"REQUESTED", "DISPATCHED"}}

Given == IF room.delivered THEN Delivered ELSE {}

IntakeInit ==
    /\ room \in Rooms /\ budget = room.budget
    /\ day = 0 /\ beat = room.up /\ young = TRUE /\ gap = FALSE /\ titled = TRUE
    /\ processed = room.delivered /\ pending = FALSE
    /\ doc = [req |-> 1, lines |-> Given,
              listed |-> IF room.delivered THEN "no" ELSE "new", pushed |-> ~room.delivered]
    /\ pen = [a \in Writers |-> NoPen]
    /\ claim = [t \in Requests |-> IF room.delivered /\ t = 1 THEN Bare("dispatched") ELSE NoClaim]
    /\ marker = [t \in Requests |-> IF room.delivered /\ t = 1 THEN Api ELSE NoWorker]
    /\ inbox = [w \in Workers |-> IF room.delivered /\ w = Api THEN <<1>> ELSE <<>>]
    /\ seen = [t \in Requests |-> {}] /\ woken = [t \in Requests |-> [w \in Workers |-> 0]]
    /\ pass = [p \in Passes |-> Off]

Used(b) == room.budget[b] - budget[b]
Use(b) == budget[b] > 0 /\ budget' = [budget EXCEPT ![b] = @ - 1]

-----------------------------------------------------------------------------
(* Routing, and what the doc and the trail say.                            *)

\* pick_worker, and the address of the doc.
Picked(up) ==
    CASE up -> [to |-> Laptop, state |-> "REQUESTED"]
      [] ~up /\ room.cli -> [to |-> Laptop, state |-> "QUEUED"]
      [] ~up /\ ~room.cli /\ room.api -> [to |-> Api, state |-> "REQUESTED"]
      [] OTHER -> [to |-> Laptop, state |-> "BLOCKED"]

Route ==
    IF room.to # NoWorker
    THEN [to |-> room.to, state |-> IF room.to = Laptop /\ ~beat /\ room.cli THEN "QUEUED" ELSE "REQUESTED"]
    ELSE LET r == Picked(beat /\ Laptop \in room.allowed) IN
         IF r.to \in room.allowed THEN r ELSE [r EXCEPT !.state = "BLOCKED"]

\* decide: the doc is a note, or is addressed to a worker this deploy may not hand work to.
IsNote == room.filter /\ (~titled \/ day > 0)
NotAllowed == room.to \notin room.allowed \cup {NoWorker}

\* The worker a wait line leaves open, and the lines owed for a task that came through via.
ViaOf(trail) == IF "QUEUED" \in trail THEN "QUEUED" ELSE IF "BLOCKED" \in trail THEN "BLOCKED" ELSE "none"
LinesTo(p, w, states) ==
    [i \in DOMAIN states |-> [by |-> "drive-intake", task |-> pass[p].req, to |-> w, state |-> states[i]]]
Through(via) == IF via = "none" THEN <<>> ELSE <<via>>

OnInbox(t) == {w \in Workers : \E i \in DOMAIN inbox[w] : inbox[w][i] = t}

\* Faulty variant: only the marker is asked.
MarkedOnly(t) == marker[t]

\* InboxQueue.holder: the put marker, or else the streams.
Holder(t) == IF marker[t] # NoWorker THEN marker[t]
             ELSE IF OnInbox(t) = {} THEN NoWorker ELSE CHOOSE w \in OnInbox(t) : TRUE
SeeHolder(t) == marker' = [marker EXCEPT ![t] = Holder(t)]

-----------------------------------------------------------------------------
(* Passes.                                                                 *)

At(p, step) == pass[p].at = step /\ Idle(p)
Req(p) == pass[p].req
Become(p, x) == pass' = [pass EXCEPT ![p] = x]
Go(p, step) == Become(p, [pass[p] EXCEPT !.at = step])
Finish(p, fin) == Become(p, [Off EXCEPT !.at = "end", !.fin = fin])
ToWrite(p, lines) == pen' = [pen EXCEPT ![p].todo = lines, ![p].owed = FALSE]

\* Compare-and-set: the claim becomes c and the pass x, or the pass is over.
Others(p, x) == [q \in Passes |-> IF q = p THEN [x EXCEPT !.given = FALSE, !.held = x.at \notin {"consume", "end"}]
                                  ELSE [pass[q] EXCEPT !.held = @ /\ Req(q) # Req(p)]]
Current(p) == pass[p].held \/ (pass[p].given /\ claim[Req(p)] = GivenUp(pass[p].to, pass[p].via))
\* Faulty variant: the claim is set, whoever moved it since.
AdvanceBlind(p, c, x, lines) ==
    claim' = [claim EXCEPT ![Req(p)] = c] /\ pass' = Others(p, x) /\ ToWrite(p, lines)

Advance(p, c, x, lines) ==
    IF Current(p)
    THEN claim' = [claim EXCEPT ![Req(p)] = c] /\ pass' = Others(p, x) /\ ToWrite(p, lines)
    ELSE Finish(p, FALSE) /\ UNCHANGED <<claim, pen>>

\* poll: the feed lists the doc, or it is pending.
Poll(p) ==
    /\ p \in room.passes \ Pushes /\ At(p, "off") /\ (pending \/ doc.listed # "no")
    /\ Go(p, "read") /\ pen' = [pen EXCEPT ![p].covers = TRUE]
    /\ UNCHANGED <<doc, weather, budget, gates, claim, queues, pending>>

\* push_pass: what changed is pending before the page token moves.
Push(p) ==
    /\ p \in room.passes \cap Pushes /\ At(p, "off") /\ doc.pushed
    /\ pending' = TRUE /\ Go(p, "advance") /\ pen' = [pen EXCEPT ![p].covers = TRUE]
    /\ UNCHANGED <<doc, weather, budget, gates, claim, queues>>

MoveToken(p) ==
    /\ At(p, "advance") /\ doc' = [doc EXCEPT !.pushed = ~pen[p].covers] /\ Go(p, "read")
    /\ UNCHANGED <<pen, weather, budget, gates, claim, queues, pending>>

\* decide, up to the doc's trail.
Read(p) ==
    /\ At(p, "read")
    /\ LET lines == Trail("drive-intake", doc.req)
           states == {l.state : l \in lines}
           asked == {l \in lines : l.state = "REQUESTED"} IN
       IF IsNote \/ NotAllowed \/ "DISPATCHED" \in states
       THEN Finish(p, TRUE) /\ UNCHANGED pen
       ELSE /\ Become(p, [pass[p] EXCEPT !.at = "admit", !.req = doc.req, !.to = Route.to, !.state = Route.state,
                            !.trail = states, !.named = IF asked = {} THEN NoWorker ELSE (CHOOSE l \in asked : TRUE).to])
            /\ pen' = [pen EXCEPT ![p].guard = TRUE]
    /\ UNCHANGED <<doc, weather, budget, gates, claim, queues, pending>>

\* _admit: judged once, while nothing is claimed or written.
Untouched(p) == room.filter /\ claim[Req(p)].phase = "none" /\ pass[p].trail = {}
Admit(p) ==
    /\ At(p, "admit")
    /\ IF Untouched(p) /\ (processed \/ ~young \/ (room.live /\ gap))
       THEN Finish(p, TRUE) /\ UNCHANGED gap
       ELSE Go(p, "claim") /\ gap' = (gap \/ (Untouched(p) /\ room.live))
    /\ UNCHANGED <<doc, pen, weather, budget, processed, titled, claim, queues, pending>>

\* The lines owed before the ring and after it.
Owed(via) == Through(via) \o <<"REQUESTED">>
AllLines(via) == Owed(via) \o <<"DISPATCHED">>

\* Where a pass goes on that read the claim c, and what it writes first.
Next1(p, c) ==
    IF c.phase = "intake" /\ "REQUESTED" \in pass[p].trail THEN "seed"
    ELSE IF c.phase \in {"intake"} \cup Waits /\ pass[p].state \in Waits
         THEN IF c.phase = pass[p].state THEN "waiting" ELSE "wait"
    ELSE CASE c.phase = "on_inbox" -> "ring" [] c.phase = "rung" -> "settle" [] OTHER -> "bind"
First(step, state, via) ==
    CASE step = "waiting" -> <<state>>
      [] step = "ring" -> Owed(via)
      [] step = "settle" -> AllLines(via)
      [] OTHER -> <<>>

\* SET NX, and what the pass found.
Take(p) ==
    /\ At(p, "claim")
    /\ LET c == IF claim[Req(p)].phase = "none" THEN Bare("intake") ELSE claim[Req(p)]
           bound == c.to # NoWorker
           via == IF bound THEN c.via ELSE IF c.phase \in Waits THEN c.phase ELSE ViaOf(pass[p].trail)
           step == Next1(p, c)
           to == IF bound THEN c.to ELSE pass[p].to IN
       /\ claim' = [claim EXCEPT ![Req(p)] = c]
       /\ IF c.phase = "dispatched" \/ c.lease = "live"
          THEN Finish(p, c.phase = "dispatched") /\ UNCHANGED pen
          ELSE /\ Become(p, [pass[p] EXCEPT !.at = step, !.to = to, !.via = via, !.held = TRUE, !.trail = {},
                               !.given = c = GivenUp(c.to, c.via),
                               !.state = IF bound THEN "REQUESTED" ELSE @])
               /\ ToWrite(p, LinesTo(p, to, First(step, pass[p].state, via)))
    /\ UNCHANGED <<doc, weather, budget, gates, queues, pending>>

\* The doc says the task is on an inbox, and Redis forgot.
Seed(p) ==
    /\ At(p, "seed")
    /\ LET x == pass[p] IN
       Advance(p, Bound("on_inbox", x.named, x.via), [x EXCEPT !.at = "ring", !.to = x.named],
               LinesTo(p, x.named, Owed(x.via)))
    /\ UNCHANGED <<doc, weather, budget, gates, queues, pending>>

\* Nobody can take it yet: the doc says so at every pass.
Wait(p) ==
    /\ At(p, "wait")
    /\ Advance(p, Bare(pass[p].state), [pass[p] EXCEPT !.at = "waiting"],
               LinesTo(p, pass[p].to, <<pass[p].state>>))
    /\ UNCHANGED <<doc, weather, budget, gates, queues, pending>>
Waiting(p) ==
    /\ At(p, "waiting") /\ Finish(p, FALSE)
    /\ UNCHANGED <<doc, pen, weather, budget, gates, claim, queues, pending>>

\* The worker is bound, or a dead lease taken, before the inbox is touched.
Bind(p) ==
    /\ At(p, "bind")
    /\ LET x == pass[p] IN
       Advance(p, Leased(x.to, x.via), [x EXCEPT !.at = "holder"], LinesTo(p, x.to, Through(x.via)))
    /\ UNCHANGED <<doc, weather, budget, gates, queues, pending>>

\* A task on another inbox stays there.
AskHolder(p) ==
    /\ At(p, "holder") /\ SeeHolder(Req(p))
    /\ LET w == Holder(Req(p)) IN
       Become(p, [pass[p] EXCEPT !.at = IF w = NoWorker THEN "put" ELSE IF w = pass[p].to THEN "landed" ELSE "rebind",
                                 !.to = IF w = NoWorker THEN @ ELSE w])
    /\ UNCHANGED <<doc, pen, weather, budget, gates, claim, inbox, seen, woken, pending>>
Rebind(p) ==
    /\ At(p, "rebind")
    /\ Advance(p, Leased(pass[p].to, pass[p].via), [pass[p] EXCEPT !.at = "landed"], <<>>)
    /\ UNCHANGED <<doc, weather, budget, gates, queues, pending>>

\* PUT_ONCE_LUA.
PutOnce(t, w) ==
    IF marker[t] # NoWorker THEN UNCHANGED <<marker, inbox>>
    ELSE /\ marker' = [marker EXCEPT ![t] = w]
         /\ inbox' = IF w \in OnInbox(t) THEN inbox ELSE [inbox EXCEPT ![w] = Append(@, t)]
PutTask(p) ==
    /\ At(p, "put") /\ PutOnce(Req(p), pass[p].to) /\ Go(p, "landed")
    /\ UNCHANGED <<doc, pen, weather, budget, gates, claim, seen, woken, pending>>

\* The put raised: it is there, or the lease is given up.
Check(p) ==
    /\ At(p, "check") /\ SeeHolder(Req(p))
    /\ Go(p, IF Holder(Req(p)) = NoWorker THEN "give" ELSE "landed")
    /\ UNCHANGED <<doc, pen, weather, budget, gates, claim, inbox, seen, woken, pending>>
Give(p) ==
    /\ At(p, "give")
    /\ Advance(p, GivenUp(pass[p].to, pass[p].via), [Off EXCEPT !.at = "end"], <<>>)
    /\ UNCHANGED <<doc, weather, budget, gates, queues, pending>>

Landed(p) ==
    /\ At(p, "landed")
    /\ LET x == pass[p] IN
       Advance(p, Bound("on_inbox", x.to, x.via), [x EXCEPT !.at = "ring"], LinesTo(p, x.to, Owed(x.via)))
    /\ UNCHANGED <<doc, weather, budget, gates, queues, pending>>

\* Faulty variant: rings are not known by the task.
WakesAgain(t, w) ==
    IF room.polled THEN UNCHANGED <<seen, woken>>
    ELSE seen' = [seen EXCEPT ![t] = @ \cup {w}] /\ woken' = [woken EXCEPT ![t][w] = @ + 1]

\* inbox-wake: woken once, a duplicate while it remembers the task.
Wakes(t, w) ==
    IF room.polled \/ w \in seen[t] THEN UNCHANGED <<seen, woken>>
    ELSE seen' = [seen EXCEPT ![t] = @ \cup {w}] /\ woken' = [woken EXCEPT ![t][w] = @ + 1]
Ring(p) ==
    /\ At(p, "ring") /\ Wakes(Req(p), pass[p].to) /\ Go(p, "rung")
    /\ UNCHANGED <<doc, pen, weather, budget, gates, claim, marker, inbox, pending>>
Rung(p) ==
    /\ At(p, "rung")
    /\ LET x == pass[p] IN
       Advance(p, Bound("rung", x.to, x.via), [x EXCEPT !.at = "settle"], LinesTo(p, x.to, AllLines(x.via)))
    /\ UNCHANGED <<doc, weather, budget, gates, queues, pending>>

\* Faulty variant: lines are taken to be there once they were sent.
DoneSent(p) == TRUE

\* Dispatched when every line reads back.
Done(p) == ~pen[p].owed
SettleTask(p) ==
    /\ At(p, "settle")
    /\ IF ~Done(p) THEN Finish(p, FALSE) /\ UNCHANGED claim
       ELSE LET x == [Off EXCEPT !.at = IF room.filter THEN "consume" ELSE "end", !.req = Req(p), !.fin = TRUE] IN
            IF pass[p].held
            THEN claim' = [claim EXCEPT ![Req(p)] = Bare("dispatched")] /\ pass' = Others(p, x)
            ELSE Become(p, x) /\ UNCHANGED claim
    /\ UNCHANGED <<doc, pen, weather, budget, gates, queues, pending>>

\* _consume: the doc is remembered, and renamed if that works and this kind is.
Consume(p) ==
    /\ At(p, "consume") /\ processed' = TRUE /\ titled' \in {titled, FALSE} /\ Finish(p, TRUE)
    /\ UNCHANGED <<doc, pen, weather, budget, gap, claim, queues, pending>>

\* Faulty variant: a doc that was read is not kept.
KeepsNothing(p) == FALSE

\* poll, push_pass: what is unfinished stays pending; a poll goes on record.
Keeps(p) == ~pass[p].fin
End(p) ==
    /\ At(p, "end") /\ pending' = Keeps(p)
    /\ doc' = [doc EXCEPT !.listed = IF p \notin Pushes /\ pen[p].covers /\ @ = "new" THEN "seen" ELSE @]
    /\ Become(p, Off) /\ pen' = [pen EXCEPT ![p] = NoPen]
    /\ UNCHANGED <<weather, budget, gates, claim, queues>>

\* What the scheduler and the service see to; a push may never arrive.
Goes(p) ==
    \/ Poll(p) \/ MoveToken(p) \/ Read(p) \/ Admit(p) \/ Take(p) \/ Seed(p) \/ Wait(p) \/ Waiting(p)
    \/ Bind(p) \/ AskHolder(p) \/ Rebind(p) \/ PutTask(p) \/ Check(p) \/ Give(p) \/ Landed(p)
    \/ Ring(p) \/ Rung(p) \/ SettleTask(p) \/ Consume(p) \/ End(p)
    \/ (WriteReceipt(p) /\ UNCHANGED <<weather, budget, gates, claim, queues, pending, pass>>)

-----------------------------------------------------------------------------
(* Failures, time and the owner.                                           *)

\* A read fails.
ReadFails(p) ==
    /\ \E step \in {"read", "admit", "claim", "holder", "check"} : At(p, step)
    /\ Finish(p, FALSE) /\ UNCHANGED <<doc, pen, queues>>
\* A put or a ring does, carried out or not.
PutFails(p) ==
    /\ At(p, "put") /\ Go(p, "check")
    /\ PutOnce(Req(p), pass[p].to) \/ UNCHANGED <<marker, inbox>>
    /\ UNCHANGED <<doc, pen, seen, woken>>
RingFails(p) ==
    /\ At(p, "ring") /\ Finish(p, FALSE)
    /\ Wakes(Req(p), pass[p].to) \/ UNCHANGED <<seen, woken>>
    /\ UNCHANGED <<doc, pen, marker, inbox>>
PenFails(p) == ReceiptFails(p) /\ UNCHANGED <<pass, queues>>
CallFails(p) == (ReadFails(p) \/ PutFails(p) \/ RingFails(p) \/ PenFails(p)) /\ UNCHANGED <<claim, pending>>

\* The pass dies, or raises: a push still keeps the doc.
Dies(p) ==
    /\ pass[p].at # "off" /\ Become(p, Off) /\ pen' = [pen EXCEPT ![p] = NoPen]
    /\ pending' \in {pending, pending \/ p \in Pushes}
    /\ UNCHANGED <<doc, claim, queues>>

PassFaults(p) ==
    /\ Use("fault") /\ UNCHANGED <<weather, gates>>
    /\ Dies(p) \/ CallFails(p)

\* inbox-wake does not see its wake through: it lets the task go though the worker was
\* woken, or is gone before the wake and remembers the task for ever.
WakeFails(p) ==
    /\ At(p, "ring") /\ ~room.polled /\ pass[p].to \notin seen[Req(p)] /\ Use("wake") /\ Finish(p, FALSE)
    /\ \/ woken' = [woken EXCEPT ![Req(p)][pass[p].to] = @ + 1] /\ UNCHANGED seen
       \/ seen' = [seen EXCEPT ![Req(p)] = @ \cup {pass[p].to}] /\ UNCHANGED woken
    /\ UNCHANGED <<doc, pen, weather, gates, claim, marker, inbox, pending>>

\* The sweep of inbox-wake wakes whom no ring has reached.
Sweep(t, w) ==
    /\ w \in OnInbox(t) /\ ~room.polled /\ w \notin seen[t] /\ Wakes(t, w)
    /\ UNCHANGED <<doc, pen, weather, budget, gates, claim, marker, inbox, pending, pass>>

\* DELIVER_LEASE runs out, under a pass that lives only so often.
Delivering(p) == pass[p].held /\ pass[p].at \in {"holder", "rebind", "put", "check", "give", "landed"}
LeaseEnds(t) ==
    /\ claim[t].lease = "live" /\ claim' = [claim EXCEPT ![t].lease = "dead"]
    /\ IF \E p \in Passes : Delivering(p) /\ Req(p) = t THEN Use("lapse") ELSE UNCHANGED budget
    /\ UNCHANGED <<doc, pen, weather, gates, queues, pending, pass>>

\* Redis forgets a key; it lives longer than any pass.
Forget(t) ==
    /\ \A p \in Passes : pass[p].at = "off"
    /\ Use("forget")
    /\ \/ claim[t] # NoClaim /\ claim' = [claim EXCEPT ![t] = NoClaim] /\ UNCHANGED queues
       \/ marker[t] # NoWorker /\ marker' = [marker EXCEPT ![t] = NoWorker] /\ UNCHANGED <<claim, inbox, seen, woken>>
       \/ seen[t] # {} /\ seen' = [seen EXCEPT ![t] = {}] /\ UNCHANGED <<claim, marker, inbox, woken>>
    /\ UNCHANGED <<doc, pen, weather, gates, pending, pass>>

\* The laptop comes and goes, the doc grows old, a day ends.
Weather ==
    /\ \/ Use("flip") /\ beat' = ~beat /\ UNCHANGED <<day, young>>
       \/ Use("age") /\ young' = FALSE /\ UNCHANGED <<day, beat>>
       \/ Use("day") /\ day' = day + 1 /\ UNCHANGED <<beat, young>>
    /\ UNCHANGED <<room, doc, pen, gates, claim, queues, pending, pass>>

\* The rate's gap and the feed's margin pass.
TimePasses ==
    /\ \/ gap /\ gap' = FALSE /\ UNCHANGED doc
       \/ doc.listed = "seen" /\ doc' = [doc EXCEPT !.listed = "no"] /\ UNCHANGED gap
    /\ UNCHANGED <<pen, weather, budget, processed, titled, claim, queues, pending, pass>>

Edit == Use("edit") /\ Rewrite /\ UNCHANGED <<weather, gates, claim, queues, pending, pass>>

IntakeNext ==
    \/ \E p \in Passes : Push(p) \/ Goes(p) \/ PassFaults(p) \/ WakeFails(p)
    \/ \E t \in Requests : LeaseEnds(t) \/ Forget(t) \/ \E w \in Workers : Sweep(t, w)
    \/ Weather \/ TimePasses \/ Edit

\* The scheduler polls, a pass goes on to its end, and a dead one's lease runs out.
IntakeFair ==
    /\ \A p \in Passes : WF_intakeVars(Goes(p))
    /\ WF_intakeVars(\E t \in Requests : LeaseEnds(t))

-----------------------------------------------------------------------------
(* Properties.                                                             *)

\* A task is on one inbox at most, once: whichever passes overlap or are
\* overtaken, whatever answer of Redis is lost, whether the laptop came or went
\* between two of them and whatever key was forgotten.
OnOneInbox ==
    \A t \in Requests, v, w \in Workers : \A i \in DOMAIN inbox[v], j \in DOMAIN inbox[w] :
       inbox[v][i] = t /\ inbox[w][j] = t => v = w /\ i = j

\* The trail is true.  A REQUESTED line names the worker whose inbox holds the
\* task and a DISPATCHED line one who was woken for it as well, and a claim ends
\* only when the doc shows every state the task came through.
TrailIsTrue ==
    /\ \A l \in doc.lines :
          /\ l.state \in {"REQUESTED", "DISPATCHED"} => l.to \in OnInbox(l.task)
          /\ (l.state = "DISPATCHED" /\ ~room.polled /\ Used("wake") = 0 /\ l \notin Given) => woken[l.task][l.to] > 0
    /\ \A t \in Requests : claim[t].phase = "dispatched" =>
          InTrail("drive-intake", t, "REQUESTED") /\ InTrail("drive-intake", t, "DISPATCHED")

\* A worker is woken once for a task, by ring or sweep, but for what inbox-wake forgot or let go.
WokenOnce == \A t \in Requests : \A w \in Workers : woken[t][w] <= 1 + Used("forget") + Used("wake")

\* What decide() says and does of a request agrees: one inbox, a true trail, one wake.
IntakeInv == IntakeTypeOK /\ OnOneInbox /\ TrailIsTrue /\ WokenOnce

\* What a pass began, a pass ends: a task bound to a worker is dispatched, and a
\* task that waits leaves its wait while the laptop is there, though passes
\* overlap or die and the feed no longer lists the doc.  Not when the day its
\* TASK-OK line names is over, or the request is another one.
Over(t) == IsNote \/ doc.req # t
EveryDeliveryEnds ==
    \A t \in Requests :
       /\ claim[t].phase \in {"delivering", "on_inbox", "rung"} ~> (InTrail("drive-intake", t, "DISPATCHED") \/ Over(t))
       /\ (claim[t].phase \in Waits /\ beat /\ Laptop \in room.allowed) ~> (claim[t].phase \notin Waits \/ ~beat \/ Over(t))
=============================================================================
