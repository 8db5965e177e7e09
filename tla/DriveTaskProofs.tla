---------------------------- MODULE DriveTaskProofs ----------------------------
(***************************************************************************)
(* Proofs about the way of one request line from the doc to the worker's   *)
(* answer, for any passes, writers, workers, requests, prices, caps and    *)
(* faults: the marks on the page (DriveDoc), the passes that carry a task  *)
(* to an inbox (DriveIntake) and the worker that takes it there            *)
(* (ApiWorker), as they run together.                                      *)
(*                                                                         *)
(* What the runs check is not inductive.  IInv is, and has these parts:    *)
(*   IntakeIInv  what each line on the page and under a pen says is so; a  *)
(*               claim knows its worker and what was done for it; a pass   *)
(*               that read the inboxes knows at each later step what they  *)
(*               still say; a copy of the claim that is held is current.   *)
(*   WorkIInv    a call's outcomes go with the claim that every pass holds *)
(*               a copy of; one pass is on a task's job; the cursor stays  *)
(*               behind the inbox.                                         *)
(*   MoneyIInv   the bill, what is reserved and what is to be returned are *)
(*               covered by the ledger, and the ledger by the cap.         *)
(*   StoryIInv   while no lease ran out and nothing was forgotten: who may *)
(*               still keep an answer, so that no two are told.            *)
(* A step of the intake leaves the worker's part alone but for lines on    *)
(* the page and entries of an inbox (Apart), and a step of the worker      *)
(* leaves the intake's (WorkLeavesIntake): the two are proved apart and    *)
(* put together at the end.                                                *)
(***************************************************************************)
EXTENDS ApiWorker, SequenceTheorems, FiniteSetTheorems, TLAPS

-----------------------------------------------------------------------------
(* The intake.                                                             *)

\* inbox-wake has seen every ring through so far.
RingsWork == ~room.polled /\ Used("wake") = 0

\* A line an intake pass is writing is true of the inboxes.
IntakeStates == Waits \cup {"REQUESTED", "DISPATCHED"}
LineTrue(l) ==
    /\ l.by = "drive-intake" => l.state \in IntakeStates
    /\ l.state \in {"REQUESTED", "DISPATCHED"} => l.to \in OnInbox(l.task)
    /\ l.state = "DISPATCHED" /\ RingsWork => woken[l.task][l.to] > 0

\* A line that read back once is in the doc.
PenOK(a) ==
    /\ \A i \in DOMAIN pen[a].todo :
          /\ LineTrue(pen[a].todo[i])
          /\ a \in Passes => pen[a].todo[i].by = "drive-intake"
          /\ a \in Works => pen[a].todo[i].by = "claude-api"
                /\ pen[a].todo[i].state \notin {"REQUESTED", "DISPATCHED"}
    /\ pen[a].landed => pen[a].todo # <<>> /\ Has(Head(pen[a].todo))

\* A line for the state is in the doc, or is still to be written.
Coming(a, by, t, state) ==
    \/ InTrail(by, t, state)
    \/ \E i \in DOMAIN pen[a].todo : /\ pen[a].todo[i].by = by /\ pen[a].todo[i].task = t
                                     /\ pen[a].todo[i].state = state

\* The claim of a task: a worker is bound from delivering on, and what it says was done was done.
Unbound == {"none", "intake", "dispatched"} \cup Waits
ClaimOK(t) ==
    /\ claim[t].phase \in Unbound => claim[t].to = NoWorker
    /\ claim[t].phase \notin Unbound => claim[t].to \in Workers
    /\ claim[t].phase \in {"on_inbox", "rung"} => claim[t].to \in OnInbox(t)
    /\ claim[t].phase = "rung" /\ RingsWork => woken[t][claim[t].to] > 0
    /\ claim[t].phase = "dispatched" =>
          InTrail("drive-intake", t, "REQUESTED") /\ InTrail("drive-intake", t, "DISPATCHED")

\* A task's place, and its wakes.
OnePlace(t) ==
    \A v, w \in Workers : \A i \in DOMAIN inbox[v], j \in DOMAIN inbox[w] :
       inbox[v][i] = t /\ inbox[w][j] = t => v = w /\ i = j
QueueOK(t) ==
    /\ OnePlace(t)
    /\ marker[t] # NoWorker => marker[t] \in OnInbox(t)
    /\ \A w \in Workers :
          /\ w \in seen[t] => woken[t][w] <= Used("forget") + Used("wake") + 1
          /\ w \notin seen[t] => woken[t][w] <= Used("forget") + Used("wake")
          /\ w \in seen[t] /\ Used("wake") = 0 => woken[t][w] > 0

\* Steps with no copy of the claim, those before the inbox was asked for good, and
\* those that know the task to be on the worker's inbox.
Unclaimed == {"off", "advance", "read", "admit", "claim", "consume", "end"}
Asking == {"holder", "put", "check"}
Placed == {"rebind", "landed", "ring", "rung", "settle"}
InHand == {"admit", "claim", "wait", "waiting", "bind", "give"} \cup Asking \cup Placed

\* What a pass knows of the queues at its step.
PassOK(p) ==
    LET x == pass[p]
        t == pass[p].req IN
    /\ x.at \in Unclaimed => ~x.held
    /\ x.given => x.at = "bind"
    /\ x.at \in {"admit", "claim"} /\ "REQUESTED" \in x.trail => x.named \in OnInbox(t)
    /\ x.at = "seed" => x.named \in OnInbox(t)
    /\ x.at \in InHand => x.to \in Workers
    /\ x.at \in {"wait", "waiting"} => x.state \in Waits
    /\ x.at \in Placed => x.to \in OnInbox(t)
    /\ x.at \in {"rung", "settle"} /\ RingsWork => woken[t][x.to] > 0
    /\ x.at \in Asking /\ OnInbox(t) = {} => claim[t].phase = "delivering" /\ claim[t].to = x.to
    /\ x.at \in {"put", "check"} => /\ marker[t] \in {NoWorker, x.to}
                                    /\ marker[t] = NoWorker => OnInbox(t) = {}
    /\ x.at = "settle" /\ ~pen[p].owed =>
          Coming(p, "drive-intake", t, "REQUESTED") /\ Coming(p, "drive-intake", t, "DISPATCHED")

\* A pass whose copy of the claim is current.
HeldOK(p) ==
    LET x == pass[p]
        c == claim[pass[p].req] IN
    x.held =>
       /\ c.phase # "none"
       /\ x.at = "wait" => c.phase \in {"intake"} \cup Waits
       /\ x.at = "bind" => c.phase \in {"intake"} \cup Waits \/ (c.phase = "delivering" /\ c.to = x.to)
       /\ x.at \in Asking \cup {"give"} => c.phase = "delivering" /\ c.to = x.to

\* Every line of the intake on the page is so: the task it says is requested or dispatched is on the
\* inbox it names, and, if the rings work, that worker was woken for it.
DocTrue ==
    \A l \in doc.lines :
       /\ l.by = "drive-intake" => l.state \in IntakeStates
       /\ l.state \in {"REQUESTED", "DISPATCHED"} => l.to \in OnInbox(l.task)
       /\ l.state = "DISPATCHED" /\ RingsWork /\ l \notin Given => woken[l.task][l.to] > 0

\* Each bound is used up from what the room has of it.
BudgetOK ==
    /\ \A b \in Bounds : budget[b] <= room.budget[b]
    /\ day = Used("day")

\* The types of both parts.
TypeOK == IntakeTypeOK /\ WorkTypeOK

\* The inductive invariant of the intake.
IntakeIInv ==
    /\ DocTrue
    /\ \A a \in Writers : PenOK(a)
    /\ \A t \in Requests : ClaimOK(t) /\ QueueOK(t)
    /\ \A p \in Passes : PassOK(p) /\ HeldOK(p)

-----------------------------------------------------------------------------
(* The worker.                                                             *)

\* A task's calls: they were all refused; or the last was not, or was the last there may be.
Refused(t, n) == Len(calls[t]) = n /\ \A i \in DOMAIN calls[t] : calls[t][i] = "refused"
Final(t) == calls[t] # <<>> /\ (calls[t][Len(calls[t])] # "refused" \/ Len(calls[t]) = MaxRejections)
Ends(t, got) == Final(t) /\ Story(t) = got

\* A pass that holds the claim of t for good: from the claim it made to its verdict.
OnJob(w, t) == work[w].at \in OnTheJob /\ Task(w) = t

\* No pass has the job of t.
Nobody(t) == \A w \in Works : ~OnJob(w, t)

\* A claim that may be taken as if new: there is none, or a retry without a lease.
IsOpen(j) == j.phase = "none" \/ Timeless(j)

\* A task's claim, its calls and its answer go together: all but the last call were refused, a claim
\* that may be taken again counts them all, and an answer that is kept is what the last call came to.
JobOK(t) ==
    /\ Len(calls[t]) <= MaxRejections
    /\ \A i \in DOMAIN calls[t] : i < Len(calls[t]) => calls[t][i] = "refused"
    /\ job[t].lease # "none" => job[t].phase = "accepted"
    /\ job[t].phase = "none" => calls[t] = <<>> \/ Answered(t)
    /\ job[t].phase = "done" => Answered(t)
    /\ Timeless(job[t]) => Refused(t, job[t].rejected) /\ job[t].rejected < MaxRejections
    /\ IsOpen(job[t]) => Nobody(t)
    /\ result[t] # "none" => Ends(t, result[t])

\* What a pass knows of its task at its step.
MineOK(w) ==
    LET x == work[w] IN
    /\ x.at # "off" => x.next >= 1 /\ x.next <= x.through /\ x.through <= Len(inbox[Api])
    /\ x.at \in {"off", "entry", "claim", "checkpoint"} => ~x.held
    /\ x.at \in OnTheJob => x.mine.phase = "accepted" /\ x.mine.lease = "live"
    /\ x.at = "retake" => x.mine.phase = "accepted" /\ x.mine.lease = "none"
    /\ x.at = "uncap" => x.mine.phase = "capped"
    /\ x.at = "recall" => x.mine.phase \in {"accepted", "uncertain"}
    /\ x.at = "finish" => x.mine.phase = "resulted"
    /\ x.at = "leave" => x.mine.phase = "uncertain"
    /\ x.at = "close" => x.mine.phase = "resulted" \/ (x.mine.phase = "accepted" /\ x.mine.lease = "dead")
    /\ x.at \in {"keep", "uncertain", "result", "close"} => x.got \in Verdicts
    /\ x.at = "settle" => x.got \in {"SUCCEEDED", "refused"}
    /\ x.at = "reopen" => x.got = "refused"

\* A pass that holds the claim knows it, but for the end of its lease.
CopyOK(w) ==
    LET x == work[w]
        j == job[Task(w)] IN
    x.held /\ x.at # "mark" => j = x.mine \/ (x.mine.lease = "live" /\ j = [x.mine EXCEPT !.lease = "dead"])

\* What a pass at its step knows of the calls: before a call all were refused, as many as the claim
\* counts; after it, its verdict is what they came to.
CallOK(w) ==
    LET x == work[w]
        t == Task(w) IN
    /\ x.at = "claim" /\ job[t].phase = "none" => calls[t] = <<>>
    /\ x.at \in {"accepted", "reserve", "cap", "call"} =>
          Refused(t, x.mine.rejected) /\ x.mine.rejected < MaxRejections
    /\ x.at \in {"settle", "reopen"} /\ x.got = "refused" =>
          Refused(t, x.mine.rejected + 1) /\ x.mine.rejected < MaxRejections
    /\ x.at = "settle" /\ x.got # "refused" => Ends(t, x.got)
    /\ x.at \in {"keep", "uncertain", "result"} => Ends(t, x.got)
    /\ x.at = "result" => result[t] # "none"
    /\ x.at = "close" /\ x.got # "UNKNOWN" => Ends(t, x.got)
    /\ x.at = "close" /\ ~pen[w].owed => Coming(w, "claude-api", t, x.got)

\* At most one pass has the job of a task.
OneOnTheJob == \A v, w \in Works : work[w].at \in OnTheJob /\ OnJob(v, Task(w)) => v = w

\* A line of the worker's: what it says of the call is so.
SaysOK(l) == l.by = "claude-api" /\ l.state \in {"SUCCEEDED", "FAILED"} => Ends(l.task, l.state)

\* The same of every line on the page and under a pen of the worker's.
SaidOK ==
    /\ \A l \in doc.lines : SaysOK(l)
    /\ \A w \in Works : \A i \in DOMAIN pen[w].todo : SaysOK(pen[w].todo[i])

\* The cursor of the worker has not passed what it read, nor that the end of the inbox.
CursorOK == cursor.after <= cursor.through /\ cursor.through <= Len(inbox[Api])

\* The inductive invariant of the worker.
WorkIInv ==
    /\ CursorOK /\ OneOnTheJob /\ SaidOK
    /\ \A t \in Requests : JobOK(t)
    /\ \A w \in Works : MineOK(w) /\ CopyOK(w) /\ CallOK(w)

-----------------------------------------------------------------------------
(* The money.                                                              *)

\* The passes with a reservation of day d: for a call that is out, or one that was refused and is not
\* yet given back; and those that will give back what the call did not cost.
Reserving(d) ==
    {w \in Works : work[w].day = d /\ (work[w].at = "call" \/ (work[w].at = "settle" /\ work[w].got = "refused"))}
Returning(d) == {w \in Works : work[w].day = d /\ work[w].at = "settle" /\ work[w].got = "SUCCEEDED"}

\* The ledger of the day covers the bill, the reservations that are out and what is to be given back.
MoneyOK(d) ==
    /\ bill[d] + Reservation * Cardinality(Reserving(d)) + (Reservation - Cost) * Cardinality(Returning(d))
         <= spend[d]
    /\ spend[d] <= room.cap
MoneyIInv == \A d \in Days : MoneyOK(d)

-----------------------------------------------------------------------------
(* One story.                                                              *)

\* No lease ran out under a pass, and Redis has forgotten nothing.
Steady == Used("lapse") + Used("forget") = 0

\* There is a claim that will not be taken again, and an answer that is kept or that nobody may keep any more.
Shut(t) == ~IsOpen(job[t]) /\ (result[t] # "none" \/ Nobody(t))

\* A verdict of the worker's that is told is the verdict, for good.
Told(l) == l.by = "claude-api" /\ l.state \in Verdicts => Shut(l.task) /\ l.state = Verdict(l.task)

\* A claim that has an end, or a lease that is over, leaves no one to keep another answer.
StoryOK(t) ==
    /\ job[t].phase \in {"uncertain", "resulted", "done"} \/ job[t].lease = "dead" => Shut(t)
    /\ result[t] # "none" => Shut(t)

\* What a pass knows of the story at its step.
AtStory(w) ==
    LET x == work[w]
        t == Task(w) IN
    /\ x.at \in OnTheJob /\ result[t] = "none" => x.held /\ job[t] = x.mine
    /\ x.at \in {"recall", "finish"} /\ (x.mine.phase \in {"uncertain", "resulted"}
          \/ x.mine.lease = "dead") => Shut(t)
    /\ x.at = "leave" => Shut(t) /\ Verdict(t) = "UNKNOWN"
    /\ x.at = "close" => Shut(t) /\ Verdict(t) = x.got

\* The story, while no lease was lost and nothing forgotten.
StoryIInv ==
    Steady =>
       /\ \A l \in doc.lines : Told(l)
       /\ \A w \in Works : AtStory(w) /\ \A i \in DOMAIN pen[w].todo : Told(pen[w].todo[i])
       /\ \A t \in Requests : StoryOK(t)

\* The inductive invariant.
IInv == TypeOK /\ BudgetOK /\ IntakeIInv /\ WorkIInv /\ MoneyIInv /\ StoryIInv

-----------------------------------------------------------------------------
(* Types, and what a receipt does.                                         *)

\* The writers are the passes of the intake and those of the worker, and none is both.
LEMMA WritersAre == Passes \subseteq Writers /\ Works \subseteq Writers /\ NoWorker \notin Writers
                    /\ \A p \in Passes : p \notin Works
  BY WritersAssumption DEF Writers

\* Both routes lead to a worker.
LEMMA WorkersAre == Laptop \in Workers /\ Api \in Workers /\ NoWorker \notin Workers
  BY WorkersAssumption

\* A pen has its type.
LEMMA PenTyped == ASSUME TypeOK, NEW a \in Writers
                  PROVE  /\ pen[a] \in PenType /\ pen[a].todo \in Seq(Line) /\ pen[a].owed \in BOOLEAN
                         /\ pen[a].landed \in BOOLEAN /\ pen[a].guard \in BOOLEAN /\ pen[a].covers \in BOOLEAN
  BY DEF TypeOK, IntakeTypeOK, DocTypeOK, PenType

\* The page has its type.
LEMMA DocTyped == ASSUME TypeOK
                  PROVE  doc \in DocType /\ doc.req \in Requests /\ doc.lines \subseteq Line
                         /\ pen \in [Writers -> PenType]
  BY DEF TypeOK, IntakeTypeOK, DocTypeOK, DocType

\* A pen with nothing to write.
LEMMA NoPenIs == NoPen \in PenType /\ NoPen.todo = <<>> /\ ~NoPen.landed /\ ~NoPen.owed /\ ~NoPen.guard
                 /\ ~NoPen.covers
  BY DEF NoPen, PenType

\* What concerns the properties of a pen.
SamePen(b) == pen'[b].todo = pen[b].todo /\ pen'[b].landed = pen[b].landed /\ pen'[b].owed = pen[b].owed

\* What a line that is dealt with leaves.
LEMMA SettledIs ==
    ASSUME TypeOK, NEW a \in Writers, pen[a].todo # <<>>, NEW good \in BOOLEAN, NEW x \in PenType,
           x.todo = pen[a].todo, x.owed = pen[a].owed
    PROVE  /\ Settled(x, good) \in PenType
           /\ Settled(x, good).todo = Tail(pen[a].todo) /\ ~Settled(x, good).landed
           /\ Settled(x, good).owed = (pen[a].owed \/ ~good)
<1>1. Tail(x.todo) \in Seq(Line)
  BY PenTyped, HeadTailProperties DEF PenType
<1> QED BY <1>1 DEF Settled, PenType

\* A write leaves the other pens, but for their copy of the revision.
LEMMA WriteIs ==
    ASSUME TypeOK, NEW d \in DocType, NEW a, NEW x \in PenType, Write(d, a, x)
    PROVE  /\ doc' \in DocType /\ doc'.req = d.req /\ doc'.lines = d.lines
           /\ pen' \in [Writers -> PenType]
           /\ \A b \in Writers : b # a => SamePen(b)
           /\ a \in Writers => /\ pen'[a].todo = x.todo /\ pen'[a].landed = x.landed /\ pen'[a].owed = x.owed
<1>1. doc' = [d EXCEPT !.listed = "new", !.pushed = TRUE]
  BY DEF Write
<1>2. doc' \in DocType /\ doc'.req = d.req /\ doc'.lines = d.lines
  BY <1>1 DEF DocType
<1>3. pen' = [b \in Writers |-> [(IF b = a THEN x ELSE pen[b]) EXCEPT !.guard = @ /\ b = a, !.covers = FALSE]]
  BY DEF Write
<1>4. ASSUME NEW b \in Writers
      PROVE  /\ pen'[b] \in PenType
             /\ pen'[b].todo = (IF b = a THEN x ELSE pen[b]).todo
             /\ pen'[b].landed = (IF b = a THEN x ELSE pen[b]).landed
             /\ pen'[b].owed = (IF b = a THEN x ELSE pen[b]).owed
  <2>1. PICK y \in PenType : y = IF b = a THEN x ELSE pen[b]
    BY PenTyped
  <2>2. pen'[b] = [y EXCEPT !.guard = y.guard /\ b = a, !.covers = FALSE]
    BY <1>3, <2>1
  <2>3. [y EXCEPT !.guard = y.guard /\ b = a, !.covers = FALSE] \in PenType
    BY <2>1 DEF PenType
  <2>4. pen'[b].todo = y.todo /\ pen'[b].landed = y.landed /\ pen'[b].owed = y.owed
    BY <2>1, <2>2 DEF PenType
  <2> QED BY <2>1, <2>2, <2>3, <2>4
<1>5. pen' = [b \in Writers |-> pen'[b]]
  BY <1>3
<1>6. pen' \in [Writers -> PenType]
  BY <1>4, <1>5
<1> QED BY <1>2, <1>4, <1>6 DEF SamePen

\* What a step of write_receipt by a comes to, whether it succeeds or fails.
Writes(a) ==
    /\ doc' \in DocType /\ doc'.req = doc.req /\ pen' \in [Writers -> PenType]
    /\ doc'.lines = doc.lines \/ doc'.lines = doc.lines \cup {Head(pen[a].todo)}
    /\ \A b \in Writers \ {a} : SamePen(b)
    /\ pen[a].todo # <<>>
    /\ \/ /\ pen'[a].todo = pen[a].todo /\ pen'[a].owed = pen[a].owed
          /\ pen'[a].landed => pen[a].landed \/ Has(Head(pen[a].todo))
       \/ /\ pen'[a].todo = Tail(pen[a].todo) /\ ~pen'[a].landed
          /\ pen[a].owed => pen'[a].owed
          /\ ~pen'[a].owed => pen[a].landed \/ Has(Head(pen[a].todo)) \/ Head(pen[a].todo) \in doc'.lines

\* The pen of a becomes x, the others and the doc stay.
LEMMA PenBecomes ==
    ASSUME TypeOK, NEW a \in Writers, NEW x \in PenType, pen' = [pen EXCEPT ![a] = x], UNCHANGED doc
    PROVE  /\ doc' \in DocType /\ doc'.req = doc.req /\ pen' \in [Writers -> PenType]
              /\ doc'.lines = doc.lines
           /\ \A b \in Writers \ {a} : SamePen(b) /\ pen'[b] = pen[b]
           /\ pen'[a] = x
  BY DocTyped DEF SamePen

\* A line that is dealt with is a step of write_receipt.
LEMMA SettleWrites ==
    ASSUME TypeOK, NEW a \in Writers, pen[a].todo # <<>>, NEW good \in BOOLEAN, UNCHANGED doc,
           NEW x \in PenType, x.todo = pen[a].todo, x.owed = pen[a].owed,
           pen' = [pen EXCEPT ![a] = Settled(x, good)],
           good => pen[a].landed \/ Has(Head(pen[a].todo))
    PROVE  Writes(a)
<1>1. PICK y : y = Settled(x, good)
  OBVIOUS
<1>2. /\ y \in PenType /\ y.todo = Tail(pen[a].todo) /\ ~y.landed /\ y.owed = (pen[a].owed \/ ~good)
  BY <1>1, SettledIs
<1>3. pen' = [pen EXCEPT ![a] = y]
  BY <1>1
<1> QED BY <1>2, <1>3, PenBecomes, PenTyped DEF Writes

\* So is a move from one of its steps to the next.
LEMMA MoveWrites ==
    ASSUME TypeOK, NEW a \in Writers, pen[a].todo # <<>>, UNCHANGED doc,
           NEW x \in PenType, x.todo = pen[a].todo, x.owed = pen[a].owed,
           pen' = [pen EXCEPT ![a] = x], x.landed => pen[a].landed \/ Has(Head(pen[a].todo))
    PROVE  Writes(a)
<1>3. pen'[a] = x
  BY PenBecomes
<1> QED BY <1>3, PenBecomes, PenTyped DEF Writes

\* And so is the put of the page.
LEMMA PutWrites ==
    ASSUME TypeOK, NEW a \in Writers, pen[a].todo # <<>>, NEW x \in PenType, Put(a, x),
           \/ x.todo = pen[a].todo /\ x.owed = pen[a].owed /\ x.landed = pen[a].landed
           \/ x.todo = Tail(pen[a].todo) /\ ~x.landed /\ (pen[a].owed => x.owed)
    PROVE  Writes(a)
<1>1. Head(pen[a].todo) \in Line
  BY PenTyped, HeadTailProperties
<1>2. PICK d : d = [doc EXCEPT !.lines = @ \cup {Head(pen[a].todo)}]
  OBVIOUS
<1>3. d \in DocType /\ d.req = doc.req /\ d.lines = doc.lines \cup {Head(pen[a].todo)}
  BY <1>1, <1>2, DocTyped DEF DocType
<1>4. Write(d, a, x)
  BY <1>2 DEF Put
<1>5. /\ doc' \in DocType /\ doc'.req = d.req /\ doc'.lines = d.lines
      /\ pen' \in [Writers -> PenType]
      /\ \A b \in Writers : b # a => SamePen(b)
      /\ pen'[a].todo = x.todo /\ pen'[a].landed = x.landed /\ pen'[a].owed = x.owed
  BY <1>3, <1>4, WriteIs
<1>6. Head(pen[a].todo) \in doc'.lines
  BY <1>3, <1>5
<1> QED BY <1>3, <1>5, <1>6, PenTyped DEF Writes

\* What a move leaves of the pen.
LEMMA MoveIs ==
    ASSUME TypeOK, NEW a \in Writers, NEW step \in {"has", "append", "look", "refresh"}, Move(a, step)
                PROVE  \E x \in PenType : /\ pen' = [pen EXCEPT ![a] = x] /\ x.todo = pen[a].todo
                                          /\ x.owed = pen[a].owed /\ x.landed = pen[a].landed
<1>1. PICK x : x = [pen[a] EXCEPT !.at = step]
  OBVIOUS
<1>2. pen' = [pen EXCEPT ![a] = x]
  BY <1>1 DEF Move
<1>3. x \in PenType /\ x.todo = pen[a].todo /\ x.owed = pen[a].owed /\ x.landed = pen[a].landed
  BY <1>1, PenTyped DEF PenType
<1> QED BY <1>2, <1>3

\* What dealing with a line leaves of the pen.
LEMMA SettleIs ==
    ASSUME NEW a, NEW good, Settle(a, good) PROVE pen' = [pen EXCEPT ![a] = Settled(pen[a], good)]
  BY DEF Settle

\* A step of write_receipt, one that succeeds.
LEMMA ReceiptWrites == ASSUME TypeOK, NEW a \in Writers, WriteReceipt(a) PROVE Writes(a)
<1>0. pen[a] \in PenType
  BY PenTyped
<1>1. CASE LookFirst(a)
  <2>1. pen[a].todo # <<>> /\ UNCHANGED doc
    BY <1>1 DEF LookFirst, Writing
  <2>2. CASE Has(Head(pen[a].todo)) /\ Settle(a, TRUE)
    BY <1>0, <2>1, <2>2, SettleWrites DEF Settle
  <2>3. CASE Move(a, "append")
    BY <1>0, <2>1, <2>3, MoveIs, MoveWrites
  <2> QED BY <1>1, <2>2, <2>3 DEF LookFirst
<1>2. CASE Append1(a)
  <2>1. pen[a].todo # <<>>
    BY <1>2 DEF Append1, Writing
  <2>2. CASE Put(a, Settled(pen[a], TRUE))
    <3>1. PICK y : y = Settled(pen[a], TRUE)
      OBVIOUS
    <3>2. /\ y \in PenType /\ y.todo = Tail(pen[a].todo) /\ ~y.landed /\ y.owed = (pen[a].owed \/ ~TRUE)
      BY <1>0, <2>1, <3>1, SettledIs
    <3> QED BY <2>1, <2>2, <3>1, <3>2, PutWrites
  <2>3. CASE Move(a, "look") /\ UNCHANGED doc
    BY <1>0, <2>1, <2>3, MoveIs, MoveWrites
  <2> QED BY <1>2, <2>2, <2>3 DEF Append1
<1>3. CASE LookAgain(a)
  <2>1. pen[a].todo # <<>> /\ UNCHANGED doc
    BY <1>3 DEF LookAgain, Writing
  <2>2. PICK h : h = Has(Head(pen[a].todo))
    OBVIOUS
  <2>3. h \in BOOLEAN
    BY <2>2 DEF Has, InTrail
  <2>4. PICK x : x = [pen[a] EXCEPT !.landed = h, !.at = "refresh"]
    OBVIOUS
  <2>5. x \in PenType /\ x.todo = pen[a].todo /\ x.owed = pen[a].owed /\ x.landed = h
    BY <1>0, <2>3, <2>4 DEF PenType
  <2>6. pen' = [pen EXCEPT ![a] = x]
    BY <1>3, <2>2, <2>4, DocTyped DEF LookAgain
  <2> QED BY <2>1, <2>2, <2>5, <2>6, MoveWrites
<1>4. CASE Refresh(a)
  <2>1. pen[a].todo # <<>> /\ UNCHANGED doc
    BY <1>4 DEF Refresh, Writing
  <2>2. PICK x : x = [pen[a] EXCEPT !.guard = TRUE]
    OBVIOUS
  <2>3. x \in PenType /\ x.todo = pen[a].todo /\ x.owed = pen[a].owed /\ x.landed = pen[a].landed
    BY <1>0, <2>2 DEF PenType
  <2>4. pen' = [pen EXCEPT ![a] = IF x.landed THEN Settled(x, TRUE)
                                  ELSE IF x.second THEN Settled(x, FALSE)
                                  ELSE [x EXCEPT !.second = TRUE, !.at = "append"]]
    BY <1>4, <2>2 DEF Refresh
  <2>5. CASE x.landed
    <3>1. pen' = [pen EXCEPT ![a] = Settled(x, TRUE)]
      BY <2>4, <2>5
    <3> QED BY <2>1, <2>3, <2>5, <3>1, SettleWrites
  <2>6. CASE ~x.landed /\ x.second
    <3>1. pen' = [pen EXCEPT ![a] = Settled(x, FALSE)]
      BY <2>4, <2>6
    <3> QED BY <2>1, <2>3, <2>6, <3>1, SettleWrites
  <2>7. CASE ~x.landed /\ ~x.second
    <3>1. PICK y : y = [x EXCEPT !.second = TRUE, !.at = "append"]
      OBVIOUS
    <3>2. y \in PenType /\ y.todo = pen[a].todo /\ y.owed = pen[a].owed /\ y.landed = x.landed
      BY <2>3, <3>1 DEF PenType
    <3>3. pen' = [pen EXCEPT ![a] = y]
      BY <2>4, <2>7, <3>1
    <3> QED BY <2>1, <2>7, <3>2, <3>3, MoveWrites
  <2> QED BY <2>3, <2>5, <2>6, <2>7 DEF PenType
<1> QED BY <1>1, <1>2, <1>3, <1>4 DEF WriteReceipt

\* A step of it that fails.
LEMMA FailureWrites == ASSUME TypeOK, NEW a \in Writers, ReceiptFails(a) PROVE Writes(a)
<1>0. pen[a] \in PenType /\ pen[a].todo # <<>>
  BY PenTyped DEF ReceiptFails, Writing
<1>1. CASE Settle(a, FALSE) /\ UNCHANGED doc
  BY <1>0, <1>1, SettleWrites DEF Settle
<1>2. CASE Move(a, "look") /\ UNCHANGED doc
  BY <1>0, <1>2, MoveIs, MoveWrites
<1>3. CASE Put(a, [pen[a] EXCEPT !.at = "look", !.guard = FALSE])
  <2>1. PICK x : x = [pen[a] EXCEPT !.at = "look", !.guard = FALSE]
    OBVIOUS
  <2>2. x \in PenType /\ x.todo = pen[a].todo /\ x.owed = pen[a].owed /\ x.landed = pen[a].landed
    BY <1>0, <2>1 DEF PenType
  <2> QED BY <1>0, <1>3, <2>1, <2>2, PutWrites
<1>4. CASE Put(a, Settled(pen[a], FALSE))
  <2>1. PICK y : y = Settled(pen[a], FALSE)
    OBVIOUS
  <2>2. /\ y \in PenType /\ y.todo = Tail(pen[a].todo) /\ ~y.landed /\ y.owed = (pen[a].owed \/ ~FALSE)
    BY <1>0, <2>1, SettledIs
  <2> QED BY <1>0, <1>4, <2>1, <2>2, PutWrites
<1> QED BY <1>1, <1>2, <1>3, <1>4 DEF ReceiptFails

-----------------------------------------------------------------------------
(* What every step does to the shared state.                               *)

\* The bounds are used up, never given back.
Spent ==
    /\ room' = room /\ budget' \in [Bounds -> Nat]
    /\ \A b \in Bounds : budget'[b] <= budget[b]

\* Tasks stay on their inboxes, wakes stay counted, lines stay in the doc.
Grows ==
    /\ Spent /\ doc.lines \subseteq doc'.lines
    /\ \A t \in Requests : OnInbox(t) \subseteq OnInbox(t)'
    /\ woken' \in [Requests -> [Workers -> Nat]]
    /\ \A t \in Requests, w \in Workers : woken[t][w] <= woken'[t][w]

\* The intake's variables have their types.
LEMMA IntakeTyped ==
    ASSUME TypeOK
    PROVE  /\ room \in RoomType /\ budget \in [Bounds -> Nat] /\ room.budget \in [Bounds -> Nat]
           /\ claim \in [Requests -> ClaimType] /\ marker \in [Requests -> Workers \cup {NoWorker}]
           /\ inbox \in [Workers -> Seq(Requests)] /\ seen \in [Requests -> SUBSET Workers]
           /\ woken \in [Requests -> [Workers -> Nat]] /\ pass \in [Passes -> PassType]
           /\ "wake" \in Bounds /\ "forget" \in Bounds /\ "day" \in Bounds /\ "lapse" \in Bounds
           /\ "fault" \in Bounds
           /\ "edit" \in Bounds /\ "age" \in Bounds /\ "flip" \in Bounds
  BY RoomsAssumption DEF TypeOK, IntakeTypeOK, RoomType, Bounds

\* A count of wakes is a number.
LEMMA WorkerTyped == ASSUME TypeOK, NEW t \in Requests, NEW w \in Workers PROVE woken[t][w] \in Nat
  BY IntakeTyped

\* A pass has its type.
LEMMA PassTyped ==
    ASSUME TypeOK, NEW p \in Passes
    PROVE  /\ pass[p] \in PassType /\ pass[p].at \in Steps /\ Req(p) \in Requests /\ pass[p].req \in Requests
           /\ pass[p].to \in Workers \cup {NoWorker} /\ pass[p].via \in Waits \cup {"none"}
           /\ pass[p].held \in BOOLEAN /\ pass[p].given \in BOOLEAN
           /\ pass[p].trail \subseteq Waits \cup {"REQUESTED"} /\ pass[p].named \in Workers \cup {NoWorker}
           /\ pass[p].state \in Waits \cup {"none", "REQUESTED"} /\ pass[p].fin \in BOOLEAN
  BY IntakeTyped DEF PassType, Req

\* A claim has its type.
LEMMA ClaimTyped ==
    ASSUME TypeOK, NEW t \in Requests
    PROVE  /\ claim[t] \in ClaimType
           /\ claim[t].phase \in {"none", "intake", "delivering", "on_inbox", "rung", "dispatched"} \cup Waits
           /\ claim[t].to \in Workers \cup {NoWorker} /\ claim[t].via \in Waits \cup {"none"}
           /\ claim[t].lease \in {"none", "live", "dead"}
  BY IntakeTyped DEF ClaimType

\* A task is on inboxes of workers.
LEMMA OnInboxIs == ASSUME TypeOK, NEW t \in Requests PROVE OnInbox(t) \subseteq Workers
  BY DEF OnInbox

\* Nothing was used, or one of a bound.
LEMMA UseIs ==
    ASSUME TypeOK, UNCHANGED room, NEW b \in Bounds, UNCHANGED budget \/ Use(b)
    PROVE  /\ Spent
           /\ \A c \in Bounds \ {b} : budget'[c] = budget[c] /\ Used(c)' = Used(c)
           /\ Used(b)' \in {Used(b), Used(b) + 1}
           /\ Use(b) => Used(b)' = Used(b) + 1
           /\ UNCHANGED budget => Used(b)' = Used(b)
<1>1. budget \in [Bounds -> Nat] /\ room' = room /\ room.budget[b] \in Nat
  BY IntakeTyped
<1>2. CASE UNCHANGED budget
  <2>1. budget' = budget
    BY <1>2
  <2>2. budget[b] # budget[b] - 1
    BY <1>1
  <2>3. ~Use(b)
    BY <1>1, <2>1, <2>2 DEF Use
  <2> QED BY <1>1, <2>1, <2>3 DEF Spent, Used
<1>3. CASE Use(b)
  <2>1. budget[b] > 0 /\ budget' = [budget EXCEPT ![b] = @ - 1]
    BY <1>3 DEF Use
  <2>2. budget'[b] = budget[b] - 1 /\ \A c \in Bounds \ {b} : budget'[c] = budget[c]
    BY <1>1, <2>1
  <2>3. budget' \in [Bounds -> Nat]
    BY <1>1, <2>1
  <2>4. budget' # budget
    BY <1>1, <2>2
  <2>5. Used(b)' = Used(b) + 1
    BY <1>1, <2>2 DEF Used
  <2>6. \A c \in Bounds \ {b} : Used(c)' = Used(c)
    BY <1>1, <2>2 DEF Used
  <2>7. \A c \in Bounds : budget'[c] <= budget[c]
    BY <1>1, <2>2, <2>3
  <2> QED BY <1>1, <2>2, <2>3, <2>4, <2>5, <2>6, <2>7 DEF Spent
<1> QED BY <1>2, <1>3

\* What is used up is a number.
LEMMA UsedTyped == ASSUME TypeOK, BudgetOK, NEW b \in Bounds PROVE Used(b) \in Nat
<1>1. budget[b] \in Nat /\ room.budget[b] \in Nat /\ budget[b] <= room.budget[b]
  BY IntakeTyped DEF BudgetOK
<1> QED BY <1>1 DEF Used

\* What is used up stays used up.
LEMMA SpentUsed ==
    ASSUME TypeOK, BudgetOK, Spent, NEW b \in Bounds PROVE Used(b) <= Used(b)' /\ Used(b)' \in Nat
<1>1. budget[b] \in Nat /\ room.budget[b] \in Nat /\ budget[b] <= room.budget[b] /\ budget'[b] \in Nat
      /\ budget'[b] <= budget[b] /\ room' = room
  BY IntakeTyped DEF BudgetOK, Spent
<1> QED BY <1>1 DEF Used

\* If the rings still work they worked before.
LEMMA RingsWorked == ASSUME TypeOK, BudgetOK, Spent, RingsWork' PROVE RingsWork
<1>1. "wake" \in Bounds /\ Used("wake") \in Nat
  BY IntakeTyped, UsedTyped
<1>2. Used("wake") <= Used("wake")'
  BY <1>1, SpentUsed
<1>3. Used("wake")' = 0 /\ ~room.polled
  BY DEF RingsWork, Spent
<1> QED BY <1>1, <1>2, <1>3 DEF RingsWork

\* Nothing happens to the queues.
LEMMA GrowsQuiet ==
    ASSUME TypeOK, Spent, doc.lines \subseteq doc'.lines, UNCHANGED <<inbox, woken>> PROVE Grows
<1>1. woken' = woken /\ woken \in [Requests -> [Workers -> Nat]] /\ inbox' = inbox
  BY IntakeTyped
<1>2. \A t \in Requests : OnInbox(t)' = OnInbox(t)
  BY <1>1 DEF OnInbox
<1>3. \A t \in Requests, w \in Workers : woken[t][w] <= woken'[t][w]
  BY <1>1
<1> QED BY <1>1, <1>2, <1>3 DEF Grows

-----------------------------------------------------------------------------
(* What stays true while it does.                                          *)

\* What a line says stays so.
LEMMA LineKept == ASSUME TypeOK, BudgetOK, Grows, NEW l \in Line, LineTrue(l) PROVE LineTrue(l)'
<1>1. l.task \in Requests /\ l.to \in Workers
  BY DEF Line
<1>2. woken[l.task][l.to] \in Nat /\ woken'[l.task][l.to] \in Nat
         /\ woken[l.task][l.to] <= woken'[l.task][l.to]
      /\ OnInbox(l.task) \subseteq OnInbox(l.task)'
  BY <1>1, IntakeTyped DEF Grows
<1>3. RingsWork' => RingsWork
  BY RingsWorked DEF Grows
<1> QED BY <1>2, <1>3 DEF LineTrue

\* A line that is on the page stays there.
LEMMA TrailGrows == ASSUME doc.lines \subseteq doc'.lines, NEW by, NEW t, NEW state, InTrail(by, t, state)
                    PROVE  InTrail(by, t, state)'
  BY DEF InTrail, Trail

\* So does one that was looked for.
LEMMA HasGrows == ASSUME doc.lines \subseteq doc'.lines, NEW l, Has(l) PROVE Has(l)'
<1>1. InTrail(l.by, l.task, l.state)'
  BY TrailGrows DEF Has
<1> QED BY <1>1 DEF Has

\* A pen that is not touched stays in order.
LEMMA PenKept == ASSUME TypeOK, BudgetOK, Grows, NEW b \in Writers, PenOK(b), SamePen(b) PROVE PenOK(b)'
<1>1. pen'[b].todo = pen[b].todo /\ pen'[b].landed = pen[b].landed
  BY DEF SamePen
<1>2. ASSUME NEW i \in DOMAIN pen[b].todo PROVE LineTrue(pen[b].todo[i])'
  <2>1. PICK l : l = pen[b].todo[i]
    OBVIOUS
  <2>2. l \in Line
    BY <2>1, PenTyped
  <2>3. LineTrue(l)
    BY <2>1 DEF PenOK
  <2>4. l = pen'[b].todo[i]
    BY <1>1, <2>1
  <2> QED BY <2>1, <2>2, <2>3, <2>4, LineKept DEF LineTrue, OnInbox, RingsWork, Used
<1>3. pen[b].landed => Has(Head(pen[b].todo))'
  <2>1. doc.lines \subseteq doc'.lines
    BY DEF Grows
  <2>2. PICK l : l = Head(pen[b].todo)
    OBVIOUS
  <2>3. Has(l) => Has(l)'
    BY <2>1, HasGrows
  <2> QED BY <1>1, <2>2, <2>3 DEF PenOK, Has, InTrail, Trail
<1> QED BY <1>1, <1>2, <1>3 DEF PenOK, Has, InTrail, Trail, LineTrue, OnInbox, RingsWork, Used

\* The page with the line a pen was about to write is still true.
LEMMA DocKept ==
    ASSUME TypeOK, BudgetOK, Grows, DocTrue, NEW a \in Writers, PenOK(a),
           doc'.lines = doc.lines \/ (pen[a].todo # <<>> /\ doc'.lines = doc.lines \cup {Head(pen[a].todo)})
    PROVE  DocTrue'
<1>1. ASSUME NEW l \in doc.lines
      PROVE  /\ l.by = "drive-intake" => l.state \in IntakeStates
             /\ l.state \in {"REQUESTED", "DISPATCHED"} => (l.to \in OnInbox(l.task))'
             /\ l.state = "DISPATCHED" /\ RingsWork' /\ l \notin Given' => woken'[l.task][l.to] > 0
  <2>1. l \in Line
    BY DocTyped
  <2>2. l.task \in Requests /\ l.to \in Workers
    BY <2>1 DEF Line
  <2>3. woken[l.task][l.to] \in Nat /\ woken'[l.task][l.to] \in Nat
           /\ woken[l.task][l.to] <= woken'[l.task][l.to]
        /\ OnInbox(l.task) \subseteq OnInbox(l.task)'
    BY <2>2, IntakeTyped DEF Grows
  <2>4. RingsWork' => RingsWork
    BY RingsWorked DEF Grows
  <2>5. Given' = Given
    BY DEF Grows, Spent, Given
  <2>6. OnInbox(l.task)' = {w \in Workers : \E i \in DOMAIN inbox'[w] : inbox'[w][i] = l.task}
    BY DEF OnInbox
  <2> QED BY <2>3, <2>4, <2>5, <2>6 DEF DocTrue
<1>2. CASE doc'.lines = doc.lines
  BY <1>1, <1>2 DEF DocTrue
<1>3. CASE pen[a].todo # <<>> /\ doc'.lines = doc.lines \cup {Head(pen[a].todo)}
  <2>1. PICK l : l = Head(pen[a].todo)
    OBVIOUS
  <2>2. l \in Line /\ l = pen[a].todo[1] /\ 1 \in DOMAIN pen[a].todo
    BY <1>3, <2>1, PenTyped, HeadTailProperties
  <2>3. LineTrue(l)'
    BY <2>2, LineKept DEF PenOK
  <2>4. /\ l.by = "drive-intake" => l.state \in IntakeStates
        /\ l.state \in {"REQUESTED", "DISPATCHED"} => (l.to \in OnInbox(l.task))'
        /\ l.state = "DISPATCHED" /\ RingsWork' => woken'[l.task][l.to] > 0
    BY <2>3 DEF LineTrue
  <2>5. ASSUME NEW m \in doc'.lines PROVE m \in doc.lines \/ m = l
    BY <1>3, <2>1
  <2> QED BY <1>1, <2>4, <2>5 DEF DocTrue
<1> QED BY <1>2, <1>3

\* A line less is another list.
LEMMA TailDiffers == ASSUME NEW s \in Seq(Line), s # <<>> PROVE Tail(s) # s
<1>1. Len(s) \in Nat /\ Len(Tail(s)) = Len(s) - 1
  BY HeadTailProperties, LenProperties
<1>2. PICK n \in Nat : n = Len(s)
  BY <1>1
<1>3. n - 1 # n
  OBVIOUS
<1>4. ASSUME Tail(s) = s PROVE FALSE
  BY <1>1, <1>2, <1>3, <1>4
<1> QED BY <1>4

\* The pen that writes stays in order.
LEMMA PenWritten == ASSUME TypeOK, BudgetOK, Grows, NEW a \in Writers, PenOK(a), Writes(a) PROVE PenOK(a)'
<1>1. pen[a].todo \in Seq(Line) /\ pen[a].todo # <<>>
  BY PenTyped DEF Writes
<1>2. CASE pen'[a].todo = pen[a].todo
  <2>1. ASSUME NEW i \in DOMAIN pen[a].todo PROVE LineTrue(pen[a].todo[i])'
    <3>1. PICK l : l = pen[a].todo[i]
      OBVIOUS
    <3>2. l \in Line /\ LineTrue(l)
      BY <1>1, <3>1 DEF PenOK
    <3>3. LineTrue(l)'
      BY <3>2, LineKept
    <3> QED BY <1>2, <3>1, <3>3 DEF LineTrue, OnInbox, RingsWork, Used
  <2>2. pen'[a].landed => Has(Head(pen[a].todo))'
    <3>1. PICK l : l = Head(pen[a].todo)
      OBVIOUS
    <3>2. pen'[a].landed => Has(l)
      <4>1. pen'[a].landed => pen[a].landed \/ Has(l)
        <5>1. pen'[a].todo # Tail(pen[a].todo)
          BY <1>1, <1>2, TailDiffers
        <5> QED BY <3>1, <5>1 DEF Writes
      <4> QED BY <3>1, <4>1 DEF PenOK
    <3>3. doc.lines \subseteq doc'.lines
      BY DEF Grows
    <3>4. Has(l) => Has(l)'
      BY <3>3, HasGrows
    <3> QED BY <1>2, <3>1, <3>2, <3>4 DEF Has, InTrail, Trail
  <2> QED BY <1>1, <1>2, <2>1, <2>2 DEF PenOK, LineTrue, OnInbox, RingsWork, Used
<1>3. CASE pen'[a].todo = Tail(pen[a].todo) /\ ~pen'[a].landed
  <2>1. ASSUME NEW i \in DOMAIN pen'[a].todo
        PROVE  LineTrue(pen[a].todo[i])' /\ i+1 \in DOMAIN pen[a].todo /\ pen'[a].todo[i] = pen[a].todo[i+1]
    <3>1. i+1 \in DOMAIN pen[a].todo /\ pen'[a].todo[i] = pen[a].todo[i+1]
      BY <1>1, <1>3, HeadTailProperties, LenProperties
    <3>2. PICK l : l = pen[a].todo[i+1]
      OBVIOUS
    <3>3. l \in Line /\ LineTrue(l)
      BY <1>1, <3>1, <3>2 DEF PenOK
    <3>4. LineTrue(l)'
      BY <3>3, LineKept
    <3> QED BY <3>1, <3>2, <3>4 DEF LineTrue, OnInbox, RingsWork, Used
  <2> QED BY <1>3, <2>1 DEF PenOK
<1> QED BY <1>2, <1>3 DEF Writes

\* A line that was coming comes, unless it is owed.
LEMMA ComingWritten ==
    ASSUME TypeOK, NEW a \in Writers, PenOK(a), Writes(a), doc.lines \subseteq doc'.lines,
           NEW by, NEW t, NEW state, Coming(a, by, t, state), ~pen'[a].owed
    PROVE  Coming(a, by, t, state)' /\ ~pen[a].owed
<1>1. pen[a].todo \in Seq(Line) /\ pen[a].todo # <<>>
  BY PenTyped DEF Writes
<1>2. ~pen[a].owed
  BY DEF Writes
<1>3. CASE InTrail(by, t, state)
  BY <1>2, <1>3, TrailGrows DEF Coming
<1>4. ASSUME NEW i \in DOMAIN pen[a].todo,
             pen[a].todo[i].by = by, pen[a].todo[i].task = t, pen[a].todo[i].state = state
      PROVE  Coming(a, by, t, state)'
  <2>1. CASE pen'[a].todo = pen[a].todo
    BY <1>4, <2>1 DEF Coming
  <2>2. CASE pen'[a].todo = Tail(pen[a].todo) /\ i # 1
    <3>1. i-1 \in DOMAIN pen'[a].todo /\ pen'[a].todo[i-1] = pen[a].todo[i]
      BY <1>1, <2>2, HeadTailProperties, LenProperties
    <3> QED BY <1>4, <3>1 DEF Coming
  <2>3. CASE pen'[a].todo = Tail(pen[a].todo) /\ i = 1
    <3>1. PICK l : l = Head(pen[a].todo)
      OBVIOUS
    <3>2. l = pen[a].todo[1]
      BY <1>1, <3>1, HeadTailProperties
    <3>3. l.by = by /\ l.task = t /\ l.state = state
      BY <1>4, <2>3, <3>2
    <3>4. Has(l) \/ l \in doc'.lines
      <4>2. pen'[a].todo # pen[a].todo
        BY <1>1, <2>3, TailDiffers
      <4>3. pen[a].landed \/ Has(l) \/ l \in doc'.lines
        BY <3>1, <4>2 DEF Writes
      <4> QED BY <3>1, <4>3 DEF PenOK
    <3>5. Has(l) => InTrail(by, t, state)'
      BY <3>3, TrailGrows DEF Has
    <3>6. l \in doc'.lines => InTrail(by, t, state)'
      BY <3>3 DEF InTrail, Trail
    <3> QED BY <3>4, <3>5, <3>6 DEF Coming
  <2> QED BY <2>1, <2>2, <2>3 DEF Writes
<1> QED BY <1>2, <1>3, <1>4 DEF Coming

\* A line that is on the page or coming stays so.
LEMMA ComingKept ==
    ASSUME NEW a, SamePen(a), doc.lines \subseteq doc'.lines, NEW by, NEW t, NEW state,
          Coming(a, by, t, state)
    PROVE  Coming(a, by, t, state)'
<1>1. CASE InTrail(by, t, state)
  BY <1>1, TrailGrows DEF Coming
<1>2. CASE ~InTrail(by, t, state)
  <2>1. pen'[a].todo = pen[a].todo
    BY DEF SamePen
  <2> QED BY <1>2, <2>1 DEF Coming
<1> QED BY <1>1, <1>2

-----------------------------------------------------------------------------
(* What a step leaves to the passes it is not of.                          *)

\* The claim of t is at the same phase, bound to the same worker.
SameClaim(t) == claim'[t].phase = claim[t].phase /\ claim'[t].to = claim[t].to

\* A pass stays as it is, and so does the claim it holds, or it does not hold it.
Undisturbed(q) ==
    \/ pass'[q] = pass[q] /\ SameClaim(pass[q].req)
    \/ pass'[q] = [pass[q] EXCEPT !.held = FALSE]

\* While a task is nowhere and bound, it stays bound; a marker that is set says where it is or what it is
\* bound to.
CalmTask(t) ==
    /\ OnInbox(t) = {} /\ claim[t].phase = "delivering" => SameClaim(t)
    /\ \/ marker'[t] = marker[t] /\ (marker[t] = NoWorker => OnInbox(t)' \subseteq OnInbox(t))
       \/ /\ marker[t] = NoWorker /\ marker'[t] # NoWorker
          /\ OnInbox(t) # {} \/ (claim[t].phase = "delivering" /\ claim[t].to = marker'[t])

\* A claim at the same phase and worker stays in order.
LEMMA ClaimKept ==
    ASSUME TypeOK, BudgetOK, Grows, NEW t \in Requests, ClaimOK(t), SameClaim(t) PROVE ClaimOK(t)'
<1>1. claim'[t].phase = claim[t].phase /\ claim'[t].to = claim[t].to
  BY DEF SameClaim
<1>2. OnInbox(t) \subseteq OnInbox(t)' /\ OnInbox(t) \subseteq Workers
  BY OnInboxIs DEF Grows
<1>3. RingsWork' => RingsWork
  BY RingsWorked DEF Grows
<1>4. \A w \in Workers : woken[t][w] > 0 => woken'[t][w] > 0
  <2>1. ASSUME NEW w \in Workers, woken[t][w] > 0 PROVE woken'[t][w] > 0
    <3>1. woken[t][w] \in Nat /\ woken'[t][w] \in Nat /\ woken[t][w] <= woken'[t][w]
      BY IntakeTyped DEF Grows
    <3> QED BY <2>1, <3>1
  <2> QED BY <2>1
<1>5. \A s : InTrail("drive-intake", t, s) => InTrail("drive-intake", t, s)'
  BY TrailGrows DEF Grows
<1>6. /\ claim'[t].phase \in Unbound => claim'[t].to = NoWorker
      /\ claim'[t].phase \notin Unbound => claim'[t].to \in Workers
      /\ claim'[t].phase \in {"on_inbox", "rung"} => (claim[t].to \in OnInbox(t))
            /\ claim'[t].to \in OnInbox(t)'
  BY <1>1, <1>2 DEF ClaimOK
<1>7. claim'[t].phase = "rung" /\ RingsWork' => woken'[t][claim'[t].to] > 0
  BY <1>1, <1>2, <1>3, <1>4 DEF ClaimOK
<1>8. claim'[t].phase = "dispatched" =>
          InTrail("drive-intake", t, "REQUESTED")' /\ InTrail("drive-intake", t, "DISPATCHED")'
  BY <1>1, <1>5 DEF ClaimOK
<1> QED BY <1>6, <1>7, <1>8 DEF ClaimOK, Unbound

\* The inboxes, untouched, stay in order.
LEMMA QueueKept ==
    ASSUME TypeOK, BudgetOK, Spent, NEW t \in Requests, QueueOK(t), UNCHANGED queues PROVE QueueOK(t)'
<1>1. marker' = marker /\ inbox' = inbox /\ seen' = seen /\ woken' = woken
  BY DEF queues
<1>2. /\ Used("forget") \in Nat /\ Used("wake") \in Nat /\ Used("forget")' \in Nat /\ Used("wake")' \in Nat
      /\ Used("forget") <= Used("forget")' /\ Used("wake") <= Used("wake")'
  BY IntakeTyped, UsedTyped, SpentUsed
<1>3. ASSUME NEW w \in Workers
      PROVE  /\ w \in seen[t] => woken[t][w] <= Used("forget")' + Used("wake")' + 1
             /\ w \notin seen[t] => woken[t][w] <= Used("forget")' + Used("wake")'
             /\ w \in seen[t] /\ Used("wake")' = 0 => woken[t][w] > 0
  <2>1. woken[t][w] \in Nat
    BY WorkerTyped
  <2>2. /\ w \in seen[t] => woken[t][w] <= Used("forget") + Used("wake") + 1
        /\ w \notin seen[t] => woken[t][w] <= Used("forget") + Used("wake")
        /\ w \in seen[t] /\ Used("wake") = 0 => woken[t][w] > 0
    BY DEF QueueOK
  <2>3. Used("wake")' = 0 => Used("wake") = 0
    BY <1>2
  <2>4. Used("forget") + Used("wake") <= Used("forget")' + Used("wake")'
    BY <1>2
  <2> QED BY <1>2, <2>1, <2>2, <2>3, <2>4
<1>4. OnePlace(t)' /\ (marker'[t] # NoWorker => marker'[t] \in OnInbox(t)')
  BY <1>1 DEF QueueOK, OnePlace, OnInbox
<1>5. ASSUME NEW w \in Workers
      PROVE  /\ w \in seen'[t] => woken'[t][w] <= Used("forget")' + Used("wake")' + 1
             /\ w \notin seen'[t] => woken'[t][w] <= Used("forget")' + Used("wake")'
             /\ w \in seen'[t] /\ Used("wake")' = 0 => woken'[t][w] > 0
  BY <1>1, <1>3
<1> QED BY <1>4, <1>5 DEF QueueOK

\* What is said of a pass whose record is x.
LEMMA OtherKept ==
    ASSUME TypeOK, BudgetOK, Grows, NEW q \in Passes, PassOK(q), HeldOK(q),
           NEW t \in Requests, t = pass[q].req, SamePen(q), Undisturbed(q), CalmTask(t)
    PROVE  PassOK(q)' /\ HeldOK(q)'
<1>1. PICK x \in PassType : x = pass[q]
  BY PassTyped
<1>2. PICK y \in PassType : y = pass'[q]
  BY <1>1 DEF Undisturbed, PassType
<1>3. /\ y.at = x.at /\ y.req = x.req /\ y.to = x.to /\ y.state = x.state /\ y.given = x.given
      /\ y.trail = x.trail /\ y.named = x.named /\ (y.held => x.held)
  BY <1>1, <1>2 DEF Undisturbed, PassType
<1>4. t = x.req
  BY <1>1
<1>5. OnInbox(t) \subseteq OnInbox(t)' /\ OnInbox(t) \subseteq Workers
  BY OnInboxIs DEF Grows
<1>6. RingsWork' => RingsWork
  BY RingsWorked DEF Grows
<1>7. \A w \in Workers : woken[t][w] > 0 => woken'[t][w] > 0
  <2>1. ASSUME NEW w \in Workers, woken[t][w] > 0 PROVE woken'[t][w] > 0
    <3>1. woken[t][w] \in Nat /\ woken'[t][w] \in Nat /\ woken[t][w] <= woken'[t][w]
      BY IntakeTyped DEF Grows
    <3> QED BY <2>1, <3>1
  <2> QED BY <2>1
<1>8. /\ x.at \in Unclaimed => ~x.held
      /\ x.given => x.at = "bind"
      /\ x.at \in {"admit", "claim"} /\ "REQUESTED" \in x.trail => x.named \in OnInbox(t)
      /\ x.at = "seed" => x.named \in OnInbox(t)
      /\ x.at \in InHand => x.to \in Workers
      /\ x.at \in {"wait", "waiting"} => x.state \in Waits
      /\ x.at \in Placed => x.to \in OnInbox(t)
      /\ x.at \in {"rung", "settle"} /\ RingsWork => woken[t][x.to] > 0
  BY <1>1, <1>4 DEF PassOK
<1>9. /\ x.at \in Asking /\ OnInbox(t) = {} => claim[t].phase = "delivering" /\ claim[t].to = x.to
      /\ x.at \in {"put", "check"} => /\ marker[t] \in {NoWorker, x.to}
                                      /\ marker[t] = NoWorker => OnInbox(t) = {}
      /\ x.at = "settle" /\ ~pen[q].owed =>
            Coming(q, "drive-intake", t, "REQUESTED") /\ Coming(q, "drive-intake", t, "DISPATCHED")
  BY <1>1, <1>4 DEF PassOK
<1>10. /\ y.at \in Unclaimed => ~y.held
       /\ y.given => y.at = "bind"
       /\ y.at \in {"admit", "claim"} /\ "REQUESTED" \in y.trail => y.named \in OnInbox(t)'
       /\ y.at = "seed" => y.named \in OnInbox(t)'
       /\ y.at \in InHand => y.to \in Workers
       /\ y.at \in {"wait", "waiting"} => y.state \in Waits
       /\ y.at \in Placed => y.to \in OnInbox(t)'
  BY <1>3, <1>5, <1>8
<1>11. y.at \in {"rung", "settle"} /\ RingsWork' => woken'[t][y.to] > 0
  <2>1. y.at \in {"rung", "settle"} => x.at \in Placed /\ x.to \in Workers
    BY <1>3, <1>5, <1>8 DEF Placed
  <2> QED BY <1>3, <1>6, <1>7, <1>8, <2>1
<1>12. /\ OnInbox(t) = {} /\ claim[t].phase = "delivering" => SameClaim(t)
       /\ \/ marker'[t] = marker[t] /\ (marker[t] = NoWorker => OnInbox(t)' \subseteq OnInbox(t))
          \/ /\ marker[t] = NoWorker /\ marker'[t] # NoWorker
             /\ OnInbox(t) # {} \/ (claim[t].phase = "delivering" /\ claim[t].to = marker'[t])
  BY <1>1, <1>4 DEF CalmTask
<1>13. y.at \in Asking /\ OnInbox(t)' = {} => claim'[t].phase = "delivering" /\ claim'[t].to = y.to
  <2>1. OnInbox(t)' = {} => OnInbox(t) = {}
    BY <1>5
  <2> QED BY <1>3, <1>9, <1>12, <2>1 DEF SameClaim
<1>14. y.at \in {"put", "check"} => /\ marker'[t] \in {NoWorker, y.to}
                                    /\ marker'[t] = NoWorker => OnInbox(t)' = {}
  BY <1>3, <1>9, <1>12 DEF Asking
<1>15. y.at = "settle" /\ ~pen'[q].owed =>
            Coming(q, "drive-intake", t, "REQUESTED")' /\ Coming(q, "drive-intake", t, "DISPATCHED")'
  <2>1. pen'[q].owed = pen[q].owed /\ doc.lines \subseteq doc'.lines
    BY DEF SamePen, Grows
  <2> QED BY <1>3, <1>9, <2>1, ComingKept
<1>16. y.req = t
  BY <1>3, <1>4
<1>17. PassOK(q)'
  <2>1. pass'[q] = y
    BY <1>2
  <2> QED BY <1>10, <1>11, <1>13, <1>14, <1>15, <1>16, <2>1 DEF PassOK, Unclaimed, InHand, Placed, Asking
<1>18. y.held => x.held /\ pass'[q] = pass[q] /\ SameClaim(t)
  BY <1>1, <1>2, <1>4 DEF Undisturbed, PassType
<1>19. HeldOK(q)'
  <2>1. x.held =>
       /\ claim[t].phase # "none"
       /\ x.at = "wait" => claim[t].phase \in {"intake"} \cup Waits
       /\ x.at = "bind" => claim[t].phase \in {"intake"} \cup Waits
             \/ (claim[t].phase = "delivering" /\ claim[t].to = x.to)
       /\ x.at \in Asking \cup {"give"} => claim[t].phase = "delivering" /\ claim[t].to = x.to
    BY <1>1, <1>4 DEF HeldOK
  <2>2. y.held =>
       /\ claim'[t].phase # "none"
       /\ y.at = "wait" => claim'[t].phase \in {"intake"} \cup Waits
       /\ y.at = "bind" => claim'[t].phase \in {"intake"} \cup Waits
             \/ (claim'[t].phase = "delivering" /\ claim'[t].to = y.to)
       /\ y.at \in Asking \cup {"give"} => claim'[t].phase = "delivering" /\ claim'[t].to = y.to
    BY <1>3, <1>18, <2>1 DEF SameClaim
  <2>3. pass'[q] = y /\ y.req = t
    BY <1>2, <1>16
  <2> QED BY <2>2, <2>3 DEF HeldOK, Asking, Waits
<1> QED BY <1>17, <1>19

-----------------------------------------------------------------------------
(* Steps of one writer.                                                    *)

\* The doc is as it was, or a has added the line it was to write.
Adds(a) == doc'.lines = doc.lines \/ (pen[a].todo # <<>> /\ doc'.lines = doc.lines \cup {Head(pen[a].todo)})

\* A step of the pass p.
LEMMA PassStep ==
    ASSUME TypeOK, BudgetOK, IntakeIInv, NEW p \in Passes, NEW r \in Requests, Grows, Adds(p),
           \A b \in Writers \ {p} : SamePen(b), PenOK(p)',
           \A t \in Requests : QueueOK(t)',
           \A t \in Requests \ {r} : SameClaim(t), ClaimOK(r)',
           \A q \in Passes \ {p} : Undisturbed(q), \A t \in Requests : CalmTask(t),
           PassOK(p)', HeldOK(p)'
    PROVE  IntakeIInv'
<1>1. p \in Writers /\ \A q \in Passes : q \in Writers
  BY WritersAre
<1>2. DocTrue'
  BY <1>1, DocKept DEF IntakeIInv, Adds
<1>3. ASSUME NEW a \in Writers PROVE PenOK(a)'
  BY <1>3, PenKept DEF IntakeIInv
<1>4. ASSUME NEW t \in Requests PROVE ClaimOK(t)'
  <2>1. CASE t = r
    BY <2>1
  <2>2. CASE t # r
    BY <2>2, ClaimKept DEF IntakeIInv
  <2> QED BY <2>1, <2>2
<1>5. ASSUME NEW q \in Passes PROVE PassOK(q)' /\ HeldOK(q)'
  <2>1. CASE q = p
    BY <2>1
  <2>2. CASE q # p
    <3>1. PICK t \in Requests : t = pass[q].req
      BY PassTyped
    <3>2. CalmTask(t)
      BY <3>1
    <3> QED BY <1>1, <2>2, <3>1, <3>2, OtherKept DEF IntakeIInv
  <2> QED BY <2>1, <2>2
<1> QED BY <1>2, <1>3, <1>4, <1>5 DEF IntakeIInv

-----------------------------------------------------------------------------
(* Types and bounds after a step of the intake.                            *)

\* What a step of the intake starts from.
IntakeOK == TypeOK /\ BudgetOK /\ IntakeIInv

\* What it comes out with.
Good == IntakeTypeOK' /\ BudgetOK' /\ IntakeIInv'

\* The doc's lines, the pens and what is no part of the properties are of their types.
Tidy ==
    /\ Spent /\ UNCHANGED weather /\ budget'["day"] = budget["day"]
    /\ doc' \in DocType /\ pen' \in [Writers -> PenType]
    /\ gap' \in BOOLEAN /\ processed' \in BOOLEAN /\ titled' \in BOOLEAN /\ pending' \in BOOLEAN

\* Types and bounds after a tidy step.
LEMMA TidyTypes ==
    ASSUME TypeOK, BudgetOK, Tidy, claim' \in [Requests -> ClaimType],
           marker' \in [Requests -> Workers \cup {NoWorker}], inbox' \in [Workers -> Seq(Requests)],
           seen' \in [Requests -> SUBSET Workers], woken' \in [Requests -> [Workers -> Nat]],
           pass' \in [Passes -> PassType]
    PROVE  IntakeTypeOK' /\ BudgetOK'
<1>1. room' = room /\ day' = day /\ beat' = beat /\ young' = young
  BY DEF Tidy, weather
<1>2. room' \in Rooms /\ day' \in Nat /\ beat' \in BOOLEAN /\ young' \in BOOLEAN
  BY <1>1 DEF TypeOK, IntakeTypeOK
<1>3. budget' \in [Bounds -> Nat]
  BY DEF Tidy, Spent
<1>4. IntakeTypeOK'
  BY <1>2, <1>3 DEF Tidy, IntakeTypeOK, DocTypeOK
<1>5. ASSUME NEW b \in Bounds PROVE budget'[b] <= room'.budget[b]
  <2>1. budget[b] \in Nat /\ room.budget[b] \in Nat /\ budget'[b] \in Nat
    BY <1>3, IntakeTyped
  <2>2. budget'[b] <= budget[b] /\ budget[b] <= room.budget[b]
    BY DEF Tidy, Spent, BudgetOK
  <2> QED BY <1>1, <2>1, <2>2
<1>6. day' = Used("day")'
  BY <1>1 DEF BudgetOK, Used, Tidy
<1> QED BY <1>4, <1>5, <1>6 DEF BudgetOK

\* The same when one pass has moved and the claims and inboxes have not.
LEMMA QuietTypes ==
    ASSUME TypeOK, BudgetOK, Tidy, UNCHANGED <<claim, queues>>, NEW p \in Passes, NEW x \in PassType,
           pass' = [pass EXCEPT ![p] = x]
    PROVE  IntakeTypeOK' /\ BudgetOK'
<1>1. claim' = claim /\ marker' = marker /\ inbox' = inbox /\ seen' = seen /\ woken' = woken
  BY DEF queues
<1>2. pass' \in [Passes -> PassType]
  BY IntakeTyped
<1> QED BY <1>1, <1>2, IntakeTyped, TidyTypes

-----------------------------------------------------------------------------
(* A pass goes on, and nothing else but the doc and its pen.               *)

\* The claims and the queues stay.
LEMMA QuietStep ==
    ASSUME IntakeOK, Tidy, NEW p \in Passes, NEW x \in PassType, pass' = [pass EXCEPT ![p] = x],
           UNCHANGED <<claim, queues>>, Adds(p), \A b \in Writers \ {p} : SamePen(b), PenOK(p)',
           PassOK(p)', HeldOK(p)'
    PROVE  Good
<1>1. TypeOK /\ BudgetOK /\ IntakeIInv
  BY DEF IntakeOK
<1>2. claim' = claim /\ marker' = marker /\ inbox' = inbox /\ seen' = seen /\ woken' = woken
  BY DEF queues
<1>3. PICK r \in Requests : r = pass[p].req
  BY <1>1, PassTyped
<1>4. doc.lines \subseteq doc'.lines
  BY DEF Adds
<1>5. Grows
  BY <1>1, <1>2, <1>4, GrowsQuiet DEF Tidy
<1>6. \A t \in Requests : QueueOK(t)'
  BY <1>1, QueueKept DEF Tidy, IntakeIInv
<1>7. \A t \in Requests : SameClaim(t) /\ CalmTask(t)
  BY <1>2 DEF SameClaim, CalmTask, OnInbox
<1>8. ClaimOK(r)'
  BY <1>1, <1>5, <1>7, ClaimKept DEF IntakeIInv
<1>9. \A q \in Passes \ {p} : Undisturbed(q)
  BY <1>1, <1>2, IntakeTyped DEF Undisturbed, SameClaim
<1>10. IntakeIInv'
  BY <1>1, <1>5, <1>6, <1>7, <1>8, <1>9, PassStep
<1> QED BY <1>1, <1>10, QuietTypes DEF Good

\* A pass that is at none of the steps with a claim.
Resting == {"off", "advance", "read", "consume", "end"}
\* A pass that rests knows nothing, so nothing it knows is wrong.
LEMMA RestingOK ==
    ASSUME NEW p \in Passes, NEW x \in PassType, pass'[p] = x, x.at \in Resting, ~x.held, ~x.given
    PROVE  PassOK(p)' /\ HeldOK(p)'
<1>1. x.at \notin {"admit", "claim", "seed", "wait", "waiting", "rung", "settle", "put", "check"}
      /\ x.at \notin InHand /\ x.at \notin Placed /\ x.at \notin Asking
  BY DEF Resting, InHand, Placed, Asking
<1> QED BY <1>1 DEF PassOK, HeldOK

\* A pen with nothing to write is in order.
LEMMA EmptyPenOK == ASSUME NEW a, pen'[a].todo = <<>>, ~pen'[a].landed PROVE PenOK(a)'
  BY DEF PenOK

\* A step after which its pass rests keeps the invariant.
LEMMA RestStep ==
    ASSUME IntakeOK, Tidy, NEW p \in Passes, NEW x \in PassType, pass' = [pass EXCEPT ![p] = x],
           x.at \in Resting, ~x.held, ~x.given, UNCHANGED <<claim, queues>>, doc'.lines = doc.lines,
           \A b \in Writers \ {p} : SamePen(b), SamePen(p) \/ (pen'[p].todo = <<>> /\ ~pen'[p].landed)
    PROVE  Good
<1>1. TypeOK /\ BudgetOK /\ IntakeIInv /\ p \in Writers
  BY WritersAre DEF IntakeOK
<1>2. Grows
  BY <1>1, GrowsQuiet DEF Tidy, queues
<1>3. PenOK(p)'
  BY <1>1, <1>2, PenKept, EmptyPenOK DEF IntakeIInv
<1>4. pass'[p] = x
  BY <1>1, IntakeTyped
<1>5. PassOK(p)' /\ HeldOK(p)'
  BY <1>4, RestingOK
<1> QED BY <1>3, <1>5, QuietStep DEF Adds

\* The records such a pass has.
LEMMA OffIs == /\ Off \in PassType /\ Off.at = "off" /\ ~Off.held /\ ~Off.given
<1>1. 1 \in Requests
  BY MaxRequestsAssumption DEF Requests
<1> QED BY <1>1 DEF Off, PassType, Steps

\* A pass that finishes.
LEMMA FinishIs == ASSUME NEW p \in Passes, NEW fin \in BOOLEAN, Finish(p, fin)
                  PROVE  \E x \in PassType : pass' = [pass EXCEPT ![p] = x] /\ x.at = "end" /\ ~x.held /\ ~x.given
<1>1. PICK x : x = [Off EXCEPT !.at = "end", !.fin = fin]
  OBVIOUS
<1>2. pass' = [pass EXCEPT ![p] = x]
  BY <1>1 DEF Finish, Become
<1>3. x \in PassType /\ x.at = "end" /\ ~x.held /\ ~x.given
  BY <1>1, OffIs DEF PassType, Steps, Off
<1> QED BY <1>2, <1>3

\* A pass that goes on to another step, with all that it has.
Same(x, y) == /\ x.req = y.req /\ x.to = y.to /\ x.state = y.state /\ x.via = y.via /\ x.held = y.held
              /\ x.given = y.given /\ x.trail = y.trail /\ x.named = y.named /\ x.fin = y.fin
\* A pass that goes on.
LEMMA GoIs == ASSUME TypeOK, NEW p \in Passes, NEW step \in Steps, Go(p, step)
              PROVE  \E x \in PassType : pass' = [pass EXCEPT ![p] = x] /\ x.at = step /\ Same(x, pass[p])
<1>1. PICK y \in PassType : y = pass[p]
  BY PassTyped
<1>2. PICK x : x = [y EXCEPT !.at = step]
  OBVIOUS
<1>3. x \in PassType /\ x.at = step /\ Same(x, y)
  BY <1>2 DEF PassType, Same
<1>4. pass' = [pass EXCEPT ![p] = x]
  BY <1>1, <1>2 DEF Go, Become
<1> QED BY <1>1, <1>3, <1>4

\* The pass at a resting step holds nothing.
LEMMA RestingHolds ==
    ASSUME IntakeOK, NEW p \in Passes, pass[p].at \in Unclaimed PROVE ~pass[p].held /\ ~pass[p].given
<1>1. PassOK(p)
  BY DEF IntakeOK, IntakeIInv
<1> QED BY <1>1 DEF PassOK, Unclaimed

\* One that goes on to a step where it rests.
LEMMA GoRests ==
    ASSUME IntakeOK, NEW p \in Passes, pass[p].at \in Unclaimed, NEW step \in Resting, Go(p, step), Tidy,
           UNCHANGED <<claim, queues>>, doc'.lines = doc.lines,
           \A b \in Writers \ {p} : SamePen(b), SamePen(p) \/ (pen'[p].todo = <<>> /\ ~pen'[p].landed)
    PROVE  Good
<1>1. TypeOK /\ step \in Steps
  BY DEF IntakeOK, Resting, Steps
<1>2. PICK x \in PassType : pass' = [pass EXCEPT ![p] = x] /\ x.at = step /\ Same(x, pass[p])
  BY <1>1, GoIs
<1>3. ~x.held /\ ~x.given
  BY <1>2, RestingHolds DEF Same
<1> QED BY <1>2, <1>3, RestStep

\* One that finishes rests.
LEMMA FinishRests ==
    ASSUME IntakeOK, NEW p \in Passes, NEW fin \in BOOLEAN, Finish(p, fin), Tidy,
           UNCHANGED <<claim, queues>>, doc'.lines = doc.lines,
           \A b \in Writers \ {p} : SamePen(b), SamePen(p) \/ (pen'[p].todo = <<>> /\ ~pen'[p].landed)
    PROVE  Good
<1>1. PICK x \in PassType : pass' = [pass EXCEPT ![p] = x] /\ x.at = "end" /\ ~x.held /\ ~x.given
  BY FinishIs
<1> QED BY <1>1, RestStep DEF Resting

\* Nothing is used, and the doc and the pens stay.
LEMMA StillPen ==
    ASSUME TypeOK, UNCHANGED pen PROVE pen' \in [Writers -> PenType] /\ \A b \in Writers : SamePen(b)
  BY DocTyped DEF SamePen
\* A step that uses no budget is tidy.
LEMMA TidyStill ==
    ASSUME TypeOK, UNCHANGED <<weather, budget>>, doc' \in DocType, pen' \in [Writers -> PenType],
           gap' \in BOOLEAN, processed' \in BOOLEAN, titled' \in BOOLEAN, pending' \in BOOLEAN
    PROVE  Tidy
<1>1. room' = room /\ budget' = budget
  BY DEF weather
<1>2. Spent
  BY <1>1, UseIs, IntakeTyped
<1> QED BY <1>1, <1>2 DEF Tidy
\* So is one that uses some.
LEMMA TidyUsed ==
    ASSUME TypeOK, UNCHANGED weather, NEW b \in Bounds \ {"day"}, Use(b), doc' \in DocType,
          pen' \in [Writers -> PenType],
           gap' \in BOOLEAN, processed' \in BOOLEAN, titled' \in BOOLEAN, pending' \in BOOLEAN
    PROVE  Tidy
<1>1. room' = room
  BY DEF weather
<1>2. Spent /\ budget'["day"] = budget["day"]
  BY <1>1, UseIs, IntakeTyped
<1> QED BY <1>2 DEF Tidy
\* The gates are on or off.
LEMMA GatesTyped ==
    ASSUME TypeOK
    PROVE  gap \in BOOLEAN /\ processed \in BOOLEAN /\ titled \in BOOLEAN /\ pending \in BOOLEAN
                                        /\ beat \in BOOLEAN /\ young \in BOOLEAN
  BY DEF TypeOK, IntakeTypeOK

\* Only a field that no property reads.
LEMMA PenTouched ==
    ASSUME TypeOK, NEW a \in Writers, NEW x \in PenType, pen' = [pen EXCEPT ![a] = x],
           x.todo = pen[a].todo, x.landed = pen[a].landed, x.owed = pen[a].owed
    PROVE  pen' \in [Writers -> PenType] /\ \A b \in Writers : SamePen(b)
  BY DocTyped DEF SamePen
\* A pen put down writes nothing more.
LEMMA PenDropped ==
    ASSUME TypeOK, NEW a \in Writers, pen' = [pen EXCEPT ![a] = NoPen]
    PROVE  /\ pen' \in [Writers -> PenType] /\ \A b \in Writers \ {a} : SamePen(b)
           /\ pen'[a].todo = <<>> /\ ~pen'[a].landed /\ ~pen'[a].owed
  BY DocTyped, NoPenIs DEF SamePen

-----------------------------------------------------------------------------
(* The lines of a pass.                                                    *)

\* The lines a pass writes for a list of states.
LEMMA LinesAre ==
    ASSUME TypeOK, NEW p \in Passes, NEW w \in Workers, NEW S \in SUBSET IntakeStates, NEW states \in Seq(S)
    PROVE  /\ LinesTo(p, w, states) \in Seq(Line)
           /\ DOMAIN LinesTo(p, w, states) = DOMAIN states
           /\ \A i \in DOMAIN states :
                 /\ LinesTo(p, w, states)[i].by = "drive-intake"
                 /\ LinesTo(p, w, states)[i].task = pass[p].req
                 /\ LinesTo(p, w, states)[i].to = w /\ LinesTo(p, w, states)[i].state = states[i]
                 /\ states[i] \in S
<1>1. DOMAIN states = 1..Len(states) /\ Len(states) \in Nat
  BY LenProperties
<1>2. \A i \in DOMAIN states : states[i] \in S
  BY <1>1, ElementOfSeq
<1>3. PICK f : f = [i \in DOMAIN states |-> [by |-> "drive-intake", task |-> pass[p].req, to |-> w, state |-> states[i]]]
  OBVIOUS
<1>4. ASSUME NEW i \in DOMAIN states PROVE f[i] \in Line
  <2>1. f[i] = [by |-> "drive-intake", task |-> pass[p].req, to |-> w, state |-> states[i]]
    BY <1>3
  <2>2. states[i] \in Waits \cup {"REQUESTED", "DISPATCHED"} /\ pass[p].req \in Requests
    BY <1>2, PassTyped DEF IntakeStates
  <2> QED BY <2>1, <2>2 DEF Line
<1>5. f \in [1..Len(states) -> Line]
  BY <1>1, <1>3, <1>4
<1>6. f \in Seq(Line)
  BY <1>1, <1>5
<1>7. LinesTo(p, w, states) = f
  BY <1>3 DEF LinesTo
<1> QED BY <1>2, <1>3, <1>6, <1>7

\* The waits a task came through.
LEMMA ThroughIs == ASSUME NEW via \in Waits \cup {"none"} PROVE Through(via) \in Seq(Waits)
<1>1. <<>> \in Seq(Waits)
  BY EmptySeq
<1>2. via \in Waits => <<via>> \in Seq(Waits)
  OBVIOUS
<1> QED BY <1>1, <1>2 DEF Through

\* The lines owed before the claim is delivered have the request among them.
LEMMA OwedIs == ASSUME NEW via \in Waits \cup {"none"}
                PROVE  /\ Owed(via) \in Seq(Waits \cup {"REQUESTED"})
                       /\ \E i \in DOMAIN Owed(via) : Owed(via)[i] = "REQUESTED"
<1>1. PICK s : s = Through(via)
  OBVIOUS
<1>2. s \in Seq(Waits \cup {"REQUESTED"}) /\ <<"REQUESTED">> \in Seq(Waits \cup {"REQUESTED"})
  <2>1. s \in Seq(Waits)
    BY <1>1, ThroughIs
  <2> QED BY <2>1, SeqMonotonic
<1>3. PICK o : o = s \o <<"REQUESTED">>
  OBVIOUS
<1>4. /\ o \in Seq(Waits \cup {"REQUESTED"}) /\ Len(o) = Len(s) + 1 /\ Len(s) \in Nat
      /\ DOMAIN o = 1..Len(o) /\ o[Len(s) + 1] = "REQUESTED"
  BY <1>2, <1>3, ConcatProperties, LenProperties
<1>5. Owed(via) = o
  BY <1>1, <1>3 DEF Owed
<1> QED BY <1>4, <1>5

\* The lines owed at the end have the request and the dispatch among them.
LEMMA AllLinesAre == ASSUME NEW via \in Waits \cup {"none"}
                     PROVE  /\ AllLines(via) \in Seq(IntakeStates)
                            /\ \E i \in DOMAIN AllLines(via) : AllLines(via)[i] = "REQUESTED"
                            /\ \E i \in DOMAIN AllLines(via) : AllLines(via)[i] = "DISPATCHED"
<1>1. PICK s : s = Owed(via)
  OBVIOUS
<1>2. s \in Seq(IntakeStates) /\ <<"DISPATCHED">> \in Seq(IntakeStates)
  <2>1. s \in Seq(Waits \cup {"REQUESTED"})
    BY <1>1, OwedIs
  <2> QED BY <2>1, SeqMonotonic DEF IntakeStates
<1>3. PICK o : o = s \o <<"DISPATCHED">>
  OBVIOUS
<1>4. /\ o \in Seq(IntakeStates) /\ Len(o) = Len(s) + 1 /\ Len(s) \in Nat
      /\ DOMAIN o = 1..Len(o) /\ o[Len(s) + 1] = "DISPATCHED"
      /\ \A i \in 1..Len(s) : o[i] = s[i] /\ i \in DOMAIN o
      /\ DOMAIN s = 1..Len(s)
  BY <1>2, <1>3, ConcatProperties, LenProperties
<1>5. PICK i \in DOMAIN s : s[i] = "REQUESTED"
  BY <1>1, OwedIs
<1>6. AllLines(via) = o
  BY <1>1, <1>3 DEF AllLines
<1> QED BY <1>4, <1>5, <1>6

\* The lines are written by p: what it has to know for it.
LEMMA ToWriteIs ==
    ASSUME TypeOK, NEW p \in Passes, NEW w \in Workers, NEW S \in SUBSET IntakeStates, NEW states \in Seq(S),
           ToWrite(p, LinesTo(p, w, states))
    PROVE  /\ pen' \in [Writers -> PenType] /\ \A b \in Writers \ {p} : SamePen(b)
           /\ pen'[p].todo = LinesTo(p, w, states) /\ ~pen'[p].owed /\ pen'[p].landed = pen[p].landed
<1>1. p \in Writers /\ pen[p] \in PenType
  BY WritersAre, PenTyped
<1>2. PICK f \in Seq(Line) : f = LinesTo(p, w, states)
  BY LinesAre
<1>3. PICK x : x = [pen[p] EXCEPT !.todo = f, !.owed = FALSE]
  OBVIOUS
<1>4. x \in PenType /\ x.todo = f /\ ~x.owed /\ x.landed = pen[p].landed
  BY <1>1, <1>3 DEF PenType
<1>5. pen' = [pen EXCEPT ![p] = x]
  BY <1>1, <1>2, <1>3, DocTyped DEF ToWrite
<1> QED BY <1>1, <1>2, <1>4, <1>5, DocTyped DEF SamePen

\* Such lines are true when the task is on w's inbox, and w was woken for it if that is what they say.
LEMMA LinesTrue ==
    ASSUME TypeOK, NEW p \in Passes, NEW w \in Workers, NEW S \in SUBSET IntakeStates, NEW states \in Seq(S),
           NEW t \in Requests, t = pass[p].req, pen'[p].todo = LinesTo(p, w, states), ~pen'[p].landed,
           "REQUESTED" \in S \/ "DISPATCHED" \in S => w \in OnInbox(t)',
           "DISPATCHED" \in S /\ RingsWork' => woken'[t][w] > 0
    PROVE  PenOK(p)'
<1>1. PICK f : f = LinesTo(p, w, states)
  OBVIOUS
<1>2. ASSUME NEW i \in DOMAIN f
      PROVE  /\ f[i].by = "drive-intake" /\ f[i].task = t /\ f[i].to = w /\ f[i].state \in S
  BY <1>1, LinesAre
<1>3. ASSUME NEW i \in DOMAIN f PROVE LineTrue(f[i])'
  <2>1. PICK l : l = f[i]
    OBVIOUS
  <2>2. l.task = t /\ l.to = w /\ l.state \in S
    BY <1>2, <2>1
  <2>3. LineTrue(l)'
    BY <2>2 DEF LineTrue
  <2> QED BY <2>1, <2>3
<1>4. p \notin Works
  BY WritersAre
<1>5. pen'[p].todo = f
  BY <1>1
<1> QED BY <1>2, <1>3, <1>4, <1>5 DEF PenOK

\* A line for every state is coming.
LEMMA LinesCome ==
    ASSUME TypeOK, NEW p \in Passes, NEW w \in Workers, NEW S \in SUBSET IntakeStates, NEW states \in Seq(S),
           NEW t \in Requests, t = pass[p].req, pen'[p].todo = LinesTo(p, w, states),
           NEW i \in DOMAIN states
    PROVE  Coming(p, "drive-intake", t, states[i])'
<1>1. PICK f : f = LinesTo(p, w, states)
  OBVIOUS
<1>2. i \in DOMAIN f /\ f[i].by = "drive-intake" /\ f[i].task = t /\ f[i].state = states[i]
  BY <1>1, LinesAre
<1> QED BY <1>1, <1>2 DEF Coming

\* A pen with nothing to write has landed nothing.
LEMMA IdleLanded == ASSUME IntakeOK, NEW p \in Writers, Idle(p) PROVE ~pen[p].landed
<1>1. PenOK(p)
  BY DEF IntakeOK, IntakeIInv
<1> QED BY <1>1 DEF PenOK, Idle

-----------------------------------------------------------------------------
(* A compare-and-set of the claim.                                         *)

\* The record of the pass that won.
Won(y, x) ==
    /\ y.at = x.at /\ y.req = x.req /\ y.to = x.to /\ y.state = x.state /\ y.via = x.via /\ y.trail = x.trail
    /\ y.named = x.named /\ y.fin = x.fin /\ ~y.given /\ y.held = (x.at \notin {"consume", "end"})

\* The claim of t becomes c, the pass y, and nobody else holds it.
Takes1(p, t, c, y) ==
    /\ claim' = [claim EXCEPT ![t] = c] /\ pass' \in [Passes -> PassType] /\ pass'[p] = y
    /\ \A q \in Passes \ {p} : Undisturbed(q)

\* After a compare-and-set of a claim: the pass that won it, and the others, whose copies are stale.
LEMMA OthersAre ==
    ASSUME TypeOK, NEW p \in Passes, NEW x \in PassType, NEW t \in Requests, t = pass[p].req,
          NEW c \in ClaimType,
           claim' = [claim EXCEPT ![t] = c], pass' = Others(p, x)
    PROVE  \E y \in PassType : Won(y, x) /\ Takes1(p, t, c, y)
<1>1. PICK y : y = [x EXCEPT !.given = FALSE, !.held = x.at \notin {"consume", "end"}]
  OBVIOUS
<1>2. y \in PassType /\ Won(y, x)
  BY <1>1 DEF PassType, Won
<1>3. pass'[p] = y
  BY <1>1 DEF Others
<1>4. ASSUME NEW q \in Passes, q # p PROVE pass'[q] \in PassType /\ Undisturbed(q)
  <2>1. PICK z \in PassType : z = pass[q]
    BY PassTyped
  <2>2. pass'[q] = [z EXCEPT !.held = z.held /\ Req(q) # Req(p)]
    BY <1>4, <2>1 DEF Others
  <2>3. CASE z.req # t
    <3>1. pass'[q] = z
      BY <2>1, <2>2, <2>3 DEF PassType, Req
    <3>2. z.req \in Requests
      BY <2>1, PassTyped
    <3>3. SameClaim(pass[q].req)
      BY <2>1, <2>3, <3>2, IntakeTyped DEF SameClaim
    <3> QED BY <2>1, <3>1, <3>3 DEF Undisturbed
  <2>4. CASE z.req = t
    <3>1. pass'[q] = [z EXCEPT !.held = FALSE]
      BY <2>1, <2>2, <2>4 DEF Req
    <3> QED BY <2>1, <3>1 DEF Undisturbed, PassType
  <2> QED BY <2>3, <2>4
<1>5. pass' = [q \in Passes |-> pass'[q]]
  BY DEF Others
<1>6. pass' \in [Passes -> PassType]
  BY <1>2, <1>3, <1>4, <1>5
<1> QED BY <1>2, <1>3, <1>4, <1>6 DEF Takes1

\* The claim of p's task changes hands.
LEMMA ClaimStep ==
    ASSUME IntakeOK, Tidy, NEW p \in Passes, NEW t \in Requests, NEW c \in ClaimType, NEW y,
           Takes1(p, t, c, y), UNCHANGED queues, doc'.lines = doc.lines,
           \A b \in Writers \ {p} : SamePen(b), PenOK(p)', ClaimOK(t)',
           OnInbox(t) = {} /\ claim[t].phase = "delivering" => c.phase = "delivering" /\ c.to = claim[t].to,
           PassOK(p)', HeldOK(p)'
    PROVE  Good
<1>1. TypeOK /\ BudgetOK /\ IntakeIInv
  BY DEF IntakeOK
<1>2. marker' = marker /\ inbox' = inbox /\ seen' = seen /\ woken' = woken
  BY DEF queues
<1>3. Grows
  BY <1>1, <1>2, GrowsQuiet DEF Tidy
<1>4. \A u \in Requests : QueueOK(u)'
  BY <1>1, QueueKept DEF Tidy, IntakeIInv
<1>5. claim' = [claim EXCEPT ![t] = c] /\ claim'[t] = c
  BY <1>1, IntakeTyped DEF Takes1
<1>6. \A u \in Requests \ {t} : SameClaim(u)
  BY <1>1, <1>5, IntakeTyped DEF SameClaim
<1>7. ASSUME NEW u \in Requests PROVE CalmTask(u)
  <2>1. OnInbox(u)' = OnInbox(u)
    BY <1>2 DEF OnInbox
  <2>2. OnInbox(u) = {} /\ claim[u].phase = "delivering" => SameClaim(u)
    BY <1>5, <1>6 DEF SameClaim
  <2> QED BY <1>2, <2>1, <2>2 DEF CalmTask
<1>8. IntakeIInv'
  BY <1>1, <1>3, <1>4, <1>6, <1>7, PassStep DEF Adds, Takes1
<1>9. claim' \in [Requests -> ClaimType]
  BY <1>1, <1>5, IntakeTyped
<1>10. IntakeTypeOK' /\ BudgetOK'
  BY <1>1, <1>2, <1>9, IntakeTyped, TidyTypes DEF Takes1
<1> QED BY <1>8, <1>10 DEF Good

-----------------------------------------------------------------------------
(* The steps that compare and set the claim.                               *)

\* What the new claim has to be.
ClaimFits(t, c) ==
    /\ c.phase \in Unbound => c.to = NoWorker
    /\ c.phase \notin Unbound => c.to \in Workers
    /\ c.phase \in {"on_inbox", "rung"} => c.to \in OnInbox(t)
    /\ c.phase = "rung" /\ RingsWork => woken[t][c.to] > 0
    /\ c.phase = "dispatched" =>
          InTrail("drive-intake", t, "REQUESTED") /\ InTrail("drive-intake", t, "DISPATCHED")
    /\ OnInbox(t) = {} /\ claim[t].phase = "delivering" => c.phase = "delivering" /\ c.to = claim[t].to

\* What the pass has to know for its next step.
PassFits(t, c, x, lines) ==
    /\ x.at \in {"waiting", "holder", "landed", "ring", "settle", "end"}
    /\ x.at # "end" => x.req = t /\ x.to \in Workers /\ c.phase # "none"
    /\ x.at = "waiting" => x.state \in Waits
    /\ x.at = "holder" => c.phase = "delivering" /\ c.to = x.to
    /\ x.at \in {"landed", "ring", "settle"} => x.to \in OnInbox(t)
    /\ x.at = "settle" =>
          /\ RingsWork => woken[t][x.to] > 0
          /\ \A s \in {"REQUESTED", "DISPATCHED"} : \E i \in DOMAIN lines : lines[i].task = t
                /\ lines[i].state = s

\* The lines it has to write first.
LinesFit(lines) == \A i \in DOMAIN lines : LineTrue(lines[i]) /\ lines[i].by = "drive-intake"

\* A claim that fits is in order.
LEMMA FitClaimOK ==
    ASSUME NEW t \in Requests, NEW c, ClaimFits(t, c), claim'[t] = c, UNCHANGED <<queues, room, budget>>,
          doc'.lines = doc.lines
    PROVE  ClaimOK(t)'
<1>1. inbox' = inbox /\ woken' = woken
  BY DEF queues
<1>2. OnInbox(t)' = OnInbox(t) /\ RingsWork' = RingsWork
  BY <1>1 DEF OnInbox, RingsWork, Used
<1>3. \A s : InTrail("drive-intake", t, s)' = InTrail("drive-intake", t, s)
  BY DEF InTrail, Trail
<1> QED BY <1>1, <1>2, <1>3 DEF ClaimFits, ClaimOK

\* A pen with lines that fit is in order.
LEMMA FitPenOK ==
    ASSUME TypeOK, NEW p \in Passes, NEW lines, LinesFit(lines), UNCHANGED <<queues, room, budget>>,
           pen'[p].todo = lines, ~pen'[p].landed
    PROVE  PenOK(p)'
<1>1. inbox' = inbox /\ woken' = woken
  BY DEF queues
<1>2. ASSUME NEW l, LineTrue(l) PROVE LineTrue(l)'
  BY <1>1, <1>2 DEF LineTrue, OnInbox, RingsWork, Used
<1>3. ASSUME NEW i \in DOMAIN lines PROVE LineTrue(lines[i])' /\ lines[i].by = "drive-intake"
  <2>1. LineTrue(lines[i])
    BY DEF LinesFit
  <2>2. PICK l : l = lines[i]
    OBVIOUS
  <2>3. LineTrue(l)'
    BY <1>2, <2>1, <2>2
  <2> QED BY <2>2, <2>3 DEF LinesFit
<1>4. p \notin Works
  BY WritersAre
<1> QED BY <1>3, <1>4 DEF PenOK

\* A pass whose copy and lines fit knows what it should.
LEMMA FitPassOK ==
    ASSUME TypeOK, NEW p \in Passes, NEW t \in Requests, NEW c, NEW x \in PassType, NEW y \in PassType,
          NEW lines,
           PassFits(t, c, x, lines), LinesFit(lines), Won(y, x), pass'[p] = y, claim'[t] = c,
           UNCHANGED <<queues, room, budget>>, pen'[p].todo = lines
    PROVE  PassOK(p)' /\ HeldOK(p)'
<1>1. inbox' = inbox /\ woken' = woken /\ marker' = marker
  BY DEF queues
<1>2. OnInbox(t)' = OnInbox(t) /\ RingsWork' = RingsWork
  BY <1>1 DEF OnInbox, RingsWork, Used
<1>3. CASE x.at = "end"
  <2>1. y.at \in Resting /\ ~y.held /\ ~y.given
    BY <1>3 DEF Won, Resting, PassType
  <2> QED BY <2>1, RestingOK
<1>4. CASE x.at # "end"
  <2>1. y.req = t /\ y.at = x.at /\ y.to = x.to /\ y.state = x.state /\ ~y.given
    BY <1>4 DEF Won, PassFits
  <2>2. ASSUME x.at = "settle", NEW s \in {"REQUESTED", "DISPATCHED"} PROVE Coming(p, "drive-intake", t, s)'
    <3>1. PICK i \in DOMAIN lines : lines[i].task = t /\ lines[i].state = s
      BY <2>2 DEF PassFits
    <3>2. lines[i].by = "drive-intake"
      BY DEF LinesFit
    <3> QED BY <3>1, <3>2 DEF Coming
  <2>3. PassOK(p)'
    <3>1. x.at \in {"waiting", "holder", "landed", "ring", "settle"}
      BY <1>4 DEF PassFits
    <3>2. /\ y.at \notin Unclaimed /\ y.at \notin {"put", "check", "admit", "claim", "seed", "wait", "rung"}
          /\ y.at \in Placed => x.at \in {"landed", "ring", "settle"}
          /\ y.at \in Asking => x.at = "holder"
      BY <2>1, <3>1 DEF Unclaimed, Placed, Asking
    <3>3. /\ y.at \in InHand => y.to \in Workers
          /\ y.at \in {"wait", "waiting"} => y.state \in Waits
          /\ y.at \in Placed => y.to \in OnInbox(t)'
          /\ y.at \in {"rung", "settle"} /\ RingsWork' => woken'[t][y.to] > 0
          /\ y.at \in Asking => claim'[t].phase = "delivering" /\ claim'[t].to = y.to
      BY <1>1, <1>2, <1>4, <2>1, <3>1, <3>2 DEF PassFits
    <3>4. y.at = "settle" => Coming(p, "drive-intake", t, "REQUESTED")'
             /\ Coming(p, "drive-intake", t, "DISPATCHED")'
      BY <2>1, <2>2
    <3> QED BY <2>1, <3>2, <3>3, <3>4 DEF PassOK
  <2>4. HeldOK(p)'
    <3>1. y.at \in Asking \cup {"give"} => x.at = "holder"
      BY <1>4, <2>1 DEF PassFits, Asking
    <3>2. y.at # "wait" /\ y.at # "bind"
      BY <1>4, <2>1 DEF PassFits
    <3>3. claim'[t].phase # "none"
      BY <1>4 DEF PassFits
    <3>4. y.at \in Asking \cup {"give"} => claim'[t].phase = "delivering" /\ claim'[t].to = y.to
      BY <2>1, <3>1 DEF PassFits
    <3> QED BY <2>1, <3>2, <3>3, <3>4 DEF HeldOK
  <2> QED BY <2>3, <2>4
<1> QED BY <1>3, <1>4

\* The pass advances its claim, or it is over.
LEMMA AdvanceStep ==
    ASSUME IntakeOK, NEW p \in Passes, NEW t \in Requests, t = pass[p].req, Idle(p), NEW c \in ClaimType,
           NEW x \in PassType, NEW lines \in Seq(Line), Advance(p, c, x, lines),
           UNCHANGED <<doc, weather, budget, gates, queues, pending>>,
           Current(p) => ClaimFits(t, c) /\ PassFits(t, c, x, lines) /\ LinesFit(lines)
    PROVE  Good
<1>0. TypeOK /\ BudgetOK /\ IntakeIInv /\ p \in Writers /\ room' = room /\ budget' = budget
         /\ doc' \in DocType
  BY WritersAre, DocTyped DEF IntakeOK, weather
<1>1. gap' \in BOOLEAN /\ processed' \in BOOLEAN /\ titled' \in BOOLEAN /\ pending' \in BOOLEAN
  BY <1>0, GatesTyped DEF gates
<1>2. CASE ~Current(p)
  <2>1. Finish(p, FALSE) /\ UNCHANGED <<claim, pen>>
    BY <1>2 DEF Advance
  <2>2. pen' \in [Writers -> PenType] /\ \A b \in Writers : SamePen(b)
    BY <1>0, <2>1, StillPen
  <2>3. Tidy
    BY <1>0, <1>1, <2>2, TidyStill
  <2> QED BY <1>0, <2>1, <2>2, <2>3, FinishRests
<1>3. CASE Current(p)
  <2>1. /\ claim' = [claim EXCEPT ![t] = c] /\ pass' = Others(p, x) /\ ToWrite(p, lines)
        /\ ClaimFits(t, c) /\ PassFits(t, c, x, lines) /\ LinesFit(lines)
    BY <1>3 DEF Advance, Req
  <2>2. PICK y \in PassType : Won(y, x) /\ Takes1(p, t, c, y)
    BY <1>0, <2>1, OthersAre
  <2>3. PICK z : z = [pen[p] EXCEPT !.todo = lines, !.owed = FALSE]
    OBVIOUS
  <2>4. z \in PenType /\ z.todo = lines /\ ~z.owed /\ z.landed = pen[p].landed
    BY <1>0, <2>3, PenTyped DEF PenType
  <2>5. pen' = [pen EXCEPT ![p] = z]
    BY <1>0, <2>1, <2>3, DocTyped DEF ToWrite
  <2>6. pen' \in [Writers -> PenType] /\ (\A b \in Writers \ {p} : SamePen(b)) /\ pen'[p] = z
    BY <1>0, <2>4, <2>5, DocTyped DEF SamePen
  <2>7. Tidy
    BY <1>0, <1>1, <2>6, TidyStill
  <2>8. claim'[t] = c /\ pass'[p] = y
    BY <1>0, <2>1, <2>2, IntakeTyped DEF Takes1
  <2>9. ~pen'[p].landed
    BY <1>0, <2>4, <2>6, IdleLanded
  <2>10. PenOK(p)'
    BY <1>0, <2>1, <2>4, <2>6, <2>9, FitPenOK
  <2>11. ClaimOK(t)'
    BY <1>0, <2>1, <2>8, FitClaimOK
  <2>12. PassOK(p)' /\ HeldOK(p)'
    BY <1>0, <2>1, <2>2, <2>4, <2>6, <2>8, FitPassOK
  <2> QED BY <2>1, <2>2, <2>6, <2>7, <2>10, <2>11, <2>12, ClaimStep DEF ClaimFits
<1> QED BY <1>2, <1>3

-----------------------------------------------------------------------------
(* Each of them.                                                           *)

\* The claims of a bound task, by field.
LEMMA BoundIs == ASSUME NEW phase, NEW to, NEW via
                 PROVE  /\ Bound(phase, to, via).phase = phase /\ Bound(phase, to, via).to = to
                        /\ Bound(phase, to, via).via = via /\ Bound(phase, to, via).lease = "none"
                        /\ GivenUp(to, via).phase = "delivering" /\ GivenUp(to, via).to = to
                        /\ GivenUp(to, via).via = via /\ GivenUp(to, via).lease = "none"
                        /\ Leased(to, via).phase = "delivering" /\ Leased(to, via).to = to
                        /\ Leased(to, via).via = via /\ Leased(to, via).lease = "live"
                        /\ Bare(phase).phase = phase /\ Bare(phase).to = NoWorker
                        /\ Bare(phase).lease = "none"
                        /\ Bare(phase).via = "none"
  BY DEF Bound, GivenUp, Leased, Bare, NoClaim

\* They are claims.
LEMMA ClaimsAre ==
    ASSUME NEW to \in Workers, NEW via \in Waits \cup {"none"}
    PROVE  /\ Bound("on_inbox", to, via) \in ClaimType /\ Bound("rung", to, via) \in ClaimType
           /\ GivenUp(to, via) \in ClaimType /\ Leased(to, via) \in ClaimType
           /\ \A w \in Waits \cup {"intake", "dispatched"} : Bare(w) \in ClaimType
           /\ NoClaim \in ClaimType
  BY DEF Bound, GivenUp, Leased, Bare, NoClaim, ClaimType

\* What a pass with its claim in hand knows.
LEMMA HandIs == ASSUME IntakeOK, NEW p \in Passes
                PROVE  /\ TypeOK /\ p \in Writers /\ PassOK(p) /\ HeldOK(p) /\ PenOK(p)
                          /\ pass[p].req \in Requests
                       /\ pass[p] \in PassType
                       /\ pass[p].at \in InHand => pass[p].to \in Workers
                       /\ pass[p].at \in Placed => pass[p].to \in OnInbox(pass[p].req)
  BY WritersAre, PassTyped DEF IntakeOK, IntakeIInv, PassOK

\* The lines for a worker fit when the task is on its inbox, and it was woken if they say so.
LEMMA LinesFitTo ==
    ASSUME TypeOK, NEW p \in Passes, NEW w \in Workers, NEW S \in SUBSET IntakeStates, NEW states \in Seq(S),
           NEW t \in Requests, t = pass[p].req,
           "REQUESTED" \in S \/ "DISPATCHED" \in S => w \in OnInbox(t),
           "DISPATCHED" \in S /\ RingsWork => woken[t][w] > 0
    PROVE  LinesTo(p, w, states) \in Seq(Line) /\ LinesFit(LinesTo(p, w, states))
<1>1. PICK f \in Seq(Line) : f = LinesTo(p, w, states)
  BY LinesAre
<1>2. ASSUME NEW i \in DOMAIN f
      PROVE  /\ f[i].by = "drive-intake" /\ f[i].task = t /\ f[i].to = w /\ f[i].state \in S
  BY <1>1, LinesAre
<1>3. ASSUME NEW i \in DOMAIN f PROVE LineTrue(f[i]) /\ f[i].by = "drive-intake"
  BY <1>2 DEF LineTrue
<1> QED BY <1>1, <1>3 DEF LinesFit

\* The page says the task is on an inbox, and Redis forgot.
LEMMA SeedKeeps == ASSUME IntakeOK, NEW p \in Passes, Seed(p) PROVE Good
<1>1. PICK t \in Requests : t = pass[p].req
  BY HandIs
<1>2. /\ TypeOK /\ pass[p].at = "seed" /\ Idle(p) /\ pass[p] \in PassType
      /\ UNCHANGED <<doc, weather, budget, gates, queues, pending>>
  BY HandIs DEF Seed, At
<1>3. PICK w : w = pass[p].named
  OBVIOUS
<1>4. w \in OnInbox(t) /\ w \in Workers /\ pass[p].via \in Waits \cup {"none"}
  BY <1>1, <1>2, <1>3, HandIs, OnInboxIs, PassTyped DEF PassOK
<1>5. PICK x : x = [pass[p] EXCEPT !.at = "ring", !.to = w]
  OBVIOUS
<1>6. x \in PassType /\ x.at = "ring" /\ x.to = w /\ x.req = t
  BY <1>1, <1>2, <1>4, <1>5 DEF PassType, Steps
<1>7. PICK c \in ClaimType : c = Bound("on_inbox", w, pass[p].via)
  BY <1>4, ClaimsAre
<1>8. c.phase = "on_inbox" /\ c.to = w
  BY <1>7, BoundIs
<1>9. PICK states \in Seq(Waits \cup {"REQUESTED"}) : states = Owed(pass[p].via)
  BY <1>4, OwedIs
<1>10. PICK lines \in Seq(Line) : lines = LinesTo(p, w, states) /\ LinesFit(lines)
  BY <1>1, <1>2, <1>4, LinesFitTo DEF IntakeStates, Waits
<1>11. Advance(p, c, x, lines)
  BY <1>3, <1>5, <1>7, <1>9, <1>10 DEF Seed
<1>12. ClaimFits(t, c)
  BY <1>4, <1>8 DEF ClaimFits, Unbound, Waits
<1>13. PassFits(t, c, x, lines)
  BY <1>4, <1>6, <1>8 DEF PassFits
<1> QED BY <1>1, <1>2, <1>6, <1>10, <1>11, <1>12, <1>13, AdvanceStep

\* A wait goes from the claim to the page.
LEMMA WaitKeeps == ASSUME IntakeOK, NEW p \in Passes, Wait(p) PROVE Good
<1>1. PICK t \in Requests : t = pass[p].req
  BY HandIs
<1>2. /\ TypeOK /\ pass[p].at = "wait" /\ Idle(p) /\ pass[p] \in PassType
      /\ UNCHANGED <<doc, weather, budget, gates, queues, pending>>
  BY HandIs DEF Wait, At
<1>3. pass[p].state \in Waits /\ pass[p].to \in Workers
  BY <1>2, HandIs DEF PassOK, InHand
<1>5. PICK x : x = [pass[p] EXCEPT !.at = "waiting"]
  OBVIOUS
<1>6. x \in PassType /\ x.at = "waiting" /\ x.to = pass[p].to /\ x.req = t /\ x.state \in Waits
  BY <1>1, <1>2, <1>3, <1>5 DEF PassType, Steps
<1>7. PICK c \in ClaimType : c = Bare(pass[p].state)
  BY <1>3, ClaimsAre DEF Bare, NoClaim, ClaimType
<1>8. c.phase = pass[p].state /\ c.to = NoWorker
  BY <1>7, BoundIs
<1>9. PICK states \in Seq(Waits) : states = <<pass[p].state>>
  <2>1. PICK v \in Waits : v = pass[p].state
    BY <1>3
  <2>2. <<v>> \in Seq(Waits)
    OBVIOUS
  <2> QED BY <2>1, <2>2
<1>10. PICK lines \in Seq(Line) : lines = LinesTo(p, pass[p].to, states) /\ LinesFit(lines)
  BY <1>1, <1>2, <1>3, LinesFitTo DEF IntakeStates, Waits
<1>11. Advance(p, c, x, lines)
  BY <1>5, <1>7, <1>9, <1>10 DEF Wait
<1>12. Current(p) => claim[t].phase # "delivering"
  BY <1>1, <1>2, HandIs DEF Current, HeldOK, PassOK, Waits
<1>13. Current(p) => ClaimFits(t, c)
  BY <1>3, <1>8, <1>12, WorkersAre DEF ClaimFits, Unbound, Waits
<1>14. PassFits(t, c, x, lines)
  BY <1>3, <1>6, <1>8 DEF PassFits, Waits
<1> QED BY <1>1, <1>2, <1>6, <1>10, <1>11, <1>13, <1>14, AdvanceStep

\* The claim is bound to a worker before its inbox is touched.
LEMMA BindKeeps == ASSUME IntakeOK, NEW p \in Passes, Bind(p) PROVE Good
<1>1. PICK t \in Requests : t = pass[p].req
  BY HandIs
<1>2. /\ TypeOK /\ pass[p].at = "bind" /\ Idle(p) /\ pass[p] \in PassType
      /\ UNCHANGED <<doc, weather, budget, gates, queues, pending>>
  BY HandIs DEF Bind, At
<1>3. PICK w \in Workers : w = pass[p].to
  BY <1>2, HandIs DEF InHand
<1>4. pass[p].via \in Waits \cup {"none"}
  BY <1>2, PassTyped
<1>5. PICK x : x = [pass[p] EXCEPT !.at = "holder"]
  OBVIOUS
<1>6. x \in PassType /\ x.at = "holder" /\ x.to = w /\ x.req = t
  BY <1>1, <1>2, <1>3, <1>5 DEF PassType, Steps
<1>7. PICK c \in ClaimType : c = Leased(w, pass[p].via)
  BY <1>4, ClaimsAre
<1>8. c.phase = "delivering" /\ c.to = w
  BY <1>7, BoundIs
<1>9. PICK states \in Seq(Waits) : states = Through(pass[p].via)
  BY <1>4, ThroughIs
<1>10. PICK lines \in Seq(Line) : lines = LinesTo(p, w, states) /\ LinesFit(lines)
  BY <1>1, <1>2, <1>3, LinesFitTo DEF IntakeStates, Waits
<1>11. Advance(p, c, x, lines)
  BY <1>3, <1>5, <1>7, <1>9, <1>10 DEF Bind
<1>12. Current(p) /\ claim[t].phase = "delivering" => claim[t].to = w
  <2>1. CASE pass[p].held
    BY <1>1, <1>2, <1>3, <2>1, HandIs DEF HeldOK, Waits
  <2>2. CASE claim[t] = GivenUp(pass[p].to, pass[p].via)
    BY <1>3, <2>2, BoundIs
  <2> QED BY <1>1, <2>1, <2>2 DEF Current, Req
<1>13. Current(p) => ClaimFits(t, c)
  BY <1>8, <1>12 DEF ClaimFits, Unbound, Waits
<1>14. PassFits(t, c, x, lines)
  BY <1>6, <1>8 DEF PassFits
<1> QED BY <1>1, <1>2, <1>6, <1>10, <1>11, <1>13, <1>14, AdvanceStep

\* Nothing to write fits.
LEMMA NoLines == <<>> \in Seq(Line) /\ LinesFit(<<>>)
  BY EmptySeq DEF LinesFit

\* A claim whose task is found elsewhere is bound to where it is.
LEMMA RebindKeeps == ASSUME IntakeOK, NEW p \in Passes, Rebind(p) PROVE Good
<1>1. PICK t \in Requests : t = pass[p].req
  BY HandIs
<1>2. /\ TypeOK /\ pass[p].at = "rebind" /\ Idle(p) /\ pass[p] \in PassType
      /\ UNCHANGED <<doc, weather, budget, gates, queues, pending>>
  BY HandIs DEF Rebind, At
<1>3. PICK w \in Workers : w = pass[p].to
  BY <1>2, HandIs DEF InHand, Placed
<1>4. pass[p].via \in Waits \cup {"none"} /\ w \in OnInbox(t)
  BY <1>1, <1>2, <1>3, HandIs, PassTyped DEF Placed
<1>5. PICK x : x = [pass[p] EXCEPT !.at = "landed"]
  OBVIOUS
<1>6. x \in PassType /\ x.at = "landed" /\ x.to = w /\ x.req = t
  BY <1>1, <1>2, <1>3, <1>5 DEF PassType, Steps
<1>7. PICK c \in ClaimType : c = Leased(w, pass[p].via)
  BY <1>4, ClaimsAre
<1>8. c.phase = "delivering" /\ c.to = w
  BY <1>7, BoundIs
<1>11. Advance(p, c, x, <<>>)
  BY <1>3, <1>5, <1>7 DEF Rebind
<1>13. ClaimFits(t, c)
  BY <1>4, <1>8 DEF ClaimFits, Unbound, Waits
<1>14. PassFits(t, c, x, <<>>)
  BY <1>4, <1>6, <1>8 DEF PassFits
<1> QED BY <1>1, <1>2, <1>6, <1>11, <1>13, <1>14, NoLines, AdvanceStep

\* A delivery that failed gives the lease back, not the worker.
LEMMA GiveKeeps == ASSUME IntakeOK, NEW p \in Passes, Give(p) PROVE Good
<1>1. PICK t \in Requests : t = pass[p].req
  BY HandIs
<1>2. /\ TypeOK /\ pass[p].at = "give" /\ Idle(p) /\ pass[p] \in PassType
      /\ UNCHANGED <<doc, weather, budget, gates, queues, pending>>
  BY HandIs DEF Give, At
<1>3. PICK w \in Workers : w = pass[p].to
  BY <1>2, HandIs DEF InHand
<1>4. pass[p].via \in Waits \cup {"none"}
  BY <1>2, PassTyped
<1>5. PICK x : x = [Off EXCEPT !.at = "end"]
  OBVIOUS
<1>6. x \in PassType /\ x.at = "end"
  BY <1>5, OffIs DEF PassType, Steps
<1>7. PICK c \in ClaimType : c = GivenUp(w, pass[p].via)
  BY <1>4, ClaimsAre
<1>8. c.phase = "delivering" /\ c.to = w
  BY <1>7, BoundIs
<1>11. Advance(p, c, x, <<>>)
  BY <1>3, <1>5, <1>7 DEF Give
<1>12. Current(p) /\ claim[t].phase = "delivering" => claim[t].to = w
  BY <1>1, <1>2, <1>3, HandIs DEF HeldOK, PassOK, Current
<1>13. Current(p) => ClaimFits(t, c)
  BY <1>8, <1>12 DEF ClaimFits, Unbound, Waits
<1>14. PassFits(t, c, x, <<>>)
  BY <1>6 DEF PassFits
<1> QED BY <1>1, <1>2, <1>6, <1>11, <1>13, <1>14, NoLines, AdvanceStep

\* The claim is on_inbox once the task is.
LEMMA LandedKeeps == ASSUME IntakeOK, NEW p \in Passes, Landed(p) PROVE Good
<1>1. PICK t \in Requests : t = pass[p].req
  BY HandIs
<1>2. /\ TypeOK /\ pass[p].at = "landed" /\ Idle(p) /\ pass[p] \in PassType
      /\ UNCHANGED <<doc, weather, budget, gates, queues, pending>>
  BY HandIs DEF Landed, At
<1>3. PICK w \in Workers : w = pass[p].to
  BY <1>2, HandIs DEF InHand, Placed
<1>4. pass[p].via \in Waits \cup {"none"} /\ w \in OnInbox(t)
  BY <1>1, <1>2, <1>3, HandIs, PassTyped DEF Placed
<1>5. PICK x : x = [pass[p] EXCEPT !.at = "ring"]
  OBVIOUS
<1>6. x \in PassType /\ x.at = "ring" /\ x.to = w /\ x.req = t
  BY <1>1, <1>2, <1>3, <1>5 DEF PassType, Steps
<1>7. PICK c \in ClaimType : c = Bound("on_inbox", w, pass[p].via)
  BY <1>4, ClaimsAre
<1>8. c.phase = "on_inbox" /\ c.to = w
  BY <1>7, BoundIs
<1>9. PICK states \in Seq(Waits \cup {"REQUESTED"}) : states = Owed(pass[p].via)
  BY <1>4, OwedIs
<1>10. PICK lines \in Seq(Line) : lines = LinesTo(p, w, states) /\ LinesFit(lines)
  BY <1>1, <1>2, <1>4, LinesFitTo DEF IntakeStates, Waits
<1>11. Advance(p, c, x, lines)
  BY <1>3, <1>5, <1>7, <1>9, <1>10 DEF Landed
<1>12. ClaimFits(t, c)
  BY <1>4, <1>8 DEF ClaimFits, Unbound, Waits
<1>13. PassFits(t, c, x, lines)
  BY <1>4, <1>6, <1>8 DEF PassFits
<1> QED BY <1>1, <1>2, <1>6, <1>10, <1>11, <1>12, <1>13, AdvanceStep

\* The claim is rung once the worker was woken.
LEMMA RungKeeps == ASSUME IntakeOK, NEW p \in Passes, Rung(p) PROVE Good
<1>1. PICK t \in Requests : t = pass[p].req
  BY HandIs
<1>2. /\ TypeOK /\ pass[p].at = "rung" /\ Idle(p) /\ pass[p] \in PassType
      /\ UNCHANGED <<doc, weather, budget, gates, queues, pending>>
  BY HandIs DEF Rung, At
<1>3. PICK w \in Workers : w = pass[p].to
  BY <1>2, HandIs DEF InHand, Placed
<1>4. /\ pass[p].via \in Waits \cup {"none"} /\ w \in OnInbox(t)
      /\ RingsWork => woken[t][w] > 0
  BY <1>1, <1>2, <1>3, HandIs, PassTyped DEF Placed, PassOK
<1>5. PICK x : x = [pass[p] EXCEPT !.at = "settle"]
  OBVIOUS
<1>6. x \in PassType /\ x.at = "settle" /\ x.to = w /\ x.req = t
  BY <1>1, <1>2, <1>3, <1>5 DEF PassType, Steps
<1>7. PICK c \in ClaimType : c = Bound("rung", w, pass[p].via)
  BY <1>4, ClaimsAre
<1>8. c.phase = "rung" /\ c.to = w
  BY <1>7, BoundIs
<1>9. PICK states \in Seq(IntakeStates) : states = AllLines(pass[p].via)
  BY <1>4, AllLinesAre
<1>10. PICK lines \in Seq(Line) : lines = LinesTo(p, w, states) /\ LinesFit(lines)
  BY <1>1, <1>2, <1>4, LinesFitTo
<1>11. Advance(p, c, x, lines)
  BY <1>3, <1>5, <1>7, <1>9, <1>10 DEF Rung
<1>12. ClaimFits(t, c)
  BY <1>4, <1>8 DEF ClaimFits, Unbound, Waits
<1>13. ASSUME NEW s \in {"REQUESTED", "DISPATCHED"}
       PROVE  \E i \in DOMAIN lines : lines[i].task = t /\ lines[i].state = s
  <2>1. PICK i \in DOMAIN states : states[i] = s
    BY <1>4, <1>9, AllLinesAre
  <2>2. i \in DOMAIN lines /\ lines[i].task = t /\ lines[i].state = states[i]
    BY <1>1, <1>2, <1>10, LinesAre
  <2> QED BY <2>1, <2>2
<1>14. PassFits(t, c, x, lines)
  BY <1>4, <1>6, <1>8, <1>13 DEF PassFits
<1> QED BY <1>1, <1>2, <1>6, <1>10, <1>11, <1>12, <1>14, AdvanceStep

-----------------------------------------------------------------------------
(* The steps before the claim and after it.                                *)

\* The parts of what a step starts from.
LEMMA Parts == ASSUME IntakeOK
               PROVE  /\ TypeOK /\ BudgetOK /\ IntakeIInv /\ doc \in DocType /\ pen \in [Writers -> PenType]
                      /\ gap \in BOOLEAN /\ processed \in BOOLEAN /\ titled \in BOOLEAN /\ pending \in BOOLEAN
                      /\ Passes \subseteq Writers
  BY DocTyped, GatesTyped, WritersAre DEF IntakeOK

\* The doc's edges, which no property of the intake reads.
LEMMA DocTouched ==
    ASSUME NEW d \in DocType, NEW v \in {"new", "seen", "no"}, NEW b \in BOOLEAN
    PROVE  /\ [d EXCEPT !.listed = v] \in DocType /\ [d EXCEPT !.listed = v].lines = d.lines
           /\ [d EXCEPT !.listed = v].req = d.req
           /\ [d EXCEPT !.pushed = b] \in DocType /\ [d EXCEPT !.pushed = b].lines = d.lines
           /\ [d EXCEPT !.pushed = b].req = d.req
  BY DEF DocType

\* A pen whose guard alone is touched is the same pen.
LEMMA CoversTouched ==
    ASSUME TypeOK, NEW a \in Writers, NEW b \in BOOLEAN,
           pen' = [pen EXCEPT ![a].covers = b] \/ pen' = [pen EXCEPT ![a].guard = b]
    PROVE  pen' \in [Writers -> PenType] /\ \A c \in Writers : SamePen(c)
<1>1. PICK z \in PenType : z = pen[a]
  BY PenTyped
<1>2. PICK x : x = [z EXCEPT !.covers = b] \/ x = [z EXCEPT !.guard = b]
  OBVIOUS
<1>3. \E y \in {[z EXCEPT !.covers = b], [z EXCEPT !.guard = b]} : pen' = [pen EXCEPT ![a] = y]
  BY <1>1, DocTyped
<1>4. PICK y \in {[z EXCEPT !.covers = b], [z EXCEPT !.guard = b]} : pen' = [pen EXCEPT ![a] = y]
  BY <1>3
<1>5. y \in PenType /\ y.todo = z.todo /\ y.landed = z.landed /\ y.owed = z.owed
  BY <1>4 DEF PenType
<1> QED BY <1>1, <1>4, <1>5, PenTouched

\* The poll of the pages.
LEMMA PollKeeps == ASSUME IntakeOK, NEW p \in Passes, Poll(p) PROVE Good
<1>1. /\ pass[p].at = "off" /\ Go(p, "read") /\ pen' = [pen EXCEPT ![p].covers = TRUE]
      /\ UNCHANGED <<doc, weather, budget, gates, claim, queues, pending>>
  BY DEF Poll, At
<1>2. pen' \in [Writers -> PenType] /\ \A c \in Writers : SamePen(c)
  BY <1>1, Parts, CoversTouched
<1>3. Tidy
  BY <1>1, <1>2, Parts, TidyStill DEF gates
<1> QED BY <1>1, <1>2, <1>3, Parts, GoRests DEF Resting, Unclaimed

\* A push of a change arrives.
LEMMA PushKeeps == ASSUME IntakeOK, NEW p \in Passes, Push(p) PROVE Good
<1>1. /\ pass[p].at = "off" /\ Go(p, "advance") /\ pen' = [pen EXCEPT ![p].covers = TRUE] /\ pending' = TRUE
      /\ UNCHANGED <<doc, weather, budget, gates, claim, queues>>
  BY DEF Push, At
<1>2. pen' \in [Writers -> PenType] /\ \A c \in Writers : SamePen(c)
  BY <1>1, Parts, CoversTouched
<1>3. Tidy
  BY <1>1, <1>2, Parts, TidyStill DEF gates
<1> QED BY <1>1, <1>2, <1>3, Parts, GoRests DEF Resting, Unclaimed

\* The page token moves.
LEMMA MoveTokenKeeps == ASSUME IntakeOK, NEW p \in Passes, MoveToken(p) PROVE Good
<1>1. /\ pass[p].at = "advance" /\ Go(p, "read") /\ doc' = [doc EXCEPT !.pushed = ~pen[p].covers]
      /\ UNCHANGED <<pen, weather, budget, gates, claim, queues, pending>>
  BY DEF MoveToken, At
<1>2. pen' \in [Writers -> PenType] /\ \A c \in Writers : SamePen(c)
  BY <1>1, Parts, StillPen
<1>3. doc' \in DocType /\ doc'.lines = doc.lines
  <2>1. (~pen[p].covers) \in BOOLEAN
    OBVIOUS
  <2> QED BY <1>1, <2>1, Parts, DocTouched
<1>4. Tidy
  BY <1>1, <1>2, <1>3, Parts, TidyStill DEF gates
<1> QED BY <1>1, <1>2, <1>3, <1>4, Parts, GoRests DEF Resting, Unclaimed

\* A route is to a worker, by way of a wait or straight.
LEMMA RouteIs == ASSUME TypeOK PROVE Route.to \in Workers /\ Route.state \in Waits \cup {"REQUESTED"}
<1>1. room.to \in Workers \cup {NoWorker}
  BY IntakeTyped DEF RoomType
<1>2. CASE room.to # NoWorker
  <2>1. Route = [to |-> room.to, state |-> IF room.to = Laptop /\ ~beat /\ room.cli THEN "QUEUED" ELSE "REQUESTED"]
    BY <1>2 DEF Route
  <2> QED BY <1>1, <1>2, <2>1 DEF Waits
<1>3. CASE room.to = NoWorker
  <2>1. PICK r : r = Picked(beat /\ Laptop \in room.allowed)
    OBVIOUS
  <2>2. \/ r = [to |-> Laptop, state |-> "REQUESTED"] \/ r = [to |-> Laptop, state |-> "QUEUED"]
        \/ r = [to |-> Api, state |-> "REQUESTED"] \/ r = [to |-> Laptop, state |-> "BLOCKED"]
    BY <2>1 DEF Picked
  <2>3. r.to \in Workers /\ r.state \in Waits \cup {"REQUESTED"}
        /\ [r EXCEPT !.state = "BLOCKED"].to = r.to /\ [r EXCEPT !.state = "BLOCKED"].state = "BLOCKED"
    BY <2>2, WorkersAre DEF Waits
  <2>4. Route = IF r.to \in room.allowed THEN r ELSE [r EXCEPT !.state = "BLOCKED"]
    BY <1>3, <2>1 DEF Route
  <2> QED BY <2>3, <2>4 DEF Waits
<1> QED BY <1>2, <1>3

\* A pass reads the page.
LEMMA ReadKeeps == ASSUME IntakeOK, NEW p \in Passes, Read(p) PROVE Good
<1>1. /\ pass[p].at = "read" /\ UNCHANGED <<doc, weather, budget, gates, claim, queues, pending>>
         /\ pass[p] \in PassType
      /\ ~pass[p].held /\ ~pass[p].given
  BY HandIs, RestingHolds DEF Read, At, Unclaimed
<1>2. PICK lines : lines = Trail("drive-intake", doc.req)
  OBVIOUS
<1>3. PICK states : states = {l.state : l \in lines}
  OBVIOUS
<1>4. PICK asked : asked = {l \in lines : l.state = "REQUESTED"}
  OBVIOUS
<1>5. IF IsNote \/ NotAllowed \/ "DISPATCHED" \in states
      THEN Finish(p, TRUE) /\ UNCHANGED pen
      ELSE /\ Become(p, [pass[p] EXCEPT !.at = "admit", !.req = doc.req, !.to = Route.to, !.state = Route.state,
                            !.trail = states, !.named = IF asked = {} THEN NoWorker ELSE (CHOOSE l \in asked : TRUE).to])
           /\ pen' = [pen EXCEPT ![p].guard = TRUE]
  BY <1>2, <1>3, <1>4 DEF Read
<1>6. CASE IsNote \/ NotAllowed \/ "DISPATCHED" \in states
  <2>1. Finish(p, TRUE) /\ UNCHANGED pen
    BY <1>5, <1>6
  <2>2. pen' \in [Writers -> PenType] /\ \A c \in Writers : SamePen(c)
    BY <2>1, Parts, StillPen
  <2>3. Tidy
    BY <1>1, <2>2, Parts, TidyStill DEF gates
  <2> QED BY <1>1, <2>1, <2>2, <2>3, Parts, FinishRests
<1>7. CASE ~(IsNote \/ NotAllowed \/ "DISPATCHED" \in states)
  <2>1. PICK named : named = IF asked = {} THEN NoWorker ELSE (CHOOSE l \in asked : TRUE).to
    OBVIOUS
  <2>2. PICK x : x = [pass[p] EXCEPT !.at = "admit", !.req = doc.req, !.to = Route.to, !.state = Route.state,
                            !.trail = states, !.named = named]
    OBVIOUS
  <2>3. pass' = [pass EXCEPT ![p] = x] /\ pen' = [pen EXCEPT ![p].guard = TRUE]
    BY <1>5, <1>7, <2>1, <2>2 DEF Become
  <2>4. ASSUME NEW l \in lines
        PROVE  /\ l \in Line /\ l.state \in IntakeStates
                  /\ (l.state = "REQUESTED" => l.to \in OnInbox(doc.req))
    BY <1>2, Parts, DocTyped DEF Trail, IntakeIInv, DocTrue
  <2>5. states \subseteq Waits \cup {"REQUESTED"}
    BY <1>3, <1>7, <2>4 DEF IntakeStates
  <2>6. asked # {} => (CHOOSE l \in asked : TRUE) \in asked
    OBVIOUS
  <2>7. asked # {} => named \in OnInbox(doc.req) /\ named \in Workers
    <3>1. asked # {} => named = (CHOOSE l \in asked : TRUE).to
      BY <2>1
    <3>2. \A l \in asked : l.to \in OnInbox(doc.req) /\ l.to \in Workers
      BY <1>4, <2>4 DEF Line
    <3> QED BY <2>6, <3>1, <3>2
  <2>8. "REQUESTED" \in states => asked # {}
    BY <1>3, <1>4
  <2>9. named \in Workers \cup {NoWorker} /\ doc.req \in Requests
    BY <2>1, <2>7, Parts, DocTyped
  <2>10. PICK r : r = Route
    OBVIOUS
  <2>11. r.to \in Workers /\ r.state \in Waits \cup {"REQUESTED"}
    BY <2>10, Parts, RouteIs
  <2>12. /\ x \in PassType /\ x.at = "admit" /\ x.req = doc.req /\ x.to = r.to /\ x.trail = states
            /\ x.named = named
         /\ ~x.held /\ ~x.given
    BY <1>1, <2>2, <2>5, <2>9, <2>10, <2>11 DEF PassType, Steps
  <2>13. pen' \in [Writers -> PenType] /\ \A c \in Writers : SamePen(c)
    BY <2>3, Parts, CoversTouched
  <2>14. Tidy
    BY <1>1, <2>13, Parts, TidyStill DEF gates
  <2>15. pass'[p] = x
    BY <2>3, Parts, IntakeTyped
  <2>16. OnInbox(doc.req) = {w \in Workers : \E i \in DOMAIN inbox'[w] : inbox'[w][i] = x.req}
    BY <1>1, <2>12 DEF OnInbox, queues
  <2>17. PassOK(p)' /\ HeldOK(p)'
    <3>1. x.at \in Unclaimed /\ x.at \notin Placed /\ x.at \notin Asking /\ x.at = "admit"
      BY <2>12 DEF Unclaimed, Placed, Asking
    <3>3. x.to \in Workers
      BY <2>11, <2>12
    <3>4. "REQUESTED" \in x.trail => x.named \in OnInbox(doc.req)
      BY <2>7, <2>8, <2>12
    <3> QED BY <2>12, <2>15, <2>16, <3>1, <3>3, <3>4 DEF PassOK, HeldOK, OnInbox
  <2>18. PenOK(p)'
    <3>1. Spent /\ doc.lines \subseteq doc'.lines /\ UNCHANGED <<inbox, woken>>
      BY <1>1, <2>14 DEF Tidy, queues
    <3>2. Grows
      BY <3>1, Parts, GrowsQuiet
    <3> QED BY <2>13, <3>2, Parts, PenKept DEF IntakeIInv
  <2>19. Adds(p) /\ UNCHANGED <<claim, queues>>
    BY <1>1 DEF Adds
  <2> QED BY <2>3, <2>12, <2>13, <2>14, <2>17, <2>18, <2>19, QuietStep
<1> QED BY <1>6, <1>7

\* The request is admitted, or refused.
LEMMA AdmitKeeps == ASSUME IntakeOK, NEW p \in Passes, Admit(p) PROVE Good
<1>1. /\ pass[p].at = "admit"
         /\ UNCHANGED <<doc, pen, weather, budget, processed, titled, claim, queues, pending>>
      /\ pass[p] \in PassType
  BY HandIs DEF Admit, At
<1>2. pen' \in [Writers -> PenType] /\ \A c \in Writers : SamePen(c)
  BY <1>1, Parts, StillPen
<1>3. CASE Finish(p, TRUE) /\ UNCHANGED gap
  <2>1. Tidy
    BY <1>1, <1>2, <1>3, Parts, TidyStill
  <2> QED BY <1>1, <1>2, <1>3, <2>1, Parts, FinishRests
<1>4. CASE Go(p, "claim") /\ gap' = (gap \/ (Untouched(p) /\ room.live))
  <2>1. gap' \in BOOLEAN
    BY <1>4, Parts
  <2>2. Tidy
    BY <1>1, <1>2, <2>1, Parts, TidyStill
  <2>3. PICK x \in PassType : pass' = [pass EXCEPT ![p] = x] /\ x.at = "claim" /\ Same(x, pass[p])
    BY <1>4, Parts, GoIs DEF Steps
  <2>4. pass'[p] = x
    BY <2>3, Parts, IntakeTyped
  <2>5. PassOK(p)' /\ HeldOK(p)'
    <3>1. x.at \in Unclaimed /\ x.at \notin Placed /\ x.at \notin Asking /\ x.at = "claim"
      BY <2>3 DEF Unclaimed, Placed, Asking
    <3>2. /\ x.to \in Workers /\ ~x.held /\ ~x.given
          /\ "REQUESTED" \in x.trail => x.named \in OnInbox(x.req)
      BY <1>1, <2>3, HandIs, RestingHolds DEF PassOK, Same, InHand, Unclaimed
    <3> QED BY <1>1, <2>4, <3>1, <3>2 DEF PassOK, HeldOK, OnInbox, queues
  <2>6. PenOK(p)'
    <3>1. Spent /\ doc.lines \subseteq doc'.lines /\ UNCHANGED <<inbox, woken>>
      BY <1>1, <2>2 DEF Tidy, queues
    <3>2. Grows
      BY <3>1, Parts, GrowsQuiet
    <3> QED BY <1>2, <3>2, Parts, PenKept DEF IntakeIInv
  <2>7. Adds(p) /\ UNCHANGED <<claim, queues>>
    BY <1>1 DEF Adds
  <2> QED BY <1>2, <2>2, <2>3, <2>5, <2>6, <2>7, QuietStep
<1> QED BY <1>3, <1>4 DEF Admit

\* A pass that is to wait and does.
LEMMA WaitingKeeps == ASSUME IntakeOK, NEW p \in Passes, Waiting(p) PROVE Good
<1>1. Finish(p, FALSE) /\ UNCHANGED <<doc, pen, weather, budget, gates, claim, queues, pending>>
  BY DEF Waiting
<1>2. pen' \in [Writers -> PenType] /\ \A c \in Writers : SamePen(c)
  BY <1>1, Parts, StillPen
<1>3. Tidy
  BY <1>1, <1>2, Parts, TidyStill DEF gates
<1> QED BY <1>1, <1>2, <1>3, Parts, FinishRests

\* The processed mark.
LEMMA ConsumeKeeps == ASSUME IntakeOK, NEW p \in Passes, Consume(p) PROVE Good
<1>1. /\ Finish(p, TRUE) /\ UNCHANGED <<doc, pen, weather, budget, gap, claim, queues, pending>>
      /\ processed' = TRUE /\ titled' \in {titled, FALSE}
  BY DEF Consume
<1>2. pen' \in [Writers -> PenType] /\ \A c \in Writers : SamePen(c)
  BY <1>1, Parts, StillPen
<1>3. Tidy
  BY <1>1, <1>2, Parts, TidyStill
<1> QED BY <1>1, <1>2, <1>3, Parts, FinishRests

\* A pass ends, and what it did not finish stays pending.
LEMMA EndKeeps == ASSUME IntakeOK, NEW p \in Passes, End(p) PROVE Good
<1>1. /\ pending' = Keeps(p) /\ Become(p, Off) /\ pen' = [pen EXCEPT ![p] = NoPen]
      /\ doc' = [doc EXCEPT !.listed = IF p \notin Pushes /\ pen[p].covers /\ @ = "new" THEN "seen" ELSE @]
      /\ UNCHANGED <<weather, budget, gates, claim, queues>>
  BY DEF End
<1>2. doc' \in DocType /\ doc'.lines = doc.lines
  BY <1>1, Parts DEF DocType
<1>3. /\ pen' \in [Writers -> PenType] /\ \A b \in Writers \ {p} : SamePen(b)
      /\ pen'[p].todo = <<>> /\ ~pen'[p].landed
  BY <1>1, Parts, PenDropped
<1>4. Tidy
  BY <1>1, <1>2, <1>3, Parts, TidyStill DEF gates, Keeps
<1> QED BY <1>1, <1>2, <1>3, <1>4, OffIs, RestStep DEF Become, Resting

\* A pass dies with what it knew.
LEMMA DiesKeeps ==
    ASSUME IntakeOK, NEW p \in Passes, Dies(p), Use("fault"), UNCHANGED <<weather, gates>> PROVE Good
<1>1. /\ pending' \in {pending, pending \/ p \in Pushes} /\ Become(p, Off) /\ pen' = [pen EXCEPT ![p] = NoPen]
      /\ UNCHANGED <<doc, claim, queues>>
  BY DEF Dies
<1>2. doc' \in DocType /\ doc'.lines = doc.lines
  BY <1>1, Parts
<1>3. /\ pen' \in [Writers -> PenType] /\ \A b \in Writers \ {p} : SamePen(b)
      /\ pen'[p].todo = <<>> /\ ~pen'[p].landed
  BY <1>1, Parts, PenDropped
<1>4. Tidy
  <2>1. pending' \in BOOLEAN
    BY <1>1, Parts
  <2>2. "fault" \in Bounds \ {"day"}
    BY DEF Bounds
  <2> QED BY <1>2, <1>3, <2>1, <2>2, Parts, TidyUsed DEF gates
<1> QED BY <1>1, <1>2, <1>3, <1>4, OffIs, RestStep DEF Become, Resting

\* The page cannot be read.
LEMMA ReadFailsKeeps ==
    ASSUME IntakeOK, NEW p \in Passes, ReadFails(p), Use("fault"),
          UNCHANGED <<weather, gates, claim, pending>> PROVE Good
<1>1. Finish(p, FALSE) /\ UNCHANGED <<doc, pen, queues>>
  BY DEF ReadFails
<1>2. pen' \in [Writers -> PenType] /\ \A c \in Writers : SamePen(c)
  BY <1>1, Parts, StillPen
<1>3. "fault" \in Bounds \ {"day"}
  BY DEF Bounds
<1>4. Tidy
  BY <1>1, <1>2, <1>3, Parts, TidyUsed DEF gates
<1> QED BY <1>1, <1>2, <1>4, Parts, FinishRests

-----------------------------------------------------------------------------
(* The receipts.                                                           *)

\* A step of write_receipt by anyone, nothing else but the use of a fault.
LEMMA WritesKeeps ==
    ASSUME IntakeOK, NEW a \in Writers, Writes(a), UNCHANGED <<weather, gates, claim, queues, pending, pass>>,
           UNCHANGED budget \/ Use("fault")
    PROVE  Good
<1>1. TypeOK /\ BudgetOK /\ IntakeIInv
  BY Parts
<1>2. "fault" \in Bounds \ {"day"}
  BY DEF Bounds
<1>3. Tidy
  BY <1>1, <1>2, Parts, TidyUsed, TidyStill DEF gates, Writes
<1>4. claim' = claim /\ marker' = marker /\ inbox' = inbox /\ seen' = seen /\ woken' = woken /\ pass' = pass
  BY DEF queues
<1>5. Grows
  BY <1>1, <1>3, <1>4, GrowsQuiet DEF Tidy, Writes
<1>6. ASSUME NEW b \in Writers PROVE PenOK(b)'
  <2>1. CASE b = a
    BY <1>1, <1>5, <2>1, PenWritten DEF IntakeIInv
  <2>2. CASE b # a
    <3>1. SamePen(b)
      BY <2>2 DEF Writes
    <3> QED BY <1>1, <1>5, <3>1, PenKept DEF IntakeIInv
  <2> QED BY <2>1, <2>2
<1>7. DocTrue'
  BY <1>1, <1>5, DocKept DEF Writes, IntakeIInv
<1>8. ASSUME NEW t \in Requests PROVE SameClaim(t) /\ CalmTask(t) /\ ClaimOK(t)' /\ QueueOK(t)'
  <2>1. SameClaim(t) /\ CalmTask(t)
    BY <1>4 DEF SameClaim, CalmTask, OnInbox
  <2>2. QueueOK(t)'
    BY <1>1, <1>3, QueueKept DEF Tidy, IntakeIInv
  <2> QED BY <1>1, <1>5, <2>1, <2>2, ClaimKept DEF IntakeIInv
<1>9. ASSUME NEW q \in Passes PROVE PassOK(q)' /\ HeldOK(q)'
  <2>1. PICK t \in Requests : t = pass[q].req
    BY <1>1, PassTyped
  <2>2. Undisturbed(q) /\ CalmTask(t)
    BY <1>4, <1>8, <2>1 DEF Undisturbed
  <2>3. CASE q # a
    <3>1. SamePen(q)
      BY <2>3, WritersAre DEF Writes
    <3> QED BY <1>1, <1>5, <2>1, <2>2, <3>1, OtherKept DEF IntakeIInv
  <2>4. CASE q = a
    <3>1. PassOK(q) /\ HeldOK(q) /\ PenOK(a)
      BY <1>1 DEF IntakeIInv
    <3>2. doc.lines \subseteq doc'.lines
      BY DEF Writes
    <3>3. ~pen'[a].owed => ~pen[a].owed
      BY <1>1, PenTyped DEF Writes
    <3>4. ASSUME NEW s, ~pen'[q].owed, Coming(a, "drive-intake", t, s) PROVE Coming(a, "drive-intake", t, s)'
      BY <1>1, <2>4, <3>1, <3>2, <3>4, ComingWritten
    <3>5. /\ OnInbox(t)' = OnInbox(t) /\ (RingsWork' => RingsWork)
      BY <1>1, <1>3, <1>4, RingsWorked DEF OnInbox, Tidy
    <3>6. pass[q].at = "settle" /\ ~pen'[q].owed =>
            Coming(q, "drive-intake", t, "REQUESTED")' /\ Coming(q, "drive-intake", t, "DISPATCHED")'
      BY <2>1, <2>4, <3>1, <3>3, <3>4 DEF PassOK
    <3>7. PassOK(q)'
      BY <1>4, <2>1, <3>1, <3>5, <3>6 DEF PassOK
    <3>8. HeldOK(q)'
      BY <1>4, <3>1 DEF HeldOK
    <3> QED BY <3>7, <3>8
  <2> QED BY <2>3, <2>4
<1>10. IntakeIInv'
  BY <1>6, <1>7, <1>8, <1>9 DEF IntakeIInv
<1>11. IntakeTypeOK' /\ BudgetOK'
  BY <1>1, <1>3, <1>4, IntakeTyped, TidyTypes
<1> QED BY <1>10, <1>11 DEF Good

-----------------------------------------------------------------------------
(* A step that writes no line.                                             *)

\* A page without a new line stays true.
LEMMA DocSame == ASSUME TypeOK, BudgetOK, Grows, DocTrue, doc'.lines = doc.lines PROVE DocTrue'
<1>1. ASSUME NEW l \in doc.lines
      PROVE  /\ l.by = "drive-intake" => l.state \in IntakeStates
             /\ l.state \in {"REQUESTED", "DISPATCHED"} => (l.to \in OnInbox(l.task))'
             /\ l.state = "DISPATCHED" /\ RingsWork' /\ l \notin Given' => woken'[l.task][l.to] > 0
  <2>1. l \in Line
    BY DocTyped
  <2>2. l.task \in Requests /\ l.to \in Workers
    BY <2>1 DEF Line
  <2>3. woken[l.task][l.to] \in Nat /\ woken'[l.task][l.to] \in Nat
           /\ woken[l.task][l.to] <= woken'[l.task][l.to]
        /\ OnInbox(l.task) \subseteq OnInbox(l.task)'
    BY <2>2, IntakeTyped DEF Grows
  <2>4. RingsWork' => RingsWork
    BY RingsWorked DEF Grows
  <2>5. Given' = Given
    BY DEF Grows, Spent, Given
  <2>6. (l.to \in OnInbox(l.task))' <=> l.to \in OnInbox(l.task)'
    BY DEF OnInbox
  <2> QED BY <2>3, <2>4, <2>5, <2>6 DEF DocTrue
<1> QED BY <1>1 DEF DocTrue

\* Each pass keeps what it had, or what it knows now is so.
LEMMA PlainStep ==
    ASSUME TypeOK, BudgetOK, IntakeIInv, Grows, doc'.lines = doc.lines, \A b \in Writers : SamePen(b),
           \A t \in Requests : ClaimOK(t)' /\ QueueOK(t)',
           \A q \in Passes : (PassOK(q)' /\ HeldOK(q)') \/ (Undisturbed(q) /\ CalmTask(pass[q].req))
    PROVE  IntakeIInv'
<1>1. \A q \in Passes : q \in Writers
  BY WritersAre
<1>2. DocTrue'
  BY DocSame DEF IntakeIInv
<1>3. ASSUME NEW a \in Writers PROVE PenOK(a)'
  BY <1>3, PenKept DEF IntakeIInv
<1>4. ASSUME NEW q \in Passes PROVE PassOK(q)' /\ HeldOK(q)'
  <2>1. CASE Undisturbed(q) /\ CalmTask(pass[q].req)
    <3>1. PICK t \in Requests : t = pass[q].req
      BY PassTyped
    <3>2. CalmTask(t)
      BY <2>1, <3>1
    <3> QED BY <1>1, <2>1, <3>1, <3>2, OtherKept DEF IntakeIInv
  <2> QED BY <2>1
<1> QED BY <1>2, <1>3, <1>4 DEF IntakeIInv

\* The queues change, and no claim.
LEMMA QueueStep ==
    ASSUME IntakeOK, Tidy, UNCHANGED claim, doc'.lines = doc.lines, \A b \in Writers : SamePen(b),
           marker' \in [Requests -> Workers \cup {NoWorker}], inbox' \in [Workers -> Seq(Requests)],
           seen' \in [Requests -> SUBSET Workers], woken' \in [Requests -> [Workers -> Nat]],
           \A t \in Requests : OnInbox(t) \subseteq OnInbox(t)',
           \A t \in Requests, w \in Workers : woken[t][w] <= woken'[t][w],
           \A t \in Requests : CalmTask(t) /\ QueueOK(t)',
           pass' \in [Passes -> PassType],
           \A q \in Passes : (PassOK(q)' /\ HeldOK(q)') \/ pass'[q] = pass[q]
    PROVE  Good
<1>1. TypeOK /\ BudgetOK /\ IntakeIInv
  BY Parts
<1>2. Grows
  BY DEF Grows, Tidy
<1>3. \A t \in Requests : SameClaim(t)
  BY DEF SameClaim
<1>4. \A t \in Requests : ClaimOK(t)'
  BY <1>1, <1>2, <1>3, ClaimKept DEF IntakeIInv
<1>5. \A q \in Passes : pass[q].req \in Requests
  BY <1>1, PassTyped
<1>6. \A q \in Passes : pass'[q] = pass[q] => Undisturbed(q) /\ CalmTask(pass[q].req)
  BY <1>3, <1>5 DEF Undisturbed
<1>7. IntakeIInv'
  BY <1>1, <1>2, <1>4, <1>6, PlainStep
<1>8. claim' \in [Requests -> ClaimType]
  BY <1>1, IntakeTyped
<1>9. IntakeTypeOK' /\ BudgetOK'
  BY <1>1, <1>8, TidyTypes
<1> QED BY <1>7, <1>9 DEF Good

-----------------------------------------------------------------------------
(* The marker and the inbox.                                               *)

\* The wakes, untouched, are what they were.
LEMMA RingsSame ==
    ASSUME TypeOK, UNCHANGED <<seen, woken>>
    PROVE  /\ seen' \in [Requests -> SUBSET Workers] /\ woken' \in [Requests -> [Workers -> Nat]]
           /\ \A u \in Requests, v \in Workers : woken[u][v] <= woken'[u][v]
<1>1. seen' = seen /\ woken' = woken /\ seen \in [Requests -> SUBSET Workers]
         /\ woken \in [Requests -> [Workers -> Nat]]
  BY IntakeTyped
<1>2. ASSUME NEW u \in Requests, NEW v \in Workers PROVE woken[u][v] <= woken'[u][v]
  <2>1. PICK n \in Nat : n = woken[u][v]
    BY WorkerTyped
  <2> QED BY <1>1, <2>1
<1> QED BY <1>1, <1>2

\* Who holds a task: the marker if there is one, else the inbox it is on.
LEMMA HolderIs ==
    ASSUME TypeOK, NEW t \in Requests, QueueOK(t)
    PROVE  /\ Holder(t) = NoWorker => OnInbox(t) = {} /\ marker[t] = NoWorker
           /\ Holder(t) # NoWorker => Holder(t) \in OnInbox(t) /\ Holder(t) \in Workers
           /\ marker[t] # NoWorker => Holder(t) = marker[t]
<1>1. OnInbox(t) \subseteq Workers /\ NoWorker \notin Workers
  BY OnInboxIs, WorkersAre
<1>2. marker[t] # NoWorker => marker[t] \in OnInbox(t)
  BY DEF QueueOK
<1>3. OnInbox(t) # {} => (CHOOSE w \in OnInbox(t) : TRUE) \in OnInbox(t)
  OBVIOUS
<1> QED BY <1>1, <1>2, <1>3 DEF Holder

\* Only the marker of t becomes what it ought to be.
LEMMA SeeHolderIs ==
    ASSUME IntakeOK, UNCHANGED <<room, inbox, seen, woken>>, UNCHANGED budget, NEW t \in Requests,
          SeeHolder(t)
    PROVE  /\ marker' \in [Requests -> Workers \cup {NoWorker}] /\ marker'[t] = Holder(t)
           /\ \A u \in Requests : OnInbox(u)' = OnInbox(u) /\ QueueOK(u)' /\ (SameClaim(u) => CalmTask(u))
<1>1. TypeOK /\ BudgetOK /\ \A u \in Requests : QueueOK(u)
  BY Parts DEF IntakeIInv
<1>2. marker' = [marker EXCEPT ![t] = Holder(t)]
  BY DEF SeeHolder
<1>3. Holder(t) \in Workers \cup {NoWorker}
  BY <1>1, HolderIs
<1>4. marker' \in [Requests -> Workers \cup {NoWorker}] /\ marker'[t] = Holder(t)
      /\ \A u \in Requests \ {t} : marker'[u] = marker[u]
  BY <1>1, <1>2, <1>3, IntakeTyped
<1>5. ASSUME NEW u \in Requests PROVE OnInbox(u)' = OnInbox(u) /\ QueueOK(u)' /\ (SameClaim(u) => CalmTask(u))
  <2>1. OnInbox(u)' = OnInbox(u) /\ OnePlace(u)' = OnePlace(u) /\ Used("forget")' = Used("forget")
        /\ Used("wake")' = Used("wake")
    BY DEF OnInbox, OnePlace, Used
  <2>2. marker'[u] # NoWorker => marker'[u] \in OnInbox(u)
    BY <1>1, <1>4, HolderIs DEF QueueOK
  <2>3. QueueOK(u)'
    BY <1>1, <2>1, <2>2 DEF QueueOK
  <2>4. marker'[u] = marker[u] \/ (marker[u] = NoWorker /\ marker'[u] # NoWorker /\ OnInbox(u) # {})
    BY <1>1, <1>4, <2>2, HolderIs
  <2> QED BY <2>1, <2>3, <2>4 DEF CalmTask
<1> QED BY <1>4, <1>5

\* A pass asks who holds its task before it puts it anywhere.
LEMMA AskHolderKeeps == ASSUME IntakeOK, NEW p \in Passes, AskHolder(p) PROVE Good
<1>1. PICK t \in Requests : t = pass[p].req
  BY HandIs
<1>2. /\ pass[p].at = "holder" /\ SeeHolder(t)
      /\ UNCHANGED <<doc, pen, weather, budget, gates, claim, inbox, seen, woken, pending>>
  BY <1>1 DEF AskHolder, At, Req
<1>3. TypeOK /\ QueueOK(t) /\ PassOK(p) /\ HeldOK(p) /\ pass[p] \in PassType /\ pass[p].to \in Workers
  BY <1>2, Parts, HandIs DEF IntakeIInv, InHand, Asking
<1>4. PICK w : w = Holder(t)
  OBVIOUS
<1>5. /\ marker' \in [Requests -> Workers \cup {NoWorker}] /\ marker'[t] = w
      /\ \A u \in Requests : OnInbox(u)' = OnInbox(u) /\ QueueOK(u)' /\ CalmTask(u)
  BY <1>2, <1>4, SeeHolderIs DEF weather, SameClaim
<1>6. PICK x : x = [pass[p] EXCEPT !.at = IF w = NoWorker THEN "put" ELSE IF w = pass[p].to THEN "landed" ELSE "rebind",
                                 !.to = IF w = NoWorker THEN @ ELSE w]
  OBVIOUS
<1>7. pass' = [pass EXCEPT ![p] = x]
  BY <1>1, <1>4, <1>6 DEF AskHolder, Become, Req
<1>8. /\ w = NoWorker => OnInbox(t) = {} /\ marker[t] = NoWorker
      /\ w # NoWorker => w \in OnInbox(t) /\ w \in Workers
  BY <1>3, <1>4, HolderIs
<1>9. /\ x \in PassType /\ x.req = t /\ x.held = pass[p].held /\ x.given = pass[p].given /\ x.to \in Workers
      /\ w = NoWorker => x.at = "put" /\ x.to = pass[p].to
      /\ w # NoWorker => x.at \in {"landed", "rebind"} /\ x.to = w
  BY <1>1, <1>3, <1>6, <1>8 DEF PassType, Steps
<1>10. pass' \in [Passes -> PassType] /\ pass'[p] = x /\ \A q \in Passes \ {p} : pass'[q] = pass[q]
  BY <1>3, <1>7, <1>9, IntakeTyped
<1>11. PassOK(p)'
  <2>1. x.at \notin Unclaimed
           /\ x.at \notin {"check", "admit", "claim", "seed", "wait", "waiting", "rung", "settle"}
    BY <1>9 DEF Unclaimed
  <2>2. ~x.given
    BY <1>2, <1>3, <1>9 DEF PassOK
  <2>3. x.at \in Placed => x.to \in OnInbox(t)'
    BY <1>5, <1>8, <1>9 DEF Placed
  <2>4. x.at \in Asking => w = NoWorker /\ x.at = "put"
    BY <1>9 DEF Asking
  <2>5. x.at \in Asking => claim[t].phase = "delivering" /\ claim[t].to = x.to
    BY <1>1, <1>2, <1>3, <1>8, <1>9, <2>4 DEF PassOK, Asking
  <2>6. x.at = "put" => marker'[t] = NoWorker /\ OnInbox(t)' = {}
    BY <1>5, <1>8, <1>9
  <2> QED BY <1>2, <1>9, <1>10, <2>1, <2>2, <2>3, <2>5, <2>6 DEF PassOK
<1>12. HeldOK(p)'
  <2>1. x.held => claim[t].phase = "delivering" /\ claim[t].to = pass[p].to
    BY <1>1, <1>2, <1>3, <1>9 DEF HeldOK, Asking
  <2>2. x.at \in Asking \cup {"give"} => x.to = pass[p].to
    BY <1>9 DEF Asking
  <2>3. x.at # "wait" /\ x.at # "bind"
    BY <1>9
  <2> QED BY <1>2, <1>9, <1>10, <2>1, <2>2, <2>3 DEF HeldOK
<1>13. Tidy /\ \A b \in Writers : SamePen(b)
  BY <1>2, Parts, StillPen, TidyStill DEF gates
<1>14. /\ inbox' \in [Workers -> Seq(Requests)] /\ seen' \in [Requests -> SUBSET Workers]
       /\ woken' \in [Requests -> [Workers -> Nat]] /\ \A u \in Requests,
             v \in Workers : woken[u][v] <= woken'[u][v]
  BY <1>2, <1>3, IntakeTyped, RingsSame
<1> QED BY <1>2, <1>5, <1>10, <1>11, <1>12, <1>13, <1>14, QueueStep

\* It checks after the put whose the marker is.
LEMMA CheckKeeps == ASSUME IntakeOK, NEW p \in Passes, Check(p) PROVE Good
<1>1. PICK t \in Requests : t = pass[p].req
  BY HandIs
<1>2. /\ pass[p].at = "check" /\ SeeHolder(t)
      /\ UNCHANGED <<doc, pen, weather, budget, gates, claim, inbox, seen, woken, pending>>
  BY <1>1 DEF Check, At, Req
<1>3. TypeOK /\ QueueOK(t) /\ PassOK(p) /\ HeldOK(p) /\ pass[p] \in PassType /\ pass[p].to \in Workers
  BY <1>2, Parts, HandIs DEF IntakeIInv, InHand, Asking
<1>4. PICK w : w = Holder(t)
  OBVIOUS
<1>5. /\ marker' \in [Requests -> Workers \cup {NoWorker}] /\ marker'[t] = w
      /\ \A u \in Requests : OnInbox(u)' = OnInbox(u) /\ QueueOK(u)' /\ CalmTask(u)
  BY <1>2, <1>4, SeeHolderIs DEF weather, SameClaim
<1>6. Go(p, IF w = NoWorker THEN "give" ELSE "landed")
  BY <1>1, <1>4 DEF Check, Req
<1>7. PICK x \in PassType : /\ pass' = [pass EXCEPT ![p] = x] /\ Same(x, pass[p])
                            /\ x.at = IF w = NoWorker THEN "give" ELSE "landed"
  BY <1>3, <1>6, GoIs DEF Steps
<1>8. /\ w = NoWorker => OnInbox(t) = {} /\ marker[t] = NoWorker
      /\ w # NoWorker => w \in OnInbox(t) /\ w \in Workers
      /\ marker[t] # NoWorker => w = marker[t]
  BY <1>3, <1>4, HolderIs
<1>9. marker[t] \in {NoWorker, pass[p].to} /\ (marker[t] = NoWorker => OnInbox(t) = {}) /\ ~pass[p].given
  BY <1>1, <1>2, <1>3 DEF PassOK
<1>10. pass' \in [Passes -> PassType] /\ pass'[p] = x /\ \A q \in Passes \ {p} : pass'[q] = pass[q]
  BY <1>3, <1>7, IntakeTyped
<1>11. x.req = t /\ x.to = pass[p].to /\ x.held = pass[p].held /\ ~x.given
  BY <1>1, <1>7, <1>9 DEF Same
<1>12. PassOK(p)'
  <2>1. /\ x.at \notin Unclaimed /\ x.at \notin Asking
        /\ x.at \notin {"put", "check", "admit", "claim", "seed", "wait", "waiting", "rung", "settle"}
    BY <1>7 DEF Unclaimed, Asking
  <2>2. x.at \in Placed => w # NoWorker
    BY <1>7 DEF Placed
  <2>3. x.at \in Placed => x.to \in OnInbox(t)'
    BY <1>5, <1>8, <1>9, <1>11, <2>2
  <2> QED BY <1>2, <1>3, <1>10, <1>11, <2>1, <2>3 DEF PassOK
<1>13. HeldOK(p)'
  <2>1. x.held => claim[t].phase = "delivering" /\ claim[t].to = x.to
    BY <1>1, <1>2, <1>3, <1>11 DEF HeldOK, Asking
  <2>2. x.at # "wait" /\ x.at # "bind"
    BY <1>7
  <2> QED BY <1>2, <1>10, <1>11, <2>1, <2>2 DEF HeldOK
<1>14. Tidy /\ \A b \in Writers : SamePen(b)
  BY <1>2, Parts, StillPen, TidyStill DEF gates
<1>15. /\ inbox' \in [Workers -> Seq(Requests)] /\ seen' \in [Requests -> SUBSET Workers]
       /\ woken' \in [Requests -> [Workers -> Nat]] /\ \A u \in Requests,
             v \in Workers : woken[u][v] <= woken'[u][v]
  BY <1>2, <1>3, IntakeTyped, RingsSame
<1> QED BY <1>2, <1>5, <1>10, <1>12, <1>13, <1>14, <1>15, QueueStep

-----------------------------------------------------------------------------
(* The put.                                                                *)

\* The inbox of w has one more task.
LEMMA AppendIs ==
    ASSUME TypeOK, NEW t \in Requests, NEW w \in Workers, OnInbox(t) = {},
          inbox' = [inbox EXCEPT ![w] = Append(@, t)],
           \A u \in Requests : OnePlace(u)
    PROVE  /\ inbox' \in [Workers -> Seq(Requests)]
           /\ \A u \in Requests \ {t} : OnInbox(u)' = OnInbox(u)
           /\ OnInbox(t)' = {w}
           /\ \A u \in Requests : OnePlace(u)'
<1>1. inbox \in [Workers -> Seq(Requests)] /\ inbox[w] \in Seq(Requests)
  BY IntakeTyped
<1>2. PICK s : s = Append(inbox[w], t)
  OBVIOUS
<1>3. PICK n \in Nat : n = Len(inbox[w])
  BY <1>1, LenProperties
<1>4. /\ s \in Seq(Requests) /\ Len(s) = n + 1 /\ s[n + 1] = t /\ \A i \in 1..n : s[i] = inbox[w][i]
      /\ DOMAIN s = 1..(n + 1) /\ DOMAIN inbox[w] = 1..n
  BY <1>1, <1>2, <1>3, AppendProperties, LenProperties
<1>5. inbox' = [inbox EXCEPT ![w] = s]
  BY <1>2
<1>6. inbox' \in [Workers -> Seq(Requests)] /\ inbox'[w] = s /\ \A v \in Workers \ {w} : inbox'[v] = inbox[v]
  BY <1>1, <1>4, <1>5
<1>7. ASSUME NEW u \in Requests, NEW v \in Workers, NEW i \in DOMAIN inbox'[v], inbox'[v][i] = u
      PROVE  \/ i \in DOMAIN inbox[v] /\ inbox[v][i] = u
             \/ v = w /\ i = n + 1 /\ u = t
  <2>1. CASE v = w
    <3>1. i \in 1..(n + 1) /\ s[i] = u
      BY <1>4, <1>6, <1>7, <2>1
    <3>2. i = n + 1 \/ i \in 1..n
      BY <3>1
    <3> QED BY <1>4, <2>1, <3>1, <3>2
  <2>2. CASE v # w
    BY <1>6, <1>7, <2>2
  <2> QED BY <2>1, <2>2
<1>8. ASSUME NEW u \in Requests, NEW v \in Workers, NEW i \in DOMAIN inbox[v], inbox[v][i] = u
      PROVE  i \in DOMAIN inbox'[v] /\ inbox'[v][i] = u
  <2>1. CASE v = w
    BY <1>4, <1>6, <1>8, <2>1
  <2>2. CASE v # w
    BY <1>6, <1>8, <2>2
  <2> QED BY <2>1, <2>2
<1>9. ASSUME NEW u \in Requests, u # t PROVE OnInbox(u)' = OnInbox(u)
  BY <1>7, <1>8, <1>9 DEF OnInbox
<1>10. ~ \E v \in Workers : \E i \in DOMAIN inbox[v] : inbox[v][i] = t
  BY DEF OnInbox
<1>11. OnInbox(t)' = {w}
  <2>1. n + 1 \in DOMAIN inbox'[w] /\ inbox'[w][n + 1] = t
    BY <1>4, <1>6
  <2>2. \A v \in Workers : \A i \in DOMAIN inbox'[v] : inbox'[v][i] = t => v = w
    BY <1>7, <1>10
  <2> QED BY <2>1, <2>2 DEF OnInbox
<1>12. ASSUME NEW u \in Requests PROVE OnePlace(u)'
  <2>1. ASSUME NEW v \in Workers, NEW x \in Workers, NEW i \in DOMAIN inbox'[v], NEW j \in DOMAIN inbox'[x],
               inbox'[v][i] = u, inbox'[x][j] = u
        PROVE  v = x /\ i = j
    <3>1. CASE u = t
      BY <1>7, <1>10, <2>1, <3>1
    <3>2. CASE u # t
      <4>1. i \in DOMAIN inbox[v] /\ inbox[v][i] = u /\ j \in DOMAIN inbox[x] /\ inbox[x][j] = u
        BY <1>7, <2>1, <3>2
      <4> QED BY <4>1 DEF OnePlace
    <3> QED BY <3>1, <3>2
  <2> QED BY <2>1 DEF OnePlace
<1> QED BY <1>6, <1>9, <1>11, <1>12

\* What the put, carried out or not, does of a task that is nowhere or where it is marked to be.
LEMMA PutIs ==
    ASSUME IntakeOK, Spent, UNCHANGED <<seen, woken>>, NEW t \in Requests, NEW w \in Workers,
           Used("forget")' = Used("forget"), Used("wake")' = Used("wake"),
           marker[t] = NoWorker => OnInbox(t) = {}, PutOnce(t, w) \/ UNCHANGED <<marker, inbox>>
    PROVE  /\ marker' \in [Requests -> Workers \cup {NoWorker}] /\ inbox' \in [Workers -> Seq(Requests)]
           /\ \A u \in Requests : QueueOK(u)' /\ OnInbox(u) \subseteq OnInbox(u)'
           /\ \A u \in Requests \ {t} : marker'[u] = marker[u] /\ OnInbox(u)' = OnInbox(u)
           /\ \/ marker'[t] = marker[t] /\ OnInbox(t)' = OnInbox(t) /\ (PutOnce(t, w) => marker[t] # NoWorker)
              \/ marker[t] = NoWorker /\ marker'[t] = w /\ OnInbox(t) = {} /\ OnInbox(t)' = {w}
<1>1. TypeOK /\ BudgetOK /\ \A u \in Requests : QueueOK(u)
  BY Parts DEF IntakeIInv
<1>2. \A u \in Requests : OnePlace(u)
  BY <1>1 DEF QueueOK
<1>3. CASE UNCHANGED <<marker, inbox>>
  <2>1. \A u \in Requests : OnInbox(u)' = OnInbox(u)
    BY <1>3 DEF OnInbox
  <2>2. \A u \in Requests : QueueOK(u)'
    BY <1>1, <1>3, QueueKept DEF queues
  <2>3. PutOnce(t, w) => marker[t] # NoWorker
    <3>1. marker[t] = NoWorker /\ PutOnce(t, w) => marker' = [marker EXCEPT ![t] = w]
      BY DEF PutOnce
    <3>2. marker[t] = NoWorker /\ PutOnce(t, w) => marker'[t] = w
      BY <1>1, <3>1, IntakeTyped
    <3> QED BY <1>3, <3>2, WorkersAre
  <2> QED BY <1>1, <1>3, <2>1, <2>2, <2>3, IntakeTyped
<1>4. CASE PutOnce(t, w) /\ marker[t] = NoWorker
  <2>1. OnInbox(t) = {}
    BY <1>4
  <2>2. marker' = [marker EXCEPT ![t] = w] /\ inbox' = [inbox EXCEPT ![w] = Append(@, t)]
    BY <1>4, <2>1 DEF PutOnce
  <2>3. /\ marker' \in [Requests -> Workers \cup {NoWorker}] /\ marker'[t] = w
        /\ \A u \in Requests \ {t} : marker'[u] = marker[u]
    BY <1>1, <2>2, IntakeTyped
  <2>4. /\ inbox' \in [Workers -> Seq(Requests)]
        /\ \A u \in Requests \ {t} : OnInbox(u)' = OnInbox(u)
        /\ OnInbox(t)' = {w}
        /\ \A u \in Requests : OnePlace(u)'
    BY <1>1, <1>2, <2>1, <2>2, AppendIs
  <2>5. ASSUME NEW u \in Requests PROVE QueueOK(u)'
    <3>1. marker'[u] # NoWorker => marker'[u] \in OnInbox(u)'
      BY <1>1, <2>3, <2>4 DEF QueueOK
    <3>2. seen' = seen /\ woken' = woken
      OBVIOUS
    <3> QED BY <1>1, <2>4, <3>1, <3>2 DEF QueueOK
  <2> QED BY <1>4, <2>1, <2>3, <2>4, <2>5
<1>5. PutOnce(t, w) /\ marker[t] # NoWorker => UNCHANGED <<marker, inbox>>
  BY DEF PutOnce
<1> QED BY <1>3, <1>4, <1>5

\* The record of a pass that put, or tried to.
LEMMA PutStep ==
    ASSUME IntakeOK, NEW p \in Passes, pass[p].at = "put", NEW step \in {"landed", "check"}, Go(p, step),
           PutOnce(Req(p), pass[p].to) \/ (step = "check" /\ UNCHANGED <<marker, inbox>>),
           UNCHANGED <<doc, pen, weather, gates, claim, seen, woken, pending>>,
           UNCHANGED budget \/ Use("fault")
    PROVE  Good
<1>1. PICK t \in Requests : t = pass[p].req
  BY HandIs
<1>2. TypeOK /\ BudgetOK /\ PassOK(p) /\ HeldOK(p) /\ pass[p] \in PassType /\ QueueOK(t)
  BY Parts, HandIs DEF IntakeIInv
<1>3. PICK w \in Workers : w = pass[p].to
  BY HandIs DEF InHand, Asking
<1>4. /\ marker[t] \in {NoWorker, w} /\ (marker[t] = NoWorker => OnInbox(t) = {}) /\ ~pass[p].given
      /\ OnInbox(t) = {} => claim[t].phase = "delivering" /\ claim[t].to = w
  BY <1>1, <1>2, <1>3 DEF PassOK, Asking
<1>5. Spent /\ Used("forget")' = Used("forget") /\ Used("wake")' = Used("wake")
  <2>1. "fault" \in Bounds /\ "forget" \in Bounds \ {"fault"} /\ "wake" \in Bounds \ {"fault"}
    BY DEF Bounds
  <2> QED BY <1>2, <2>1, UseIs DEF weather
<1>6. PutOnce(t, w) \/ (step = "check" /\ UNCHANGED <<marker, inbox>>)
  BY <1>1, <1>3 DEF Req
<1>7. /\ marker' \in [Requests -> Workers \cup {NoWorker}] /\ inbox' \in [Workers -> Seq(Requests)]
      /\ \A u \in Requests : QueueOK(u)' /\ OnInbox(u) \subseteq OnInbox(u)'
      /\ \A u \in Requests \ {t} : marker'[u] = marker[u] /\ OnInbox(u)' = OnInbox(u)
      /\ \/ marker'[t] = marker[t] /\ OnInbox(t)' = OnInbox(t) /\ (PutOnce(t, w) => marker[t] # NoWorker)
         \/ marker[t] = NoWorker /\ marker'[t] = w /\ OnInbox(t) = {} /\ OnInbox(t)' = {w}
  BY <1>4, <1>5, <1>6, PutIs
<1>8. PICK x \in PassType : pass' = [pass EXCEPT ![p] = x] /\ x.at = step /\ Same(x, pass[p])
  BY <1>2, GoIs DEF Steps
<1>9. pass' \in [Passes -> PassType] /\ pass'[p] = x /\ \A q \in Passes \ {p} : pass'[q] = pass[q]
  BY <1>2, <1>8, IntakeTyped
<1>10. x.req = t /\ x.to = w /\ x.held = pass[p].held /\ ~x.given
  BY <1>1, <1>3, <1>4, <1>8 DEF Same
<1>11. ASSUME NEW u \in Requests PROVE CalmTask(u)
  <2>1. SameClaim(u)
    BY DEF SameClaim
  <2>2. CASE u # t
    BY <1>7, <2>1, <2>2 DEF CalmTask
  <2>3. CASE u = t
    BY <1>4, <1>7, <2>1, <2>3, WorkersAre DEF CalmTask
  <2> QED BY <2>2, <2>3
<1>12. PassOK(p)'
  <2>1. x.at \notin Unclaimed
           /\ x.at \notin {"put", "admit", "claim", "seed", "wait", "waiting", "rung", "settle"}
    BY <1>8 DEF Unclaimed
  <2>2. x.at \in Placed => x.to \in OnInbox(t)'
    <3>1. x.at \in Placed => x.at = "landed"
      BY <1>8 DEF Placed
    <3>2. x.at = "landed" => PutOnce(t, w)
      BY <1>6, <1>8
    <3>3. marker[t] # NoWorker => w \in OnInbox(t)
      BY <1>2, <1>4 DEF QueueOK
    <3> QED BY <1>7, <1>10, <3>1, <3>2, <3>3
  <2>3. x.at \in Asking => x.at = "check"
           /\ (OnInbox(t)' = {} => claim'[t].phase = "delivering" /\ claim'[t].to = x.to)
    BY <1>4, <1>7, <1>8, <1>10 DEF Asking
  <2>4. marker'[t] \in {NoWorker, x.to} /\ (marker'[t] = NoWorker => OnInbox(t)' = {})
    BY <1>4, <1>7, <1>10, WorkersAre
  <2>5. x.to \in Workers
    BY <1>10
  <2> QED BY <1>9, <1>10, <2>1, <2>2, <2>3, <2>4, <2>5 DEF PassOK
<1>13. HeldOK(p)'
  <2>1. x.held => claim[t].phase = "delivering" /\ claim[t].to = x.to
    BY <1>1, <1>2, <1>3, <1>10 DEF HeldOK, Asking
  <2>2. x.at # "wait" /\ x.at # "bind"
    BY <1>8
  <2> QED BY <1>9, <1>10, <2>1, <2>2 DEF HeldOK
<1>14. Tidy /\ \A b \in Writers : SamePen(b)
  <2>1. "fault" \in Bounds \ {"day"}
    BY DEF Bounds
  <2> QED BY <2>1, Parts, StillPen, TidyStill, TidyUsed DEF gates
<1>15. /\ seen' \in [Requests -> SUBSET Workers]
       /\ woken' \in [Requests -> [Workers -> Nat]] /\ \A u \in Requests,
             v \in Workers : woken[u][v] <= woken'[u][v]
  BY <1>2, RingsSame
<1> QED BY <1>7, <1>9, <1>11, <1>12, <1>13, <1>14, <1>15, QueueStep

\* The put marks the task and appends it in one step, unless another has.
LEMMA PutTaskKeeps == ASSUME IntakeOK, NEW p \in Passes, PutTask(p) PROVE Good
  BY PutStep DEF PutTask, At
\* A put whose outcome is not known was done or not.
LEMMA PutFailsKeeps ==
    ASSUME IntakeOK, NEW p \in Passes, PutFails(p), Use("fault"),
          UNCHANGED <<weather, gates, claim, pending>> PROVE Good
  BY PutStep DEF PutFails, At

-----------------------------------------------------------------------------
(* The wakes.                                                              *)

\* One more wake of w for t, or that it is known: f and v of forget and wake are used.
LEMMA CountIs ==
    ASSUME NEW n \in Nat, NEW f \in Nat, NEW v \in Nat, NEW g \in Nat, NEW h \in Nat, f <= g, v <= h,
           n <= f + v
    PROVE  n <= g + h /\ n <= g + h + 1 /\ n + 1 <= g + h + 1 /\ n + 1 > 0
                         /\ (v + 1 = h => n + 1 <= g + h /\ h # 0)
  OBVIOUS

\* A wake leaves the tasks where they are and counts once for each worker that saw it.
LEMMA WakesIs ==
    ASSUME IntakeOK, Spent, UNCHANGED <<marker, inbox>>, NEW t \in Requests, NEW w \in Workers,
           \/ Wakes(t, w) \/ UNCHANGED <<seen, woken>>
           \/ /\ w \notin seen[t] /\ Used("wake")' = Used("wake") + 1
              /\ \/ woken' = [woken EXCEPT ![t][w] = @ + 1] /\ UNCHANGED seen
                 \/ seen' = [seen EXCEPT ![t] = @ \cup {w}] /\ UNCHANGED woken
    PROVE  /\ seen' \in [Requests -> SUBSET Workers] /\ woken' \in [Requests -> [Workers -> Nat]]
           /\ \A u \in Requests, v \in Workers : woken[u][v] <= woken'[u][v]
           /\ \A u \in Requests : QueueOK(u)' /\ OnInbox(u)' = OnInbox(u)
           /\ Wakes(t, w) /\ RingsWork' => woken'[t][w] > 0
<1>1. TypeOK /\ BudgetOK /\ \A u \in Requests : QueueOK(u)
  BY Parts DEF IntakeIInv
<1>2. CASE UNCHANGED <<seen, woken>>
  <2>1. \A u \in Requests : QueueOK(u)' /\ OnInbox(u)' = OnInbox(u)
    BY <1>1, <1>2, QueueKept DEF queues, OnInbox
  <2>2. Wakes(t, w) /\ RingsWork' => woken'[t][w] > 0
    <3>1. RingsWork' => ~room.polled /\ Used("wake") = 0
      BY <1>1, RingsWorked DEF RingsWork
    <3>2. Wakes(t, w) /\ ~room.polled /\ w \notin seen[t] => seen' = [seen EXCEPT ![t] = @ \cup {w}]
      BY DEF Wakes
    <3>3. Wakes(t, w) /\ ~room.polled => w \in seen[t]
      <4>1. Wakes(t, w) /\ ~room.polled /\ w \notin seen[t] => seen'[t] = seen[t] \cup {w}
        BY <1>1, <3>2, IntakeTyped
      <4> QED BY <1>2, <4>1
    <3> QED BY <1>1, <1>2, <3>1, <3>3 DEF QueueOK
  <2> QED BY <1>1, <1>2, <2>1, <2>2, RingsSame
<1>3. CASE /\ w \notin seen[t]
           /\ \/ woken' = [woken EXCEPT ![t][w] = @ + 1]
                 /\ seen' = [seen EXCEPT ![t] = @ \cup {w}]
              \/ /\ Used("wake")' = Used("wake") + 1
                 /\ \/ woken' = [woken EXCEPT ![t][w] = @ + 1] /\ UNCHANGED seen
                    \/ seen' = [seen EXCEPT ![t] = @ \cup {w}] /\ UNCHANGED woken
  <2>1. seen \in [Requests -> SUBSET Workers] /\ woken \in [Requests -> [Workers -> Nat]]
    BY <1>1, IntakeTyped
  <2>2. PICK n \in Nat : n = woken[t][w]
    BY <1>1, WorkerTyped
  <2>3. \/ UNCHANGED woken
        \/ woken' = [woken EXCEPT ![t][w] = n + 1]
    BY <1>3, <2>2
  <2>4. /\ woken' \in [Requests -> [Workers -> Nat]] /\ woken'[t][w] \in {n, n + 1}
        /\ \A u \in Requests, v \in Workers : u # t \/ v # w => woken'[u][v] = woken[u][v]
    BY <2>1, <2>2, <2>3
  <2>5. /\ seen' \in [Requests -> SUBSET Workers]
        /\ \A u \in Requests, v \in Workers : u # t \/ v # w => (v \in seen'[u] <=> v \in seen[u])
    BY <1>3, <2>1
  <2>6. \/ w \in seen'[t] /\ woken'[t][w] = n + 1
        \/ w \notin seen'[t] /\ woken'[t][w] = n + 1 /\ Used("wake")' = Used("wake") + 1
        \/ w \in seen'[t] /\ woken'[t][w] = n /\ Used("wake")' = Used("wake") + 1
    BY <1>3, <2>1, <2>2
  <2>7. PICK f \in Nat, v \in Nat, g \in Nat, h \in Nat :
           /\ f = Used("forget") /\ v = Used("wake") /\ g = Used("forget")' /\ h = Used("wake")'
           /\ f <= g /\ v <= h
    BY <1>1, IntakeTyped, UsedTyped, SpentUsed
  <2>8. n <= f + v
    BY <1>1, <1>3, <2>2, <2>7 DEF QueueOK
  <2>9. n <= g + h + 1 /\ n + 1 <= g + h + 1 /\ n + 1 > 0 /\ (v + 1 = h => n + 1 <= g + h /\ h # 0)
    BY <2>7, <2>8, CountIs
  <2>10. /\ w \in seen'[t] => woken'[t][w] <= g + h + 1
         /\ w \notin seen'[t] => woken'[t][w] <= g + h
         /\ w \in seen'[t] /\ h = 0 => woken'[t][w] > 0
    BY <2>6, <2>7, <2>9
  <2>11. ASSUME NEW u \in Requests, NEW x \in Workers
         PROVE  /\ x \in seen'[u] => woken'[u][x] <= g + h + 1
                /\ x \notin seen'[u] => woken'[u][x] <= g + h
                /\ x \in seen'[u] /\ h = 0 => woken'[u][x] > 0
    <3>1. CASE u = t /\ x = w
      BY <2>10, <3>1
    <3>2. CASE u # t \/ x # w
      <4>1. PICK m \in Nat : m = woken[u][x]
        BY <1>1, WorkerTyped
      <4>2. /\ x \in seen[u] => m <= f + v + 1
            /\ x \notin seen[u] => m <= f + v
            /\ x \in seen[u] /\ v = 0 => m > 0
        BY <1>1, <2>7, <4>1 DEF QueueOK
      <4>3. woken'[u][x] = m /\ (x \in seen'[u] <=> x \in seen[u])
        BY <2>4, <2>5, <3>2, <4>1
      <4>4. /\ m <= f + v + 1 => m <= g + h + 1
            /\ m <= f + v => m <= g + h
            /\ h = 0 => v = 0
        BY <2>7
      <4> QED BY <4>2, <4>3, <4>4
    <3> QED BY <3>1, <3>2
  <2>12. ASSUME NEW u \in Requests PROVE QueueOK(u)' /\ OnInbox(u)' = OnInbox(u)
    <3>1. OnInbox(u)' = OnInbox(u) /\ OnePlace(u)' = OnePlace(u) /\ marker' = marker
      BY DEF OnInbox, OnePlace
    <3>2. /\ OnePlace(u)' /\ (marker'[u] # NoWorker => marker'[u] \in OnInbox(u)')
      BY <1>1, <3>1 DEF QueueOK
    <3> QED BY <2>7, <2>11, <3>1, <3>2 DEF QueueOK
  <2>13. ASSUME NEW u \in Requests, NEW x \in Workers PROVE woken[u][x] <= woken'[u][x]
    <3>1. PICK m \in Nat : m = woken[u][x]
      BY <1>1, WorkerTyped
    <3>2. woken'[u][x] \in {m, m + 1}
      BY <2>2, <2>4, <3>1
    <3> QED BY <3>1, <3>2
  <2>14. RingsWork' => woken'[t][w] > 0
    <3>1. RingsWork' => h = 0
      BY <2>7 DEF RingsWork
    <3>2. h = 0 => v + 1 # h
      BY <2>7
    <3>3. h = 0 => w \in seen'[t]
      BY <2>6, <2>7, <3>2
    <3> QED BY <2>10, <3>1, <3>3
  <2> QED BY <2>4, <2>5, <2>12, <2>13, <2>14
<1>4. Wakes(t, w) => UNCHANGED <<seen, woken>>
        \/ (w \notin seen[t] /\ seen' = [seen EXCEPT ![t] = @ \cup {w}] /\ woken' = [woken EXCEPT ![t][w] = @ + 1])
  BY DEF Wakes
<1> QED BY <1>2, <1>3, <1>4

-----------------------------------------------------------------------------
(* The steps that wake.                                                    *)

\* A step that wakes, or may have, keeps the invariant.
LEMMA RingStep ==
    ASSUME IntakeOK, Tidy, UNCHANGED <<doc, pen, claim, marker, inbox>>, NEW t \in Requests,
          NEW w \in Workers,
           \/ Wakes(t, w) \/ UNCHANGED <<seen, woken>>
           \/ /\ w \notin seen[t] /\ Used("wake")' = Used("wake") + 1
              /\ \/ woken' = [woken EXCEPT ![t][w] = @ + 1] /\ UNCHANGED seen
                 \/ seen' = [seen EXCEPT ![t] = @ \cup {w}] /\ UNCHANGED woken,
           pass' \in [Passes -> PassType],
           \A q \in Passes : (PassOK(q)' /\ HeldOK(q)') \/ pass'[q] = pass[q]
    PROVE  Good
<1>1. TypeOK /\ Spent
  BY Parts DEF Tidy
<1>2. /\ seen' \in [Requests -> SUBSET Workers] /\ woken' \in [Requests -> [Workers -> Nat]]
      /\ \A u \in Requests, v \in Workers : woken[u][v] <= woken'[u][v]
      /\ \A u \in Requests : QueueOK(u)' /\ OnInbox(u)' = OnInbox(u)
  BY <1>1, WakesIs
<1>3. \A u \in Requests : CalmTask(u)
  BY <1>2 DEF CalmTask, SameClaim
<1>4. \A b \in Writers : SamePen(b)
  BY <1>1, StillPen
<1>5. marker' \in [Requests -> Workers \cup {NoWorker}] /\ inbox' \in [Workers -> Seq(Requests)]
  BY <1>1, IntakeTyped
<1> QED BY <1>2, <1>3, <1>4, <1>5, QueueStep

\* The pass is over.
LEMMA FinishOK ==
    ASSUME TypeOK, NEW p \in Passes, NEW fin \in BOOLEAN, Finish(p, fin)
    PROVE  /\ pass' \in [Passes -> PassType]
           /\ PassOK(p)' /\ HeldOK(p)' /\ \A q \in Passes \ {p} : pass'[q] = pass[q]
<1>1. PICK x \in PassType : pass' = [pass EXCEPT ![p] = x] /\ x.at = "end" /\ ~x.held /\ ~x.given
  BY FinishIs
<1>2. pass' \in [Passes -> PassType] /\ pass'[p] = x /\ \A q \in Passes \ {p} : pass'[q] = pass[q]
  BY <1>1, IntakeTyped
<1>3. PassOK(p)' /\ HeldOK(p)'
  BY <1>1, <1>2, RestingOK DEF Resting
<1> QED BY <1>2, <1>3

\* The ring of the doorbell.
LEMMA RingKeeps == ASSUME IntakeOK, NEW p \in Passes, Ring(p) PROVE Good
<1>1. PICK t \in Requests : t = pass[p].req
  BY HandIs
<1>2. /\ pass[p].at = "ring" /\ Wakes(t, pass[p].to) /\ Go(p, "rung")
      /\ UNCHANGED <<doc, pen, weather, budget, gates, claim, marker, inbox, pending>>
  BY <1>1 DEF Ring, At, Req
<1>3. TypeOK /\ PassOK(p) /\ HeldOK(p)
  BY HandIs
<1>4. PICK w \in Workers : w = pass[p].to
  BY <1>2, HandIs DEF InHand, Placed
<1>5. w \in OnInbox(t) /\ ~pass[p].given
  BY <1>1, <1>2, <1>3, <1>4 DEF PassOK, Placed
<1>6. PICK x \in PassType : pass' = [pass EXCEPT ![p] = x] /\ x.at = "rung" /\ Same(x, pass[p])
  BY <1>2, <1>3, GoIs DEF Steps
<1>7. pass' \in [Passes -> PassType] /\ pass'[p] = x /\ \A q \in Passes \ {p} : pass'[q] = pass[q]
  BY <1>3, <1>6, IntakeTyped
<1>8. x.req = t /\ x.to = w /\ x.held = pass[p].held /\ ~x.given
  BY <1>1, <1>4, <1>5, <1>6 DEF Same
<1>9. Tidy
  BY <1>2, Parts, StillPen, TidyStill DEF gates
<1>10. Wakes(t, w)
  BY <1>2, <1>4
<1>11. OnInbox(t)' = OnInbox(t) /\ (RingsWork' => woken'[t][w] > 0)
  BY <1>2, <1>9, <1>10, WakesIs DEF Tidy
<1>12. PassOK(p)'
  <2>1. /\ x.at \notin Unclaimed /\ x.at \notin Asking
        /\ x.at \notin {"put", "check", "admit", "claim", "seed", "wait", "waiting", "settle"}
    BY <1>6 DEF Unclaimed, Asking
  <2> QED BY <1>5, <1>7, <1>8, <1>11, <2>1 DEF PassOK
<1>13. HeldOK(p)'
  <2>1. x.held => claim[t].phase # "none"
    BY <1>1, <1>3, <1>8 DEF HeldOK
  <2>2. x.at # "wait" /\ x.at # "bind" /\ x.at \notin Asking \cup {"give"}
    BY <1>6 DEF Asking
  <2> QED BY <1>2, <1>7, <1>8, <2>1, <2>2 DEF HeldOK
<1> QED BY <1>2, <1>7, <1>9, <1>10, <1>12, <1>13, RingStep

\* A ring that failed may have been heard.
LEMMA RingFailsKeeps ==
    ASSUME IntakeOK, NEW p \in Passes, RingFails(p), Use("fault"),
          UNCHANGED <<weather, gates, claim, pending>> PROVE Good
<1>1. PICK t \in Requests : t = pass[p].req
  BY HandIs
<1>2. /\ pass[p].at = "ring" /\ (Wakes(t, pass[p].to) \/ UNCHANGED <<seen, woken>>)
      /\ Finish(p, FALSE) /\ UNCHANGED <<doc, pen, marker, inbox>>
  BY <1>1 DEF RingFails, At, Req
<1>3. PICK w \in Workers : w = pass[p].to
  BY <1>2, HandIs DEF InHand, Placed, RingFails, At
<1>4. "fault" \in Bounds \ {"day"}
  BY DEF Bounds
<1>5. Tidy
  BY <1>2, <1>4, Parts, StillPen, TidyUsed DEF gates
<1>6. /\ pass' \in [Passes -> PassType]
      /\ PassOK(p)' /\ HeldOK(p)' /\ \A q \in Passes \ {p} : pass'[q] = pass[q]
  BY <1>2, Parts, FinishOK
<1> QED BY <1>2, <1>3, <1>5, <1>6, RingStep

\* inbox-wake does not see its wake through: the worker was woken or is remembered as woken, not both.
LEMMA WakeFailsKeeps == ASSUME IntakeOK, NEW p \in Passes, WakeFails(p) PROVE Good
<1>1. PICK t \in Requests : t = pass[p].req
  BY HandIs
<1>2. /\ pass[p].at = "ring" /\ pass[p].to \notin seen[t] /\ Use("wake") /\ Finish(p, FALSE)
      /\ \/ woken' = [woken EXCEPT ![t][pass[p].to] = @ + 1] /\ UNCHANGED seen
         \/ seen' = [seen EXCEPT ![t] = @ \cup {pass[p].to}] /\ UNCHANGED woken
      /\ UNCHANGED <<doc, pen, weather, gates, claim, marker, inbox, pending>>
  BY <1>1 DEF WakeFails, At, Req
<1>3. PICK w \in Workers : w = pass[p].to
  BY <1>2, HandIs DEF InHand, Placed
<1>4. "wake" \in Bounds \ {"day"}
  BY DEF Bounds
<1>5. Tidy
  BY <1>2, <1>4, Parts, StillPen, TidyUsed DEF gates
<1>6. Used("wake")' = Used("wake") + 1
  BY <1>2, <1>4, Parts, UseIs DEF weather
<1>7. /\ pass' \in [Passes -> PassType]
      /\ PassOK(p)' /\ HeldOK(p)' /\ \A q \in Passes \ {p} : pass'[q] = pass[q]
  BY <1>2, Parts, FinishOK
<1> QED BY <1>2, <1>3, <1>5, <1>6, <1>7, RingStep

\* The sweep of inbox-wake wakes for what it has not seen.
LEMMA SweepKeeps == ASSUME IntakeOK, NEW t \in Requests, NEW w \in Workers, Sweep(t, w) PROVE Good
<1>1. /\ Wakes(t, w)
      /\ UNCHANGED <<doc, pen, weather, budget, gates, claim, marker, inbox, pending, pass>>
  BY DEF Sweep
<1>2. Tidy
  BY <1>1, Parts, StillPen, TidyStill DEF gates
<1>3. pass' \in [Passes -> PassType]
  BY <1>1, Parts, IntakeTyped
<1> QED BY <1>1, <1>2, <1>3, RingStep

-----------------------------------------------------------------------------
(* The claim ends; time.                                                   *)

\* Nothing happens to a claim's phase, to the queues and the passes.
LEMMA StillStep ==
    ASSUME IntakeOK, Tidy, doc'.lines = doc.lines, \A b \in Writers : SamePen(b), UNCHANGED <<queues, pass>>,
           claim' \in [Requests -> ClaimType], \A t \in Requests : SameClaim(t)
    PROVE  Good
<1>1. TypeOK /\ BudgetOK /\ IntakeIInv /\ Spent
  BY Parts DEF Tidy
<1>2. inbox' = inbox /\ marker' = marker /\ seen' = seen /\ woken' = woken /\ pass' = pass
  BY DEF queues
<1>3. Grows
  BY <1>1, <1>2, GrowsQuiet
<1>4. \A t \in Requests : CalmTask(t) /\ QueueOK(t)' /\ ClaimOK(t)'
  <2>1. TAKE t \in Requests
  <2>2. CalmTask(t)
    BY <1>2 DEF CalmTask, OnInbox
  <2>3. QueueOK(t)'
    BY <1>1, QueueKept DEF IntakeIInv
  <2>4. ClaimOK(t)'
    BY <1>1, <1>3, ClaimKept DEF IntakeIInv
  <2> QED BY <2>2, <2>3, <2>4
<1>5. \A q \in Passes : pass[q].req \in Requests
  BY <1>1, PassTyped
<1>6. \A q \in Passes : Undisturbed(q) /\ CalmTask(pass[q].req)
  BY <1>2, <1>4, <1>5 DEF Undisturbed
<1>7. IntakeIInv'
  BY <1>1, <1>3, <1>4, <1>6, PlainStep
<1>8. IntakeTypeOK' /\ BudgetOK'
  BY <1>1, <1>2, IntakeTyped, TidyTypes
<1> QED BY <1>7, <1>8 DEF Good

\* The lease of a claim runs out; its phase stays.
LEMMA LeaseEndsKeeps == ASSUME IntakeOK, NEW t \in Requests, LeaseEnds(t) PROVE Good
<1>1. /\ claim' = [claim EXCEPT ![t].lease = "dead"] /\ (UNCHANGED budget \/ Use("lapse"))
      /\ UNCHANGED <<doc, pen, weather, gates, queues, pending, pass>>
  BY DEF LeaseEnds
<1>2. "lapse" \in Bounds \ {"day"}
  BY DEF Bounds
<1>3. Tidy /\ \A b \in Writers : SamePen(b)
  BY <1>1, <1>2, Parts, StillPen, TidyStill, TidyUsed DEF gates
<1>4. PICK c \in ClaimType : c = claim[t]
  BY Parts, ClaimTyped
<1>5. PICK d : d = [c EXCEPT !.lease = "dead"]
  OBVIOUS
<1>6. d \in ClaimType /\ d.phase = c.phase /\ d.to = c.to
  BY <1>4, <1>5 DEF ClaimType
<1>7. claim' = [claim EXCEPT ![t] = d]
  BY <1>1, <1>4, <1>5
<1>8. claim' \in [Requests -> ClaimType] /\ \A u \in Requests : SameClaim(u)
  BY <1>4, <1>6, <1>7, Parts, IntakeTyped DEF SameClaim
<1> QED BY <1>1, <1>3, <1>8, StillStep

\* The rate's gap passes, and the feed's margin.
LEMMA TimePassesKeeps == ASSUME IntakeOK, TimePasses PROVE Good
<1>1. /\ \/ gap' = FALSE /\ UNCHANGED doc
         \/ doc' = [doc EXCEPT !.listed = "no"] /\ UNCHANGED gap
      /\ UNCHANGED <<pen, weather, budget, processed, titled, claim, queues, pending, pass>>
  BY DEF TimePasses
<1>2. doc' \in DocType /\ doc'.lines = doc.lines
  BY <1>1, Parts, DocTouched
<1>3. Tidy /\ \A b \in Writers : SamePen(b)
  BY <1>1, <1>2, Parts, StillPen, TidyStill
<1>4. claim' \in [Requests -> ClaimType] /\ \A u \in Requests : SameClaim(u)
  BY <1>1, Parts, IntakeTyped DEF SameClaim
<1> QED BY <1>1, <1>2, <1>3, <1>4, StillStep

\* The owner rewrites the request; the receipts stay.
LEMMA EditKeeps == ASSUME IntakeOK, Edit PROVE Good
<1>1. Use("edit") /\ Rewrite /\ UNCHANGED <<weather, gates, claim, queues, pending, pass>>
  BY DEF Edit
<1>2. PICK d : d = [doc EXCEPT !.req = @ + 1]
  OBVIOUS
<1>3. doc.req + 1 \in Requests
  <2>1. doc.req \in 1..MaxRequests /\ doc.req < MaxRequests
    BY <1>1, Parts, DocTyped DEF Rewrite, Requests
  <2> QED BY <2>1, MaxRequestsAssumption DEF Requests
<1>4. d \in DocType /\ d.lines = doc.lines
  BY <1>2, <1>3, Parts DEF DocType
<1>5. Write(d, NoWorker, NoPen)
  BY <1>1, <1>2 DEF Rewrite
<1>6. /\ doc' \in DocType /\ doc'.lines = d.lines /\ pen' \in [Writers -> PenType]
      /\ \A b \in Writers : b # NoWorker => SamePen(b)
  BY <1>4, <1>5, NoPenIs, Parts, WriteIs
<1>7. "edit" \in Bounds \ {"day"}
  BY DEF Bounds
<1>8. Tidy /\ \A b \in Writers : SamePen(b)
  BY <1>1, <1>6, <1>7, Parts, TidyUsed, WritersAre DEF gates
<1>9. claim' \in [Requests -> ClaimType] /\ \A u \in Requests : SameClaim(u)
  BY <1>1, Parts, IntakeTyped DEF SameClaim
<1> QED BY <1>1, <1>4, <1>6, <1>8, <1>9, StillStep

\* The laptop comes and goes, the doc grows old, a day ends.
LEMMA WeatherKeeps == ASSUME IntakeOK, Weather PROVE Good
<1>1. UNCHANGED <<room, doc, pen, gates, claim, queues, pending, pass>>
  BY DEF Weather
<1>2. /\ beat' \in BOOLEAN /\ young' \in BOOLEAN
      /\ \/ day' = day /\ \E b \in Bounds \ {"day"} : Use(b)
         \/ day' = day + 1 /\ Use("day")
  BY Parts DEF Weather, TypeOK, IntakeTypeOK, Bounds
<1>3. TypeOK /\ BudgetOK /\ IntakeIInv /\ "day" \in Bounds
  BY Parts, IntakeTyped
<1>4. Spent /\ \/ day' = day /\ Used("day")' = Used("day")
               \/ day' = day + 1 /\ Used("day")' = Used("day") + 1
  <2>1. CASE day' = day /\ \E b \in Bounds \ {"day"} : Use(b)
    <3>1. PICK b \in Bounds \ {"day"} : Use(b)
      BY <2>1
    <3>2. Spent /\ Used("day")' = Used("day")
      BY <1>1, <1>3, <3>1, UseIs
    <3> QED BY <2>1, <3>2
  <2>2. CASE day' = day + 1 /\ Use("day")
    BY <1>1, <1>3, <2>2, UseIs
  <2> QED BY <1>2, <2>1, <2>2
<1>5. inbox' = inbox /\ marker' = marker /\ seen' = seen /\ woken' = woken /\ pass' = pass /\ claim' = claim
  BY <1>1 DEF queues
<1>6. Grows /\ \A b \in Writers : SamePen(b)
  BY <1>1, <1>3, <1>4, <1>5, GrowsQuiet, StillPen
<1>7. \A t \in Requests : SameClaim(t) /\ CalmTask(t) /\ QueueOK(t)' /\ ClaimOK(t)'
  <2>1. TAKE t \in Requests
  <2>2. SameClaim(t) /\ CalmTask(t)
    BY <1>5 DEF SameClaim, CalmTask, OnInbox
  <2>3. QueueOK(t)'
    BY <1>3, <1>4, <1>1, QueueKept DEF IntakeIInv
  <2>4. ClaimOK(t)'
    BY <1>3, <1>6, <2>2, ClaimKept DEF IntakeIInv
  <2> QED BY <2>2, <2>3, <2>4
<1>8. \A q \in Passes : pass[q].req \in Requests
  BY <1>3, PassTyped
<1>9. \A q \in Passes : Undisturbed(q) /\ CalmTask(pass[q].req)
  BY <1>5, <1>7, <1>8 DEF Undisturbed
<1>10. IntakeIInv'
  BY <1>1, <1>3, <1>6, <1>7, <1>9, PlainStep
<1>11. budget' \in [Bounds -> Nat] /\ room' = room
  BY <1>4 DEF Spent
<1>12. day' \in Nat /\ day' = Used("day")'
  <2>1. day \in Nat /\ day = Used("day")
    BY <1>3 DEF TypeOK, IntakeTypeOK, BudgetOK
  <2> QED BY <1>4, <2>1
<1>13. ASSUME NEW b \in Bounds PROVE budget'[b] <= room'.budget[b]
  <2>1. budget[b] \in Nat /\ room.budget[b] \in Nat /\ budget'[b] \in Nat
    BY <1>3, <1>11, IntakeTyped
  <2>2. budget'[b] <= budget[b] /\ budget[b] <= room.budget[b]
    BY <1>3, <1>4 DEF Spent, BudgetOK
  <2> QED BY <1>11, <2>1, <2>2
<1>14. IntakeTypeOK'
  BY <1>1, <1>2, <1>3, <1>5, <1>11, <1>12 DEF TypeOK, IntakeTypeOK, DocTypeOK, gates
<1> QED BY <1>10, <1>12, <1>13, <1>14 DEF Good, BudgetOK

-----------------------------------------------------------------------------
(* The claim is made, ends and is forgotten.                               *)

\* A task is dispatched only with both lines on the page.
LEMMA SettleTaskKeeps == ASSUME IntakeOK, NEW p \in Passes, SettleTask(p) PROVE Good
<1>1. PICK t \in Requests : t = pass[p].req
  BY HandIs
<1>2. /\ pass[p].at = "settle" /\ Idle(p)
      /\ UNCHANGED <<doc, pen, weather, budget, gates, queues, pending>>
  BY DEF SettleTask, At
<1>3. TypeOK /\ BudgetOK /\ IntakeIInv /\ PassOK(p) /\ PenOK(p) /\ ClaimOK(t)
  BY HandIs, Parts DEF IntakeIInv
<1>4. Tidy /\ \A b \in Writers : SamePen(b)
  BY <1>2, Parts, StillPen, TidyStill DEF gates
<1>5. CASE Finish(p, FALSE) /\ UNCHANGED claim
  BY <1>2, <1>4, <1>5, Parts, FinishRests
<1>6. CASE ~(Finish(p, FALSE) /\ UNCHANGED claim)
  <2>1. Done(p)
    BY <1>6 DEF SettleTask
  <2>2. PICK x : x = [Off EXCEPT !.at = IF room.filter THEN "consume" ELSE "end", !.req = t, !.fin = TRUE]
    OBVIOUS
  <2>3. x \in PassType /\ x.at \in {"consume", "end"} /\ ~x.held /\ ~x.given
    BY <2>2, OffIs DEF PassType, Steps, Off
  <2>4. IF pass[p].held
        THEN claim' = [claim EXCEPT ![t] = Bare("dispatched")] /\ pass' = Others(p, x)
        ELSE Become(p, x) /\ UNCHANGED claim
    BY <1>1, <2>1, <2>2 DEF SettleTask, Req
  <2>5. CASE ~pass[p].held
    <3>1. pass' = [pass EXCEPT ![p] = x] /\ UNCHANGED claim
      BY <2>4, <2>5 DEF Become
    <3> QED BY <1>2, <1>4, <2>3, <3>1, Parts, RestStep DEF Resting
  <2>6. CASE pass[p].held
    <3>1. PICK c \in ClaimType : c = Bare("dispatched") /\ c.phase = "dispatched" /\ c.to = NoWorker
      <4>1. PICK b : b = Bare("dispatched")
        OBVIOUS
      <4>2. b \in ClaimType /\ b.phase = "dispatched" /\ b.to = NoWorker
        BY <4>1 DEF Bare, NoClaim, ClaimType
      <4> QED BY <4>1, <4>2
    <3>2. claim' = [claim EXCEPT ![t] = c] /\ pass' = Others(p, x)
      BY <2>4, <2>6, <3>1
    <3>3. PICK y \in PassType : Won(y, x) /\ Takes1(p, t, c, y)
      BY <1>1, <1>3, <2>3, <3>2, OthersAre
    <3>4. pass'[p] = y /\ y.at \in Resting /\ ~y.held /\ ~y.given
      BY <2>3, <3>3 DEF Won, Takes1, Resting, PassType
    <3>5. PassOK(p)' /\ HeldOK(p)'
      BY <3>4, RestingOK
    <3>6. Grows
      BY <1>2, <1>3, <1>4, GrowsQuiet DEF Tidy, queues
    <3>7. PenOK(p)'
      BY <1>3, <1>4, <3>6, WritersAre, PenKept
    <3>8. InTrail("drive-intake", t, "REQUESTED") /\ InTrail("drive-intake", t, "DISPATCHED")
      <4>1. pen[p].todo = <<>> /\ DOMAIN pen[p].todo = {} /\ ~pen[p].owed
        BY <1>2, <2>1 DEF Idle, Done
      <4>2. Coming(p, "drive-intake", t, "REQUESTED") /\ Coming(p, "drive-intake", t, "DISPATCHED")
        BY <1>1, <1>2, <1>3, <4>1 DEF PassOK
      <4> QED BY <4>1, <4>2 DEF Coming
    <3>9. OnInbox(t) # {}
      BY <1>1, <1>2, HandIs DEF Placed
    <3>10. ClaimFits(t, c)
      BY <3>1, <3>8, <3>9 DEF ClaimFits, Unbound, Waits
    <3>11. claim'[t] = c
      BY <1>3, <3>2, IntakeTyped
    <3>12. ClaimOK(t)'
      BY <1>2, <3>10, <3>11, FitClaimOK DEF weather
    <3> QED BY <1>2, <1>4, <3>3, <3>5, <3>7, <3>9, <3>12, ClaimStep
  <2> QED BY <2>5, <2>6
<1> QED BY <1>5, <1>6

\* No claim is a claim.
LEMMA NoClaimTyped == NoClaim \in ClaimType
  BY DEF NoClaim, ClaimType

\* Redis forgets a claim, a marker or what was seen; the inboxes and the page remain.
LEMMA ForgetKeeps == ASSUME IntakeOK, NEW t \in Requests, Forget(t) PROVE Good
<1>1. /\ \A p \in Passes : pass[p].at = "off"
      /\ Use("forget")
      /\ \/ claim' = [claim EXCEPT ![t] = NoClaim] /\ UNCHANGED queues
         \/ marker' = [marker EXCEPT ![t] = NoWorker] /\ UNCHANGED <<claim, inbox, seen, woken>>
         \/ seen' = [seen EXCEPT ![t] = {}] /\ UNCHANGED <<claim, marker, inbox, woken>>
      /\ UNCHANGED <<doc, pen, weather, gates, pending, pass>>
  BY DEF Forget
<1>2. TypeOK /\ BudgetOK /\ IntakeIInv /\ \A u \in Requests : ClaimOK(u) /\ QueueOK(u)
  BY Parts DEF IntakeIInv
<1>3. "forget" \in Bounds \ {"day"} /\ "wake" \in Bounds \ {"forget"}
  BY DEF Bounds
<1>4. Tidy /\ \A b \in Writers : SamePen(b)
  BY <1>1, <1>3, Parts, StillPen, TidyUsed DEF gates
<1>5. Spent /\ Used("forget")' = Used("forget") + 1 /\ Used("wake")' = Used("wake")
  BY <1>1, <1>2, <1>3, UseIs DEF weather
<1>6. /\ claim' \in [Requests -> ClaimType] /\ marker' \in [Requests -> Workers \cup {NoWorker}]
      /\ inbox' = inbox /\ seen' \in [Requests -> SUBSET Workers] /\ woken' = woken
      /\ \A u \in Requests : /\ claim'[u] \in {claim[u], NoClaim} /\ marker'[u] \in {marker[u], NoWorker}
                             /\ seen'[u] \in {seen[u], {}}
  BY <1>1, <1>2, IntakeTyped, NoClaimTyped DEF queues
<1>7. Grows
  BY <1>1, <1>2, <1>5, <1>6, GrowsQuiet
<1>8. ASSUME NEW u \in Requests PROVE ClaimOK(u)'
  <2>1. CASE claim'[u] = claim[u]
    BY <1>2, <1>7, <2>1, ClaimKept DEF SameClaim
  <2>2. CASE claim'[u] = NoClaim
    BY <2>2 DEF NoClaim, ClaimOK, Unbound
  <2> QED BY <1>6, <2>1, <2>2
<1>9. ASSUME NEW u \in Requests PROVE QueueOK(u)'
  <2>1. OnInbox(u)' = OnInbox(u) /\ OnePlace(u)' = OnePlace(u)
    BY <1>6 DEF OnInbox, OnePlace
  <2>2. OnePlace(u)' /\ (marker'[u] # NoWorker => marker'[u] \in OnInbox(u)')
    BY <1>2, <1>6, <2>1 DEF QueueOK
  <2>3. PICK f \in Nat, v \in Nat : f = Used("forget") /\ v = Used("wake")
    BY <1>2, <1>3, UsedTyped
  <2>4. ASSUME NEW w \in Workers
        PROVE  /\ w \in seen'[u] => woken'[u][w] <= f + 1 + v + 1
               /\ w \notin seen'[u] => woken'[u][w] <= f + 1 + v
               /\ w \in seen'[u] /\ v = 0 => woken'[u][w] > 0
    <3>1. PICK m \in Nat : m = woken[u][w]
      BY <1>2, WorkerTyped
    <3>2. /\ w \in seen[u] => m <= f + v + 1
          /\ w \notin seen[u] => m <= f + v
          /\ w \in seen[u] /\ v = 0 => m > 0
      BY <1>2, <2>3, <3>1 DEF QueueOK
    <3>3. w \in seen'[u] => w \in seen[u]
      BY <1>6
    <3> QED BY <1>6, <3>1, <3>2, <3>3
  <2>5. Used("forget")' = f + 1 /\ Used("wake")' = v
    BY <1>5, <2>3
  <2> QED BY <2>2, <2>4, <2>5 DEF QueueOK
<1>10. ASSUME NEW q \in Passes PROVE PassOK(q)' /\ HeldOK(q)'
  <2>1. PICK x \in PassType : x = pass[q]
    BY <1>2, PassTyped
  <2>2. x.at = "off" /\ ~x.held /\ ~x.given /\ pass'[q] = x
    BY <1>1, <2>1, RestingHolds DEF Unclaimed
  <2> QED BY <2>2, RestingOK DEF Resting
<1>11. IntakeIInv'
  BY <1>1, <1>2, <1>4, <1>7, <1>8, <1>9, <1>10, PlainStep
<1>12. inbox' \in [Workers -> Seq(Requests)] /\ woken' \in [Requests -> [Workers -> Nat]]
          /\ pass' \in [Passes -> PassType]
  BY <1>1, <1>2, <1>6, IntakeTyped
<1> QED BY <1>2, <1>4, <1>6, <1>11, <1>12, TidyTypes DEF Good

\* Where a pass goes on, and what it writes first.
LEMMA FirstIs ==
    ASSUME NEW step, NEW state, NEW via \in Waits \cup {"none"}, step = "waiting" => state \in Waits
    PROVE  /\ step = "waiting" => First(step, state, via) \in Seq(Waits)
           /\ step = "ring" => First(step, state, via) \in Seq(Waits \cup {"REQUESTED"})
           /\ step = "settle" => First(step, state, via) = AllLines(via)
                 /\ AllLines(via) \in Seq(IntakeStates)
           /\ step \notin {"waiting", "ring", "settle"} => First(step, state, via) \in Seq({})
<1>1. CASE step = "waiting"
  <2>1. PICK v \in Waits : v = state
    BY <1>1
  <2>2. <<v>> \in Seq(Waits)
    OBVIOUS
  <2>3. First(step, state, via) = <<v>>
    BY <1>1, <2>1 DEF First
  <2> QED BY <1>1, <2>2, <2>3
<1>2. CASE step = "ring"
  <2>1. First(step, state, via) = Owed(via)
    BY <1>2 DEF First
  <2> QED BY <1>2, <2>1, OwedIs
<1>3. CASE step = "settle"
  <2>1. First(step, state, via) = AllLines(via)
    BY <1>3 DEF First
  <2> QED BY <1>3, <2>1, AllLinesAre
<1>4. CASE step \notin {"waiting", "ring", "settle"}
  <2>1. First(step, state, via) = <<>>
    BY <1>4 DEF First
  <2> QED BY <1>4, <2>1, EmptySeq
<1> QED BY <1>1, <1>2, <1>3, <1>4

\* What the claim that is found tells a pass to do next.
LEMMA NextIs ==
    ASSUME NEW p \in Passes, NEW c \in ClaimType, NEW step, step = Next1(p, c), c.phase # "none",
          c.phase # "dispatched"
    PROVE  /\ step \in {"seed", "waiting", "wait", "ring", "settle", "bind"}
           /\ step = "seed" => c.phase = "intake" /\ "REQUESTED" \in pass[p].trail
           /\ step \in {"waiting", "wait"} => c.phase \in {"intake"} \cup Waits /\ pass[p].state \in Waits
           /\ step = "ring" => c.phase = "on_inbox"
           /\ step = "settle" => c.phase = "rung"
           /\ step = "bind" => c.phase \in {"intake", "delivering"} \cup Waits
           /\ c.phase = "delivering" => step = "bind"
<1>1. c.phase \in {"intake", "delivering", "on_inbox", "rung"} \cup Waits
  BY DEF ClaimType
<1>2. CASE c.phase = "intake" /\ "REQUESTED" \in pass[p].trail
  <2>1. step = "seed"
    BY <1>2 DEF Next1
  <2> QED BY <1>2, <2>1
<1>3. CASE /\ ~(c.phase = "intake" /\ "REQUESTED" \in pass[p].trail)
           /\ c.phase \in {"intake"} \cup Waits /\ pass[p].state \in Waits
  <2>1. step = IF c.phase = pass[p].state THEN "waiting" ELSE "wait"
    BY <1>3 DEF Next1
  <2>2. step \in {"waiting", "wait"}
    BY <2>1
  <2> QED BY <1>3, <2>2 DEF Waits
<1>4. CASE /\ ~(c.phase = "intake" /\ "REQUESTED" \in pass[p].trail)
           /\ ~(c.phase \in {"intake"} \cup Waits /\ pass[p].state \in Waits)
  <2>1. step = CASE c.phase = "on_inbox" -> "ring" [] c.phase = "rung" -> "settle" [] OTHER -> "bind"
    BY <1>4 DEF Next1
  <2>2. CASE c.phase = "on_inbox"
    <3>1. step = "ring"
      BY <2>1, <2>2
    <3> QED BY <2>2, <3>1
  <2>3. CASE c.phase = "rung"
    <3>1. step = "settle"
      BY <2>1, <2>3
    <3> QED BY <2>3, <3>1
  <2>4. CASE c.phase \notin {"on_inbox", "rung"}
    <3>1. step = "bind"
      BY <2>1, <2>4
    <3> QED BY <1>1, <2>4, <3>1
  <2> QED BY <2>2, <2>3, <2>4
<1> QED BY <1>2, <1>3, <1>4

-----------------------------------------------------------------------------
(* The claim is taken, or found.                                           *)

\* What the pass that has taken it knows.
Found(p, c, t, to, via, step, x) ==
    /\ x.at = step /\ x.to = to /\ x.via = via /\ x.held /\ x.trail = {} /\ x.req = t
    /\ x.named = pass[p].named
    /\ x.given = (c = GivenUp(c.to, c.via))
    /\ x.state = IF c.to # NoWorker THEN "REQUESTED" ELSE pass[p].state

\* The claim of t, once it is there, is c.
Stands(t, c) == c = claim[t] \/ (claim[t].phase = "none" /\ c.phase = "intake" /\ c.to = NoWorker)

\* A pass that goes by the claim it found knows what it should.
LEMMA FoundOK ==
    ASSUME IntakeOK, NEW p \in Passes, pass[p].at = "claim", NEW t \in Requests, t = pass[p].req,
          NEW c \in ClaimType,
           Stands(t, c), c.phase # "none", c.phase # "dispatched", NEW step, step = Next1(p, c),
           NEW to \in Workers, to = IF c.to # NoWorker THEN c.to ELSE pass[p].to,
                 NEW via \in Waits \cup {"none"},
           NEW x \in PassType, Found(p, c, t, to, via, step, x), pass'[p] = x, claim'[t] = c,
           UNCHANGED <<queues, room, budget>>,
           pen'[p].todo = LinesTo(p, to, First(step, pass[p].state, via)), ~pen'[p].landed
    PROVE  PenOK(p)' /\ PassOK(p)' /\ HeldOK(p)'
<1>1. TypeOK /\ PassOK(p) /\ ClaimOK(t)
  BY HandIs, Parts DEF IntakeIInv
<1>2. inbox' = inbox /\ woken' = woken /\ marker' = marker
  BY DEF queues
<1>3. OnInbox(t)' = OnInbox(t) /\ RingsWork' = RingsWork
  BY <1>2 DEF OnInbox, RingsWork, Used
<1>4. /\ step \in {"seed", "waiting", "wait", "ring", "settle", "bind"}
      /\ step = "seed" => c.phase = "intake" /\ "REQUESTED" \in pass[p].trail
      /\ step \in {"waiting", "wait"} => c.phase \in {"intake"} \cup Waits /\ pass[p].state \in Waits
      /\ step = "ring" => c.phase = "on_inbox"
      /\ step = "settle" => c.phase = "rung"
      /\ step = "bind" => c.phase \in {"intake", "delivering"} \cup Waits
      /\ c.phase = "delivering" => step = "bind"
  BY NextIs
<1>5. /\ c.phase \in Unbound => c.to = NoWorker
      /\ c.phase \notin Unbound => c.to \in Workers
      /\ c.phase \in {"on_inbox", "rung"} => c.to \in OnInbox(t)
      /\ c.phase = "rung" /\ RingsWork => woken[t][c.to] > 0
  BY <1>1 DEF Stands, ClaimOK, Unbound
<1>6. /\ c.phase \in {"delivering", "on_inbox", "rung"} => to = c.to
      /\ c.phase \in {"intake"} \cup Waits => x.state = pass[p].state
  BY <1>5, WorkersAre DEF Unbound, Waits, Found
<1>7. step \in {"ring", "settle"} => to \in OnInbox(t)
  BY <1>4, <1>5, <1>6
<1>8. step = "settle" /\ RingsWork => woken[t][to] > 0
  BY <1>4, <1>5, <1>6
<1>9. PICK S \in SUBSET IntakeStates :
         /\ First(step, pass[p].state, via) \in Seq(S)
         /\ "REQUESTED" \in S \/ "DISPATCHED" \in S => to \in OnInbox(t)
         /\ "DISPATCHED" \in S /\ RingsWork => woken[t][to] > 0
  <2>1. /\ step = "waiting" => First(step, pass[p].state, via) \in Seq(Waits)
        /\ step = "ring" => First(step, pass[p].state, via) \in Seq(Waits \cup {"REQUESTED"})
        /\ step = "settle" => First(step, pass[p].state, via) \in Seq(IntakeStates)
        /\ step \notin {"waiting", "ring", "settle"} => First(step, pass[p].state, via) \in Seq({})
    BY <1>4, FirstIs
  <2>2. CASE step = "waiting"
    BY <2>1, <2>2 DEF IntakeStates, Waits
  <2>3. CASE step = "ring"
    BY <1>7, <2>1, <2>3 DEF IntakeStates, Waits
  <2>4. CASE step = "settle"
    BY <1>7, <1>8, <2>1, <2>4
  <2>5. CASE step \notin {"waiting", "ring", "settle"}
    BY <2>1, <2>5
  <2> QED BY <2>2, <2>3, <2>4, <2>5
<1>10. PICK states \in Seq(S) : states = First(step, pass[p].state, via)
  BY <1>9
<1>11. PICK lines : lines = LinesTo(p, to, states) /\ LinesFit(lines)
  BY <1>1, <1>9, LinesFitTo
<1>12. pen'[p].todo = lines
  BY <1>10, <1>11
<1>13. PenOK(p)'
  BY <1>1, <1>11, <1>12, FitPenOK
<1>14. x.given => x.at = "bind"
  <2>1. x.given => c.phase = "delivering"
    <3>1. GivenUp(c.to, c.via).phase = "delivering"
      BY BoundIs
    <3> QED BY <3>1 DEF Found
  <2> QED BY <1>4, <2>1 DEF Found
<1>15. x.at = "seed" => x.named \in OnInbox(t)
  BY <1>1, <1>4 DEF Found, PassOK
<1>16. x.at \in {"wait", "waiting"} => x.state \in Waits
  BY <1>4, <1>6 DEF Found
<1>17. ASSUME x.at = "settle", NEW s \in {"REQUESTED", "DISPATCHED"} PROVE Coming(p, "drive-intake", t, s)'
  <2>1. step = "settle"
    BY <1>17 DEF Found
  <2>2. states = AllLines(via)
    BY <1>4, <1>10, <2>1, FirstIs
  <2>3. PICK i \in DOMAIN states : states[i] = s
    BY <2>2, AllLinesAre
  <2>4. i \in DOMAIN lines /\ lines[i].by = "drive-intake" /\ lines[i].task = t /\ lines[i].state = s
    BY <1>1, <1>11, <2>3, LinesAre
  <2> QED BY <1>12, <2>4 DEF Coming
<1>18. PassOK(p)'
  <2>1. /\ x.at \notin Unclaimed /\ x.at \notin Asking
           /\ x.at \notin {"put", "check", "admit", "claim", "rung"}
        /\ x.at \in Placed => x.at \in {"ring", "settle"}
    BY <1>4 DEF Unclaimed, Asking, Placed, Found
  <2>2. x.at \in Placed => x.to \in OnInbox(t)'
    BY <1>3, <1>7, <2>1 DEF Found
  <2>3. x.at \in {"rung", "settle"} /\ RingsWork' => woken'[t][x.to] > 0
    BY <1>2, <1>3, <1>8, <2>1 DEF Found
  <2>4. x.to \in Workers /\ x.req = t
    BY DEF Found
  <2> QED BY <1>3, <1>14, <1>15, <1>16, <1>17, <2>1, <2>2, <2>3, <2>4 DEF PassOK
<1>19. HeldOK(p)'
  <2>1. x.at = "wait" => c.phase \in {"intake"} \cup Waits
    BY <1>4 DEF Found
  <2>2. x.at = "bind" => c.phase \in {"intake"} \cup Waits \/ (c.phase = "delivering" /\ c.to = x.to)
    BY <1>4, <1>6 DEF Found
  <2>3. x.at \notin Asking \cup {"give"}
    BY <1>4 DEF Found, Asking
  <2>4. x.req = t
    BY DEF Found
  <2> QED BY <2>1, <2>2, <2>3, <2>4 DEF HeldOK
<1> QED BY <1>13, <1>18, <1>19

\* A claim is made, taken when its lease is over, or found.
LEMMA TakeKeeps == ASSUME IntakeOK, NEW p \in Passes, Take(p) PROVE Good
<1>1. PICK t \in Requests : t = pass[p].req
  BY HandIs
<1>2. /\ pass[p].at = "claim" /\ Idle(p)
      /\ UNCHANGED <<doc, weather, budget, gates, queues, pending>>
  BY DEF Take, At
<1>3. TypeOK /\ BudgetOK /\ IntakeIInv /\ PassOK(p) /\ ClaimOK(t) /\ pass[p] \in PassType /\ p \in Writers
      /\ claim[t] \in ClaimType
  BY HandIs, Parts, ClaimTyped DEF IntakeIInv
<1>4. PICK c : c = IF claim[t].phase = "none" THEN Bare("intake") ELSE claim[t]
  OBVIOUS
<1>5. c \in ClaimType /\ Stands(t, c) /\ c.phase # "none" /\ (claim[t].phase # "none" => c = claim[t])
      /\ (claim[t].phase = "none" => c.lease = "none" /\ c.phase = "intake")
  <2>1. PICK b : b = Bare("intake")
    OBVIOUS
  <2>2. b \in ClaimType /\ b.phase = "intake" /\ b.to = NoWorker /\ b.lease = "none"
    BY <2>1 DEF Bare, NoClaim, ClaimType
  <2> QED BY <1>3, <1>4, <2>1, <2>2 DEF Stands
<1>6. PICK via : via = IF c.to # NoWorker THEN c.via ELSE IF c.phase \in Waits THEN c.phase ELSE ViaOf(pass[p].trail)
  OBVIOUS
<1>7. PICK step : step = Next1(p, c)
  OBVIOUS
<1>8. PICK to : to = IF c.to # NoWorker THEN c.to ELSE pass[p].to
  OBVIOUS
<1>9. claim' = [claim EXCEPT ![t] = c]
  BY <1>1, <1>4 DEF Take, Req
<1>10. IF c.phase = "dispatched" \/ c.lease = "live"
       THEN Finish(p, c.phase = "dispatched") /\ UNCHANGED pen
       ELSE /\ Become(p, [pass[p] EXCEPT !.at = step, !.to = to, !.via = via, !.held = TRUE, !.trail = {},
                            !.given = c = GivenUp(c.to, c.via),
                            !.state = IF c.to # NoWorker THEN "REQUESTED" ELSE @])
            /\ ToWrite(p, LinesTo(p, to, First(step, pass[p].state, via)))
  BY <1>1, <1>4, <1>6, <1>7, <1>8 DEF Take, Req
<1>11. via \in Waits \cup {"none"} /\ to \in Workers
  <2>1. pass[p].to \in Workers
    BY <1>2, HandIs DEF InHand
  <2>2. c.to \in Workers \cup {NoWorker} /\ c.via \in Waits \cup {"none"}
    BY <1>5 DEF ClaimType
  <2>3. ViaOf(pass[p].trail) \in Waits \cup {"none"}
    BY DEF ViaOf, Waits
  <2> QED BY <1>6, <1>8, <2>1, <2>2, <2>3
<1>12. CASE c.phase = "dispatched" \/ c.lease = "live"
  <2>1. Finish(p, c.phase = "dispatched") /\ UNCHANGED pen
    BY <1>10, <1>12
  <2>2. c = claim[t]
    BY <1>5, <1>12
  <2>3. claim' = claim
    BY <1>3, <1>9, <2>2, IntakeTyped
  <2>4. Tidy /\ \A b \in Writers : SamePen(b)
    BY <1>2, <2>1, Parts, StillPen, TidyStill DEF gates
  <2>5. (c.phase = "dispatched") \in BOOLEAN
    OBVIOUS
  <2> QED BY <1>2, <1>3, <2>1, <2>3, <2>4, <2>5, FinishRests
<1>13. CASE ~(c.phase = "dispatched" \/ c.lease = "live")
  <2>1. PICK x : x = [pass[p] EXCEPT !.at = step, !.to = to, !.via = via, !.held = TRUE, !.trail = {},
                            !.given = c = GivenUp(c.to, c.via),
                            !.state = IF c.to # NoWorker THEN "REQUESTED" ELSE @]
    OBVIOUS
  <2>2. pass' = [pass EXCEPT ![p] = x] /\ ToWrite(p, LinesTo(p, to, First(step, pass[p].state, via)))
    BY <1>10, <1>13, <2>1 DEF Become
  <2>3. /\ step \in {"seed", "waiting", "wait", "ring", "settle", "bind"}
        /\ step \in {"waiting", "wait"} => pass[p].state \in Waits
    BY <1>5, <1>7, <1>13, NextIs
  <2>4. x \in PassType /\ Found(p, c, t, to, via, step, x)
    <3>1. PICK b \in BOOLEAN : b = (c = GivenUp(c.to, c.via))
      OBVIOUS
    <3>2. PICK s : s = IF c.to # NoWorker THEN "REQUESTED" ELSE pass[p].state
      OBVIOUS
    <3>3. s \in Waits \cup {"none", "REQUESTED"}
      BY <1>3, <3>2, PassTyped
    <3>4. x = [pass[p] EXCEPT !.at = step, !.to = to, !.via = via, !.held = TRUE, !.trail = {}, !.given = b, !.state = s]
      BY <2>1, <3>1, <3>2
    <3>5. x \in PassType
      <4>1. PICK y \in PassType : y = pass[p]
        BY <1>3
      <4>2. x = [y EXCEPT !.at = step, !.to = to, !.via = via, !.held = TRUE, !.trail = {}, !.given = b, !.state = s]
        BY <3>4, <4>1
      <4>3. step \in Steps /\ {} \in SUBSET (Waits \cup {"REQUESTED"}) /\ to \in Workers \cup {NoWorker}
               /\ TRUE \in BOOLEAN
        BY <1>11, <2>3 DEF Steps
      <4> QED BY <1>11, <3>3, <4>2, <4>3 DEF PassType
    <3>6. /\ x.at = step /\ x.to = to /\ x.via = via /\ x.held /\ x.trail = {} /\ x.req = t
             /\ x.named = pass[p].named
          /\ x.given = b /\ x.state = s
      BY <1>1, <1>3, <3>4 DEF PassType
    <3> QED BY <3>1, <3>2, <3>5, <3>6 DEF Found
  <2>5. pass' \in [Passes -> PassType] /\ pass'[p] = x /\ \A q \in Passes \ {p} : pass'[q] = pass[q]
    BY <1>3, <2>2, <2>4, IntakeTyped
  <2>6. claim'[t] = c /\ \A u \in Requests \ {t} : claim'[u] = claim[u]
    BY <1>3, <1>9, IntakeTyped
  <2>7. PICK S \in SUBSET IntakeStates : First(step, pass[p].state, via) \in Seq(S)
    <3>1. /\ step = "waiting" => First(step, pass[p].state, via) \in Seq(Waits)
          /\ step = "ring" => First(step, pass[p].state, via) \in Seq(Waits \cup {"REQUESTED"})
          /\ step = "settle" => First(step, pass[p].state, via) \in Seq(IntakeStates)
          /\ step \notin {"waiting", "ring", "settle"} => First(step, pass[p].state, via) \in Seq({})
      BY <1>11, <2>3, FirstIs
    <3>2. Waits \in SUBSET IntakeStates /\ Waits \cup {"REQUESTED"} \in SUBSET IntakeStates
             /\ IntakeStates \in SUBSET IntakeStates
      BY DEF IntakeStates
    <3> QED BY <3>1, <3>2
  <2>8. /\ pen' \in [Writers -> PenType] /\ \A b \in Writers \ {p} : SamePen(b)
        /\ pen'[p].todo = LinesTo(p, to, First(step, pass[p].state, via)) /\ pen'[p].landed = pen[p].landed
    BY <1>3, <1>11, <2>2, <2>7, ToWriteIs
  <2>9. ~pen'[p].landed
    BY <1>2, <1>3, <2>8, IdleLanded
  <2>10. PenOK(p)' /\ PassOK(p)' /\ HeldOK(p)'
    BY <1>1, <1>2, <1>5, <1>7, <1>8, <1>11, <1>13, <2>4, <2>5, <2>6, <2>8, <2>9, FoundOK DEF weather
  <2>11. Tidy
    BY <1>2, <2>8, Parts, TidyStill DEF gates
  <2>12. ASSUME NEW q \in Passes, q # p PROVE Undisturbed(q)
    <3>1. PICK z \in PassType : z = pass[q]
      BY <1>3, PassTyped
    <3>2. CASE z.req = t /\ claim[t].phase = "none"
      <4>1. ~z.held
        BY <1>3, <3>1, <3>2 DEF IntakeIInv, HeldOK
      <4>2. z = [z EXCEPT !.held = FALSE]
        BY <4>1 DEF PassType
      <4> QED BY <2>5, <2>12, <3>1, <4>2 DEF Undisturbed
    <3>3. CASE ~(z.req = t /\ claim[t].phase = "none")
      <4>1. z.req \in Requests
        BY DEF PassType
      <4>2. SameClaim(z.req)
        BY <1>5, <2>6, <3>3, <4>1 DEF SameClaim
      <4> QED BY <2>5, <2>12, <3>1, <4>2 DEF Undisturbed
    <3> QED BY <3>2, <3>3
  <2>13. Takes1(p, t, c, x)
    BY <1>9, <2>5, <2>12 DEF Takes1
  <2>14. ClaimOK(t)'
    <3>1. ClaimFits(t, c)
      BY <1>3, <1>5, <1>13 DEF Stands, ClaimFits, ClaimOK, Unbound
    <3> QED BY <1>2, <2>6, <3>1, FitClaimOK DEF weather
  <2>15. OnInbox(t) = {} /\ claim[t].phase = "delivering" => c.phase = "delivering" /\ c.to = claim[t].to
    BY <1>5
  <2> QED BY <1>2, <1>5, <2>8, <2>10, <2>11, <2>13, <2>14, <2>15, ClaimStep
<1> QED BY <1>12, <1>13

-----------------------------------------------------------------------------
(* The intake: every step, and the beginning.                              *)

\* A write that fails.
LEMMA PenFailsKeeps ==
    ASSUME IntakeOK, NEW p \in Passes, PenFails(p), Use("fault"),
          UNCHANGED <<weather, gates, claim, pending>> PROVE Good
<1>1. Writes(p)
  BY Parts, FailureWrites DEF PenFails
<1> QED BY <1>1, Parts, WritesKeeps DEF PenFails

\* A step of write_receipt.
LEMMA ReceiptKeeps ==
    ASSUME IntakeOK, NEW p \in Passes, WriteReceipt(p),
          UNCHANGED <<weather, budget, gates, claim, queues, pending, pass>>
    PROVE  Good
<1>1. Writes(p)
  BY Parts, ReceiptWrites
<1> QED BY <1>1, Parts, WritesKeeps

\* Every step of a pass.
LEMMA GoesKeeps == ASSUME IntakeOK, NEW p \in Passes, Goes(p) PROVE Good
  BY PollKeeps, MoveTokenKeeps, ReadKeeps, AdmitKeeps, TakeKeeps, SeedKeeps, WaitKeeps, WaitingKeeps,
        BindKeeps,
     AskHolderKeeps, RebindKeeps, PutTaskKeeps, CheckKeeps, GiveKeeps, LandedKeeps, RingKeeps, RungKeeps,
     SettleTaskKeeps, ConsumeKeeps, EndKeeps, ReceiptKeeps DEF Goes

\* Every fault of one.
LEMMA FaultsKeep == ASSUME IntakeOK, NEW p \in Passes, PassFaults(p) PROVE Good
<1>1. CASE Dies(p)
  BY <1>1, DiesKeeps DEF PassFaults
<1>2. CASE CallFails(p)
  BY <1>2, ReadFailsKeeps, PutFailsKeeps, RingFailsKeeps, PenFailsKeeps DEF PassFaults, CallFails
<1> QED BY <1>1, <1>2 DEF PassFaults

\* Every step of the intake keeps its invariant.
LEMMA IntakeNextKeeps == ASSUME IntakeOK, IntakeNext PROVE Good
  BY PushKeeps, GoesKeeps, FaultsKeep, WakeFailsKeeps, LeaseEndsKeeps, ForgetKeeps, SweepKeeps, WeatherKeeps,
     TimePassesKeeps, EditKeeps DEF IntakeNext

-----------------------------------------------------------------------------
(* What a step of the intake leaves to the worker.                         *)

\* Its inbox only grows, the lines that come are the intake's, and its pens stay.
Apart ==
    /\ Spent
    /\ \A w \in Works : SamePen(w)
    /\ doc.lines \subseteq doc'.lines /\ \A l \in doc'.lines : l \in doc.lines \/ l.by = "drive-intake"
    /\ Len(inbox[Api]) <= Len(inbox'[Api])
    /\ \A i \in DOMAIN inbox[Api] : inbox'[Api][i] = inbox[Api][i]

\* The Api inbox as it is.
LEMMA ApiIs ==
    ASSUME TypeOK
    PROVE  inbox[Api] \in Seq(Requests) /\ Len(inbox[Api]) \in Nat /\ DOMAIN inbox[Api] = 1..Len(inbox[Api])
<1>1. inbox[Api] \in Seq(Requests)
  BY IntakeTyped, WorkersAre
<1> QED BY <1>1, LenProperties

\* A step that writes nothing and leaves the inboxes alone.
LEMMA ApartSame ==
    ASSUME TypeOK, UNCHANGED inbox, Spent, doc'.lines = doc.lines, \A w \in Works : SamePen(w)
    PROVE  Apart
<1>1. Len(inbox[Api]) <= Len(inbox'[Api])
  <2>1. PICK n \in Nat : n = Len(inbox[Api])
    BY ApiIs
  <2>2. inbox' = inbox
    OBVIOUS
  <2> QED BY <2>1, <2>2
<1> QED BY <1>1 DEF Apart

\* The steps of a pass that leave the inboxes and the lines.
LEMMA PassApart ==
    ASSUME IntakeOK, NEW p \in Passes,
           \/ Poll(p) \/ Push(p) \/ MoveToken(p) \/ Read(p) \/ Admit(p) \/ Take(p) \/ Seed(p) \/ Wait(p)
                 \/ Waiting(p)
           \/ Bind(p) \/ AskHolder(p) \/ Rebind(p) \/ Check(p) \/ Give(p) \/ Landed(p)
           \/ Ring(p) \/ Rung(p) \/ SettleTask(p) \/ Consume(p) \/ End(p)
    PROVE  /\ UNCHANGED <<inbox, room, budget>> /\ doc'.lines = doc.lines /\ \A w \in Works : pen'[w] = pen[w]
<1>0. /\ pen \in [Writers -> PenType] /\ p \in Writers /\ Works \subseteq Writers /\ p \notin Works
         /\ doc \in DocType
  BY Parts, WritersAre
<1>1. ASSUME pen' = pen PROVE \A w \in Works : pen'[w] = pen[w]
  BY <1>1
<1>2. ASSUME NEW lines, ToWrite(p, lines) PROVE \A w \in Works : pen'[w] = pen[w]
  BY <1>0, <1>2 DEF ToWrite
<1>3. ASSUME NEW c, NEW x, NEW lines, Advance(p, c, x, lines) PROVE \A w \in Works : pen'[w] = pen[w]
  BY <1>2, <1>3 DEF Advance
<1>4. CASE Poll(p)
  BY <1>0, <1>4 DEF Poll, queues, weather
<1>5. CASE Push(p)
  BY <1>0, <1>5 DEF Push, queues, weather
<1>6. CASE MoveToken(p)
  BY <1>0, <1>6 DEF MoveToken, queues, weather, DocType
<1>7. CASE Read(p)
  BY <1>0, <1>7 DEF Read, queues, weather
<1>8. CASE Admit(p)
  BY <1>8 DEF Admit, queues, weather
<1>9. CASE Take(p)
  <2>1. UNCHANGED pen \/ \E lines : ToWrite(p, lines)
    BY <1>9 DEF Take
  <2> QED BY <1>2, <1>9, <2>1 DEF Take, queues, weather
<1>10. CASE Seed(p)
  BY <1>3, <1>10 DEF Seed, queues, weather
<1>11. CASE Wait(p)
  BY <1>3, <1>11 DEF Wait, queues, weather
<1>12. CASE Waiting(p)
  BY <1>12 DEF Waiting, queues, weather
<1>13. CASE Bind(p)
  BY <1>3, <1>13 DEF Bind, queues, weather
<1>14. CASE AskHolder(p)
  BY <1>14 DEF AskHolder, weather
<1>15. CASE Rebind(p)
  BY <1>3, <1>15 DEF Rebind, queues, weather
<1>16. CASE Check(p)
  BY <1>16 DEF Check, weather
<1>17. CASE Give(p)
  BY <1>3, <1>17 DEF Give, queues, weather
<1>18. CASE Landed(p)
  BY <1>3, <1>18 DEF Landed, queues, weather
<1>19. CASE Ring(p)
  BY <1>19 DEF Ring, weather
<1>20. CASE Rung(p)
  BY <1>3, <1>20 DEF Rung, queues, weather
<1>21. CASE SettleTask(p)
  BY <1>21 DEF SettleTask, queues, weather
<1>22. CASE Consume(p)
  BY <1>22 DEF Consume, queues, weather
<1>23. CASE End(p)
  BY <1>0, <1>23 DEF End, queues, weather, DocType
<1> QED BY <1>4, <1>5, <1>6, <1>7, <1>8, <1>9, <1>10, <1>11, <1>12, <1>13, <1>14, <1>15, <1>16, <1>17,
      <1>18, <1>19,
           <1>20, <1>21, <1>22, <1>23

\* A task is put at the end.
LEMMA PutApart ==
    ASSUME TypeOK, NEW p \in Passes, pass[p].at = "put", PutOnce(Req(p), pass[p].to) \/ UNCHANGED inbox,
           Spent, UNCHANGED <<doc, pen>>
    PROVE  Apart
<1>1. PICK n \in Nat : n = Len(inbox[Api]) /\ DOMAIN inbox[Api] = 1..n /\ inbox[Api] \in Seq(Requests)
  BY ApiIs
<1>2. inbox \in [Workers -> Seq(Requests)] /\ Req(p) \in Requests /\ Api \in Workers
  BY IntakeTyped, PassTyped, WorkersAre
<1>3. \/ inbox' = inbox \/ inbox' = [inbox EXCEPT ![pass[p].to] = Append(@, Req(p))]
  BY DEF PutOnce
<1>4. \/ inbox'[Api] = inbox[Api] \/ inbox'[Api] = Append(inbox[Api], Req(p))
  BY <1>2, <1>3
<1>5. CASE inbox'[Api] = inbox[Api]
  BY <1>1, <1>5 DEF Apart, SamePen
<1>6. CASE inbox'[Api] = Append(inbox[Api], Req(p))
  <2>1. Len(inbox'[Api]) = n + 1 /\ \A i \in 1..n : inbox'[Api][i] = inbox[Api][i]
    BY <1>1, <1>2, <1>6, AppendProperties
  <2>2. n <= n + 1
    OBVIOUS
  <2> QED BY <1>1, <2>1, <2>2 DEF Apart, SamePen
<1> QED BY <1>4, <1>5, <1>6

\* A receipt of a pass.
LEMMA WritesApart ==
    ASSUME IntakeOK, NEW p \in Passes, Writes(p), UNCHANGED inbox, Spent PROVE Apart
<1>1. TypeOK /\ PenOK(p) /\ p \in Writers /\ p \notin Works /\ Works \subseteq Writers
  BY HandIs, WritersAre
<1>2. \A w \in Works : SamePen(w)
  BY <1>1 DEF Writes
<1>3. Len(inbox[Api]) <= Len(inbox'[Api])
  <2>1. PICK n \in Nat : n = Len(inbox[Api])
    BY <1>1, ApiIs
  <2>2. inbox' = inbox
    OBVIOUS
  <2> QED BY <2>1, <2>2
<1>4. pen[p].todo \in Seq(Line) /\ pen[p].todo # <<>>
  BY <1>1, PenTyped DEF Writes
<1>5. Head(pen[p].todo).by = "drive-intake"
  <2>1. PICK s \in Seq(Line) : s = pen[p].todo /\ s # <<>>
    BY <1>4
  <2>2. 1 \in DOMAIN s /\ Head(s) = s[1]
    BY <2>1, HeadTailProperties, LenProperties
  <2> QED BY <1>1, <2>1, <2>2 DEF PenOK
<1>6. doc'.lines = doc.lines \/ doc'.lines = doc.lines \cup {Head(pen[p].todo)}
  BY DEF Writes
<1> QED BY <1>2, <1>3, <1>5, <1>6 DEF Apart

\* Every step of the intake leaves the worker its part.
LEMMA IntakeApart == ASSUME IntakeOK, IntakeNext PROVE Apart
<1>0. TypeOK /\ doc \in DocType
  BY Parts
<1>1. ASSUME NEW b \in Bounds, UNCHANGED room, UNCHANGED budget \/ Use(b) PROVE Spent
  BY <1>0, <1>1, UseIs
<1>2. ASSUME UNCHANGED room, UNCHANGED budget \/ Use("fault") PROVE Spent
  <2>1. "fault" \in Bounds
    BY DEF Bounds
  <2> QED BY <1>1, <1>2, <2>1
<1>3. ASSUME \A w \in Works : pen'[w] = pen[w] PROVE \A w \in Works : SamePen(w)
  BY <1>3 DEF SamePen
<1>4. CASE \E p \in Passes : Push(p) \/ Goes(p)
  <2>1. PICK p \in Passes : Push(p) \/ Goes(p)
    BY <1>4
  <2>2. CASE PutTask(p)
    BY <1>0, <1>2, <2>2, PutApart DEF PutTask, At, weather
  <2>3. CASE WriteReceipt(p) /\ UNCHANGED <<weather, budget, gates, claim, queues, pending, pass>>
    <3>1. Writes(p)
      BY <1>0, <2>3, Parts, ReceiptWrites
    <3> QED BY <1>2, <2>3, <3>1, WritesApart DEF weather, queues
  <2>4. CASE ~PutTask(p)
                /\ ~(WriteReceipt(p) /\ UNCHANGED <<weather, budget, gates, claim, queues, pending, pass>>)
    <3>1. UNCHANGED <<inbox, room, budget>> /\ doc'.lines = doc.lines /\ \A w \in Works : pen'[w] = pen[w]
      BY <2>1, <2>4, PassApart DEF Goes
    <3> QED BY <1>0, <1>2, <1>3, <3>1, ApartSame
  <2> QED BY <2>2, <2>3, <2>4
<1>5. CASE \E p \in Passes : PassFaults(p)
  <2>1. PICK p \in Passes : PassFaults(p)
    BY <1>5
  <2>2. Spent /\ p \in Writers /\ p \notin Works /\ Works \subseteq Writers
    BY <1>2, <2>1, WritersAre DEF PassFaults, weather
  <2>3. CASE Dies(p)
    <3>1. \A w \in Works : pen'[w] = pen[w]
      BY <2>2, <2>3, Parts DEF Dies
    <3> QED BY <1>0, <1>3, <2>2, <2>3, <3>1, ApartSame DEF Dies, queues
  <2>4. CASE ReadFails(p)
    BY <1>0, <1>3, <2>2, <2>4, ApartSame DEF ReadFails, queues
  <2>5. CASE PutFails(p)
    BY <1>0, <2>2, <2>5, PutApart DEF PutFails, At
  <2>6. CASE RingFails(p)
    BY <1>0, <1>3, <2>2, <2>6, ApartSame DEF RingFails
  <2>7. CASE PenFails(p)
    <3>1. Writes(p)
      BY <1>0, <2>7, Parts, FailureWrites DEF PenFails
    <3> QED BY <2>2, <2>7, <3>1, WritesApart DEF PenFails, queues
  <2> QED BY <2>1, <2>3, <2>4, <2>5, <2>6, <2>7 DEF PassFaults, CallFails
<1>6. CASE \E p \in Passes : WakeFails(p)
  <2>1. PICK p \in Passes : WakeFails(p)
    BY <1>6
  <2>2. "wake" \in Bounds
    BY DEF Bounds
  <2> QED BY <1>0, <1>1, <1>3, <2>1, <2>2, ApartSame DEF WakeFails, weather
<1>7. CASE \E t \in Requests : LeaseEnds(t) \/ Forget(t) \/ \E w \in Workers : Sweep(t, w)
  <2>1. "lapse" \in Bounds /\ "forget" \in Bounds
    BY DEF Bounds
  <2>2. UNCHANGED <<doc, pen, inbox, room>> /\ (UNCHANGED budget \/ Use("lapse") \/ Use("forget"))
    BY <1>7 DEF LeaseEnds, Forget, Sweep, weather, queues
  <2> QED BY <1>0, <1>1, <1>3, <2>1, <2>2, ApartSame
<1>8. CASE Weather
  <2>1. "flip" \in Bounds /\ "age" \in Bounds /\ "day" \in Bounds
    BY DEF Bounds
  <2>2. UNCHANGED <<doc, pen, inbox, room>> /\ (Use("flip") \/ Use("age") \/ Use("day"))
    BY <1>8 DEF Weather, queues
  <2> QED BY <1>0, <1>1, <1>3, <2>1, <2>2, ApartSame
<1>9. CASE TimePasses
  <2>1. doc'.lines = doc.lines
    BY <1>0, <1>9 DEF TimePasses, DocType
  <2> QED BY <1>0, <1>2, <1>3, <1>9, <2>1, ApartSame DEF TimePasses, queues, weather
<1>10. CASE Edit
  <2>1. PICK d : d = [doc EXCEPT !.req = @ + 1]
    OBVIOUS
  <2>2. doc.req + 1 \in Requests
    <3>1. doc.req \in 1..MaxRequests /\ doc.req < MaxRequests
      BY <1>0, <1>10, DocTyped DEF Edit, Rewrite, Requests
    <3> QED BY <3>1, MaxRequestsAssumption DEF Requests
  <2>3. d \in DocType /\ d.lines = doc.lines
    BY <1>0, <2>1, <2>2 DEF DocType
  <2>4. Write(d, NoWorker, NoPen)
    BY <1>10, <2>1 DEF Edit, Rewrite
  <2>5. doc'.lines = d.lines /\ \A b \in Writers : b # NoWorker => SamePen(b)
    BY <1>0, <2>3, <2>4, NoPenIs, WriteIs
  <2>6. "edit" \in Bounds
    BY DEF Bounds
  <2>7. Spent /\ UNCHANGED inbox
    BY <1>1, <1>10, <2>6 DEF Edit, weather, queues
  <2> QED BY <1>0, <2>3, <2>5, <2>7, ApartSame, WritersAre
<1> QED BY <1>4, <1>5, <1>6, <1>7, <1>8, <1>9, <1>10 DEF IntakeNext

-----------------------------------------------------------------------------
(* The worker: types, and its task.                                        *)

\* The worker's variables have their types.
LEMMA WorkTyped ==
    ASSUME TypeOK
    PROVE  /\ overdue \in BOOLEAN /\ job \in [Requests -> JobType] /\ done \subseteq Requests
           /\ result \in [Requests -> Verdicts \cup {"none"}] /\ cursor \in [after : Nat, through : Nat]
           /\ spend \in [Days -> Nat] /\ bill \in [Days -> Nat] /\ calls \in [Requests -> Seq(Outcomes)]
           /\ work \in [Works -> WorkType]
  BY DEF TypeOK, WorkTypeOK

\* A turn has its type.
LEMMA TurnTyped ==
    ASSUME TypeOK, NEW w \in Works
    PROVE  /\ work[w] \in WorkType /\ work[w].next \in Nat /\ work[w].through \in Nat
              /\ work[w].mine \in JobType
           /\ work[w].held \in BOOLEAN /\ work[w].day \in Days /\ work[w].got \in Outcomes \cup {"none"}
           /\ work[w].ran \in BOOLEAN
  BY WorkTyped DEF WorkType

\* So has a claim of the worker.
LEMMA JobTyped ==
    ASSUME NEW j \in JobType
    PROVE  /\ j.phase \in {"none", "accepted", "capped", "resulted", "uncertain", "done"}
           /\ j.lease \in {"none", "live", "dead"} /\ j.attempt \in 0..1 /\ j.rejected \in 0..MaxRejections
           /\ j.rejected \in Nat /\ j.day \in Days
  BY MaxRejectionsAssumption DEF JobType

\* A task's calls are a sequence of outcomes.
LEMMA CallsTyped ==
    ASSUME TypeOK, NEW t \in Requests
    PROVE  /\ calls[t] \in Seq(Outcomes) /\ Len(calls[t]) \in Nat /\ DOMAIN calls[t] = 1..Len(calls[t])
           /\ calls[t] = <<>> <=> Len(calls[t]) = 0
           /\ result[t] \in Verdicts \cup {"none"} /\ job[t] \in JobType
  BY WorkTyped, LenProperties, EmptySeq

\* The task a turn is at is the one at its place in the inbox.
LEMMA TaskIs ==
    ASSUME TypeOK, NEW w \in Works, MineOK(w), work[w].at # "off"
    PROVE  /\ Task(w) \in Requests /\ work[w].next \in DOMAIN inbox[Api]
<1>1. PICK n \in Nat : n = Len(inbox[Api]) /\ DOMAIN inbox[Api] = 1..n /\ inbox[Api] \in Seq(Requests)
  BY ApiIs
<1>2. work[w].next \in 1..n
  <2>1. work[w].next \in Nat /\ work[w].through \in Nat
    BY TurnTyped
  <2>2. work[w].next >= 1 /\ work[w].next <= work[w].through /\ work[w].through <= n
    BY <1>1 DEF MineOK
  <2> QED BY <2>1, <2>2
<1> QED BY <1>1, <1>2 DEF Task

\* The names of the parts.
LEMMA WorkParts ==
    ASSUME IInv
    PROVE  /\ IntakeOK /\ TypeOK /\ BudgetOK /\ CursorOK /\ OneOnTheJob /\ SaidOK
           /\ \A t \in Requests : JobOK(t)
           /\ \A w \in Works : MineOK(w) /\ CopyOK(w) /\ CallOK(w) /\ PenOK(w) /\ w \in Writers
           /\ Steady => \A l \in doc.lines : Told(l)
           /\ Steady => \A w \in Works : AtStory(w) /\ \A i \in DOMAIN pen[w].todo : Told(pen[w].todo[i])
           /\ Steady => \A t \in Requests : StoryOK(t)
           /\ \A d \in Days : MoneyOK(d)
  BY WritersAre DEF IInv, WorkIInv, IntakeIInv, IntakeOK, StoryIInv, MoneyIInv

\* What is steady after a step was steady before it.
LEMMA Steadied == ASSUME TypeOK, BudgetOK, Spent, Steady' PROVE Steady
<1>1. "lapse" \in Bounds /\ "forget" \in Bounds
  BY IntakeTyped
<1>2. PICK l \in Nat : l = Used("lapse")
  BY <1>1, UsedTyped
<1>3. PICK f \in Nat : f = Used("forget")
  BY <1>1, UsedTyped
<1>4. PICK m \in Nat : m = Used("lapse")' /\ l <= m
  BY <1>1, <1>2, SpentUsed
<1>5. PICK g \in Nat : g = Used("forget")' /\ f <= g
  BY <1>1, <1>3, SpentUsed
<1>6. m + g = 0
  BY <1>4, <1>5 DEF Steady
<1>7. l + f = 0
  BY <1>4, <1>5, <1>6
<1> QED BY <1>2, <1>3, <1>7 DEF Steady

-----------------------------------------------------------------------------
(* The worker stands still.                                                *)

\* The worker's part comes out right.
WorkGood == WorkTypeOK' /\ WorkIInv' /\ MoneyIInv' /\ StoryIInv'

\* What the worker has to itself.
StillVars == <<job, done, result, cursor, spend, bill, calls, work>>

\* What is on paper is the same, or less.
PenShrinks(w) == \A i \in DOMAIN pen'[w].todo : \E k \in DOMAIN pen[w].todo : pen'[w].todo[i] = pen[w].todo[k]

\* A pen that writes has less to write.
LEMMA WrittenShrinks == ASSUME TypeOK, NEW w \in Writers, Writes(w) \/ SamePen(w) PROVE PenShrinks(w)
<1>1. CASE pen'[w].todo = pen[w].todo
  BY <1>1 DEF PenShrinks
<1>2. CASE pen'[w].todo = Tail(pen[w].todo) /\ pen[w].todo # <<>>
  <2>1. PICK s \in Seq(Line) : s = pen[w].todo /\ s # <<>>
    BY <1>2, PenTyped
  <2>2. Tail(s) \in Seq(Line) /\ Len(Tail(s)) = Len(s) - 1 /\ \A i \in 1..Len(Tail(s)) : Tail(s)[i] = s[i + 1]
    BY <2>1, HeadTailProperties
  <2>3. PICK n \in Nat : n = Len(s) /\ DOMAIN s = 1..n /\ n > 0
    BY <2>1, LenProperties, EmptySeq
  <2>4. DOMAIN Tail(s) = 1..(n - 1)
    BY <2>2, <2>3, LenProperties
  <2>5. ASSUME NEW i \in DOMAIN Tail(s) PROVE i + 1 \in DOMAIN s /\ Tail(s)[i] = s[i + 1]
    BY <2>2, <2>3, <2>4, <2>5
  <2> QED BY <1>2, <2>1, <2>5 DEF PenShrinks
<1> QED BY <1>1, <1>2 DEF Writes, SamePen

\* A step of another that leaves the worker's part alone leaves it right.
LEMMA WorkStill ==
    ASSUME IInv, Spent, overdue' \in BOOLEAN, UNCHANGED StillVars,
           doc.lines \subseteq doc'.lines,
           \A l \in doc'.lines : l \in doc.lines \/ l.by # "claude-api"
                                 \/ \E w \in Works : \E i \in DOMAIN pen[w].todo : l = pen[w].todo[i],
           \A w \in Works : SamePen(w) \/ Writes(w),
           Len(inbox[Api]) <= Len(inbox'[Api]), Len(inbox'[Api]) \in Nat,
           \A i \in DOMAIN inbox[Api] : inbox'[Api][i] = inbox[Api][i]
    PROVE  WorkGood
<1> USE DEF StillVars
<1>0. /\ TypeOK /\ BudgetOK /\ CursorOK /\ OneOnTheJob /\ SaidOK /\ room' = room
      /\ \A t \in Requests : JobOK(t)
      /\ \A w \in Works : MineOK(w) /\ CopyOK(w) /\ CallOK(w) /\ PenOK(w) /\ w \in Writers
  BY WorkParts DEF Spent
<1>1. ASSUME NEW w \in Works, work[w].at # "off" PROVE Task(w)' = Task(w) /\ Task(w) \in Requests
  <2>1. work[w].next \in DOMAIN inbox[Api] /\ Task(w) \in Requests
    BY <1>0, <1>1, TaskIs
  <2> QED BY <2>1 DEF Task
<1>2. WorkTypeOK'
  BY <1>0, WorkTyped DEF WorkTypeOK
<1>3. CursorOK'
  <2>1. PICK n \in Nat : n = Len(inbox[Api])
    BY <1>0, ApiIs
  <2>2. PICK m \in Nat : m = Len(inbox'[Api]) /\ n <= m
    BY <2>1
  <2>3. PICK c \in Nat : c = cursor.through
    BY <1>0, WorkTyped
  <2>4. cursor.after <= c /\ c <= n
    BY <1>0, <2>1, <2>3 DEF CursorOK
  <2>5. c <= m
    BY <2>2, <2>4
  <2> QED BY <2>2, <2>3, <2>4, <2>5 DEF CursorOK
<1>4. \A w \in Works : \A u : OnJob(w, u)' <=> OnJob(w, u)
  <2>1. "off" \notin OnTheJob
    BY DEF OnTheJob
  <2> QED BY <1>1, <2>1 DEF OnJob
<1>5. \A u : Nobody(u)' <=> Nobody(u)
  BY <1>4 DEF Nobody
<1>6. OneOnTheJob'
  <2> SUFFICES ASSUME NEW v \in Works, NEW w \in Works, work'[w].at \in OnTheJob,
                      OnJob(v, Task(w))' PROVE v = w
    BY DEF OneOnTheJob
  <2>1. work[w].at \in OnTheJob /\ work[w].at # "off"
    BY DEF OnTheJob
  <2>2. Task(w)' = Task(w)
    BY <1>1, <2>1
  <2>3. work[v].at \in OnTheJob /\ Task(v)' = Task(w)' /\ work[v].at # "off"
    BY DEF OnJob, OnTheJob
  <2>4. OnJob(v, Task(w))
    BY <1>1, <2>2, <2>3 DEF OnJob
  <2> QED BY <1>0, <2>1, <2>4 DEF OneOnTheJob
<1>7. \A t : Answered(t) => Answered(t)'
  BY TrailGrows DEF Answered
<1>8. \A t \in Requests : JobOK(t)'
  <2> SUFFICES ASSUME NEW t \in Requests PROVE JobOK(t)'
    OBVIOUS
  <2>1. JobOK(t)
    BY <1>0
  <2>2. Ends(t, result[t])' <=> Ends(t, result[t])
    BY DEF Ends, Final, Story
  <2>3. Refused(t, job[t].rejected)' <=> Refused(t, job[t].rejected)
    BY DEF Refused
  <2> QED BY <1>5, <1>7, <2>1, <2>2, <2>3 DEF JobOK, IsOpen, Timeless
<1>9. ASSUME NEW w \in Works PROVE MineOK(w)' /\ CopyOK(w)' /\ CallOK(w)'
  <2>1. MineOK(w) /\ CopyOK(w) /\ CallOK(w)
    BY <1>0
  <2>2. MineOK(w)'
    <3>1. PICK n \in Nat : n = Len(inbox[Api])
      BY <1>0, ApiIs
    <3>2. PICK m \in Nat : m = Len(inbox'[Api]) /\ n <= m
      BY <3>1
    <3>3. PICK c \in Nat : c = work[w].through
      BY <1>0, TurnTyped
    <3>4. work[w].at # "off" => c <= n
      BY <2>1, <3>1, <3>3 DEF MineOK
    <3>5. work[w].at # "off" => c <= m
      BY <3>2, <3>4
    <3> QED BY <2>1, <3>2, <3>3, <3>5 DEF MineOK
  <2>3. CASE work[w].at = "off"
    <3>1. ~work[w].held
      BY <2>1, <2>3 DEF MineOK
    <3> QED BY <2>2, <2>3, <3>1 DEF CopyOK, CallOK
  <2>4. CASE work[w].at # "off"
    <3>1. Task(w)' = Task(w)
      BY <1>1, <2>4
    <3>2. CopyOK(w)'
      BY <2>1, <3>1 DEF CopyOK
    <3>3. ASSUME work[w].at = "close", ~pen'[w].owed PROVE Coming(w, "claude-api", Task(w), work[w].got)'
      <4>1. CASE SamePen(w)
        <5>1. Coming(w, "claude-api", Task(w), work[w].got)
          BY <2>1, <3>3, <4>1 DEF CallOK, SamePen
        <5>2. PICK u, s : u = Task(w) /\ s = work[w].got
          OBVIOUS
        <5>3. Coming(w, "claude-api", u, s)'
          BY <4>1, <5>1, <5>2, ComingKept
        <5> QED BY <3>1, <5>2, <5>3 DEF Coming, InTrail, Trail
      <4>2. CASE Writes(w)
        <5>0. w \in Writers /\ PenOK(w) /\ TypeOK
          BY <1>0
        <5>1. PICK x \in BOOLEAN : x = pen[w].owed
          BY <5>0, PenTyped
        <5>2. ~x
          BY <3>3, <4>2, <5>0, <5>1, TailDiffers DEF Writes
        <5>3. Coming(w, "claude-api", Task(w), work[w].got)
          BY <2>1, <3>3, <5>1, <5>2 DEF CallOK
        <5>4. PICK u, s : u = Task(w) /\ s = work[w].got
          OBVIOUS
        <5>5. Coming(w, "claude-api", u, s)'
          BY <3>3, <4>2, <5>0, <5>3, <5>4, ComingWritten
        <5> QED BY <3>1, <5>4, <5>5 DEF Coming, InTrail, Trail
      <4> QED BY <4>1, <4>2
    <3>4. /\ \A n : Refused(Task(w), n)' <=> Refused(Task(w), n)
          /\ \A n : Ends(Task(w), n)' <=> Ends(Task(w), n)
      BY <3>1 DEF Refused, Ends, Final, Story
    <3>5. CallOK(w)'
      BY <2>1, <3>1, <3>3, <3>4 DEF CallOK
    <3> QED BY <2>2, <3>2, <3>5
  <2> QED BY <2>3, <2>4
<1>10. ASSUME NEW l PROVE SaysOK(l)' <=> SaysOK(l)
  BY DEF SaysOK, Ends, Final, Story
<1>11. \A w \in Works : PenShrinks(w)
  BY <1>0, WrittenShrinks
<1>12. SaidOK'
  <2>1. ASSUME NEW l \in doc'.lines PROVE SaysOK(l)'
    <3>1. SaysOK(l)
      BY <1>0, <2>1 DEF SaidOK, SaysOK
    <3> QED BY <1>10, <3>1
  <2>2. ASSUME NEW w \in Works, NEW i \in DOMAIN pen'[w].todo PROVE SaysOK(pen[w].todo[i])'
    <3>1. PICK k \in DOMAIN pen[w].todo : pen'[w].todo[i] = pen[w].todo[k]
      BY <1>11, <2>2 DEF PenShrinks
    <3>2. SaysOK(pen[w].todo[k])
      BY <1>0 DEF SaidOK
    <3>3. PICK l : l = pen[w].todo[k]
      OBVIOUS
    <3>4. SaysOK(l)'
      BY <1>10, <3>2, <3>3
    <3> QED BY <3>1, <3>3, <3>4 DEF SaysOK, Ends, Final, Story
  <2> QED BY <2>1, <2>2 DEF SaidOK
<1>13. MoneyIInv'
  BY <1>0, WorkParts DEF MoneyIInv, MoneyOK, Reserving, Returning
<1>14. StoryIInv'
  <2> SUFFICES ASSUME Steady' PROVE /\ \A l \in doc'.lines : Told(l)'
                                    /\ \A w \in Works : AtStory(w)'
                                          /\ \A i \in DOMAIN pen'[w].todo : Told(pen[w].todo[i])'
                                    /\ \A t \in Requests : StoryOK(t)'
    BY DEF StoryIInv
  <2>0. Steady
    BY <1>0, Steadied
  <2>1. \A t : (Shut(t)' <=> Shut(t)) /\ Verdict(t)' = Verdict(t)
    BY <1>5 DEF Shut, Verdict, IsOpen, Timeless
  <2>2. ASSUME NEW l PROVE Told(l)' <=> Told(l)
    BY <2>1 DEF Told
  <2>3. ASSUME NEW l \in doc'.lines PROVE Told(l)'
    <3>1. Told(l)
      BY <2>0, <2>3, WorkParts DEF Told
    <3> QED BY <2>2, <3>1
  <2>4. ASSUME NEW w \in Works, NEW i \in DOMAIN pen'[w].todo PROVE Told(pen[w].todo[i])'
    <3>1. PICK k \in DOMAIN pen[w].todo : pen'[w].todo[i] = pen[w].todo[k]
      BY <1>11, <2>4 DEF PenShrinks
    <3>2. Told(pen[w].todo[k])
      BY <2>0, WorkParts
    <3>3. PICK l : l = pen[w].todo[k]
      OBVIOUS
    <3>4. Told(l)'
      BY <2>2, <3>2, <3>3
    <3> QED BY <3>1, <3>3, <3>4 DEF Told, Shut, Verdict, IsOpen, Timeless, Nobody, OnJob, Task
  <2>5. ASSUME NEW t \in Requests PROVE StoryOK(t)'
    <3>1. StoryOK(t)
      BY <2>0, WorkParts
    <3> QED BY <2>1, <3>1 DEF StoryOK
  <2>6. ASSUME NEW w \in Works PROVE AtStory(w)'
    <3>1. AtStory(w)
      BY <2>0, WorkParts
    <3>2. CASE work[w].at = "off"
      BY <3>2 DEF AtStory, OnTheJob
    <3>3. CASE work[w].at # "off"
      <4>1. Task(w)' = Task(w)
        BY <1>1, <3>3
      <4>2. (Shut(Task(w))' <=> Shut(Task(w))) /\ Verdict(Task(w))' = Verdict(Task(w))
        <5>1. PICK u : u = Task(w) /\ u = Task(w)'
          BY <4>1
        <5>2. (Shut(u)' <=> Shut(u)) /\ Verdict(u)' = Verdict(u)
          BY <2>1
        <5> QED BY <5>1, <5>2 DEF Shut, Verdict, Nobody, OnJob
      <4> QED BY <3>1, <4>1, <4>2 DEF AtStory
    <3> QED BY <3>2, <3>3
  <2> QED BY <2>3, <2>4, <2>5, <2>6
<1> QED BY <1>2, <1>3, <1>6, <1>8, <1>9, <1>12, <1>13, <1>14 DEF WorkGood, WorkIInv

-----------------------------------------------------------------------------
(* A step of one pass of the worker, and the others.                       *)

\* The claim of t moves under w, from a claim that no other lives by.
Moves(w, t) ==
    /\ job'[t].phase # "none"
    /\ OnJob(w, t) \/ IsOpen(job[t]) \/ job[t].phase # "accepted" \/ job[t].lease # "live"
          \/ result[t] # "none"
    /\ IsOpen(job'[t]) => IsOpen(job[t]) \/ (OnJob(w, t) /\ ~Final(t))

\* What the step leaves to pass v: its turn, but for the claim of t if that moved.
Yields(v, w, t) ==
    /\ work'[v] = work[v] \/ work'[v] = [work[v] EXCEPT !.held = FALSE]
    /\ work'[v].held => work[v].held /\ (job'[Task(v)] = job[Task(v)] \/ work[v].at = "mark")
    /\ work[v].held /\ ~work'[v].held => Task(v) = t /\ Moves(w, t)

\* What a step of w on t leaves to the others.
Leaves(w, t) ==
    /\ UNCHANGED inbox /\ doc'.lines = doc.lines /\ \A v \in Works \ {w} : SamePen(v) /\ Yields(v, w, t)
    /\ \A u \in Requests \ {t} : job'[u] = job[u] /\ result'[u] = result[u] /\ calls'[u] = calls[u]
    /\ calls'[t] = calls[t] \/ (OnJob(w, t) /\ ~Final(t))
    /\ result'[t] = result[t] \/ (OnJob(w, t) /\ Ends(t, result'[t]) /\ result'[t] # "none")
    /\ job'[t] = job[t] \/ Moves(w, t)
    /\ work'[w].at \in OnTheJob => work'[w].next = work[w].next /\ Task(w) = t /\ (OnJob(w, t)
          \/ IsOpen(job[t]))

\* The others' turns.
LEMMA OtherTurn ==
    ASSUME TypeOK, NEW w \in Works, NEW t, Leaves(w, t), NEW v \in Works \ {w}
    PROVE  /\ work'[v].at = work[v].at /\ work'[v].next = work[v].next /\ work'[v].through = work[v].through
           /\ work'[v].mine = work[v].mine /\ work'[v].day = work[v].day /\ work'[v].got = work[v].got
           /\ work'[v].held => work[v].held /\ (job'[Task(v)] = job[Task(v)] \/ work[v].at = "mark")
           /\ Task(v)' = Task(v)
<1>1. Yields(v, w, t) /\ UNCHANGED inbox
  BY DEF Leaves
<1>2. work[v] \in WorkType
  BY TurnTyped
<1>3. /\ work'[v].at = work[v].at /\ work'[v].next = work[v].next /\ work'[v].through = work[v].through
      /\ work'[v].mine = work[v].mine /\ work'[v].day = work[v].day /\ work'[v].got = work[v].got
  <2>1. CASE work'[v] = work[v]
    BY <2>1
  <2>2. CASE work'[v] = [work[v] EXCEPT !.held = FALSE]
    BY <1>2, <2>2 DEF WorkType
  <2> QED BY <1>1, <2>1, <2>2 DEF Yields
<1> QED BY <1>1, <1>3 DEF Yields, Task

\* What the calls of a task came to they still come to.
LEMMA EndsKept ==
    ASSUME NEW w \in Works, NEW t \in Requests, Leaves(w, t), NEW u \in Requests, NEW s,
          Ends(u, s) PROVE Ends(u, s)'
<1>1. calls'[u] = calls[u]
  BY DEF Leaves, Ends
<1> QED BY <1>1 DEF Ends, Final, Story

\* Who has a job had it before, or took one that was open.
LEMMA OnJobBefore ==
    ASSUME TypeOK, NEW w \in Works, NEW t \in Requests, Leaves(w, t), NEW v \in Works, NEW u \in Requests,
          OnJob(v, u)'
    PROVE  OnJob(v, u) \/ (v = w /\ u = t /\ IsOpen(job[t]))
<1>1. CASE v # w
  BY <1>1, OtherTurn DEF OnJob
<1>2. CASE v = w
  BY <1>2 DEF OnJob, Leaves, Task
<1> QED BY <1>1, <1>2

\* A story that is over stays over, with the same verdict.
LEMMA ShutKept ==
    ASSUME TypeOK, NEW w \in Works, NEW t \in Requests, Leaves(w, t), JobOK(t), NEW u \in Requests, Shut(u)
    PROVE  Shut(u)' /\ Verdict(u)' = Verdict(u)
<1>1. CASE u # t
  <2>1. job'[u] = job[u] /\ result'[u] = result[u]
    BY <1>1 DEF Leaves
  <2>2. Nobody(u) => Nobody(u)'
    BY <1>1, OnJobBefore DEF Nobody
  <2> QED BY <2>1, <2>2 DEF Shut, Verdict, IsOpen, Timeless
<1>2. CASE u = t
  <2>1. ~IsOpen(job[t]) /\ (result[t] # "none" \/ Nobody(t))
    BY <1>2 DEF Shut
  <2>2. result[t] # "none" => Ends(t, result[t])
    BY DEF JobOK
  <2>3. OnJob(w, t) => result[t] # "none" /\ Final(t)
    BY <2>1, <2>2 DEF Nobody, Ends
  <2>4. result'[t] = result[t]
    BY <2>2, <2>3 DEF Leaves, Ends
  <2>5. ~IsOpen(job'[t])
    BY <2>1, <2>3 DEF Leaves, Moves
  <2>6. Nobody(t) => Nobody(t)'
    BY <2>1, OnJobBefore DEF Nobody
  <2> QED BY <1>2, <2>1, <2>4, <2>5, <2>6 DEF Shut, Verdict, IsOpen, Timeless
<1> QED BY <1>1, <1>2

\* What a line says stays so, and what it told.
LEMMA LineSaid ==
    ASSUME IInv, NEW w \in Works, NEW t \in Requests, Leaves(w, t), NEW l \in Line
    PROVE  (SaysOK(l) => SaysOK(l)') /\ (Told(l) => Told(l)')
<1>1. l.task \in Requests
  BY DEF Line
<1>2. PICK u \in Requests : u = l.task
  BY <1>1
<1>3. PICK s : s = l.state
  OBVIOUS
<1>4. SaysOK(l) => SaysOK(l)'
  <2>1. Ends(u, s) => Ends(u, s)'
    BY EndsKept
  <2> QED BY <1>2, <1>3, <2>1 DEF SaysOK, Ends, Final, Story
<1>5. Told(l) => Told(l)'
  <2>1. Shut(u) => Shut(u)' /\ Verdict(u)' = Verdict(u)
    BY WorkParts, ShutKept
  <2> QED BY <1>2, <2>1 DEF Told, Shut, Verdict, Nobody, OnJob
<1> QED BY <1>4, <1>5

\* The claims of the other tasks stay in order.
LEMMA OtherJob ==
    ASSUME IInv, NEW w \in Works, NEW t \in Requests, Leaves(w, t), NEW u \in Requests \ {t}
    PROVE  JobOK(u)' /\ (Steady /\ Steady' => StoryOK(u)')
<1>0. TypeOK /\ JobOK(u) /\ JobOK(t)
  BY WorkParts
<1>1. job'[u] = job[u] /\ result'[u] = result[u] /\ calls'[u] = calls[u] /\ doc'.lines = doc.lines
  BY DEF Leaves
<1>2. Nobody(u) => Nobody(u)'
  BY <1>0, OnJobBefore DEF Nobody
<1>3. Answered(u) => Answered(u)'
  BY <1>1 DEF Answered, InTrail, Trail
<1>4. JobOK(u)'
  <2>1. Refused(u, job[u].rejected)' <=> Refused(u, job[u].rejected)
    BY <1>1 DEF Refused
  <2>2. Ends(u, result[u])' <=> Ends(u, result[u])
    BY <1>1 DEF Ends, Final, Story
  <2> QED BY <1>0, <1>1, <1>2, <1>3, <2>1, <2>2 DEF JobOK, IsOpen, Timeless
<1>5. ASSUME Steady PROVE StoryOK(u)'
  <2>1. StoryOK(u)
    BY <1>5, WorkParts
  <2>2. Shut(u) => Shut(u)'
    BY <1>0, ShutKept
  <2> QED BY <1>1, <2>1, <2>2 DEF StoryOK
<1> QED BY <1>4, <1>5

\* So do the turns of the other passes.
LEMMA OtherCall ==
    ASSUME IInv, NEW w \in Works, NEW t \in Requests, Leaves(w, t), NEW v \in Works \ {w}
    PROVE  MineOK(v)' /\ CopyOK(v)' /\ CallOK(v)' /\ (Steady /\ Steady' => AtStory(v)')
<1>0. /\ TypeOK /\ MineOK(v) /\ CopyOK(v) /\ CallOK(v) /\ JobOK(t) /\ OneOnTheJob /\ MineOK(w)
      /\ UNCHANGED inbox /\ doc'.lines = doc.lines /\ SamePen(v)
  BY WorkParts DEF Leaves
<1>1. /\ work'[v].at = work[v].at /\ work'[v].next = work[v].next /\ work'[v].through = work[v].through
      /\ work'[v].mine = work[v].mine /\ work'[v].day = work[v].day /\ work'[v].got = work[v].got
      /\ work'[v].held => work[v].held /\ (job'[Task(v)] = job[Task(v)] \/ work[v].at = "mark")
      /\ Task(v)' = Task(v)
  BY <1>0, OtherTurn
<1>2. MineOK(v)'
  <2>1. work[v].at \in {"off", "entry", "claim", "checkpoint"} => ~work'[v].held
    BY <1>0, <1>1 DEF MineOK
  <2> QED BY <1>0, <1>1, <2>1 DEF MineOK
<1>3. CopyOK(v)'
  BY <1>0, <1>1 DEF CopyOK
<1>4. CASE work[v].at = "off"
  BY <1>1, <1>2, <1>3, <1>4 DEF CallOK, AtStory, OnTheJob
<1>5. CASE work[v].at # "off"
  <2>0. PICK u \in Requests : u = Task(v) /\ u = Task(v)'
    BY <1>0, <1>1, <1>5, TaskIs
  <2>1. work[v].at \in OnTheJob => OnJob(v, u)
    BY <2>0 DEF OnJob
  <2>2. OnJob(v, u) => ~OnJob(w, u)
    <3>1. ASSUME OnJob(v, u), OnJob(w, u) PROVE FALSE
      BY <1>0, <2>0, <3>1 DEF OneOnTheJob, OnJob
    <3> QED BY <3>1
  <2>3. OnJob(v, u) => calls'[u] = calls[u] /\ result'[u] = result[u]
    BY <2>2 DEF Leaves
  <2>4. CallOK(v)'
    <3>1. work[v].at = "claim" /\ job'[u].phase = "none" => calls'[u] = <<>>
      <4>1. job'[u].phase = "none" => job[u].phase = "none"
        BY DEF Leaves, Moves
      <4>2. job[u].phase = "none" => ~OnJob(w, u)
        BY <1>0, WorkParts DEF JobOK, IsOpen, Nobody
      <4>3. ~OnJob(w, u) => calls'[u] = calls[u]
        BY DEF Leaves
      <4> QED BY <1>0, <2>0, <4>1, <4>2, <4>3 DEF CallOK
    <3>2. work[v].at \in OnTheJob => \A n : Refused(u, n)' <=> Refused(u, n)
      BY <2>1, <2>3 DEF Refused
    <3>3. \A s : Ends(u, s) => Ends(u, s)'
      BY EndsKept
    <3>4. ASSUME work[v].at = "close", ~pen'[v].owed PROVE Coming(v, "claude-api", u, work[v].got)'
      <4>1. Coming(v, "claude-api", u, work[v].got)
        BY <1>0, <2>0, <3>4 DEF CallOK, SamePen
      <4>2. PICK s : s = work[v].got
        OBVIOUS
      <4>3. Coming(v, "claude-api", u, s)'
        BY <1>0, <4>1, <4>2, ComingKept
      <4> QED BY <1>1, <4>2, <4>3 DEF Coming
    <3>5. {"accepted", "reserve", "cap", "call", "settle", "reopen", "keep", "uncertain", "result"} = OnTheJob
      BY DEF OnTheJob
    <3>a. PICK n : n = work[v].mine.rejected /\ n = work'[v].mine.rejected
      BY <1>1
    <3>6. work[v].at \in {"accepted", "reserve", "cap", "call"} => Refused(u, n)'
      <4>1. work[v].at \in {"accepted", "reserve", "cap", "call"} => Refused(u, n)
        BY <1>0, <2>0, <3>a DEF CallOK
      <4> QED BY <3>2, <3>5, <4>1
    <3>7. work[v].at \in {"settle", "reopen"} /\ work[v].got = "refused" => Refused(u, n + 1)'
      <4>1. work[v].at \in {"settle", "reopen"} /\ work[v].got = "refused" => Refused(u, n + 1)
        BY <1>0, <2>0, <3>a DEF CallOK
      <4> QED BY <3>2, <3>5, <4>1
    <3>8. work[v].at = "result" => result'[u] # "none"
      BY <1>0, <2>0, <2>1, <2>3 DEF CallOK, OnTheJob
    <3>9. /\ work[v].at = "settle" /\ work[v].got # "refused" => Ends(u, work[v].got)'
          /\ work[v].at \in {"keep", "uncertain", "result"} => Ends(u, work[v].got)'
          /\ work[v].at = "close" /\ work[v].got # "UNKNOWN" => Ends(u, work[v].got)'
      <4>1. PICK s : s = work[v].got /\ s = work'[v].got
        BY <1>1
      <4>2. Ends(u, s) => Ends(u, s)'
        BY <3>3
      <4>3. Ends(u, s)' => Ends(u, work[v].got)'
        BY <4>1 DEF Ends, Final, Story
      <4> QED BY <1>0, <2>0, <4>1, <4>2, <4>3 DEF CallOK
    <3> QED BY <1>0, <1>1, <2>0, <3>1, <3>4, <3>a, <3>6, <3>7, <3>8, <3>9 DEF CallOK, Refused, Ends, Final,
          Story, Coming, InTrail, Trail
  <2>5. ASSUME Steady PROVE AtStory(v)'
    <3>0. AtStory(v)
      BY <2>5, WorkParts
    <3>1. Shut(u) => Shut(u)' /\ Verdict(u)' = Verdict(u)
      BY <1>0, ShutKept
    <3>2. ASSUME work[v].at \in OnTheJob, result'[u] = "none" PROVE work'[v].held /\ job'[u] = work[v].mine
      <4>1. OnJob(v, u) /\ result[u] = "none"
        BY <2>1, <2>3, <3>2
      <4>2. work[v].held /\ job[u] = work[v].mine /\ work[v].mine.phase = "accepted"
               /\ work[v].mine.lease = "live"
        BY <1>0, <2>0, <3>0, <3>2, <4>1 DEF AtStory, MineOK
      <4>3. ~(u = t /\ Moves(w, t))
        BY <2>2, <4>1, <4>2 DEF Moves, IsOpen, Timeless
      <4>4. work'[v].held
        <5>1. work[v].held /\ ~work'[v].held => Task(v) = t /\ Moves(w, t)
          BY DEF Leaves, Yields
        <5>2. work'[v].held \in BOOLEAN
          <6>1. work'[v] = work[v] \/ work'[v] = [work[v] EXCEPT !.held = FALSE]
            BY DEF Leaves, Yields
          <6>2. work[v] \in WorkType
            BY <1>0, TurnTyped
          <6> QED BY <6>1, <6>2 DEF WorkType
        <5> QED BY <2>0, <4>2, <4>3, <5>1, <5>2
      <4>5. work[v].at # "mark"
        BY <3>2 DEF OnTheJob
      <4> QED BY <1>1, <2>0, <4>2, <4>4, <4>5
    <3> QED BY <1>1, <2>0, <3>0, <3>1, <3>2 DEF AtStory, Shut, Verdict, Nobody, OnJob
  <2> QED BY <1>2, <1>3, <2>4, <2>5
<1> QED BY <1>4, <1>5

\* There is still one pass on a job.
LEMMA OneLeft == ASSUME IInv, NEW w \in Works, NEW t \in Requests, Leaves(w, t) PROVE OneOnTheJob'
<1>0. TypeOK /\ OneOnTheJob /\ JobOK(t) /\ \A v \in Works : MineOK(v)
  BY WorkParts
<1> SUFFICES ASSUME NEW a \in Works, NEW b \in Works, work'[b].at \in OnTheJob, OnJob(a, Task(b))' PROVE a = b
  BY DEF OneOnTheJob
<1>1. work'[a].at \in OnTheJob /\ Task(a)' = Task(b)'
  BY DEF OnJob
<1>2. \A v \in Works : work'[v].at \in OnTheJob => Task(v)' \in Requests
  <2>1. ASSUME NEW v \in Works \ {w}, work'[v].at \in OnTheJob PROVE Task(v)' \in Requests
    <3>1. work'[v].at = work[v].at /\ Task(v)' = Task(v)
      BY <1>0, OtherTurn
    <3>2. work[v].at # "off"
      BY <2>1, <3>1 DEF OnTheJob
    <3> QED BY <1>0, <3>1, <3>2, TaskIs
  <2>2. work'[w].at \in OnTheJob => Task(w)' \in Requests
    BY DEF Leaves, Task
  <2> QED BY <2>1, <2>2
<1>3. PICK u \in Requests : u = Task(b)' /\ u = Task(a)'
  BY <1>1, <1>2
<1>4. OnJob(a, u)' /\ OnJob(b, u)'
  BY <1>1, <1>3 DEF OnJob
<1>5. OnJob(a, u) \/ (a = w /\ u = t /\ IsOpen(job[t]))
  BY <1>0, <1>4, OnJobBefore
<1>6. OnJob(b, u) \/ (b = w /\ u = t /\ IsOpen(job[t]))
  BY <1>0, <1>4, OnJobBefore
<1>7. IsOpen(job[t]) => ~OnJob(a, t) /\ ~OnJob(b, t)
  BY <1>0 DEF JobOK, Nobody
<1>8. OnJob(a, u) /\ OnJob(b, u) => a = b
  BY <1>0 DEF OneOnTheJob, OnJob
<1> QED BY <1>5, <1>6, <1>7, <1>8

\* The turn of w on t comes out right.
Own(w, t) ==
    /\ WorkTypeOK' /\ CursorOK' /\ JobOK(t)' /\ MineOK(w)' /\ CopyOK(w)' /\ CallOK(w)'
    /\ \A i \in DOMAIN pen'[w].todo : pen'[w].todo[i] \in Line /\ SaysOK(pen[w].todo[i])'
    /\ Steady /\ Steady' => StoryOK(t)' /\ AtStory(w)' /\ \A i \in DOMAIN pen'[w].todo : Told(pen[w].todo[i])'

\* A step that leaves the others theirs and gets its own turn right keeps the worker's part.
LEMMA StepGood ==
    ASSUME IInv, Spent, NEW w \in Works, NEW t \in Requests, Leaves(w, t), Own(w, t), MoneyIInv'
    PROVE  WorkGood
<1>0. TypeOK /\ BudgetOK /\ SaidOK /\ doc.lines \subseteq Line /\ doc'.lines = doc.lines
      /\ \A v \in Works : v \in Writers
  BY WorkParts, DocTyped DEF Leaves
<1>1. \A u \in Requests : JobOK(u)' /\ (Steady /\ Steady' => StoryOK(u)')
  BY OtherJob DEF Own
<1>2. \A v \in Works : MineOK(v)' /\ CopyOK(v)' /\ CallOK(v)' /\ (Steady /\ Steady' => AtStory(v)')
  BY OtherCall DEF Own
<1>3. ASSUME NEW v \in Works, NEW i \in DOMAIN pen'[v].todo
      PROVE  SaysOK(pen[v].todo[i])' /\ (Steady /\ Steady' => Told(pen[v].todo[i])')
  <2>1. CASE v = w
    BY <1>3, <2>1 DEF Own
  <2>2. CASE v # w
    <3>1. pen'[v].todo = pen[v].todo /\ pen[v].todo \in Seq(Line)
      BY <1>0, <2>2, PenTyped DEF Leaves, SamePen
    <3>2. PICK l \in Line : l = pen[v].todo[i] /\ l = pen'[v].todo[i]
      <4>1. i \in DOMAIN pen[v].todo
        BY <1>3, <3>1
      <4> QED BY <3>1, <4>1
    <3>3. SaysOK(l) /\ (Steady => Told(l))
      BY <1>0, <1>3, <3>1, <3>2, WorkParts DEF SaidOK
    <3>4. SaysOK(l)' /\ (Steady => Told(l)')
      BY <3>3, LineSaid
    <3> QED BY <3>2, <3>4 DEF SaysOK, Told, Ends, Final, Story, Shut, Verdict
  <2> QED BY <2>1, <2>2
<1>4. ASSUME NEW l \in doc'.lines PROVE SaysOK(l)' /\ (Steady => Told(l)')
  <2>1. l \in Line /\ SaysOK(l) /\ (Steady => Told(l))
    BY <1>0, <1>4, WorkParts DEF SaidOK
  <2> QED BY <2>1, LineSaid
<1>5. Steady' => Steady
  BY <1>0, Steadied
<1>6. WorkTypeOK' /\ CursorOK' /\ OneOnTheJob'
  BY OneLeft DEF Own
<1>7. SaidOK'
  BY <1>3, <1>4 DEF SaidOK
<1>8. StoryIInv'
  BY <1>1, <1>2, <1>3, <1>4, <1>5 DEF StoryIInv
<1> QED BY <1>1, <1>2, <1>6, <1>7, <1>8 DEF WorkGood, WorkIInv

-----------------------------------------------------------------------------
(* A step of the worker, and the intake.                                   *)

\* A step of the worker keeps the intake's part.
LEMMA WorkLeavesIntake ==
    ASSUME IntakeOK, NEW w \in Works, UNCHANGED doc, UNCHANGED intakeRest, UNCHANGED budget \/ Use("fault"),
           pen' \in [Writers -> PenType], \A b \in Writers \ {w} : SamePen(b), PenOK(w)'
    PROVE  Good /\ Spent
<1>1. TypeOK /\ BudgetOK /\ IntakeIInv /\ doc \in DocType /\ w \in Writers
         /\ \A q \in Passes : q \in Writers /\ q # w
  BY Parts, WritersAre
<1>2. /\ inbox' = inbox /\ marker' = marker /\ seen' = seen /\ woken' = woken /\ pass' = pass
         /\ claim' = claim
      /\ UNCHANGED weather /\ room' = room /\ pending' = pending /\ gap' = gap /\ processed' = processed
      /\ titled' = titled
  BY DEF intakeRest, queues, weather, gates
<1>3. Tidy
  <2>1. /\ gap' \in BOOLEAN /\ processed' \in BOOLEAN /\ titled' \in BOOLEAN /\ pending' \in BOOLEAN
           /\ doc' \in DocType
    BY <1>1, <1>2, GatesTyped
  <2>2. "fault" \in Bounds \ {"day"}
    BY DEF Bounds
  <2>3. CASE UNCHANGED budget
    BY <1>1, <1>2, <2>1, <2>3, TidyStill
  <2>4. CASE Use("fault")
    BY <1>1, <1>2, <2>1, <2>2, <2>4, TidyUsed
  <2> QED BY <2>3, <2>4
<1>4. Grows /\ Spent
  BY <1>1, <1>2, <1>3, GrowsQuiet DEF Tidy
<1>5. DocTrue'
  BY <1>1, <1>4, DocSame DEF IntakeIInv
<1>6. \A a \in Writers : PenOK(a)'
  BY <1>1, <1>4, PenKept DEF IntakeIInv
<1>7. \A t \in Requests : SameClaim(t) /\ CalmTask(t) /\ QueueOK(t)' /\ ClaimOK(t)'
  <2>1. TAKE t \in Requests
  <2>2. SameClaim(t) /\ CalmTask(t)
    BY <1>2 DEF CalmTask, OnInbox, SameClaim
  <2>3. QueueOK(t)'
    BY <1>1, <1>2, <1>4, QueueKept DEF IntakeIInv, queues
  <2>4. ClaimOK(t)'
    BY <1>1, <1>4, <2>2, ClaimKept DEF IntakeIInv
  <2> QED BY <2>2, <2>3, <2>4
<1>8. \A q \in Passes : PassOK(q)' /\ HeldOK(q)'
  <2>1. TAKE q \in Passes
  <2>2. PICK t \in Requests : t = pass[q].req
    BY <1>1, PassTyped
  <2>3. Undisturbed(q) /\ CalmTask(t) /\ SamePen(q)
    BY <1>1, <1>2, <1>7, <2>2 DEF Undisturbed
  <2> QED BY <1>1, <1>4, <2>2, <2>3, OtherKept DEF IntakeIInv
<1>9. IntakeTypeOK' /\ BudgetOK'
  BY <1>1, <1>2, <1>3, IntakeTyped, TidyTypes
<1> QED BY <1>4, <1>5, <1>6, <1>7, <1>8, <1>9 DEF Good, IntakeIInv

-----------------------------------------------------------------------------
(* What the worker has on paper.                                           *)

\* The lines the worker has to write after the step are about its task, and a verdict among them is
\* the one it is about to close or to leave with.
PenFits(w, t) ==
    /\ pen' \in [Writers -> PenType] /\ (\A b \in Writers \ {w} : SamePen(b)) /\ PenOK(w)'
    /\ \A i \in DOMAIN pen'[w].todo :
          /\ pen'[w].todo[i] \in Line /\ pen'[w].todo[i].by = "claude-api" /\ pen'[w].todo[i].task = t
          /\ pen'[w].todo[i].state \in Verdicts =>
                \/ work'[w].at = "leave" /\ pen'[w].todo[i].state = "UNKNOWN"
                \/ work'[w].at = "close" /\ pen'[w].todo[i].state = work'[w].got

\* A pen that is not used, or only guarded, fits.
LEMMA QuietPen ==
    ASSUME IInv, NEW w \in Works, NEW t, Idle(w), UNCHANGED pen \/ pen' = [pen EXCEPT ![w].guard = TRUE]
    PROVE  PenFits(w, t)
<1>1. TypeOK /\ IntakeOK /\ w \in Writers
  BY WorkParts
<1>2. pen' \in [Writers -> PenType] /\ \A b \in Writers : SamePen(b)
  BY <1>1, CoversTouched, StillPen
<1>3. pen'[w].todo = <<>> /\ ~pen'[w].landed
  BY <1>1, <1>2, IdleLanded DEF SamePen, Idle
<1> QED BY <1>1, <1>2, <1>3, EmptyPenOK DEF PenFits

\* So does one put down.
LEMMA NoPenFits == ASSUME IInv, NEW w \in Works, NEW t, pen' = [pen EXCEPT ![w] = NoPen] PROVE PenFits(w, t)
<1>1. TypeOK /\ w \in Writers
  BY WorkParts
<1>2. /\ pen' \in [Writers -> PenType] /\ \A b \in Writers \ {w} : SamePen(b)
      /\ pen'[w].todo = <<>> /\ ~pen'[w].landed
  BY <1>1, PenDropped
<1>3. PenOK(w)'
  BY <1>2, EmptyPenOK
<1> QED BY <1>2, <1>3 DEF PenFits

\* And one with one line to write.
LEMMA OneLine ==
    ASSUME IInv, NEW w \in Works, NEW t \in Requests, Idle(w), NEW s \in Verdicts \cup {"ACCEPTED", "QUEUED"},
           NEW l, l = [by |-> "claude-api", task |-> t, to |-> Api, state |-> s],
           pen' = [pen EXCEPT ![w].todo = <<l>>, ![w].owed = FALSE],
           s \in Verdicts => (work'[w].at = "leave" /\ s = "UNKNOWN")
                                                       \/ (work'[w].at = "close" /\ s = work'[w].got)
    PROVE  PenFits(w, t) /\ Coming(w, "claude-api", t, s)'
<1>1. /\ TypeOK /\ w \in Writers /\ w \in Works /\ w \notin Passes /\ ~pen[w].landed
         /\ pen \in [Writers -> PenType]
  BY WorkParts, DocTyped, IdleLanded, WritersAre
<1>2. l \in Line /\ l.by = "claude-api" /\ l.task = t /\ l.state = s
  BY WorkersAre DEF Line, Verdicts, Waits
<1>3. <<l>> \in Seq(Line) /\ DOMAIN <<l>> = {1} /\ <<l>>[1] = l
  BY <1>2
<1>4. PICK x : x = [pen[w] EXCEPT !.todo = <<l>>, !.owed = FALSE]
  OBVIOUS
<1>5. x \in PenType /\ x.todo = <<l>> /\ ~x.owed /\ x.landed = pen[w].landed
  BY <1>1, <1>3, <1>4 DEF PenType
<1>6. pen' = [pen EXCEPT ![w] = x]
  BY <1>1, <1>4
<1>7. pen'[w] = x /\ pen' \in [Writers -> PenType] /\ \A b \in Writers \ {w} : SamePen(b)
  BY <1>1, <1>5, <1>6 DEF SamePen
<1>8. PenOK(w)'
  <2>1. LineTrue(l)' /\ l.state \notin {"REQUESTED", "DISPATCHED"}
    BY <1>2 DEF LineTrue, Verdicts
  <2> QED BY <1>1, <1>2, <1>3, <1>5, <1>7, <2>1 DEF PenOK, LineTrue
<1>9. \A i \in DOMAIN pen'[w].todo : pen'[w].todo[i] = l
  BY <1>3, <1>5, <1>7
<1>10. PenFits(w, t)
  BY <1>2, <1>7, <1>8, <1>9 DEF PenFits
<1>11. 1 \in DOMAIN pen'[w].todo /\ pen'[w].todo[1] = l
  BY <1>3, <1>5, <1>7
<1> QED BY <1>2, <1>10, <1>11 DEF Coming

\* What a pass speaks fits, and a verdict it is to close with is on its way.
LEMMA SpeakIs ==
    ASSUME IInv, NEW w \in Works, NEW t \in Requests, t = Task(w), Idle(w), Speak(w),
           work'[w].at = "close" => work'[w].got \in Verdicts
    PROVE  PenFits(w, t) /\ (work'[w].at = "close" => Coming(w, "claude-api", t, work[w].got)')
<1>1. PICK x : x = work'[w]
  OBVIOUS
<1>2. ASSUME NEW s, Owes(x) = <<s>>
      PROVE  \E l : /\ l = [by |-> "claude-api", task |-> t, to |-> Api, state |-> s]
                    /\ pen' = [pen EXCEPT ![w].todo = <<l>>, ![w].owed = FALSE]
  <2>1. PICK l : l = [by |-> "claude-api", task |-> t, to |-> Api, state |-> s]
    OBVIOUS
  <2>2. PICK ls : ls = [i \in DOMAIN <<s>> |-> [by |-> "claude-api", task |-> t, to |-> Api, state |-> <<s>>[i]]]
    OBVIOUS
  <2>3. ls = <<l>>
    BY <2>1, <2>2
  <2>4. <<s>> # <<>>
    OBVIOUS
  <2>5. pen' = [pen EXCEPT ![w].todo = ls, ![w].owed = FALSE]
    BY <1>1, <1>2, <2>2, <2>4 DEF Speak
  <2> QED BY <2>1, <2>3, <2>5
<1>3. CASE x.at = "accepted"
  <2>1. Owes(x) = <<"ACCEPTED">>
    BY <1>3 DEF Owes
  <2>2. PICK l : /\ l = [by |-> "claude-api", task |-> t, to |-> Api, state |-> "ACCEPTED"]
                 /\ pen' = [pen EXCEPT ![w].todo = <<l>>, ![w].owed = FALSE]
    BY <1>2, <2>1
  <2>3. "ACCEPTED" \notin Verdicts
    BY DEF Verdicts
  <2>4. PenFits(w, t)
    BY <2>2, <2>3, OneLine
  <2> QED BY <1>1, <1>3, <2>4
<1>4. CASE x.at = "cap"
  <2>1. Owes(x) = <<"QUEUED">>
    BY <1>4 DEF Owes
  <2>2. PICK l : /\ l = [by |-> "claude-api", task |-> t, to |-> Api, state |-> "QUEUED"]
                 /\ pen' = [pen EXCEPT ![w].todo = <<l>>, ![w].owed = FALSE]
    BY <1>2, <2>1
  <2>3. "QUEUED" \notin Verdicts
    BY DEF Verdicts
  <2>4. PenFits(w, t)
    BY <2>2, <2>3, OneLine
  <2> QED BY <1>1, <1>4, <2>4
<1>5. CASE x.at = "leave"
  <2>1. Owes(x) = <<"UNKNOWN">>
    BY <1>5 DEF Owes
  <2>2. "UNKNOWN" \in Verdicts
    BY DEF Verdicts
  <2> QED BY <1>1, <1>2, <1>5, <2>1, <2>2, OneLine
<1>6. CASE x.at = "close"
  <2>1. PICK s \in Verdicts : s = x.got
    BY <1>1, <1>6
  <2>2. Owes(x) = <<s>>
    BY <1>6, <2>1 DEF Owes
  <2>3. PICK l : /\ l = [by |-> "claude-api", task |-> t, to |-> Api, state |-> s]
                 /\ pen' = [pen EXCEPT ![w].todo = <<l>>, ![w].owed = FALSE]
    BY <1>2, <2>2
  <2>4. work'[w].at = "close" /\ s = work'[w].got
    BY <1>1, <1>6, <2>1
  <2>5. PenFits(w, t) /\ Coming(w, "claude-api", t, s)'
    BY <2>1, <2>3, <2>4, OneLine
  <2> QED BY <2>4, <2>5 DEF Coming
<1>7. CASE x.at \notin {"accepted", "cap", "leave", "close"}
  <2>1. Owes(x) = <<>>
    BY <1>7 DEF Owes
  <2>2. pen' = pen
    BY <1>1, <2>1 DEF Speak
  <2> QED BY <1>1, <1>7, <2>2, QuietPen
<1> QED BY <1>3, <1>4, <1>5, <1>6, <1>7

\* What a pass writes is so where it has come to.
LEMMA PaperOK ==
    ASSUME NEW w \in Works, NEW t \in Requests, PenFits(w, t), CallOK(w)',
           work'[w].at \in {"leave", "close"} => Task(w)' = t
    PROVE  /\ \A i \in DOMAIN pen'[w].todo : pen'[w].todo[i] \in Line /\ SaysOK(pen[w].todo[i])'
           /\ AtStory(w)' => \A i \in DOMAIN pen'[w].todo : Told(pen[w].todo[i])'
<1>1. ASSUME NEW i \in DOMAIN pen'[w].todo PROVE pen'[w].todo[i] \in Line /\ SaysOK(pen[w].todo[i])'
  <2>1. PICK l : l = pen'[w].todo[i] /\ l \in Line /\ l.task = t
    BY <1>1 DEF PenFits
  <2>2. ASSUME l.state \in {"SUCCEEDED", "FAILED"} PROVE Ends(t, l.state)'
    <3>1. work'[w].at = "close" /\ l.state = work'[w].got /\ work'[w].got # "UNKNOWN"
      BY <1>1, <2>1, <2>2 DEF PenFits, Verdicts
    <3>2. Ends(Task(w), work[w].got)'
      BY <3>1 DEF CallOK
    <3> QED BY <3>1, <3>2 DEF Ends, Final, Story
  <2> QED BY <2>1, <2>2 DEF SaysOK, Ends, Final, Story
<1>2. ASSUME AtStory(w)', NEW i \in DOMAIN pen'[w].todo PROVE Told(pen[w].todo[i])'
  <2>1. PICK l : l = pen'[w].todo[i] /\ l \in Line /\ l.task = t
    BY <1>2 DEF PenFits
  <2>2. ASSUME l.state \in Verdicts PROVE Shut(t)' /\ Verdict(t)' = l.state
    <3>1. \/ work'[w].at = "leave" /\ l.state = "UNKNOWN"
          \/ work'[w].at = "close" /\ l.state = work'[w].got
      BY <1>2, <2>1, <2>2 DEF PenFits
    <3>2. Task(w)' = t
      BY <3>1
    <3>3. Shut(Task(w))' /\ Verdict(Task(w))' = l.state
      BY <1>2, <3>1 DEF AtStory
    <3> QED BY <3>2, <3>3 DEF Shut, Verdict, Nobody, OnJob
  <2> QED BY <2>1, <2>2 DEF Told, Shut, Verdict
<1> QED BY <1>1, <1>2

-----------------------------------------------------------------------------
(* The turn of a pass.                                                     *)

\* One turn moves, the others do not.
LEMMA TurnIs ==
    ASSUME TypeOK, NEW w \in Works, NEW x \in WorkType, work' = [work EXCEPT ![w] = x]
    PROVE  work' \in [Works -> WorkType] /\ work'[w] = x /\ \A v \in Works \ {w} : work'[v] = work[v]
  BY WorkTyped

\* A turn that is on is at an entry of the inbox it read.
InRange(x) == x.at # "off" => x.next >= 1 /\ x.next <= x.through /\ x.through <= Len(inbox[Api])

\* The turn after a task: the next one, or the checkpoint.
LEMMA BehindIs ==
    ASSUME TypeOK, NEW w \in Works, MineOK(w), work[w].at # "off", NEW x, x = Behind(work[w])
    PROVE  x \in WorkType /\ x.at \in {"entry", "checkpoint"} /\ ~x.held /\ InRange(x)
<1>1. PICK r : r = work[w] /\ r \in WorkType
  BY TurnTyped
<1>2. PICK n \in Nat : n = r.next
  BY <1>1 DEF WorkType
<1>3. PICK m \in Nat : m = r.through
  BY <1>1 DEF WorkType
<1>4. n >= 1 /\ n <= m /\ m <= Len(inbox[Api])
  BY <1>1, <1>2, <1>3 DEF MineOK
<1>5. NoJob \in JobType /\ 0 \in Days
  BY MaxRejectionsAssumption DEF NoJob, JobType, Days
<1>6. CASE r.ran \/ n = m
  <2>1. x = [r EXCEPT !.at = "checkpoint", !.next = n, !.mine = NoJob, !.held = FALSE, !.day = 0, !.got = "none"]
    BY <1>1, <1>2, <1>3, <1>6 DEF Behind
  <2>2. x \in WorkType /\ x.at = "checkpoint" /\ ~x.held /\ x.next = n /\ x.through = m
    BY <1>1, <1>2, <1>3, <1>5, <2>1 DEF WorkType
  <2> QED BY <1>4, <2>2 DEF InRange
<1>7. CASE ~(r.ran \/ n = m)
  <2>1. PICK k \in Nat : k = n + 1 /\ k >= 1 /\ k <= m
    BY <1>4, <1>7
  <2>2. x = [r EXCEPT !.at = "entry", !.next = k, !.mine = NoJob, !.held = FALSE, !.day = 0, !.got = "none"]
    BY <1>1, <1>2, <1>3, <1>7, <2>1 DEF Behind
  <2>3. x \in WorkType /\ x.at = "entry" /\ ~x.held /\ x.next = k /\ x.through = m
    BY <1>1, <1>3, <1>5, <2>2 DEF WorkType
  <2> QED BY <1>4, <2>1, <2>3 DEF InRange
<1> QED BY <1>6, <1>7

\* The claims the worker writes, by field.
LEMMA JobsAre ==
    ASSUME NEW n \in 0..MaxRejections, NEW d \in Days
    PROVE  /\ Accepted(n) \in JobType /\ Accepted(n).phase = "accepted" /\ Accepted(n).lease = "live"
           /\ Accepted(n).rejected = n
           /\ OpenAgain(n) \in JobType /\ OpenAgain(n).phase = "accepted" /\ OpenAgain(n).lease = "none"
           /\ OpenAgain(n).rejected = n
           /\ Capped(n, d) \in JobType /\ Capped(n, d).phase = "capped" /\ Capped(n, d).lease = "none"
           /\ Capped(n, d).rejected = n
           /\ \A p \in {"resulted", "uncertain", "done"} :
                 Moved(p) \in JobType /\ Moved(p).phase = p /\ Moved(p).lease = "none"
           /\ NoJob \in JobType /\ NoJob.phase = "none" /\ NoJob.lease = "none"
<1>1. NoJob \in JobType /\ NoJob.phase = "none" /\ NoJob.lease = "none"
  BY MaxRejectionsAssumption DEF NoJob, JobType, Days
<1>2. Accepted(n) \in JobType /\ Accepted(n).phase = "accepted" /\ Accepted(n).lease = "live"
         /\ Accepted(n).rejected = n
  <2>1. PICK j \in JobType : j = NoJob
    BY <1>1
  <2>2. Accepted(n) = [j EXCEPT !.phase = "accepted", !.attempt = 1, !.lease = "live", !.rejected = n]
    BY <2>1 DEF Accepted
  <2>3. 1 \in 0..1
    OBVIOUS
  <2> QED BY <2>2, <2>3 DEF JobType
<1>3. OpenAgain(n) \in JobType /\ OpenAgain(n).phase = "accepted" /\ OpenAgain(n).lease = "none"
         /\ OpenAgain(n).rejected = n
  BY <1>1 DEF OpenAgain, JobType
<1>4. Capped(n, d) \in JobType /\ Capped(n, d).phase = "capped" /\ Capped(n, d).lease = "none"
         /\ Capped(n, d).rejected = n
  BY <1>1 DEF Capped, JobType
<1>5. \A p \in {"resulted", "uncertain", "done"} : Moved(p) \in JobType /\ Moved(p).phase = p
         /\ Moved(p).lease = "none"
  BY <1>1 DEF Moved, JobType
<1> QED BY <1>1, <1>2, <1>3, <1>4, <1>5

\* A turn that goes on with a copy of a claim.
LEMMA GoingIs ==
    ASSUME TypeOK, NEW w \in Works, NEW j \in JobType,
           NEW step \in {"accepted", "mark", "finish", "uncap", "recall", "close"}, NEW x,
                 x = Going(w, j, step)
    PROVE  /\ x \in WorkType /\ x.at = step /\ x.mine = j /\ x.held /\ x.next = work[w].next
           /\ x.through = work[w].through /\ x.got = work[w].got /\ x.day = work[w].day
<1>1. PICK r : r = work[w] /\ r \in WorkType
  BY TurnTyped
<1> QED BY <1>1 DEF Going, WorkType

\* A turn that goes on as it is.
LEMMA DoIs ==
    ASSUME TypeOK, NEW w \in Works,
           NEW step \in {"mark", "claim", "leave", "retake", "reserve", "reopen", "keep", "result", "uncertain"},
           Do(w, step)
    PROVE  \E x \in WorkType : /\ work' = [work EXCEPT ![w] = x] /\ x = [work[w] EXCEPT !.at = step]
                               /\ x.at = step /\ x.mine = work[w].mine
                               /\ x.held = work[w].held /\ x.next = work[w].next
                               /\ x.through = work[w].through /\ x.got = work[w].got /\ x.day = work[w].day
<1>1. PICK r : r = work[w] /\ r \in WorkType
  BY TurnTyped
<1>2. PICK x : x = [r EXCEPT !.at = step]
  OBVIOUS
<1>3. x \in WorkType /\ x.at = step /\ x.mine = r.mine /\ x.held = r.held /\ x.next = r.next
      /\ x.through = r.through /\ x.got = r.got /\ x.day = r.day
  BY <1>1, <1>2 DEF WorkType
<1> QED BY <1>1, <1>2, <1>3 DEF Do, Turn

\* A compare that succeeds found the copy, or the copy with its lease over.
LEMMA HoldsIs ==
    ASSUME NEW w \in Works, NEW t, t = Task(w), CopyOK(w), Holds(w), work[w].at # "mark"
    PROVE  \/ job[t] = work[w].mine
           \/ work[w].held /\ work[w].mine.lease = "live" /\ job[t] = [work[w].mine EXCEPT !.lease = "dead"]
  BY DEF Holds, CopyOK

\* A compare-and-set of the claim, won or lost.
LEMMA MoveJobIs ==
    ASSUME IInv, NEW w \in Works, NEW t \in Requests, t = Task(w), NEW j \in JobType, NEW x \in WorkType,
           NEW y \in WorkType, MoveJob(w, j, x, y)
    PROVE  /\ job' \in [Requests -> JobType] /\ work' \in [Works -> WorkType]
           /\ \/ ~Holds(w) /\ job' = job /\ work' = [work EXCEPT ![w] = y]
              \/ /\ Holds(w) /\ job' = [job EXCEPT ![t] = j] /\ job'[t] = j /\ work'[w] = x
                 /\ Moves(w, t) => \A v \in Works \ {w} : Yields(v, w, t)
<1>0. TypeOK /\ \A v \in Works : MineOK(v)
  BY WorkParts
<1>1. CASE Holds(w)
  <2>1. job' = [job EXCEPT ![t] = j] /\ work' = OthersAtWork(w, x)
    BY <1>1 DEF MoveJob
  <2>2. job' \in [Requests -> JobType] /\ job'[t] = j /\ work'[w] = x
    BY <1>0, <2>1, WorkTyped DEF OthersAtWork
  <2>3. ASSUME NEW v \in Works \ {w}
        PROVE  /\ work'[v] \in WorkType /\ (work'[v] = work[v] \/ work'[v] = [work[v] EXCEPT !.held = FALSE])
               /\ work'[v].held = (work[v].held /\ Task(v) # t)
    <3>1. PICK r : r = work[v] /\ r \in WorkType
      BY <1>0, TurnTyped
    <3>2. work'[v] = [r EXCEPT !.held = @ /\ Task(v) # t]
      BY <2>1, <3>1 DEF OthersAtWork
    <3>3. CASE r.held /\ Task(v) # t
      <4>1. work'[v] = [r EXCEPT !.held = r.held]
        <5>1. (r.held /\ Task(v) # t) = r.held
          BY <3>1, <3>3 DEF WorkType
        <5> QED BY <3>2, <5>1
      <4>2. work'[v] = r
        BY <3>1, <4>1 DEF WorkType
      <4> QED BY <3>1, <3>3, <4>2
    <3>4. CASE ~(r.held /\ Task(v) # t)
      <4>1. work'[v] = [r EXCEPT !.held = FALSE]
        BY <3>2, <3>4
      <4>2. work'[v] \in WorkType /\ ~work'[v].held /\ work'[v].held \in BOOLEAN
        BY <3>1, <4>1 DEF WorkType
      <4> QED BY <3>1, <3>4, <4>1, <4>2
    <3> QED BY <3>3, <3>4
  <2>4. work' \in [Works -> WorkType]
    <3>1. work' = [v \in Works |-> work'[v]]
      BY <2>1 DEF OthersAtWork
    <3>2. \A v \in Works : work'[v] \in WorkType
      BY <2>2, <2>3
    <3> QED BY <3>1, <3>2
  <2>5. ASSUME Moves(w, t), NEW v \in Works \ {w} PROVE Yields(v, w, t)
    <3>1. work'[v].held => work[v].held /\ job'[Task(v)] = job[Task(v)]
      <4>1. ASSUME work'[v].held PROVE work[v].held /\ Task(v) # t /\ Task(v) \in Requests
        <5>1. work[v].held /\ Task(v) # t
          BY <2>3, <4>1
        <5>2. work[v].at # "off"
          BY <1>0, <5>1 DEF MineOK
        <5> QED BY <1>0, <5>1, <5>2, TaskIs
      <4> QED BY <1>0, <2>1, <4>1, WorkTyped
    <3> QED BY <2>3, <2>5, <3>1 DEF Yields
  <2> QED BY <1>1, <2>1, <2>2, <2>4, <2>5
<1>2. CASE ~Holds(w)
  BY <1>0, <1>2, TurnIs, WorkTyped DEF MoveJob, Turn
<1> QED BY <1>1, <1>2

-----------------------------------------------------------------------------
(* A whole step.                                                           *)

\* The step leaves the page and all of the intake alone; it may be a fault.
Quiet == UNCHANGED <<doc, intakeRest, overdue>> /\ (UNCHANGED budget \/ Use("fault"))

\* The worker's part has its types after the step.
Typed ==
    /\ job' \in [Requests -> JobType] /\ done' \subseteq Requests
    /\ result' \in [Requests -> Verdicts \cup {"none"}] /\ cursor' \in [after : Nat, through : Nat]
    /\ spend' \in [Days -> Nat] /\ bill' \in [Days -> Nat] /\ calls' \in [Requests -> Seq(Outcomes)]
    /\ work' \in [Works -> WorkType]

\* The turn of w comes out right.
Fine(w) == MineOK(w)' /\ CopyOK(w)' /\ CallOK(w)' /\ (Steady /\ Steady' => AtStory(w)')

\* The claim of t comes out right.
FineJob(t) == JobOK(t)' /\ (Steady /\ Steady' => StoryOK(t)')

\* A step of the worker whose parts come out right keeps the whole invariant.
LEMMA FullStep ==
    ASSUME IInv, NEW w \in Works, NEW t \in Requests, Quiet, Typed, CursorOK', PenFits(w, t), Leaves(w, t),
           Fine(w), FineJob(t), work'[w].at \in {"leave", "close"} => Task(w)' = t, MoneyIInv'
    PROVE  IInv'
<1>1. IntakeOK /\ TypeOK
  BY WorkParts
<1>2. Good /\ Spent
  BY <1>1, WorkLeavesIntake DEF Quiet, PenFits
<1>3. WorkTypeOK'
  BY <1>1, WorkTyped DEF Typed, Quiet, WorkTypeOK
<1>4. /\ \A i \in DOMAIN pen'[w].todo : pen'[w].todo[i] \in Line /\ SaysOK(pen[w].todo[i])'
      /\ AtStory(w)' => \A i \in DOMAIN pen'[w].todo : Told(pen[w].todo[i])'
  BY PaperOK DEF Fine
<1>5. Own(w, t)
  BY <1>3, <1>4 DEF Own, Fine, FineJob
<1>6. WorkGood
  BY <1>2, <1>5, StepGood
<1> QED BY <1>2, <1>3, <1>6 DEF IInv, TypeOK, Good, WorkGood

\* A turn between two tasks knows nothing that could be wrong.
LEMMA RestFine ==
    ASSUME NEW w \in Works, UNCHANGED inbox, NEW x \in WorkType, work'[w] = x,
           x.at \in {"off", "entry", "checkpoint", "mark"}, x.at # "mark" => ~x.held, InRange(x)
    PROVE  Fine(w)
<1>1. MineOK(w)'
  BY DEF MineOK, InRange, OnTheJob
<1>2. CopyOK(w)'
  BY DEF CopyOK
<1>3. CallOK(w)'
  BY DEF CallOK
<1>4. AtStory(w)'
  BY DEF AtStory, OnTheJob
<1> QED BY <1>1, <1>2, <1>3, <1>4 DEF Fine

\* A claim that is not touched stays in order.
LEMMA JobStill ==
    ASSUME IInv, NEW w \in Works, NEW t \in Requests, Leaves(w, t),
           job'[t] = job[t], calls'[t] = calls[t], result'[t] = result[t],
           work'[w].at \notin OnTheJob \/ OnJob(w, t)
    PROVE  FineJob(t)
<1>0. TypeOK /\ JobOK(t) /\ doc'.lines = doc.lines
  BY WorkParts DEF Leaves
<1>1. Nobody(t) => Nobody(t)'
  BY <1>0, OnJobBefore DEF Nobody, OnJob
<1>2. Answered(t) => Answered(t)'
  BY <1>0 DEF Answered, InTrail, Trail
<1>3. JobOK(t)'
  <2>1. Refused(t, job[t].rejected)' <=> Refused(t, job[t].rejected)
    BY DEF Refused
  <2>2. Ends(t, result[t])' <=> Ends(t, result[t])
    BY DEF Ends, Final, Story
  <2> QED BY <1>0, <1>1, <1>2, <2>1, <2>2 DEF JobOK, IsOpen, Timeless
<1>4. ASSUME Steady PROVE StoryOK(t)'
  <2>1. StoryOK(t)
    BY <1>4, WorkParts
  <2>2. Shut(t) => Shut(t)'
    BY <1>0, ShutKept
  <2> QED BY <2>1, <2>2 DEF StoryOK
<1> QED BY <1>3, <1>4 DEF FineJob

\* The claim stays, and nobody's turn but w's changes.
LEMMA StayLeaves ==
    ASSUME IInv, NEW w \in Works, NEW t \in Requests, UNCHANGED <<doc, inbox, job>>,
           NEW x \in WorkType, work' = [work EXCEPT ![w] = x], \A v \in Works \ {w} : SamePen(v),
           \A u \in Requests \ {t} : result'[u] = result[u] /\ calls'[u] = calls[u],
           calls'[t] = calls[t] \/ (OnJob(w, t) /\ ~Final(t)),
           result'[t] = result[t] \/ (OnJob(w, t) /\ Ends(t, result'[t]) /\ result'[t] # "none"),
           x.at \in OnTheJob => x.next = work[w].next /\ Task(w) = t /\ OnJob(w, t)
    PROVE  Leaves(w, t) /\ work' \in [Works -> WorkType] /\ work'[w] = x
<1>0. TypeOK
  BY WorkParts
<1>1. work' \in [Works -> WorkType] /\ work'[w] = x /\ \A v \in Works \ {w} : work'[v] = work[v]
  BY <1>0, TurnIs
<1>2. \A v \in Works \ {w} : Yields(v, w, t)
  BY <1>1 DEF Yields
<1> QED BY <1>1, <1>2 DEF Leaves

-----------------------------------------------------------------------------
(* The money is not touched.                                               *)

\* A product grows with its factor.
LEMMA TimesLeq ==
    ASSUME NEW r \in Nat, NEW m \in Nat, NEW n \in Nat, m <= n
    PROVE  r * m <= r * n /\ r * m \in Nat /\ r * n \in Nat
<1>1. PICK k \in Nat : n = m + k
  <2>1. n - m \in Nat /\ n = m + (n - m)
    OBVIOUS
  <2> QED BY <2>1
<1>2. r * n = r * m + r * k
  BY <1>1
<1>3. r * k \in Nat /\ r * m \in Nat
  OBVIOUS
<1> QED BY <1>2, <1>3

\* Those with money out are finitely many.
LEMMA MoneySets ==
    ASSUME NEW d
    PROVE  IsFiniteSet(Reserving(d)) /\ IsFiniteSet(Returning(d)) /\ Cardinality(Reserving(d)) \in Nat
           /\ Cardinality(Returning(d)) \in Nat
<1>1. Reserving(d) \subseteq Works /\ Returning(d) \subseteq Works
  BY DEF Reserving, Returning
<1> QED BY <1>1, WorksAssumption, FS_Subset, FS_CardinalityType

\* Less is under way, or as much, of the same money.
LEMMA MoneyLess ==
    ASSUME TypeOK, room' = room, NEW d \in Days, MoneyOK(d), spend'[d] = spend[d], bill'[d] = bill[d],
           Reserving(d)' \subseteq Reserving(d), Returning(d)' \subseteq Returning(d)
    PROVE  MoneyOK(d)'
<1>1. PICK a, b : a = Reserving(d)' /\ b = Returning(d)'
  OBVIOUS
<1>2. PICK m \in Nat : m = Cardinality(a)
  BY <1>1, MoneySets, FS_Subset, FS_CardinalityType
<1>3. PICK n \in Nat : n = Cardinality(Reserving(d)) /\ m <= n
  BY <1>1, <1>2, MoneySets, FS_Subset
<1>4. PICK k \in Nat : k = Cardinality(b)
  BY <1>1, MoneySets, FS_Subset, FS_CardinalityType
<1>5. PICK l \in Nat : l = Cardinality(Returning(d)) /\ k <= l
  BY <1>1, <1>4, MoneySets, FS_Subset
<1>6. PICK r \in Nat : r = Reservation
  BY PriceAssumption
<1>7. PICK c \in Nat : c = Reservation - Cost
  BY PriceAssumption
<1>8. PICK p \in Nat : p = r * m
  BY TimesLeq
<1>9. PICK q \in Nat : q = r * n /\ p <= q
  BY <1>3, <1>8, TimesLeq
<1>10. PICK e \in Nat : e = c * k
  BY TimesLeq
<1>11. PICK f \in Nat : f = c * l /\ e <= f
  BY <1>5, <1>10, TimesLeq
<1>12. PICK s \in Nat : s = spend[d] /\ s = spend'[d]
  BY WorkTyped
<1>13. PICK g \in Nat : g = bill[d] /\ g = bill'[d]
  BY WorkTyped
<1>14. g + q + f <= s /\ s <= room.cap
  BY <1>3, <1>5, <1>6, <1>7, <1>9, <1>11, <1>12, <1>13 DEF MoneyOK
<1>15. g + p + e <= s
  BY <1>9, <1>11, <1>14
<1> QED BY <1>1, <1>2, <1>4, <1>6, <1>7, <1>8, <1>10, <1>12, <1>13, <1>14, <1>15 DEF MoneyOK

\* A step that goes nowhere with money keeps it covered.
LEMMA MoneyStill ==
    ASSUME IInv, room' = room, NEW w \in Works, NEW t, Leaves(w, t), UNCHANGED <<spend, bill>>,
           work'[w].at \notin {"call", "settle"}
    PROVE  MoneyIInv'
<1>1. TypeOK /\ \A d \in Days : MoneyOK(d)
  BY WorkParts
<1>2. ASSUME NEW d \in Days PROVE MoneyOK(d)'
  <2>1. \A v \in Works \ {w} : work'[v].at = work[v].at /\ work'[v].day = work[v].day
           /\ work'[v].got = work[v].got
    BY <1>1, OtherTurn
  <2>2. Reserving(d)' \subseteq Reserving(d) /\ Returning(d)' \subseteq Returning(d)
    BY <2>1 DEF Reserving, Returning
  <2> QED BY <1>1, <2>2, MoneyLess
<1> QED BY <1>2 DEF MoneyIInv

-----------------------------------------------------------------------------
(* The worker's steps: its entry.                                          *)

\* What is known of a turn that is on.
LEMMA AtWorkIs ==
    ASSUME IInv, NEW w \in Works, work[w].at # "off"
    PROVE  /\ TypeOK /\ IntakeOK /\ MineOK(w) /\ CopyOK(w) /\ CallOK(w) /\ CursorOK /\ w \in Writers
           /\ Task(w) \in Requests /\ JobOK(Task(w)) /\ work[w] \in WorkType /\ InRange(work[w])
           /\ Steady => AtStory(w) /\ StoryOK(Task(w))
<1>1. TypeOK /\ IntakeOK /\ MineOK(w) /\ CopyOK(w) /\ CallOK(w) /\ CursorOK /\ w \in Writers
  BY WorkParts
<1>2. Task(w) \in Requests
  BY <1>1, TaskIs
<1>3. work[w] \in WorkType
  BY <1>1, TurnTyped
<1>4. InRange(work[w])
  BY <1>1 DEF MineOK, InRange
<1> QED BY <1>1, <1>2, <1>3, <1>4, WorkParts

\* The other passes' pens.
LEMMA PenSame == ASSUME NEW w, NEW t, PenFits(w, t) PROVE \A v \in Works \ {w} : SamePen(v)
  BY WritersAre DEF PenFits

\* A turn that comes to rest, and moves nothing.
LEMMA RestTurn ==
    ASSUME IInv, NEW w \in Works, NEW t \in Requests, Quiet, UNCHANGED <<job, result, money>>,
           NEW x \in WorkType, work' = [work EXCEPT ![w] = x],
                 x.at \in {"off", "entry", "checkpoint", "mark"},
           x.at # "mark" => ~x.held, InRange(x), done' \subseteq Requests,
                 cursor' \in [after : Nat, through : Nat],
           CursorOK', PenFits(w, t)
    PROVE  IInv'
<1>0. TypeOK
  BY WorkParts
<1>1. UNCHANGED <<inbox, room, doc, result, calls, spend, bill>>
  BY DEF Quiet, intakeRest, queues, weather, money
<1>2. x.at \notin OnTheJob /\ x.at \notin {"leave", "close", "call", "settle"}
  BY DEF OnTheJob
<1>3. Leaves(w, t) /\ work' \in [Works -> WorkType] /\ work'[w] = x
  BY <1>1, <1>2, StayLeaves, PenSame
<1>4. Typed
  BY <1>0, <1>1, <1>3, WorkTyped DEF Typed
<1>5. Fine(w)
  BY <1>1, <1>3, RestFine
<1>6. FineJob(t)
  BY <1>1, <1>2, <1>3, JobStill
<1>7. MoneyIInv'
  BY <1>1, <1>2, <1>3, MoneyStill
<1> QED BY <1>2, <1>3, <1>4, <1>5, <1>6, <1>7, FullStep

\* The cursor stays.
LEMMA CursorStill ==
    ASSUME IInv, UNCHANGED <<cursor, inbox>> PROVE CursorOK' /\ cursor' \in [after : Nat, through : Nat]
  BY WorkParts, WorkTyped DEF CursorOK

\* What a quiet step leaves.
LEMMA QuietIs == ASSUME Quiet PROVE UNCHANGED <<inbox, room, doc, day>> /\ overdue' = overdue
  BY DEF Quiet, intakeRest, queues, weather

\* A task is passed over.
LEMMA ConsideredGood ==
    ASSUME IInv, NEW w \in Works, work[w].at # "off", Idle(w), Considered(w), Quiet,
          UNCHANGED <<job, result, money, cursor>>,
           done' \subseteq Requests, UNCHANGED pen
    PROVE  IInv'
<1>0. TypeOK /\ MineOK(w) /\ Task(w) \in Requests
  BY AtWorkIs
<1>1. PICK x : x = Behind(work[w])
  OBVIOUS
<1>2. x \in WorkType /\ x.at \in {"entry", "checkpoint"} /\ ~x.held /\ InRange(x)
  BY <1>0, <1>1, BehindIs
<1>3. work' = [work EXCEPT ![w] = x]
  BY <1>1 DEF Considered, Turn
<1>4. CursorOK' /\ cursor' \in [after : Nat, through : Nat]
  BY QuietIs, CursorStill
<1>5. PenFits(w, Task(w))
  BY QuietPen
<1>6. PICK t \in Requests : t = Task(w)
  BY <1>0
<1>7. PenFits(w, t)
  BY <1>5, <1>6
<1> QED BY <1>2, <1>3, <1>4, <1>7, RestTurn

\* A task is to be marked done.
LEMMA DoMarkGood ==
    ASSUME IInv, NEW w \in Works, work[w].at # "off", Idle(w), Do(w, "mark"), Quiet,
          UNCHANGED <<job, result, money, cursor, done>>,
           UNCHANGED pen
    PROVE  IInv'
<1>0. TypeOK /\ MineOK(w) /\ Task(w) \in Requests
  BY AtWorkIs
<1>1. PICK x \in WorkType : /\ work' = [work EXCEPT ![w] = x]
                            /\ x.at = "mark" /\ x.next = work[w].next /\ x.through = work[w].through
  BY <1>0, DoIs
<1>2. InRange(x)
  BY <1>0, <1>1 DEF InRange, MineOK
<1>3. CursorOK' /\ cursor' \in [after : Nat, through : Nat]
  BY QuietIs, CursorStill
<1>4. PICK t \in Requests : t = Task(w)
  BY <1>0
<1>5. PenFits(w, t)
  BY QuietPen
<1>6. done' \subseteq Requests
  BY <1>0, WorkTyped
<1> QED BY <1>1, <1>2, <1>3, <1>5, <1>6, RestTurn

\* The entry of a task: answered before, or to be claimed.
LEMMA EntryGood == ASSUME IInv, NEW w \in Works, Entry(w) PROVE IInv'
<1>0. /\ work[w].at = "entry" /\ Idle(w) /\ Quiet /\ UNCHANGED <<job, result, money, cursor, done>>
         /\ work[w].at # "off"
  BY DEF Entry, AtWork, Quiet
<1>1. TypeOK /\ MineOK(w) /\ Task(w) \in Requests /\ JobOK(Task(w)) /\ done' \subseteq Requests
  BY <1>0, AtWorkIs, WorkTyped
<1>2. PICK t \in Requests : t = Task(w)
  BY <1>1
<1>3. \/ (Considered(w) \/ Do(w, "mark")) /\ UNCHANGED pen
      \/ ~Answered(t) /\ Do(w, "claim") /\ pen' = [pen EXCEPT ![w].guard = TRUE]
  BY <1>2 DEF Entry
<1>4. CASE Considered(w) /\ UNCHANGED pen
  BY <1>0, <1>1, <1>4, ConsideredGood
<1>5. CASE Do(w, "mark") /\ UNCHANGED pen
  BY <1>0, <1>5, DoMarkGood
<1>6. CASE ~Answered(t) /\ Do(w, "claim") /\ pen' = [pen EXCEPT ![w].guard = TRUE]
  <2>0. UNCHANGED <<inbox, room, doc, result, calls, spend, bill>>
    BY <1>0, QuietIs DEF money
  <2>1. PICK x \in WorkType : /\ work' = [work EXCEPT ![w] = x] /\ x.at = "claim" /\ x.held = work[w].held
                              /\ x.next = work[w].next /\ x.through = work[w].through
    BY <1>1, <1>6, DoIs
  <2>2. PenFits(w, t)
    BY <1>0, <1>6, QuietPen
  <2>3. x.at \notin OnTheJob
    BY <2>1 DEF OnTheJob
  <2>4. Leaves(w, t) /\ work' \in [Works -> WorkType] /\ work'[w] = x
    BY <1>0, <2>0, <2>1, <2>2, <2>3, StayLeaves, PenSame
  <2>5. Task(w)' = t
    BY <1>2, <2>0, <2>1, <2>4 DEF Task
  <2>6. ~x.held
    BY <1>0, <1>1, <2>1 DEF MineOK
  <2>7. job[t].phase = "none" => calls[t] = <<>>
    BY <1>1, <1>2, <1>6 DEF JobOK
  <2>8. Fine(w)
    <3>1. MineOK(w)'
      BY <1>0, <1>1, <2>0, <2>1, <2>3, <2>4, <2>6 DEF MineOK
    <3>2. CopyOK(w)'
      BY <2>4, <2>6 DEF CopyOK
    <3>3. CallOK(w)'
      BY <1>0, <2>0, <2>1, <2>4, <2>5, <2>7 DEF CallOK
    <3>4. AtStory(w)'
      BY <2>1, <2>3, <2>4 DEF AtStory
    <3> QED BY <3>1, <3>2, <3>3, <3>4 DEF Fine
  <2>9. FineJob(t)
    BY <1>0, <2>0, <2>3, <2>4, JobStill
  <2>10. MoneyIInv'
    BY <2>0, <2>1, <2>4, MoneyStill
  <2>11. Typed /\ CursorOK'
    BY <1>0, <1>1, <2>0, <2>4, CursorStill, WorkTyped DEF Typed
  <2> QED BY <1>0, <2>1, <2>2, <2>4, <2>8, <2>9, <2>10, <2>11, FullStep
<1> QED BY <1>3, <1>4, <1>5, <1>6

\* A task with an unknown outcome is left.
LEMMA LeaveGood == ASSUME IInv, NEW w \in Works, Leave(w) PROVE IInv'
<1>1. /\ work[w].at = "leave" /\ Idle(w) /\ Quiet /\ UNCHANGED <<job, result, money, cursor, pen>>
         /\ Considered(w)
      /\ done' \subseteq Requests
  BY WorkParts, WorkTyped DEF Leave, AtWork, Quiet
<1> QED BY <1>1, ConsideredGood

\* A task is marked done.
LEMMA MarkGood == ASSUME IInv, NEW w \in Works, Mark(w) PROVE IInv'
<1>1. /\ work[w].at = "mark" /\ Idle(w) /\ Quiet /\ UNCHANGED <<job, result, money, cursor, pen>>
         /\ Considered(w)
      /\ done' = done \cup {Task(w)}
  BY DEF Mark, AtWork, Quiet
<1>2. Task(w) \in Requests /\ done \subseteq Requests
  BY <1>1, AtWorkIs, WorkTyped
<1>3. done' \subseteq Requests
  BY <1>1, <1>2
<1> QED BY <1>1, <1>3, ConsideredGood

\* A pass that is off.
LEMMA AsleepIs == Asleep \in WorkType /\ ~Asleep.held /\ Asleep.at = "off"
<1>1. Asleep \in WorkType
  BY MaxRejectionsAssumption DEF Asleep, WorkType, NoJob, JobType, Days
<1>2. ~Asleep.held /\ Asleep.at = "off"
  BY DEF Asleep
<1> QED BY <1>1, <1>2

\* The cursor is moved to what was read.
LEMMA CheckpointGood == ASSUME IInv, NEW w \in Works, Checkpoint(w) PROVE IInv'
<1>0. /\ work[w].at = "checkpoint" /\ Idle(w) /\ Quiet /\ UNCHANGED <<job, result, money, done>>
      /\ work' = [work EXCEPT ![w] = Asleep] /\ pen' = [pen EXCEPT ![w] = NoPen]
      /\ cursor' = [after |-> work[w].next, through |-> work[w].through] /\ work[w].at # "off"
  BY DEF Checkpoint, AtWork, Quiet, Turn
<1>1. TypeOK /\ MineOK(w) /\ Task(w) \in Requests /\ done' \subseteq Requests
  BY <1>0, AtWorkIs, WorkTyped
<1>2. PICK t \in Requests : t = Task(w)
  BY <1>1
<1>3. cursor' \in [after : Nat, through : Nat] /\ cursor'.after = work[w].next
         /\ cursor'.through = work[w].through
  BY <1>0, <1>1, TurnTyped
<1>4. CursorOK'
  BY <1>0, <1>1, <1>3, QuietIs DEF CursorOK, MineOK
<1>5. PICK x \in WorkType : x = Asleep /\ x.at = "off" /\ ~x.held
  BY AsleepIs
<1>6. PenFits(w, t)
  BY <1>0, NoPenFits
<1> QED BY <1>0, <1>1, <1>3, <1>4, <1>5, <1>6, RestTurn DEF InRange

\* A pass dies anywhere; the claim, the ledger and the answer stay as they are.
LEMMA DiesAtWorkGood ==
    ASSUME IInv, NEW w \in Works, DiesAtWork(w), Use("fault"), UNCHANGED <<intakeRest, overdue>> PROVE IInv'
<1>0. /\ Quiet /\ UNCHANGED <<job, result, money, done, cursor>>
      /\ work' = [work EXCEPT ![w] = Asleep] /\ pen' = [pen EXCEPT ![w] = NoPen] /\ work[w].at # "off"
  BY DEF DiesAtWork, Quiet, Turn
<1>1. TypeOK /\ Task(w) \in Requests /\ done' \subseteq Requests
  BY <1>0, AtWorkIs, WorkTyped
<1>2. PICK t \in Requests : t = Task(w)
  BY <1>1
<1>3. CursorOK' /\ cursor' \in [after : Nat, through : Nat]
  BY <1>0, QuietIs, CursorStill
<1>5. PICK x \in WorkType : x = Asleep /\ x.at = "off" /\ ~x.held
  BY AsleepIs
<1>6. PenFits(w, t)
  BY <1>0, NoPenFits
<1> QED BY <1>0, <1>1, <1>3, <1>5, <1>6, RestTurn DEF InRange

\* The inbox cannot be read.
LEMMA ReadFailsGood ==
    ASSUME IInv, NEW w \in Works, ReadFailsAtWork(w), Use("fault"),
          UNCHANGED <<intakeRest, overdue>> PROVE IInv'
<1>1. /\ work[w].at # "off" /\ Idle(w) /\ Quiet /\ UNCHANGED <<job, result, money, cursor, pen>>
         /\ Considered(w)
      /\ done' \subseteq Requests
  BY WorkParts, WorkTyped DEF ReadFailsAtWork, AtWork, Quiet
<1> QED BY <1>1, ConsideredGood

\* The mark is not made.
LEMMA MarkFailsGood ==
    ASSUME IInv, NEW w \in Works, MarkFails(w), Use("fault"), UNCHANGED <<intakeRest, overdue>> PROVE IInv'
<1>1. /\ work[w].at # "off" /\ Idle(w) /\ Quiet /\ UNCHANGED <<job, result, money, cursor, pen>>
         /\ Considered(w)
      /\ done' \subseteq Requests
  BY WorkParts, WorkTyped DEF MarkFails, AtWork, Quiet
<1> QED BY <1>1, ConsideredGood

\* A sweep begins.
LEMMA WakeGood == ASSUME IInv, NEW w \in Works, Wake(w) PROVE IInv'
<1>0. /\ work[w].at = "off" /\ Idle(w) /\ inbox[Api] # <<>> /\ Quiet
         /\ UNCHANGED <<job, result, money, done, pen>>
      /\ work[w].at # "entry"
  BY DEF Wake, AtWork, Quiet
<1>1. TypeOK /\ CursorOK /\ UNCHANGED <<inbox, room>> /\ done' \subseteq Requests
  BY <1>0, WorkParts, WorkTyped, QuietIs
<1>2. PICK n \in Nat : n = Len(inbox[Api]) /\ inbox[Api] \in Seq(Requests)
  BY <1>1, ApiIs
<1>3. n >= 1
  BY <1>0, <1>2, EmptySeq
<1>4. PICK c : /\ c = IF cursor.after = cursor.through THEN [after |-> 0, through |-> n] ELSE cursor
               /\ cursor' = c
               /\ work' = [work EXCEPT ![w] = [Asleep EXCEPT !.at = "entry", !.next = c.after + 1, !.through = c.through]]
  BY <1>2 DEF Wake, Turn
<1>5. PICK a \in Nat : a = cursor.after
  BY <1>1, WorkTyped
<1>6. PICK b \in Nat : b = cursor.through
  BY <1>1, WorkTyped
<1>7. a <= b /\ b <= n
  BY <1>1, <1>2, <1>5, <1>6 DEF CursorOK
<1>8. /\ c \in [after : Nat, through : Nat]
      /\ \/ c.after = 0 /\ c.through = n
         \/ a # b /\ c.after = a /\ c.through = b
  <2>1. cursor \in [after : Nat, through : Nat]
    BY <1>1, WorkTyped
  <2>2. CASE a = b
    <3>1. c = [after |-> 0, through |-> n]
      BY <1>4, <1>5, <1>6, <2>2
    <3> QED BY <3>1
  <2>3. CASE a # b
    <3>1. c = cursor
      BY <1>4, <1>5, <1>6, <2>3
    <3> QED BY <1>5, <1>6, <2>1, <2>3, <3>1
  <2> QED BY <2>2, <2>3
<1>9. PICK k \in Nat : k = c.after
  BY <1>8
<1>10. PICK m \in Nat : m = c.through
  BY <1>8
<1>11. k + 1 \in Nat /\ k + 1 >= 1 /\ k + 1 <= m /\ m <= n /\ k <= m
  BY <1>3, <1>7, <1>8, <1>9, <1>10
<1>12. PICK i \in Nat : i = k + 1
  BY <1>11
<1>13. PICK x : x = [Asleep EXCEPT !.at = "entry", !.next = i, !.through = m]
  OBVIOUS
<1>14. x \in WorkType /\ x.at = "entry" /\ ~x.held /\ x.next = i /\ x.through = m
  <2>1. Asleep \in WorkType /\ ~Asleep.held
    BY AsleepIs
  <2> QED BY <1>13, <2>1 DEF WorkType
<1>15. InRange(x)
  BY <1>2, <1>11, <1>12, <1>14 DEF InRange
<1>16. work' = [work EXCEPT ![w] = x]
  BY <1>4, <1>9, <1>10, <1>12, <1>13
<1>17. CursorOK' /\ cursor' \in [after : Nat, through : Nat]
  BY <1>1, <1>2, <1>4, <1>8, <1>9, <1>10, <1>11 DEF CursorOK
<1>18. PICK t \in Requests : TRUE
  BY MaxRequestsAssumption DEF Requests
<1>19. PenFits(w, t)
  BY <1>0, QuietPen
<1> QED BY <1>0, <1>1, <1>14, <1>15, <1>16, <1>17, <1>19, RestTurn

-----------------------------------------------------------------------------
(* The worker's steps: its claim.                                          *)

\* The claim stays.
LEMMA StayGood ==
    ASSUME IInv, NEW w \in Works, NEW t \in Requests, t = Task(w), Quiet,
          UNCHANGED <<job, result, money, cursor, done>>,
           NEW x \in WorkType, work' = [work EXCEPT ![w] = x],
           x.at \in OnTheJob => work[w].at \in OnTheJob /\ x.next = work[w].next,
                                                           x.at \notin {"call", "settle"},
           x.at \in {"leave", "close"} => x.next = work[w].next, PenFits(w, t), Fine(w)
    PROVE  IInv'
<1>0. TypeOK /\ UNCHANGED <<inbox, room, doc, result, calls, spend, bill>> /\ done' \subseteq Requests
  BY WorkParts, WorkTyped, QuietIs DEF money
<1>1. x.at \in OnTheJob => x.next = work[w].next /\ Task(w) = t /\ OnJob(w, t)
  BY DEF OnJob
<1>2. Leaves(w, t) /\ work' \in [Works -> WorkType] /\ work'[w] = x
  BY <1>0, <1>1, StayLeaves, PenSame
<1>3. Typed /\ CursorOK'
  BY <1>0, <1>2, CursorStill, WorkTyped DEF Typed
<1>4. FineJob(t)
  BY <1>0, <1>1, <1>2, JobStill
<1>5. MoneyIInv'
  BY <1>0, <1>2, MoneyStill
<1>6. x.at \in {"leave", "close"} => Task(w)' = t
  BY <1>0, <1>2 DEF Task
<1> QED BY <1>2, <1>3, <1>4, <1>5, <1>6, FullStep

\* The claim moves.
LEMMA MovedGood ==
    ASSUME IInv, NEW w \in Works, NEW t \in Requests, t = Task(w), Quiet,
          UNCHANGED <<result, money, cursor, done>>,
           job' \in [Requests -> JobType], job' = [job EXCEPT ![t] = job'[t]], Moves(w, t),
           \A v \in Works \ {w} : Yields(v, w, t), work' \in [Works -> WorkType], NEW x, work'[w] = x,
           x.at \in OnTheJob => x.next = work[w].next /\ (OnJob(w, t) \/ IsOpen(job[t])),
                                                         x.at \notin {"call", "settle"},
           x.at \in {"leave", "close"} => x.next = work[w].next, PenFits(w, t), Fine(w), FineJob(t)
    PROVE  IInv'
<1>0. TypeOK /\ UNCHANGED <<inbox, room, doc, result, calls, spend, bill>> /\ done' \subseteq Requests
  BY WorkParts, WorkTyped, QuietIs DEF money
<1>1. \A u \in Requests \ {t} : job'[u] = job[u]
  BY <1>0, WorkTyped
<1>2. Leaves(w, t)
  BY <1>0, <1>1, PenSame DEF Leaves
<1>3. Typed /\ CursorOK'
  BY <1>0, CursorStill, WorkTyped DEF Typed
<1>5. MoneyIInv'
  BY <1>0, <1>2, MoneyStill
<1>6. x.at \in {"leave", "close"} => Task(w)' = t
  BY <1>0 DEF Task
<1> QED BY <1>2, <1>3, <1>5, <1>6, FullStep

\* At the other steps a pass says nothing.
LEMMA SpeakNot ==
    ASSUME NEW w, Speak(w), work'[w].at \notin {"accepted", "cap", "leave", "close"} PROVE pen' = pen
<1>1. PICK x : x = work'[w]
  OBVIOUS
<1>2. Owes(x) = <<>>
  BY <1>1 DEF Owes
<1> QED BY <1>1, <1>2 DEF Speak

\* A pass goes on to the next entry.
LEMMA SpeakConsidered ==
    ASSUME IInv, NEW w \in Works, work[w].at # "off", Idle(w),
          work' = [work EXCEPT ![w] = Behind(work[w])], Quiet,
           UNCHANGED <<job, result, money, cursor, done>>, Speak(w) \/ UNCHANGED pen
    PROVE  IInv'
<1>0. TypeOK /\ MineOK(w)
  BY AtWorkIs
<1>1. PICK x : x = Behind(work[w])
  OBVIOUS
<1>2. x \in WorkType /\ x.at \in {"entry", "checkpoint"}
  BY <1>0, <1>1, BehindIs
<1>3. work'[w] = x
  BY <1>0, <1>1, <1>2, TurnIs
<1>4. UNCHANGED pen
  BY <1>2, <1>3, SpeakNot
<1>5. done' \subseteq Requests
  BY <1>0, WorkTyped
<1> QED BY <1>4, <1>5, ConsideredGood DEF Considered, Turn

\* A claim that is held is there.
LEMMA HeldMine ==
    ASSUME TypeOK, NEW w \in Works, MineOK(w), CopyOK(w), work[w].held, work[w].at # "mark"
    PROVE  job[Task(w)].phase # "none"
<1>1. PICK r : r = work[w] /\ r \in WorkType
  BY TurnTyped
<1>2. r.mine.phase # "none"
  BY <1>1 DEF MineOK, OnTheJob, WorkType
<1>3. PICK m \in JobType : m = r.mine
  BY <1>1 DEF WorkType
<1>4. job[Task(w)] = m \/ job[Task(w)] = [m EXCEPT !.lease = "dead"]
  BY <1>1, <1>3 DEF CopyOK
<1> QED BY <1>2, <1>3, <1>4 DEF JobType

\* Calls that were refused, fewer than may be, are not the last word.
LEMMA NotFinal ==
    ASSUME TypeOK, NEW t \in Requests, NEW n \in Nat, Refused(t, n), n < MaxRejections PROVE ~Final(t)
<1>1. PICK c : c = calls[t] /\ Len(c) \in Nat /\ DOMAIN c = 1..Len(c) /\ (c = <<>> <=> Len(c) = 0)
  BY CallsTyped
<1>2. c # <<>> => Len(c) \in DOMAIN c
  BY <1>1
<1> QED BY <1>1, <1>2, MaxRejectionsAssumption DEF Final, Refused

\* A claim under a live lease is in order when nothing is kept.
LEMMA AcceptedJob ==
    ASSUME IInv, NEW t \in Requests, UNCHANGED <<doc, calls, result>>, job'[t].phase = "accepted",
          job'[t].lease = "live",
           Steady => result[t] = "none"
    PROVE  FineJob(t)
<1>1. JobOK(t)
  BY WorkParts
<1>2. JobOK(t)'
  <2>1. Ends(t, result[t])' <=> Ends(t, result[t])
    BY DEF Ends, Final, Story
  <2> QED BY <1>1, <2>1 DEF JobOK, IsOpen, Timeless
<1>3. Steady => StoryOK(t)'
  BY DEF StoryOK
<1> QED BY <1>2, <1>3 DEF FineJob

\* A turn with a claim just made is in order.
LEMMA AcceptedFine ==
    ASSUME IInv, NEW w \in Works, work[w].at # "off", NEW t \in Requests, t = Task(w),
          UNCHANGED <<inbox, calls>>,
           NEW x \in WorkType, work'[w] = x, x.at = "accepted", x.held, x.next = work[w].next,
           x.through = work[w].through, job'[t] = x.mine,
           x.mine.phase = "accepted", x.mine.lease = "live", Refused(t, x.mine.rejected),
                 x.mine.rejected < MaxRejections
    PROVE  Fine(w)
<1>0. MineOK(w)
  BY WorkParts
<1>1. Task(w)' = t
  BY DEF Task
<1>2. MineOK(w)'
  BY <1>0 DEF MineOK
<1>3. CopyOK(w)'
  BY <1>1 DEF CopyOK
<1>4. CallOK(w)'
  <2>1. Refused(t, work[w].mine.rejected)'
    BY DEF Refused
  <2> QED BY <1>1, <2>1 DEF CallOK, Refused
<1>5. AtStory(w)'
  BY <1>1 DEF AtStory
<1> QED BY <1>2, <1>3, <1>4, <1>5 DEF Fine

\* The claim of a task nobody has claimed, or a look at the one there is.
LEMMA ClaimGood == ASSUME IInv, NEW w \in Works, Claim(w) PROVE IInv'
<1>0. /\ work[w].at = "claim" /\ Idle(w) /\ Quiet /\ UNCHANGED <<result, money, cursor, done>>
         /\ work[w].at # "off"
      /\ Speak(w)
  BY DEF Claim, AtWork, Quiet
<1>1. /\ TypeOK /\ MineOK(w) /\ CallOK(w) /\ Task(w) \in Requests /\ JobOK(Task(w))
      /\ Steady => StoryOK(Task(w))
  BY <1>0, AtWorkIs
<1>2. PICK t \in Requests : t = Task(w)
  BY <1>1
<1>3. UNCHANGED <<inbox, room, doc, result, calls, spend, bill>>
  BY <1>0, QuietIs DEF money
<1>4. PICK j \in JobType : j = job[t]
  BY <1>1, WorkTyped
<1>5. CASE j.phase = "none"
  <2>1. PICK x : x = Going(w, Accepted(0), "accepted")
    OBVIOUS
  <2>2. 0 \in 0..MaxRejections /\ 0 \in Days /\ 0 < MaxRejections
    BY MaxRejectionsAssumption DEF Days
  <2>3. PICK a : a = Accepted(0)
    OBVIOUS
  <2>4. a \in JobType /\ a.phase = "accepted" /\ a.lease = "live" /\ a.rejected = 0
    BY <2>2, <2>3, JobsAre
  <2>5. /\ x \in WorkType /\ x.at = "accepted" /\ x.mine = a /\ x.held /\ x.next = work[w].next
        /\ x.through = work[w].through
    BY <1>1, <2>1, <2>3, <2>4, GoingIs
  <2>6. job' = [job EXCEPT ![t] = a] /\ work' = [work EXCEPT ![w] = x]
    BY <1>2, <1>4, <1>5, <2>1, <2>3 DEF Claim, Turn
  <2>7. work' \in [Works -> WorkType] /\ work'[w] = x /\ \A v \in Works \ {w} : work'[v] = work[v]
    BY <1>1, <2>5, <2>6, TurnIs
  <2>8. job' \in [Requests -> JobType] /\ job'[t] = a
    BY <1>1, <2>4, <2>6, WorkTyped
  <2>9. Moves(w, t)
    BY <1>4, <1>5, <2>4, <2>8 DEF Moves, IsOpen
  <2>10. ASSUME NEW v \in Works \ {w} PROVE Yields(v, w, t)
    <3>1. ASSUME work[v].held, work[v].at # "mark" PROVE job'[Task(v)] = job[Task(v)]
      <4>1. MineOK(v) /\ CopyOK(v) /\ work[v].at # "off"
        BY <3>1, WorkParts DEF MineOK
      <4>2. Task(v) \in Requests /\ job[Task(v)].phase # "none"
        BY <1>1, <3>1, <4>1, HeldMine, TaskIs
      <4>3. Task(v) # t
        BY <1>4, <1>5, <4>2
      <4> QED BY <1>1, <2>6, <4>2, <4>3, WorkTyped
    <3> QED BY <2>7, <3>1 DEF Yields
  <2>11. PenFits(w, t)
    BY <1>0, <1>2, <2>5, <2>7, SpeakIs
  <2>12. Refused(t, 0)
    <3>1. calls[t] = <<>>
      BY <1>0, <1>1, <1>2, <1>4, <1>5 DEF CallOK
    <3> QED BY <3>1, EmptySeq DEF Refused
  <2>13. Fine(w)
    BY <1>0, <1>2, <1>3, <2>2, <2>4, <2>5, <2>7, <2>8, <2>12, AcceptedFine
  <2>14. Steady => result[t] = "none"
    BY <1>1, <1>2, <1>4, <1>5 DEF StoryOK, Shut, IsOpen
  <2>15. FineJob(t)
    BY <1>3, <2>4, <2>8, <2>14, AcceptedJob
  <2>16. IsOpen(job[t])
    BY <1>4, <1>5 DEF IsOpen
  <2> QED BY <1>0, <1>2, <2>5, <2>6, <2>7, <2>8, <2>9, <2>10, <2>11, <2>13, <2>15, <2>16, MovedGood
<1>6. CASE j.phase # "none" /\ j.phase = "capped" /\ j.day = day
  <2>1. UNCHANGED job /\ work' = [work EXCEPT ![w] = Behind(work[w])]
    BY <1>2, <1>4, <1>6 DEF Claim, Considered, Turn
  <2> QED BY <1>0, <2>1, SpeakConsidered
<1>7. CASE j.phase # "none" /\ ~(j.phase = "capped" /\ j.day = day)
  <2>1. PICK step : step = CASE j.phase = "done" -> "mark"
                             [] j.phase = "resulted" -> "finish"
                             [] j.phase = "capped" -> "uncap"
                             [] j.phase \in {"accepted", "uncertain"} -> "recall"
    OBVIOUS
  <2>2. /\ step \in {"mark", "finish", "uncap", "recall"} /\ (step = "finish" => j.phase = "resulted")
        /\ step = "uncap" => j.phase = "capped"
        /\ step = "recall" => j.phase \in {"accepted", "uncertain"}
    BY <1>7, <2>1, JobTyped
  <2>3. PICK x : x = Going(w, j, step)
    OBVIOUS
  <2>4. /\ x \in WorkType /\ x.at = step /\ x.mine = j /\ x.held /\ x.next = work[w].next
           /\ x.through = work[w].through
    BY <1>1, <2>2, <2>3, GoingIs
  <2>5. UNCHANGED job /\ work' = [work EXCEPT ![w] = x]
    BY <1>2, <1>4, <1>7, <2>1, <2>3 DEF Claim, Turn
  <2>6. work'[w] = x /\ Task(w)' = t
    BY <1>1, <1>2, <1>3, <2>4, <2>5, TurnIs DEF Task
  <2>7. x.at \notin OnTheJob /\ x.at \notin {"call", "settle", "leave", "close"}
    BY <2>2, <2>4 DEF OnTheJob
  <2>8. PenFits(w, t)
    BY <1>0, <1>2, <2>6, <2>7, SpeakIs
  <2>9. MineOK(w)'
    BY <1>0, <1>1, <1>3, <2>2, <2>4, <2>6, <2>7 DEF MineOK
  <2>10. CopyOK(w)'
    BY <1>4, <2>4, <2>5, <2>6 DEF CopyOK
  <2>11. CallOK(w)'
    BY <2>2, <2>4, <2>6 DEF CallOK
  <2>12. ASSUME Steady PROVE AtStory(w)'
    <3>1. Leaves(w, t)
      BY <1>3, <2>4, <2>5, <2>7, <2>8, StayLeaves, PenSame
    <3>2. Shut(t) => Shut(t)'
      BY <1>1, <1>2, <3>1, ShutKept
    <3>3. j.phase \in {"uncertain", "resulted"} \/ j.lease = "dead" => Shut(t)
      BY <1>1, <1>2, <1>4, <2>12 DEF StoryOK
    <3> QED BY <2>2, <2>4, <2>6, <2>7, <3>2, <3>3 DEF AtStory, Shut, Nobody, OnJob
  <2>13. Fine(w)
    BY <2>9, <2>10, <2>11, <2>12 DEF Fine
  <2> QED BY <1>0, <1>2, <2>4, <2>5, <2>7, <2>8, <2>13, StayGood
<1> QED BY <1>5, <1>6, <1>7

-----------------------------------------------------------------------------
(* The worker's steps: a claim taken again, and given back.                *)

\* The answer of a claim taken before is looked for.
LEMMA RecallGood == ASSUME IInv, NEW w \in Works, Recall(w) PROVE IInv'
<1>0. /\ work[w].at = "recall" /\ Idle(w) /\ Quiet /\ UNCHANGED <<result, money, cursor, done>>
         /\ work[w].at # "off"
      /\ Speak(w)
  BY DEF Recall, AtWork, Quiet
<1>1. /\ TypeOK /\ MineOK(w) /\ CallOK(w) /\ CopyOK(w) /\ Task(w) \in Requests /\ JobOK(Task(w))
      /\ Steady => AtStory(w) /\ StoryOK(Task(w))
  BY <1>0, AtWorkIs
<1>2. PICK t \in Requests : t = Task(w)
  BY <1>1
<1>3. UNCHANGED <<inbox, room, doc, result, calls, spend, bill>>
  BY <1>0, QuietIs DEF money
<1>4. PICK y : y = Behind(work[w])
  OBVIOUS
<1>5. y \in WorkType
  BY <1>0, <1>1, <1>4, BehindIs
<1>6. PICK r : r = work[w] /\ r \in WorkType
  BY <1>1, TurnTyped
<1>7. CASE result[t] # "none"
  <2>1. PICK j : j = Moved("resulted")
    OBVIOUS
  <2>2. j \in JobType /\ j.phase = "resulted" /\ j.lease = "none"
    <3>1. 0 \in 0..MaxRejections /\ 0 \in Days
      BY MaxRejectionsAssumption DEF Days
    <3> QED BY <2>1, <3>1, JobsAre
  <2>3. PICK x : x = Going(w, j, "finish")
    OBVIOUS
  <2>4. /\ x \in WorkType /\ x.at = "finish" /\ x.mine = j /\ x.held /\ x.next = work[w].next
        /\ x.through = work[w].through
    BY <1>1, <2>2, <2>3, GoingIs
  <2>5. MoveJob(w, j, x, y)
    BY <1>2, <1>4, <1>7, <2>1, <2>3 DEF Recall, IsKept
  <2>6. /\ job' \in [Requests -> JobType] /\ work' \in [Works -> WorkType]
        /\ \/ ~Holds(w) /\ job' = job /\ work' = [work EXCEPT ![w] = y]
           \/ /\ Holds(w) /\ job' = [job EXCEPT ![t] = j] /\ job'[t] = j /\ work'[w] = x
              /\ Moves(w, t) => \A v \in Works \ {w} : Yields(v, w, t)
    BY <1>2, <1>5, <2>2, <2>4, <2>5, MoveJobIs
  <2>7. CASE ~Holds(w)
    BY <1>0, <1>4, <2>6, <2>7, SpeakConsidered
  <2>8. CASE Holds(w)
    <3>1. job' = [job EXCEPT ![t] = j] /\ job'[t] = j /\ work'[w] = x
      BY <2>6, <2>8
    <3>2. Moves(w, t)
      BY <1>7, <2>2, <3>1 DEF Moves, IsOpen, Timeless
    <3>3. \A v \in Works \ {w} : Yields(v, w, t)
      BY <2>6, <2>8, <3>2
    <3>4. x.at \notin OnTheJob /\ x.at \notin {"call", "settle", "leave", "close"}
      BY <2>4 DEF OnTheJob
    <3>5. PenFits(w, t)
      BY <1>0, <1>2, <3>1, <3>4, SpeakIs
    <3>6. Task(w)' = t
      BY <1>2, <1>3, <2>4, <3>1 DEF Task
    <3>7. FineJob(t)
      <4>1. Ends(t, result[t])' <=> Ends(t, result[t])
        BY <1>3 DEF Ends, Final, Story
      <4>2. JobOK(t)'
        BY <1>1, <1>2, <1>3, <2>2, <3>1, <4>1 DEF JobOK, IsOpen, Timeless
      <4>3. Shut(t)'
        BY <1>3, <1>7, <2>2, <3>1 DEF Shut, IsOpen, Timeless
      <4> QED BY <4>2, <4>3 DEF FineJob, StoryOK
    <3>8. Shut(t)'
      BY <1>3, <1>7, <2>2, <3>1 DEF Shut, IsOpen, Timeless
    <3>9. MineOK(w)'
      BY <1>0, <1>1, <1>3, <2>2, <2>4, <3>1, <3>4 DEF MineOK
    <3>10. CopyOK(w)'
      BY <2>4, <3>1, <3>6 DEF CopyOK
    <3>11. CallOK(w)'
      BY <2>4, <3>1 DEF CallOK
    <3>12. AtStory(w)'
      BY <2>4, <3>1, <3>4, <3>6, <3>8 DEF AtStory, Shut, Nobody, OnJob
    <3>13. Fine(w)
      BY <3>9, <3>10, <3>11, <3>12 DEF Fine
    <3>14. job' = [job EXCEPT ![t] = job'[t]]
      BY <3>1
    <3> QED BY <1>0, <1>2, <2>4, <2>6, <3>1, <3>2, <3>3, <3>4, <3>5, <3>7, <3>13, <3>14, MovedGood
  <2> QED BY <2>7, <2>8
<1>8. CASE result[t] = "none"
  <2>0. UNCHANGED job
    BY <1>2, <1>8 DEF Recall, IsKept
  <2>1. PICK m \in JobType : m = r.mine
    BY <1>6 DEF WorkType
  <2>2. m.phase \in {"accepted", "uncertain"} /\ m.lease \in {"none", "live", "dead"}
    BY <1>0, <1>1, <1>6, <2>1, JobTyped DEF MineOK
  <2>3. /\ m.phase = "uncertain" => Do(w, "leave")
        /\ m.phase = "accepted" /\ m.lease = "live" => work' = [work EXCEPT ![w] = y]
        /\ m.phase = "accepted" /\ m.lease = "dead"
              => work' = [work EXCEPT ![w] = [r EXCEPT !.at = "close", !.got = "UNKNOWN"]]
        /\ m.phase = "accepted" /\ m.lease = "none" => Do(w, "retake")
    BY <1>2, <1>4, <1>6, <1>8, <2>1, <2>2 DEF Recall, IsKept, Considered, Turn
  <2>4. CASE m.phase = "accepted" /\ m.lease = "live"
    BY <1>0, <1>4, <2>0, <2>3, <2>4, SpeakConsidered
  <2>5. CASE ~(m.phase = "accepted" /\ m.lease = "live")
    <3>1. \E x \in WorkType : /\ work' = [work EXCEPT ![w] = x] /\ x.mine = m /\ x.held = r.held
                              /\ x.next = r.next /\ x.through = r.through
                              /\ \/ m.phase = "uncertain" /\ x.at = "leave"
                                 \/ m.phase = "accepted" /\ m.lease = "dead" /\ x.at = "close"
                                       /\ x.got = "UNKNOWN"
                                 \/ m.phase = "accepted" /\ m.lease = "none" /\ x.at = "retake"
      <4>1. CASE m.phase = "uncertain"
        BY <1>1, <1>6, <2>1, <2>3, <4>1, DoIs
      <4>2. CASE m.phase = "accepted" /\ m.lease = "none"
        BY <1>1, <1>6, <2>1, <2>3, <4>2, DoIs
      <4>3. CASE m.phase = "accepted" /\ m.lease = "dead"
        <5>1. PICK x : x = [r EXCEPT !.at = "close", !.got = "UNKNOWN"]
          OBVIOUS
        <5>2. /\ x \in WorkType /\ x.at = "close" /\ x.got = "UNKNOWN" /\ x.mine = m /\ x.held = r.held
              /\ x.next = r.next /\ x.through = r.through
          BY <1>6, <2>1, <5>1 DEF WorkType, Outcomes, Verdicts
        <5> QED BY <2>3, <4>3, <5>1, <5>2
      <4> QED BY <2>2, <2>5, <4>1, <4>2, <4>3
    <3>2. PICK x \in WorkType : /\ work' = [work EXCEPT ![w] = x] /\ x.mine = m /\ x.held = r.held
                                /\ x.next = r.next /\ x.through = r.through
                                /\ \/ m.phase = "uncertain" /\ x.at = "leave"
                                   \/ m.phase = "accepted" /\ m.lease = "dead" /\ x.at = "close"
                                         /\ x.got = "UNKNOWN"
                                   \/ m.phase = "accepted" /\ m.lease = "none" /\ x.at = "retake"
      BY <3>1
    <3>3. work'[w] = x /\ Task(w)' = t
      BY <1>1, <1>2, <1>3, <1>6, <3>2, TurnIs DEF Task
    <3>4. x.at \notin OnTheJob /\ x.at \notin {"call", "settle"}
      BY <3>2 DEF OnTheJob
    <3>5. PenFits(w, t) /\ (x.at = "close" => Coming(w, "claude-api", t, work[w].got)')
      BY <1>0, <1>2, <3>2, <3>3, SpeakIs DEF Verdicts
    <3>6. MineOK(w)'
      BY <1>0, <1>1, <1>3, <1>6, <3>2, <3>3, <3>4 DEF MineOK, Verdicts
    <3>7. CopyOK(w)'
      BY <1>0, <1>1, <1>2, <1>6, <2>0, <2>1, <3>2, <3>3 DEF CopyOK
    <3>8. CallOK(w)'
      BY <3>2, <3>3, <3>5 DEF CallOK, Coming, InTrail, Trail
    <3>9. ASSUME Steady PROVE AtStory(w)'
      <4>1. Leaves(w, t)
        BY <1>3, <2>0, <3>2, <3>4, <3>5, StayLeaves, PenSame
      <4>2. Shut(t) => Shut(t)' /\ Verdict(t)' = Verdict(t)
        BY <1>1, <1>2, <4>1, ShutKept
      <4>3. m.phase = "uncertain" \/ m.lease = "dead" => Shut(t)
        BY <1>0, <1>1, <1>2, <1>6, <2>1, <3>9 DEF AtStory
      <4>4. Verdict(t) = "UNKNOWN"
        BY <1>8 DEF Verdict
      <4> QED BY <3>2, <3>3, <3>4, <4>2, <4>3, <4>4 DEF AtStory, Shut, Verdict, Nobody, OnJob
    <3>10. Fine(w)
      BY <3>6, <3>7, <3>8, <3>9 DEF Fine
    <3> QED BY <1>0, <1>2, <1>6, <2>0, <3>2, <3>4, <3>5, <3>10, StayGood
  <2> QED BY <2>4, <2>5
<1> QED BY <1>7, <1>8

\* A claim open for a retry is taken again, by one pass.
LEMMA RetakeGood == ASSUME IInv, NEW w \in Works, Retake(w) PROVE IInv'
<1>0. /\ work[w].at \in {"retake", "uncap"} /\ Idle(w) /\ Quiet /\ UNCHANGED <<result, money, cursor, done>>
      /\ work[w].at # "off" /\ work[w].at # "mark" /\ Speak(w)
  BY DEF Retake, AtWork, Quiet
<1>1. /\ TypeOK /\ MineOK(w) /\ CopyOK(w) /\ Task(w) \in Requests /\ JobOK(Task(w))
      /\ Steady => StoryOK(Task(w))
  BY <1>0, AtWorkIs
<1>2. PICK t \in Requests : t = Task(w)
  BY <1>1
<1>3. UNCHANGED <<inbox, room, doc, result, calls, spend, bill>>
  BY <1>0, QuietIs DEF money
<1>4. PICK y : y = Behind(work[w])
  OBVIOUS
<1>5. y \in WorkType
  BY <1>0, <1>1, <1>4, BehindIs
<1>6. PICK m \in JobType : m = work[w].mine
  BY <1>1, TurnTyped
<1>7. m.rejected \in 0..MaxRejections /\ m.rejected \in Nat /\ 0 \in Days
  BY <1>6, JobTyped DEF Days
<1>8. PICK j : j = Accepted(m.rejected)
  OBVIOUS
<1>9. j \in JobType /\ j.phase = "accepted" /\ j.lease = "live" /\ j.rejected = m.rejected
  BY <1>7, <1>8, JobsAre
<1>10. PICK x : x = Going(w, j, "accepted")
  OBVIOUS
<1>11. /\ x \in WorkType /\ x.at = "accepted" /\ x.mine = j /\ x.held /\ x.next = work[w].next
       /\ x.through = work[w].through
  BY <1>1, <1>9, <1>10, GoingIs
<1>12. MoveJob(w, j, x, y)
  BY <1>4, <1>6, <1>8, <1>10 DEF Retake
<1>13. /\ job' \in [Requests -> JobType] /\ work' \in [Works -> WorkType]
       /\ \/ ~Holds(w) /\ job' = job /\ work' = [work EXCEPT ![w] = y]
          \/ /\ Holds(w) /\ job' = [job EXCEPT ![t] = j] /\ job'[t] = j /\ work'[w] = x
             /\ Moves(w, t) => \A v \in Works \ {w} : Yields(v, w, t)
  BY <1>2, <1>5, <1>9, <1>11, <1>12, MoveJobIs
<1>14. CASE ~Holds(w)
  BY <1>0, <1>4, <1>13, <1>14, SpeakConsidered
<1>15. CASE Holds(w)
  <2>1. job' = [job EXCEPT ![t] = j] /\ job'[t] = j /\ work'[w] = x
    BY <1>13, <1>15
  <2>2. Timeless(m) /\ (m.phase = "accepted" => m.lease = "none")
    BY <1>0, <1>1, <1>6 DEF MineOK, Timeless
  <2>3. job[t] = m
    <3>1. job[t] = m \/ (m.lease = "live" /\ job[t] = [m EXCEPT !.lease = "dead"])
      BY <1>0, <1>1, <1>2, <1>6, <1>15, HoldsIs
    <3>2. ASSUME m.lease = "live", job[t] = [m EXCEPT !.lease = "dead"] PROVE FALSE
      <4>1. job[t].lease = "dead" /\ job[t].phase = m.phase
        BY <3>2 DEF JobType
      <4>2. m.phase = "accepted"
        BY <1>1, <1>2, <4>1 DEF JobOK
      <4> QED BY <2>2, <3>2, <4>2
    <3> QED BY <3>1, <3>2
  <2>4. IsOpen(job[t]) /\ Refused(t, m.rejected) /\ m.rejected < MaxRejections
    BY <1>1, <1>2, <2>2, <2>3 DEF JobOK, IsOpen
  <2>5. Moves(w, t)
    BY <1>9, <2>1, <2>4 DEF Moves
  <2>6. \A v \in Works \ {w} : Yields(v, w, t)
    BY <1>13, <1>15, <2>5
  <2>7. PenFits(w, t)
    BY <1>0, <1>2, <1>11, <2>1, SpeakIs
  <2>8. Fine(w)
    BY <1>0, <1>2, <1>3, <1>9, <1>11, <2>1, <2>4, AcceptedFine
  <2>9. result[t] = "none"
    BY <1>1, <1>2, <1>7, <2>4, NotFinal DEF JobOK, Ends
  <2>10. FineJob(t)
    BY <1>3, <1>9, <2>1, <2>9, AcceptedJob
  <2>11. job' = [job EXCEPT ![t] = job'[t]]
    BY <2>1
  <2> QED BY <1>0, <1>2, <1>11, <1>13, <2>1, <2>4, <2>5, <2>6, <2>7, <2>8, <2>10, <2>11, MovedGood
<1> QED BY <1>14, <1>15

\* A pass on the job gives it back, or gives it up.
LEMMA DropGood ==
    ASSUME IInv, NEW w \in Works, work[w].at \in OnTheJob, Idle(w), Quiet,
          UNCHANGED <<result, money, cursor, done, pen>>,
           NEW j \in JobType, MoveJob(w, j, Behind(work[w]), Behind(work[w])), j.lease = "none",
           \/ j.phase = "uncertain"
           \/ Timeless(j) /\ Refused(Task(w), j.rejected) /\ j.rejected < MaxRejections
    PROVE  IInv'
<1>0. work[w].at # "off" /\ work[w].at # "mark"
  BY DEF OnTheJob
<1>1. /\ TypeOK /\ MineOK(w) /\ Task(w) \in Requests /\ JobOK(Task(w)) /\ OneOnTheJob
      /\ Steady => StoryOK(Task(w))
  BY <1>0, AtWorkIs, WorkParts
<1>2. PICK t \in Requests : t = Task(w)
  BY <1>1
<1>3. UNCHANGED <<inbox, room, doc, result, calls, spend, bill>>
  BY QuietIs DEF money
<1>4. PICK y : y = Behind(work[w])
  OBVIOUS
<1>5. y \in WorkType /\ y.at \in {"entry", "checkpoint"} /\ ~y.held /\ InRange(y)
  BY <1>0, <1>1, <1>4, BehindIs
<1>6. /\ job' \in [Requests -> JobType] /\ work' \in [Works -> WorkType]
      /\ \/ ~Holds(w) /\ job' = job /\ work' = [work EXCEPT ![w] = y]
         \/ /\ Holds(w) /\ job' = [job EXCEPT ![t] = j] /\ job'[t] = j /\ work'[w] = y
            /\ Moves(w, t) => \A v \in Works \ {w} : Yields(v, w, t)
  BY <1>2, <1>4, <1>5, MoveJobIs
<1>7. CASE ~Holds(w)
  BY <1>0, <1>4, <1>6, <1>7, SpeakConsidered
<1>8. CASE Holds(w)
  <2>1. job' = [job EXCEPT ![t] = j] /\ job'[t] = j /\ work'[w] = y
    BY <1>6, <1>8
  <2>2. OnJob(w, t) /\ ~OnJob(w, t)'
    BY <1>2, <1>5, <2>1 DEF OnJob, OnTheJob
  <2>3. PICK n \in Nat : n = j.rejected
    BY JobTyped
  <2>4. IsOpen(j) => Refused(t, n) /\ n < MaxRejections /\ ~Final(t)
    BY <1>1, <1>2, <2>3, NotFinal DEF IsOpen, Timeless
  <2>5. Moves(w, t)
    BY <2>1, <2>2, <2>4 DEF Moves, Timeless
  <2>6. \A v \in Works \ {w} : Yields(v, w, t)
    BY <1>6, <1>8, <2>5
  <2>7. PenFits(w, t)
    BY QuietPen
  <2>8. y.at \notin OnTheJob /\ y.at \notin {"call", "settle", "leave", "close"}
    BY <1>5 DEF OnTheJob
  <2>9. Nobody(t)'
    <3>1. ASSUME NEW v \in Works \ {w}, OnJob(v, t)' PROVE FALSE
      <4>0. Yields(v, w, t) /\ work[v] \in WorkType
        BY <1>1, <2>6, TurnTyped
      <4>1. work'[v].at = work[v].at /\ work'[v].next = work[v].next
        BY <4>0 DEF Yields, WorkType
      <4>2. OnJob(v, t)
        BY <1>3, <3>1, <4>1 DEF OnJob, Task
      <4> QED BY <1>1, <1>2, <3>1, <4>2 DEF OneOnTheJob
    <3> QED BY <2>2, <3>1 DEF Nobody
  <2>10. JobOK(t)'
    <3>1. Ends(t, result[t])' <=> Ends(t, result[t])
      BY <1>3 DEF Ends, Final, Story
    <3>2. Timeless(j) => Refused(t, job[t].rejected)'
      BY <1>3, <2>1, <2>3, <2>4 DEF Refused, IsOpen
    <3> QED BY <1>1, <1>2, <1>3, <2>1, <2>3, <2>4, <2>9, <3>1, <3>2 DEF JobOK, IsOpen, Timeless
  <2>11. ASSUME Steady PROVE StoryOK(t)'
    <3>1. CASE j.phase = "uncertain"
      BY <2>1, <2>9, <3>1 DEF StoryOK, Shut, IsOpen, Timeless
    <3>2. CASE Timeless(j)
      <4>1. result[t] = "none"
        BY <1>1, <1>2, <2>4, <3>2 DEF JobOK, Ends, IsOpen
      <4> QED BY <1>3, <2>1, <3>2, <4>1 DEF StoryOK, Timeless
    <3> QED BY <3>1, <3>2
  <2>12. FineJob(t)
    BY <2>10, <2>11 DEF FineJob
  <2>13. Fine(w)
    BY <1>3, <1>5, <2>1, RestFine
  <2>14. job' = [job EXCEPT ![t] = job'[t]]
    BY <2>1
  <2> QED BY <1>2, <1>6, <2>1, <2>5, <2>6, <2>7, <2>8, <2>12, <2>13, <2>14, MovedGood
<1> QED BY <1>7, <1>8

\* A pass on the job stays there, with its claim.
LEMMA OnJobFine ==
    ASSUME IInv, NEW w \in Works, work[w].at \in OnTheJob, NEW t \in Requests, t = Task(w),
          UNCHANGED <<inbox, job>>,
           NEW x \in WorkType, work'[w] = x, x.at \in OnTheJob, x.mine = work[w].mine, x.held = work[w].held,
           x.next = work[w].next, x.through = work[w].through, result'[t] = "none" => result[t] = "none",
           x.at \in {"keep", "uncertain", "result"} => x.got \in Verdicts,
           x.at = "settle" => x.got \in {"SUCCEEDED", "refused"}, x.at = "reopen" => x.got = "refused",
                 CallOK(w)'
    PROVE  Fine(w)
<1>0. MineOK(w) /\ CopyOK(w) /\ (Steady => AtStory(w)) /\ work[w].at # "off" /\ work[w].at # "mark"
  BY WorkParts DEF OnTheJob
<1>1. Task(w)' = t
  BY DEF Task
<1>2. x.at \notin {"off", "entry", "claim", "checkpoint", "retake", "uncap", "recall", "finish", "leave", "close", "mark"}
  BY DEF OnTheJob
<1>3. MineOK(w)'
  BY <1>0, <1>2 DEF MineOK
<1>4. CopyOK(w)'
  BY <1>0, <1>1 DEF CopyOK
<1>5. Steady => AtStory(w)'
  BY <1>0, <1>1, <1>2 DEF AtStory
<1> QED BY <1>3, <1>4, <1>5 DEF Fine

\* A pass starts on what the inbox holds.
LEMMA PickUpGood == ASSUME IInv, NEW w \in Works, PickUp(w) PROVE IInv'
<1>0. /\ work[w].at = "accepted" /\ Idle(w) /\ Quiet /\ UNCHANGED <<result, money, cursor, done, pen>>
         /\ work[w].at # "off"
      /\ work[w].at \in OnTheJob
  BY DEF PickUp, AtWork, Quiet, OnTheJob
<1>1. /\ TypeOK /\ MineOK(w) /\ CallOK(w) /\ CopyOK(w) /\ Task(w) \in Requests
  BY <1>0, AtWorkIs
<1>2. PICK t \in Requests : t = Task(w)
  BY <1>1
<1>3. PICK m \in JobType : m = work[w].mine
  BY <1>1, TurnTyped
<1>4. Refused(t, m.rejected) /\ m.rejected < MaxRejections /\ m.rejected \in 0..MaxRejections
  BY <1>0, <1>1, <1>2, <1>3, JobTyped DEF CallOK
<1>5. CASE Owing(w)
  <2>1. PICK j : j = OpenAgain(m.rejected)
    OBVIOUS
  <2>2. j \in JobType /\ j.phase = "accepted" /\ j.lease = "none" /\ j.rejected = m.rejected
    <3>1. 0 \in Days
      BY DEF Days
    <3> QED BY <1>4, <2>1, <3>1, JobsAre
  <2>3. MoveJob(w, j, Behind(work[w]), Behind(work[w]))
    BY <1>3, <1>5, <2>1 DEF PickUp
  <2>4. Timeless(j) /\ Refused(Task(w), j.rejected) /\ j.rejected < MaxRejections
    BY <1>2, <1>4, <2>2 DEF Timeless
  <2> QED BY <1>0, <2>2, <2>3, <2>4, DropGood
<1>6. CASE ~Owing(w)
  <2>1. Do(w, "reserve") /\ UNCHANGED job
    BY <1>6 DEF PickUp
  <2>2. PICK x \in WorkType : /\ work' = [work EXCEPT ![w] = x]
                              /\ x.at = "reserve" /\ x.mine = work[w].mine
                              /\ x.held = work[w].held /\ x.next = work[w].next
                              /\ x.through = work[w].through
    BY <1>1, <2>1, DoIs
  <2>3. work'[w] = x /\ UNCHANGED <<inbox, calls>> /\ x.at \in OnTheJob
    BY <1>0, <1>1, <2>2, TurnIs, QuietIs DEF money, OnTheJob
  <2>4. Task(w)' = t
    BY <1>2, <2>2, <2>3 DEF Task
  <2>5. CallOK(w)'
    BY <1>3, <1>4, <2>2, <2>3, <2>4 DEF CallOK, Refused
  <2>6. Fine(w)
    BY <1>0, <1>2, <2>1, <2>2, <2>3, <2>5, OnJobFine
  <2>7. PenFits(w, t)
    BY <1>0, QuietPen
  <2> QED BY <1>0, <1>2, <2>1, <2>2, <2>6, <2>7, StayGood
<1> QED BY <1>5, <1>6

\* A task over the cap of its day is put off.
LEMMA CapTaskGood == ASSUME IInv, NEW w \in Works, CapTask(w) PROVE IInv'
<1>0. /\ work[w].at = "cap" /\ Idle(w) /\ Quiet /\ UNCHANGED <<result, money, cursor, done, pen>>
         /\ work[w].at # "off"
      /\ work[w].at \in OnTheJob
  BY DEF CapTask, AtWork, Quiet, OnTheJob
<1>1. /\ TypeOK /\ MineOK(w) /\ CallOK(w) /\ Task(w) \in Requests
  BY <1>0, AtWorkIs
<1>2. PICK t \in Requests : t = Task(w)
  BY <1>1
<1>3. PICK m \in JobType : m = work[w].mine
  BY <1>1, TurnTyped
<1>4. Refused(t, m.rejected) /\ m.rejected < MaxRejections /\ m.rejected \in 0..MaxRejections
  BY <1>0, <1>1, <1>2, <1>3, JobTyped DEF CallOK
<1>5. PICK d \in Days : d = work[w].day
  BY <1>1, TurnTyped
<1>6. PICK j : j = Capped(m.rejected, d)
  OBVIOUS
<1>7. j \in JobType /\ j.phase = "capped" /\ j.lease = "none" /\ j.rejected = m.rejected
  BY <1>4, <1>6, JobsAre
<1>8. MoveJob(w, j, Behind(work[w]), Behind(work[w]))
  BY <1>3, <1>5, <1>6 DEF CapTask
<1>9. Timeless(j) /\ Refused(Task(w), j.rejected) /\ j.rejected < MaxRejections
  BY <1>2, <1>4, <1>7 DEF Timeless
<1> QED BY <1>0, <1>7, <1>8, <1>9, DropGood

\* A call whose answer was not kept leaves its claim uncertain.
LEMMA UncertainGood == ASSUME IInv, NEW w \in Works, Uncertain(w) PROVE IInv'
<1>0. /\ work[w].at = "uncertain" /\ Idle(w) /\ Quiet /\ UNCHANGED <<result, money, cursor, done, pen>>
      /\ work[w].at \in OnTheJob
  BY DEF Uncertain, AtWork, Quiet, OnTheJob
<1>1. PICK j : j = Moved("uncertain")
  OBVIOUS
<1>2. j \in JobType /\ j.phase = "uncertain" /\ j.lease = "none"
  <2>1. 0 \in 0..MaxRejections /\ 0 \in Days
    BY MaxRejectionsAssumption DEF Days
  <2> QED BY <1>1, <2>1, JobsAre
<1>3. MoveJob(w, j, Behind(work[w]), Behind(work[w]))
  BY <1>1 DEF Uncertain
<1> QED BY <1>0, <1>2, <1>3, DropGood

-----------------------------------------------------------------------------
(* The worker's steps: the verdict.                                        *)

\* An answer that is in the store ends its task.
LEMMA FinishGood == ASSUME IInv, NEW w \in Works, FinishFromStore(w) PROVE IInv'
<1>0. /\ work[w].at = "finish" /\ Idle(w) /\ Quiet /\ UNCHANGED <<job, result, money, cursor, done>>
         /\ work[w].at # "off"
      /\ Speak(w)
  BY DEF FinishFromStore, AtWork, Quiet
<1>1. /\ TypeOK /\ MineOK(w) /\ CopyOK(w) /\ Task(w) \in Requests /\ JobOK(Task(w))
      /\ Steady => AtStory(w)
  BY <1>0, AtWorkIs
<1>2. PICK t \in Requests : t = Task(w)
  BY <1>1
<1>3. UNCHANGED <<inbox, room, doc, result, calls, spend, bill>>
  BY <1>0, QuietIs DEF money
<1>4. PICK r : r = work[w] /\ r \in WorkType
  BY <1>1, TurnTyped
<1>5. PICK v \in Verdicts : v = Verdict(t)
  <2>1. result[t] \in Verdicts \cup {"none"}
    BY <1>1, CallsTyped
  <2> QED BY <2>1 DEF Verdict, Verdicts
<1>6. PICK x : x = [r EXCEPT !.at = "close", !.got = v]
  OBVIOUS
<1>7. /\ x \in WorkType /\ x.at = "close" /\ x.got = v /\ x.mine = r.mine /\ x.held = r.held
      /\ x.next = r.next /\ x.through = r.through
  BY <1>4, <1>6 DEF WorkType, Outcomes
<1>8. work' = [work EXCEPT ![w] = x]
  BY <1>2, <1>4, <1>5, <1>6 DEF FinishFromStore, Turn
<1>9. work'[w] = x /\ Task(w)' = t
  BY <1>1, <1>2, <1>3, <1>4, <1>7, <1>8, TurnIs DEF Task
<1>10. PenFits(w, t) /\ Coming(w, "claude-api", t, work[w].got)'
  BY <1>0, <1>2, <1>7, <1>9, SpeakIs
<1>11. r.mine.phase = "resulted"
  BY <1>0, <1>1, <1>4 DEF MineOK
<1>12. MineOK(w)'
  BY <1>0, <1>1, <1>3, <1>4, <1>7, <1>9, <1>11 DEF MineOK, OnTheJob
<1>13. CopyOK(w)'
  BY <1>0, <1>1, <1>2, <1>4, <1>7, <1>9 DEF CopyOK
<1>14. v # "UNKNOWN" => Ends(t, v)
  BY <1>1, <1>2, <1>5 DEF JobOK, Verdict
<1>15. CallOK(w)'
  <2>1. v # "UNKNOWN" => Ends(t, v)'
    BY <1>3, <1>14 DEF Ends, Final, Story
  <2> QED BY <1>7, <1>9, <1>10, <2>1 DEF CallOK
<1>16. ASSUME Steady PROVE AtStory(w)'
  <2>1. Shut(t)
    BY <1>0, <1>1, <1>2, <1>4, <1>11, <1>16 DEF AtStory
  <2>2. Leaves(w, t)
    <3>1. \A u \in Works \ {w} : SamePen(u)
      BY <1>10, PenSame
    <3> QED BY <1>0, <1>3, <1>7, <1>8, <3>1, StayLeaves DEF OnTheJob
  <2>3. Shut(t)' /\ Verdict(t)' = Verdict(t)
    BY <1>1, <1>2, <2>1, <2>2, ShutKept
  <2> QED BY <1>5, <1>7, <1>9, <2>3 DEF AtStory, Shut, Verdict, Nobody, OnJob, OnTheJob
<1>17. Fine(w)
  BY <1>12, <1>13, <1>15, <1>16 DEF Fine
<1>18. x.at \notin OnTheJob /\ x.at \notin {"call", "settle"}
  BY <1>7 DEF OnTheJob
<1> QED BY <1>0, <1>2, <1>4, <1>7, <1>8, <1>10, <1>17, <1>18, StayGood

\* The claim says there is an answer once it is kept.
LEMMA ResultedGood == ASSUME IInv, NEW w \in Works, Resulted(w) PROVE IInv'
<1>0. /\ work[w].at = "result" /\ Idle(w) /\ Quiet /\ UNCHANGED <<result, money, cursor, done>>
         /\ work[w].at # "off"
      /\ Speak(w) /\ work[w].at \in OnTheJob
  BY DEF Resulted, AtWork, Quiet, OnTheJob
<1>1. /\ TypeOK /\ MineOK(w) /\ CallOK(w) /\ CopyOK(w) /\ Task(w) \in Requests /\ JobOK(Task(w))
  BY <1>0, AtWorkIs
<1>2. PICK t \in Requests : t = Task(w)
  BY <1>1
<1>3. UNCHANGED <<inbox, room, doc, result, calls, spend, bill>>
  BY <1>0, QuietIs DEF money
<1>4. PICK y : y = Behind(work[w])
  OBVIOUS
<1>5. y \in WorkType
  BY <1>0, <1>1, <1>4, BehindIs
<1>6. PICK v \in Verdicts : v = work[w].got
  BY <1>0, <1>1 DEF MineOK
<1>7. result[t] # "none" /\ Ends(t, v) /\ Ends(t, result[t])
  BY <1>0, <1>1, <1>2, <1>6 DEF CallOK, JobOK
<1>8. result[t] = v
  BY <1>7 DEF Ends
<1>9. PICK j : j = Moved("resulted")
  OBVIOUS
<1>10. j \in JobType /\ j.phase = "resulted" /\ j.lease = "none"
  <2>1. 0 \in 0..MaxRejections /\ 0 \in Days
    BY MaxRejectionsAssumption DEF Days
  <2> QED BY <1>9, <2>1, JobsAre
<1>11. PICK x : x = Going(w, j, "close")
  OBVIOUS
<1>12. /\ x \in WorkType /\ x.at = "close" /\ x.mine = j /\ x.held /\ x.next = work[w].next
       /\ x.through = work[w].through /\ x.got = v
  BY <1>1, <1>6, <1>10, <1>11, GoingIs
<1>13. MoveJob(w, j, x, y)
  BY <1>4, <1>9, <1>11 DEF Resulted
<1>14. /\ job' \in [Requests -> JobType] /\ work' \in [Works -> WorkType]
       /\ \/ ~Holds(w) /\ job' = job /\ work' = [work EXCEPT ![w] = y]
          \/ /\ Holds(w) /\ job' = [job EXCEPT ![t] = j] /\ job'[t] = j /\ work'[w] = x
             /\ Moves(w, t) => \A u \in Works \ {w} : Yields(u, w, t)
  BY <1>2, <1>5, <1>10, <1>12, <1>13, MoveJobIs
<1>15. CASE ~Holds(w)
  BY <1>0, <1>4, <1>14, <1>15, SpeakConsidered
<1>16. CASE Holds(w)
  <2>1. job' = [job EXCEPT ![t] = j] /\ job'[t] = j /\ work'[w] = x
    BY <1>14, <1>16
  <2>2. Moves(w, t)
    BY <1>7, <1>10, <2>1 DEF Moves, IsOpen, Timeless
  <2>3. \A u \in Works \ {w} : Yields(u, w, t)
    BY <1>14, <1>16, <2>2
  <2>4. x.at \notin OnTheJob /\ x.at \notin {"call", "settle"}
    BY <1>12 DEF OnTheJob
  <2>5. PenFits(w, t) /\ Coming(w, "claude-api", t, work[w].got)'
    BY <1>0, <1>2, <1>12, <2>1, SpeakIs
  <2>6. Task(w)' = t
    BY <1>2, <1>3, <1>12, <2>1 DEF Task
  <2>7. Ends(t, v)' /\ Ends(t, result[t])'
    BY <1>3, <1>7 DEF Ends, Final, Story
  <2>8. Shut(t)' /\ Verdict(t)' = v
    BY <1>3, <1>7, <1>8, <1>10, <2>1 DEF Shut, IsOpen, Timeless, Verdict
  <2>9. JobOK(t)'
    BY <1>1, <1>2, <1>3, <1>10, <2>1, <2>7 DEF JobOK, IsOpen, Timeless
  <2>10. FineJob(t)
    BY <2>8, <2>9 DEF FineJob, StoryOK
  <2>11. MineOK(w)'
    BY <1>0, <1>1, <1>3, <1>10, <1>12, <2>1, <2>4 DEF MineOK
  <2>12. CopyOK(w)'
    BY <1>12, <2>1, <2>6 DEF CopyOK
  <2>13. CallOK(w)'
    BY <1>12, <2>1, <2>5, <2>6, <2>7 DEF CallOK
  <2>14. AtStory(w)'
    BY <1>12, <2>1, <2>4, <2>6, <2>8 DEF AtStory, Shut, Verdict, Nobody, OnJob
  <2>15. Fine(w)
    BY <2>11, <2>12, <2>13, <2>14 DEF Fine
  <2>16. job' = [job EXCEPT ![t] = job'[t]]
    BY <2>1
  <2> QED BY <1>0, <1>2, <1>12, <1>14, <2>1, <2>2, <2>3, <2>4, <2>5, <2>10, <2>15, <2>16, MovedGood
<1> QED BY <1>15, <1>16

\* A refused call leaves its claim open for another try, or was the last.
LEMMA ReopenGood == ASSUME IInv, NEW w \in Works, Reopen(w) PROVE IInv'
<1>0. /\ work[w].at = "reopen" /\ Idle(w) /\ Quiet /\ UNCHANGED <<result, money, cursor, done, pen>>
         /\ work[w].at # "off"
      /\ work[w].at \in OnTheJob
  BY DEF Reopen, AtWork, Quiet, OnTheJob
<1>1. /\ TypeOK /\ MineOK(w) /\ CallOK(w) /\ Task(w) \in Requests
  BY <1>0, AtWorkIs
<1>2. PICK t \in Requests : t = Task(w)
  BY <1>1
<1>3. PICK m \in JobType : m = work[w].mine
  BY <1>1, TurnTyped
<1>4. PICK n : n = m.rejected + 1
  OBVIOUS
<1>5. Refused(t, n) /\ m.rejected < MaxRejections /\ m.rejected \in 0..MaxRejections /\ m.rejected \in Nat
  BY <1>0, <1>1, <1>2, <1>3, <1>4, JobTyped DEF CallOK, MineOK
<1>6. n \in 1..MaxRejections /\ n \in 0..MaxRejections /\ n \in Nat /\ MaxRejections \in Nat
  BY <1>4, <1>5, MaxRejectionsAssumption
<1>7. CASE n < MaxRejections
  <2>1. PICK j : j = OpenAgain(n)
    OBVIOUS
  <2>2. j \in JobType /\ j.phase = "accepted" /\ j.lease = "none" /\ j.rejected = n
    <3>1. 0 \in Days
      BY DEF Days
    <3> QED BY <1>6, <2>1, <3>1, JobsAre
  <2>3. MoveJob(w, j, Behind(work[w]), Behind(work[w]))
    BY <1>3, <1>4, <1>7, <2>1 DEF Reopen
  <2>4. Timeless(j) /\ Refused(Task(w), j.rejected) /\ j.rejected < MaxRejections
    BY <1>2, <1>5, <1>7, <2>2 DEF Timeless
  <2> QED BY <1>0, <2>2, <2>3, <2>4, DropGood
<1>8. CASE ~(n < MaxRejections)
  <2>1. PICK r : r = work[w] /\ r \in WorkType
    BY <1>1, TurnTyped
  <2>2. PICK x : x = [r EXCEPT !.at = "keep", !.got = "FAILED"]
    OBVIOUS
  <2>3. /\ x \in WorkType /\ x.at = "keep" /\ x.got = "FAILED" /\ x.mine = r.mine /\ x.held = r.held
        /\ x.next = r.next /\ x.through = r.through
    BY <2>1, <2>2 DEF WorkType, Outcomes, Verdicts
  <2>4. work' = [work EXCEPT ![w] = x] /\ UNCHANGED job
    BY <1>3, <1>4, <1>8, <2>1, <2>2 DEF Reopen, Turn
  <2>5. work'[w] = x /\ UNCHANGED <<inbox, calls>> /\ x.at \in OnTheJob
    BY <1>0, <1>1, <2>3, <2>4, TurnIs, QuietIs DEF money, OnTheJob
  <2>6. Task(w)' = t
    BY <1>2, <2>1, <2>3, <2>5 DEF Task
  <2>7. Ends(t, "FAILED")
    <3>1. n = MaxRejections
      BY <1>6, <1>8
    <3>2. Len(calls[t]) = n /\ calls[t] # <<>> /\ n \in DOMAIN calls[t]
      BY <1>1, <1>5, <1>6, CallsTyped DEF Refused
    <3> QED BY <1>5, <3>1, <3>2 DEF Ends, Final, Story, Refused
  <2>8. Ends(t, "FAILED")'
    BY <2>5, <2>7 DEF Ends, Final, Story
  <2>9. CallOK(w)'
    BY <2>3, <2>5, <2>6, <2>8 DEF CallOK
  <2>10. Fine(w)
    BY <1>0, <1>2, <2>1, <2>3, <2>4, <2>5, <2>9, OnJobFine DEF Verdicts
  <2>11. PenFits(w, t)
    BY <1>0, QuietPen
  <2> QED BY <1>0, <1>2, <2>1, <2>3, <2>4, <2>10, <2>11, StayGood
<1> QED BY <1>7, <1>8

-----------------------------------------------------------------------------
(* The worker's steps: the task is closed, and its answer kept.            *)

\* A task is closed once its verdict is on the page.
LEMMA CloseGood == ASSUME IInv, NEW w \in Works, Close(w) PROVE IInv'
<1>0. /\ work[w].at = "close" /\ Idle(w) /\ Quiet /\ UNCHANGED <<result, money, cursor, done, pen>>
         /\ work[w].at # "off"
      /\ work[w].at # "mark"
  BY DEF Close, AtWork, Quiet
<1>1. /\ TypeOK /\ MineOK(w) /\ CallOK(w) /\ CopyOK(w) /\ Task(w) \in Requests /\ JobOK(Task(w))
      /\ InRange(work[w]) /\ (Steady => AtStory(w))
  BY <1>0, AtWorkIs
<1>2. PICK t \in Requests : t = Task(w)
  BY <1>1
<1>3. UNCHANGED <<inbox, room, doc, result, calls, spend, bill>>
  BY <1>0, QuietIs DEF money
<1>4. CASE Unread(w)
  <2>1. done' \subseteq Requests /\ Considered(w) /\ UNCHANGED job
    BY <1>0, <1>1, <1>4, WorkTyped DEF Close
  <2> QED BY <1>0, <2>1, ConsideredGood
<1>5. CASE ~Unread(w)
  <2>1. PICK r : r = work[w] /\ r \in WorkType
    BY <1>1, TurnTyped
  <2>2. PICK x : x = [r EXCEPT !.at = "mark"]
    OBVIOUS
  <2>3. x \in WorkType /\ x.at = "mark" /\ x.mine = r.mine /\ x.held = r.held /\ x.next = r.next
           /\ x.through = r.through
    BY <2>1, <2>2 DEF WorkType
  <2>4. PICK j : j = Moved("done")
    OBVIOUS
  <2>5. j \in JobType /\ j.phase = "done" /\ j.lease = "none"
    <3>1. 0 \in 0..MaxRejections /\ 0 \in Days
      BY MaxRejectionsAssumption DEF Days
    <3> QED BY <2>4, <3>1, JobsAre
  <2>6. MoveJob(w, j, x, x)
    BY <1>5, <2>1, <2>2, <2>4 DEF Close
  <2>7. /\ job' \in [Requests -> JobType] /\ work' \in [Works -> WorkType]
        /\ \/ ~Holds(w) /\ job' = job /\ work' = [work EXCEPT ![w] = x]
           \/ /\ Holds(w) /\ job' = [job EXCEPT ![t] = j] /\ job'[t] = j /\ work'[w] = x
              /\ Moves(w, t) => \A u \in Works \ {w} : Yields(u, w, t)
    BY <1>2, <2>3, <2>5, <2>6, MoveJobIs
  <2>8. InRange(x)
    BY <1>0, <1>1, <2>1, <2>3 DEF InRange
  <2>9. PenFits(w, t)
    BY <1>0, QuietPen
  <2>10. CASE ~Holds(w)
    <3>1. done' \subseteq Requests
      BY <1>0, <1>1, WorkTyped
    <3>2. CursorOK' /\ cursor' \in [after : Nat, through : Nat]
      BY <1>0, <1>3, CursorStill
    <3> QED BY <1>0, <2>3, <2>7, <2>8, <2>9, <2>10, <3>1, <3>2, RestTurn
  <2>11. CASE Holds(w)
    <3>1. job' = [job EXCEPT ![t] = j] /\ job'[t] = j /\ work'[w] = x
      BY <2>7, <2>11
    <3>2. PICK m \in JobType : m = r.mine
      BY <2>1 DEF WorkType
    <3>3. job[t] = m \/ job[t] = [m EXCEPT !.lease = "dead"]
      BY <1>0, <1>1, <1>2, <2>1, <2>11, <3>2, HoldsIs
    <3>4. m.phase = "resulted" \/ (m.phase = "accepted" /\ m.lease = "dead")
      BY <1>0, <1>1, <2>1, <3>2 DEF MineOK
    <3>5. job[t].phase # "accepted" \/ job[t].lease # "live"
      BY <3>2, <3>3, <3>4 DEF JobType
    <3>6. Moves(w, t)
      BY <2>5, <3>1, <3>5 DEF Moves, IsOpen, Timeless
    <3>7. \A u \in Works \ {w} : Yields(u, w, t)
      BY <2>7, <2>11, <3>6
    <3>8. Fine(w)
      BY <1>3, <2>3, <2>8, <3>1, RestFine
    <3>9. Answered(t)'
      <4>1. PICK v \in Verdicts : v = work[w].got
        BY <1>0, <1>1 DEF MineOK
      <4>2. Coming(w, "claude-api", t, v) /\ pen[w].todo = <<>>
        BY <1>0, <1>1, <1>2, <1>5, <4>1 DEF CallOK, Unread, Owing, Idle
      <4>3. DOMAIN pen[w].todo = {}
        BY <4>2
      <4>4. InTrail("claude-api", t, v)
        BY <4>2, <4>3 DEF Coming
      <4> QED BY <1>3, <4>4 DEF Answered, InTrail, Trail
    <3>10. JobOK(t)'
      <4>1. Ends(t, result[t])' <=> Ends(t, result[t])
        BY <1>3 DEF Ends, Final, Story
      <4> QED BY <1>1, <1>2, <1>3, <2>5, <3>1, <3>9, <4>1 DEF JobOK, IsOpen, Timeless
    <3>11. ASSUME Steady PROVE Shut(t)'
      <4>1. Shut(t)
        BY <1>0, <1>1, <1>2, <3>11 DEF AtStory
      <4>2. ASSUME Nobody(t) PROVE Nobody(t)'
        <5>1. ASSUME NEW u \in Works \ {w}, OnJob(u, t)' PROVE FALSE
          <6>1. Yields(u, w, t) /\ work[u] \in WorkType
            BY <1>1, <3>7, TurnTyped
          <6>2. work'[u].at = work[u].at /\ work'[u].next = work[u].next
            BY <6>1 DEF Yields, WorkType
          <6>3. OnJob(u, t)
            BY <1>3, <5>1, <6>2 DEF OnJob, Task
          <6> QED BY <4>2, <6>3 DEF Nobody
        <5>2. ~OnJob(w, t)'
          BY <2>3, <3>1 DEF OnJob, OnTheJob
        <5> QED BY <5>1, <5>2 DEF Nobody
      <4> QED BY <1>3, <2>5, <3>1, <4>1, <4>2 DEF Shut, IsOpen, Timeless
    <3>12. FineJob(t)
      BY <3>10, <3>11 DEF FineJob, StoryOK
    <3>13. job' = [job EXCEPT ![t] = job'[t]]
      BY <3>1
    <3>14. x.at \notin OnTheJob /\ x.at \notin {"call", "settle", "leave", "close"}
      BY <2>3 DEF OnTheJob
    <3> QED BY <1>0, <1>2, <2>3, <2>7, <2>9, <3>1, <3>6, <3>7, <3>8, <3>12, <3>13, <3>14, MovedGood
  <2> QED BY <2>10, <2>11
<1> QED BY <1>4, <1>5

\* The answer is kept, or not, and the pass stays on the job.
LEMMA KeptGood ==
    ASSUME IInv, NEW w \in Works, work[w].at = "keep", Idle(w), Quiet,
          UNCHANGED <<job, money, cursor, done, pen>>,
           NEW step \in {"result", "uncertain"}, Do(w, step), Kept(w)
                 \/ (UNCHANGED result /\ step = "uncertain")
    PROVE  IInv'
<1>0. work[w].at # "off" /\ work[w].at \in OnTheJob
  BY DEF OnTheJob
<1>1. /\ TypeOK /\ MineOK(w) /\ CallOK(w) /\ Task(w) \in Requests /\ JobOK(Task(w)) /\ OneOnTheJob
  BY <1>0, AtWorkIs, WorkParts
<1>2. PICK t \in Requests : t = Task(w)
  BY <1>1
<1>3. UNCHANGED <<inbox, room, doc, calls, spend, bill, job>>
  BY QuietIs DEF money
<1>4. PICK v \in Verdicts : v = work[w].got
  BY <1>0, <1>1 DEF MineOK
<1>5. Ends(t, v) /\ v # "none"
  BY <1>1, <1>2, <1>4 DEF CallOK, Verdicts
<1>6. PICK x \in WorkType : /\ work' = [work EXCEPT ![w] = x]
                            /\ x.at = step /\ x.mine = work[w].mine
                            /\ x.held = work[w].held /\ x.next = work[w].next
                            /\ x.through = work[w].through /\ x.got = work[w].got
  BY <1>1, DoIs
<1>7. x.at \in OnTheJob
         /\ x.at \notin {"call", "settle", "close", "leave", "reopen", "accepted", "reserve", "cap", "claim"} /\ OnJob(w, t)
  BY <1>0, <1>2, <1>6 DEF OnTheJob, OnJob
<1>8. /\ result' \in [Requests -> Verdicts \cup {"none"}] /\ result'[t] \in {v, result[t]}
      /\ (step = "result" => result'[t] = v) /\ \A u \in Requests \ {t} : result'[u] = result[u]
  <2>1. result \in [Requests -> Verdicts \cup {"none"}]
    BY <1>1, WorkTyped
  <2>2. result' = [result EXCEPT ![t] = v] \/ (result' = result /\ step = "uncertain")
    BY <1>2, <1>4 DEF Kept
  <2> QED BY <2>1, <2>2
<1>9. Leaves(w, t) /\ work' \in [Works -> WorkType] /\ work'[w] = x
  <2>1. \A u \in Works \ {w} : SamePen(u)
    BY DEF SamePen
  <2>2. result'[t] = result[t] \/ (OnJob(w, t) /\ Ends(t, result'[t]) /\ result'[t] # "none")
    BY <1>5, <1>7, <1>8
  <2>3. \A u \in Requests \ {t} : result'[u] = result[u] /\ calls'[u] = calls[u]
    BY <1>3, <1>8
  <2> QED BY <1>2, <1>3, <1>6, <1>7, <2>1, <2>2, <2>3, StayLeaves
<1>10. Task(w)' = t
  BY <1>2, <1>3, <1>6, <1>9 DEF Task
<1>11. Ends(t, v)'
  BY <1>3, <1>5 DEF Ends, Final, Story
<1>12. CallOK(w)'
  BY <1>4, <1>5, <1>6, <1>7, <1>8, <1>9, <1>10, <1>11 DEF CallOK
<1>13. result'[t] = "none" => result[t] = "none"
  BY <1>5, <1>8
<1>14. Fine(w)
  BY <1>0, <1>2, <1>3, <1>4, <1>6, <1>7, <1>9, <1>12, <1>13, OnJobFine
<1>15. job[t].phase # "none" /\ ~IsOpen(job[t])
  BY <1>1, <1>2, <1>7 DEF JobOK, Nobody, IsOpen
<1>16. JobOK(t)'
  <2>1. result'[t] # "none" => Ends(t, result[t])'
    <3>1. result'[t] # "none" => Ends(t, result'[t])
      BY <1>1, <1>2, <1>5, <1>8 DEF JobOK
    <3> QED BY <1>3, <3>1 DEF Ends, Final, Story
  <2>2. Answered(t)' <=> Answered(t)
    BY <1>3 DEF Answered, InTrail, Trail
  <2> QED BY <1>1, <1>2, <1>3, <1>15, <2>1, <2>2 DEF JobOK, IsOpen, Timeless
<1>17. ASSUME Steady PROVE StoryOK(t)'
  <2>1. StoryOK(t)
    BY <1>17, WorkParts
  <2>2. Shut(t) => Shut(t)'
    BY <1>1, <1>2, <1>9, ShutKept
  <2>3. result'[t] # "none" => Shut(t)'
    BY <1>3, <1>15 DEF Shut, IsOpen, Timeless
  <2> QED BY <1>3, <2>1, <2>2, <2>3 DEF StoryOK
<1>18. FineJob(t)
  BY <1>16, <1>17 DEF FineJob
<1>19. PenFits(w, t)
  BY QuietPen
<1>20. CursorOK' /\ cursor' \in [after : Nat, through : Nat]
  BY <1>3, CursorStill
<1>21. Typed
  BY <1>1, <1>3, <1>8, <1>9, <1>20, WorkTyped DEF Typed
<1>22. MoneyIInv'
  BY <1>3, <1>6, <1>7, <1>9, MoneyStill
<1> QED BY <1>6, <1>7, <1>9, <1>14, <1>18, <1>19, <1>20, <1>21, <1>22, FullStep

\* The answer is kept, by the pass that has the job.
LEMMA KeepGood == ASSUME IInv, NEW w \in Works, Keep(w) PROVE IInv'
<1>1. /\ work[w].at = "keep" /\ Idle(w) /\ Quiet /\ UNCHANGED <<job, money, cursor, done, pen>>
      /\ Kept(w) /\ Do(w, "result")
  BY DEF Keep, AtWork, Quiet
<1> QED BY <1>1, KeptGood

\* An answer that may not have been kept is uncertain.
LEMMA KeepFailsGood ==
    ASSUME IInv, NEW w \in Works, KeepFails(w), Use("fault"), UNCHANGED <<intakeRest, overdue>> PROVE IInv'
<1>1. work[w].at = "keep" /\ Idle(w) /\ Quiet /\ UNCHANGED <<job, money, cursor, done, pen>>
  BY DEF KeepFails, AtWork, Quiet
<1>2. CASE UNCHANGED result /\ Do(w, "uncertain")
  BY <1>1, <1>2, KeptGood
<1>3. CASE Kept(w) /\ Do(w, "uncertain")
  BY <1>1, <1>3, KeptGood
<1>4. CASE Kept(w) /\ Do(w, "result")
  BY <1>1, <1>4, KeptGood
<1> QED BY <1>2, <1>3, <1>4 DEF KeepFails

-----------------------------------------------------------------------------
(* The money moves.                                                        *)

\* How a count goes with its set.
LEMMA CardChange ==
    ASSUME NEW A, IsFiniteSet(A), NEW B, NEW e
    PROVE  /\ Cardinality(A) \in Nat
           /\ B \subseteq A => Cardinality(B) \in Nat /\ Cardinality(B) <= Cardinality(A)
           /\ B \subseteq A \cup {e} => Cardinality(B) \in Nat /\ Cardinality(B) <= Cardinality(A) + 1
           /\ e \in A /\ B \subseteq A \ {e} => Cardinality(B) \in Nat /\ Cardinality(B) <= Cardinality(A) - 1
<1>1. PICK n \in Nat : n = Cardinality(A)
  BY FS_CardinalityType
<1>2. B \subseteq A => Cardinality(B) \in Nat /\ Cardinality(B) <= n
  BY <1>1, FS_Subset, FS_CardinalityType
<1>3. ASSUME B \subseteq A \cup {e} PROVE Cardinality(B) \in Nat /\ Cardinality(B) <= n + 1
  <2>1. IsFiniteSet(A \cup {e}) /\ Cardinality(A \cup {e}) = IF e \in A THEN n ELSE n + 1
    BY <1>1, FS_AddElement
  <2>2. IsFiniteSet(B) /\ Cardinality(B) <= Cardinality(A \cup {e})
    BY <1>3, <2>1, FS_Subset
  <2>3. PICK k \in Nat : k = Cardinality(B)
    BY <2>2, FS_CardinalityType
  <2> QED BY <2>1, <2>2, <2>3
<1>4. ASSUME e \in A, B \subseteq A \ {e} PROVE Cardinality(B) \in Nat /\ Cardinality(B) <= n - 1
  <2>1. IsFiniteSet(A \ {e}) /\ Cardinality(A \ {e}) = n - 1
    BY <1>1, <1>4, FS_RemoveElement
  <2>2. IsFiniteSet(B) /\ Cardinality(B) <= Cardinality(A \ {e})
    BY <1>4, <2>1, FS_Subset
  <2>3. PICK k \in Nat : k = Cardinality(B)
    BY <2>2, FS_CardinalityType
  <2> QED BY <2>1, <2>2, <2>3
<1> QED BY <1>1, <1>2, <1>3, <1>4

\* So much for one more, or one less.
LEMMA Scaled ==
    ASSUME NEW r \in Nat, NEW m \in Nat, NEW n \in Nat
    PROVE  /\ r * m \in Nat /\ r * n \in Nat
           /\ m <= n => r * m <= r * n
           /\ m <= n + 1 => r * m <= r * n + r
           /\ m <= n - 1 => r * m <= r * n - r
<1>1. r * m \in Nat /\ r * n \in Nat
  OBVIOUS
<1>2. m <= n => r * m <= r * n
  BY TimesLeq
<1>3. ASSUME m <= n + 1 PROVE r * m <= r * n + r
  <2>1. PICK k \in Nat : k = n + 1
    OBVIOUS
  <2>2. r * m <= r * k
    BY <1>3, <2>1, TimesLeq
  <2>3. r * k = r * n + r
    BY <2>1
  <2> QED BY <1>1, <2>2, <2>3
<1>4. ASSUME m <= n - 1 PROVE r * m <= r * n - r
  <2>1. PICK k \in Nat : k = n - 1
    BY <1>4
  <2>2. r * m <= r * k
    BY <1>4, <2>1, TimesLeq
  <2>3. r * n = r * k + r
    <3>1. n = k + 1
      BY <2>1
    <3> QED BY <3>1
  <2>4. r * k \in Nat
    OBVIOUS
  <2> QED BY <1>1, <2>2, <2>3, <2>4
<1> QED BY <1>1, <1>2, <1>3, <1>4

\* How the holders of reservations of d change, and what the ledger is to follow by.
AsMany(A, B) == B \subseteq A
OneMore(A, B, w) == B \subseteq A \cup {w}
OneLess(A, B, w) == w \in A /\ B \subseteq A \ {w}
\* The ledger keeps up with the calls: each way a step may move both.
LEMMA MoneyStep ==
    ASSUME TypeOK, room' = room, NEW d \in Days, MoneyOK(d), NEW w,
           NEW s \in Nat, s = spend'[d], NEW g \in Nat, g = bill'[d], s <= room.cap,
           NEW A, A = Reserving(d)', NEW B, B = Returning(d)',
           \/ AsMany(Reserving(d), A) /\ AsMany(Returning(d), B) /\ g = bill[d] /\ s >= spend[d]
           \/ OneMore(Reserving(d), A, w) /\ AsMany(Returning(d), B) /\ g = bill[d]
                 /\ s = spend[d] + Reservation
           \/ OneLess(Reserving(d), A, w) /\ AsMany(Returning(d), B) /\ g = bill[d] + Reservation
                 /\ s = spend[d]
           \/ OneLess(Reserving(d), A, w) /\ OneMore(Returning(d), B, w) /\ g = bill[d] + Cost /\ s = spend[d]
           \/ OneLess(Reserving(d), A, w) /\ AsMany(Returning(d), B) /\ g = bill[d]
                 /\ s = spend[d] - Reservation
           \/ AsMany(Reserving(d), A) /\ OneLess(Returning(d), B, w) /\ g = bill[d]
                 /\ s = spend[d] - (Reservation - Cost)
    PROVE  MoneyOK(d)'
<1>1. PICK m \in Nat : m = Cardinality(A)
  BY MoneySets, CardChange DEF AsMany, OneMore, OneLess
<1>2. PICK n \in Nat : n = Cardinality(Reserving(d))
  BY MoneySets
<1>3. PICK k \in Nat : k = Cardinality(B)
  BY MoneySets, CardChange DEF AsMany, OneMore, OneLess
<1>4. PICK l \in Nat : l = Cardinality(Returning(d))
  BY MoneySets
<1>5. /\ AsMany(Reserving(d), A) => m <= n
      /\ OneMore(Reserving(d), A, w) => m <= n + 1
      /\ OneLess(Reserving(d), A, w) => m <= n - 1
  BY <1>1, <1>2, MoneySets, CardChange DEF AsMany, OneMore, OneLess
<1>6. /\ AsMany(Returning(d), B) => k <= l
      /\ OneMore(Returning(d), B, w) => k <= l + 1
      /\ OneLess(Returning(d), B, w) => k <= l - 1
  BY <1>3, <1>4, MoneySets, CardChange DEF AsMany, OneMore, OneLess
<1>7. PICK r \in Nat : r = Reservation
  BY PriceAssumption
<1>8. PICK c \in Nat : c = Reservation - Cost
  BY PriceAssumption
<1>9. PICK p \in Nat : p = r * m
  BY Scaled
<1>10. PICK q \in Nat : /\ q = r * n /\ (m <= n => p <= q) /\ (m <= n + 1 => p <= q + r)
                        /\ (m <= n - 1 => p <= q - r)
  BY <1>9, Scaled
<1>11. PICK e \in Nat : e = c * k
  BY Scaled
<1>12. PICK f \in Nat : /\ f = c * l /\ (k <= l => e <= f) /\ (k <= l + 1 => e <= f + c)
                        /\ (k <= l - 1 => e <= f - c)
  BY <1>11, Scaled
<1>13. PICK s0 \in Nat : s0 = spend[d]
  BY WorkTyped
<1>14. PICK g0 \in Nat : g0 = bill[d]
  BY WorkTyped
<1>15. g0 + q + f <= s0
  BY <1>2, <1>4, <1>7, <1>8, <1>10, <1>12, <1>13, <1>14 DEF MoneyOK
<1>16. PICK h \in Nat : h = Cost /\ c = r - h
  BY <1>7, <1>8, PriceAssumption
<1>17. \/ p <= q /\ e <= f /\ g = g0 /\ s >= s0
       \/ p <= q + r /\ e <= f /\ g = g0 /\ s = s0 + r
       \/ p <= q - r /\ e <= f /\ g = g0 + r /\ s = s0
       \/ p <= q - r /\ e <= f + c /\ g = g0 + h /\ s = s0
       \/ p <= q - r /\ e <= f /\ g = g0 /\ s = s0 - r
       \/ p <= q /\ e <= f - c /\ g = g0 /\ s = s0 - c
  BY <1>5, <1>6, <1>7, <1>8, <1>10, <1>12, <1>13, <1>14, <1>16
<1>18. g + p + e <= s
  BY <1>15, <1>16, <1>17
<1> QED BY <1>1, <1>3, <1>7, <1>8, <1>9, <1>11, <1>18 DEF MoneyOK

\* A reservation that is out is on the ledger.
LEMMA OnLedger ==
    ASSUME TypeOK, NEW d \in Days, MoneyOK(d), NEW w
    PROVE  /\ w \in Reserving(d) => Reservation <= spend[d]
           /\ w \in Returning(d) => Reservation - Cost <= spend[d]
<1>1. PICK n \in Nat : n = Cardinality(Reserving(d))
  BY MoneySets
<1>2. PICK l \in Nat : l = Cardinality(Returning(d))
  BY MoneySets
<1>3. PICK r \in Nat : r = Reservation
  BY PriceAssumption
<1>4. PICK c \in Nat : c = Reservation - Cost
  BY PriceAssumption
<1>5. (w \in Reserving(d) => n >= 1) /\ (w \in Returning(d) => l >= 1)
  <2>1. ASSUME NEW S, IsFiniteSet(S), w \in S PROVE Cardinality(S) >= 1
    <3>1. PICK i \in Nat : i = Cardinality(S)
      BY <2>1, FS_CardinalityType
    <3>2. i # 0
      BY <2>1, <3>1, FS_EmptySet
    <3> QED BY <3>1, <3>2
  <2> QED BY <1>1, <1>2, <2>1, MoneySets
<1>6. PICK q \in Nat : q = r * n /\ (n >= 1 => q >= r)
  <2>1. r * 1 = r
    OBVIOUS
  <2> QED BY <2>1, TimesLeq
<1>7. PICK f \in Nat : f = c * l /\ (l >= 1 => f >= c)
  <2>1. c * 1 = c
    OBVIOUS
  <2> QED BY <2>1, TimesLeq
<1>8. PICK s \in Nat : s = spend[d]
  BY WorkTyped
<1>9. PICK g \in Nat : g = bill[d]
  BY WorkTyped
<1>10. g + q + f <= s
  BY <1>1, <1>2, <1>3, <1>4, <1>6, <1>7, <1>8, <1>9 DEF MoneyOK
<1>11. (n >= 1 => r <= s) /\ (l >= 1 => c <= s)
  BY <1>6, <1>7, <1>9, <1>10
<1> QED BY <1>3, <1>4, <1>5, <1>8, <1>11

-----------------------------------------------------------------------------
(* The worker's steps: the reservation, and the call.                      *)

\* The day is one of the days.
LEMMA DayIs == ASSUME TypeOK, BudgetOK PROVE day \in Days
<1>1. room \in RoomType /\ room \in Rooms /\ budget \in [Bounds -> Nat] /\ "day" \in Bounds
  BY RoomsAssumption DEF TypeOK, IntakeTypeOK, Bounds
<1>2. PICK b \in Days : b = room.budget["day"]
  BY <1>1, DaysAssumption
<1>3. PICK a \in Nat : a = budget["day"] /\ a <= b
  BY <1>1, <1>2 DEF BudgetOK
<1>4. day = b - a
  BY <1>2, <1>3 DEF BudgetOK, Used
<1> QED BY <1>2, <1>3, <1>4 DEF Days

\* A pass on the job stays there; it may make its call.
LEMMA OnJobGood ==
    ASSUME IInv, NEW w \in Works, work[w].at \in OnTheJob, Idle(w), NEW t \in Requests, t = Task(w), Quiet,
           UNCHANGED <<job, result, cursor, done>>, calls' \in [Requests -> Seq(Outcomes)],
           \A u \in Requests \ {t} : calls'[u] = calls[u], calls'[t] = calls[t] \/ (~Final(t) /\ JobOK(t)'),
           spend' \in [Days -> Nat], bill' \in [Days -> Nat],
           NEW x \in WorkType, work' = [work EXCEPT ![w] = x], x.at \in OnTheJob, x.mine = work[w].mine,
           x.held = work[w].held, x.next = work[w].next, x.through = work[w].through,
           x.at \in {"keep", "uncertain", "result"} => x.got \in Verdicts,
           x.at = "settle" => x.got \in {"SUCCEEDED", "refused"}, x.at = "reopen" => x.got = "refused",
           CallOK(w)', PenFits(w, t), MoneyIInv'
    PROVE  IInv'
<1>1. TypeOK /\ OnJob(w, t) /\ UNCHANGED <<inbox, room, doc>> /\ JobOK(t)
  BY WorkParts, QuietIs DEF OnJob
<1>2. \A v \in Works \ {w} : SamePen(v)
  BY PenSame
<1>3. Leaves(w, t) /\ work' \in [Works -> WorkType] /\ work'[w] = x
  BY <1>1, <1>2, StayLeaves
<1>4. Fine(w)
  BY <1>1, <1>3, OnJobFine
<1>5. FineJob(t)
  <2>1. CASE calls'[t] = calls[t]
    BY <1>1, <1>3, <2>1, JobStill
  <2>2. CASE JobOK(t)'
    <3>1. ASSUME Steady PROVE StoryOK(t)'
      <4>1. StoryOK(t)
        BY <3>1, WorkParts
      <4>2. Shut(t) => Shut(t)'
        BY <1>1, <1>3, ShutKept
      <4> QED BY <4>1, <4>2 DEF StoryOK
    <3> QED BY <2>2, <3>1 DEF FineJob
  <2> QED BY <2>1, <2>2
<1>6. CursorOK' /\ cursor' \in [after : Nat, through : Nat]
  BY <1>1, CursorStill
<1>7. Typed
  BY <1>1, <1>3, <1>6, WorkTyped DEF Typed
<1>8. work'[w].at \notin {"leave", "close"}
  BY <1>3 DEF OnTheJob
<1> QED BY <1>3, <1>4, <1>5, <1>6, <1>7, <1>8, FullStep

\* Who holds a reservation.
LEMMA HoldersAre ==
    ASSUME TypeOK, NEW w \in Works, NEW x \in WorkType, work' = [work EXCEPT ![w] = x], NEW d
    PROVE  /\ Reserving(d)' = (Reserving(d) \ {w}) \cup
                 (IF x.day = d /\ (x.at = "call" \/ (x.at = "settle" /\ x.got = "refused")) THEN {w} ELSE {})
           /\ Returning(d)' = (Returning(d) \ {w}) \cup
                 (IF x.day = d /\ x.at = "settle" /\ x.got = "SUCCEEDED" THEN {w} ELSE {})
<1>1. work'[w] = x /\ \A v \in Works \ {w} : work'[v] = work[v]
  BY TurnIs
<1> QED BY <1>1 DEF Reserving, Returning

\* The days on which w holds nothing.
LEMMA OtherDay ==
    ASSUME TypeOK, room' = room, NEW w \in Works, NEW x \in WorkType, work' = [work EXCEPT ![w] = x],
           NEW d \in Days, MoneyOK(d), x.at \in {"call", "settle"} => x.day # d,
           spend' \in [Days -> Nat], spend'[d] >= spend[d], spend'[d] <= room.cap, bill'[d] = bill[d]
    PROVE  MoneyOK(d)'
<1>0. /\ Reserving(d)' = (Reserving(d) \ {w}) \cup
            (IF x.day = d /\ (x.at = "call" \/ (x.at = "settle" /\ x.got = "refused")) THEN {w} ELSE {})
      /\ Returning(d)' = (Returning(d) \ {w}) \cup
            (IF x.day = d /\ x.at = "settle" /\ x.got = "SUCCEEDED" THEN {w} ELSE {})
  BY HoldersAre
<1>1. AsMany(Reserving(d), Reserving(d)') /\ AsMany(Returning(d), Returning(d)')
  BY <1>0 DEF AsMany
<1>2. PICK s \in Nat : s = spend'[d]
  OBVIOUS
<1>3. PICK g \in Nat : g = bill'[d]
  BY WorkTyped
<1>4. PICK A, B : A = Reserving(d)' /\ B = Returning(d)'
  OBVIOUS
<1> QED BY <1>1, <1>2, <1>3, <1>4, MoneyStep

\* The reservation is made, or is over the cap, or its answer is lost.
LEMMA ReservedGood ==
    ASSUME IInv, NEW w \in Works, work[w].at = "reserve", Idle(w), Quiet,
          UNCHANGED <<job, result, cursor, done, bill, calls>>,
           NEW step \in {"call", "cap"},
                 work' = [work EXCEPT ![w] = [work[w] EXCEPT !.at = step, !.day = day]], Speak(w),
           \/ UNCHANGED spend /\ step = "cap"
           \/ spend' = [spend EXCEPT ![day] = @ + Reservation] /\ ~(spend[day] + Reservation > room.cap)
    PROVE  IInv'
<1>0. work[w].at # "off" /\ work[w].at \in OnTheJob
  BY DEF OnTheJob
<1>1. /\ TypeOK /\ BudgetOK /\ CallOK(w) /\ Task(w) \in Requests /\ \A d \in Days : MoneyOK(d)
  BY <1>0, AtWorkIs, WorkParts
<1>2. PICK t \in Requests : t = Task(w)
  BY <1>1
<1>3. UNCHANGED <<inbox, room, doc>>
  BY QuietIs
<1>4. PICK dd \in Days : dd = day
  BY <1>1, DayIs
<1>5. PICK r : r = work[w] /\ r \in WorkType
  BY <1>1, TurnTyped
<1>6. PICK x : x = [r EXCEPT !.at = step, !.day = dd]
  OBVIOUS
<1>7. /\ x \in WorkType /\ x.at = step /\ x.day = dd /\ x.got = r.got /\ x.mine = r.mine /\ x.held = r.held
      /\ x.next = r.next /\ x.through = r.through
  BY <1>5, <1>6 DEF WorkType
<1>8. work' = [work EXCEPT ![w] = x]
  BY <1>4, <1>5, <1>6
<1>9. work'[w] = x /\ Task(w)' = t
  BY <1>1, <1>2, <1>3, <1>5, <1>7, <1>8, TurnIs DEF Task
<1>10. x.at \in OnTheJob /\ x.at \notin {"close", "leave", "keep", "uncertain", "result", "settle", "reopen"}
  BY <1>7 DEF OnTheJob
<1>11. PenFits(w, t)
  BY <1>2, <1>9, <1>10, SpeakIs
<1>12. CallOK(w)'
  <2>1. Refused(t, r.mine.rejected) /\ r.mine.rejected < MaxRejections
    BY <1>1, <1>2, <1>5 DEF CallOK
  <2> QED BY <1>5, <1>7, <1>9, <2>1 DEF CallOK, Refused
<1>13. PICK s0 \in Nat, c \in Nat : s0 = spend[dd] /\ c = Reservation
  BY <1>1, WorkTyped, PriceAssumption
<1>14. spend \in [Days -> Nat] /\ bill \in [Days -> Nat] /\ calls \in [Requests -> Seq(Outcomes)]
  BY <1>1, WorkTyped
<1>15. \/ spend' = spend /\ step = "cap"
       \/ spend' = [spend EXCEPT ![dd] = s0 + c] /\ s0 + c <= room.cap
  <2>1. room.cap \in Nat
    BY <1>1, RoomsAssumption DEF TypeOK, IntakeTypeOK, RoomType
  <2>2. s0 + c \in Nat
    OBVIOUS
  <2> QED BY <1>4, <1>13, <2>1, <2>2
<1>16. spend' \in [Days -> Nat]
  <2>1. s0 + c \in Nat
    OBVIOUS
  <2> QED BY <1>14, <1>15, <2>1
<1>17. MoneyIInv'
  <2>1. ASSUME NEW d \in Days PROVE MoneyOK(d)'
    <3>1. PICK g \in Nat : g = bill[d] /\ bill'[d] = g
      BY <1>14
    <3>2. PICK s \in Nat : s = spend[d] /\ s <= room.cap
      BY <1>1, <1>14 DEF MoneyOK
    <3>3. MoneyOK(d)
      BY <1>1
    <3>4. CASE spend' = spend /\ step = "cap"
      <4>1. spend'[d] >= spend[d] /\ spend'[d] <= room.cap
        BY <3>2, <3>4
      <4> QED BY <1>1, <1>3, <1>7, <1>8, <1>16, <3>1, <3>3, <3>4, <4>1, OtherDay
    <3>5. CASE d # dd /\ spend' = [spend EXCEPT ![dd] = s0 + c]
      <4>1. spend'[d] = s
        BY <1>14, <3>2, <3>5
      <4>2. spend'[d] >= spend[d] /\ spend'[d] <= room.cap
        BY <3>2, <4>1
      <4> QED BY <1>1, <1>3, <1>7, <1>8, <1>16, <3>1, <3>3, <3>5, <4>2, OtherDay
    <3>6. CASE d = dd /\ spend' = [spend EXCEPT ![dd] = s0 + c] /\ s0 + c <= room.cap
      <4>1. PICK n \in Nat : n = s0 + c
        OBVIOUS
      <4>2. spend'[d] = n /\ n <= room.cap /\ n = spend[d] + Reservation
        BY <1>13, <1>14, <3>6, <4>1
      <4>3. PICK A, B : A = Reserving(d)' /\ B = Returning(d)'
        OBVIOUS
      <4>4. /\ A = (Reserving(d) \ {w}) \cup
                   (IF x.day = d /\ (x.at = "call" \/ (x.at = "settle" /\ x.got = "refused")) THEN {w} ELSE {})
            /\ B = (Returning(d) \ {w}) \cup
                   (IF x.day = d /\ x.at = "settle" /\ x.got = "SUCCEEDED" THEN {w} ELSE {})
        BY <1>1, <1>7, <1>8, <4>3, HoldersAre
      <4>5. OneMore(Reserving(d), A, w) /\ AsMany(Returning(d), B)
        BY <1>10, <4>4 DEF OneMore, AsMany
      <4> QED BY <1>1, <1>3, <3>1, <3>3, <4>1, <4>2, <4>3, <4>5, MoneyStep
    <3> QED BY <1>15, <3>4, <3>5, <3>6
  <2> QED BY <2>1 DEF MoneyIInv
<1> QED BY <1>0, <1>2, <1>5, <1>7, <1>8, <1>10, <1>11, <1>12, <1>14, <1>16, <1>17, OnJobGood

\* The reservation of a call, within the cap.
LEMMA ReserveGood == ASSUME IInv, NEW w \in Works, Reserve(w) PROVE IInv'
<1>1. /\ work[w].at = "reserve" /\ Idle(w) /\ Quiet
         /\ UNCHANGED <<job, result, cursor, done, bill, calls>> /\ Speak(w)
      /\ Charge
  BY DEF Reserve, AtWork, Quiet
<1>2. PICK step \in {"call", "cap"} : step = IF spend' = spend THEN "cap" ELSE "call"
  OBVIOUS
<1>3. work' = [work EXCEPT ![w] = [work[w] EXCEPT !.at = step, !.day = day]]
  BY <1>2 DEF Reserve, Turn
<1>4. \/ UNCHANGED spend /\ step = "cap"
      \/ spend' = [spend EXCEPT ![day] = @ + Reservation] /\ ~(spend[day] + Reservation > room.cap)
  BY <1>1, <1>2 DEF Charge
<1> QED BY <1>1, <1>3, <1>4, ReservedGood

\* The reservation fails, made or not.
LEMMA LedgerFailsGood ==
    ASSUME IInv, NEW w \in Works, LedgerFails(w), Use("fault"), UNCHANGED <<intakeRest, overdue>> PROVE IInv'
<1>1. /\ work[w].at = "reserve" /\ Idle(w) /\ Quiet
         /\ UNCHANGED <<job, result, cursor, done, bill, calls>> /\ Speak(w)
      /\ (Charge \/ UNCHANGED spend)
  BY DEF LedgerFails, AtWork, Quiet
<1>2. work' = [work EXCEPT ![w] = [work[w] EXCEPT !.at = "cap", !.day = day]]
  BY DEF LedgerFails, Turn
<1>3. \/ UNCHANGED spend
      \/ spend' = [spend EXCEPT ![day] = @ + Reservation] /\ ~(spend[day] + Reservation > room.cap)
  BY <1>1 DEF Charge
<1> QED BY <1>1, <1>2, <1>3, ReservedGood

-----------------------------------------------------------------------------
(* The worker's steps: the call, and its settlement.                       *)

\* A refused or fresh task is called for once more.
LEMMA CalledOnceMore ==
    ASSUME IInv, NEW t \in Requests, NEW n \in Nat, Refused(t, n), n < MaxRejections, NEW got \in Outcomes,
           ~Nobody(t), UNCHANGED <<job, result, doc>>, calls' = [calls EXCEPT ![t] = Append(@, got)]
    PROVE  /\ calls' \in [Requests -> Seq(Outcomes)] /\ \A u \in Requests \ {t} : calls'[u] = calls[u]
           /\ ~Final(t) /\ JobOK(t)'
           /\ got = "refused" => Refused(t, n + 1)'
           /\ got # "refused" => Ends(t, got)'
<1>1. TypeOK /\ JobOK(t)
  BY WorkParts
<1>2. calls \in [Requests -> Seq(Outcomes)]
  BY <1>1, WorkTyped
<1>3. PICK s \in Seq(Outcomes) : s = calls[t]
  BY <1>2
<1>4. Len(s) = n /\ \A i \in DOMAIN s : s[i] = "refused"
  BY <1>3 DEF Refused
<1>5. PICK z : z = Append(s, got)
  OBVIOUS
<1>6. /\ z \in Seq(Outcomes) /\ Len(z) = n + 1 /\ z # <<>> /\ DOMAIN z = 1..(n + 1) /\ z[n + 1] = got
      /\ \A i \in 1..n : z[i] = "refused"
  BY <1>4, <1>5
<1>7. calls' = [calls EXCEPT ![t] = z] /\ calls'[t] = z
  BY <1>2, <1>3, <1>5
<1>8. calls' \in [Requests -> Seq(Outcomes)] /\ \A u \in Requests \ {t} : calls'[u] = calls[u]
  BY <1>2, <1>6, <1>7
<1>9. ~Final(t)
  BY <1>1, NotFinal
<1>10. ASSUME got = "refused" PROVE Refused(t, n + 1)'
  <2>1. \A i \in DOMAIN z : z[i] = "refused"
    BY <1>6, <1>10
  <2> QED BY <1>6, <1>7, <2>1 DEF Refused
<1>11. ASSUME got # "refused" PROVE Ends(t, got)'
  <2>1. Final(t)'
    BY <1>6, <1>7, <1>11 DEF Final
  <2>2. Story(t)' = got
    BY <1>6, <1>7, <1>11 DEF Story
  <2> QED BY <2>1, <2>2 DEF Ends
<1>12. ~IsOpen(job[t]) /\ job[t].phase # "none"
  BY <1>1 DEF JobOK, IsOpen
<1>13. result[t] = "none"
  BY <1>1, <1>9 DEF JobOK, Ends
<1>14. JobOK(t)'
  <2>1. Len(z) <= MaxRejections
    BY <1>6, MaxRejectionsAssumption
  <2>2. \A i \in DOMAIN z : i < Len(z) => z[i] = "refused"
    <3>1. ASSUME NEW i \in DOMAIN z, i < Len(z) PROVE z[i] = "refused"
      <4>1. i \in 1..n
        BY <1>6, <3>1
      <4> QED BY <1>6, <4>1
    <3> QED BY <3>1
  <2>3. Answered(t)' <=> Answered(t)
    BY DEF Answered, InTrail, Trail
  <2> QED BY <1>1, <1>7, <1>12, <1>13, <2>1, <2>2, <2>3 DEF JobOK, IsOpen, Timeless
<1> QED BY <1>8, <1>9, <1>10, <1>11, <1>14

\* The call: it is paid, refused, or lost on the way.
LEMMA CallGood == ASSUME IInv, NEW w \in Works, Call(w) PROVE IInv'
<1>0. /\ work[w].at = "call" /\ Idle(w) /\ Quiet /\ UNCHANGED <<pen, job, result, cursor, done, spend>>
      /\ work[w].at # "off" /\ work[w].at \in OnTheJob
  BY DEF Call, AtWork, Quiet, OnTheJob
<1>1. /\ TypeOK /\ CallOK(w) /\ Task(w) \in Requests /\ \A d \in Days : MoneyOK(d)
  BY <1>0, AtWorkIs, WorkParts
<1>2. PICK t \in Requests : t = Task(w)
  BY <1>1
<1>3. UNCHANGED <<inbox, room, doc>>
  BY <1>0, QuietIs
<1>4. PICK r : r = work[w] /\ r \in WorkType
  BY <1>1, TurnTyped
<1>5. PICK dd \in Days : dd = r.day
  BY <1>4 DEF WorkType
<1>6. PICK got \in Outcomes :
          /\ bill' = [bill EXCEPT ![dd] = @ + Takes(got)]
          /\ calls' = [calls EXCEPT ![t] = Append(@, got)]
          /\ work' = [work EXCEPT ![w] = [r EXCEPT !.at = IF got \in {"SUCCEEDED", "refused"} THEN "settle" ELSE "keep",
                                                   !.got = got, !.ran = TRUE]]
  BY <1>2, <1>4, <1>5 DEF Call, Turn
<1>7. PICK step \in {"settle", "keep"} : step = IF got \in {"SUCCEEDED", "refused"} THEN "settle" ELSE "keep"
  OBVIOUS
<1>8. PICK x : x = [r EXCEPT !.at = step, !.got = got, !.ran = TRUE]
  OBVIOUS
<1>9. /\ x \in WorkType /\ x.at = step /\ x.got = got /\ x.day = dd /\ x.mine = r.mine /\ x.held = r.held
      /\ x.next = r.next /\ x.through = r.through
  BY <1>4, <1>5, <1>8 DEF WorkType
<1>10. work' = [work EXCEPT ![w] = x]
  BY <1>6, <1>7, <1>8
<1>11. work'[w] = x /\ Task(w)' = t
  BY <1>1, <1>2, <1>3, <1>4, <1>9, <1>10, TurnIs DEF Task
<1>12. PICK n \in Nat : n = r.mine.rejected
  <2>1. r.mine \in JobType
    BY <1>4 DEF WorkType
  <2> QED BY <2>1, JobTyped
<1>13. Refused(t, n) /\ n < MaxRejections
  BY <1>0, <1>1, <1>2, <1>4, <1>12 DEF CallOK
<1>14. ~Nobody(t)
  BY <1>0, <1>2 DEF Nobody, OnJob
<1>15. /\ calls' \in [Requests -> Seq(Outcomes)] /\ \A u \in Requests \ {t} : calls'[u] = calls[u]
       /\ ~Final(t) /\ JobOK(t)'
       /\ got = "refused" => Refused(t, n + 1)'
       /\ got # "refused" => Ends(t, got)'
  BY <1>0, <1>3, <1>6, <1>13, <1>14, CalledOnceMore
<1>16. CallOK(w)'
  <2>1. x.at = "settle" => x.got \in {"SUCCEEDED", "refused"}
    BY <1>7, <1>9
  <2>2. x.at = "keep" => x.got # "refused"
    BY <1>7, <1>9
  <2> QED BY <1>9, <1>11, <1>12, <1>13, <1>15, <2>1, <2>2 DEF CallOK
<1>17. x.at \in OnTheJob /\ x.at \in {"settle", "keep"}
  BY <1>9 DEF OnTheJob
<1>18. PenFits(w, t)
  BY <1>0, QuietPen
<1>19. spend \in [Days -> Nat] /\ bill \in [Days -> Nat]
  BY <1>1, WorkTyped
<1>20. PICK g \in Nat : g = bill[dd] + Takes(got)
  <2>1. PICK g0 \in Nat, tk \in Nat : g0 = bill[dd] /\ tk = Takes(got)
    BY <1>19, PriceAssumption DEF Takes
  <2>2. g0 + tk \in Nat
    OBVIOUS
  <2> QED BY <2>1, <2>2
<1>21. bill' \in [Days -> Nat] /\ bill'[dd] = g /\ \A d \in Days \ {dd} : bill'[d] = bill[d]
  BY <1>6, <1>19, <1>20
<1>22. MoneyIInv'
  <2>1. ASSUME NEW d \in Days PROVE MoneyOK(d)'
    <3>1. PICK s \in Nat : s = spend[d] /\ s <= room.cap /\ spend'[d] = s
      BY <1>0, <1>1, <1>19 DEF MoneyOK
    <3>2. MoneyOK(d) /\ spend' \in [Days -> Nat] /\ spend'[d] >= spend[d]
      BY <1>0, <1>1, <1>19, <3>1
    <3>3. CASE d # dd
      BY <1>1, <1>3, <1>9, <1>10, <1>21, <3>1, <3>2, <3>3, OtherDay
    <3>4. CASE d = dd
      <4>1. PICK A, B : A = Reserving(d)' /\ B = Returning(d)'
        OBVIOUS
      <4>2. /\ A = (Reserving(d) \ {w}) \cup
                   (IF x.day = d /\ (x.at = "call" \/ (x.at = "settle" /\ x.got = "refused")) THEN {w} ELSE {})
            /\ B = (Returning(d) \ {w}) \cup
                   (IF x.day = d /\ x.at = "settle" /\ x.got = "SUCCEEDED" THEN {w} ELSE {})
        BY <1>1, <1>9, <1>10, <4>1, HoldersAre
      <4>3. w \in Reserving(d)
        BY <1>0, <1>4, <1>5, <3>4 DEF Reserving
      <4>4. CASE got = "SUCCEEDED"
        <5>1. OneLess(Reserving(d), A, w) /\ OneMore(Returning(d), B, w)
          BY <1>9, <4>2, <4>3, <4>4 DEF OneLess, OneMore
        <5>2. g = bill[d] + Cost
          BY <1>20, <3>4, <4>4 DEF Takes
        <5> QED BY <1>1, <1>3, <1>21, <3>1, <3>2, <3>4, <4>1, <5>1, <5>2, MoneyStep
      <4>5. CASE got = "refused"
        <5>1. AsMany(Reserving(d), A) /\ AsMany(Returning(d), B)
          BY <1>9, <4>2, <4>3, <4>5 DEF AsMany
        <5>2. g = bill[d]
          <6>1. PICK g0 \in Nat : g0 = bill[d]
            BY <1>19
          <6> QED BY <1>20, <3>4, <4>5, <6>1 DEF Takes
        <5> QED BY <1>1, <1>3, <1>21, <3>1, <3>2, <3>4, <4>1, <5>1, <5>2, MoneyStep
      <4>6. CASE got \notin {"SUCCEEDED", "refused"}
        <5>1. OneLess(Reserving(d), A, w) /\ AsMany(Returning(d), B)
          BY <1>7, <1>9, <4>2, <4>3, <4>6 DEF OneLess, AsMany
        <5>2. g = bill[d] + Reservation
          BY <1>20, <3>4, <4>6 DEF Takes
        <5> QED BY <1>1, <1>3, <1>21, <3>1, <3>2, <3>4, <4>1, <5>1, <5>2, MoneyStep
      <4> QED BY <4>4, <4>5, <4>6
    <3> QED BY <3>3, <3>4
  <2> QED BY <2>1 DEF MoneyIInv
<1>23. x.at = "keep" => x.got \in Verdicts
  BY <1>7, <1>9 DEF Outcomes
<1>24. x.at = "settle" => x.got \in {"SUCCEEDED", "refused"}
  BY <1>7, <1>9
<1>25. spend' \in [Days -> Nat]
  BY <1>0, <1>19
<1> QED BY <1>0, <1>2, <1>4, <1>9, <1>10, <1>15, <1>16, <1>17, <1>18, <1>21, <1>22, <1>23, <1>24, <1>25,
      OnJobGood

\* The settlement is made, or is not.
LEMMA SettledGood ==
    ASSUME IInv, NEW w \in Works, work[w].at = "settle", Idle(w), Quiet,
           UNCHANGED <<pen, job, result, cursor, done, bill, calls>>, AfterSettle(w), Settled1(w)
                 \/ UNCHANGED spend
    PROVE  IInv'
<1>0. work[w].at # "off" /\ work[w].at \in OnTheJob
  BY DEF OnTheJob
<1>1. /\ TypeOK /\ MineOK(w) /\ CallOK(w) /\ Task(w) \in Requests /\ \A d \in Days : MoneyOK(d)
  BY <1>0, AtWorkIs, WorkParts
<1>2. PICK t \in Requests : t = Task(w)
  BY <1>1
<1>3. UNCHANGED <<inbox, room, doc>>
  BY QuietIs
<1>4. PICK r : r = work[w] /\ r \in WorkType
  BY <1>1, TurnTyped
<1>5. PICK dd \in Days : dd = r.day
  BY <1>4 DEF WorkType
<1>6. r.got \in {"SUCCEEDED", "refused"}
  BY <1>1, <1>4 DEF MineOK
<1>7. PICK step \in {"reopen", "keep"} : step = IF r.got = "refused" THEN "reopen" ELSE "keep"
  OBVIOUS
<1>8. Do(w, step)
  BY <1>4, <1>7 DEF AfterSettle
<1>9. PICK x \in WorkType : /\ work' = [work EXCEPT ![w] = x]
                            /\ x.at = step /\ x.mine = r.mine /\ x.held = r.held /\ x.next = r.next
                            /\ x.through = r.through /\ x.got = r.got /\ x.day = r.day
  BY <1>1, <1>4, <1>8, DoIs
<1>10. work'[w] = x /\ Task(w)' = t
  BY <1>1, <1>2, <1>3, <1>4, <1>9, TurnIs DEF Task
<1>11. x.at \in OnTheJob /\ x.at \in {"reopen", "keep"}
  BY <1>9 DEF OnTheJob
<1>12. CallOK(w)'
  <2>1. /\ r.got = "refused" => Refused(t, r.mine.rejected + 1) /\ r.mine.rejected < MaxRejections
        /\ r.got # "refused" => Ends(t, r.got)
    BY <1>1, <1>2, <1>4 DEF CallOK
  <2>2. /\ r.got = "refused" => Refused(t, r.mine.rejected + 1)'
        /\ r.got # "refused" => Ends(t, r.got)'
    <3>1. PICK n : n = r.mine.rejected + 1
      OBVIOUS
    <3>2. Refused(t, n)' <=> Refused(t, n)
      BY DEF Refused
    <3>3. Ends(t, r.got)' <=> Ends(t, r.got)
      BY DEF Ends, Final, Story
    <3> QED BY <2>1, <3>1, <3>2, <3>3
  <2> QED BY <1>7, <1>9, <1>10, <2>1, <2>2 DEF CallOK
<1>13. PenFits(w, t)
  BY QuietPen
<1>14. spend \in [Days -> Nat] /\ bill \in [Days -> Nat] /\ calls \in [Requests -> Seq(Outcomes)]
  BY <1>1, WorkTyped
<1>15. PICK g \in Nat : g = GoesBack(w) /\ (r.got = "refused" => g = Reservation)
                        /\ (r.got = "SUCCEEDED" => g = Reservation - Cost)
  BY <1>4, <1>6, PriceAssumption DEF GoesBack
<1>16. w \in (IF r.got = "refused" THEN Reserving(dd) ELSE Returning(dd))
  BY <1>4, <1>5, <1>6 DEF Reserving, Returning
<1>17. PICK s0 \in Nat : s0 = spend[dd] /\ g <= s0
  BY <1>1, <1>6, <1>14, <1>15, <1>16, OnLedger
<1>18. PICK s1 \in Nat : s1 = s0 - g
  <2>1. s0 - g \in Nat
    BY <1>17
  <2> QED BY <2>1
<1>19. spend' = spend \/ spend' = [spend EXCEPT ![dd] = s1]
  BY <1>4, <1>5, <1>14, <1>15, <1>17, <1>18 DEF Settled1
<1>20. spend' \in [Days -> Nat]
  BY <1>14, <1>19
<1>21. MoneyIInv'
  <2>1. ASSUME NEW d \in Days PROVE MoneyOK(d)'
    <3>1. PICK s \in Nat : s = spend[d] /\ s <= room.cap
      BY <1>1, <1>14 DEF MoneyOK
    <3>2. MoneyOK(d) /\ x.at \notin {"call", "settle"} /\ bill'[d] = bill[d]
      BY <1>1, <1>11
    <3>3. CASE spend'[d] = spend[d]
      <4>1. spend'[d] >= spend[d] /\ spend'[d] <= room.cap
        BY <3>1, <3>3
      <4> QED BY <1>1, <1>3, <1>9, <1>20, <3>1, <3>2, <4>1, OtherDay
    <3>4. CASE d = dd /\ spend'[d] = s1
      <4>1. PICK A, B : A = Reserving(d)' /\ B = Returning(d)'
        OBVIOUS
      <4>2. A = Reserving(d) \ {w} /\ B = Returning(d) \ {w}
        <5>1. /\ A = (Reserving(d) \ {w}) \cup
                     (IF x.day = d /\ (x.at = "call" \/ (x.at = "settle" /\ x.got = "refused")) THEN {w} ELSE {})
              /\ B = (Returning(d) \ {w}) \cup
                     (IF x.day = d /\ x.at = "settle" /\ x.got = "SUCCEEDED" THEN {w} ELSE {})
          BY <1>1, <1>9, <4>1, HoldersAre
        <5> QED BY <3>2, <5>1
      <4>3. \/ r.got = "refused" /\ OneLess(Reserving(d), A, w) /\ AsMany(Returning(d), B)
            \/ r.got = "SUCCEEDED" /\ AsMany(Reserving(d), A) /\ OneLess(Returning(d), B, w)
        BY <1>6, <1>16, <3>4, <4>2 DEF OneLess, AsMany
      <4>4. s1 <= room.cap
        <5>1. room.cap \in Nat
          BY <1>1, RoomsAssumption DEF TypeOK, IntakeTypeOK, RoomType
        <5>2. s0 <= room.cap
          BY <1>17, <3>1, <3>4
        <5> QED BY <1>18, <5>1, <5>2
      <4>5. s1 = spend[d] - g
        BY <1>17, <1>18, <3>4
      <4>6. PICK b \in Nat : b = bill'[d] /\ b = bill[d]
        BY <1>14
      <4> QED BY <1>1, <1>3, <1>15, <3>2, <3>4, <4>1, <4>3, <4>4, <4>5, <4>6, MoneyStep
    <3> QED BY <1>14, <1>19, <3>3, <3>4
  <2> QED BY <2>1 DEF MoneyIInv
<1>22. x.at = "keep" => x.got \in Verdicts
  BY <1>6, <1>7, <1>9 DEF Verdicts
<1>23. x.at = "reopen" => x.got = "refused"
  BY <1>7, <1>9
<1> QED BY <1>0, <1>2, <1>4, <1>9, <1>11, <1>12, <1>13, <1>14, <1>20, <1>21, <1>22, <1>23, OnJobGood

\* What the call did not cost goes back.
LEMMA SettleSpendGood == ASSUME IInv, NEW w \in Works, SettleSpend(w) PROVE IInv'
<1>1. /\ work[w].at = "settle" /\ Idle(w) /\ Quiet
         /\ UNCHANGED <<pen, job, result, cursor, done, bill, calls>>
      /\ AfterSettle(w) /\ Settled1(w)
  BY DEF SettleSpend, AtWork, Quiet
<1> QED BY <1>1, SettledGood

\* It may not go back, and stays spent.
LEMMA SettleFailsGood ==
    ASSUME IInv, NEW w \in Works, SettleFails(w), Use("fault"), UNCHANGED <<intakeRest, overdue>> PROVE IInv'
<1>1. /\ work[w].at = "settle" /\ Idle(w) /\ Quiet
         /\ UNCHANGED <<pen, job, result, cursor, done, spend, bill, calls>>
      /\ AfterSettle(w)
  BY DEF SettleFails, AtWork, Quiet, money
<1> QED BY <1>1, SettledGood

-----------------------------------------------------------------------------
(* Time, and what Redis forgets.                                           *)

\* A step that touches nothing of the intake but a budget.
LEMMA IntakeStill ==
    ASSUME IntakeOK, NEW b \in Bounds \ {"day"}, UNCHANGED <<doc, pen, intakeRest>>, UNCHANGED budget
          \/ Use(b)
    PROVE  Good /\ Spent
<1>1. TypeOK /\ BudgetOK /\ doc \in DocType /\ pen \in [Writers -> PenType]
  BY Parts
<1>2. /\ UNCHANGED <<weather, gates, claim, queues, pending, pass>> /\ room' = room
         /\ pending' = pending /\ gap' = gap
      /\ processed' = processed /\ titled' = titled /\ claim' = claim
  BY DEF intakeRest, weather, gates
<1>3. /\ gap' \in BOOLEAN /\ processed' \in BOOLEAN /\ titled' \in BOOLEAN /\ pending' \in BOOLEAN
      /\ doc' \in DocType /\ pen' \in [Writers -> PenType] /\ doc'.lines = doc.lines
  BY <1>1, <1>2, GatesTyped
<1>4. Tidy
  BY <1>1, <1>2, <1>3, TidyStill, TidyUsed
<1>5. \A a \in Writers : SamePen(a)
  BY <1>1, StillPen
<1>6. claim' \in [Requests -> ClaimType] /\ \A u \in Requests : SameClaim(u)
  BY <1>1, <1>2, IntakeTyped DEF SameClaim
<1>7. Good
  BY <1>2, <1>3, <1>4, <1>5, <1>6, StillStep
<1> QED BY <1>4, <1>7 DEF Tidy

\* A bound of the story's is used.
LEMMA Unsteady ==
    ASSUME TypeOK, BudgetOK, room' = room, Use("lapse") \/ Use("forget") PROVE ~Steady'
<1>1. room.budget \in [Bounds -> Nat] /\ budget \in [Bounds -> Nat] /\ "lapse" \in Bounds
         /\ "forget" \in Bounds
  BY RoomsAssumption DEF TypeOK, IntakeTypeOK, RoomType, Bounds
<1>2. PICK l \in Nat, f \in Nat : l = room.budget["lapse"] /\ f = room.budget["forget"]
  BY <1>1
<1>3. PICK l0 \in Nat, f0 \in Nat : l0 = budget["lapse"] /\ f0 = budget["forget"] /\ l0 <= l /\ f0 <= f
  BY <1>1, <1>2 DEF BudgetOK
<1>4. \/ budget'["lapse"] = l0 - 1 /\ budget'["forget"] = f0
      \/ budget'["lapse"] = l0 /\ budget'["forget"] = f0 - 1
  BY <1>1, <1>3 DEF Use
<1>5. (Used("lapse") + Used("forget"))' = (l - budget'["lapse"]) + (f - budget'["forget"])
  BY <1>2 DEF Used
<1>6. (Used("lapse") + Used("forget"))' # 0
  BY <1>3, <1>4, <1>5
<1> QED BY <1>6 DEF Steady

\* The lease of a claim runs out under its pass.
LEMMA JobLeaseEndsGood == ASSUME IInv, NEW t \in Requests, JobLeaseEnds(t) PROVE IInv'
<1>0. /\ job[t].lease = "live" /\ job' = [job EXCEPT ![t].lease = "dead"]
      /\ UNCHANGED <<doc, pen, intakeRest, overdue, done, result, cursor, spend, bill, calls, work>>
      /\ (Living(t) => Use("lapse")) /\ (UNCHANGED budget \/ Use("lapse"))
  BY DEF JobLeaseEnds, money
<1>1. /\ IntakeOK /\ TypeOK /\ BudgetOK /\ CursorOK /\ OneOnTheJob /\ SaidOK
      /\ \A u \in Requests : JobOK(u)
      /\ \A w \in Works : MineOK(w) /\ CopyOK(w) /\ CallOK(w)
      /\ \A d \in Days : MoneyOK(d)
  BY WorkParts
<1>2. Good /\ Spent
  <2>1. "lapse" \in Bounds \ {"day"}
    BY DEF Bounds
  <2> QED BY <1>0, <1>1, <2>1, IntakeStill
<1>3. UNCHANGED <<inbox, room>>
  BY <1>0 DEF intakeRest, queues, weather
<1>4. job \in [Requests -> JobType] /\ job[t] \in JobType
  BY <1>1, WorkTyped
<1>5. PICK j \in JobType : j = [job[t] EXCEPT !.lease = "dead"] /\ j.lease = "dead" /\ j.phase = job[t].phase
                           /\ j.rejected = job[t].rejected
  <2>1. [job[t] EXCEPT !.lease = "dead"] \in JobType
    BY <1>4 DEF JobType
  <2>2. PICK j : j = [job[t] EXCEPT !.lease = "dead"]
    OBVIOUS
  <2> QED BY <1>4, <2>1, <2>2 DEF JobType
<1>6. job' \in [Requests -> JobType] /\ job'[t] = j /\ \A u \in Requests \ {t} : job'[u] = job[u]
  BY <1>0, <1>4, <1>5
<1>7. job[t].phase = "accepted"
  BY <1>0, <1>1 DEF JobOK
<1>8. WorkTypeOK'
  BY <1>0, <1>1, <1>6, WorkTyped DEF WorkTypeOK
<1>9. \A w \in Works : Task(w)' = Task(w)
  BY <1>0, <1>3 DEF Task
<1>10. /\ \A u \in Requests : Nobody(u)' <=> Nobody(u)
       /\ \A w \in Works, u \in Requests : OnJob(w, u)' <=> OnJob(w, u)
  BY <1>0, <1>9 DEF Nobody, OnJob
<1>11. \A u \in Requests : JobOK(u)'
  <2>1. TAKE u \in Requests
  <2>2. /\ Ends(u, result[u])' <=> Ends(u, result[u])
        /\ Answered(u)' <=> Answered(u)
        /\ Refused(u, job[u].rejected) => (u # t => Refused(u, job[u].rejected)')
    BY <1>0, <1>6 DEF Ends, Final, Story, Answered, InTrail, Trail, Refused
  <2>3. CASE u = t
    BY <1>0, <1>1, <1>5, <1>6, <1>7, <1>10, <2>2, <2>3 DEF JobOK, IsOpen, Timeless
  <2>4. CASE u # t
    BY <1>0, <1>1, <1>6, <1>10, <2>2, <2>4 DEF JobOK, IsOpen, Timeless
  <2> QED BY <2>3, <2>4
<1>12. \A w \in Works : MineOK(w)' /\ CopyOK(w)' /\ CallOK(w)'
  <2>1. TAKE w \in Works
  <2>2. MineOK(w)'
    BY <1>0, <1>1, <1>3 DEF MineOK
  <2>3. CopyOK(w)'
    <3>1. CASE Task(w) = t
      <4>1. PICK m \in JobType : m = work[w].mine
        BY <1>1, TurnTyped
      <4>2. ASSUME job[t] = m PROVE j = [m EXCEPT !.lease = "dead"] /\ m.lease = "live"
        BY <1>0, <1>5, <4>2
      <4>3. job[t] # [m EXCEPT !.lease = "dead"]
        BY <1>0, <4>1 DEF JobType
      <4> QED BY <1>0, <1>1, <1>6, <1>9, <3>1, <4>1, <4>2, <4>3 DEF CopyOK
    <3>2. CASE Task(w) # t
      <4>1. job'[Task(w)] = job[Task(w)]
        BY <1>0, <3>2
      <4> QED BY <1>0, <1>1, <1>9, <4>1 DEF CopyOK
    <3> QED BY <3>1, <3>2
  <2>4. CallOK(w)'
    <3>1. \A u, n : Refused(u, n)' <=> Refused(u, n)
      BY <1>0 DEF Refused
    <3>2. \A u, s : Ends(u, s)' <=> Ends(u, s)
      BY <1>0 DEF Ends, Final, Story
    <3>3. \A u, s : Coming(w, "claude-api", u, s)' <=> Coming(w, "claude-api", u, s)
      BY <1>0 DEF Coming, InTrail, Trail
    <3>4. job'[Task(w)].phase = job[Task(w)].phase
      BY <1>0, <1>5, <1>6
    <3>5. PICK u : u = Task(w) /\ u = Task(w)'
      BY <1>9
    <3> QED BY <1>0, <1>1, <3>1, <3>2, <3>3, <3>4, <3>5 DEF CallOK
  <2> QED BY <2>2, <2>3, <2>4
<1>13. MoneyIInv'
  <2>1. \A d \in Days : MoneyOK(d)'
    BY <1>0, <1>1, <1>3 DEF MoneyOK, Reserving, Returning
  <2> QED BY <2>1 DEF MoneyIInv
<1>14. WorkIInv'
  <2>1. CursorOK' /\ OneOnTheJob'
    BY <1>0, <1>1, <1>3, <1>9, <1>10 DEF CursorOK, OneOnTheJob, OnJob
  <2>2. SaidOK'
    BY <1>0, <1>1 DEF SaidOK, SaysOK, Ends, Final, Story
  <2> QED BY <1>11, <1>12, <2>1, <2>2 DEF WorkIInv
<1>15. ASSUME Steady' PROVE StoryIInv'
  <2>1. Steady /\ ~Living(t)
    BY <1>0, <1>1, <1>2, <1>3, <1>15, Steadied, Unsteady
  <2>2. /\ \A l \in doc.lines : Told(l)
        /\ \A w \in Works : AtStory(w) /\ \A i \in DOMAIN pen[w].todo : Told(pen[w].todo[i])
        /\ \A u \in Requests : StoryOK(u)
    BY <2>1, WorkParts
  <2>3. ~IsOpen(job'[t])
    BY <1>5, <1>6, <1>7 DEF IsOpen, Timeless
  <2>4. \A u : Shut(u) => Shut(u)'
    <3>1. TAKE u
    <3>2. ~IsOpen(job[u]) => ~IsOpen(job'[u])
      <4>1. u # t => job'[u] = job[u]
        BY <1>0, <1>4
      <4> QED BY <2>3, <4>1
    <3>3. Nobody(u)' <=> Nobody(u)
      BY <1>0, <1>9 DEF Nobody, OnJob
    <3> QED BY <1>0, <3>2, <3>3 DEF Shut
  <2>5. \A u : Verdict(u)' = Verdict(u)
    BY <1>0 DEF Verdict
  <2>6. \A l : Told(l) => Told(l)'
    BY <2>4, <2>5 DEF Told
  <2>7. \A w \in Works : OnJob(w, t) => result[t] # "none"
    BY <1>0, <2>1, <2>2 DEF AtStory, OnJob, Living
  <2>8. \A u \in Requests : StoryOK(u)'
    <3>1. TAKE u \in Requests
    <3>2. CASE u = t
      <4>1. result[t] = "none" => Nobody(t)
        BY <2>7 DEF Nobody
      <4>2. Shut(t)'
        BY <1>0, <1>10, <2>3, <4>1 DEF Shut
      <4> QED BY <3>2, <4>2 DEF StoryOK
    <3>3. CASE u # t
      BY <1>0, <1>6, <2>2, <2>4, <3>3 DEF StoryOK
    <3> QED BY <3>2, <3>3
  <2>9. \A w \in Works : AtStory(w)'
    <3>1. TAKE w \in Works
    <3>2. PICK u : u = Task(w) /\ u = Task(w)'
      BY <1>9
    <3>3. work[w].at \in OnTheJob /\ result[u] = "none" => job'[u] = job[u]
      <4>1. u # t => job'[u] = job[u]
        BY <1>0, <1>4
      <4> QED BY <2>7, <3>2, <4>1 DEF OnJob
    <3> QED BY <1>0, <2>2, <2>4, <2>5, <3>2, <3>3 DEF AtStory
  <2> QED BY <1>0, <2>2, <2>6, <2>8, <2>9 DEF StoryIInv
<1>16. StoryIInv'
  BY <1>15 DEF StoryIInv
<1> QED BY <1>2, <1>8, <1>13, <1>14, <1>16 DEF IInv, TypeOK, Good

\* Redis forgets a claim, an answer or a mark of the worker.
LEMMA ForgetJobGood == ASSUME IInv, NEW t \in Requests, ForgetJob(t) PROVE IInv'
<1>0. /\ \A w \in Works : work[w].at = "off"
      /\ UNCHANGED <<doc, pen, intakeRest, overdue, cursor, spend, bill, calls, work>> /\ Use("forget")
      /\ \/ result' = [result EXCEPT ![t] = "none"] /\ UNCHANGED <<job, done>>
         \/ done' = done \ {t} /\ UNCHANGED <<job, result>>
         \/ job[t].phase = "done" /\ job' = [job EXCEPT ![t] = NoJob] /\ UNCHANGED <<done, result>>
  BY DEF ForgetJob, money
<1>1. /\ IntakeOK /\ TypeOK /\ BudgetOK /\ CursorOK /\ OneOnTheJob /\ SaidOK
      /\ \A u \in Requests : JobOK(u)
      /\ \A w \in Works : MineOK(w)
      /\ \A d \in Days : MoneyOK(d)
  BY WorkParts
<1>2. Good /\ Spent
  <2>1. "forget" \in Bounds \ {"day"}
    BY DEF Bounds
  <2> QED BY <1>0, <1>1, <2>1, IntakeStill
<1>3. UNCHANGED <<inbox, room>>
  BY <1>0 DEF intakeRest, queues, weather
<1>4. /\ overdue \in BOOLEAN /\ job \in [Requests -> JobType] /\ done \subseteq Requests
      /\ result \in [Requests -> Verdicts \cup {"none"}] /\ cursor \in [after : Nat, through : Nat]
      /\ spend \in [Days -> Nat] /\ bill \in [Days -> Nat] /\ calls \in [Requests -> Seq(Outcomes)]
      /\ work \in [Works -> WorkType]
  BY <1>1, WorkTyped
<1>5. NoJob \in JobType /\ NoJob.phase = "none" /\ NoJob.lease = "none"
  <2>1. 0 \in 0..MaxRejections /\ 0 \in Days
    BY MaxRejectionsAssumption DEF Days
  <2> QED BY <2>1, JobsAre
<1>6. /\ job' \in [Requests -> JobType] /\ done' \subseteq Requests
         /\ result' \in [Requests -> Verdicts \cup {"none"}]
      /\ \A u \in Requests : result'[u] \in {"none", result[u]}
      /\ \A u \in Requests : job'[u] = job[u] \/ (job[u].phase = "done" /\ job'[u] = NoJob)
  BY <1>0, <1>4, <1>5
<1>7. WorkTypeOK'
  BY <1>0, <1>4, <1>6 DEF WorkTypeOK
<1>8. \A u \in Requests : JobOK(u)'
  <2>1. TAKE u \in Requests
  <2>2. Nobody(u)'
    BY <1>0 DEF Nobody, OnJob, OnTheJob
  <2>3. Answered(u)' <=> Answered(u)
    BY <1>0 DEF Answered, InTrail, Trail
  <2>4. result'[u] # "none" => Ends(u, result[u])'
    <3>1. result'[u] # "none" => Ends(u, result'[u])
      BY <1>1, <1>6 DEF JobOK
    <3> QED BY <1>0, <3>1 DEF Ends, Final, Story
  <2>5. CASE job'[u] = job[u]
    <3>1. Refused(u, job[u].rejected) => Refused(u, job[u].rejected)'
      BY <1>0, <2>5 DEF Refused
    <3> QED BY <1>0, <1>1, <2>2, <2>3, <2>4, <2>5, <3>1 DEF JobOK, IsOpen, Timeless
  <2>6. CASE job[u].phase = "done" /\ job'[u] = NoJob
    BY <1>0, <1>1, <1>5, <2>2, <2>3, <2>4, <2>6 DEF JobOK, IsOpen, Timeless
  <2> QED BY <1>6, <2>5, <2>6
<1>9. \A w \in Works : MineOK(w)' /\ CopyOK(w)' /\ CallOK(w)'
  <2>1. TAKE w \in Works
  <2>2. MineOK(w)'
    BY <1>0, <1>1, <1>3 DEF MineOK
  <2>3. work'[w].at = "off"
    BY <1>0
  <2>4. CopyOK(w)'
    BY <2>2, <2>3 DEF MineOK, CopyOK
  <2>5. CallOK(w)'
    BY <2>3 DEF CallOK
  <2> QED BY <2>2, <2>4, <2>5
<1>10. MoneyIInv'
  <2>1. \A d \in Days : MoneyOK(d)'
    BY <1>0, <1>1, <1>3 DEF MoneyOK, Reserving, Returning
  <2> QED BY <2>1 DEF MoneyIInv
<1>11. WorkIInv'
  <2>1. CursorOK' /\ OneOnTheJob'
    BY <1>0, <1>1, <1>3 DEF CursorOK, OneOnTheJob, OnTheJob
  <2>2. SaidOK'
    BY <1>0, <1>1 DEF SaidOK, SaysOK, Ends, Final, Story
  <2> QED BY <1>8, <1>9, <2>1, <2>2 DEF WorkIInv
<1>12. StoryIInv'
  BY <1>0, <1>1, <1>3, Unsteady DEF StoryIInv
<1> QED BY <1>2, <1>7, <1>10, <1>11, <1>12 DEF IInv, TypeOK, Good

-----------------------------------------------------------------------------
(* The steps in which the worker stands still.                             *)

\* The two parts together.
LEMMA TogetherGood == ASSUME IInv, Good, WorkGood PROVE IInv'
  BY DEF IInv, TypeOK, Good, WorkGood

\* The worker writes what its pen holds.
LEMMA ReceiptGood ==
    ASSUME IInv, NEW w \in Works, WriteReceipt(w) \/ ReceiptFails(w), UNCHANGED <<intakeRest, workVars>>,
           UNCHANGED budget \/ Use("fault")
    PROVE  IInv'
<1>1. IntakeOK /\ TypeOK /\ w \in Writers
  BY WorkParts
<1>2. Writes(w)
  BY <1>1, ReceiptWrites, FailureWrites
<1>3. UNCHANGED <<weather, gates, claim, queues, pending, pass>> /\ UNCHANGED <<room, inbox>>
  BY DEF intakeRest, weather, queues
<1>4. Good
  BY <1>1, <1>2, <1>3, WritesKeeps
<1>5. Spent
  <2>1. "fault" \in Bounds
    BY DEF Bounds
  <2> QED BY <1>1, <1>3, <2>1, UseIs
<1>6. overdue' \in BOOLEAN /\ UNCHANGED StillVars
  BY <1>1, WorkTyped DEF workVars, StillVars
<1>7. 1 \in DOMAIN pen[w].todo /\ Head(pen[w].todo) = pen[w].todo[1]
  <2>1. PICK s \in Seq(Line) : s = pen[w].todo /\ s # <<>>
    BY <1>1, <1>2, PenTyped DEF Writes
  <2>2. 1 \in DOMAIN s /\ Head(s) = s[1]
    BY <2>1
  <2> QED BY <2>1, <2>2
<1>8. doc'.lines = doc.lines \/ doc'.lines = doc.lines \cup {pen[w].todo[1]}
  BY <1>2, <1>7 DEF Writes
<1>9. doc.lines \subseteq doc'.lines
  BY <1>8
<1>10. \A l \in doc'.lines : l \in doc.lines \/ l.by # "claude-api"
                             \/ \E v \in Works : \E i \in DOMAIN pen[v].todo : l = pen[v].todo[i]
  BY <1>7, <1>8
<1>11. \A v \in Works : SamePen(v) \/ Writes(v)
  BY <1>2, WritersAre DEF Writes
<1>12. Len(inbox[Api]) <= Len(inbox'[Api]) /\ Len(inbox'[Api]) \in Nat
          /\ \A i \in DOMAIN inbox[Api] : inbox'[Api][i] = inbox[Api][i]
  BY <1>1, <1>3, ApiIs
<1>13. WorkGood
  BY <1>5, <1>6, <1>9, <1>10, <1>11, <1>12, WorkStill
<1> QED BY <1>4, <1>13, TogetherGood

\* Nothing but bounds and the task's age changes.
LEMMA WaitGood ==
    ASSUME IInv, UNCHANGED <<doc, pen, intakeRest>>, UNCHANGED StillVars, overdue' \in BOOLEAN,
           NEW b \in Bounds \ {"day"}, UNCHANGED budget \/ Use(b)
    PROVE  IInv'
<1>1. IntakeOK /\ TypeOK
  BY WorkParts
<1>2. Good /\ Spent
  BY <1>1, IntakeStill
<1>3. UNCHANGED inbox /\ \A w \in Works : SamePen(w)
  BY DEF intakeRest, queues, SamePen
<1>4. Len(inbox[Api]) <= Len(inbox'[Api]) /\ Len(inbox'[Api]) \in Nat
         /\ \A i \in DOMAIN inbox[Api] : inbox'[Api][i] = inbox[Api][i]
  BY <1>1, <1>3, ApiIs
<1>5. WorkGood
  BY <1>2, <1>3, <1>4, WorkStill
<1> QED BY <1>2, <1>5, TogetherGood

\* A task the laptop has not taken in time is the worker's to take.
LEMMA LateGood == ASSUME IInv, Late PROVE IInv'
<1>1. UNCHANGED <<doc, pen, intakeRest>> /\ UNCHANGED StillVars /\ overdue' \in BOOLEAN /\ Use("age")
      /\ "age" \in Bounds \ {"day"}
  BY DEF Late, money, StillVars, Bounds
<1> QED BY <1>1, WaitGood

\* Nothing moves.
LEMMA StutterGood == ASSUME IInv, UNCHANGED vars PROVE IInv'
<1>1. UNCHANGED <<doc, pen, intakeRest>> /\ UNCHANGED StillVars /\ UNCHANGED <<budget, overdue>>
      /\ "age" \in Bounds \ {"day"}
  BY DEF vars, intakeVars, workVars, intakeRest, StillVars, Bounds
<1>2. overdue' \in BOOLEAN
  BY <1>1, WorkParts, WorkTyped
<1> QED BY <1>1, <1>2, WaitGood

\* A step of the intake.
LEMMA IntakeStepGood == ASSUME IInv, IntakeNext, UNCHANGED workVars PROVE IInv'
<1>1. IntakeOK /\ TypeOK
  BY WorkParts
<1>2. Good /\ Apart
  BY <1>1, IntakeNextKeeps, IntakeApart
<1>3. overdue' \in BOOLEAN /\ UNCHANGED StillVars
  BY <1>1, WorkTyped DEF workVars, StillVars
<1>4. Len(inbox'[Api]) \in Nat
  <2>1. inbox' \in [Workers -> Seq(Requests)] /\ Api \in Workers
    BY <1>2, WorkersAre DEF Good, IntakeTypeOK
  <2>2. PICK s \in Seq(Requests) : s = inbox'[Api]
    BY <2>1
  <2> QED BY <2>2
<1>5. WorkGood
  <2>1. \A l \in doc'.lines : l \in doc.lines \/ l.by # "claude-api"
    BY <1>2 DEF Apart
  <2> QED BY <1>2, <1>3, <1>4, <2>1, WorkStill DEF Apart
<1> QED BY <1>2, <1>5, TogetherGood

-----------------------------------------------------------------------------
(* Every step.                                                             *)

\* A step of a pass of the worker.
LEMMA WorkStepsGood == ASSUME IInv, NEW w \in Works, WorkSteps(w) PROVE IInv'
<1>1. CASE Wake(w) \/ Entry(w) \/ Claim(w) \/ Recall(w) \/ Retake(w)
  BY <1>1, WakeGood, EntryGood, ClaimGood, RecallGood, RetakeGood
<1>2. CASE PickUp(w) \/ Reserve(w) \/ CapTask(w) \/ Call(w) \/ SettleSpend(w) \/ Reopen(w)
  BY <1>2, PickUpGood, ReserveGood, CapTaskGood, CallGood, SettleSpendGood, ReopenGood
<1>3. CASE Keep(w) \/ Uncertain(w) \/ Resulted(w) \/ FinishFromStore(w) \/ Close(w)
  BY <1>3, KeepGood, UncertainGood, ResultedGood, FinishGood, CloseGood
<1>4. CASE Leave(w) \/ Mark(w) \/ Checkpoint(w)
  BY <1>4, LeaveGood, MarkGood, CheckpointGood
<1>5. CASE WriteReceipt(w) /\ UNCHANGED <<budget, intakeRest, workVars>>
  BY <1>5, ReceiptGood
<1> QED BY <1>1, <1>2, <1>3, <1>4, <1>5 DEF WorkSteps

\* A fault of one.
LEMMA WorkFaultsGood == ASSUME IInv, NEW w \in Works, WorkFaults(w) PROVE IInv'
<1>0. Use("fault") /\ UNCHANGED <<intakeRest, overdue>>
  BY DEF WorkFaults
<1>1. CASE ReadFailsAtWork(w) \/ LedgerFails(w) \/ SettleFails(w)
  BY <1>0, <1>1, ReadFailsGood, LedgerFailsGood, SettleFailsGood
<1>2. CASE MarkFails(w) \/ KeepFails(w) \/ DiesAtWork(w)
  BY <1>0, <1>2, MarkFailsGood, KeepFailsGood, DiesAtWorkGood
<1>3. CASE ReceiptFails(w) /\ UNCHANGED <<job, done, result, cursor, money, work>>
  <2>1. UNCHANGED workVars
    BY <1>0, <1>3 DEF workVars, money
  <2> QED BY <1>0, <1>3, <2>1, ReceiptGood
<1> QED BY <1>1, <1>2, <1>3 DEF WorkFaults

\* Every step of the whole keeps the invariant.
LEMMA NextGood == ASSUME IInv, Next \/ UNCHANGED vars PROVE IInv'
<1>1. CASE IntakeNext /\ UNCHANGED workVars
  BY <1>1, IntakeStepGood
<1>2. CASE \E w \in Works : WorkSteps(w) \/ WorkFaults(w)
  BY <1>2, WorkStepsGood, WorkFaultsGood
<1>3. CASE \E t \in Requests : JobLeaseEnds(t) \/ ForgetJob(t)
  BY <1>3, JobLeaseEndsGood, ForgetJobGood
<1>4. CASE Late
  BY <1>4, LateGood
<1>5. CASE UNCHANGED vars
  BY <1>5, StutterGood
<1> QED BY <1>1, <1>2, <1>3, <1>4, <1>5 DEF Next

-----------------------------------------------------------------------------
(* The beginning.                                                          *)

\* The types at the beginning.
LEMMA InitTyped == ASSUME Init PROVE TypeOK /\ BudgetOK
<1>1. /\ room \in Rooms /\ room \in RoomType /\ budget = room.budget /\ day = 0
  BY RoomsAssumption DEF Init, IntakeInit
<1>2. 1 \in Requests /\ Requests \subseteq Nat
  BY MaxRequestsAssumption DEF Requests
<1>3. Delivered \subseteq Line
  BY <1>2, WorkersAre DEF Delivered, Line, Waits, Verdicts
<1>4. doc \in DocType
  <2>1. Given \subseteq Line
    BY <1>3 DEF Given
  <2>2. room.delivered \in BOOLEAN
    BY <1>1 DEF RoomType
  <2> QED BY <1>2, <2>1, <2>2 DEF Init, IntakeInit, DocType
<1>5. pen \in [Writers -> PenType]
  BY NoPenIs DEF Init, IntakeInit
<1>6. claim \in [Requests -> ClaimType]
  <2>1. NoClaim \in ClaimType /\ Bare("dispatched") \in ClaimType
    BY DEF NoClaim, Bare, ClaimType, Waits
  <2> QED BY <2>1 DEF Init, IntakeInit
<1>7. /\ marker \in [Requests -> Workers \cup {NoWorker}] /\ seen \in [Requests -> SUBSET Workers]
      /\ woken \in [Requests -> [Workers -> Nat]]
  BY WorkersAre DEF Init, IntakeInit
<1>8. inbox \in [Workers -> Seq(Requests)]
  <2>1. <<1>> \in Seq(Requests) /\ <<>> \in Seq(Requests)
    BY <1>2
  <2> QED BY <2>1 DEF Init, IntakeInit
<1>9. pass \in [Passes -> PassType]
  <2>1. Off \in PassType
    BY <1>2 DEF Off, PassType, Steps
  <2> QED BY <2>1 DEF Init, IntakeInit
<1>10. budget \in [Bounds -> Nat] /\ day \in Nat
          /\ {beat, young, gap, processed, titled, pending} \subseteq BOOLEAN
  <2>1. room.up \in BOOLEAN /\ room.delivered \in BOOLEAN /\ room.budget \in [Bounds -> Nat]
    BY <1>1 DEF RoomType
  <2>2. beat \in BOOLEAN /\ young \in BOOLEAN /\ gap \in BOOLEAN /\ processed \in BOOLEAN
           /\ titled \in BOOLEAN
        /\ pending \in BOOLEAN
    BY <2>1 DEF Init, IntakeInit
  <2> QED BY <1>1, <2>1, <2>2
<1>11. IntakeTypeOK
  BY <1>1, <1>4, <1>5, <1>6, <1>7, <1>8, <1>9, <1>10 DEF IntakeTypeOK, DocTypeOK
<1>12. NoJob \in JobType /\ 0 \in Days
  <2>1. 0 \in 0..MaxRejections /\ 0 \in Days
    BY MaxRejectionsAssumption DEF Days
  <2> QED BY <2>1, JobsAre
<1>13. job \in [Requests -> JobType] /\ result \in [Requests -> Verdicts \cup {"none"}]
  BY <1>12 DEF Init
<1>14. cursor \in [after : Nat, through : Nat] /\ {spend, bill} \subseteq [Days -> Nat]
  BY DEF Init
<1>15. calls \in [Requests -> Seq(Outcomes)]
  <2>1. <<>> \in Seq(Outcomes)
    OBVIOUS
  <2> QED BY <2>1 DEF Init
<1>16. work \in [Works -> WorkType]
  BY AsleepIs DEF Init
<1>17. WorkTypeOK
  BY <1>13, <1>14, <1>15, <1>16 DEF WorkTypeOK, Init
<1>18. BudgetOK
  <2>1. room.budget \in [Bounds -> Nat] /\ "day" \in Bounds
    BY <1>1 DEF RoomType, Bounds
  <2>2. \A b \in Bounds : budget[b] \in Nat /\ budget[b] = room.budget[b]
    BY <1>1, <2>1
  <2>3. Used("day") = 0
    <3>1. PICK n \in Nat : n = room.budget["day"]
      BY <2>1
    <3> QED BY <1>1, <3>1 DEF Used
  <2> QED BY <1>1, <2>2, <2>3 DEF BudgetOK
<1> QED BY <1>11, <1>17, <1>18 DEF TypeOK

\* The intake at the beginning: the page may name a request already, and nothing is under way.
LEMMA InitIntake == ASSUME Init PROVE IntakeIInv
<1>0. TypeOK /\ BudgetOK /\ Api \in Workers /\ 1 \in Requests /\ \A p \in Passes : p \in Writers
  BY InitTyped, WorkersAre, WritersAre, MaxRequestsAssumption DEF Requests
<1>1. \A l \in doc.lines : /\ l \in Given /\ room.delivered /\ l.by = "drive-intake" /\ l.task = 1
         /\ l.to = Api
                           /\ l.state \in {"REQUESTED", "DISPATCHED"}
  BY DEF Init, IntakeInit, Given, Delivered
<1>2. room.delivered => Api \in OnInbox(1)
  BY <1>0 DEF Init, IntakeInit, OnInbox
<1>3. DocTrue
  BY <1>1, <1>2 DEF DocTrue, IntakeStates
<1>4. \A a \in Writers : PenOK(a)
  BY NoPenIs DEF Init, IntakeInit, PenOK
<1>5. ASSUME NEW t \in Requests PROVE ClaimOK(t)
  <2>1. CASE room.delivered /\ t = 1
    <3>1. claim[t].phase = "dispatched" /\ claim[t].to = NoWorker
      BY <2>1 DEF Init, IntakeInit, Bare, NoClaim
    <3>2. doc.lines = Delivered
      BY <2>1 DEF Init, IntakeInit, Given
    <3>3. InTrail("drive-intake", t, "REQUESTED") /\ InTrail("drive-intake", t, "DISPATCHED")
      <4>1. ASSUME NEW s \in {"REQUESTED", "DISPATCHED"} PROVE InTrail("drive-intake", t, s)
        <5>1. PICK l : l = [by |-> "drive-intake", task |-> 1, to |-> Api, state |-> s]
          OBVIOUS
        <5>2. l \in doc.lines /\ l.by = "drive-intake" /\ l.task = t /\ l.state = s
          BY <2>1, <3>2, <5>1 DEF Delivered
        <5> QED BY <5>2 DEF InTrail, Trail
      <4> QED BY <4>1
    <3> QED BY <3>1, <3>3 DEF ClaimOK, Unbound, Waits
  <2>2. CASE ~(room.delivered /\ t = 1)
    <3>1. claim[t].phase = "none" /\ claim[t].to = NoWorker
      BY <2>2 DEF Init, IntakeInit, NoClaim
    <3> QED BY <3>1 DEF ClaimOK, Unbound, Waits
  <2> QED BY <2>1, <2>2
<1>6. ASSUME NEW t \in Requests PROVE QueueOK(t)
  <2>1. OnePlace(t)
    BY DEF Init, IntakeInit, OnePlace
  <2>2. marker[t] # NoWorker => marker[t] \in OnInbox(t)
    BY <1>2 DEF Init, IntakeInit
  <2>3. Used("forget") \in Nat /\ Used("wake") \in Nat
    BY <1>0, UsedTyped, IntakeTyped
  <2>4. \A w \in Workers : w \notin seen[t] /\ woken[t][w] = 0
    BY DEF Init, IntakeInit
  <2> QED BY <2>1, <2>2, <2>3, <2>4 DEF QueueOK
<1>7. ASSUME NEW p \in Passes PROVE PassOK(p) /\ HeldOK(p)
  <2>1. pass[p].at = "off" /\ ~pass[p].held /\ ~pass[p].given
    BY DEF Init, IntakeInit, Off
  <2>2. PassOK(p)
    BY <2>1 DEF PassOK, InHand, Placed, Asking
  <2> QED BY <2>1, <2>2 DEF HeldOK
<1> QED BY <1>3, <1>4, <1>5, <1>6, <1>7 DEF IntakeIInv

\* The invariant at the beginning.
LEMMA InitGood == Init => IInv
<1> SUFFICES ASSUME Init PROVE IInv
  OBVIOUS
<1>0. TypeOK /\ BudgetOK /\ IntakeIInv /\ inbox[Api] \in Seq(Requests)
  BY InitTyped, InitIntake, ApiIs
<1>1. /\ \A t \in Requests : /\ job[t] = NoJob /\ job[t].phase = "none" /\ job[t].lease = "none"
         /\ calls[t] = <<>>
                             /\ result[t] = "none"
      /\ \A w \in Works : work[w] = Asleep /\ work[w].at = "off" /\ ~work[w].held /\ pen[w].todo = <<>>
  BY WritersAre, NoPenIs DEF Init, IntakeInit, NoJob, Asleep
<1>2. \A l \in doc.lines : l.by = "drive-intake"
  BY DEF Init, IntakeInit, Given, Delivered
<1>3. CursorOK
  BY <1>0 DEF Init, CursorOK
<1>4. OneOnTheJob
  BY <1>1 DEF OneOnTheJob, OnTheJob
<1>5. SaidOK
  BY <1>1, <1>2 DEF SaidOK, SaysOK
<1>6. ASSUME NEW t \in Requests PROVE JobOK(t)
  <2>1. Nobody(t)
    BY <1>1 DEF Nobody, OnJob, OnTheJob
  <2>2. Len(calls[t]) <= MaxRejections /\ DOMAIN calls[t] = {}
    BY <1>1, MaxRejectionsAssumption
  <2> QED BY <1>1, <2>1, <2>2 DEF JobOK, Timeless
<1>7. ASSUME NEW w \in Works PROVE MineOK(w) /\ CopyOK(w) /\ CallOK(w)
  BY <1>1 DEF MineOK, CopyOK, CallOK, OnTheJob
<1>8. WorkIInv
  BY <1>3, <1>4, <1>5, <1>6, <1>7 DEF WorkIInv
<1>9. MoneyIInv
  <2>1. ASSUME NEW d \in Days PROVE MoneyOK(d)
    <3>1. Reserving(d) = {} /\ Returning(d) = {}
      BY <1>1 DEF Reserving, Returning
    <3>2. Cardinality(Reserving(d)) = 0 /\ Cardinality(Returning(d)) = 0
      BY <3>1, FS_EmptySet
    <3>3. PICK r \in Nat, c \in Nat : r = Reservation /\ c = Reservation - Cost
      BY PriceAssumption
    <3>4. r * 0 = 0 /\ c * 0 = 0
      OBVIOUS
    <3>5. spend[d] = 0 /\ bill[d] = 0
      BY DEF Init
    <3>6. room.cap \in Nat
      BY <1>0, IntakeTyped DEF RoomType
    <3> QED BY <3>2, <3>3, <3>4, <3>5, <3>6 DEF MoneyOK
  <2> QED BY <2>1 DEF MoneyIInv
<1>10. StoryIInv
  <2>1. \A l \in doc.lines : Told(l)
    BY <1>2 DEF Told
  <2>2. \A w \in Works : AtStory(w) /\ \A i \in DOMAIN pen[w].todo : Told(pen[w].todo[i])
    BY <1>1 DEF AtStory, OnTheJob
  <2>3. \A t \in Requests : StoryOK(t)
    BY <1>1 DEF StoryOK
  <2> QED BY <2>1, <2>2, <2>3 DEF StoryIInv
<1> QED BY <1>0, <1>8, <1>9, <1>10 DEF IInv

-----------------------------------------------------------------------------
(* What the invariant says.                                                *)

\* What the intake promises follows.
LEMMA IntakeFollows == ASSUME IInv PROVE IntakeInv
<1>0. TypeOK /\ BudgetOK /\ IntakeIInv
  BY DEF IInv
<1>1. OnOneInbox
  BY <1>0 DEF IntakeIInv, QueueOK, OnePlace, OnOneInbox
<1>2. TrailIsTrue
  BY <1>0 DEF IntakeIInv, DocTrue, RingsWork, ClaimOK, TrailIsTrue
<1>3. WokenOnce
  <2>1. ASSUME NEW t \in Requests, NEW w \in Workers PROVE woken[t][w] <= 1 + Used("forget") + Used("wake")
    <3>1. PICK f \in Nat, k \in Nat, n \in Nat : f = Used("forget") /\ k = Used("wake") /\ n = woken[t][w]
      BY <1>0, UsedTyped, IntakeTyped, WorkerTyped
    <3>2. n <= f + k + 1
      BY <1>0, <3>1 DEF IntakeIInv, QueueOK
    <3> QED BY <3>1, <3>2
  <2> QED BY <2>1 DEF WokenOnce
<1> QED BY <1>0, <1>1, <1>2, <1>3 DEF IntakeInv, TypeOK

\* So does what the worker promises.
LEMMA WorkFollows == ASSUME IInv PROVE WorkInv
<1>0. /\ TypeOK /\ BudgetOK /\ SaidOK /\ \A t \in Requests : JobOK(t)
      /\ \A d \in Days : MoneyOK(d)
      /\ Steady => \A l \in doc.lines : Told(l)
  BY WorkParts
<1>1. CalledOnce
  <2>1. ASSUME NEW t \in Requests
        PROVE  Cardinality({i \in DOMAIN calls[t] : calls[t][i] # "refused"}) <= 1
              /\ Len(calls[t]) <= MaxRejections
    <3>1. PICK S : S = {i \in DOMAIN calls[t] : calls[t][i] # "refused"}
      OBVIOUS
    <3>2. PICK n \in Nat : n = Len(calls[t]) /\ DOMAIN calls[t] = 1..n
      BY <1>0, CallsTyped
    <3>3. S \subseteq {n}
      <4>1. ASSUME NEW i \in S PROVE i = n
        <5>1. i \in 1..n /\ calls[t][i] # "refused" /\ i \in DOMAIN calls[t]
          BY <3>1, <3>2
        <5>2. ~(i < n)
          BY <1>0, <3>2, <5>1 DEF JobOK
        <5> QED BY <5>1, <5>2
      <4> QED BY <4>1
    <3>4. IsFiniteSet({n}) /\ Cardinality({n}) = 1
      BY FS_Singleton
    <3>5. Cardinality(S) <= 1
      BY <3>3, <3>4, FS_Subset
    <3> QED BY <1>0, <3>1, <3>5 DEF JobOK
  <2> QED BY <2>1 DEF CalledOnce
<1>2. SpendCovers
  <2>1. ASSUME NEW d \in Days PROVE bill[d] <= spend[d] /\ spend[d] <= room.cap
    <3>1. PICK m \in Nat, n \in Nat : m = Cardinality(Reserving(d)) /\ n = Cardinality(Returning(d))
      BY MoneySets
    <3>2. PICK r \in Nat, c \in Nat : r = Reservation /\ c = Reservation - Cost
      BY PriceAssumption
    <3>3. PICK p \in Nat : p = r * m
      BY TimesLeq
    <3>4. PICK q \in Nat : q = c * n
      BY TimesLeq
    <3>5. PICK b \in Nat, s \in Nat : b = bill[d] /\ s = spend[d]
      BY <1>0, WorkTyped
    <3>6. b + p + q <= s /\ s <= room.cap
      BY <1>0, <3>1, <3>2, <3>3, <3>4, <3>5 DEF MoneyOK
    <3> QED BY <3>5, <3>6
  <2> QED BY <2>1 DEF SpendCovers
<1>3. VerdictIsTheAnswer
  <2>1. ASSUME NEW t \in Requests, NEW said, said = {v \in Verdicts : InTrail("claude-api", t, v)}
        PROVE  /\ said \ {"UNKNOWN"} \subseteq {Story(t)}
               /\ Used("lapse") + Used("forget") = 0 =>
                     Cardinality(said) <= 1 /\ (result[t] # "none" => said \subseteq {result[t]})
    <3>1. \A v \in said : \E l \in doc.lines : l.by = "claude-api" /\ l.task = t /\ l.state = v
             /\ v \in Verdicts
      BY <2>1 DEF InTrail, Trail
    <3>2. \A v \in said \ {"UNKNOWN"} : v = Story(t)
      BY <1>0, <3>1 DEF SaidOK, SaysOK, Ends, Verdicts
    <3>3. ASSUME Used("lapse") + Used("forget") = 0
          PROVE  Cardinality(said) <= 1 /\ (result[t] # "none" => said \subseteq {result[t]})
      <4>1. Steady
        BY <3>3 DEF Steady
      <4>2. PICK v : v = Verdict(t)
        OBVIOUS
      <4>3. said \subseteq {v}
        BY <1>0, <3>1, <4>1, <4>2 DEF Told
      <4>4. IsFiniteSet({v}) /\ Cardinality({v}) = 1
        BY FS_Singleton
      <4>5. Cardinality(said) <= 1
        BY <4>3, <4>4, FS_Subset
      <4> QED BY <4>2, <4>3, <4>5 DEF Verdict
    <3> QED BY <3>2, <3>3
  <2> QED BY <2>1 DEF VerdictIsTheAnswer
<1> QED BY <1>0, <1>1, <1>2, <1>3 DEF WorkInv, TypeOK

-----------------------------------------------------------------------------
(* The theorems.                                                           *)

\* From the page to the answer, with intake passes and worker passes running side by side, dying,
\* failing and forgetting, the records of the doc, of Redis and of the ledger agree with what was done.
THEOREM ArrivalIsSafe == Spec => []IInv
<1>1. IInv /\ [Next]_vars => IInv'
  BY NextGood
<1> QED BY InitGood, <1>1, PTL DEF Spec

\* A request is put on one inbox, whatever passes overlap, retry or die; a receipt that says requested
\* or dispatched is true; and one that is dispatched woke its worker (drive_intake, write_receipt).
THEOREM IntakeIsSafe == Spec => []IntakeInv
<1>1. IInv => IntakeInv
  BY IntakeFollows
<1> QED BY <1>1, ArrivalIsSafe, PTL

\* A task is called for by one pass at a time, within the cap of its day, and the verdict that is told
\* is the answer the call came to (api_worker, the spend ledger).
THEOREM WorkIsSafe == Spec => []WorkInv
<1>1. IInv => WorkInv
  BY WorkFollows
<1> QED BY <1>1, ArrivalIsSafe, PTL
=============================================================================
