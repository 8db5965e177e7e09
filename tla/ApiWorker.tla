------------------------------ MODULE ApiWorker ------------------------------
(***************************************************************************)
(* The API worker, cloud/claude-api-worker, and the whole way of a request *)
(* from the owner's doc to the answer under it.  A pass of the worker      *)
(* sweeps its inbox oldest first and considers each task: it takes the     *)
(* claim, writes ACCEPTED, reserves the most the call may cost, makes at   *)
(* most one call, keeps the answer before it moves the claim, and writes   *)
(* the verdict from what is kept.  The intake writes the same doc while it *)
(* does, and the owner may change his request.                             *)
(*                                                                         *)
(* As in the intake a claim carries the time of its last change, but for   *)
(* one that was given up or capped; one step is one call and the reads     *)
(* before it; a pass may die at any of them.                               *)
(***************************************************************************)
EXTENDS DriveIntake

CONSTANTS MaxRejections,     \* MAX_REJECTIONS: refusals of the model after which the task has failed
          Reservation, Cost  \* cents reserved for a call, and what an answered one costs

ASSUME MaxRejectionsAssumption == MaxRejections \in Nat \ {0}
ASSUME PriceAssumption == Reservation \in Nat /\ Cost \in 0..Reservation

VARIABLES overdue, \* the task has waited for the laptop longer than reassign_after
          job,     \* job[t]: fleet:worker:claim
          done,    \* fleet:worker:done
          result,  \* result[t]: fleet:worker:result
          cursor,  \* fleet:worker:inbox_scan
          spend,   \* spend[d]: fleet:spend of day d
          bill,    \* bill[d]: the most the model took for the calls reserved on day d
          calls,   \* calls[t]: how the calls for it went, in order
          work

workVars == <<overdue, job, done, result, cursor, spend, bill, calls, work>>
vars == <<intakeVars, workVars>>
intakeRest == <<weather, gates, claim, queues, pending, pass>>
money == <<spend, bill, calls>>

Days == 0..1 \* bound: days the worker is run through
ASSUME DaysAssumption == \A x \in Rooms : x.budget["day"] \in Days
ASSUME WorksAssumption == IsFiniteSet(Works)
Outcomes == Verdicts \cup {"refused"}

JobType == [phase : {"none", "accepted", "capped", "resulted", "uncertain", "done"}, lease : {"none", "live", "dead"},
            attempt : 0..1, rejected : 0..MaxRejections, day : Days]
NoJob == [phase |-> "none", lease |-> "none", attempt |-> 0, rejected |-> 0, day |-> 0]
Accepted(rejected) == [NoJob EXCEPT !.phase = "accepted", !.attempt = 1, !.lease = "live", !.rejected = rejected]
OpenAgain(rejected) == [NoJob EXCEPT !.phase = "accepted", !.rejected = rejected]
Capped(rejected, d) == [NoJob EXCEPT !.phase = "capped", !.rejected = rejected, !.day = d]
Moved(phase) == [NoJob EXCEPT !.phase = phase]
Timeless(j) == j.phase = "capped" \/ (j.phase = "accepted" /\ j.lease = "none")

\* next, through: the entry considered and the last of the sweep; mine, held: the
\* copy of the claim, and whether it has not changed since; day: of the
\* reservation; got: how the call went, then the verdict; ran: the pass made its call.
WorkType == [at : {"off", "entry", "claim", "uncap", "recall", "retake", "accepted", "reserve", "cap", "call", "settle",
                   "reopen", "keep", "uncertain", "result", "finish", "close", "leave", "mark", "checkpoint"},
             next : Nat, through : Nat, mine : JobType, held : BOOLEAN, day : Days, got : Outcomes \cup {"none"},
             ran : BOOLEAN]
Asleep == [at |-> "off", next |-> 0, through |-> 0, mine |-> NoJob, held |-> FALSE, day |-> 0, got |-> "none",
           ran |-> FALSE]

WorkTypeOK ==
    /\ overdue \in BOOLEAN /\ job \in [Requests -> JobType] /\ done \subseteq Requests
    /\ result \in [Requests -> Verdicts \cup {"none"}] /\ cursor \in [after : Nat, through : Nat]
    /\ {spend, bill} \subseteq [Days -> Nat] /\ calls \in [Requests -> Seq(Outcomes)]
    /\ work \in [Works -> WorkType]

Init ==
    /\ IntakeInit
    /\ overdue = FALSE /\ job = [t \in Requests |-> NoJob] /\ done = {}
    /\ result = [t \in Requests |-> "none"] /\ cursor = [after |-> 0, through |-> 0]
    /\ spend = [d \in Days |-> 0] /\ bill = [d \in Days |-> 0]
    /\ calls = [t \in Requests |-> <<>>] /\ work = [w \in Works |-> Asleep]

-----------------------------------------------------------------------------
(* A pass, its entry and its claim.                                        *)

AtWork(w, step) == work[w].at = step /\ Idle(w)
Task(w) == inbox[Api][work[w].next]
Turn(w, x) == work' = [work EXCEPT ![w] = x]
Do(w, step) == Turn(w, [work[w] EXCEPT !.at = step])

\* The entry is considered; a sweep ends behind the one call of a pass.
Behind(x) == [x EXCEPT !.at = IF x.ran \/ x.next = x.through THEN "checkpoint" ELSE "entry",
                       !.next = IF x.ran \/ x.next = x.through THEN @ ELSE @ + 1,
                       !.mine = NoJob, !.held = FALSE, !.day = 0, !.got = "none"]
Considered(w) == Turn(w, Behind(work[w]))

\* The line a pass owes the doc where it has come to.
Owes(x) ==
    CASE x.at = "accepted" -> <<"ACCEPTED">>
      [] x.at = "cap" -> <<"QUEUED">>
      [] x.at = "leave" -> <<"UNKNOWN">>
      [] x.at = "close" -> <<x.got>>
      [] OTHER -> <<>>
Speak(w) ==
    LET states == Owes(work'[w])
        lines == [i \in DOMAIN states |-> [by |-> "claude-api", task |-> Task(w), to |-> Api, state |-> states[i]]] IN
    pen' = IF states = <<>> THEN pen ELSE [pen EXCEPT ![w].todo = lines, ![w].owed = FALSE]
Owing(w) == pen[w].owed

\* Compare-and-set of the claim: the pass goes on as x if it won, or as y.
Holds(w) == work[w].held \/ (Timeless(work[w].mine) /\ job[Task(w)] = work[w].mine)
OthersAtWork(w, x) ==
    [v \in Works |-> IF v = w THEN x ELSE [work[v] EXCEPT !.held = @ /\ Task(v) # Task(w)]]
\* Faulty variant: the claim is set, whoever moved it since.
MoveJobBlind(w, j, x, y) == job' = [job EXCEPT ![Task(w)] = j] /\ work' = OthersAtWork(w, x)

MoveJob(w, j, x, y) ==
    IF Holds(w) THEN job' = [job EXCEPT ![Task(w)] = j] /\ work' = OthersAtWork(w, x)
    ELSE Turn(w, y) /\ UNCHANGED job
Going(w, j, step) == [work[w] EXCEPT !.at = step, !.mine = j, !.held = TRUE]

\* RedisInbox.read: what is left of the sweep, or a new one up to the newest entry.
Wake(w) ==
    /\ w \in room.works /\ AtWork(w, "off") /\ inbox[Api] # <<>>
    /\ LET new == cursor.after = cursor.through
           c == IF new THEN [after |-> 0, through |-> Len(inbox[Api])] ELSE cursor IN
       cursor' = c /\ Turn(w, [Asleep EXCEPT !.at = "entry", !.next = c.after + 1, !.through = c.through])
    /\ UNCHANGED <<doc, pen, budget, intakeRest, overdue, job, done, result, money>>

\* consider, up to the claim: what is not run, is done, over, or not the worker's yet.
Runs == room.live \/ ~room.filter
Answered(t) == \E v \in Verdicts : InTrail("claude-api", t, v)
Left == room.to # Api /\ (room.only \/ (beat /\ ~overdue))
Entry(w) ==
    /\ AtWork(w, "entry")
    /\ IF ~Runs \/ Task(w) \in done THEN Considered(w) /\ UNCHANGED pen
       ELSE IF doc.req # Task(w) \/ Answered(Task(w)) THEN Do(w, "mark") /\ UNCHANGED pen
       ELSE IF Left THEN Considered(w) /\ UNCHANGED pen
       ELSE Do(w, "claim") /\ pen' = [pen EXCEPT ![w].guard = TRUE]
    /\ UNCHANGED <<doc, budget, intakeRest, overdue, job, done, result, cursor, money>>

\* SET NX, or what the claim says.
Claim(w) ==
    /\ AtWork(w, "claim")
    /\ LET j == job[Task(w)] IN
       IF j.phase = "none"
       THEN job' = [job EXCEPT ![Task(w)] = Accepted(0)] /\ Turn(w, Going(w, Accepted(0), "accepted"))
       ELSE /\ UNCHANGED job
            /\ IF j.phase = "capped" /\ j.day = day THEN Considered(w)
               ELSE Turn(w, Going(w, j, CASE j.phase = "done" -> "mark"
                                          [] j.phase = "resulted" -> "finish"
                                          [] j.phase = "capped" -> "uncap"
                                          [] j.phase \in {"accepted", "uncertain"} -> "recall"))
    /\ Speak(w)
    /\ UNCHANGED <<doc, budget, intakeRest, overdue, done, result, cursor, money>>

\* Faulty variant: an attempt whose lease is over has left no answer.
KeptUnderLease(w) == result[Task(w)] # "none" /\ work[w].mine.lease # "dead"

\* The store first: an answer that is kept is finished from, whatever the lease says,
\* and an attempt that left none is not made again.
IsKept(w) == result[Task(w)] # "none"
Recall(w) ==
    /\ AtWork(w, "recall")
    /\ LET mine == work[w].mine
           resulted == Moved("resulted") IN
       IF IsKept(w)
       THEN MoveJob(w, resulted, Going(w, resulted, "finish"), Behind(work[w]))
       ELSE /\ UNCHANGED job
            /\ CASE mine.phase = "uncertain" -> Do(w, "leave")
                 [] mine.phase = "accepted" /\ mine.lease = "live" -> Considered(w)
                 [] mine.phase = "accepted" /\ mine.lease = "dead" ->
                       Turn(w, [work[w] EXCEPT !.at = "close", !.got = "UNKNOWN"])
                 [] mine.phase = "accepted" /\ mine.lease = "none" -> Do(w, "retake")
    /\ Speak(w)
    /\ UNCHANGED <<doc, budget, intakeRest, overdue, done, result, cursor, money>>

\* A refused or capped task is taken again.
Retake(w) ==
    /\ AtWork(w, "retake") \/ AtWork(w, "uncap")
    /\ LET j == Accepted(work[w].mine.rejected) IN MoveJob(w, j, Going(w, j, "accepted"), Behind(work[w]))
    /\ Speak(w)
    /\ UNCHANGED <<doc, budget, intakeRest, overdue, done, result, cursor, money>>

-----------------------------------------------------------------------------
(* The call.                                                               *)

\* Nothing is reserved before ACCEPTED reads back.
PickUp(w) ==
    /\ AtWork(w, "accepted")
    /\ IF Owing(w) THEN MoveJob(w, OpenAgain(work[w].mine.rejected), Behind(work[w]), Behind(work[w]))
       ELSE Do(w, "reserve") /\ UNCHANGED job
    /\ UNCHANGED <<doc, pen, budget, intakeRest, overdue, done, result, cursor, money>>

\* Faulty variant: the cap is compared with what was spent before.
ChargeLate == IF spend[day] > room.cap THEN UNCHANGED spend
              ELSE spend' = [spend EXCEPT ![day] = @ + Reservation]

\* RESERVE_LUA.
Charge == IF spend[day] + Reservation > room.cap THEN UNCHANGED spend
          ELSE spend' = [spend EXCEPT ![day] = @ + Reservation]
Reserve(w) ==
    /\ AtWork(w, "reserve") /\ Charge
    /\ Turn(w, [work[w] EXCEPT !.at = IF spend' = spend THEN "cap" ELSE "call", !.day = day])
    /\ Speak(w)
    /\ UNCHANGED <<doc, budget, intakeRest, overdue, job, done, result, cursor, bill, calls>>

CapTask(w) ==
    /\ AtWork(w, "cap")
    /\ MoveJob(w, Capped(work[w].mine.rejected, work[w].day), Behind(work[w]), Behind(work[w]))
    /\ UNCHANGED <<doc, pen, budget, intakeRest, overdue, done, result, cursor, money>>

\* The most the model takes: an answer what it used, an error or no answer in time
\* perhaps the whole reservation, a refusal nothing.
Takes(got) == CASE got = "SUCCEEDED" -> Cost [] got = "refused" -> 0 [] OTHER -> Reservation
Call(w) ==
    /\ AtWork(w, "call")
    /\ \E got \in Outcomes :
          /\ bill' = [bill EXCEPT ![work[w].day] = @ + Takes(got)]
          /\ calls' = [calls EXCEPT ![Task(w)] = Append(@, got)]
          /\ Turn(w, [work[w] EXCEPT !.at = IF got \in {"SUCCEEDED", "refused"} THEN "settle" ELSE "keep",
                                     !.got = got, !.ran = TRUE])
    /\ UNCHANGED <<doc, pen, budget, intakeRest, overdue, job, done, result, cursor, spend>>

\* Faulty variant: an answer gives the whole reservation back.
AllGoesBack(w) == Reservation

\* What was reserved and not taken goes back, to the day it was reserved on.
GoesBack(w) == IF work[w].got = "refused" THEN Reservation ELSE Reservation - Cost
AfterSettle(w) == Do(w, IF work[w].got = "refused" THEN "reopen" ELSE "keep")
Settled1(w) == spend' = [spend EXCEPT ![work[w].day] = @ - GoesBack(w)]
SettleSpend(w) ==
    /\ AtWork(w, "settle") /\ Settled1(w) /\ AfterSettle(w)
    /\ UNCHANGED <<doc, pen, budget, intakeRest, overdue, job, done, result, cursor, bill, calls>>

Reopen(w) ==
    /\ AtWork(w, "reopen")
    /\ LET rejected == work[w].mine.rejected + 1 IN
       IF rejected < MaxRejections
       THEN MoveJob(w, OpenAgain(rejected), Behind(work[w]), Behind(work[w]))
       ELSE Turn(w, [work[w] EXCEPT !.at = "keep", !.got = "FAILED"]) /\ UNCHANGED job
    /\ UNCHANGED <<doc, pen, budget, intakeRest, overdue, done, result, cursor, money>>

-----------------------------------------------------------------------------
(* The answer.                                                             *)

Kept(w) == result' = [result EXCEPT ![Task(w)] = work[w].got]
Keep(w) ==
    /\ AtWork(w, "keep") /\ Kept(w) /\ Do(w, "result")
    /\ UNCHANGED <<doc, pen, budget, intakeRest, overdue, job, done, cursor, money>>

Uncertain(w) ==
    /\ AtWork(w, "uncertain") /\ MoveJob(w, Moved("uncertain"), Behind(work[w]), Behind(work[w]))
    /\ UNCHANGED <<doc, pen, budget, intakeRest, overdue, done, result, cursor, money>>

Resulted(w) ==
    /\ AtWork(w, "result")
    /\ LET j == Moved("resulted") IN MoveJob(w, j, Going(w, j, "close"), Behind(work[w]))
    /\ Speak(w)
    /\ UNCHANGED <<doc, budget, intakeRest, overdue, done, result, cursor, money>>

\* The verdict is what is kept; UNKNOWN when that is gone.
Verdict(t) == IF result[t] = "none" THEN "UNKNOWN" ELSE result[t]
FinishFromStore(w) ==
    /\ AtWork(w, "finish") /\ Turn(w, [work[w] EXCEPT !.at = "close", !.got = Verdict(Task(w))]) /\ Speak(w)
    /\ UNCHANGED <<doc, budget, intakeRest, overdue, job, done, result, cursor, money>>

\* Faulty variant: the verdict is taken to be there once it was sent.
UnreadNever(w) == FALSE

\* Done when the verdict reads back.
Unread(w) == Owing(w)
Close(w) ==
    /\ AtWork(w, "close")
    /\ IF Unread(w) THEN Considered(w) /\ UNCHANGED job
       ELSE MoveJob(w, Moved("done"), [work[w] EXCEPT !.at = "mark"], [work[w] EXCEPT !.at = "mark"])
    /\ UNCHANGED <<doc, pen, budget, intakeRest, overdue, done, result, cursor, money>>

\* A call occurred and its outcome was not kept: the doc says so, and the claim stays.
Leave(w) ==
    /\ AtWork(w, "leave") /\ Considered(w)
    /\ UNCHANGED <<doc, pen, budget, intakeRest, overdue, job, done, result, cursor, money>>

Mark(w) ==
    /\ AtWork(w, "mark") /\ done' = done \cup {Task(w)} /\ Considered(w)
    /\ UNCHANGED <<doc, pen, budget, intakeRest, overdue, job, result, cursor, money>>

Checkpoint(w) ==
    /\ AtWork(w, "checkpoint") /\ cursor' = [after |-> work[w].next, through |-> work[w].through]
    /\ Turn(w, Asleep) /\ pen' = [pen EXCEPT ![w] = NoPen]
    /\ UNCHANGED <<doc, budget, intakeRest, overdue, job, done, result, money>>

WorkSteps(w) ==
    \/ Wake(w) \/ Entry(w) \/ Claim(w) \/ Recall(w) \/ Retake(w) \/ PickUp(w) \/ Reserve(w) \/ CapTask(w) \/ Call(w)
    \/ SettleSpend(w) \/ Reopen(w) \/ Keep(w) \/ Uncertain(w) \/ Resulted(w) \/ FinishFromStore(w) \/ Close(w)
    \/ Leave(w) \/ Mark(w) \/ Checkpoint(w)
    \/ (WriteReceipt(w) /\ UNCHANGED <<budget, intakeRest, workVars>>)

-----------------------------------------------------------------------------
(* Failures and time.                                                      *)

\* A read fails: the entry is left.
ReadFailsAtWork(w) ==
    /\ \E step \in {"entry", "claim", "recall", "finish"} : AtWork(w, step)
    /\ Considered(w) /\ UNCHANGED <<doc, pen, job, done, result, cursor, money>>
\* The reservation, the settlement or the marker fails, carried out or not.
LedgerFails(w) ==
    /\ AtWork(w, "reserve") /\ (Charge \/ UNCHANGED spend)
    /\ Turn(w, [work[w] EXCEPT !.at = "cap", !.day = day]) /\ Speak(w)
    /\ UNCHANGED <<doc, job, done, result, cursor, bill, calls>>
SettleFails(w) ==
    /\ AtWork(w, "settle") /\ AfterSettle(w) /\ UNCHANGED <<doc, pen, job, done, result, cursor, money>>
MarkFails(w) ==
    /\ AtWork(w, "mark") /\ Considered(w) /\ UNCHANGED <<doc, pen, job, done, result, cursor, money>>
\* The answer is not kept, or is kept and perhaps not read back.
KeepFails(w) ==
    /\ AtWork(w, "keep")
    /\ \/ UNCHANGED result /\ Do(w, "uncertain")
       \/ Kept(w) /\ (Do(w, "uncertain") \/ Do(w, "result"))
    /\ UNCHANGED <<doc, pen, job, done, cursor, money>>
DiesAtWork(w) ==
    /\ work[w].at # "off" /\ Turn(w, Asleep) /\ pen' = [pen EXCEPT ![w] = NoPen]
    /\ UNCHANGED <<doc, job, done, result, cursor, money>>
WorkFaults(w) ==
    /\ Use("fault") /\ UNCHANGED <<intakeRest, overdue>>
    /\ \/ ReadFailsAtWork(w) \/ LedgerFails(w) \/ SettleFails(w) \/ MarkFails(w) \/ KeepFails(w) \/ DiesAtWork(w)
       \/ (ReceiptFails(w) /\ UNCHANGED <<job, done, result, cursor, money, work>>)

\* WORK_LEASE runs out, under a pass that lives only so often.
OnTheJob == {"accepted", "reserve", "cap", "call", "settle", "reopen", "keep", "uncertain", "result"}
Living(t) == \E w \in Works : work[w].at \in OnTheJob /\ work[w].held /\ Task(w) = t
JobLeaseEnds(t) ==
    /\ job[t].lease = "live" /\ job' = [job EXCEPT ![t].lease = "dead"]
    /\ IF Living(t) THEN Use("lapse") ELSE UNCHANGED budget
    /\ UNCHANGED <<doc, pen, intakeRest, overdue, done, result, cursor, money, work>>

\* Redis forgets an answer, a marker, or a claim that is over.
ForgetJob(t) ==
    /\ \A w \in Works : work[w].at = "off"
    /\ Use("forget")
    /\ \/ result[t] # "none" /\ result' = [result EXCEPT ![t] = "none"] /\ UNCHANGED <<job, done>>
       \/ t \in done /\ done' = done \ {t} /\ UNCHANGED <<job, result>>
       \/ job[t].phase = "done" /\ job' = [job EXCEPT ![t] = NoJob] /\ UNCHANGED <<done, result>>
    /\ UNCHANGED <<doc, pen, intakeRest, overdue, cursor, money, work>>

Late ==
    /\ ~overdue /\ Use("age") /\ overdue' = TRUE
    /\ UNCHANGED <<doc, pen, intakeRest, job, done, result, cursor, money, work>>

Next ==
    \/ IntakeNext /\ UNCHANGED workVars
    \/ \E w \in Works : WorkSteps(w) \/ WorkFaults(w)
    \/ \E t \in Requests : JobLeaseEnds(t) \/ ForgetJob(t)
    \/ Late

\* The worker runs on its schedule; passes go on, and a dead one's lease runs out.
WorkFair ==
    /\ \A w \in Works : WF_vars(WorkSteps(w))
    /\ WF_vars(\E t \in Requests : JobLeaseEnds(t))
Spec == Init /\ [][Next]_vars /\ IntakeFair /\ WorkFair

-----------------------------------------------------------------------------
(* Properties.                                                             *)

\* A task is answered for once: the model is asked again only when it refused, and
\* then MAX_REJECTIONS times at most, whichever passes of the worker overlap, die
\* or lose an answer of Redis, and whatever Redis forgot.
CalledOnce ==
    \A t \in Requests : /\ Cardinality({i \in DOMAIN calls[t] : calls[t][i] # "refused"}) <= 1
                        /\ Len(calls[t]) <= MaxRejections

\* The day's ledger is never below what the model took for it, nor above the cap.
SpendCovers == \A d \in Days : bill[d] <= spend[d] /\ spend[d] <= room.cap

\* The doc never tells another story of the call than the call: a SUCCEEDED line
\* stands for an answer, a FAILED line for an error or the last refusal.  It tells
\* one story, which is the kept one, unless a lease ran out under a pass that lived
\* or the kept answer was forgotten.
Story(t) == IF calls[t] = <<>> THEN "none"
            ELSE IF calls[t][Len(calls[t])] = "refused" THEN "FAILED" ELSE calls[t][Len(calls[t])]
VerdictIsTheAnswer ==
    \A t \in Requests :
       LET said == {v \in Verdicts : InTrail("claude-api", t, v)} IN
       /\ said \ {"UNKNOWN"} \subseteq {Story(t)}
       /\ Used("lapse") + Used("forget") = 0 =>
             /\ Cardinality(said) <= 1
             /\ result[t] # "none" => said \subseteq {result[t]}

\* What consider() spends and says of a task agrees with the call it made.
WorkInv == WorkTypeOK /\ CalledOnce /\ SpendCovers /\ VerdictIsTheAnswer

\* A task on the worker's inbox gets a verdict in the doc, though passes die, lines
\* are lost and the model refuses.  Not one the worker does not run or leaves to the
\* laptop, one over the day's cap, or one whose request was changed.
Excused(t) == room.works = {} \/ ~Runs \/ Left \/ job[t].phase = "capped" \/ doc.req # t
EveryTaskAnswered == \A t \in Requests : (Api \in OnInbox(t)) ~> (Answered(t) \/ Excused(t))
=============================================================================
