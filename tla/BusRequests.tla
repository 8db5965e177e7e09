----------------------------- MODULE BusRequests -----------------------------
(***************************************************************************)
(* The request worker of the bus: serve_requests.py, its lock and its      *)
(* live loop, and bus_request.py, which answers the requests on the board. *)
(* A worker is one execution.  A pass reads the board, judges every        *)
(* request by its run marker in Redis, claims it, runs it, and answers it  *)
(* with one RESULT row; the lock is renewed before every row.              *)
(*                                                                         *)
(* One step is one command to Redis or to the board.  A faulty step is a   *)
(* command whose reply is lost: it has taken effect or not, and the worker *)
(* takes it for a failure.  Time is what has passed: old requests, aged    *)
(* claims, a lapsed lock.  Markers outlive the window requests are read    *)
(* in, so the RESULT rows, which only silence a request without a marker,  *)
(* are not consulted.                                                      *)
(***************************************************************************)
EXTENDS Integers, Sequences, FiniteSets

CONSTANTS Order,      \* the requests on the board, oldest first
          Probes,     \* synthetic probes, answered by a receipt and a result
          Workers,    \* executions
          Nobody,
          MaxPerRun,  \* MAX_PER_RUN
          MaxFaults,  \* bound: lost replies and deaths
          MaxLapses   \* bound: lapses of the lock under an execution that lives

Requests == {Order[i] : i \in 1..Len(Order)}

ASSUME RequestsAssumption == Order \in Seq(Requests) /\ Order # <<>> /\ Probes \subseteq Requests
ASSUME WorkersAssumption == Nobody \notin Workers
ASSUME BoundsAssumption == MaxPerRun \in Nat /\ MaxFaults \in Nat /\ MaxLapses \in Nat

VARIABLES old,      \* requests older than STALE_MINUTES, or refused at any age
          aged,     \* claims older than CLAIM_GRACE_SECONDS
          marker,   \* the run markers
          runs,     \* history: how often the operation of a request was run
          results,  \* the RESULT rows on the board, per request
          receipts, \* the RECEIPT rows on the board, per request
          lock,     \* gov:worker:lock
          worker,   \* worker[w]: where an execution is
          faults, lapses

time == <<old, aged>>
board == <<results, receipts>>
vars == <<time, marker, runs, board, lock, worker, faults, lapses>>

Rows == {"OK", "REFUSED", "UNKNOWN"}
Markers == {"none", "claimed", "answering", "answered"}
Steps == {"over", "waiting", "ready", "idle", "reading", "judge", "refuse", "claim", "receipt", "run",
                    "answer", "renew", "append", "done"}
\* now holds the requests that were old when the pass began; left is its budget.
WorkerType == [at : Steps, i : 1..Len(Order), left : 0..MaxPerRun, now : SUBSET Requests,
               row : Rows \cup {"none", "RECEIPT"}]

TypeOK ==
    /\ old \subseteq Requests /\ aged \subseteq Requests
    /\ marker \in [Requests -> Markers] /\ runs \in [Requests -> Nat]
    /\ results \in [Requests -> Seq(Rows)] /\ receipts \in [Requests -> Nat]
    /\ lock \in Workers \cup {Nobody} /\ worker \in [Workers -> WorkerType]
    /\ faults \in 0..MaxFaults /\ lapses \in 0..MaxLapses

Waiting == [at |-> "waiting", i |-> 1, left |-> 0, now |-> {}, row |-> "none"]

\* A probe may have a receipt from an image that did not claim probes.
Init ==
    /\ old \in SUBSET Requests /\ aged = {} /\ marker = [r \in Requests |-> "none"]
    /\ runs = [r \in Requests |-> 0] /\ results = [r \in Requests |-> <<>>]
    /\ \E S \in SUBSET Probes : receipts = [r \in Requests |-> IF r \in S THEN 1 ELSE 0]
    /\ lock = Nobody /\ worker = [w \in Workers |-> Waiting]
    /\ faults = 0 /\ lapses = 0

-----------------------------------------------------------------------------
(* Steps of an execution.                                                  *)

Current(w) == Order[worker[w].i]
At(w, s) == worker[w].at = s
Go(w, s) == worker' = [worker EXCEPT ![w].at = s]
Fault == faults < MaxFaults /\ faults' = faults + 1

ToNext(w) == [worker[w] EXCEPT !.at = "judge", !.i = @ + 1, !.row = "none"]

\* Faulty variant of the next: one request too many.
SkipPast(w) ==
    worker' = [worker EXCEPT ![w] = IF @.i <= Len(Order) THEN ToNext(w) ELSE [Waiting EXCEPT !.at = "idle"]]

\* The next request of the pass, or the end of it.
Skip(w) ==
    worker' = [worker EXCEPT ![w] = IF @.i < Len(Order) THEN ToNext(w) ELSE [Waiting EXCEPT !.at = "idle"]]
EndPass(w) == worker' = [worker EXCEPT ![w] = [Waiting EXCEPT !.at = "idle"]]

\* The lock.  A lapsed lock nobody took is taken back.
Mine(w) == lock \in {w, Nobody}
Renewed(w) == Mine(w) /\ lock' = w /\ UNCHANGED faults
NotRenewed(w) == UNCHANGED lock /\ \/ ~Mine(w) /\ UNCHANGED faults
                                   \/ Mine(w) /\ Fault

Take(w) ==
    /\ At(w, "waiting") /\ lock = Nobody
    /\ lock' = w /\ Go(w, "ready")
    /\ UNCHANGED <<time, marker, runs, board, faults, lapses>>

\* A pass, or the end of an execution that lost the lock to another.
Keep(w) ==
    /\ At(w, "ready") \/ At(w, "idle")
    /\ \/ /\ Mine(w) /\ lock' = w
          /\ worker' = [worker EXCEPT ![w].at = "reading", ![w].now = old]
       \/ ~Mine(w) /\ Go(w, "over") /\ UNCHANGED lock
    /\ UNCHANGED <<time, marker, runs, board, faults, lapses>>

\* The lock is confirmed after the board was read.
Read(w) ==
    /\ At(w, "reading")
    /\ \/ Renewed(w) /\ worker' = [worker EXCEPT ![w].at = "judge", ![w].left = MaxPerRun]
       \/ NotRenewed(w) /\ EndPass(w)
    /\ UNCHANGED <<time, marker, runs, board, lapses>>

\* Faulty variant of the next: a claim without an answer is left alone.
VerdictSilent(r, now) ==
    IF marker[r] # "none" THEN [at |-> "judge", row |-> "none"]
    ELSE IF r \in now THEN [at |-> "refuse", row |-> "REFUSED"]
    ELSE [at |-> "claim", row |-> "none"]

\* What is done with a request: it is judged by its marker first, by its age and its
\* words only without one.  "judge" is to pass over it.
Verdict(r, now) ==
    CASE marker[r] = "none" /\ r \in now -> [at |-> "refuse", row |-> "REFUSED"]
      [] marker[r] = "none" /\ r \notin now -> [at |-> "claim", row |-> "none"]
      [] marker[r] = "claimed" /\ r \in aged -> [at |-> "answer", row |-> "UNKNOWN"]
      [] OTHER -> [at |-> "judge", row |-> "none"]

Judge(w) ==
    /\ At(w, "judge")
    /\ LET v == Verdict(Current(w), worker[w].now)
           act == v.at # "judge" /\ worker[w].left > 0
       IN \/ /\ act /\ UNCHANGED faults
             /\ worker' = [worker EXCEPT ![w].at = v.at, ![w].row = v.row, ![w].left = @ - 1]
          \/ ~act /\ Skip(w) /\ UNCHANGED faults
          \/ act /\ Fault /\ Skip(w)  \* the marker could not be read
    /\ UNCHANGED <<time, marker, runs, board, lock, lapses>>

\* SET of a run marker.  With a lost reply it has happened or not, and the request is passed over.
Mark(w, m, s) ==
    /\ \/ marker' = [marker EXCEPT ![Current(w)] = m] /\ Go(w, s) /\ UNCHANGED faults
       \/ /\ Fault /\ Skip(w)
          /\ marker' \in {marker, [marker EXCEPT ![Current(w)] = m]}
    /\ UNCHANGED <<time, runs, board, lock, lapses>>

\* Faulty variant of the next: the refusal's marker is set over another's.
RefuseOver(w) == At(w, "refuse") /\ Mark(w, "answering", "renew")

\* A refusal takes the marker a claim would take.
Refuse(w) ==
    /\ At(w, "refuse")
    /\ IF marker[Current(w)] = "none" THEN Mark(w, "answering", "renew")
       ELSE Skip(w) /\ UNCHANGED <<time, marker, runs, board, lock, faults, lapses>>

\* Faulty variant of the next: the claim is read and then set.
ClaimOver(w) ==
    At(w, "claim") /\ Mark(w, "claimed", IF Current(w) \in Probes THEN "receipt" ELSE "run")

\* A claim lost to another execution is judged again, by that execution's marker.
Claim(w) ==
    /\ At(w, "claim")
    /\ IF marker[Current(w)] = "none"
       THEN Mark(w, "claimed", IF Current(w) \in Probes THEN "receipt" ELSE "run")
       ELSE Go(w, "judge") /\ UNCHANGED <<time, marker, runs, board, lock, faults, lapses>>

\* The receipt of a probe, unless it has one.
Receipt(w) ==
    /\ At(w, "receipt")
    /\ IF receipts[Current(w)] = 0
       THEN worker' = [worker EXCEPT ![w].at = "renew", ![w].row = "RECEIPT"]
       ELSE Go(w, "run")
    /\ UNCHANGED <<time, marker, runs, board, lock, faults, lapses>>

\* The operation, whatever it returns.
Run(w) ==
    /\ At(w, "run")
    /\ runs' = [runs EXCEPT ![Current(w)] = @ + 1]
    /\ worker' = [worker EXCEPT ![w].at = "answer", ![w].row = "OK"]
    /\ UNCHANGED <<time, marker, board, lock, faults, lapses>>

\* Faulty variant of the next: the marker is set once the row was read back.
AnswerUnmarked(w) ==
    At(w, "answer") /\ Go(w, "renew") /\ UNCHANGED <<time, marker, runs, board, lock, faults, lapses>>

\* The marker is set before the row is tried, over the claim.
Answer(w) == At(w, "answer") /\ Mark(w, "answering", "renew")

\* The lock is renewed before every row; without it the pass ends.
Renew(w) ==
    /\ At(w, "renew")
    /\ \/ Renewed(w) /\ Go(w, "append")
       \/ NotRenewed(w) /\ EndPass(w)
    /\ UNCHANGED <<time, marker, runs, board, lapses>>

\* One attempt to write the row, read back.  Only a row read back exactly once is
\* confirmed; otherwise the pass ends.
Append1(w) ==
    /\ At(w, "append")
    /\ LET r == Current(w)
           receipt == worker[w].row = "RECEIPT"
           alone == IF receipt THEN receipts[r] = 0 ELSE results[r] = <<>>
           Lands == IF receipt THEN receipts' = [receipts EXCEPT ![r] = @ + 1] /\ UNCHANGED results
                    ELSE results' = [results EXCEPT ![r] = Append(@, worker[w].row)] /\ UNCHANGED receipts
       IN \/ Lands /\ alone /\ Go(w, IF receipt THEN "run" ELSE "done") /\ UNCHANGED faults
          \/ Lands /\ ~alone /\ EndPass(w) /\ UNCHANGED faults
          \/ Lands /\ alone /\ EndPass(w) /\ Fault
          \/ UNCHANGED board /\ EndPass(w) /\ Fault
    /\ UNCHANGED <<time, marker, runs, lock, lapses>>

\* The row was read back.
Done(w) ==
    /\ At(w, "done")
    /\ \/ marker' = [marker EXCEPT ![Current(w)] = "answered"] /\ UNCHANGED faults
       \/ UNCHANGED marker /\ Fault
    /\ Skip(w)
    /\ UNCHANGED <<time, runs, board, lock, lapses>>

-----------------------------------------------------------------------------
(* Executions end, the schedule launches others, locks lapse, time passes. *)

\* The end of a run, after a pass or at its deadline.
Stop(w) ==
    /\ At(w, "idle") /\ lock = w
    /\ Go(w, "over") /\ lock' = Nobody
    /\ UNCHANGED <<time, marker, runs, board, faults, lapses>>

Die(w) ==
    /\ worker[w].at \notin {"over", "waiting"}
    /\ Fault
    /\ worker' = [worker EXCEPT ![w] = [Waiting EXCEPT !.at = "over"]]
    /\ UNCHANGED <<time, marker, runs, board, lock, lapses>>

\* The next scheduled execution, under a name that holds no lock.
Launch(w) ==
    /\ At(w, "over") /\ lock # w
    /\ Go(w, "waiting")
    /\ UNCHANGED <<time, marker, runs, board, lock, faults, lapses>>

LapseOfDead ==
    /\ lock # Nobody /\ worker[lock].at = "over"
    /\ lock' = Nobody
    /\ UNCHANGED <<time, marker, runs, board, worker, faults, lapses>>

\* The holder was held up for longer than the lock lives.
Lapse ==
    /\ lock # Nobody /\ worker[lock].at # "over"
    /\ lapses < MaxLapses /\ lapses' = lapses + 1
    /\ lock' = Nobody
    /\ UNCHANGED <<time, marker, runs, board, worker, faults>>

Stale(r) == r \notin old /\ old' = old \cup {r} /\ UNCHANGED <<aged, marker, runs, board, lock, worker, faults, lapses>>
Grace(r) ==
    /\ marker[r] = "claimed" /\ r \notin aged
    /\ aged' = aged \cup {r}
    /\ UNCHANGED <<old, marker, runs, board, lock, worker, faults, lapses>>

Step(w) ==
    \/ Take(w) \/ Keep(w) \/ Read(w) \/ Judge(w) \/ Refuse(w) \/ Claim(w) \/ Receipt(w)
    \/ Run(w) \/ Answer(w) \/ Renew(w) \/ Append1(w) \/ Done(w)
Next ==
    \/ \E w \in Workers : Step(w) \/ Stop(w) \/ Die(w) \/ Launch(w)
    \/ LapseOfDead \/ Lapse
    \/ \E r \in Requests : Stale(r) \/ Grace(r)

Spec == Init /\ [][Next]_vars

\* An execution that lives goes on, the schedule launches the next, a lock nobody renews
\* lapses, a claim ages.
FairSpec ==
    /\ Spec
    /\ \A w \in Workers : WF_vars(Step(w)) /\ WF_vars(Launch(w))
    /\ WF_vars(LapseOfDead)
    /\ \A r \in Requests : WF_vars(Grace(r))

-----------------------------------------------------------------------------
(* Properties.                                                             *)

Posted(r) == {results[r][k] : k \in 1..Len(results[r])}

\* The operation of a request is run at most once, whoever dies, whoever holds the lock
\* and whatever reply is lost.
OpOnce == \A r \in Requests : runs[r] <= 1

\* A row that says the request was refused is true for good; a row that carries a
\* result was run for.
RowsAreTrue ==
    \A r \in Requests : /\ "REFUSED" \in Posted(r) => runs[r] = 0
                        /\ "OK" \in Posted(r) => runs[r] = 1

\* A request's RESULT Row_ID is appended at most once: what bus_request.py says of the
\* marker's states.
ResultOnce == \A r \in Requests : Len(results[r]) <= 1

\* The same, as long as no lock lapsed under an execution that lived.
ResultOnceUnderLock == lapses = 0 => ResultOnce

\* No request stays unjudged or claimed: it is answered or an answer was tried, through
\* deaths, lost replies, a budget smaller than the board and a change of the lock's hands.
EveryRequestEnds == \A r \in Requests : <>(marker[r] \in {"answering", "answered"})

\* Markers, runs and rows agree: no request is run twice, and a row on the board tells
\* what became of its request.
RequestsInv == TypeOK /\ OpOnce /\ RowsAreTrue
=============================================================================
