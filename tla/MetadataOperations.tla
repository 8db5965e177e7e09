-------------------------- MODULE MetadataOperations --------------------------
(***************************************************************************)
(* The studio controller's ledger of confirmed provider writes,            *)
(* metadata_operations.py, and the adapter that carries one out,           *)
(* metadata_provider.py.  The ledger is one document per organization,     *)
(* saved by generation compare-and-swap.  An adapter is one process; it    *)
(* issues a budget per operation, a capability whose phase says which call *)
(* may come next, and calls the provider, which may lose answers and carry *)
(* out a create late.                                                      *)
(*                                                                         *)
(* A ledger call loads, decides and saves; a save that lost the race       *)
(* changes nothing and is not a step.  A save whose outcome is unknown has *)
(* landed or not, and its caller knows neither.  Timestamps are left out:  *)
(* audit is the order of the transitions, late and alive stand for the     *)
(* expiry of the plan and of the budget.                                   *)
(***************************************************************************)
EXTENDS Integers, Sequences, FiniteSets

CONSTANTS Ops,         \* operation ids
          Fields,      \* canonical targets
          TargetOf,    \* TargetOf[o]: the target of the plan of o
          Adapters,    \* server processes
          Workers,     \* threads
          Home,        \* Home[w]: the process w belongs to
          Nobody,
          Someone,     \* whoever else creates fields in the organization
          MaxCommands, \* MAX_COMMANDS: more than the commands of the longest operation
          MaxOperations, \* MAX_OPERATIONS
          Instances,   \* bound: the operations asked for and the threads that run, together
          MaxFaults    \* bound: saves of unknown outcome, failed loads, and crashes

ASSUME NamesAssumption == Nobody \notin Ops /\ Someone \notin Ops /\ Nobody \notin Adapters
ASSUME MapsAssumption == TargetOf \in [Ops -> Fields] /\ Home \in [Workers -> Adapters]
ASSUME BoundsAssumption ==
    /\ \A i \in Instances : i.ops \subseteq Ops /\ i.threads \subseteq Workers
    /\ MaxCommands \in Nat /\ MaxCommands >= 6
    /\ MaxOperations \in Nat \ {0} /\ MaxFaults \in Nat

VARIABLES rec,     \* the ledger's operations; an empty audit is no operation
          holder,  \* the ledger's targets
          org,     \* org[f]: who created f in the organization, if anyone
          flying,  \* creates that were sent and neither carried out nor dropped
          sent,    \* history: how many creates were sent for an operation
          made,    \* history: operations whose create was carried out
          budget,  \* budget[a][o], a process's capability for an operation
          call,    \* call[w], where a thread is in a call
          late,    \* operations whose plan has expired
          faults

ledger == <<rec, holder>>
provider == <<org, flying, sent, made>>
vars == <<ledger, provider, budget, call, late, faults>>

Terminal == {"succeeded", "failed", "outcome_unknown"}
States == {"prepared", "confirmed", "executing", "verify_pending"} \cup Terminal
Releasing == {"precondition_rejected", "cancelled_before_dispatch", "provider_rejected_no_change"}
Unknowns == {"interrupted", "verification_unavailable", "ambiguous_dispatch", "verification_mismatch"}
Reasons == Releasing \cup Unknowns \cup {"none", "preexisting_target"}
Acts == {"preflight", "begin", "dispatch_result", "verify"}
Saw == {"none", "absent", "present"}
Phases == {"none", "created", "preflight_running", "preflighted", "preflight_committed",
           "reserved", "dispatching", "dispatched", "dispatch_committed", "verify_running",
           "verification_ready", "terminal"}
Running == {"preflight_running", "dispatching", "verify_running"}
Results == {"none", "accepted", "rejected", "ambiguous", "match", "mismatch", "unavailable"}
NotBuilt == -1

RecType == [audit : Seq(States), pre : Saw, preBy : Adapters \cup {Nobody}, attempts : 0..1,
            accepted : BOOLEAN, observed : BOOLEAN, reason : Reasons,
            commands : SUBSET (Adapters \X Acts)]
BudgetType == [phase : Phases, alive : BOOLEAN, saw : Saw, result : Results, verdict : Results,
               permit : {"none", "live", "spent"}, cmd : [Acts -> {NotBuilt} \cup 0..MaxCommands]]
CallType == [step : {"off", "idle", "preflight", "reserve", "began", "describe", "create", "waiting",
                     "verify"}, op : Ops \cup {Nobody}]

TypeOK ==
    /\ rec \in [Ops -> RecType] /\ holder \in [Fields -> Ops \cup {Nobody}]
    /\ org \in [Fields -> Ops \cup {Nobody, Someone}]
    /\ flying \subseteq Ops /\ made \subseteq Ops /\ sent \in [Ops -> Nat]
    /\ budget \in [Adapters -> [Ops -> BudgetType]]
    /\ call \in [Workers -> CallType]
    /\ \A w \in Workers : call[w].op = Nobody <=> call[w].step \in {"off", "idle"}
    /\ late \subseteq Ops /\ faults \in 0..MaxFaults

NoRec == [audit |-> <<>>, pre |-> "none", preBy |-> Nobody, attempts |-> 0, accepted |-> FALSE,
          observed |-> FALSE, reason |-> "none", commands |-> {}]
NoBudget == [phase |-> "none", alive |-> TRUE, saw |-> "none", result |-> "none",
             verdict |-> "none", permit |-> "none", cmd |-> [c \in Acts |-> NotBuilt]]
Idle == [step |-> "idle", op |-> Nobody]
Off == [step |-> "off", op |-> Nobody]

Init ==
    /\ rec = [o \in Ops |-> NoRec] /\ holder = [f \in Fields |-> Nobody]
    /\ org = [f \in Fields |-> Nobody]
    /\ flying = {} /\ made = {} /\ sent = [o \in Ops |-> 0]
    /\ budget = [a \in Adapters |-> [o \in Ops |-> NoBudget]]
    /\ \E i \in Instances : /\ call = [w \in Workers |-> IF w \in i.threads THEN Idle ELSE Off]
                           /\ late = Ops \ i.ops
    /\ faults = 0

-----------------------------------------------------------------------------
(* The ledger.                                                             *)

Known == {o \in Ops : rec[o].audit # <<>>}
State(o) == IF o \in Known THEN rec[o].audit[Len(rec[o].audit)] ELSE "none"
Revision(o) == Len(rec[o].audit) - 1
StateOf(r) == r.audit[Len(r.audit)]

HoldsTarget(r) == ~(StateOf(r) = "failed" /\ r.reason \in Releasing)

\* Faulty variant of the next: an operation that ends without a change keeps the
\* target in the index.
SaveKeepsTarget(o, r) == rec' = [rec EXCEPT ![o] = r] /\ UNCHANGED holder

\* Record and index of targets are one document.
Save(o, r) ==
    /\ rec' = [rec EXCEPT ![o] = r]
    /\ holder' = IF HoldsTarget(r) THEN holder ELSE [holder EXCEPT ![TargetOf[o]] = Nobody]

Move(o, to) == [rec[o] EXCEPT !.audit = Append(@, to)]

\* The caller's transitions.
Prepare(o) ==
    /\ o \notin Known /\ o \notin late
    /\ holder[TargetOf[o]] = Nobody
    /\ Cardinality(Known) < MaxOperations
    /\ rec' = [rec EXCEPT ![o].audit = <<"prepared">>]
    /\ holder' = [holder EXCEPT ![TargetOf[o]] = o]
    /\ UNCHANGED <<provider, budget, call, late, faults>>

Confirm(o) ==
    /\ State(o) = "prepared" /\ o \notin late
    /\ Save(o, Move(o, "confirmed"))
    /\ UNCHANGED <<provider, budget, call, late, faults>>

\* Faulty variant of the next: an executing operation can be cancelled.
AbortLate(o) ==
    /\ State(o) \in {"prepared", "confirmed", "executing"}
    /\ \E why \in {"precondition_rejected", "cancelled_before_dispatch"} :
          Save(o, [Move(o, "failed") EXCEPT !.reason = why])
    /\ UNCHANGED <<provider, budget, call, late, faults>>

Abort(o) ==
    /\ State(o) \in {"prepared", "confirmed"}
    /\ \E why \in {"precondition_rejected", "cancelled_before_dispatch"} :
          Save(o, [Move(o, "failed") EXCEPT !.reason = why])
    /\ UNCHANGED <<provider, budget, call, late, faults>>

\* An operator gives up on an operation a process left behind, for one of the
\* reasons the command admits.
Unknown(o) ==
    /\ State(o) \in {"executing", "verify_pending"}
    /\ Save(o, [Move(o, "outcome_unknown") EXCEPT !.reason = "interrupted"])
    /\ UNCHANGED <<provider, budget, call, late, faults>>

-----------------------------------------------------------------------------
(* A command of an adapter.  Its id names the process and the action, so   *)
(* that a retry is the same command.                                       *)

Id(a, act) == <<a, act>>
Replays(a, o, act) == Id(a, act) \in rec[o].commands

SetBudget(a, o, b) == budget' = [budget EXCEPT ![a][o] = b]
Phase(a, o, p) == [budget[a][o] EXCEPT !.phase = p]
Goes(w, step, o) == call' = [call EXCEPT ![w] = [step |-> step, op |-> o]]
\* Faulty variant of the next: a thread keeps the budget of its last call.
ReturnsWith(w) == call' = [call EXCEPT ![w].step = "idle"]
Returns(w) == call' = [call EXCEPT ![w] = Idle]
Free(w) == call[w].step = "idle"
At(w, step, o) == call[w].step = step /\ call[w].op = o

\* A command is built once, for the revision that was read; a retry sends it again.
Built(b, act, o) == IF b.cmd[act] = NotBuilt THEN [b EXCEPT !.cmd[act] = Revision(o)] ELSE b

\* The caller is told that r was saved, by Told; or it is not told whether it was.
Outcome(o, r, Told, NotTold) ==
    \/ Save(o, r) /\ Told /\ UNCHANGED faults
    \/ /\ faults < MaxFaults /\ faults' = faults + 1
       /\ NotTold
       /\ Save(o, r) \/ UNCHANGED ledger

\* What apply admits before it looks at the transition.
Admits(o, b, act) == b.cmd[act] = Revision(o) /\ Len(rec[o].audit) < MaxCommands

\* apply for a command whose answer only moves the phase of the budget.
Apply(a, o, act, to, changed, phase) ==
    LET b == Built(budget[a][o], act, o)
        r == [changed EXCEPT !.audit = Append(@, to), !.commands = @ \cup {Id(a, act)}]
        Told == SetBudget(a, o, [b EXCEPT !.phase = phase]) IN
    \/ Replays(a, o, act) /\ Told /\ UNCHANGED <<ledger, faults>>
    \/ /\ ~Replays(a, o, act) /\ Admits(o, b, act)
       /\ Outcome(o, r, Told, SetBudget(a, o, b))

-----------------------------------------------------------------------------
(* The adapter.                                                            *)

\* Not cancelled, before the deadline, and the plan has not expired.
Alive(a, o) == budget[a][o].alive /\ o \notin late

IssueBudget(w, o) ==
    /\ Free(w) /\ Alive(Home[w], o)
    /\ State(o) = "confirmed" /\ rec[o].pre = "none" /\ rec[o].attempts = 0
    /\ budget[Home[w]][o].phase = "none"
    /\ SetBudget(Home[w], o, [NoBudget EXCEPT !.phase = "created"])
    /\ UNCHANGED <<ledger, provider, call, late, faults>>

\* _begin_phase spends a dead budget: b is what becomes of it then.
Enter(w, o, running, step, b) ==
    IF Alive(Home[w], o)
    THEN SetBudget(Home[w], o, Phase(Home[w], o, running)) /\ Goes(w, step, o)
    ELSE SetBudget(Home[w], o, b) /\ UNCHANGED call

PreflightStart(w, o) ==
    /\ Free(w) /\ budget[Home[w]][o].phase = "created"
    /\ Enter(w, o, "preflight_running", "preflight", Phase(Home[w], o, "terminal"))
    /\ UNCHANGED <<ledger, provider, late, faults>>

\* Whatever was read, a read may fail or the budget die before it is complete.
PreflightRead(w, o) ==
    LET a == Home[w]
        there == IF org[TargetOf[o]] = Nobody THEN "absent" ELSE "present" IN
    /\ At(w, "preflight", o) /\ Returns(w)
    /\ \/ Alive(a, o) /\ SetBudget(a, o, [Phase(a, o, "preflighted") EXCEPT !.saw = there])
       \/ SetBudget(a, o, Phase(a, o, "terminal"))
    /\ UNCHANGED <<ledger, provider, late, faults>>

\* The recorded preflight is this budget's own.
OwnPreflight(a, o) == rec[o].pre = budget[a][o].saw /\ rec[o].preBy = a

CommitPreflight(w, o) ==
    LET a == Home[w]
        b == budget[a][o]
        first == b.cmd["preflight"] = NotBuilt
        awaiting == State(o) = "confirmed" /\ rec[o].pre = "none"
        with == [rec[o] EXCEPT !.pre = b.saw, !.preBy = a]
    IN
    /\ Free(w)
    /\ b.phase = "preflighted" \/ (b.phase = "terminal" /\ ~first)
    /\ awaiting \/ (~first /\ Replays(a, o, "preflight") /\ OwnPreflight(a, o)
                              /\ State(o) \in {"confirmed", "failed"})
    /\ IF first /\ ~Alive(a, o)
       THEN SetBudget(a, o, Phase(a, o, "terminal")) /\ UNCHANGED <<ledger, faults>>
       ELSE \/ /\ b.saw = "absent"
               /\ Apply(a, o, "preflight", "confirmed", with, "preflight_committed")
            \/ /\ b.saw = "present"
               /\ Apply(a, o, "preflight", "failed", [with EXCEPT !.reason = "preexisting_target"],
                        "terminal")
    /\ UNCHANGED <<provider, call, late>>

\* reserve_dispatch: the snapshot, the begin command, and the read after it.
ReserveSnapshot(w, o) ==
    LET a == Home[w] IN
    /\ Free(w) /\ budget[a][o].phase = "preflight_committed"
    /\ State(o) = "confirmed" /\ OwnPreflight(a, o) /\ rec[o].pre = "absent" /\ rec[o].attempts = 0
    /\ IF budget[a][o].cmd["begin"] = NotBuilt /\ ~Alive(a, o)
       THEN SetBudget(a, o, Phase(a, o, "terminal")) /\ UNCHANGED call
       ELSE SetBudget(a, o, Built(budget[a][o], "begin", o)) /\ Goes(w, "reserve", o)
    /\ UNCHANGED <<ledger, provider, late, faults>>

\* Only the call whose save began the execution is allowed a dispatch.
ReserveApply(w, o) ==
    LET a == Home[w]
        r == [rec[o] EXCEPT !.audit = Append(@, "executing"), !.attempts = 1,
                            !.commands = @ \cup {Id(a, "begin")}]
        begins == ~Replays(a, o, "begin") /\ Admits(o, budget[a][o], "begin")
                  /\ State(o) = "confirmed" /\ rec[o].attempts = 0 /\ rec[o].pre = "absent"
    IN
    /\ At(w, "reserve", o)
    /\ \/ begins /\ Outcome(o, r, Goes(w, "began", o), Returns(w)) /\ UNCHANGED budget
       \/ /\ Replays(a, o, "begin")
          /\ SetBudget(a, o, Phase(a, o, "terminal")) /\ Returns(w) /\ UNCHANGED <<ledger, faults>>
       \/ /\ ~begins /\ ~Replays(a, o, "begin")
          /\ Returns(w) /\ UNCHANGED <<ledger, budget, faults>>
    /\ UNCHANGED <<provider, late>>

ReserveCheck(w, o) ==
    LET a == Home[w] IN
    /\ At(w, "began", o) /\ Returns(w)
    /\ \/ /\ UNCHANGED faults
          /\ IF State(o) = "executing" /\ Revision(o) = budget[a][o].cmd["begin"] + 1
             THEN SetBudget(a, o, [Phase(a, o, "reserved") EXCEPT !.permit = "live"])
             ELSE SetBudget(a, o, Phase(a, o, "terminal"))
       \/ faults < MaxFaults /\ faults' = faults + 1 /\ UNCHANGED budget
    /\ UNCHANGED <<ledger, provider, late>>

With(a, o, result) == [Phase(a, o, "dispatched") EXCEPT !.result = result, !.permit = "spent"]

\* dispatch_once consumes the permit before anything else.
Dispatch(w, o) ==
    LET a == Home[w] IN
    /\ Free(w) /\ budget[a][o].permit = "live"
    /\ IF budget[a][o].phase # "reserved"
       THEN SetBudget(a, o, [budget[a][o] EXCEPT !.permit = "spent"]) /\ UNCHANGED call
       ELSE /\ SetBudget(a, o, IF Alive(a, o) THEN [Phase(a, o, "dispatching") EXCEPT !.permit = "spent"]
                               ELSE With(a, o, "rejected"))
            /\ IF Alive(a, o) THEN Goes(w, "describe", o) ELSE UNCHANGED call
    /\ UNCHANGED <<ledger, provider, late, faults>>

DispatchRead(w, o) ==
    LET a == Home[w] IN
    /\ At(w, "describe", o)
    /\ \/ Alive(a, o) /\ org[TargetOf[o]] = Nobody /\ Goes(w, "create", o) /\ UNCHANGED budget
       \/ SetBudget(a, o, With(a, o, "rejected")) /\ Returns(w)
    /\ UNCHANGED <<ledger, provider, late, faults>>

\* From here on the create may have been sent.
Create(w, o) ==
    /\ At(w, "create", o) /\ Goes(w, "waiting", o)
    /\ flying' = flying \cup {o} /\ sent' = [sent EXCEPT ![o] = @ + 1]
    /\ UNCHANGED <<ledger, org, made, budget, late, faults>>

\* Faulty variants of the next: an exception is taken for a refusal, for an
\* acknowledgement, or tried again.
UnansweredRejected(w, o) ==
    call[w].step \in {"create", "waiting"} /\ Returns(w)
    /\ SetBudget(Home[w], o, With(Home[w], o, "rejected"))
UnansweredAccepted(w, o) ==
    call[w].step \in {"create", "waiting"} /\ Returns(w)
    /\ SetBudget(Home[w], o, With(Home[w], o, "accepted"))
UnansweredRetried(w, o) ==
    call[w].step = "waiting" /\ Goes(w, "create", o) /\ UNCHANGED budget
\* An exception, an answer that is not the acknowledgement, a session that did not
\* close, or a budget that died: the create may be carried out all the same.
Unanswered(w, o) ==
    call[w].step \in {"create", "waiting"} /\ Returns(w)
    /\ SetBudget(Home[w], o, With(Home[w], o, "ambiguous"))

Answer(w, o) ==
    /\ call[w].op = o
    /\ \/ Unanswered(w, o)
       \/ /\ call[w].step = "waiting" /\ o \in made /\ Alive(Home[w], o) /\ Returns(w)
          /\ SetBudget(Home[w], o, With(Home[w], o, "accepted"))
    /\ UNCHANGED <<ledger, provider, late, faults>>

CommitDispatchResult(w, o) ==
    LET a == Home[w]
        result == budget[a][o].result IN
    /\ Free(w) /\ budget[a][o].phase = "dispatched"
    /\ Replays(a, o, "dispatch_result") \/ State(o) = "executing"
    /\ \/ /\ result = "accepted"
          /\ Apply(a, o, "dispatch_result", "verify_pending", [rec[o] EXCEPT !.accepted = TRUE],
                   "dispatch_committed")
       \/ /\ result = "rejected"
          /\ Apply(a, o, "dispatch_result", "failed",
                   [rec[o] EXCEPT !.reason = "provider_rejected_no_change"], "terminal")
       \/ /\ result = "ambiguous"
          /\ Apply(a, o, "dispatch_result", "outcome_unknown",
                   [rec[o] EXCEPT !.reason = "ambiguous_dispatch"], "terminal")
    /\ UNCHANGED <<provider, call, late>>

Verdict(a, o, verdict) == [Phase(a, o, "verification_ready") EXCEPT !.verdict = verdict]

VerifyStart(w, o) ==
    /\ Free(w) /\ budget[Home[w]][o].phase = "dispatch_committed"
    /\ Enter(w, o, "verify_running", "verify", Verdict(Home[w], o, "unavailable"))
    /\ UNCHANGED <<ledger, provider, late, faults>>

\* Faulty variant of the next: a failed load leaves the phase running.
UnavailableStuck(a, o) == UNCHANGED budget
\* The ledger or the provider could not be read.
Unavailable(a, o) == SetBudget(a, o, Verdict(a, o, "unavailable"))

\* Somebody else's field may be the very same field.
VerifyRead(w, o) ==
    LET a == Home[w]
        there == org[TargetOf[o]] IN
    /\ At(w, "verify", o) /\ Returns(w)
    /\ \/ Unavailable(a, o)
       \/ /\ State(o) = "verify_pending" /\ Alive(a, o)
          /\ \/ there \in {o, Someone} /\ SetBudget(a, o, Verdict(a, o, "match"))
             \/ there # o /\ SetBudget(a, o, Verdict(a, o, "mismatch"))
    /\ UNCHANGED <<ledger, provider, late, faults>>

CommitVerification(w, o) ==
    LET a == Home[w]
        verdict == budget[a][o].verdict
        reason == IF verdict = "mismatch" THEN "verification_mismatch" ELSE "verification_unavailable"
    IN
    /\ Free(w) /\ verdict # "none" /\ budget[a][o].phase \in {"verification_ready", "terminal"}
    /\ Replays(a, o, "verify") \/ State(o) = "verify_pending"
    /\ IF verdict = "match"
       THEN Apply(a, o, "verify", "succeeded", [rec[o] EXCEPT !.observed = TRUE], "terminal")
       ELSE Apply(a, o, "verify", "outcome_unknown", [rec[o] EXCEPT !.reason = reason], "terminal")
    /\ UNCHANGED <<provider, call, late>>

-----------------------------------------------------------------------------
(* The provider, time, and processes that die.                             *)

\* A create that was sent is carried out, unless the field is there by then.
Land(o) ==
    /\ o \in flying /\ flying' = flying \ {o}
    /\ IF org[TargetOf[o]] = Nobody
       THEN org' = [org EXCEPT ![TargetOf[o]] = o] /\ made' = made \cup {o}
       ELSE UNCHANGED <<org, made>>
    /\ UNCHANGED <<ledger, sent, budget, call, late, faults>>

Drop(o) ==
    /\ o \in flying /\ flying' = flying \ {o}
    /\ UNCHANGED <<ledger, org, sent, made, budget, call, late, faults>>

\* Somebody else creates or removes the field.
Meddle(f) ==
    /\ org' = [org EXCEPT ![f] = IF @ = Nobody THEN Someone ELSE Nobody]
    /\ UNCHANGED <<ledger, flying, sent, made, budget, call, late, faults>>

\* The deadline of a budget passes, or it is cancelled.
Expire(a, o) ==
    /\ budget[a][o].phase \notin {"none", "terminal"} /\ budget[a][o].alive
    /\ SetBudget(a, o, [budget[a][o] EXCEPT !.alive = FALSE])
    /\ UNCHANGED <<ledger, provider, call, late, faults>>

PlanExpires(o) ==
    /\ o \in Known \ late /\ late' = late \cup {o}
    /\ UNCHANGED <<ledger, provider, budget, call, faults>>

Threads(a) == {w \in Workers : Home[w] = a /\ call[w] # Off}
Crash(a) ==
    /\ Threads(a) # {}
    /\ faults < MaxFaults /\ faults' = faults + 1
    /\ budget' = [budget EXCEPT ![a] = [o \in Ops |-> NoBudget]]
    /\ call' = [w \in Workers |-> IF w \in Threads(a) THEN Idle ELSE call[w]]
    /\ UNCHANGED <<ledger, provider, late>>

\* The steps of a call that was entered.
InCall(w) == \E o \in Ops : PreflightRead(w, o) \/ ReserveApply(w, o) \/ ReserveCheck(w, o)
                             \/ DispatchRead(w, o) \/ Create(w, o) \/ Answer(w, o) \/ VerifyRead(w, o)

Next ==
    \/ \E o \in Ops : \/ Prepare(o) \/ Confirm(o) \/ Abort(o) \/ Unknown(o)
                      \/ Land(o) \/ Drop(o) \/ PlanExpires(o)
    \/ \E w \in Workers, o \in Ops :
          \/ IssueBudget(w, o) \/ PreflightStart(w, o) \/ CommitPreflight(w, o)
          \/ ReserveSnapshot(w, o) \/ Dispatch(w, o) \/ CommitDispatchResult(w, o)
          \/ VerifyStart(w, o) \/ CommitVerification(w, o)
    \/ \E w \in Workers : InCall(w)
    \/ \E a \in Adapters : Crash(a) \/ \E o \in Ops : Expire(a, o)
    \/ \E f \in Fields : Meddle(f)

Spec == Init /\ [][Next]_vars

-----------------------------------------------------------------------------
(* What validate_ledger accepts, on loading and before saving.             *)

Edges == {<<"prepared", "confirmed">>, <<"prepared", "failed">>, <<"confirmed", "confirmed">>,
          <<"confirmed", "executing">>, <<"confirmed", "failed">>, <<"executing", "verify_pending">>,
          <<"executing", "failed">>, <<"executing", "outcome_unknown">>,
          <<"verify_pending", "succeeded">>, <<"verify_pending", "outcome_unknown">>}

ReasonsFor(r) ==
    CASE StateOf(r) = "outcome_unknown" -> Unknowns
      [] StateOf(r) = "failed" -> IF r.attempts = 1 THEN {"provider_rejected_no_change"}
                                  ELSE {"precondition_rejected", "cancelled_before_dispatch", "preexisting_target"}
      [] OTHER -> {"none"}

ValidRecord(r) ==
    LET s == StateOf(r)
        steps == [i \in 1..(Len(r.audit) - 1) |-> <<r.audit[i], r.audit[i + 1]>>]
        times(edge) == Cardinality({i \in DOMAIN steps : steps[i] = edge})
        existed == s = "failed" /\ r.reason = "preexisting_target"
        looked == times(<<"confirmed", "confirmed">>) + (IF existed THEN 1 ELSE 0)
    IN
    /\ r.audit[1] = "prepared" /\ Len(r.audit) <= MaxCommands
    /\ \A i \in DOMAIN steps : steps[i] \in Edges
    /\ r.attempts = times(<<"confirmed", "executing">>)
    /\ r.attempts = 1 => r.pre = "absent"
    /\ r.attempts = IF s \in {"prepared", "confirmed"} THEN 0
                    ELSE IF s = "failed" THEN r.attempts ELSE 1
    /\ r.accepted <=> times(<<"executing", "verify_pending">>) = 1
    /\ s \in {"verify_pending", "succeeded"} => r.accepted
    /\ s \in {"executing", "failed"} => ~r.accepted
    /\ r.reason \in ReasonsFor(r)
    /\ r.pre = "present" <=> existed
    /\ looked = IF r.pre = "none" THEN 0 ELSE 1
    /\ r.observed <=> s = "succeeded"
    /\ r.reason = "verification_mismatch" => r.accepted
    /\ r.reason = "ambiguous_dispatch" => ~r.accepted

ValidLedger ==
    /\ Cardinality(Known) <= MaxOperations
    /\ \A o \in Known : ValidRecord(rec[o])
    /\ \A f \in Fields :
          LET holds == {o \in Known : TargetOf[o] = f /\ HoldsTarget(rec[o])}
          IN IF holds = {} THEN holder[f] = Nobody ELSE holds = {holder[f]}

-----------------------------------------------------------------------------
(* Properties.                                                             *)

\* "Only a fresh successful begin CAS returns dispatch_allowed": whatever is
\* retried, replayed, lost or restarted, an operation's create is sent once.
CreatedOnce == \A o \in Ops : sent[o] <= 1

\* The ledger calls a dispatch accepted only when the create was carried out.
AcceptedWasMade == \A o \in Known : rec[o].accepted => o \in made

\* No history of commands writes a ledger that the next load would refuse, which
\* would shut every operation of the organization out.
LedgerReadable == ValidLedger

\* The calls of the adapter over the ledger implement one confirmed write.
Promise == INSTANCE ConfirmedWrite WITH
    asked <- Known,
    agreed <- {o \in Known : \E i \in DOMAIN rec[o].audit : rec[o].audit[i] = "confirmed"},
    granted <- {o \in Known : rec[o].attempts = 1},
    sent <- {o \in Ops : sent[o] > 0},
    hold <- holder
ImplementsConfirmedWrite == Promise!Spec

\* No failed read and no failed load leaves a budget in the middle of a call that
\* no thread is in any more, from where no further call is admitted.
CallsComeBack ==
    \A a \in Adapters, o \in Ops : budget[a][o].phase \in Running =>
        \E w \in Threads(a) : call[w].op = o /\ call[w].step # "reserve"

\* The adapter's budgets and the ledger agree: what was accepted was made, no budget is
\* left in a call that is over, and the next load accepts what was saved.
MetadataInv == TypeOK /\ LedgerReadable /\ AcceptedWasMade /\ CallsComeBack
=============================================================================
