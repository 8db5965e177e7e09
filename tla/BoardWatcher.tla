----------------------------- MODULE BoardWatcher -----------------------------
(***************************************************************************)
(* The board watcher, cloud/board-watcher/main.py: the one thing on a      *)
(* timer.  A tick reads the board from its watermark, asks each route      *)
(* which rows are for it, and starts that route's job.  Its memory is one  *)
(* object saved by compare-and-swap; it also carries the lease of the tick *)
(* that may start jobs.  The jobs record in cursors of their own what they *)
(* answered, and only those cursors end a row's wait.                      *)
(*                                                                         *)
(* As in AgentWaker a tick's copy of the object is not modelled: it is the *)
(* object while nobody else saved (fresh), and a stale tick changes        *)
(* nothing but for a start it had already read the lease back for.         *)
(***************************************************************************)
EXTENDS Integers, FiniteSets, FiniteSetsExt

CONSTANTS Rows,       \* Row_IDs
          Jobs,       \* routes
          NoJob,
          Ticks,      \* executions of the watcher that may be alive at one time
          Nobody,
          Wants,      \* Wants[j]: rows the predicate of route j accepts
          Odd,        \* Odd[j]: rows it raises on
          Lease,      \* LEASE_SECONDS
          TaskTime,   \* task timeout of the watcher
          Overlap,    \* OVERLAP_MINUTES
          Lag,        \* bound: how long after its timestamp a row is on the board
          Settings,   \* surroundings and bounds the watcher is run against
          MaxFaults   \* bound: ticks that die, lookups and starts that fail

ASSUME JobsAssumption == NoJob \notin Jobs
ASSUME RoutesAssumption == /\ Wants \in [Jobs -> SUBSET Rows]
                           /\ Odd \in [Jobs -> SUBSET Rows]
                           /\ \A j \in Jobs : Wants[j] \cap Odd[j] = {}
ASSUME TicksAssumption == Nobody \notin Ticks
\* The lease is longer than the task timeout, as the comment on LEASE says.
ASSUME LeaseAssumption == TaskTime \in Nat /\ Lease \in Nat /\ TaskTime < Lease
ASSUME TimesAssumption == /\ Lag \in Nat /\ Overlap \in Nat /\ Lag <= Overlap
                          /\ MaxFaults \in Nat

\* alsoRung: jobs another doorbell starts too, without asking.  Bounds: the rows
\* that may arrive, the ticks that may be alive at one time, and the last
\* timestamp, where the clock stops.
SettingType == [alsoRung : SUBSET Jobs, rows : SUBSET Rows, ticks : SUBSET Ticks, time : Nat \ {0}]
ASSUME SettingsAssumption == \A s \in Settings : s \in SettingType

VARIABLES setting,
          ts,       \* ts[a]: timestamp of row a, 0 while it is not on the board
          finished, \* finished[j]: ids job j's cursor has answered or quarantined
          running,  \* running[j]: executions of job j that are alive
          cursor,   \* the object board_watcher
          clock,
          tick,     \* tick[t]: one execution of the watcher
          faults

jobs == <<finished, running>>
vars == <<setting, ts, jobs, cursor, clock, tick, faults>>

Times == 0..setting.time
NoHold == setting.time + 1
\* off; after the load; after the lease; after the read; in the loop over the
\* routes; a route's job found idle; and the lease read back for it.
Stages == {"off", "loaded", "leased", "read", "loop", "idle", "owns"}
PerJob == [Jobs -> SUBSET Rows]
CursorType == [watermark : 1..setting.time, seen : SUBSET Rows, pending : PerJob,
               owner : Ticks \cup {Nobody}, until : 0..Lease]
TickType == [stage : Stages, age : 0..TaskTime, fresh : BOOLEAN, new : SUBSET Rows,
             done : SUBSET Rows, pend : PerJob, todo : SUBSET Jobs,
             job : Jobs \cup {NoJob}, hold : 1..NoHold]

TypeOK ==
    /\ setting \in Settings
    /\ ts \in [Rows -> Times]
    /\ finished \in PerJob /\ running \in [Jobs -> Nat]
    /\ cursor \in CursorType
    /\ (cursor.owner = Nobody) => cursor.until = 0
    /\ clock \in 1..setting.time
    /\ tick \in [Ticks -> TickType]
    /\ faults \in 0..MaxFaults

Nothing == [j \in Jobs |-> {}]
Off == [stage |-> "off", age |-> 0, fresh |-> FALSE, new |-> {}, done |-> {},
        pend |-> Nothing, todo |-> {}, job |-> NoJob, hold |-> NoHold]

\* The first tick finds a seeded cursor: a tick without one refuses.
Init ==
    /\ setting \in Settings
    /\ ts = [a \in Rows |-> 0]
    /\ finished = Nothing /\ running = [j \in Jobs |-> 0]
    /\ cursor = [watermark |-> 1, seen |-> {}, pending |-> Nothing, owner |-> Nobody, until |-> 0]
    /\ clock = 1
    /\ tick = [t \in Ticks |-> Off]
    /\ faults = 0

-----------------------------------------------------------------------------
(* What a tick computes.                                                   *)

\* Faulty variant: the last writer wins.
SaveBlind(t, c, T) == cursor' = c /\ tick' = [tick EXCEPT ![t] = T]

\* state_store.save; every other copy is stale from now on.
Save(t, c, T) ==
    /\ tick[t].fresh
    /\ cursor' = c
    /\ tick' = [u \in Ticks |-> IF u = t THEN T ELSE [tick[u] EXCEPT !.fresh = FALSE]]

Become(t, T) == tick' = [tick EXCEPT ![t] = T] /\ UNCHANGED cursor

\* plan: which new rows a route is for, which a route raised on, and which are
\* nobody's.
Hits(new, j) == new \cap Wants[j]
Routed(new) == UNION {Hits(new, j) : j \in Jobs}
Raised(new) == UNION {new \cap Odd[j] : j \in Jobs}

\* reconcile: a row waits until the job's own cursor has it.
Still(j) == cursor.pending[j] \ finished[j]
\* Faulty variant: a row whose wait ended is not remembered.
DoneForgotten == {}
Done == UNION {cursor.pending[j] \cap finished[j] : j \in Jobs}

\* add_pending.
Wait(T, j) == [T.pend EXCEPT ![j] = @ \cup Hits(T.new, j)]

\* Faulty variant of the next: what could not be started does not hold.
HoldNever(h, S) == h
\* The earliest row whose job could not be started.
HoldAt(h, S) == Min({h} \cup {ts[a] : a \in S})

\* Faulty variant of the next: the hold may move the watermark back.
TargetUnfloored(T) ==
    Min({Max({cursor.watermark} \cup {ts[a] : a \in T.new}), T.hold - 1})
\* The watermark a tick leaves: the newest row it read, held one second before
\* the rows it could not start a job for, never backwards.
Target(T) ==
    LET newest == Max({cursor.watermark} \cup {ts[a] : a \in T.new})
    IN Max({cursor.watermark, Min({newest, T.hold - 1})})

\* Rows remembered so that the overlap does not offer them again.
Remembered(T) == T.done \cup (T.new \ (Routed(T.new) \cup Raised(T.new)))

-----------------------------------------------------------------------------
(* One tick.                                                               *)

\* The cursor is loaded and no lease on it is live.
Load(t) ==
    /\ t \in setting.ticks /\ tick[t].stage = "off"
    /\ cursor.until = 0
    /\ Become(t, [Off EXCEPT !.stage = "loaded", !.fresh = TRUE])
    /\ UNCHANGED <<setting, ts, jobs, clock, faults>>

\* Faulty variant of the next: a lease no longer than a tick may take.
LeaseShort(T) == TaskTime - T.age
\* The lease counts from the time the tick began.
LeaseFrom(T) == Lease - T.age
TakeLease(t) ==
    /\ tick[t].stage = "loaded"
    /\ Save(t, [cursor EXCEPT !.owner = t, !.until = LeaseFrom(tick[t])],
            [tick[t] EXCEPT !.stage = "leased"])
    /\ UNCHANGED <<setting, ts, jobs, clock, faults>>

\* read_since.
Read(t) ==
    /\ tick[t].stage = "leased" /\ tick[t].fresh
    /\ Become(t, [tick[t] EXCEPT !.stage = "read",
          !.new = {a \in Rows : ts[a] # 0 /\ ts[a] >= cursor.watermark - Overlap}])
    /\ UNCHANGED <<setting, ts, jobs, clock, faults>>

\* reconcile and plan.
Plan(t) ==
    /\ tick[t].stage = "read" /\ tick[t].fresh
    /\ LET new == tick[t].new \ (cursor.seen \cup Done)
           pend == [j \in Jobs |-> Still(j)] IN
       Become(t, [tick[t] EXCEPT
          !.stage = "loop", !.new = new, !.done = Done, !.pend = pend,
          !.todo = {j \in Jobs : Hits(new, j) \cup pend[j] # {}},
          !.hold = HoldAt(NoHold, Raised(new))])
    /\ UNCHANGED <<setting, ts, jobs, clock, faults>>

\* One route is dealt with; its rows wait for its job, and hold the watermark
\* unless the job was started.
Dealt(T, j) == [T EXCEPT !.stage = "loop", !.job = NoJob, !.todo = @ \ {j}, !.pend = Wait(T, j)]
Deferred(T, j) == [Dealt(T, j) EXCEPT !.hold = HoldAt(@, Hits(T.new, j))]

\* job_running says idle, or that a copy runs, or cannot tell.
Idle(t, j) ==
    /\ tick[t].stage = "loop" /\ j \in tick[t].todo
    /\ running[j] = 0
    /\ Become(t, [tick[t] EXCEPT !.stage = "idle", !.job = j])
    /\ UNCHANGED <<setting, ts, jobs, clock, faults>>
Busy(t, j) ==
    /\ tick[t].stage = "loop" /\ j \in tick[t].todo
    /\ running[j] > 0
    /\ Become(t, Deferred(tick[t], j))
    /\ UNCHANGED <<setting, ts, jobs, clock, faults>>
Unknown(t, j) ==
    /\ tick[t].stage = "loop" /\ j \in tick[t].todo
    /\ faults < MaxFaults /\ faults' = faults + 1
    /\ Become(t, Deferred(tick[t], j))
    /\ UNCHANGED <<setting, ts, jobs, clock>>

\* still_owns: the lease is read back before a start.
StillOwns(t) ==
    /\ tick[t].stage = "idle" /\ cursor.owner = t
    /\ Become(t, [tick[t] EXCEPT !.stage = "owns"])
    /\ UNCHANGED <<setting, ts, jobs, clock, faults>>

\* start_job: answered, or failed with or without a start.
Started(t) ==
    LET j == tick[t].job IN
    /\ tick[t].stage = "owns"
    /\ running' = [running EXCEPT ![j] = @ + 1]
    /\ Become(t, Dealt(tick[t], j))
    /\ UNCHANGED <<setting, ts, finished, clock, faults>>
StartFails(t) ==
    LET j == tick[t].job IN
    /\ tick[t].stage = "owns"
    /\ faults < MaxFaults /\ faults' = faults + 1
    /\ \E n \in 0..1 : running' = [running EXCEPT ![j] = @ + n]
    /\ Become(t, Deferred(tick[t], j))
    /\ UNCHANGED <<setting, ts, finished, clock>>

\* The object a finished tick saves carries no lease.
Finish(t) ==
    /\ tick[t].stage = "loop" /\ tick[t].todo = {}
    /\ Save(t, [watermark |-> Target(tick[t]), seen |-> cursor.seen \cup Remembered(tick[t]),
                pending |-> tick[t].pend, owner |-> Nobody, until |-> 0], Off)
    /\ UNCHANGED <<setting, ts, jobs, clock, faults>>

\* Another tick saved since: this one lost the race, the lease or its save.
LostRace(t) ==
    /\ tick[t].stage \notin {"off", "owns"} /\ ~tick[t].fresh
    /\ Become(t, Off)
    /\ UNCHANGED <<setting, ts, jobs, clock, faults>>

\* A tick dies: killed, timed out, or ended by an exception.
Die(t) ==
    /\ tick[t].stage # "off"
    /\ faults < MaxFaults /\ faults' = faults + 1
    /\ Become(t, Off)
    /\ UNCHANGED <<setting, ts, jobs, clock>>

-----------------------------------------------------------------------------
(* The board, the jobs, the other doorbell, and time.                      *)

Arrive(a) ==
    /\ a \in setting.rows /\ ts[a] = 0
    /\ \E s \in (clock - Lag)..clock : s > 0 /\ ts' = [ts EXCEPT ![a] = s]
    /\ UNCHANGED <<setting, jobs, cursor, clock, tick, faults>>

\* A running job answers or quarantines a row that is for it.
Settle(j, a) ==
    /\ running[j] > 0
    /\ ts[a] # 0 /\ a \in Wants[j] \ finished[j]
    /\ finished' = [finished EXCEPT ![j] = @ \cup {a}]
    /\ UNCHANGED <<setting, ts, running, cursor, clock, tick, faults>>

\* An execution ends, whatever it did not get to.
JobEnds(j) ==
    /\ running[j] > 0
    /\ running' = [running EXCEPT ![j] = @ - 1]
    /\ UNCHANGED <<setting, ts, finished, cursor, clock, tick, faults>>

\* inbox-wake starts its job for a message without asking whether one runs.
Ring(j) ==
    /\ j \in setting.alsoRung /\ running[j] < 2
    /\ running' = [running EXCEPT ![j] = @ + 1]
    /\ UNCHANGED <<setting, ts, finished, cursor, clock, tick, faults>>

\* Faulty variant of the next: a lease ends only when its tick gives it back.
LeftForever(n) == n
\* The time to the end of a lease.
Left(n) == Max({n - 1, 0})

\* No tick outlives its task timeout.
Tick ==
    /\ \A t \in Ticks : tick[t].stage # "off" => tick[t].age < TaskTime
    /\ clock' = Min({clock + 1, setting.time})
    /\ cursor' = [cursor EXCEPT !.until = Left(@)]
    /\ tick' = [t \in Ticks |-> IF tick[t].stage = "off" THEN Off
                                ELSE [tick[t] EXCEPT !.age = @ + 1]]
    /\ UNCHANGED <<setting, ts, jobs, faults>>

\* What a live tick does of itself.
Work(t) ==
    \/ TakeLease(t) \/ Read(t) \/ Plan(t)
    \/ \E j \in Jobs : Idle(t, j) \/ Busy(t, j)
    \/ StillOwns(t) \/ Started(t) \/ Finish(t) \/ LostRace(t)

Next ==
    \/ \E t \in Ticks : Load(t) \/ Work(t) \/ StartFails(t) \/ Die(t)
    \/ \E t \in Ticks, j \in Jobs : Unknown(t, j)
    \/ \E a \in Rows : Arrive(a)
    \/ \E j \in Jobs, a \in Rows : Settle(j, a)
    \/ \E j \in Jobs : JobEnds(j) \/ Ring(j)
    \/ Tick

Spec == Init /\ [][Next]_vars

\* The scheduler keeps starting ticks and a live tick goes on; a job runs to an
\* end, and one that is started again and again gets to every row.
Fairness ==
    /\ WF_vars(Tick)
    /\ WF_vars(\E t \in Ticks : Load(t))
    /\ \A t \in Ticks : WF_vars(Work(t))
    /\ \A j \in Jobs : WF_vars(JobEnds(j)) /\ \A a \in Wants[j] : SF_vars(Settle(j, a))
FairSpec == Spec /\ Fairness

-----------------------------------------------------------------------------
(* Properties.                                                             *)

Offered(a) == a \notin cursor.seen /\ ts[a] >= cursor.watermark - Overlap

\* No ring is swallowed.  A row on the board is, for each route it is for, in
\* that job's own record, or waiting in the saved list, or still offered to the
\* next tick; a row a route raised on and nobody else took stays offered.
RingKept ==
    \A a \in Rows : ts[a] # 0 =>
        /\ \A j \in Jobs : a \in Wants[j] =>
              a \in finished[j] \cup cursor.pending[j] \/ Offered(a)
        /\ (a \in Raised(Rows) \ Routed(Rows)) => Offered(a)

\* "One copy of the job": the watcher starts no job that is already running,
\* though ticks overlap, die and lose the lease.  A job another doorbell starts
\* without asking is excepted.
NoSecondCopy ==
    [][\A t \in Ticks, j \in Jobs \ setting.alsoRung :
          (Started(t) \/ StartFails(t)) /\ running'[j] > running[j] => running[j] = 0]_vars

\* Every row that is for a route is answered or quarantined by its job in the
\* end, through dead ticks, failed starts and passes that stop early.
EveryRingAnswered ==
    \A j \in Jobs, a \in Rows : a \in Wants[j] /\ ts[a] # 0 ~> a \in finished[j]

\* With nothing new and nothing pending it starts nothing.
Quiet == <>[][\A j \in Jobs \ setting.alsoRung : running'[j] <= running[j]]_vars

\* The saved cursor, the tick's plan and the jobs' records hold every ring between them.
WatcherInv == TypeOK /\ RingKept
=============================================================================
