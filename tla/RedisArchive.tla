----------------------------- MODULE RedisArchive -----------------------------
(***************************************************************************)
(* The hourly archive of the Redis streams, cloud/bus-reconciler/          *)
(* redis_archive.py: a run copies each stream's entries after its cursor   *)
(* into a create-only object, writes a ledger that names the objects, and  *)
(* only then moves the cursors.  A run can die at any step; the next one   *)
(* continues from what the gov:archive keys and the bucket hold.           *)
(*                                                                         *)
(* Entry ids of a stream are 1, 2, ...; the stream holds lo+1 .. hi.  A    *)
(* range <<first, last>> stands for those entries and, as in the code, for *)
(* the name of the object that holds them.                                 *)
(***************************************************************************)
EXTENDS Integers, FiniteSets

CONSTANTS Streams,   \* keys the patterns match
          Runs,      \* executions that may be alive at one time
          Nobody,
          Settings,  \* ways the streams and the job may be set up
          LockTime,  \* LOCK_SECONDS
          TaskTime,  \* --task-timeout of the job
          MaxEntries,\* bound: entries of one stream
          MaxFails   \* bound: runs that die or fail

ASSUME RunsAssumption == Nobody \notin Runs
\* life[k]: k loses entries by its writers' MAXLEN, or as a whole by its TTL;
\* caps: MAX_PER_STREAM of the versions that may run.
ASSUME SettingsAssumption ==
    \A s \in Settings : /\ s.life \in [Streams -> {"trimmed", "expiring"}]
                        /\ s.caps \subseteq Nat \ {0} /\ IsFiniteSet(s.caps)
\* archive.sh runs the job with --task-timeout 10m and --max-retries 0.
ASSUME LockAssumption == TaskTime \in Nat /\ LockTime \in Nat /\ TaskTime < LockTime
ASSUME BoundsAssumption == MaxEntries \in Nat /\ MaxFails \in Nat

VARIABLES lo, hi,    \* each stream's entries
          setting,   \* the setting of this behaviour
          cursor,    \* gov:archive:cursor, 0 where there is none
          pending,   \* gov:archive:pending
          superseded,\* gov:archive:superseded
          objects,   \* objects[k]: ranges of k that are in the bucket
          archived,  \* archived[k]: ranges durable ledgers name as a stream's row
          dropped,   \* dropped[k]: ranges durable ledgers name as superseded
          lost,      \* history: lost[k], entries gone before any ledger named them
          lock, ttl, \* gov:archive:lock and its time to live
          run, fails

stream == <<lo, hi, setting>>
redis == <<cursor, pending, superseded>>
bucket == <<objects, archived, dropped>>
vars == <<stream, redis, bucket, lost, lock, ttl, run, fails>>

Ids == 0..MaxEntries
NoRange == <<0, 0>>
Ranges == Ids \X Ids
Steps == {"off", "staging", "pending", "object", "cursors", "supersededs",
          "stales", "done"}
RunType == [step : Steps, cap : setting.caps \cup {0}, age : 0..TaskTime, todo : SUBSET Streams,
            at : SUBSET Streams, rows : [Streams -> Ranges], live : SUBSET Streams,
            gone : SUBSET Streams, stale : SUBSET Streams]

TypeOK ==
    /\ lo \in [Streams -> Ids] /\ hi \in [Streams -> Ids]
    /\ \A k \in Streams : lo[k] <= hi[k] /\ cursor[k] <= hi[k]
    /\ setting \in Settings
    /\ cursor \in [Streams -> Ids]
    /\ pending \in [Streams -> Ranges]
    /\ superseded \in [Streams -> SUBSET Ranges]
    /\ objects \in [Streams -> SUBSET Ranges]
    /\ archived \in [Streams -> SUBSET Ranges]
    /\ dropped \in [Streams -> SUBSET Ranges]
    /\ lost \in [Streams -> SUBSET Ids]
    /\ lock \in Runs \cup {Nobody} /\ ttl \in 0..LockTime
    /\ run \in [Runs -> RunType]
    /\ fails \in 0..MaxFails

Off == [step |-> "off", cap |-> 0, age |-> 0, todo |-> {}, at |-> {},
        rows |-> [k \in Streams |-> NoRange], live |-> {}, gone |-> {}, stale |-> {}]

Init ==
    /\ lo = [k \in Streams |-> 0] /\ hi = [k \in Streams |-> 0]
    /\ setting \in Settings
    /\ cursor = [k \in Streams |-> 0]
    /\ pending = [k \in Streams |-> NoRange]
    /\ superseded = [k \in Streams |-> {}]
    /\ objects = [k \in Streams |-> {}]
    /\ archived = [k \in Streams |-> {}]
    /\ dropped = [k \in Streams |-> {}]
    /\ lost = [k \in Streams |-> {}]
    /\ lock = Nobody /\ ttl = 0
    /\ run = [r \in Runs |-> Off]
    /\ fails = 0

-----------------------------------------------------------------------------
(* What a run reads and decides.                                           *)

Exists(k) == lo[k] < hi[k]
Entries(range) == range[1]..range[2]
Covered(k) == UNION {Entries(g) : g \in archived[k]}

Least(m, n) == IF m < n THEN m ELSE n
Most(m, n) == IF m < n THEN n ELSE m

\* Faulty variant: an empty read is not told apart.
NewRangeUnchecked(k, cap) ==
    LET first == Most(cursor[k], lo[k]) + 1 IN <<first, Least(hi[k], first + cap - 1)>>

\* read_after: the oldest entries after the cursor, at most cap of them.
NewRange(k, cap) ==
    LET first == Most(cursor[k], lo[k]) + 1 IN
    IF first > hi[k] THEN NoRange ELSE <<first, Least(hi[k], first + cap - 1)>>

\* A range written, or being written, that no cursor has passed.
OpenRange(k) == pending[k] # NoRange /\ pending[k][2] > cursor[k]

\* Faulty variant: a retry takes whatever is new by now.
RangeUnpinned(k, cap) == NewRange(k, cap)

\* An open range that begins where the new one does is written again exactly.
RangeFor(k, cap) ==
    LET new == NewRange(k, cap) IN
    IF OpenRange(k) /\ new[1] = pending[k][1]
    THEN <<new[1], Least(new[2], pending[k][2])>> ELSE new

\* Faulty variant: the abandoned range is remembered by the process alone.
SupersededNot(k, range) == superseded[k]

\* The names recorded for a stream before its pending range is replaced.
SupersededBy(k, range) ==
    superseded[k] \cup (IF OpenRange(k) /\ range # pending[k] THEN {pending[k]} ELSE {})

\* Faulty variant: the lock is shorter than a run may be.
LockTtlShort == TaskTime

LockTtl == LockTime

-----------------------------------------------------------------------------
(* One run.                                                                *)

\* SET NX EX, then the streams that exist.
Lock(r) ==
    /\ run[r].step = "off"
    /\ lock = Nobody
    /\ lock' = r /\ ttl' = LockTtl
    /\ \E cap \in setting.caps :
          LET found == {k \in Streams : Exists(k)} IN
          run' = [run EXCEPT ![r] =
              [Off EXCEPT !.step = "staging", !.cap = cap, !.todo = found, !.live = found]]
    /\ UNCHANGED <<stream, redis, bucket, lost, fails>>

\* stage_stream up to the superseded record.
StageRead(r, k) ==
    /\ run[r].step = "staging" /\ k \in run[r].todo
    /\ LET range == RangeFor(k, run[r].cap) IN
       /\ superseded' = [superseded EXCEPT ![k] = SupersededBy(k, range)]
       /\ run' = [run EXCEPT ![r].rows[k] = range, ![r].todo = @ \ {k}, ![r].at = {k},
                             ![r].step = IF range = NoRange THEN "staging" ELSE "pending"]
    /\ UNCHANGED <<stream, cursor, pending, bucket, lost, lock, ttl, fails>>

StagePending(r) ==
    /\ run[r].step = "pending"
    /\ \E k \in run[r].at : pending' = [pending EXCEPT ![k] = run[r].rows[k]]
    /\ run' = [run EXCEPT ![r].step = "object"]
    /\ UNCHANGED <<stream, cursor, superseded, bucket, lost, lock, ttl, fails>>

\* Faulty variant: a failed upload is swallowed.
StagePutSwallowed(r) ==
    /\ run[r].step = "object"
    /\ run' = [run EXCEPT ![r].step = "staging"]
    /\ UNCHANGED <<stream, redis, bucket, lost, lock, ttl, fails>>

\* Create-only: the same range is the same object, already there or not.
StagePut(r) ==
    /\ run[r].step = "object"
    /\ \E k \in run[r].at : objects' = [objects EXCEPT ![k] = @ \cup {run[r].rows[k]}]
    /\ run' = [run EXCEPT ![r].step = "staging"]
    /\ UNCHANGED <<stream, redis, archived, dropped, lost, lock, ttl, fails>>

Ranged(r) == {k \in run[r].live : run[r].rows[k] # NoRange}
Gone(r) == {k \in Streams \ run[r].live : pending[k] # NoRange}

\* Faulty variant: a ledger that forgets what earlier runs left behind.
NamedAsDroppedNot(r, k) == {}

\* orphans: the pending range of a stream that is gone, and every recorded name.
NamedAsDropped(r, k) == superseded[k] \cup (IF k \in Gone(r) THEN {pending[k]} ELSE {})

\* The run's ledger, one create-only object, becomes durable.
Ledger(r) ==
    /\ run[r].step = "staging" /\ run[r].todo = {}
    /\ archived' = [k \in Streams |->
          archived[k] \cup (IF k \in Ranged(r) THEN {run[r].rows[k]} ELSE {})]
    /\ dropped' = [k \in Streams |-> dropped[k] \cup NamedAsDropped(r, k)]
    /\ run' = [run EXCEPT ![r].step = "cursors", ![r].todo = Ranged(r), ![r].gone = Gone(r),
                          ![r].stale = {k \in Streams \ run[r].live : cursor[k] # 0}]
    /\ UNCHANGED <<stream, redis, objects, lost, lock, ttl, fails>>

\* Faulty variant: the cursor moves to the newest entry, not the last archived.
MoveCursorToEnd(r, k) ==
    /\ run[r].step = "cursors" /\ k \in run[r].todo
    /\ cursor' = [cursor EXCEPT ![k] = hi[k]]
    /\ run' = [run EXCEPT ![r].todo = @ \ {k}]
    /\ UNCHANGED <<stream, pending, superseded, bucket, lost, lock, ttl, fails>>

MoveCursor(r, k) ==
    /\ run[r].step = "cursors" /\ k \in run[r].todo
    /\ cursor' = [cursor EXCEPT ![k] = run[r].rows[k][2]]
    /\ run' = [run EXCEPT ![r].todo = @ \ {k}]
    /\ UNCHANGED <<stream, pending, superseded, bucket, lost, lock, ttl, fails>>

ClearPending(r) ==
    /\ run[r].step = "cursors" /\ run[r].todo = {}
    /\ pending' = [k \in Streams |->
          IF k \in run[r].live \cup run[r].gone THEN NoRange ELSE pending[k]]
    /\ run' = [run EXCEPT ![r].step = "supersededs"]
    /\ UNCHANGED <<stream, cursor, superseded, bucket, lost, lock, ttl, fails>>

\* Every key recorded when the ledger was built, and nobody records in between.
ClearSuperseded(r) ==
    /\ run[r].step = "supersededs"
    /\ superseded' = [k \in Streams |-> {}]
    /\ run' = [run EXCEPT ![r].step = "stales"]
    /\ UNCHANGED <<stream, cursor, pending, bucket, lost, lock, ttl, fails>>

\* Faulty variant: the cursor of every stream without a new entry is dropped.
DropQuietCursors(r) ==
    /\ run[r].step = "stales"
    /\ cursor' = [k \in Streams |-> IF k \in Ranged(r) THEN cursor[k] ELSE 0]
    /\ run' = [run EXCEPT ![r].step = "done"]
    /\ UNCHANGED <<stream, pending, superseded, bucket, lost, lock, ttl, fails>>

DropCursors(r) ==
    /\ run[r].step = "stales"
    /\ cursor' = [k \in Streams |-> IF k \in run[r].stale THEN 0 ELSE cursor[k]]
    /\ run' = [run EXCEPT ![r].step = "done"]
    /\ UNCHANGED <<stream, pending, superseded, bucket, lost, lock, ttl, fails>>

\* The compare-and-delete of the finally clause.
Drop(r) == IF lock = r THEN lock' = Nobody /\ ttl' = 0 ELSE UNCHANGED <<lock, ttl>>

Release(r) ==
    /\ run[r].step = "done"
    /\ Drop(r)
    /\ run' = [run EXCEPT ![r] = Off]
    /\ UNCHANGED <<stream, redis, bucket, lost, fails>>

\* Redis or the bucket raises: the run ends through its finally clause ...
Fail(r) ==
    /\ run[r].step # "off" /\ fails < MaxFails
    /\ fails' = fails + 1
    /\ Drop(r)
    /\ run' = [run EXCEPT ![r] = Off]
    /\ UNCHANGED <<stream, redis, bucket, lost>>

\* ... or the process dies and the lock stays.
Crash(r) ==
    /\ run[r].step # "off" /\ fails < MaxFails
    /\ fails' = fails + 1
    /\ run' = [run EXCEPT ![r] = Off]
    /\ UNCHANGED <<stream, redis, bucket, lost, lock, ttl>>

-----------------------------------------------------------------------------
(* The streams and time.                                                   *)

Add(k) ==
    /\ hi[k] < MaxEntries
    /\ hi' = [hi EXCEPT ![k] = @ + 1]
    /\ UNCHANGED <<lo, setting, redis, bucket, lost, lock, ttl, run, fails>>

Remove(k, upto) ==
    /\ lo' = [lo EXCEPT ![k] = upto]
    /\ lost' = [lost EXCEPT ![k] = @ \cup (((lo[k] + 1)..upto) \ Covered(k))]
    /\ UNCHANGED <<hi, setting, redis, bucket, lock, ttl, run, fails>>

\* XADD MAXLEN drops the oldest entries.
Trim(k) == setting.life[k] = "trimmed" /\ lo[k] + 1 < hi[k] /\ Remove(k, lo[k] + 1)
\* A day's side channel passes its TTL.
Expire(k) == setting.life[k] = "expiring" /\ Exists(k) /\ Remove(k, hi[k])

\* Faulty variant: SET NX without EX.
TtlNever(t) == t

AfterTick(t) == IF t > 0 THEN t - 1 ELSE 0

\* The platform ends a run at its task timeout, so no live run is older.
Tick ==
    /\ \A r \in Runs : run[r].step # "off" => run[r].age < TaskTime
    /\ lock # Nobody
    /\ ttl' = AfterTick(ttl)
    /\ lock' = IF ttl' = 0 THEN Nobody ELSE lock
    /\ run' = [r \in Runs |-> IF run[r].step = "off" THEN run[r]
                              ELSE [run[r] EXCEPT !.age = @ + 1]]
    /\ UNCHANGED <<stream, redis, bucket, lost, fails>>

Work(r) ==
    \/ \E k \in Streams : StageRead(r, k) \/ MoveCursor(r, k)
    \/ StagePending(r) \/ StagePut(r) \/ Ledger(r) \/ ClearPending(r)
    \/ ClearSuperseded(r) \/ DropCursors(r) \/ Release(r)

Next ==
    \/ \E r \in Runs : Lock(r) \/ Work(r) \/ Fail(r) \/ Crash(r)
    \/ \E k \in Streams : Add(k) \/ Trim(k) \/ Expire(k)
    \/ Tick

Spec == Init /\ [][Next]_vars

\* The scheduler starts runs every hour, a live run works, time passes.
Fairness == WF_vars(Tick) /\ \A r \in Runs : WF_vars(Lock(r)) /\ WF_vars(Work(r))
FairSpec == Spec /\ Fairness

-----------------------------------------------------------------------------
(* Properties.                                                             *)

\* One archiver at a time: the lock outlives every run that took it.
OneArchiver ==
    \A r, s \in Runs : run[r].step # "off" /\ run[s].step # "off" => r = s

\* No object is forgotten: a durable ledger names it, or Redis still remembers
\* that it may exist, whichever step the run that wrote it died at.
EveryObjectOnRecord ==
    \A k \in Streams : \A g \in objects[k] :
        g \in archived[k] \cup dropped[k] \cup superseded[k] \cup {pending[k]}

\* The cursor passes no entry that a ledger-named object does not hold, except
\* entries the stream had already lost.
NothingSkipped ==
    \A k \in Streams : 1..cursor[k] \subseteq Covered(k) \cup lost[k]

\* What a ledger names exists.
LedgerNamesObjects == \A k \in Streams : archived[k] \subseteq objects[k]

\* Two ledger-named ranges of a stream share no entry.
Disjoint(k) == \A g, h \in archived[k] : g # h => Entries(g) \cap Entries(h) = {}

\* "Never doubled", as the header of the code has it.
NeverDoubled == \A k \in Streams : Disjoint(k)

\* Only a trim of, or another cap on, a range that a dead run wrote lets entries
\* be archived twice: a stream that expires as a whole under one cap is not.
SteadyNotDoubled ==
    \A k \in Streams : setting.life[k] = "expiring" /\ Cardinality(setting.caps) = 1 => Disjoint(k)

\* An entry that stays in its stream is archived at last.
EntriesAreArchived ==
    \A k \in Streams, e \in 1..MaxEntries : e <= hi[k] ~> e \in Covered(k) \/ e <= lo[k]

\* An object of a run that died is named by a ledger at last.
ObjectsAreNamed ==
    \A k \in Streams, g \in {e \in Ranges : 0 < e[1] /\ e[1] <= e[2]} :
        g \in objects[k] ~> g \in archived[k] \cup dropped[k]

\* The record of the archive: one run writes it, every object is on it, what it names
\* is there, and its cursors pass nothing else.
ArchiveInv == TypeOK /\ OneArchiver /\ EveryObjectOnRecord /\ LedgerNamesObjects /\ NothingSkipped

\* What was written to a stream ends in an object, and every object in a ledger.
EverythingIsNamed == EntriesAreArchived /\ ObjectsAreNamed
=============================================================================
