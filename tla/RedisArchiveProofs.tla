-------------------------- MODULE RedisArchiveProofs --------------------------
(***************************************************************************)
(* Proofs about the Redis archive, for any streams, runs, caps and bounds. *)
(* The lock outlives the run that took it, so whatever a run has read or   *)
(* written of gov:archive is what the keys still hold; from that follows   *)
(* where every object is named, whichever step a run died at.              *)
(***************************************************************************)
EXTENDS RedisArchive, FiniteSetTheorems, TLAPS

-----------------------------------------------------------------------------
(* The invariant.                                                          *)

Valid(k, g) == g \in Ranges /\ 1 <= g[1] /\ g[1] <= g[2] /\ g[2] <= hi[k]

\* Every entry up to n is in an archived range or was lost before.
Reach(k, n) == 1..n \subseteq Covered(k) \cup lost[k]

StreamOK(k) ==
    /\ Reach(k, lo[k]) /\ Reach(k, cursor[k])
    /\ pending[k] = NoRange \/ Valid(k, pending[k])
    /\ \A g \in objects[k] : Valid(k, g)
    /\ archived[k] \subseteq objects[k]
    /\ objects[k] \subseteq archived[k] \cup dropped[k] \cup superseded[k] \cup {pending[k]}
    /\ pending[k][2] <= cursor[k] => pending[k] \in archived[k] \cup {NoRange}

\* A live run holds the lock, and the lock outlives it.
HoldsLock(r) ==
    run[r].step # "off" => /\ lock = r /\ ttl = LockTime - run[r].age
                           /\ run[r].cap \in setting.caps

Writing == {"staging", "pending", "object"}
AtIt(R, k) == R.step \in {"pending", "object"} /\ k \in R.at

\* A run that is writing, and stream k as it left it.
Staged(R, k) ==
    /\ R.rows[k] # NoRange =>
          /\ Valid(k, R.rows[k]) /\ cursor[k] < R.rows[k][1] /\ Reach(k, R.rows[k][1] - 1)
          /\ (R.step = "pending" /\ k \in R.at) \/ pending[k] = R.rows[k]
          /\ AtIt(R, k) \/ R.rows[k] \in objects[k]
    /\ pending[k] \in {NoRange, R.rows[k]} \cup superseded[k] \cup archived[k]
StageOK(R) ==
    R.step \in Writing =>
    /\ R.todo \subseteq R.live
    /\ \A k \in R.live \ R.todo : Staged(R, k)
    /\ \A k \in Streams \ R.live : R.rows[k] = NoRange
    /\ R.step # "staging" => \E k \in R.live \ R.todo : R.at = {k} /\ R.rows[k] # NoRange

\* A run whose ledger is durable.
CloseOK(R) ==
    /\ R.step \in {"cursors", "supersededs"} => \A k \in Streams : superseded[k] \subseteq dropped[k]
    /\ R.step = "cursors" =>
          /\ R.todo \subseteq {k \in R.live : R.rows[k] # NoRange}
          /\ \A k \in R.gone : pending[k] \in dropped[k]
          /\ \A k \in R.live : R.rows[k] = NoRange =>
                pending[k] \in {NoRange} \cup dropped[k] \cup archived[k]
          /\ \A k \in R.live : R.rows[k] # NoRange =>
                Valid(k, R.rows[k]) /\ R.rows[k] \in archived[k] /\ pending[k] = R.rows[k]
                /\ Reach(k, R.rows[k][2])

IInv ==
    /\ TypeOK
    /\ \A k \in Streams : StreamOK(k)
    /\ \A r \in Runs : HoldsLock(r) /\ StageOK(run[r]) /\ CloseOK(run[r])

-----------------------------------------------------------------------------
(* No range twice, in a stream that expires as a whole under one cap.      *)

Steady(k) == setting.life[k] = "expiring" /\ Cardinality(setting.caps) = 1
Front(k) == Most(cursor[k], lo[k])
Short(g) == \A c \in setting.caps : g[2] <= g[1] + c - 1

\* An archived range is behind the front, or it is the open one at the front.
InOrder(k) ==
    /\ \A g \in archived[k] : g[2] <= Front(k) \/ (g = pending[k] /\ g[1] = Front(k) + 1)
    /\ pending[k] # NoRange => Short(pending[k])
    /\ Disjoint(k)

\* What a live run has of the stream is apart from what was archived before.
Apart(R, k) ==
    /\ k \notin R.live => /\ \A g \in archived[k] : g[2] <= lo[k]
                          /\ pending[k][2] <= lo[k]
    /\ R.step \in Writing /\ k \in R.live \ R.todo =>
          IF R.rows[k] = NoRange THEN pending[k] = NoRange \/ pending[k][2] <= Front(k)
          ELSE /\ Short(R.rows[k])
               /\ R.rows[k][1] = Front(k) + 1 \/ R.rows[k][2] <= Front(k)
               /\ \A g \in archived[k] : g = R.rows[k] \/ g[2] < R.rows[k][1]
    /\ R.step = "cursors" /\ k \in R.live =>
          IF R.rows[k] = NoRange THEN pending[k] = NoRange \/ pending[k][2] <= Front(k)
          ELSE cursor[k] <= R.rows[k][2] /\ (k \in R.todo \/ cursor[k] = R.rows[k][2])
    /\ R.step = "stales" => R.stale \cap R.live = {}
    /\ R.step = "cursors" => R.stale \cap R.live = {}
    /\ R.step = "supersededs" => R.stale \cap R.live = {}

SteadyInv ==
    \A k \in Streams : Steady(k) =>
        InOrder(k) /\ \A r \in Runs : run[r].step # "off" => Apart(run[r], k)

-----------------------------------------------------------------------------
(* The operators.                                                          *)

\* The bounds are numbers; no range is the pair of zeroes.
LEMMA Bounds ==
    /\ MaxEntries \in Nat /\ 0 \in Ids /\ Ids \subseteq Nat /\ LockTime \in Nat /\ TaskTime \in Nat
    /\ 0 \in 0..LockTime /\ LockTime \in 0..LockTime /\ 0 \in 0..TaskTime
    /\ NoRange \in Ranges /\ NoRange[1] = 0 /\ NoRange[2] = 0
<1>1. MaxEntries \in Nat /\ LockTime \in Nat /\ TaskTime \in Nat
  BY BoundsAssumption, LockAssumption
<1>2. 0 \in Ids /\ Ids \subseteq Nat
  BY <1>1 DEF Ids
<1> QED BY <1>1, <1>2 DEF NoRange, Ranges

\* A pair of ids.
LEMMA Pairs ==
    /\ \A g \in Ranges : g[1] \in Ids /\ g[2] \in Ids /\ g = <<g[1], g[2]>>
    /\ \A m, n \in Ids : <<m, n>> \in Ranges /\ <<m, n>>[1] = m /\ <<m, n>>[2] = n
  BY DEF Ranges

\* A range that was written is not the absence of one.
LEMMA NotNoRange == ASSUME NEW k, NEW g, Valid(k, g) PROVE g # NoRange
  BY Bounds DEF Valid

\* What is archived or lost stays so.
LEMMA ReachKept ==
    ASSUME NEW k, NEW n, Reach(k, n), archived[k] \subseteq archived'[k], lost[k] \subseteq lost'[k]
    PROVE  Reach(k, n)'
<1>1. Covered(k) \subseteq Covered(k)'
  BY DEF Covered
<1> QED BY <1>1 DEF Reach

\* A range in the stream stays one when the stream grows.
LEMMA ValidKept ==
    ASSUME NEW k \in Streams, NEW g, Valid(k, g), hi[k] \in Nat, hi'[k] \in Nat, hi[k] <= hi'[k]
    PROVE  Valid(k, g)'
  BY Bounds, Pairs DEF Valid

\* A stretch up to a range and the range itself make a longer one.
LEMMA ReachFurther ==
    ASSUME NEW k, NEW g \in Ranges, 1 <= g[1], Reach(k, g[1] - 1), g \in archived[k]
    PROVE  Reach(k, g[2])
<1>1. g[1] \in Nat /\ g[2] \in Nat
  BY Pairs, Bounds
<1>2. Entries(g) \subseteq Covered(k)
  BY DEF Covered
<1>3. \A i \in 1..g[2] : i \in 1..(g[1] - 1) \/ i \in g[1]..g[2]
  BY <1>1
<1> QED BY <1>2, <1>3 DEF Reach, Entries

\* The type invariant, for one stream.
LEMMA StreamTypes ==
    ASSUME TypeOK, NEW k \in Streams
    PROVE  /\ lo[k] \in Nat /\ hi[k] \in Nat /\ cursor[k] \in Nat
           /\ lo[k] \in Ids /\ hi[k] \in Ids /\ cursor[k] \in Ids /\ hi[k] <= MaxEntries
           /\ lo[k] <= hi[k] /\ cursor[k] <= hi[k]
           /\ pending[k] \in Ranges /\ pending[k][1] \in Nat /\ pending[k][2] \in Nat
<1>1. lo[k] \in Ids /\ hi[k] \in Ids /\ cursor[k] \in Ids /\ pending[k] \in Ranges
      /\ lo[k] <= hi[k] /\ cursor[k] <= hi[k]
  BY DEF TypeOK
<1>2. hi[k] <= MaxEntries
  BY <1>1, Bounds DEF Ids
<1> QED BY <1>1, <1>2, Bounds, Pairs

\* The new range of a stream begins behind its front; an open range that begins
\* there is taken up again.
LEMMA NewRangeIs ==
    ASSUME TypeOK, NEW k \in Streams, StreamOK(k), NEW cap \in Nat \ {0}
    PROVE  LET g == NewRange(k, cap) IN
           \/ g = NoRange /\ Front(k) >= hi[k]
           \/ /\ Valid(k, g) /\ g[1] = Front(k) + 1 /\ cursor[k] < g[1] /\ Reach(k, g[1] - 1)
              /\ g[2] <= g[1] + cap - 1
              /\ \A n \in Nat : g[1] <= n /\ n <= hi[k] /\ n <= g[1] + cap - 1 => n <= g[2]
<1> DEFINE f == Front(k)
           m == Least(hi[k], f + 1 + cap - 1)
<1>1. /\ lo[k] \in Nat /\ hi[k] \in Nat /\ cursor[k] \in Nat /\ hi[k] <= MaxEntries
      /\ MaxEntries \in Nat
  BY StreamTypes, Bounds
<1>2. f \in Nat /\ cursor[k] <= f /\ (f = cursor[k] \/ f = lo[k])
  BY <1>1 DEF Front, Most
<1>3. Reach(k, f)
  BY <1>2 DEF StreamOK
<1>4. CASE f + 1 > hi[k]
  <2>1. NewRange(k, cap) = NoRange
    BY <1>4 DEF NewRange, Front
  <2>2. f >= hi[k]
    BY <1>1, <1>2, <1>4
  <2> QED BY <2>1, <2>2
<1>5. CASE ~(f + 1 > hi[k])
  <2>1. NewRange(k, cap) = <<f + 1, m>>
    BY <1>5 DEF NewRange, Front
  <2>2. m \in Nat /\ f + 1 <= m /\ m <= hi[k] /\ m <= f + cap
        /\ \A n \in Nat : n <= hi[k] /\ n <= f + cap => n <= m
    BY <1>1, <1>2, <1>5 DEF Least
  <2>3. f + 1 \in Ids /\ m \in Ids
    BY <1>1, <1>2, <2>2 DEF Ids
  <2>4. /\ <<f + 1, m>> \in Ranges /\ <<f + 1, m>>[1] = f + 1 /\ <<f + 1, m>>[2] = m
    BY <2>3, Pairs
  <2> HIDE DEF f, m
  <2>5. 1 <= f + 1 /\ (f + 1) - 1 = f /\ cursor[k] < f + 1 /\ (f + 1) + cap - 1 = f + cap
    BY <1>1, <1>2
  <2>6. Valid(k, <<f + 1, m>>)
    BY <2>2, <2>4, <2>5 DEF Valid
  <2> QED BY <1>3, <2>1, <2>2, <2>4, <2>5, <2>6 DEF f
<1> QED BY <1>4, <1>5

\* The range a run stages is new, or the open one again under a cap that allows it.
LEMMA RangeIs ==
    ASSUME TypeOK, NEW k \in Streams, StreamOK(k), NEW cap \in Nat \ {0}
    PROVE  LET g == RangeFor(k, cap) IN
           \/ g = NoRange /\ Front(k) >= hi[k]
           \/ /\ Valid(k, g) /\ g[1] = Front(k) + 1 /\ cursor[k] < g[1] /\ Reach(k, g[1] - 1)
              /\ g[2] <= g[1] + cap - 1
              /\ OpenRange(k) /\ pending[k][1] = g[1] /\ pending[k][2] <= pending[k][1] + cap - 1
                   => g = pending[k]
<1> DEFINE n == NewRange(k, cap)
           p == pending[k]
           g == RangeFor(k, cap)
<1>1. \/ n = NoRange /\ Front(k) >= hi[k]
      \/ /\ Valid(k, n) /\ n[1] = Front(k) + 1 /\ cursor[k] < n[1] /\ Reach(k, n[1] - 1)
         /\ n[2] <= n[1] + cap - 1
         /\ \A i \in Nat : n[1] <= i /\ i <= hi[k] /\ i <= n[1] + cap - 1 => i <= n[2]
  BY NewRangeIs
<1>2. OpenRange(k) => Valid(k, p)
  BY DEF OpenRange, StreamOK
<1>3. n[1] \in Nat /\ n[2] \in Nat /\ n \in Ranges /\ p[1] \in Nat /\ p[2] \in Nat /\ hi[k] \in Nat
  BY <1>1, StreamTypes, Pairs, Bounds DEF Valid
<1>4. g = IF OpenRange(k) /\ n[1] = p[1] THEN <<n[1], Least(n[2], p[2])>> ELSE n
  BY DEF RangeFor
<1> HIDE DEF n, p, g
<1>5. CASE ~(OpenRange(k) /\ n[1] = p[1])
  BY <1>1, <1>4, <1>5 DEF g, p
<1>6. CASE OpenRange(k) /\ n[1] = p[1]
  <2>1. n # NoRange
    BY <1>2, <1>6, Bounds DEF Valid
  <2>2. /\ Valid(k, n) /\ n[1] = Front(k) + 1 /\ cursor[k] < n[1] /\ Reach(k, n[1] - 1)
        /\ n[2] <= n[1] + cap - 1
        /\ \A i \in Nat : n[1] <= i /\ i <= hi[k] /\ i <= n[1] + cap - 1 => i <= n[2]
    BY <1>1, <2>1
  <2>3. n[1] <= p[2] /\ p[2] <= hi[k] /\ n[1] <= n[2] /\ n[2] <= hi[k] /\ 1 <= n[1] /\ p \in Ranges
    BY <1>2, <1>6, <2>2 DEF Valid
  <2> DEFINE m == Least(n[2], p[2])
  <2>4. m \in Nat /\ n[1] <= m /\ m <= hi[k] /\ m <= n[2] /\ (p[2] <= n[2] => m = p[2])
        /\ m <= n[1] + cap - 1 /\ m \in {n[2], p[2]}
    BY <1>3, <2>2, <2>3 DEF Least
  <2> HIDE DEF m
  <2>5. n[1] \in Ids /\ m \in Ids
    BY <2>3, <2>4, Pairs, <1>3
  <2>6. g = <<n[1], m>> /\ g \in Ranges /\ g[1] = n[1] /\ g[2] = m
    BY <1>4, <1>6, <2>5, Pairs DEF m
  <2>7. Valid(k, g)
    BY <2>3, <2>4, <2>6 DEF Valid
  <2>8. p[2] <= p[1] + cap - 1 => g = p
    <3>1. p[2] <= p[1] + cap - 1 => p[2] <= n[2]
      BY <1>3, <1>6, <2>2, <2>3
    <3>2. p = <<p[1], p[2]>>
      BY <2>3, Pairs
    <3> QED BY <3>1, <3>2, <2>4, <2>6, <1>6
  <2> QED BY <2>2, <2>4, <2>6, <2>7, <2>8 DEF g, p
<1> QED BY <1>5, <1>6 DEF g, p

-----------------------------------------------------------------------------
(* One run at a time.                                                      *)

\* The lock excludes every other run.
LEMMA Alone ==
    ASSUME IInv, NEW r \in Runs, run[r].step # "off" \/ lock = Nobody
    PROVE  \A s \in Runs \ {r} : run[s].step = "off"
  BY RunsAssumption DEF IInv, HoldsLock

\* The type invariant, for one run.
LEMMA RunTyped ==
    ASSUME TypeOK, NEW r \in Runs
    PROVE  /\ run[r] \in RunType /\ run[r].step \in Steps /\ run[r].cap \in setting.caps \cup {0}
           /\ run[r].age \in Nat /\ run[r].age \in 0..TaskTime /\ run[r].todo \subseteq Streams
           /\ run[r].at \subseteq Streams /\ run[r].rows \in [Streams -> Ranges]
           /\ run[r].live \subseteq Streams /\ run[r].gone \subseteq Streams
           /\ run[r].stale \subseteq Streams
           /\ setting.caps \subseteq Nat \ {0}
<1>1. run[r] \in RunType /\ setting \in Settings
  BY DEF TypeOK
<1>2. run[r].age \in 0..TaskTime
  BY <1>1 DEF RunType
<1>3. setting.caps \subseteq Nat \ {0}
  BY <1>1, SettingsAssumption
<1> QED BY <1>1, <1>2, <1>3, Bounds DEF RunType

\* A run that is off is of the type.
LEMMA OffTyped == Off \in RunType /\ Off.step = "off"
  BY Bounds DEF Off, RunType, Steps

\* A run that is off, or that stays as it is, is in order.
LEMMA OffInOrder ==
    ASSUME NEW R, R.step = "off" PROVE StageOK(R) /\ CloseOK(R)
  BY DEF StageOK, CloseOK, Writing

\* Only the run that took the step has to be looked at.
LEMMA RunsKept ==
    ASSUME IInv, NEW r \in Runs, run[r].step # "off" \/ lock = Nobody, NEW R,
           run' = [run EXCEPT ![r] = R], R \in RunType, setting' = setting,
           R.step # "off" => /\ lock' = r /\ ttl' = LockTime - R.age /\ R.cap \in setting.caps,
           StageOK(R)', CloseOK(R)'
    PROVE  /\ run' \in [Runs -> RunType']
           /\ \A s \in Runs : HoldsLock(s)' /\ StageOK(run[s])' /\ CloseOK(run[s])'
<1>1. run \in [Runs -> RunType] /\ RunType' = RunType
  BY DEF IInv, TypeOK, RunType
<1>2. run'[r] = R /\ \A s \in Runs \ {r} : run'[s] = run[s] /\ run'[s].step = "off"
  BY <1>1, Alone
<1>3. run' \in [Runs -> RunType']
  BY <1>1
<1>4. ASSUME NEW s \in Runs PROVE HoldsLock(s)' /\ StageOK(run[s])' /\ CloseOK(run[s])'
  <2>1. CASE s = r
    BY <2>1, <1>2 DEF HoldsLock, StageOK, CloseOK, Staged, AtIt, Valid, Reach, Covered, Entries
  <2>2. CASE s # r
    BY <2>2, <1>2 DEF HoldsLock, StageOK, CloseOK, Writing
  <2> QED BY <2>1, <2>2
<1> QED BY <1>3, <1>4

\* The invariant holds at the start.
LEMMA InitIInv == Init => IInv
<1> SUFFICES ASSUME Init PROVE IInv
  OBVIOUS
<1>1. run \in [Runs -> RunType] /\ \A r \in Runs : run[r] = Off
  BY OffTyped DEF Init
<1>2. fails \in 0..MaxFails
  BY BoundsAssumption DEF Init
<1>3. \A k \in Streams : lo[k] = 0 /\ hi[k] = 0 /\ cursor[k] = 0
  BY DEF Init
<1>4. TypeOK
  BY <1>1, <1>2, <1>3, Bounds DEF Init, TypeOK
<1>5. ASSUME NEW k \in Streams PROVE StreamOK(k)
  <2>1. Reach(k, 0)
    BY DEF Reach
  <2> QED BY <2>1 DEF Init, StreamOK
<1>6. \A r \in Runs : HoldsLock(r) /\ StageOK(run[r]) /\ CloseOK(run[r])
  BY <1>1, OffTyped, OffInOrder DEF HoldsLock
<1> QED BY <1>4, <1>5, <1>6 DEF IInv

-----------------------------------------------------------------------------
(* One lemma per step.                                                     *)

\* A step that leaves the record of the archive alone.
LEMMA RecordKept ==
    ASSUME IInv, UNCHANGED <<stream, redis, bucket, lost>>
    PROVE  \A k \in Streams : StreamOK(k)'
  BY DEF IInv, StreamOK, Reach, Covered, Valid, stream, redis, bucket

\* A run that takes the lock has written nothing yet.
LEMMA LockKeeps == ASSUME IInv, NEW r \in Runs, Lock(r) PROVE IInv'
<1>1. PICK cap \in setting.caps : run' = [run EXCEPT ![r] =
          [Off EXCEPT !.step = "staging", !.cap = cap, !.todo = {k \in Streams : Exists(k)},
                      !.live = {k \in Streams : Exists(k)}]]
  BY DEF Lock
<1>2. PICK R : R = [Off EXCEPT !.step = "staging", !.cap = cap, !.todo = {k \in Streams : Exists(k)},
                               !.live = {k \in Streams : Exists(k)}]
  OBVIOUS
<1>3. /\ R \in RunType /\ R.step = "staging" /\ R.cap = cap /\ R.todo = R.live
      /\ R.age = 0 /\ \A k \in Streams : R.rows[k] = NoRange
  BY <1>2, Bounds DEF Off, RunType, Steps
<1>4. run' = [run EXCEPT ![r] = R] /\ lock = Nobody /\ lock' = r /\ ttl' = LockTime
  BY <1>1, <1>2 DEF Lock, LockTtl
<1>5. UNCHANGED <<stream, redis, bucket, lost, fails>>
  BY DEF Lock
<1>6. StageOK(R)' /\ CloseOK(R)'
  BY <1>3 DEF StageOK, CloseOK, Writing
<1>7. ttl' = LockTime - R.age
  BY <1>3, <1>4, Bounds
<1>8. /\ run' \in [Runs -> RunType']
      /\ \A s \in Runs : HoldsLock(s)' /\ StageOK(run[s])' /\ CloseOK(run[s])'
  BY <1>3, <1>4, <1>5, <1>6, <1>7, RunsKept DEF stream
<1>9. TypeOK'
  BY <1>4, <1>5, <1>8, Bounds DEF IInv, TypeOK, stream, redis, bucket
<1> QED BY <1>5, <1>8, <1>9, RecordKept DEF IInv

\* A run that ends leaves gov:archive and the bucket as they are.
LEMMA EndKeeps ==
    ASSUME IInv, NEW r \in Runs, run[r].step # "off", run' = [run EXCEPT ![r] = Off],
           UNCHANGED <<stream, redis, bucket, lost>>, fails' \in 0..MaxFails,
           lock' \in Runs \cup {Nobody}, ttl' \in 0..LockTime
    PROVE  IInv'
<1>1. StageOK(Off)' /\ CloseOK(Off)'
  BY OffTyped DEF StageOK, CloseOK, Writing, Off
<1>2. /\ run' \in [Runs -> RunType']
      /\ \A s \in Runs : HoldsLock(s)' /\ StageOK(run[s])' /\ CloseOK(run[s])'
  BY <1>1, OffTyped, RunsKept DEF stream
<1>3. TypeOK'
  BY <1>2 DEF IInv, TypeOK, stream, redis, bucket
<1> QED BY <1>2, <1>3, RecordKept DEF IInv

\* The end of a finished run.
LEMMA ReleaseKeeps == ASSUME IInv, NEW r \in Runs, Release(r) PROVE IInv'
  BY EndKeeps, Bounds DEF Release, Drop, IInv, TypeOK

\* A run that fails or dies: what it leaves is what the invariant says of Redis and the bucket.
LEMMA FailKeeps == ASSUME IInv, NEW r \in Runs, Fail(r) \/ Crash(r) PROVE IInv'
<1>1. fails \in 0..MaxFails /\ fails < MaxFails /\ fails' = fails + 1
  BY DEF Fail, Crash, IInv, TypeOK
<1>2. fails' \in 0..MaxFails
  BY <1>1, BoundsAssumption
<1> QED BY <1>2, EndKeeps, Bounds DEF Fail, Crash, Drop, IInv, TypeOK

\* Time: the lock's time to live and a live run's age add up to LOCK_SECONDS.
LEMMA TickKeeps == ASSUME IInv, Tick PROVE IInv'
<1>1. UNCHANGED <<stream, redis, bucket, lost, fails>> /\ run \in [Runs -> RunType]
      /\ RunType' = RunType /\ ttl \in 0..LockTime
  BY DEF Tick, IInv, TypeOK, RunType, stream
<1>2. ttl' \in 0..LockTime /\ (ttl > 0 => ttl' = ttl - 1)
  BY <1>1, Bounds DEF Tick, AfterTick
<1>3. ASSUME NEW s \in Runs
      PROVE  /\ run'[s] \in RunType /\ HoldsLock(s)' /\ StageOK(run[s])' /\ CloseOK(run[s])'
  <2>1. CASE run[s].step = "off"
    <3>1. run'[s] = run[s]
      BY <2>1 DEF Tick
    <3> QED BY <1>1, <2>1, <3>1 DEF HoldsLock, StageOK, CloseOK, Writing
  <2>2. CASE run[s].step # "off"
    <3>1. /\ run[s].age < TaskTime /\ run[s].age \in 0..TaskTime
          /\ run'[s] = [run[s] EXCEPT !.age = @ + 1] /\ run[s] \in RunType
      BY <2>2, RunTyped DEF Tick, IInv
    <3>2. run[s].age + 1 \in 0..TaskTime
      BY <3>1, LockAssumption
    <3>3. /\ run'[s] \in RunType /\ run'[s].age = run[s].age + 1
          /\ run'[s].step = run[s].step /\ run'[s].cap = run[s].cap /\ run'[s].todo = run[s].todo
          /\ run'[s].at = run[s].at /\ run'[s].rows = run[s].rows /\ run'[s].live = run[s].live
          /\ run'[s].gone = run[s].gone /\ run'[s].stale = run[s].stale
      BY <3>1, <3>2 DEF RunType
    <3>4. ttl = LockTime - run[s].age /\ lock = s /\ run[s].cap \in setting.caps
      BY <2>2 DEF IInv, HoldsLock
    <3>5. ttl' = LockTime - (run[s].age + 1) /\ ttl' # 0
      BY <3>1, <3>4, <1>2, LockAssumption
    <3>6. HoldsLock(s)'
      BY <1>1, <3>3, <3>4, <3>5 DEF HoldsLock, Tick, stream
    <3>7. StageOK(run[s]) /\ CloseOK(run[s])
      BY DEF IInv
    <3>8. StageOK(run[s])'
      BY <1>1, <3>3, <3>7 DEF StageOK, Staged, AtIt, Valid, Reach, Covered, stream, redis, bucket
    <3>9. CloseOK(run[s])'
      BY <1>1, <3>3, <3>7 DEF CloseOK, Valid, Reach, Covered, stream, redis, bucket
    <3> QED BY <3>3, <3>6, <3>8, <3>9
  <2> QED BY <2>1, <2>2
<1>4. run' \in [Runs -> RunType']
  BY <1>1, <1>3 DEF Tick
<1>5. TypeOK'
  BY <1>1, <1>2, <1>4 DEF IInv, TypeOK, Tick, stream, redis, bucket
<1> QED BY <1>1, <1>3, <1>5, RecordKept DEF IInv

\* What a live run knows of itself.
LEMMA Live ==
    ASSUME IInv, NEW r \in Runs, run[r].step # "off"
    PROVE  /\ run[r] \in RunType /\ TypeOK /\ lock = r /\ ttl = LockTime - run[r].age
           /\ run[r].cap \in setting.caps /\ run[r].cap \in Nat \ {0}
           /\ StageOK(run[r]) /\ CloseOK(run[r])
  BY RunTyped DEF IInv, HoldsLock

\* Staging records the abandoned range before another one takes its place.
LEMMA StageReadKeeps ==
    ASSUME IInv, NEW r \in Runs, NEW k \in Streams, StageRead(r, k) PROVE IInv'
<1>1. PICK g : g = RangeFor(k, run[r].cap)
  OBVIOUS
<1>2. /\ run[r].step = "staging" /\ k \in run[r].todo
      /\ superseded' = [superseded EXCEPT ![k] = SupersededBy(k, g)]
      /\ UNCHANGED <<stream, cursor, pending, bucket, lost, lock, ttl, fails>>
  BY <1>1 DEF StageRead
<1>3. /\ run[r] \in RunType /\ TypeOK /\ lock = r /\ ttl = LockTime - run[r].age
      /\ run[r].cap \in setting.caps /\ run[r].cap \in Nat \ {0} /\ StageOK(run[r]) /\ StreamOK(k)
  BY <1>2, Live DEF IInv
<1>4. \/ g = NoRange
      \/ Valid(k, g) /\ cursor[k] < g[1] /\ Reach(k, g[1] - 1)
  BY <1>1, <1>3, RangeIs
<1> DEFINE s == IF g = NoRange THEN "staging" ELSE "pending"
<1>5. PICK R : /\ R = [run[r] EXCEPT !.rows[k] = g, !.todo = @ \ {k}, !.at = {k}, !.step = s]
               /\ run' = [run EXCEPT ![r] = R]
  BY <1>1, <1>3 DEF StageRead, TypeOK, RunType
<1>6. g \in Ranges /\ s \in Steps
  BY <1>4, Bounds DEF Valid, Steps
<1>7. /\ R \in RunType /\ R.step = s /\ R.cap = run[r].cap /\ R.age = run[r].age
      /\ R.todo = run[r].todo \ {k} /\ R.at = {k} /\ R.live = run[r].live
      /\ R.rows[k] = g /\ \A j \in Streams \ {k} : R.rows[j] = run[r].rows[j]
  BY <1>3, <1>5, <1>6 DEF RunType
<1>8. /\ superseded[k] \subseteq superseded'[k]
      /\ \A j \in Streams \ {k} : superseded'[j] = superseded[j]
      /\ superseded' \in [Streams -> SUBSET Ranges]
      /\ OpenRange(k) /\ g # pending[k] => pending[k] \in superseded'[k]
  BY <1>2, <1>3, Bounds DEF TypeOK, SupersededBy
<1>9. pending[k] \in {NoRange, g} \cup superseded'[k] \cup archived[k]
  <2>1. CASE OpenRange(k)
    BY <2>1, <1>8
  <2>2. CASE ~OpenRange(k)
    <3>1. pending[k] = NoRange \/ pending[k][2] <= cursor[k]
      BY <2>2, <1>3, StreamTypes DEF OpenRange
    <3> QED BY <3>1, <1>3 DEF StreamOK
  <2> QED BY <2>1, <2>2
<1>10. (R.step = "pending" /\ g # NoRange) \/ (R.step = "staging" /\ g = NoRange)
  BY <1>7
<1> HIDE DEF s
<1>11. /\ run[r].todo \subseteq run[r].live /\ k \in run[r].live
       /\ \A j \in run[r].live \ run[r].todo : Staged(run[r], j)
       /\ \A j \in Streams \ run[r].live : run[r].rows[j] = NoRange
       /\ run[r].live \subseteq Streams
  BY <1>2, <1>3, RunTyped DEF StageOK, Writing
<1>12. ASSUME NEW j \in R.live \ R.todo PROVE Staged(R, j)'
  <2>1. CASE j = k
    <3>1. R.rows[k] = g /\ pending'[k] = pending[k] /\ archived'[k] = archived[k]
      BY <1>2, <1>7 DEF bucket
    <3>2. g # NoRange =>
             /\ Valid(k, g)' /\ cursor'[k] < g[1] /\ Reach(k, g[1] - 1)' /\ R.step = "pending"
             /\ k \in R.at
      BY <1>2, <1>4, <1>7, <1>10 DEF Valid, Reach, Covered, stream, bucket
    <3> QED BY <2>1, <3>1, <3>2, <1>9 DEF Staged, AtIt
  <2>2. CASE j # k
    <3>1. j \in run[r].live \ run[r].todo /\ j \in Streams
      BY <2>2, <1>7, <1>11, <1>12
    <3>2. /\ Staged(run[r], j) /\ R.rows[j] = run[r].rows[j] /\ j \notin R.at
          /\ run[r].step = "staging"
      BY <2>2, <3>1, <1>2, <1>7, <1>11
    <3> QED BY <3>1, <3>2, <1>2, <1>8, <2>2
            DEF Staged, AtIt, Valid, Reach, Covered, stream, bucket
  <2> QED BY <2>1, <2>2
<1>13. StageOK(R)'
  <2>1. R.todo \subseteq R.live /\ \A j \in Streams \ R.live : R.rows[j] = NoRange
    BY <1>7, <1>11
  <2>2. R.step # "staging" => k \in R.live \ R.todo /\ R.at = {k} /\ R.rows[k] # NoRange
    BY <1>7, <1>10, <1>11
  <2> QED BY <1>12, <2>1, <2>2 DEF StageOK
<1>14. CloseOK(R)'
  BY <1>10 DEF CloseOK
<1>15. /\ run' \in [Runs -> RunType']
       /\ \A x \in Runs : HoldsLock(x)' /\ StageOK(run[x])' /\ CloseOK(run[x])'
  <2>1. run[r].step # "off" /\ setting' = setting
    BY <1>2 DEF stream
  <2>2. R.step # "off" => /\ lock' = r /\ ttl' = LockTime - R.age /\ R.cap \in setting.caps
    BY <1>2, <1>3, <1>7
  <2> QED BY <1>5, <1>7, <1>13, <1>14, <2>1, <2>2, RunsKept
<1>16. TypeOK'
  BY <1>2, <1>3, <1>8, <1>15 DEF TypeOK, stream, bucket
<1>17. ASSUME NEW j \in Streams PROVE StreamOK(j)'
  <2>1. StreamOK(j) /\ superseded[j] \subseteq superseded'[j]
    BY <1>8 DEF IInv
  <2> QED BY <2>1, <1>2 DEF StreamOK, Reach, Covered, Valid, stream, bucket
<1> QED BY <1>15, <1>16, <1>17 DEF IInv

\* What the two writes of a stream share.
LEMMA WriteStep ==
    ASSUME IInv, NEW r \in Runs, run[r].step \in {"pending", "object"}, NEW k \in run[r].at
    PROVE  /\ run[r].at = {k} /\ k \in Streams /\ k \in run[r].live \ run[r].todo
           /\ run[r].rows[k] # NoRange /\ Valid(k, run[r].rows[k]) /\ run[r].rows[k] \in Ranges
           /\ cursor[k] < run[r].rows[k][1] /\ Staged(run[r], k)
           /\ pending[k] \in {NoRange, run[r].rows[k]} \cup superseded[k] \cup archived[k]
           /\ run[r].todo \subseteq run[r].live /\ run[r].live \subseteq Streams
           /\ \A j \in run[r].live \ run[r].todo : Staged(run[r], j)
           /\ \A j \in Streams \ run[r].live : run[r].rows[j] = NoRange
<1>1. run[r].step # "off" /\ run[r].step # "staging" /\ run[r].step \in Writing
  BY DEF Writing
<1>2. StageOK(run[r]) /\ TypeOK
  BY <1>1, Live
<1>3. /\ run[r].at = {k} /\ k \in run[r].live \ run[r].todo /\ run[r].rows[k] # NoRange
  BY <1>1, <1>2 DEF StageOK
<1>4. /\ run[r].todo \subseteq run[r].live /\ run[r].live \subseteq Streams
      /\ \A j \in run[r].live \ run[r].todo : Staged(run[r], j)
      /\ \A j \in Streams \ run[r].live : run[r].rows[j] = NoRange
  BY <1>1, <1>2, RunTyped DEF StageOK
<1> QED BY <1>3, <1>4 DEF Staged, Valid

\* The pending record is written before the object: what it replaces is on record.
LEMMA StagePendingKeeps == ASSUME IInv, NEW r \in Runs, StagePending(r) PROVE IInv'
<1>1. /\ run[r].step = "pending"
      /\ UNCHANGED <<stream, cursor, superseded, bucket, lost, lock, ttl, fails>>
  BY DEF StagePending
<1>2. PICK R : R = [run[r] EXCEPT !.step = "object"] /\ run' = [run EXCEPT ![r] = R]
  BY DEF StagePending
<1>3. /\ run[r] \in RunType /\ TypeOK /\ lock = r /\ ttl = LockTime - run[r].age
      /\ run[r].cap \in setting.caps
  BY <1>1, Live
<1>4. PICK k \in run[r].at : pending' = [pending EXCEPT ![k] = run[r].rows[k]]
  BY DEF StagePending
<1>5. PICK g : g = run[r].rows[k]
  OBVIOUS
<1>6. /\ run[r].at = {k} /\ k \in Streams /\ k \in run[r].live \ run[r].todo
      /\ g # NoRange /\ Valid(k, g) /\ g \in Ranges /\ cursor[k] < g[1] /\ Staged(run[r], k)
      /\ pending[k] \in {NoRange, g} \cup superseded[k] \cup archived[k]
      /\ run[r].todo \subseteq run[r].live /\ run[r].live \subseteq Streams
      /\ \A j \in run[r].live \ run[r].todo : Staged(run[r], j)
      /\ \A j \in Streams \ run[r].live : run[r].rows[j] = NoRange
  BY <1>1, <1>5, WriteStep
<1>7. /\ R \in RunType /\ R.step = "object" /\ R.cap = run[r].cap /\ R.age = run[r].age
      /\ R.todo = run[r].todo /\ R.at = {k} /\ R.live = run[r].live /\ R.rows = run[r].rows
  BY <1>2, <1>3, <1>6 DEF RunType, Steps
<1>8. /\ pending' \in [Streams -> Ranges] /\ pending'[k] = g
      /\ \A j \in Streams \ {k} : pending'[j] = pending[j]
  BY <1>3, <1>4, <1>5, <1>6 DEF TypeOK
<1>9. ASSUME NEW j \in R.live \ R.todo PROVE Staged(R, j)'
  <2>1. CASE j = k
    BY <2>1, <1>1, <1>5, <1>6, <1>7, <1>8
    DEF Staged, AtIt, Valid, Reach, Covered, stream, bucket
  <2>2. CASE j # k
    <3>1. j \in Streams /\ Staged(run[r], j) /\ j \notin R.at
      BY <2>2, <1>6, <1>7, <1>9
    <3> QED BY <2>2, <3>1, <1>1, <1>6, <1>7, <1>8
            DEF Staged, AtIt, Valid, Reach, Covered, stream, bucket
  <2> QED BY <2>1, <2>2
<1>10. StageOK(R)' /\ CloseOK(R)'
  BY <1>5, <1>6, <1>7, <1>9 DEF StageOK, CloseOK
<1>11. /\ run' \in [Runs -> RunType']
       /\ \A x \in Runs : HoldsLock(x)' /\ StageOK(run[x])' /\ CloseOK(run[x])'
  BY <1>1, <1>2, <1>3, <1>7, <1>10, RunsKept DEF stream
<1>12. TypeOK'
  BY <1>1, <1>3, <1>8, <1>11 DEF TypeOK, stream, bucket
<1>13. ASSUME NEW j \in Streams PROVE StreamOK(j)'
  <2>1. CASE j = k
    <3>1. StreamOK(k) /\ cursor[k] \in Nat
      BY <1>3, <1>6, StreamTypes DEF IInv
    <3>2. g[1] \in Nat /\ g[2] \in Nat /\ g[1] <= g[2]
      BY <1>6, Pairs, Bounds DEF Valid
    <3>3. ~(g[2] <= cursor[k])
      BY <1>6, <3>1, <3>2
    <3>4. pending[k] \notin objects[k] \/ pending[k] = g \/ pending[k] \in superseded[k] \cup archived[k]
      BY <1>6, <3>1, NotNoRange DEF StreamOK
    <3>5. objects[k] \subseteq archived[k] \cup dropped[k] \cup superseded[k] \cup {g}
      BY <3>1, <3>4 DEF StreamOK
    <3> QED BY <2>1, <1>1, <1>6, <1>8, <3>1, <3>3, <3>5
            DEF StreamOK, Reach, Covered, Valid, stream, bucket
  <2>2. CASE j # k
    <3>1. StreamOK(j)
      BY DEF IInv
    <3> QED BY <2>2, <3>1, <1>1, <1>8 DEF StreamOK, Reach, Covered, Valid, stream, bucket
  <2> QED BY <2>1, <2>2
<1> QED BY <1>11, <1>12, <1>13 DEF IInv

\* The object that is written is the pending one.
LEMMA StagePutKeeps == ASSUME IInv, NEW r \in Runs, StagePut(r) PROVE IInv'
<1>1. /\ run[r].step = "object"
      /\ UNCHANGED <<stream, redis, archived, dropped, lost, lock, ttl, fails>>
  BY DEF StagePut
<1>2. PICK R : R = [run[r] EXCEPT !.step = "staging"] /\ run' = [run EXCEPT ![r] = R]
  BY DEF StagePut
<1>3. /\ run[r] \in RunType /\ TypeOK /\ lock = r /\ ttl = LockTime - run[r].age
      /\ run[r].cap \in setting.caps
  BY <1>1, Live
<1>4. PICK k \in run[r].at : objects' = [objects EXCEPT ![k] = @ \cup {run[r].rows[k]}]
  BY DEF StagePut
<1>5. PICK g : g = run[r].rows[k]
  OBVIOUS
<1>6. /\ run[r].at = {k} /\ k \in Streams
      /\ g # NoRange /\ Valid(k, g) /\ g \in Ranges /\ Staged(run[r], k)
      /\ run[r].todo \subseteq run[r].live /\ run[r].live \subseteq Streams
      /\ \A j \in run[r].live \ run[r].todo : Staged(run[r], j)
      /\ \A j \in Streams \ run[r].live : run[r].rows[j] = NoRange
  BY <1>1, <1>5, WriteStep
<1>7. /\ R \in RunType /\ R.step = "staging" /\ R.cap = run[r].cap /\ R.age = run[r].age
      /\ R.todo = run[r].todo /\ R.live = run[r].live /\ R.rows = run[r].rows
  BY <1>2, <1>3 DEF RunType, Steps
<1>8. /\ objects' \in [Streams -> SUBSET Ranges] /\ objects'[k] = objects[k] \cup {g}
      /\ \A j \in Streams \ {k} : objects'[j] = objects[j]
  BY <1>3, <1>4, <1>5, <1>6 DEF TypeOK
<1>9. pending[k] = g
  BY <1>1, <1>5, <1>6 DEF Staged
<1>10. ASSUME NEW j \in R.live \ R.todo PROVE Staged(R, j)'
  <2>1. j \in Streams /\ Staged(run[r], j) /\ j \in run[r].live
    BY <1>6, <1>7, <1>10
  <2>2. R.rows[j] # NoRange => pending[j] = R.rows[j] /\ R.rows[j] \in objects'[j]
    BY <2>1, <1>1, <1>5, <1>6, <1>7, <1>8 DEF Staged, AtIt
  <2> QED BY <2>1, <2>2, <1>1, <1>7
          DEF Staged, AtIt, Valid, Reach, Covered, stream, redis
<1>11. StageOK(R)' /\ CloseOK(R)'
  BY <1>6, <1>7, <1>10 DEF StageOK, CloseOK
<1>12. /\ run' \in [Runs -> RunType']
       /\ \A x \in Runs : HoldsLock(x)' /\ StageOK(run[x])' /\ CloseOK(run[x])'
  BY <1>1, <1>2, <1>3, <1>7, <1>11, RunsKept DEF stream
<1>13. TypeOK'
  BY <1>1, <1>3, <1>8, <1>12 DEF TypeOK, stream, redis
<1>14. ASSUME NEW j \in Streams PROVE StreamOK(j)'
  <2>1. StreamOK(j)
    BY DEF IInv
  <2>2. /\ \A h \in objects'[j] : Valid(j, h)
        /\ objects'[j] \subseteq archived[j] \cup dropped[j] \cup superseded[j] \cup {pending[j]}
        /\ archived[j] \subseteq objects'[j]
    BY <2>1, <1>6, <1>8, <1>9 DEF StreamOK
  <2> QED BY <2>1, <2>2, <1>1 DEF StreamOK, Reach, Covered, Valid, stream, redis
<1> QED BY <1>12, <1>13, <1>14 DEF IInv

\* The ledger names the rows of this run and what earlier runs left.
LEMMA LedgerKeeps == ASSUME IInv, NEW r \in Runs, Ledger(r) PROVE IInv'
<1>1. /\ run[r].step = "staging" /\ run[r].todo = {}
      /\ archived' = [k \in Streams |->
            archived[k] \cup (IF k \in Ranged(r) THEN {run[r].rows[k]} ELSE {})]
      /\ dropped' = [k \in Streams |-> dropped[k] \cup NamedAsDropped(r, k)]
      /\ UNCHANGED <<stream, redis, objects, lost, lock, ttl, fails>>
  BY DEF Ledger
<1>2. /\ run[r] \in RunType /\ TypeOK /\ lock = r /\ ttl = LockTime - run[r].age
      /\ run[r].cap \in setting.caps /\ StageOK(run[r])
  BY <1>1, Live
<1>3. PICK R : /\ R = [run[r] EXCEPT !.step = "cursors", !.todo = Ranged(r), !.gone = Gone(r),
                          !.stale = {k \in Streams \ run[r].live : cursor[k] # 0}]
               /\ run' = [run EXCEPT ![r] = R]
  BY DEF Ledger
<1>4. /\ R \in RunType /\ R.step = "cursors" /\ R.cap = run[r].cap /\ R.age = run[r].age
      /\ R.todo = Ranged(r) /\ R.gone = Gone(r) /\ R.live = run[r].live /\ R.rows = run[r].rows
  BY <1>2, <1>3, RunTyped DEF RunType, Steps, Ranged, Gone
<1>5. /\ \A k \in run[r].live : Staged(run[r], k) /\ k \in Streams
  BY <1>1, <1>2, RunTyped DEF StageOK, Writing
<1>6. ASSUME NEW k \in run[r].live, run[r].rows[k] # NoRange
      PROVE  /\ Valid(k, run[r].rows[k]) /\ run[r].rows[k] \in objects[k]
             /\ pending[k] = run[r].rows[k] /\ Reach(k, run[r].rows[k][1] - 1)
             /\ run[r].rows[k] \in archived'[k] /\ run[r].rows[k] \in Ranges
  BY <1>1, <1>5, <1>6 DEF Staged, AtIt, Ranged, Valid
<1>7. /\ archived' \in [Streams -> SUBSET Ranges]
      /\ \A k \in Streams : /\ archived[k] \subseteq archived'[k] /\ archived'[k] \subseteq objects[k]
                            /\ dropped[k] \subseteq dropped'[k]
                            /\ superseded[k] \subseteq dropped'[k]
  <2>1. \A k \in Streams : archived[k] \in SUBSET Ranges /\ archived[k] \subseteq objects[k]
    BY <1>2 DEF TypeOK, IInv, StreamOK
  <2> QED BY <1>1, <1>6, <2>1 DEF Ranged, NamedAsDropped
<1>8. dropped' \in [Streams -> SUBSET Ranges]
  <2>1. \A k \in Streams : dropped[k] \cup NamedAsDropped(r, k) \in SUBSET Ranges
    BY <1>2 DEF TypeOK, NamedAsDropped
  <2> QED BY <1>1, <2>1
<1>9. \A k \in Streams : archived[k] \subseteq archived'[k] /\ lost[k] \subseteq lost'[k]
  BY <1>1, <1>7
<1>10. ASSUME NEW k \in Streams PROVE StreamOK(k)'
  <2>1. StreamOK(k)
    BY DEF IInv
  <2>2. Reach(k, lo[k])' /\ Reach(k, cursor[k])'
    <3>1. lo'[k] = lo[k] /\ cursor'[k] = cursor[k]
      BY <1>1 DEF stream, redis
    <3>2. Reach(k, lo[k]) /\ Reach(k, cursor[k])
      BY <2>1 DEF StreamOK
    <3> QED BY <3>1, <3>2, <1>9 DEF Reach, Covered
  <2> QED BY <2>1, <2>2, <1>1, <1>7 DEF StreamOK, Valid, stream, redis
<1>11. CloseOK(R)'
  <2>1. \A k \in Streams : superseded'[k] \subseteq dropped'[k]
    BY <1>1, <1>7 DEF redis
  <2>2. R.todo \subseteq {k \in R.live : R.rows[k] # NoRange}
    BY <1>4 DEF Ranged
  <2>3. \A k \in R.gone : pending'[k] \in dropped'[k]
    BY <1>1, <1>4 DEF Gone, NamedAsDropped, redis
  <2>4. ASSUME NEW k \in R.live, R.rows[k] = NoRange
        PROVE  pending'[k] \in {NoRange} \cup dropped'[k] \cup archived'[k]
    BY <2>4, <1>1, <1>4, <1>5, <1>7 DEF Staged, redis
  <2>5. ASSUME NEW k \in R.live, R.rows[k] # NoRange
        PROVE  /\ Valid(k, R.rows[k])' /\ R.rows[k] \in archived'[k] /\ pending'[k] = R.rows[k]
               /\ Reach(k, R.rows[k][2])'
    <3>1. PICK g : g = R.rows[k]
      OBVIOUS
    <3>2. /\ Valid(k, g) /\ pending[k] = g /\ Reach(k, g[1] - 1) /\ g \in archived'[k]
          /\ k \in Streams /\ g \in Ranges /\ 1 <= g[1]
      BY <2>5, <3>1, <1>4, <1>5, <1>6 DEF Valid
    <3>3. Reach(k, g[1] - 1)'
      BY <3>2, <1>9, ReachKept
    <3>4. Reach(k, g[2])'
      BY <3>2, <3>3, Pairs, Bounds DEF Reach, Covered, Entries
    <3> QED BY <3>1, <3>2, <3>4, <1>1 DEF Valid, stream, redis
  <2> QED BY <1>4, <2>1, <2>2, <2>3, <2>4, <2>5 DEF CloseOK
<1>12. StageOK(R)'
  BY <1>4 DEF StageOK, Writing
<1>13. /\ run' \in [Runs -> RunType']
       /\ \A x \in Runs : HoldsLock(x)' /\ StageOK(run[x])' /\ CloseOK(run[x])'
  BY <1>1, <1>2, <1>3, <1>4, <1>11, <1>12, RunsKept DEF stream
<1>14. TypeOK'
  BY <1>1, <1>2, <1>7, <1>8, <1>13 DEF TypeOK, stream, redis
<1> QED BY <1>10, <1>13, <1>14 DEF IInv

\* A cursor moves to the end of a range the ledger names.
LEMMA MoveCursorKeeps ==
    ASSUME IInv, NEW r \in Runs, NEW k \in Streams, MoveCursor(r, k) PROVE IInv'
<1>1. /\ run[r].step = "cursors" /\ k \in run[r].todo
      /\ cursor' = [cursor EXCEPT ![k] = run[r].rows[k][2]]
      /\ UNCHANGED <<stream, pending, superseded, bucket, lost, lock, ttl, fails>>
  BY DEF MoveCursor
<1>2. PICK R : R = [run[r] EXCEPT !.todo = @ \ {k}] /\ run' = [run EXCEPT ![r] = R]
  BY DEF MoveCursor
<1>3. /\ run[r] \in RunType /\ TypeOK /\ lock = r /\ ttl = LockTime - run[r].age
      /\ run[r].cap \in setting.caps /\ CloseOK(run[r])
  BY <1>1, Live
<1>4. PICK g : g = run[r].rows[k]
  OBVIOUS
<1>5. /\ k \in run[r].live /\ g # NoRange /\ Valid(k, g) /\ g \in archived[k] /\ pending[k] = g
      /\ Reach(k, g[2])
  BY <1>1, <1>3, <1>4 DEF CloseOK
<1>6. /\ R \in RunType /\ R.step = "cursors" /\ R.cap = run[r].cap /\ R.age = run[r].age
      /\ R.todo = run[r].todo \ {k} /\ R.live = run[r].live /\ R.rows = run[r].rows
      /\ R.gone = run[r].gone
  BY <1>1, <1>2, <1>3 DEF RunType
<1>7. g[2] \in Ids /\ g[2] <= hi[k] /\ cursor' \in [Streams -> Ids] /\ cursor'[k] = g[2]
      /\ \A j \in Streams \ {k} : cursor'[j] = cursor[j]
  BY <1>1, <1>3, <1>4, <1>5, Pairs DEF TypeOK, Valid
<1>8. StageOK(R)' /\ CloseOK(R)'
  BY <1>1, <1>3, <1>6
     DEF StageOK, CloseOK, Writing, Valid, Reach, Covered, stream, bucket
<1>9. /\ run' \in [Runs -> RunType']
      /\ \A x \in Runs : HoldsLock(x)' /\ StageOK(run[x])' /\ CloseOK(run[x])'
  BY <1>1, <1>2, <1>3, <1>6, <1>8, RunsKept DEF stream
<1>10. TypeOK'
  BY <1>1, <1>3, <1>7, <1>9 DEF TypeOK, stream, bucket
<1>11. ASSUME NEW j \in Streams PROVE StreamOK(j)'
  <2>1. StreamOK(j)
    BY DEF IInv
  <2>2. Reach(j, cursor'[j]) /\ (j = k => pending[j] \in archived[j])
    BY <2>1, <1>5, <1>7 DEF StreamOK
  <2> QED BY <2>1, <2>2, <1>1, <1>7 DEF StreamOK, Reach, Covered, Valid, stream, bucket
<1> QED BY <1>9, <1>10, <1>11 DEF IInv

\* The pending ranges that are cleared are named by the ledger.
LEMMA ClearPendingKeeps == ASSUME IInv, NEW r \in Runs, ClearPending(r) PROVE IInv'
<1>1. /\ run[r].step = "cursors" /\ run[r].todo = {}
      /\ pending' = [k \in Streams |->
            IF k \in run[r].live \cup run[r].gone THEN NoRange ELSE pending[k]]
      /\ UNCHANGED <<stream, cursor, superseded, bucket, lost, lock, ttl, fails>>
  BY DEF ClearPending
<1>2. PICK R : R = [run[r] EXCEPT !.step = "supersededs"] /\ run' = [run EXCEPT ![r] = R]
  BY DEF ClearPending
<1>3. /\ run[r] \in RunType /\ TypeOK /\ lock = r /\ ttl = LockTime - run[r].age
      /\ run[r].cap \in setting.caps /\ CloseOK(run[r])
  BY <1>1, Live
<1>4. /\ R \in RunType /\ R.step = "supersededs" /\ R.cap = run[r].cap /\ R.age = run[r].age
  BY <1>2, <1>3 DEF RunType, Steps
<1>5. pending' \in [Streams -> Ranges]
  BY <1>1, <1>3, Bounds DEF TypeOK
<1>6. StageOK(R)' /\ CloseOK(R)'
  BY <1>1, <1>3, <1>4 DEF StageOK, CloseOK, Writing, bucket
<1>7. /\ run' \in [Runs -> RunType']
      /\ \A x \in Runs : HoldsLock(x)' /\ StageOK(run[x])' /\ CloseOK(run[x])'
  BY <1>1, <1>2, <1>3, <1>4, <1>6, RunsKept DEF stream
<1>8. TypeOK'
  BY <1>1, <1>3, <1>5, <1>7 DEF TypeOK, stream, bucket
<1>9. ASSUME NEW j \in Streams PROVE StreamOK(j)'
  <2>1. StreamOK(j)
    BY DEF IInv
  <2>2. \/ pending'[j] = pending[j]
        \/ pending'[j] = NoRange /\ pending[j] \in {NoRange} \cup dropped[j] \cup archived[j]
    <3>1. CASE j \in run[r].gone
      BY <3>1, <1>1, <1>3 DEF CloseOK
    <3>2. CASE j \in run[r].live /\ run[r].rows[j] = NoRange
      BY <3>2, <1>1, <1>3 DEF CloseOK
    <3>3. CASE j \in run[r].live /\ run[r].rows[j] # NoRange
      BY <3>3, <1>1, <1>3 DEF CloseOK
    <3>4. CASE j \notin run[r].live \cup run[r].gone
      BY <3>4, <1>1
    <3> QED BY <3>1, <3>2, <3>3, <3>4
  <2>3. NoRange \notin objects[j]
    BY <2>1, NotNoRange DEF StreamOK
  <2> QED BY <2>1, <2>2, <2>3, <1>1 DEF StreamOK, Reach, Covered, Valid, stream, bucket
<1> QED BY <1>7, <1>8, <1>9 DEF IInv

\* So are the superseded ones.
LEMMA ClearSupersededKeeps == ASSUME IInv, NEW r \in Runs, ClearSuperseded(r) PROVE IInv'
<1>1. /\ run[r].step = "supersededs" /\ superseded' = [k \in Streams |-> {}]
      /\ UNCHANGED <<stream, cursor, pending, bucket, lost, lock, ttl, fails>>
  BY DEF ClearSuperseded
<1>2. PICK R : R = [run[r] EXCEPT !.step = "stales"] /\ run' = [run EXCEPT ![r] = R]
  BY DEF ClearSuperseded
<1>3. /\ run[r] \in RunType /\ TypeOK /\ lock = r /\ ttl = LockTime - run[r].age
      /\ run[r].cap \in setting.caps /\ CloseOK(run[r])
  BY <1>1, Live
<1>4. /\ R \in RunType /\ R.step = "stales" /\ R.cap = run[r].cap /\ R.age = run[r].age
  BY <1>2, <1>3 DEF RunType, Steps
<1>5. StageOK(R)' /\ CloseOK(R)'
  BY <1>4 DEF StageOK, CloseOK, Writing
<1>6. /\ run' \in [Runs -> RunType']
      /\ \A x \in Runs : HoldsLock(x)' /\ StageOK(run[x])' /\ CloseOK(run[x])'
  BY <1>1, <1>2, <1>3, <1>4, <1>5, RunsKept DEF stream
<1>7. TypeOK'
  BY <1>1, <1>3, <1>6 DEF TypeOK, stream, bucket
<1>8. ASSUME NEW j \in Streams PROVE StreamOK(j)'
  <2>1. StreamOK(j) /\ superseded[j] \subseteq dropped[j]
    BY <1>1, <1>3 DEF IInv, CloseOK
  <2> QED BY <2>1, <1>1 DEF StreamOK, Reach, Covered, Valid, stream, bucket
<1> QED BY <1>6, <1>7, <1>8 DEF IInv

\* A cursor that is dropped says nothing.
LEMMA DropCursorsKeeps == ASSUME IInv, NEW r \in Runs, DropCursors(r) PROVE IInv'
<1>1. /\ run[r].step = "stales"
      /\ cursor' = [k \in Streams |-> IF k \in run[r].stale THEN 0 ELSE cursor[k]]
      /\ UNCHANGED <<stream, pending, superseded, bucket, lost, lock, ttl, fails>>
  BY DEF DropCursors
<1>2. PICK R : R = [run[r] EXCEPT !.step = "done"] /\ run' = [run EXCEPT ![r] = R]
  BY DEF DropCursors
<1>3. /\ run[r] \in RunType /\ TypeOK /\ lock = r /\ ttl = LockTime - run[r].age
      /\ run[r].cap \in setting.caps
  BY <1>1, Live
<1>4. /\ R \in RunType /\ R.step = "done" /\ R.cap = run[r].cap /\ R.age = run[r].age
  BY <1>2, <1>3 DEF RunType, Steps
<1>5. StageOK(R)' /\ CloseOK(R)'
  BY <1>4 DEF StageOK, CloseOK, Writing
<1>6. /\ run' \in [Runs -> RunType']
      /\ \A x \in Runs : HoldsLock(x)' /\ StageOK(run[x])' /\ CloseOK(run[x])'
  BY <1>1, <1>2, <1>3, <1>4, <1>5, RunsKept DEF stream
<1>7. ASSUME NEW j \in Streams
      PROVE  /\ cursor'[j] \in Ids /\ cursor'[j] <= hi'[j] /\ (cursor'[j] = cursor[j] \/ cursor'[j] = 0)
  BY <1>1, <1>3, StreamTypes, Bounds DEF stream
<1>8. TypeOK'
  BY <1>1, <1>3, <1>6, <1>7 DEF TypeOK, stream, bucket
<1>9. ASSUME NEW j \in Streams PROVE StreamOK(j)'
  <2>1. StreamOK(j)
    BY DEF IInv
  <2>2. CASE cursor'[j] = cursor[j]
    BY <2>1, <2>2, <1>1 DEF StreamOK, Reach, Covered, Valid, stream, bucket
  <2>3. CASE cursor'[j] = 0
    <3>1. Reach(j, 0)
      BY DEF Reach
    <3>2. pending[j][2] <= 0 => pending[j] = NoRange
      BY <2>1, Pairs, Bounds DEF StreamOK, Valid
    <3> QED BY <2>1, <2>3, <3>1, <3>2, <1>1 DEF StreamOK, Reach, Covered, Valid, stream, bucket
  <2> QED BY <1>7, <2>2, <2>3
<1> QED BY <1>6, <1>8, <1>9 DEF IInv

-----------------------------------------------------------------------------
(* The streams.                                                            *)

\* A step of the streams' writers: entries come, entries go and are lost.
LEMMA StreamStep ==
    ASSUME IInv, UNCHANGED <<setting, redis, bucket, lock, ttl, run, fails>>,
           lo' \in [Streams -> Ids], hi' \in [Streams -> Ids], lost' \in [Streams -> SUBSET Ids],
           \A k \in Streams : /\ lo'[k] <= hi'[k] /\ hi[k] <= hi'[k] /\ lost[k] \subseteq lost'[k]
                              /\ Reach(k, lo[k])'
    PROVE  IInv'
<1>1. TypeOK /\ hi \in [Streams -> Ids] /\ cursor \in [Streams -> Ids]
  BY DEF IInv, TypeOK
<1>2. \A k \in Streams : lo[k] \in Nat /\ hi[k] \in Nat /\ hi'[k] \in Nat /\ cursor[k] \in Nat
                         /\ cursor[k] <= hi[k]
  BY <1>1, StreamTypes, Bounds
<1>3. \A k \in Streams : cursor'[k] <= hi'[k]
  BY <1>2 DEF redis
<1>4. TypeOK'
  BY <1>1, <1>3 DEF TypeOK, RunType, redis, bucket
<1>5. \A k \in Streams : \A g : Valid(k, g) => Valid(k, g)'
  BY <1>2, ValidKept
<1>6. \A k \in Streams : \A n : Reach(k, n) => Reach(k, n)'
  BY DEF Reach, Covered, bucket
<1>7. ASSUME NEW k \in Streams PROVE StreamOK(k)'
  BY <1>5, <1>6 DEF IInv, StreamOK, redis, bucket
<1>8. ASSUME NEW r \in Runs PROVE HoldsLock(r)' /\ StageOK(run[r])' /\ CloseOK(run[r])'
  <2>1. /\ HoldsLock(r) /\ StageOK(run[r]) /\ CloseOK(run[r]) /\ run[r].live \subseteq Streams
        /\ run' = run
    BY <1>1, RunTyped DEF IInv
  <2>2. HoldsLock(r)'
    BY <2>1 DEF HoldsLock
  <2>3. \A k \in Streams : Staged(run[r], k) => Staged(run[r], k)'
    BY <2>1, <1>5, <1>6 DEF Staged, AtIt, redis, bucket
  <2>4. StageOK(run[r])'
    BY <2>1, <2>3 DEF StageOK
  <2>5. CloseOK(run[r])'
    BY <2>1, <1>5, <1>6 DEF CloseOK, redis, bucket
  <2> QED BY <2>2, <2>4, <2>5
<1> QED BY <1>4, <1>7, <1>8 DEF IInv

\* A writer adds an entry.
LEMMA AddKeeps == ASSUME IInv, NEW k \in Streams, Add(k) PROVE IInv'
<1>1. TypeOK /\ UNCHANGED <<lo, lost, setting, redis, bucket, lock, ttl, run, fails>>
      /\ hi[k] < MaxEntries /\ hi' = [hi EXCEPT ![k] = @ + 1]
  BY DEF Add, IInv
<1>2. hi[k] + 1 \in Ids
  BY <1>1, StreamTypes, Bounds DEF Ids
<1>3. hi' \in [Streams -> Ids] /\ hi'[k] = hi[k] + 1 /\ \A j \in Streams \ {k} : hi'[j] = hi[j]
  BY <1>1, <1>2 DEF TypeOK
<1>4. \A j \in Streams : lo[j] \in Nat /\ hi[j] \in Nat /\ lo[j] <= hi[j] /\ Reach(j, lo[j])
  BY <1>1, StreamTypes DEF IInv, StreamOK
<1>5. \A j \in Streams : lo'[j] <= hi'[j] /\ hi[j] <= hi'[j]
  BY <1>1, <1>3, <1>4
<1>6. \A j \in Streams : Reach(j, lo[j])'
  BY <1>1, <1>4 DEF Reach, Covered, bucket
<1> QED BY <1>1, <1>3, <1>5, <1>6, StreamStep DEF TypeOK

\* Entries that go before a ledger names them are lost.
LEMMA RemoveKeeps ==
    ASSUME IInv, NEW k \in Streams, NEW n \in Nat, lo[k] <= n, n <= hi[k], Remove(k, n) PROVE IInv'
<1>1. TypeOK /\ UNCHANGED <<hi, setting, redis, bucket, lock, ttl, run, fails>>
      /\ lo' = [lo EXCEPT ![k] = n]
      /\ lost' = [lost EXCEPT ![k] = @ \cup (((lo[k] + 1)..n) \ Covered(k))]
  BY DEF Remove, IInv
<1>2. lo[k] \in Nat /\ hi[k] \in Nat /\ hi[k] <= MaxEntries
  BY <1>1, StreamTypes
<1>3. n \in Ids /\ (lo[k] + 1)..n \subseteq Ids
  BY <1>2, Bounds DEF Ids
<1>4. /\ lo' \in [Streams -> Ids] /\ lo'[k] = n /\ \A j \in Streams \ {k} : lo'[j] = lo[j]
      /\ lost' \in [Streams -> SUBSET Ids] /\ lost'[k] = lost[k] \cup (((lo[k] + 1)..n) \ Covered(k))
      /\ \A j \in Streams \ {k} : lost'[j] = lost[j]
  BY <1>1, <1>3 DEF TypeOK
<1>5. Reach(k, lo[k])
  BY DEF IInv, StreamOK
<1>6. \A i \in 1..n : i \in 1..lo[k] \/ i \in (lo[k] + 1)..n
  BY <1>2
<1>7. 1..n \subseteq Covered(k) \cup lost'[k]
  BY <1>4, <1>5, <1>6 DEF Reach
<1>8. \A j \in Streams : Reach(j, lo[j])'
  <2>1. \A j \in Streams \ {k} : Reach(j, lo[j])
    BY DEF IInv, StreamOK
  <2> QED BY <1>1, <1>4, <1>7, <2>1 DEF Reach, Covered, bucket
<1>9. \A j \in Streams : lo[j] <= hi[j] /\ hi[j] \in Nat
  BY <1>1, StreamTypes
<1>10. \A j \in Streams : lo'[j] <= hi'[j] /\ hi[j] <= hi'[j] /\ lost[j] \subseteq lost'[j]
  BY <1>1, <1>4, <1>9
<1> QED BY <1>1, <1>4, <1>8, <1>10, StreamStep DEF TypeOK

\* A stream is trimmed or expires.
LEMMA GoKeeps == ASSUME IInv, NEW k \in Streams, Trim(k) \/ Expire(k) PROVE IInv'
<1>1. lo[k] \in Nat /\ hi[k] \in Nat /\ lo[k] <= hi[k] /\ lo[k] + 1 \in Nat
  BY StreamTypes DEF IInv
<1>2. CASE Trim(k)
  BY <1>1, <1>2, RemoveKeeps DEF Trim
<1>3. CASE Expire(k)
  BY <1>1, <1>3, RemoveKeeps DEF Expire
<1> QED BY <1>2, <1>3

\* Nothing changes.
LEMMA StutterKeeps == ASSUME IInv, UNCHANGED vars PROVE IInv'
  BY DEF vars, stream, redis, bucket, IInv, TypeOK, RunType, StreamOK, HoldsLock, StageOK, CloseOK,
         Staged, AtIt, Valid, Reach, Covered, Writing

\* Every step keeps the invariant.
LEMMA NextKeeps == IInv /\ [Next]_vars => IInv'
<1> SUFFICES ASSUME IInv, [Next]_vars PROVE IInv'
  OBVIOUS
<1>1. ASSUME NEW r \in Runs, Work(r) PROVE IInv'
  BY <1>1, StageReadKeeps, MoveCursorKeeps, StagePendingKeeps, StagePutKeeps, LedgerKeeps,
     ClearPendingKeeps, ClearSupersededKeeps, DropCursorsKeeps, ReleaseKeeps DEF Work
<1>2. ASSUME NEW r \in Runs, Lock(r) \/ Fail(r) \/ Crash(r) PROVE IInv'
  BY <1>2, LockKeeps, FailKeeps
<1>3. ASSUME NEW k \in Streams, Add(k) \/ Trim(k) \/ Expire(k) PROVE IInv'
  BY <1>3, AddKeeps, GoKeeps
<1>4. CASE Next
  BY <1>1, <1>2, <1>3, <1>4, TickKeeps DEF Next
<1> QED BY <1>4, StutterKeeps

\* The invariant holds of every behaviour.
THEOREM InductiveInvariant == Spec => []IInv
  BY InitIInv, NextKeeps, PTL DEF Spec

\* The invariant gives what the runs check.
LEMMA IInvGives == IInv => ArchiveInv
<1> SUFFICES ASSUME IInv PROVE ArchiveInv
  OBVIOUS
<1>1. OneArchiver
  BY DEF IInv, HoldsLock, OneArchiver
<1>2. EveryObjectOnRecord /\ LedgerNamesObjects /\ NothingSkipped
  BY DEF IInv, StreamOK, Reach, EveryObjectOnRecord, LedgerNamesObjects, NothingSkipped
<1> QED BY <1>1, <1>2 DEF ArchiveInv, IInv

\* One run at a time writes the archive, and at every step, whichever steps runs
\* died at: every object is named by a ledger or by Redis, a ledger names objects
\* that exist, and the cursor has passed only what they hold or the stream lost.
THEOREM NoObjectIsForgotten == Spec => []ArchiveInv
  BY InductiveInvariant, IInvGives, PTL

-----------------------------------------------------------------------------
(* No range twice.                                                         *)

\* Under one cap the range of a run is short enough for every later run.
LEMMA OneCap ==
    ASSUME TypeOK, NEW k \in Streams, Steady(k), NEW cap \in setting.caps, NEW g,
           g[2] <= g[1] + cap - 1
    PROVE  Short(g)
<1>1. IsFiniteSet(setting.caps)
  BY SettingsAssumption DEF TypeOK
<1>2. \A c \in setting.caps : c = cap
  BY <1>1, FS_Singleton DEF Steady
<1> QED BY <1>2 DEF Short

\* The front of a stream is its cursor or its oldest entry, whichever is later.
LEMMA FrontIs ==
    ASSUME NEW k, lo[k] \in Nat, cursor[k] \in Nat
    PROVE  Front(k) \in Nat /\ lo[k] <= Front(k) /\ cursor[k] <= Front(k)
           /\ (Front(k) = cursor[k] \/ Front(k) = lo[k])
  BY DEF Front, Most

\* Nothing that was ever written ends behind the newest entry.
LEMMA BehindNewest ==
    ASSUME IInv, NEW k \in Streams
    PROVE  /\ \A g \in archived[k] : /\ g \in Ranges /\ g # NoRange /\ g[1] \in Nat /\ g[2] \in Nat
                                     /\ g[1] <= g[2] /\ g[2] <= hi[k]
           /\ pending[k][2] <= hi[k] /\ pending[k][1] \in Nat /\ pending[k][2] \in Nat
           /\ lo[k] \in Nat /\ hi[k] \in Nat /\ cursor[k] \in Nat /\ lo[k] <= hi[k] /\ cursor[k] <= hi[k]
           /\ Front(k) \in Nat /\ lo[k] <= Front(k) /\ cursor[k] <= Front(k) /\ Front(k) <= hi[k]
           /\ StreamOK(k)
<1>1. StreamOK(k) /\ TypeOK
  BY DEF IInv
<1>2. /\ lo[k] \in Nat /\ hi[k] \in Nat /\ cursor[k] \in Nat /\ lo[k] <= hi[k] /\ cursor[k] <= hi[k]
      /\ pending[k][1] \in Nat /\ pending[k][2] \in Nat
  BY <1>1, StreamTypes
<1>3. \A g \in archived[k] : Valid(k, g)
  BY <1>1 DEF StreamOK
<1>4. \A g \in archived[k] : /\ g \in Ranges /\ g # NoRange /\ g[1] \in Nat /\ g[2] \in Nat
                             /\ g[1] <= g[2] /\ g[2] <= hi[k]
  BY <1>3, NotNoRange, Pairs, Bounds DEF Valid
<1>5. pending[k][2] <= hi[k]
  BY <1>1, <1>2, Bounds DEF StreamOK, Valid
<1>6. /\ Front(k) \in Nat /\ lo[k] <= Front(k) /\ cursor[k] <= Front(k) /\ Front(k) <= hi[k]
  BY <1>2, FrontIs
<1> QED BY <1>1, <1>2, <1>4, <1>5, <1>6

\* Again only the run that took the step has to be looked at.
LEMMA OnlyThisRun ==
    ASSUME IInv, NEW r \in Runs, run[r].step # "off" \/ lock = Nobody, NEW R,
           run' = [run EXCEPT ![r] = R], setting' = setting,
           \A k \in Streams : Steady(k) => InOrder(k)' /\ (R.step # "off" => Apart(R, k)')
    PROVE  SteadyInv'
<1>1. run'[r] = R /\ \A s \in Runs \ {r} : run'[s].step = "off"
  BY Alone DEF IInv, TypeOK
<1>2. \A k \in Streams : Steady(k)' = Steady(k)
  BY DEF Steady
<1>3. ASSUME NEW k \in Streams, Steady(k)', NEW s \in Runs, run'[s].step # "off"
      PROVE  Apart(run[s], k)'
  <2>1. s = r
    BY <1>1, <1>3
  <2> QED BY <2>1, <1>1, <1>2, <1>3 DEF Apart
<1> QED BY <1>2, <1>3 DEF SteadyInv

\* What a stream's order depends on.
LEMMA OrderKept ==
    ASSUME NEW k, InOrder(k), UNCHANGED <<lo[k], cursor[k], pending[k], archived[k], setting>>
    PROVE  InOrder(k)'
  BY DEF InOrder, Front, Most, Short, Disjoint, Entries

\* A stream that does not exist has its whole record behind it.
LEMMA LockSteady == ASSUME IInv, SteadyInv, NEW r \in Runs, Lock(r) PROVE SteadyInv'
<1>1. PICK cap \in setting.caps : run' = [run EXCEPT ![r] =
          [Off EXCEPT !.step = "staging", !.cap = cap, !.todo = {k \in Streams : Exists(k)},
                      !.live = {k \in Streams : Exists(k)}]]
  BY DEF Lock
<1>2. PICK R : R = [Off EXCEPT !.step = "staging", !.cap = cap, !.todo = {k \in Streams : Exists(k)},
                               !.live = {k \in Streams : Exists(k)}]
  OBVIOUS
<1>3. R.step = "staging" /\ R.todo = R.live /\ R.live = {k \in Streams : Exists(k)}
  BY <1>2 DEF Off
<1>4. run' = [run EXCEPT ![r] = R] /\ lock = Nobody /\ UNCHANGED <<stream, redis, bucket>>
  BY <1>1, <1>2 DEF Lock
<1>5. ASSUME NEW k \in Streams, Steady(k) PROVE InOrder(k)' /\ Apart(R, k)'
  <2>1. InOrder(k)'
    BY <1>4, <1>5, OrderKept DEF SteadyInv, stream, redis, bucket
  <2>2. k \notin R.live => lo[k] = hi[k]
    BY <1>3, BehindNewest DEF Exists
  <2>3. k \notin R.live => /\ \A g \in archived'[k] : g[2] <= lo'[k]
                           /\ pending'[k][2] <= lo'[k]
    BY <2>2, <1>4, BehindNewest DEF stream, redis, bucket
  <2> QED BY <2>1, <2>3, <1>3 DEF Apart
<1> QED BY <1>4, <1>5, OnlyThisRun DEF stream

\* A live run's streams are apart.
LEMMA LiveApart ==
    ASSUME SteadyInv, NEW r \in Runs, run[r].step # "off", NEW k \in Streams, Steady(k)
    PROVE  InOrder(k) /\ Apart(run[r], k)
  BY DEF SteadyInv

\* The new range begins behind every archived one, or is the archived open one.
LEMMA StageReadSteady ==
    ASSUME IInv, SteadyInv, NEW r \in Runs, NEW j \in Streams, StageRead(r, j) PROVE SteadyInv'
<1>1. PICK g : g = RangeFor(j, run[r].cap)
  OBVIOUS
<1>2. /\ run[r].step = "staging" /\ j \in run[r].todo
      /\ UNCHANGED <<stream, cursor, pending, bucket, lost, lock, ttl, fails>>
  BY DEF StageRead
<1>3. /\ run[r] \in RunType /\ TypeOK /\ run[r].cap \in setting.caps /\ run[r].cap \in Nat \ {0}
      /\ StageOK(run[r]) /\ StreamOK(j)
  BY <1>2, Live DEF IInv
<1>4. \/ g = NoRange /\ Front(j) >= hi[j]
      \/ /\ Valid(j, g) /\ g[1] = Front(j) + 1 /\ g[2] <= g[1] + run[r].cap - 1
         /\ OpenRange(j) /\ pending[j][1] = g[1] /\ pending[j][2] <= pending[j][1] + run[r].cap - 1
               => g = pending[j]
  BY <1>1, <1>3, RangeIs
<1> DEFINE s == IF g = NoRange THEN "staging" ELSE "pending"
<1>5. PICK R : /\ R = [run[r] EXCEPT !.rows[j] = g, !.todo = @ \ {j}, !.at = {j}, !.step = s]
               /\ run' = [run EXCEPT ![r] = R]
  BY <1>1, <1>3 DEF StageRead, TypeOK, RunType
<1>6. /\ R.step \in {"staging", "pending"} /\ R.todo = run[r].todo \ {j} /\ R.live = run[r].live
      /\ R.rows[j] = g /\ \A k \in Streams \ {j} : R.rows[k] = run[r].rows[k]
  BY <1>3, <1>5 DEF RunType
<1> HIDE DEF s
<1>7. j \in run[r].live
  BY <1>2, <1>3 DEF StageOK, Writing
<1>8. ASSUME NEW k \in Streams, Steady(k) PROVE InOrder(k)' /\ Apart(R, k)'
  <2>1. InOrder(k) /\ Apart(run[r], k)
    BY <1>2, <1>8, LiveApart
  <2>2. InOrder(k)'
    BY <1>2, <2>1, OrderKept DEF stream, bucket
  <2>3. CASE k # j
    BY <2>1, <2>2, <2>3, <1>2, <1>6
    DEF Apart, Writing, Front, Most, Short, stream, bucket
  <2>4. CASE k = j
    <3>1. g = NoRange => pending[k][2] <= Front(k)
      BY <2>4, <1>4, BehindNewest, Bounds DEF Valid
    <3>2. g # NoRange => Short(g) /\ g[1] = Front(k) + 1
      BY <2>4, <1>3, <1>4, <1>8, OneCap
    <3>3. ASSUME g # NoRange, NEW h \in archived[k] PROVE h = g \/ h[2] < g[1]
      <4>1. CASE h[2] <= Front(k)
        BY <4>1, <3>2, <3>3, BehindNewest
      <4>2. CASE h = pending[k] /\ h[1] = Front(k) + 1
        <5>1. h # NoRange /\ h[1] \in Nat /\ h[2] \in Nat /\ h[1] <= h[2] /\ cursor[k] <= Front(k)
              /\ cursor[k] \in Nat /\ Front(k) \in Nat
          BY <3>3, BehindNewest
        <5>2. OpenRange(j) /\ pending[j][1] = g[1]
          BY <2>4, <3>2, <3>3, <4>2, <5>1 DEF OpenRange
        <5>3. Short(pending[j])
          BY <2>1, <2>4, <4>2, <5>1 DEF InOrder
        <5> QED BY <1>3, <1>4, <2>4, <3>3, <4>2, <5>2, <5>3 DEF Short
      <4> QED BY <4>1, <4>2, <2>1, <3>3 DEF InOrder
    <3>4. UNCHANGED <<lo, cursor, pending, archived, setting>>
      BY <1>2 DEF stream, bucket
    <3> QED BY <1>6, <1>7, <2>2, <2>4, <3>1, <3>2, <3>3, <3>4 DEF Apart, Front, Most, Short
  <2> QED BY <2>3, <2>4
<1> QED BY <1>2, <1>5, <1>8, OnlyThisRun DEF stream

\* The pending range is the staged one.
LEMMA StagePendingSteady == ASSUME IInv, SteadyInv, NEW r \in Runs, StagePending(r) PROVE SteadyInv'
<1>1. /\ run[r].step = "pending"
      /\ UNCHANGED <<stream, cursor, superseded, bucket, lost, lock, ttl, fails>>
  BY DEF StagePending
<1>2. PICK R : R = [run[r] EXCEPT !.step = "object"] /\ run' = [run EXCEPT ![r] = R]
  BY DEF StagePending
<1>3. /\ run[r] \in RunType /\ TypeOK
  BY <1>1, Live
<1>4. PICK j \in run[r].at : pending' = [pending EXCEPT ![j] = run[r].rows[j]]
  BY DEF StagePending
<1>5. PICK g : g = run[r].rows[j]
  OBVIOUS
<1>6. /\ j \in Streams /\ j \in run[r].live \ run[r].todo /\ g # NoRange /\ Valid(j, g) /\ g \in Ranges
  BY <1>1, <1>5, WriteStep
<1>7. /\ R.step = "object" /\ R.todo = run[r].todo /\ R.live = run[r].live /\ R.rows = run[r].rows
  BY <1>2, <1>3 DEF RunType
<1>8. /\ pending'[j] = g /\ \A k \in Streams \ {j} : pending'[k] = pending[k]
      /\ UNCHANGED <<lo, cursor, archived, setting>>
  BY <1>1, <1>3, <1>4, <1>5, <1>6 DEF TypeOK, stream, bucket
<1>9. ASSUME NEW k \in Streams, Steady(k) PROVE InOrder(k)' /\ Apart(R, k)'
  <2>1. InOrder(k) /\ Apart(run[r], k)
    BY <1>1, <1>9, LiveApart
  <2>2. CASE k # j
    BY <2>1, <2>2, <1>1, <1>7, <1>8, OrderKept DEF Apart, Writing, Front, Most, Short
  <2>3. CASE k = j
    <3>1. /\ Short(g)
          /\ g[1] = Front(k) + 1 \/ g[2] <= Front(k)
          /\ \A h \in archived[k] : h = g \/ h[2] < g[1]
      BY <2>1, <2>3, <1>1, <1>5, <1>6 DEF Apart, Writing
    <3>2. /\ g[1] \in Nat /\ g[2] \in Nat /\ g[1] <= g[2] /\ Front(k) \in Nat
          /\ \A h \in archived[k] : h[2] \in Nat
      BY <1>6, Pairs, Bounds, BehindNewest DEF Valid
    <3>3. \A h \in archived[k] : h[2] <= Front(k) \/ (h = g /\ h[1] = Front(k) + 1)
      BY <3>1, <3>2
    <3>4. InOrder(k)'
      <4>1. pending'[k] = g /\ archived'[k] = archived[k] /\ Front(k)' = Front(k)
            /\ Short(g)' = Short(g) /\ Disjoint(k)' = Disjoint(k)
        BY <2>3, <1>1, <1>8 DEF Front, Most, Short, Disjoint, Entries
      <4> QED BY <2>1, <3>1, <3>3, <4>1 DEF InOrder, Short
    <3>5. Apart(R, k)'
      BY <2>1, <2>3, <1>1, <1>5, <1>6, <1>7, <1>8 DEF Apart, Writing, Front, Most, Short
    <3> QED BY <3>4, <3>5
  <2> QED BY <2>2, <2>3
<1> QED BY <1>1, <1>2, <1>9, OnlyThisRun DEF stream

\* Writing the object changes no record.
LEMMA StagePutSteady == ASSUME IInv, SteadyInv, NEW r \in Runs, StagePut(r) PROVE SteadyInv'
<1>1. /\ run[r].step = "object" /\ UNCHANGED <<stream, redis, archived>>
  BY DEF StagePut
<1>2. PICK R : R = [run[r] EXCEPT !.step = "staging"] /\ run' = [run EXCEPT ![r] = R]
  BY DEF StagePut
<1>3. run[r] \in RunType
  BY <1>1, Live
<1>4. /\ R.step = "staging" /\ R.todo = run[r].todo /\ R.live = run[r].live /\ R.rows = run[r].rows
  BY <1>2, <1>3 DEF RunType
<1>5. ASSUME NEW k \in Streams, Steady(k) PROVE InOrder(k)' /\ Apart(R, k)'
  <2>1. InOrder(k) /\ Apart(run[r], k)
    BY <1>1, <1>5, LiveApart
  <2> QED BY <2>1, <1>1, <1>4, OrderKept DEF Apart, Writing, Front, Most, Short, stream, redis
<1> QED BY <1>1, <1>2, <1>5, OnlyThisRun DEF stream

\* The ranges that are named are new to the ledgers, or named already.
LEMMA LedgerSteady == ASSUME IInv, SteadyInv, NEW r \in Runs, Ledger(r) PROVE SteadyInv'
<1>1. /\ run[r].step = "staging" /\ run[r].todo = {}
      /\ archived' = [k \in Streams |->
            archived[k] \cup (IF k \in Ranged(r) THEN {run[r].rows[k]} ELSE {})]
      /\ UNCHANGED <<stream, redis>>
  BY DEF Ledger
<1>2. /\ run[r] \in RunType /\ TypeOK /\ StageOK(run[r]) /\ run[r].live \subseteq Streams
  BY <1>1, Live, RunTyped
<1>3. PICK R : /\ R = [run[r] EXCEPT !.step = "cursors", !.todo = Ranged(r), !.gone = Gone(r),
                          !.stale = {k \in Streams \ run[r].live : cursor[k] # 0}]
               /\ run' = [run EXCEPT ![r] = R]
  BY DEF Ledger
<1>4. /\ R.step = "cursors" /\ R.todo = Ranged(r) /\ R.live = run[r].live /\ R.rows = run[r].rows
      /\ R.stale \cap R.live = {}
  BY <1>2, <1>3 DEF RunType
<1>5. ASSUME NEW k \in Streams, Steady(k) PROVE InOrder(k)' /\ Apart(R, k)'
  <2>1. InOrder(k) /\ Apart(run[r], k)
    BY <1>1, <1>5, LiveApart
  <2>2. UNCHANGED <<lo[k], cursor[k], pending[k], setting>> /\ Front(k)' = Front(k)
    BY <1>1 DEF stream, redis, Front, Most
  <2>3. CASE k \notin Ranged(r)
    <3>1. archived'[k] = archived[k]
      BY <1>1, <2>3
    <3>2. k \in run[r].live => run[r].rows[k] = NoRange
      BY <2>3 DEF Ranged
    <3>3. InOrder(k)'
      BY <2>1, <2>2, <3>1, OrderKept
    <3> QED BY <2>1, <2>2, <3>1, <3>2, <3>3, <1>1, <1>4 DEF Apart, Writing
  <2>4. CASE k \in Ranged(r)
    <3>1. PICK g : g = run[r].rows[k]
      OBVIOUS
    <3>2. /\ k \in run[r].live /\ g # NoRange /\ archived'[k] = archived[k] \cup {g}
      BY <1>1, <2>4, <3>1 DEF Ranged
    <3>3. Valid(k, g) /\ pending[k] = g /\ cursor[k] < g[1]
      BY <1>1, <1>2, <3>1, <3>2 DEF StageOK, Staged, AtIt, Writing
    <3>4. /\ g[1] = Front(k) + 1 \/ g[2] <= Front(k)
          /\ \A h \in archived[k] : h = g \/ h[2] < g[1]
      BY <2>1, <1>1, <3>1, <3>2 DEF Apart, Writing
    <3>5. /\ g[1] \in Nat /\ g[2] \in Nat /\ g[1] <= g[2] /\ Front(k) \in Nat /\ cursor[k] \in Nat
          /\ \A h \in archived[k] : h[2] \in Nat /\ h[1] \in Nat
      BY <3>3, Pairs, Bounds, BehindNewest DEF Valid
    <3>6. \A h \in archived[k] : h # g => Entries(h) \cap Entries(g) = {}
      BY <3>4, <3>5 DEF Entries
    <3>7. Disjoint(k)'
      BY <2>1, <3>2, <3>6 DEF InOrder, Disjoint, Entries
    <3>8. \A h \in archived'[k] : h[2] <= Front(k) \/ (h = pending[k] /\ h[1] = Front(k) + 1)
      BY <2>1, <3>2, <3>3, <3>4 DEF InOrder
    <3>9. InOrder(k)'
      BY <2>1, <2>2, <3>7, <3>8 DEF InOrder, Short
    <3>10. cursor[k] <= g[2]
      BY <3>3, <3>5
    <3> QED BY <1>4, <2>2, <2>4, <3>1, <3>2, <3>9, <3>10 DEF Apart, Writing
  <2> QED BY <2>3, <2>4
<1> QED BY <1>1, <1>3, <1>5, OnlyThisRun DEF stream

\* The front moves to the end of the open range.
LEMMA MoveCursorSteady ==
    ASSUME IInv, SteadyInv, NEW r \in Runs, NEW j \in Streams, MoveCursor(r, j) PROVE SteadyInv'
<1>1. /\ run[r].step = "cursors" /\ j \in run[r].todo
      /\ cursor' = [cursor EXCEPT ![j] = run[r].rows[j][2]]
      /\ UNCHANGED <<stream, pending, superseded, bucket, lost, lock, ttl, fails>>
  BY DEF MoveCursor
<1>2. PICK R : R = [run[r] EXCEPT !.todo = @ \ {j}] /\ run' = [run EXCEPT ![r] = R]
  BY DEF MoveCursor
<1>3. run[r] \in RunType /\ TypeOK /\ CloseOK(run[r])
  BY <1>1, Live
<1>4. PICK g : g = run[r].rows[j]
  OBVIOUS
<1>5. /\ j \in run[r].live /\ g # NoRange /\ Valid(j, g) /\ pending[j] = g
  BY <1>1, <1>3, <1>4 DEF CloseOK
<1>6. /\ R.step = "cursors" /\ R.todo = run[r].todo \ {j} /\ R.live = run[r].live
      /\ R.rows = run[r].rows /\ R.stale = run[r].stale
  BY <1>1, <1>2, <1>3 DEF RunType
<1>7. /\ cursor'[j] = g[2] /\ \A k \in Streams \ {j} : cursor'[k] = cursor[k]
      /\ UNCHANGED <<lo, pending, archived, setting>>
  BY <1>1, <1>3, <1>4 DEF TypeOK, stream, bucket
<1>8. ASSUME NEW k \in Streams, Steady(k) PROVE InOrder(k)' /\ Apart(R, k)'
  <2>1. InOrder(k) /\ Apart(run[r], k)
    BY <1>1, <1>8, LiveApart
  <2>2. CASE k # j
    BY <2>1, <2>2, <1>1, <1>6, <1>7, OrderKept DEF Apart, Writing, Front, Most, Short
  <2>3. CASE k = j
    <3>1. cursor[k] <= g[2]
      BY <2>1, <2>3, <1>1, <1>4, <1>5 DEF Apart
    <3>2. /\ g[2] \in Nat /\ lo[k] \in Nat /\ cursor[k] \in Nat /\ Front(k) \in Nat
          /\ \A h \in archived[k] : h[2] \in Nat
      BY <2>3, <1>5, Pairs, Bounds, BehindNewest DEF Valid
    <3>3. Front(k)' \in Nat /\ Front(k) <= Front(k)' /\ g[2] <= Front(k)'
      BY <2>3, <1>7, <3>1, <3>2 DEF Front, Most
    <3>4. \A h \in archived[k] : h[2] <= Front(k)'
      <4>1. ASSUME NEW h \in archived[k], h[2] <= Front(k) PROVE h[2] <= Front(k)'
        BY <4>1, <3>2, <3>3
      <4> QED BY <4>1, <2>1, <2>3, <1>5, <3>3 DEF InOrder
    <3>5. InOrder(k)'
      BY <2>1, <1>7, <3>4 DEF InOrder, Short, Disjoint, Entries
    <3>6. g[2] <= g[2]
      BY <3>2
    <3>7. Apart(R, k)'
      BY <2>3, <1>4, <1>5, <1>6, <1>7, <2>1, <1>1, <3>6 DEF Apart, Writing
    <3> QED BY <3>5, <3>7
  <2> QED BY <2>2, <2>3
<1> QED BY <1>1, <1>2, <1>8, OnlyThisRun DEF stream

\* Behind the front nothing is open.
LEMMA ClearPendingSteady == ASSUME IInv, SteadyInv, NEW r \in Runs, ClearPending(r) PROVE SteadyInv'
<1>1. /\ run[r].step = "cursors" /\ run[r].todo = {}
      /\ pending' = [k \in Streams |->
            IF k \in run[r].live \cup run[r].gone THEN NoRange ELSE pending[k]]
      /\ UNCHANGED <<stream, cursor, superseded, bucket, lost, lock, ttl, fails>>
  BY DEF ClearPending
<1>2. PICK R : R = [run[r] EXCEPT !.step = "supersededs"] /\ run' = [run EXCEPT ![r] = R]
  BY DEF ClearPending
<1>3. run[r] \in RunType /\ CloseOK(run[r])
  BY <1>1, Live
<1>4. R.step = "supersededs" /\ R.live = run[r].live /\ R.stale = run[r].stale
  BY <1>2, <1>3 DEF RunType
<1>5. ASSUME NEW k \in Streams, Steady(k) PROVE InOrder(k)' /\ Apart(R, k)'
  <2>1. InOrder(k) /\ Apart(run[r], k)
    BY <1>1, <1>5, LiveApart
  <2>2. /\ pending'[k] = NoRange \/ (pending'[k] = pending[k] /\ k \notin run[r].live)
        /\ UNCHANGED <<lo[k], cursor[k], archived[k], setting>> /\ Front(k)' = Front(k)
    BY <1>1 DEF stream, bucket, Front, Most
  <2>3. /\ Front(k) \in Nat /\ lo[k] \in Nat /\ lo[k] <= Front(k) /\ cursor[k] <= Front(k)
        /\ pending[k][2] \in Nat /\ \A g \in archived[k] : g # NoRange /\ g[2] \in Nat
    BY BehindNewest
  <2>4. CASE k \notin run[r].live
    <3>1. \A g \in archived[k] : g[2] <= lo[k]
      BY <2>1, <2>4 DEF Apart
    <3>2. \A g \in archived[k] : g[2] <= Front(k)
      BY <2>3, <3>1
    <3>3. pending'[k] # NoRange => Short(pending[k])'
      BY <2>1, <2>2 DEF InOrder, Short
    <3>4. InOrder(k)'
      BY <2>1, <2>2, <3>2, <3>3 DEF InOrder, Disjoint, Entries
    <3>5. pending'[k][2] <= lo'[k]
      <4>1. CASE pending'[k] = NoRange
        BY <4>1, <2>2, <2>3, Bounds
      <4>2. CASE pending'[k] = pending[k]
        BY <4>2, <2>1, <2>2, <2>4 DEF Apart
      <4> QED BY <4>1, <4>2, <2>2
    <3> QED BY <1>1, <1>4, <2>1, <2>2, <2>4, <3>1, <3>4, <3>5 DEF Apart, Writing
  <2>5. CASE k \in run[r].live
    <3>1. pending[k] = NoRange \/ pending[k][2] <= Front(k)
      <4>1. CASE run[r].rows[k] = NoRange
        BY <4>1, <2>1, <2>5, <1>1 DEF Apart
      <4>2. CASE run[r].rows[k] # NoRange
        <5>1. pending[k] = run[r].rows[k]
          BY <4>2, <2>5, <1>1, <1>3 DEF CloseOK
        <5>2. cursor[k] = run[r].rows[k][2]
          BY <4>2, <2>1, <2>5, <1>1 DEF Apart
        <5> QED BY <5>1, <5>2, <2>3
      <4> QED BY <4>1, <4>2
    <3>2. \A g \in archived[k] : g[2] <= Front(k)
      BY <2>1, <2>3, <3>1 DEF InOrder
    <3>3. InOrder(k)'
      BY <2>1, <2>2, <2>5, <3>2 DEF InOrder, Disjoint, Entries
    <3> QED BY <1>1, <1>4, <2>1, <2>5, <3>3 DEF Apart, Writing
  <2> QED BY <2>4, <2>5
<1> QED BY <1>1, <1>2, <1>5, OnlyThisRun DEF stream

\* The superseded names are no part of the order.
LEMMA ClearSupersededSteady ==
    ASSUME IInv, SteadyInv, NEW r \in Runs, ClearSuperseded(r) PROVE SteadyInv'
<1>1. run[r].step = "supersededs" /\ UNCHANGED <<stream, cursor, pending, bucket>>
  BY DEF ClearSuperseded
<1>2. PICK R : R = [run[r] EXCEPT !.step = "stales"] /\ run' = [run EXCEPT ![r] = R]
  BY DEF ClearSuperseded
<1>3. run[r] \in RunType
  BY <1>1, Live
<1>4. R.step = "stales" /\ R.live = run[r].live /\ R.stale = run[r].stale
  BY <1>2, <1>3 DEF RunType
<1>5. ASSUME NEW k \in Streams, Steady(k) PROVE InOrder(k)' /\ Apart(R, k)'
  <2>1. InOrder(k) /\ Apart(run[r], k)
    BY <1>1, <1>5, LiveApart
  <2> QED BY <2>1, <1>1, <1>4, OrderKept DEF Apart, Writing, stream, bucket
<1> QED BY <1>1, <1>2, <1>5, OnlyThisRun DEF stream

\* The cursor of a stream that is gone is not needed: its entries are all before the oldest.
LEMMA DropCursorsSteady == ASSUME IInv, SteadyInv, NEW r \in Runs, DropCursors(r) PROVE SteadyInv'
<1>1. /\ run[r].step = "stales"
      /\ cursor' = [k \in Streams |-> IF k \in run[r].stale THEN 0 ELSE cursor[k]]
      /\ UNCHANGED <<stream, pending, superseded, bucket, lost, lock, ttl, fails>>
  BY DEF DropCursors
<1>2. PICK R : R = [run[r] EXCEPT !.step = "done"] /\ run' = [run EXCEPT ![r] = R]
  BY DEF DropCursors
<1>3. run[r] \in RunType
  BY <1>1, Live
<1>4. R.step = "done" /\ R.live = run[r].live
  BY <1>2, <1>3 DEF RunType
<1>5. ASSUME NEW k \in Streams, Steady(k) PROVE InOrder(k)' /\ Apart(R, k)'
  <2>1. InOrder(k) /\ Apart(run[r], k)
    BY <1>1, <1>5, LiveApart
  <2>2. Apart(R, k)'
    BY <2>1, <1>1, <1>4 DEF Apart, Writing, stream, bucket
  <2>3. CASE k \notin run[r].stale
    BY <2>1, <2>2, <2>3, <1>1, OrderKept DEF stream, bucket
  <2>4. CASE k \in run[r].stale
    <3>1. cursor'[k] = 0 /\ lo'[k] = lo[k] /\ lo[k] \in Nat
      BY <2>4, <1>1, BehindNewest DEF stream
    <3>2. Front(k)' = lo[k]
      BY <3>1 DEF Front, Most
    <3>3. \A g \in archived[k] : g[2] <= lo[k]
      BY <2>1, <2>4, <1>1 DEF Apart
    <3>4. UNCHANGED <<pending, archived, setting>>
      BY <1>1 DEF stream, bucket
    <3>5. InOrder(k)'
      BY <2>1, <3>2, <3>3, <3>4 DEF InOrder, Short, Disjoint, Entries
    <3> QED BY <2>2, <3>5
  <2> QED BY <2>3, <2>4
<1> QED BY <1>1, <1>2, <1>5, OnlyThisRun DEF stream

\* A run that ends leaves the order as it is.
LEMMA EndSteady ==
    ASSUME IInv, SteadyInv, NEW r \in Runs, Release(r) \/ Fail(r) \/ Crash(r) PROVE SteadyInv'
<1>1. /\ run[r].step # "off" /\ run' = [run EXCEPT ![r] = Off] /\ UNCHANGED <<stream, redis, bucket>>
  BY DEF Release, Fail, Crash
<1>2. \A k \in Streams : Steady(k) => InOrder(k)'
  BY <1>1, OrderKept DEF SteadyInv, stream, redis, bucket
<1> QED BY <1>1, <1>2, OnlyThisRun, OffTyped DEF stream

\* So does time.
LEMMA TickSteady == ASSUME IInv, SteadyInv, Tick PROVE SteadyInv'
<1>1. UNCHANGED <<stream, redis, bucket>>
  BY DEF Tick
<1>2. ASSUME NEW k \in Streams, Steady(k)' PROVE InOrder(k) /\ InOrder(k)' /\ Steady(k)
  <2>1. Steady(k)
    BY <1>1, <1>2 DEF Steady, stream
  <2> QED BY <1>1, <2>1, OrderKept DEF SteadyInv, stream, redis, bucket
<1>3. ASSUME NEW k \in Streams, Steady(k)', NEW s \in Runs, run'[s].step # "off"
      PROVE  Apart(run[s], k)'
  <2>1. run[s] \in RunType
    BY RunTyped DEF IInv
  <2>2. run[s].step # "off" /\ run'[s] = [run[s] EXCEPT !.age = @ + 1]
    BY <1>3 DEF Tick
  <2>3. /\ run'[s].step = run[s].step /\ run'[s].todo = run[s].todo /\ run'[s].rows = run[s].rows
        /\ run'[s].live = run[s].live /\ run'[s].stale = run[s].stale
    BY <2>1, <2>2 DEF RunType
  <2>4. Apart(run[s], k)
    BY <1>2, <1>3, <2>2, LiveApart
  <2> QED BY <2>3, <2>4, <1>1 DEF Apart, Front, Most, Short, stream, redis, bucket
<1> QED BY <1>2, <1>3 DEF SteadyInv

\* Entries come, or a whole stream goes.
LEMMA StreamSteady ==
    ASSUME IInv, SteadyInv, NEW j \in Streams, Add(j) \/ Trim(j) \/ Expire(j) PROVE SteadyInv'
<1>1. /\ UNCHANGED <<setting, redis, bucket, run>>
      /\ \A k \in Streams : lo'[k] = lo[k] \/ (Trim(j) /\ k = j) \/ (Expire(j) /\ k = j)
  BY DEF Add, Trim, Expire, Remove, IInv, TypeOK
<1>2. ASSUME NEW k \in Streams, Steady(k)'
      PROVE  InOrder(k)' /\ \A s \in Runs : run'[s].step # "off" => Apart(run[s], k)'
  <2>1. Steady(k) /\ InOrder(k) /\ \A s \in Runs : run[s].step # "off" => Apart(run[s], k)
    BY <1>1, <1>2 DEF Steady, SteadyInv
  <2>2. CASE lo'[k] = lo[k]
    BY <2>1, <2>2, <1>1, OrderKept DEF Apart, Front, Most, Short, redis, bucket
  <2>3. CASE lo'[k] # lo[k]
    <3>1. Expire(j) /\ k = j
      BY <1>1, <2>1, <2>3 DEF Trim, Steady
    <3>2. lo'[k] = hi[k]
      BY <3>1 DEF Expire, Remove, IInv, TypeOK
    <3>3. /\ \A g \in archived[k] : g[2] \in Nat /\ g[2] <= hi[k]
          /\ pending[k][2] <= hi[k] /\ pending[k][2] \in Nat
          /\ lo[k] \in Nat /\ hi[k] \in Nat /\ cursor[k] \in Nat /\ lo[k] <= hi[k] /\ cursor[k] <= hi[k]
      BY BehindNewest
    <3>4. UNCHANGED <<cursor, pending, archived, setting, run>>
      BY <1>1 DEF redis, bucket
    <3>5. Front(k)' = hi[k]
      BY <3>2, <3>3, <3>4 DEF Front, Most
    <3>6. InOrder(k)'
      BY <2>1, <3>3, <3>4, <3>5 DEF InOrder, Short, Disjoint, Entries
    <3>7. ASSUME NEW s \in Runs, run[s].step # "off" PROVE Apart(run[s], k)'
      <4>1. Apart(run[s], k) /\ StageOK(run[s])
        BY <2>1, <3>7 DEF IInv
      <4>2. run[s].step \in Writing /\ k \in run[s].live \ run[s].todo /\ run[s].rows[k] # NoRange
               => run[s].rows[k][2] <= hi[k]
        BY <4>1 DEF StageOK, Staged, Valid
      <4> QED BY <4>1, <4>2, <3>2, <3>3, <3>4, <3>5 DEF Apart, Short
    <3> QED BY <3>4, <3>6, <3>7
  <2> QED BY <2>2, <2>3
<1> QED BY <1>1, <1>2 DEF SteadyInv

\* Nothing changes.
LEMMA StutterSteady == ASSUME SteadyInv, UNCHANGED vars PROVE SteadyInv'
  BY DEF vars, stream, redis, bucket, SteadyInv, Steady, InOrder, Apart, Front, Most, Short, Disjoint,
         Entries, Writing

\* Nothing is archived at the start.
LEMMA InitSteady == Init => SteadyInv
  BY OffTyped DEF Init, SteadyInv, InOrder, Disjoint

\* Every step keeps the order.
LEMMA NextSteady == IInv /\ SteadyInv /\ [Next]_vars => SteadyInv'
<1> SUFFICES ASSUME IInv, SteadyInv, [Next]_vars PROVE SteadyInv'
  OBVIOUS
<1>1. ASSUME NEW r \in Runs, Work(r) PROVE SteadyInv'
  BY <1>1, StageReadSteady, MoveCursorSteady, StagePendingSteady, StagePutSteady, LedgerSteady,
     ClearPendingSteady, ClearSupersededSteady, DropCursorsSteady, EndSteady DEF Work
<1>2. ASSUME NEW r \in Runs, Lock(r) \/ Fail(r) \/ Crash(r) PROVE SteadyInv'
  BY <1>2, LockSteady, EndSteady
<1>3. CASE Next
  BY <1>1, <1>2, <1>3, StreamSteady, TickSteady DEF Next
<1> QED BY <1>3, StutterSteady

\* A stream that expires as a whole, under one cap, has no entry archived twice.
THEOREM SteadyIsNotDoubled == Spec => []SteadyNotDoubled
<1>1. SteadyInv => SteadyNotDoubled
  BY DEF SteadyInv, Steady, InOrder, SteadyNotDoubled
<1> QED BY <1>1, InitSteady, NextSteady, InductiveInvariant, PTL DEF Spec
=============================================================================
