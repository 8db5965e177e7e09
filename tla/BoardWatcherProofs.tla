-------------------------- MODULE BoardWatcherProofs --------------------------
(***************************************************************************)
(* Proofs about the board watcher, for any routes, rows, ticks and times.  *)
(* A lease is never older than its tick may get, so one tick at a time is  *)
(* past the load of its cursor, on the newest copy of it; what that tick   *)
(* read, the rows that came after it, and what it will save hold every     *)
(* ring between them, and no job is started that runs.                     *)
(***************************************************************************)
EXTENDS BoardWatcher, WellFoundedInduction, TLAPS

-----------------------------------------------------------------------------
(* The inductive invariant.                                                *)

\* The stages of a tick that has taken the lease, and of one that has planned.
Holding == {"leased", "read", "loop", "idle", "owns"}
Planned == {"loop", "idle", "owns"}
Chosen == {"idle", "owns"}

\* A row the next tick's read would give it.
InWindow(a) == ts[a] # 0 /\ ts[a] >= cursor.watermark - Overlap

\* Row a cannot fall out of the overlap when the watermark moves to the newest of S.
Covered(a, S) == \A b \in S : ts[a] >= ts[b] - Overlap

\* The lease of tick t, with record T: it is never older than its tick may get,
\* so nobody else is past the load while t holds it.
HolderFor(t, T) ==
    /\ (T.stage = "loaded" /\ T.fresh) => cursor.until = 0
    /\ T.stage \in Holding =>
         T.fresh /\ cursor.owner = t /\ cursor.until = Lease - T.age

\* What tick T has read is on the board, and what it has not read came later.
ReadFor(T) ==
    T.stage = "read" =>
      /\ \A b \in T.new : ts[b] # 0
      /\ \A a \in Rows : InWindow(a) /\ a \notin T.new => Covered(a, T.new)

\* What tick T will save: the waits that have not ended, and those of the routes
\* it has dealt with; a row a route raised on holds the watermark.
PlanFor(T) ==
    T.stage \in Planned =>
      /\ \A b \in T.new : ts[b] # 0
      /\ \A a \in T.done : \E j \in Jobs : a \in cursor.pending[j] \cap finished[j]
      /\ \A a \in Rows : InWindow(a) /\ a \notin cursor.seen \cup T.done \cup T.new =>
           Covered(a, T.new)
      /\ \A j \in Jobs : /\ cursor.pending[j] \ finished[j] \subseteq T.pend[j]
                         /\ T.pend[j] \subseteq cursor.pending[j] \cup Hits(T.new, j)
                         /\ j \notin T.todo => Hits(T.new, j) \subseteq T.pend[j]
      /\ \A a \in Raised(T.new) : T.hold <= ts[a]

\* The job tick T is about to start is idle, unless another doorbell starts it.
IdleFor(T) ==
    T.stage \in Chosen =>
      T.job \in Jobs /\ (T.job \notin setting.alsoRung => running[T.job] = 0)

Dated == cursor.watermark <= clock /\ \A a \in Rows : ts[a] <= clock
Noted == /\ \A a \in cursor.seen : ts[a] # 0
         /\ \A j \in Jobs : \A a \in cursor.pending[j] : a \in Wants[j] /\ ts[a] # 0

\* A row that several routes are for waits for all of them at once.
Together ==
    \A i, j \in Jobs : \A a \in cursor.pending[i] :
        a \in Wants[j] => a \in cursor.pending[j] \cup finished[j]

TickOK(t) == /\ HolderFor(t, tick[t]) /\ ReadFor(tick[t])
             /\ PlanFor(tick[t]) /\ IdleFor(tick[t])
IInv == /\ TypeOK /\ Dated /\ Noted /\ Together /\ RingKept
        /\ \A t \in Ticks : TickOK(t)

-----------------------------------------------------------------------------
(* The earliest and the latest of a set of times.                          *)

\* A set of natural numbers has a least member: the order on them is well-founded.
LEMMA HasMin == ASSUME NEW S \in SUBSET Nat, S # {} PROVE \E x \in S : \A y \in S : x <= y
<1>1. PICK R : R = {ss \in Nat \X Nat : ss[1] < ss[2]}
  OBVIOUS
<1>2. IsWellFoundedOn(R, Nat)
  BY <1>1, NatLessThanWellFounded DEF OpToRel
<1>3. PICK x \in S : \A y \in S : <<y, x>> \notin R
  BY <1>2, WFMin
<1>4. \A y \in S : ~(y < x)
  BY <1>1, <1>3
<1> QED BY <1>4

\* The earliest of a set of times.
LEMMA MinIs == ASSUME NEW S \in SUBSET Nat, S # {} PROVE Min(S) \in S /\ \A y \in S : Min(S) <= y
  BY HasMin DEF Min

\* The latest of a bounded set of times: it is as far from the bound as any.
LEMMA MaxIs == ASSUME NEW n \in Nat, NEW S \in SUBSET (0..n), S # {}
               PROVE  Max(S) \in S /\ \A y \in S : y <= Max(S)
<1>1. PICK T : T = {n - y : y \in S}
  OBVIOUS
<1>2. T \in SUBSET Nat /\ T # {}
  <2>1. \A y \in S : y \in Nat /\ y <= n
    OBVIOUS
  <2>2. \A y \in S : n - y \in Nat
    BY <2>1
  <2> QED BY <1>1, <2>2
<1>3. PICK x \in T : \A y \in T : x <= y
  BY <1>2, HasMin
<1>4. PICK z \in S : x = n - z
  BY <1>1
<1>5. \A y \in S : n - z <= n - y
  BY <1>1, <1>3, <1>4
<1>6. \A y \in S : z >= y
  <2>1. \A y \in S : y \in Int
    OBVIOUS
  <2> QED BY <1>5, <2>1
<1> QED BY <1>6 DEF Max

\* The earlier of two times.
LEMMA MinTwo == ASSUME NEW m \in Nat, NEW n \in Nat
                PROVE  Min({m, n}) \in {m, n} /\ Min({m, n}) <= m /\ Min({m, n}) <= n
<1>1. {m, n} \in SUBSET Nat /\ {m, n} # {} /\ m \in {m, n} /\ n \in {m, n}
  OBVIOUS
<1> QED BY <1>1, MinIs

\* The later of two times.
LEMMA MaxTwo == ASSUME NEW m \in Nat, NEW n \in Nat
                PROVE  Max({m, n}) \in {m, n} /\ m <= Max({m, n}) /\ n <= Max({m, n})
<1>1. {m, n} \in SUBSET (0..(m + n)) /\ {m, n} # {} /\ m \in {m, n} /\ n \in {m, n} /\ m + n \in Nat
  OBVIOUS
<1> QED BY <1>1, MaxIs

\* The times of the board, the cursor and the clock.
LEMMA TimesAre == ASSUME TypeOK
    PROVE /\ setting.time \in Nat \ {0} /\ setting.alsoRung \in SUBSET Jobs
          /\ Overlap \in Nat /\ Lag \in Nat /\ Lag <= Overlap
          /\ cursor.watermark \in Nat /\ 1 <= cursor.watermark /\ cursor.watermark <= setting.time
          /\ \A a \in Rows : ts[a] \in Nat /\ ts[a] <= setting.time
          /\ clock \in Nat /\ 1 <= clock /\ clock <= setting.time
<1>1. setting \in SettingType
  BY SettingsAssumption DEF TypeOK
<1>2. cursor.watermark \in 1..setting.time
  BY DEF TypeOK, CursorType
<1> QED BY <1>1, <1>2, TimesAssumption DEF TypeOK, SettingType, Times

\* A hold is no later than any row it is set for.
LEMMA HoldIs == ASSUME TypeOK, NEW h \in 1..NoHold, NEW S \in SUBSET Rows, \A a \in S : ts[a] # 0
    PROVE HoldAt(h, S) \in 1..NoHold /\ HoldAt(h, S) <= h /\ \A a \in S : HoldAt(h, S) <= ts[a]
<1>1. PICK U : U = {h} \cup {ts[a] : a \in S}
  OBVIOUS
<1>2. U \in SUBSET Nat /\ U # {} /\ h \in U /\ \A a \in S : ts[a] \in U
  BY <1>1, TimesAre DEF NoHold
<1>3. \A x \in U : 1 <= x
  BY <1>1, TimesAre DEF NoHold
<1>4. Min(U) \in U /\ \A y \in U : Min(U) <= y
  BY <1>2, MinIs
<1>5. HoldAt(h, S) = Min(U)
  BY <1>1 DEF HoldAt
<1>6. h <= NoHold /\ NoHold \in Nat /\ h \in Nat
  BY TimesAre DEF NoHold
<1>7. Min(U) \in Nat /\ Min(U) <= h /\ 1 <= Min(U)
  BY <1>2, <1>3, <1>4
<1>8. Min(U) <= NoHold
  BY <1>6, <1>7
<1>9. Min(U) \in 1..NoHold
  BY <1>6, <1>7, <1>8
<1>10. \A a \in S : Min(U) <= ts[a]
  BY <1>2, <1>4
<1> QED BY <1>5, <1>7, <1>9, <1>10

\* The newest row of a tick.
Newest(T) == Max({cursor.watermark} \cup {ts[a] : a \in T.new})

\* The newest row of a tick is one it read, or it read none after the watermark.
LEMMA NewestIs == ASSUME TypeOK, NEW T \in TickType
    PROVE /\ Newest(T) \in Nat /\ cursor.watermark <= Newest(T)
          /\ Newest(T) = cursor.watermark \/ \E b \in T.new : Newest(T) = ts[b]
<1>1. PICK U : U = {cursor.watermark} \cup {ts[a] : a \in T.new}
  OBVIOUS
<1>2. T.new \in SUBSET Rows
  BY DEF TickType
<1>3. U \in SUBSET (0..setting.time) /\ U # {} /\ cursor.watermark \in U
  BY <1>1, <1>2, TimesAre
<1>4. Max(U) \in U /\ \A y \in U : y <= Max(U)
  BY <1>3, MaxIs, TimesAre
<1>5. Newest(T) = Max(U)
  BY <1>1 DEF Newest
<1>6. Max(U) \in Nat
  <2>1. \A y \in U : y \in Nat
    BY <1>1, <1>2, TimesAre
  <2> QED BY <1>4, <2>1
<1> QED BY <1>1, <1>3, <1>4, <1>5, <1>6

\* The watermark never goes back, and moves only as far as what was read, or to
\* just before what could not be started.
LEMMA TargetIs == ASSUME TypeOK, NEW T \in TickType
    PROVE /\ Target(T) \in Nat /\ cursor.watermark <= Target(T)
          /\ Target(T) = cursor.watermark \/ \E b \in T.new : Target(T) <= ts[b]
          /\ Target(T) = cursor.watermark \/ Target(T) <= T.hold - 1
<1> DEFINE m == Min({Newest(T), T.hold - 1})
<1>1. T.hold - 1 \in Nat
  BY TimesAre DEF TickType, NoHold
<1>2. Newest(T) \in Nat /\ cursor.watermark \in Nat
  BY NewestIs, TimesAre
<1>3. m \in {Newest(T), T.hold - 1} /\ m <= Newest(T) /\ m <= T.hold - 1
  BY <1>1, <1>2, MinTwo
<1>4. m \in Nat
  BY <1>1, <1>2, <1>3
<1> HIDE DEF m
<1>5. Max({cursor.watermark, m}) \in {cursor.watermark, m} /\ cursor.watermark <= Max({cursor.watermark, m})
  BY <1>2, <1>4, MaxTwo
<1>6. Target(T) = Max({cursor.watermark, m})
  BY DEF Target, Newest, m
<1>7. m <= cursor.watermark \/ \E b \in T.new : m <= ts[b]
  BY <1>3, NewestIs
<1>8. Target(T) = cursor.watermark \/ Target(T) = m
  BY <1>5, <1>6
<1>9. Target(T) \in Nat /\ cursor.watermark <= Target(T)
  BY <1>5, <1>6, <1>2, <1>4
<1>10. Target(T) = cursor.watermark \/ \E b \in T.new : Target(T) <= ts[b]
  BY <1>7, <1>8, <1>9, <1>2, <1>4
<1>11. Target(T) = cursor.watermark \/ Target(T) <= T.hold - 1
  BY <1>3, <1>8
<1> QED BY <1>9, <1>10, <1>11

\* The board and the cursor a first tick finds.
LEMMA InitOK == ASSUME Init PROVE IInv
<1>1. setting \in SettingType
  BY SettingsAssumption DEF Init
<1>2. setting.time \in Nat \ {0}
  BY <1>1 DEF SettingType
<1>3. Nothing \in PerJob
  BY DEF Nothing, PerJob
<1>4. cursor \in CursorType
  BY <1>2, <1>3, LeaseAssumption DEF Init, CursorType
<1>5. Off \in TickType
  BY <1>2, <1>3, LeaseAssumption DEF Off, TickType, Stages, NoHold
<1>6. TypeOK
  BY <1>2, <1>3, <1>4, <1>5, TimesAssumption DEF Init, TypeOK, Times, Nothing, PerJob
<1>7. Dated /\ Noted /\ Together /\ RingKept
  BY <1>2 DEF Init, Dated, Noted, Together, RingKept, Nothing
<1>8. \A t \in Ticks : TickOK(t)
  BY DEF Init, Off, TickOK, HolderFor, ReadFor, PlanFor, IdleFor, Holding, Planned, Chosen
<1> QED BY <1>6, <1>7, <1>8 DEF IInv

\* A lease outlives the tick that took it.
LEMMA LeaseIs == ASSUME TypeOK
    PROVE /\ Lease \in Nat /\ TaskTime \in Nat /\ TaskTime < Lease /\ cursor.until \in Nat
          /\ \A t \in Ticks : /\ tick[t].age \in Nat /\ tick[t].age <= TaskTime
                               /\ Lease - tick[t].age >= 1
<1>1. cursor.until \in 0..Lease
  BY DEF TypeOK, CursorType
<1>2. \A t \in Ticks : tick[t].age \in 0..TaskTime
  BY DEF TypeOK, TickType
<1> QED BY <1>1, <1>2, LeaseAssumption

\* While one tick is past the lease, or before it on the newest copy, no other is past it.
LEMMA OneHolder == ASSUME IInv, NEW t \in Ticks, NEW u \in Ticks, u # t,
                          \/ tick[t].stage \in Holding
                          \/ tick[t].stage = "loaded" /\ tick[t].fresh
                          \/ cursor.until = 0
                   PROVE  tick[u].stage \notin Holding
<1>1. tick[u].stage \in Holding => cursor.owner = u /\ cursor.until >= 1
  BY LeaseIs DEF IInv, TickOK, HolderFor
<1>2. tick[t].stage \in Holding => cursor.owner = t
  BY DEF IInv, TickOK, HolderFor
<1>3. (tick[t].stage = "loaded" /\ tick[t].fresh) => cursor.until = 0
  BY DEF IInv, TickOK, HolderFor
<1> QED BY <1>1, <1>2, <1>3, LeaseIs DEF IInv

\* Only the acting tick has to be looked at.
LEMMA OneTickSteps ==
    ASSUME IInv, NEW t \in Ticks, NEW T \in TickType, tick' = [tick EXCEPT ![t] = T],
           UNCHANGED <<setting, ts, finished, cursor, clock>>, faults' \in 0..MaxFaults,
           running' \in [Jobs -> Nat],
           running' = running \/ \A u \in Ticks \ {t} : tick[u].stage \notin Holding,
           HolderFor(t, T), ReadFor(T), PlanFor(T),
           T.stage \in Chosen => running' = running /\ IdleFor(T)
    PROVE  IInv'
<1>1. TypeOK'
  <2>1. tick' \in [Ticks -> TickType]
    BY DEF IInv, TypeOK
  <2>2. TickType' = TickType /\ CursorType' = CursorType /\ Times' = Times
    BY DEF TickType, NoHold, CursorType, PerJob, Times
  <2> QED BY <2>1, <2>2 DEF IInv, TypeOK, PerJob
<1>2. Dated' /\ Noted' /\ Together'
  BY DEF IInv, Dated, Noted, Together
<1>3. RingKept'
  BY DEF IInv, RingKept, Offered, Raised, Routed, Hits
<1>4. ASSUME NEW u \in Ticks PROVE TickOK(u)'
  <2>1. CASE u = t
    <3>1. tick'[u] = T
      BY <2>1 DEF IInv, TypeOK
    <3> QED BY <2>1, <3>1 DEF TickOK, HolderFor, ReadFor, PlanFor, IdleFor, InWindow, Covered,
                              Raised, Hits, Chosen, Holding, Planned
  <2>2. CASE u # t
    <3>1. tick'[u] = tick[u]
      BY <2>2 DEF IInv, TypeOK
    <3>2. TickOK(u)
      BY DEF IInv
    <3>3. tick[u].stage \in Chosen => running' = running
      BY <2>2 DEF Chosen, Holding
    <3> QED BY <3>1, <3>2, <3>3 DEF TickOK, HolderFor, ReadFor, PlanFor, IdleFor, InWindow, Covered,
                              Raised, Hits, Chosen, Holding, Planned
  <2> QED BY <2>1, <2>2
<1> QED BY <1>1, <1>2, <1>3, <1>4 DEF IInv

\* A tick that has ended.
LEMMA OffIs == ASSUME TypeOK PROVE Off \in TickType
<1>1. Nothing \in PerJob
  BY DEF Nothing, PerJob
<1> QED BY <1>1, TimesAre, LeaseIs DEF Off, TickType, Stages, NoHold

\* The bound on faults.
LEMMA FaultsIs == ASSUME TypeOK, faults < MaxFaults, faults' = faults + 1 PROVE faults' \in 0..MaxFaults
  BY TimesAssumption DEF TypeOK

\* A tick that ends without a save leaves everything as it is.
LEMMA TickGoesOff == ASSUME IInv, NEW t \in Ticks, Become(t, Off), faults' \in 0..MaxFaults,
                            UNCHANGED <<setting, ts, jobs, clock>>
                     PROVE  IInv'
<1>1. TypeOK /\ Off \in TickType
  BY OffIs DEF IInv
<1>2. HolderFor(t, Off) /\ ReadFor(Off) /\ PlanFor(Off) /\ Off.stage \notin Chosen
  BY DEF Off, HolderFor, ReadFor, PlanFor, Holding, Planned, Chosen
<1>3. running \in [Jobs -> Nat]
  BY <1>1 DEF TypeOK
<1> QED BY <1>1, <1>2, <1>3, OneTickSteps DEF Become, jobs

\* A lost race.
LEMMA LostRaceKeeps == ASSUME IInv, NEW t \in Ticks, LostRace(t) PROVE IInv'
<1>1. faults' \in 0..MaxFaults
  BY DEF LostRace, IInv, TypeOK
<1> QED BY <1>1, TickGoesOff DEF LostRace

\* A tick that dies; its lease stays until it runs out.
LEMMA DieKeeps == ASSUME IInv, NEW t \in Ticks, Die(t) PROVE IInv'
<1>1. faults' \in 0..MaxFaults
  BY FaultsIs DEF Die, IInv
<1> QED BY <1>1, TickGoesOff DEF Die

\* The load: no lease is live.
LEMMA LoadKeeps == ASSUME IInv, NEW t \in Ticks, Load(t) PROVE IInv'
<1>1. PICK T : T = [Off EXCEPT !.stage = "loaded", !.fresh = TRUE]
  OBVIOUS
<1>2. TypeOK /\ Off \in TickType
  BY OffIs DEF IInv
<1>3. T \in TickType /\ T.stage = "loaded"
  BY <1>1, <1>2 DEF TickType, Stages, Off
<1>4. HolderFor(t, T) /\ ReadFor(T) /\ PlanFor(T) /\ T.stage \notin Chosen
  BY <1>3 DEF Load, HolderFor, ReadFor, PlanFor, Holding, Planned, Chosen
<1>5. running \in [Jobs -> Nat] /\ faults \in 0..MaxFaults
  BY <1>2 DEF TypeOK
<1> QED BY <1>1, <1>3, <1>4, <1>5, OneTickSteps DEF Load, Become, jobs

\* The read: every row in the overlap.
LEMMA ReadKeeps == ASSUME IInv, NEW t \in Ticks, Read(t) PROVE IInv'
<1>1. PICK N : N = {a \in Rows : ts[a] # 0 /\ ts[a] >= cursor.watermark - Overlap}
  OBVIOUS
<1>2. PICK T : T = [tick[t] EXCEPT !.stage = "read", !.new = N]
  OBVIOUS
<1>3. TypeOK /\ tick[t] \in TickType
  BY DEF IInv, TypeOK
<1>4. N \in SUBSET Rows
  BY <1>1
<1>5. T \in TickType /\ T.stage = "read" /\ T.new = N /\ T.age = tick[t].age /\ T.fresh = tick[t].fresh
  BY <1>2, <1>3, <1>4 DEF TickType, Stages
<1>6. HolderFor(t, T)
  BY <1>5 DEF HolderFor, Read, IInv, TickOK, Holding
<1>7. ReadFor(T) /\ PlanFor(T) /\ T.stage \notin Chosen
  BY <1>1, <1>5 DEF ReadFor, PlanFor, InWindow, Planned, Chosen
<1>8. running \in [Jobs -> Nat] /\ faults \in 0..MaxFaults
  BY <1>3 DEF TypeOK
<1> QED BY <1>1, <1>2, <1>5, <1>6, <1>7, <1>8, OneTickSteps DEF Read, Become, jobs

\* The plan: what waits still, what is new, and for whom.
LEMMA PlanKeeps == ASSUME IInv, NEW t \in Ticks, Plan(t) PROVE IInv'
<1>1. PICK N : N = tick[t].new \ (cursor.seen \cup Done)
  OBVIOUS
<1>2. PICK P : P = [j \in Jobs |-> Still(j)]
  OBVIOUS
<1>3. PICK D : D = {j \in Jobs : Hits(N, j) \cup P[j] # {}}
  OBVIOUS
<1>4. PICK T : T = [tick[t] EXCEPT !.stage = "loop", !.new = N, !.done = Done, !.pend = P,
                       !.todo = D, !.hold = HoldAt(NoHold, Raised(N))]
  OBVIOUS
<1>5. TypeOK /\ tick[t] \in TickType
  BY DEF IInv, TypeOK
<1>6. cursor.pending \in PerJob /\ cursor.seen \in SUBSET Rows /\ finished \in PerJob
      /\ tick[t].new \in SUBSET Rows
  BY <1>5 DEF TypeOK, CursorType, TickType
<1>7. N \in SUBSET Rows /\ D \in SUBSET Jobs /\ Done \in SUBSET Rows /\ P \in PerJob
  BY <1>1, <1>2, <1>3, <1>6 DEF Done, Still, PerJob
<1>8. /\ \A b \in tick[t].new : ts[b] # 0
      /\ \A a \in Rows : InWindow(a) /\ a \notin tick[t].new => Covered(a, tick[t].new)
  BY DEF IInv, TickOK, ReadFor, Plan
<1>9. HoldAt(NoHold, Raised(N)) \in 1..NoHold /\ \A a \in Raised(N) : HoldAt(NoHold, Raised(N)) <= ts[a]
  <2>1. NoHold \in 1..NoHold
    BY <1>5, TimesAre DEF NoHold
  <2>2. Raised(N) \in SUBSET Rows /\ \A a \in Raised(N) : ts[a] # 0
    BY <1>1, <1>7, <1>8 DEF Raised
  <2> QED BY <1>5, <2>1, <2>2, HoldIs
<1>10. /\ T \in TickType /\ T.stage = "loop" /\ T.new = N /\ T.done = Done /\ T.pend = P /\ T.todo = D
       /\ T.hold = HoldAt(NoHold, Raised(N)) /\ T.age = tick[t].age /\ T.fresh = tick[t].fresh
  BY <1>4, <1>5, <1>7, <1>9 DEF TickType, Stages
<1>11. HolderFor(t, T)
  BY <1>10 DEF HolderFor, Plan, IInv, TickOK, Holding
<1>12. PlanFor(T)
  <2>1. \A b \in T.new : ts[b] # 0
    BY <1>1, <1>8, <1>10
  <2>2. \A a \in T.done : \E j \in Jobs : a \in cursor.pending[j] \cap finished[j]
    BY <1>10 DEF Done
  <2>3. \A a \in Rows : InWindow(a) /\ a \notin cursor.seen \cup T.done \cup T.new => Covered(a, T.new)
    BY <1>1, <1>8, <1>10 DEF Covered
  <2>4. ASSUME NEW j \in Jobs PROVE
           /\ cursor.pending[j] \ finished[j] \subseteq T.pend[j]
           /\ T.pend[j] \subseteq cursor.pending[j] \cup Hits(T.new, j)
           /\ j \notin T.todo => Hits(T.new, j) \subseteq T.pend[j]
    BY <1>2, <1>3, <1>10 DEF Still
  <2> QED BY <2>1, <2>2, <2>3, <2>4, <1>9, <1>10 DEF PlanFor
<1>13. ReadFor(T) /\ T.stage \notin Chosen
  BY <1>10 DEF ReadFor, Chosen
<1>14. running \in [Jobs -> Nat] /\ faults \in 0..MaxFaults
  BY <1>5 DEF TypeOK
<1>15. tick' = [tick EXCEPT ![t] = T]
  BY <1>1, <1>2, <1>3, <1>4 DEF Plan, Become
<1> QED BY <1>10, <1>11, <1>12, <1>13, <1>14, <1>15, OneTickSteps DEF Plan, Become, jobs

\* A tick that only moves on within its loop.
LEMMA PlanStands == ASSUME NEW T, NEW U, PlanFor(T), T.stage \in Planned,
                           U.new = T.new, U.done = T.done, U.pend = T.pend, U.todo = T.todo, U.hold = T.hold
                    PROVE  PlanFor(U)
  BY DEF PlanFor

\* A job is found idle.
LEMMA IdleKeeps == ASSUME IInv, NEW t \in Ticks, NEW j \in Jobs, Idle(t, j) PROVE IInv'
<1>1. PICK T : T = [tick[t] EXCEPT !.stage = "idle", !.job = j]
  OBVIOUS
<1>2. TypeOK /\ tick[t] \in TickType /\ TickOK(t)
  BY DEF IInv, TypeOK
<1>3. /\ T \in TickType /\ T.stage = "idle" /\ T.job = j
      /\ \A f \in {"age", "fresh", "new", "done", "pend", "todo", "hold"} : T[f] = tick[t][f]
  BY <1>1, <1>2 DEF TickType, Stages
<1>4. T.age = tick[t].age /\ T.fresh = tick[t].fresh /\ T.new = tick[t].new /\ T.done = tick[t].done
      /\ T.pend = tick[t].pend /\ T.todo = tick[t].todo /\ T.hold = tick[t].hold
  BY <1>3
<1>5. HolderFor(t, T)
  BY <1>2, <1>3, <1>4 DEF HolderFor, Idle, TickOK, Holding
<1>6. PlanFor(T)
  BY <1>2, <1>4, PlanStands DEF TickOK, Idle, Planned
<1>7. ReadFor(T) /\ IdleFor(T)
  BY <1>3 DEF ReadFor, IdleFor, Chosen, Idle
<1>8. running \in [Jobs -> Nat] /\ faults \in 0..MaxFaults
  BY <1>2 DEF TypeOK
<1> QED BY <1>1, <1>3, <1>5, <1>6, <1>7, <1>8, OneTickSteps DEF Idle, Become, jobs

\* The lease is read back.
LEMMA StillOwnsKeeps == ASSUME IInv, NEW t \in Ticks, StillOwns(t) PROVE IInv'
<1>1. PICK T : T = [tick[t] EXCEPT !.stage = "owns"]
  OBVIOUS
<1>2. TypeOK /\ tick[t] \in TickType /\ TickOK(t)
  BY DEF IInv, TypeOK
<1>3. /\ T \in TickType /\ T.stage = "owns"
      /\ T.age = tick[t].age /\ T.fresh = tick[t].fresh /\ T.new = tick[t].new /\ T.done = tick[t].done
      /\ T.pend = tick[t].pend /\ T.todo = tick[t].todo /\ T.hold = tick[t].hold /\ T.job = tick[t].job
  BY <1>1, <1>2 DEF TickType, Stages
<1>5. HolderFor(t, T)
  BY <1>2, <1>3 DEF HolderFor, StillOwns, TickOK, Holding
<1>6. PlanFor(T)
  BY <1>2, <1>3, PlanStands DEF TickOK, StillOwns, Planned
<1>7. ReadFor(T) /\ IdleFor(T)
  BY <1>2, <1>3 DEF ReadFor, IdleFor, Chosen, StillOwns, TickOK
<1>8. running \in [Jobs -> Nat] /\ faults \in 0..MaxFaults
  BY <1>2 DEF TypeOK
<1> QED BY <1>1, <1>3, <1>5, <1>6, <1>7, <1>8, OneTickSteps DEF StillOwns, Become, jobs

\* What a tick holds once it has dealt with route j.
LEMMA DealtIs == ASSUME TypeOK, NEW T \in TickType, NEW j \in Jobs
    PROVE /\ Dealt(T, j) \in TickType /\ Dealt(T, j).stage = "loop"
          /\ Dealt(T, j).age = T.age /\ Dealt(T, j).fresh = T.fresh /\ Dealt(T, j).new = T.new
          /\ Dealt(T, j).done = T.done /\ Dealt(T, j).hold = T.hold
          /\ Dealt(T, j).todo = T.todo \ {j}
          /\ Dealt(T, j).pend = [T.pend EXCEPT ![j] = @ \cup Hits(T.new, j)]
<1>1. Wait(T, j) = [T.pend EXCEPT ![j] = @ \cup Hits(T.new, j)]
  BY DEF Wait
<1>2. T.pend \in PerJob /\ T.new \in SUBSET Rows
  BY DEF TickType
<1>3. Wait(T, j) \in PerJob
  BY <1>1, <1>2 DEF PerJob, Hits
<1> QED BY <1>1, <1>3 DEF Dealt, TickType, Stages

\* What it holds once route j was not started: the hold can only be earlier.
LEMMA DeferredIs == ASSUME TypeOK, NEW T \in TickType, NEW j \in Jobs, \A b \in T.new : ts[b] # 0
    PROVE /\ Deferred(T, j) \in TickType /\ Deferred(T, j).stage = "loop"
          /\ Deferred(T, j).age = T.age /\ Deferred(T, j).fresh = T.fresh /\ Deferred(T, j).new = T.new
          /\ Deferred(T, j).done = T.done
          /\ Deferred(T, j).todo = T.todo \ {j}
          /\ Deferred(T, j).pend = [T.pend EXCEPT ![j] = @ \cup Hits(T.new, j)]
          /\ Deferred(T, j).hold <= T.hold
<1>1. T.hold \in 1..NoHold /\ Hits(T.new, j) \in SUBSET Rows /\ \A a \in Hits(T.new, j) : ts[a] # 0
  BY DEF TickType, Hits
<1>2. HoldAt(T.hold, Hits(T.new, j)) \in 1..NoHold /\ HoldAt(T.hold, Hits(T.new, j)) <= T.hold
  BY <1>1, HoldIs
<1>3. PICK U : U = Dealt(T, j)
  OBVIOUS
<1>4. U \in TickType /\ U.hold = T.hold
  BY <1>3, DealtIs
<1>5. Deferred(T, j) = [U EXCEPT !.hold = HoldAt(T.hold, Hits(T.new, j))]
  BY <1>3, <1>4 DEF Deferred
<1>6. Deferred(T, j) \in TickType
  BY <1>2, <1>4, <1>5 DEF TickType
<1>7. /\ Deferred(T, j).stage = U.stage /\ Deferred(T, j).age = U.age /\ Deferred(T, j).fresh = U.fresh
      /\ Deferred(T, j).new = U.new /\ Deferred(T, j).done = U.done /\ Deferred(T, j).todo = U.todo
      /\ Deferred(T, j).pend = U.pend /\ Deferred(T, j).hold = HoldAt(T.hold, Hits(T.new, j))
  BY <1>4, <1>5 DEF TickType
<1> QED BY <1>2, <1>3, <1>6, <1>7, DealtIs

\* While a tick has planned, no other has.
LEMMA OthersWait == ASSUME IInv, NEW t \in Ticks, tick[t].stage \in Planned
                    PROVE  \A u \in Ticks \ {t} : tick[u].stage \notin Holding
<1>1. tick[t].stage \in Holding
  BY DEF Planned, Holding
<1>2. ASSUME NEW u \in Ticks, u # t PROVE tick[u].stage \notin Holding
  BY <1>1, <1>2, OneHolder
<1> QED BY <1>2

\* A tick goes on to its next route.
LEMMA NextRoute ==
    ASSUME IInv, NEW t \in Ticks, NEW j \in Jobs, tick[t].stage \in Planned,
           NEW U \in TickType, U.stage = "loop", U.age = tick[t].age, U.fresh = tick[t].fresh,
           U.new = tick[t].new, U.done = tick[t].done, U.todo = tick[t].todo \ {j},
           U.pend = [tick[t].pend EXCEPT ![j] = @ \cup Hits(tick[t].new, j)],
           U.hold <= tick[t].hold, Become(t, U), faults' \in 0..MaxFaults, running' \in [Jobs -> Nat],
           UNCHANGED <<setting, ts, finished, clock>>
    PROVE  IInv'
<1>1. TypeOK /\ tick[t] \in TickType /\ TickOK(t)
  BY DEF IInv, TypeOK
<1>2. tick[t].pend \in PerJob /\ tick[t].hold \in Nat /\ U.hold \in Nat /\ tick[t].new \in SUBSET Rows
  BY <1>1, TimesAre DEF TickType, NoHold
<1>3. PlanFor(tick[t])
  BY <1>1 DEF TickOK
<1>4. PlanFor(U)
  <2>1. ASSUME NEW i \in Jobs PROVE
           /\ cursor.pending[i] \ finished[i] \subseteq U.pend[i]
           /\ U.pend[i] \subseteq cursor.pending[i] \cup Hits(U.new, i)
           /\ i \notin U.todo => Hits(U.new, i) \subseteq U.pend[i]
    <3>1. U.pend[i] = IF i = j THEN tick[t].pend[i] \cup Hits(tick[t].new, i) ELSE tick[t].pend[i]
      BY <1>2 DEF PerJob
    <3>2. /\ cursor.pending[i] \ finished[i] \subseteq tick[t].pend[i]
          /\ tick[t].pend[i] \subseteq cursor.pending[i] \cup Hits(tick[t].new, i)
          /\ i \notin tick[t].todo => Hits(tick[t].new, i) \subseteq tick[t].pend[i]
      BY <1>3 DEF PlanFor
    <3> QED BY <3>1, <3>2
  <2>2. ASSUME NEW a \in Raised(U.new) PROVE U.hold <= ts[a]
    <3>1. a \in Rows /\ tick[t].hold <= ts[a]
      BY <1>3, <1>2 DEF PlanFor, Raised
    <3> QED BY <3>1, <1>1, <1>2, TimesAre
  <2> QED BY <1>3, <2>1, <2>2 DEF PlanFor
<1>5. HolderFor(t, U) /\ ReadFor(U) /\ U.stage \notin Chosen
  BY <1>1 DEF HolderFor, ReadFor, TickOK, Holding, Planned, Chosen
<1>6. \A u \in Ticks \ {t} : tick[u].stage \notin Holding
  BY OthersWait
<1> QED BY <1>4, <1>5, <1>6, OneTickSteps DEF Become

\* A route whose job was started.
LEMMA DealtKeeps == ASSUME IInv, NEW t \in Ticks, NEW j \in Jobs, tick[t].stage \in Planned,
                           Become(t, Dealt(tick[t], j)), faults' \in 0..MaxFaults,
                           running' \in [Jobs -> Nat], UNCHANGED <<setting, ts, finished, clock>>
                    PROVE  IInv'
<1>1. TypeOK /\ tick[t] \in TickType
  BY DEF IInv, TypeOK
<1>2. PICK U : U = Dealt(tick[t], j)
  OBVIOUS
<1>3. tick[t].hold \in Nat
  BY <1>1, TimesAre DEF TickType, NoHold
<1>4. /\ U \in TickType /\ U.stage = "loop" /\ U.age = tick[t].age /\ U.fresh = tick[t].fresh
      /\ U.new = tick[t].new /\ U.done = tick[t].done /\ U.todo = tick[t].todo \ {j}
      /\ U.pend = [tick[t].pend EXCEPT ![j] = @ \cup Hits(tick[t].new, j)] /\ U.hold = tick[t].hold
  BY <1>1, <1>2, DealtIs
<1> QED BY <1>2, <1>3, <1>4, NextRoute

\* A route whose job was not.
LEMMA DeferredKeeps == ASSUME IInv, NEW t \in Ticks, NEW j \in Jobs, tick[t].stage \in Planned,
                           Become(t, Deferred(tick[t], j)), faults' \in 0..MaxFaults,
                           running' \in [Jobs -> Nat], UNCHANGED <<setting, ts, finished, clock>>
                    PROVE  IInv'
<1>1. TypeOK /\ tick[t] \in TickType
  BY DEF IInv, TypeOK
<1>2. PICK U : U = Deferred(tick[t], j)
  OBVIOUS
<1>3. \A b \in tick[t].new : ts[b] # 0
  BY DEF IInv, TickOK, PlanFor
<1>4. /\ U \in TickType /\ U.stage = "loop" /\ U.age = tick[t].age /\ U.fresh = tick[t].fresh
      /\ U.new = tick[t].new /\ U.done = tick[t].done /\ U.todo = tick[t].todo \ {j}
      /\ U.pend = [tick[t].pend EXCEPT ![j] = @ \cup Hits(tick[t].new, j)] /\ U.hold <= tick[t].hold
  BY <1>1, <1>2, <1>3, DeferredIs
<1> QED BY <1>2, <1>4, NextRoute

\* A job that runs already.
LEMMA BusyKeeps == ASSUME IInv, NEW t \in Ticks, NEW j \in Jobs, Busy(t, j) PROVE IInv'
<1>1. tick[t].stage \in Planned /\ running' \in [Jobs -> Nat] /\ faults' \in 0..MaxFaults
  BY DEF Busy, Planned, IInv, TypeOK, jobs
<1> QED BY <1>1, DeferredKeeps DEF Busy, jobs

\* A job nothing is known of.
LEMMA UnknownKeeps == ASSUME IInv, NEW t \in Ticks, NEW j \in Jobs, Unknown(t, j) PROVE IInv'
<1>1. tick[t].stage \in Planned /\ running' \in [Jobs -> Nat]
  BY DEF Unknown, Planned, IInv, TypeOK, jobs
<1>2. faults' \in 0..MaxFaults
  BY FaultsIs DEF Unknown, IInv
<1> QED BY <1>1, <1>2, DeferredKeeps DEF Unknown, jobs

\* A start that is answered.
LEMMA StartedKeeps == ASSUME IInv, NEW t \in Ticks, Started(t) PROVE IInv'
<1>1. PICK j : j = tick[t].job
  OBVIOUS
<1>2. j \in Jobs /\ tick[t].stage \in Planned
  BY <1>1 DEF Started, IInv, TickOK, IdleFor, Chosen, Planned
<1>3. running' \in [Jobs -> Nat] /\ faults' \in 0..MaxFaults
  BY <1>2, <1>1 DEF Started, IInv, TypeOK
<1> QED BY <1>1, <1>2, <1>3, DealtKeeps DEF Started

\* A start that fails, with an execution or without.
LEMMA StartFailsKeeps == ASSUME IInv, NEW t \in Ticks, StartFails(t) PROVE IInv'
<1>1. PICK j : j = tick[t].job
  OBVIOUS
<1>2. j \in Jobs /\ tick[t].stage \in Planned
  BY <1>1 DEF StartFails, IInv, TickOK, IdleFor, Chosen, Planned
<1>3. running' \in [Jobs -> Nat]
  BY <1>2, <1>1 DEF StartFails, IInv, TypeOK
<1>4. faults' \in 0..MaxFaults
  BY FaultsIs DEF StartFails, IInv
<1> QED BY <1>1, <1>2, <1>3, <1>4, DeferredKeeps DEF StartFails

\* A save by tick t: it leaves every other tick with an old copy, none of them
\* past the lease.
LEMMA OthersAfterSave ==
    ASSUME IInv, NEW t \in Ticks, tick[t].fresh, tick[t].stage \in Holding \cup {"loaded"},
           NEW T \in TickType, NEW c, Save(t, c, T), UNCHANGED setting
    PROVE  /\ tick' \in [Ticks -> TickType] /\ tick'[t] = T
           /\ \A u \in Ticks \ {t} : TickOK(u)'
<1>1. /\ tick \in [Ticks -> TickType]
      /\ tick' = [u \in Ticks |-> IF u = t THEN T ELSE [tick[u] EXCEPT !.fresh = FALSE]]
  BY DEF IInv, TypeOK, Save
<1>2. ASSUME NEW u \in Ticks \ {t} PROVE
        tick'[u] \in TickType /\ ~tick'[u].fresh /\ tick'[u].stage = tick[u].stage
  <2>1. tick'[u] = [tick[u] EXCEPT !.fresh = FALSE] /\ tick[u] \in TickType
    BY <1>1
  <2> QED BY <2>1 DEF TickType
<1>3. tick' \in [Ticks -> TickType]
  BY <1>1, <1>2
<1>4. ASSUME NEW u \in Ticks \ {t} PROVE TickOK(u)'
  <2>1. u \in Ticks /\ u # t
    OBVIOUS
  <2>2. tick[u].stage \notin Holding
    BY <2>1, OneHolder
  <2>3. tick'[u].stage \notin Holding /\ ~tick'[u].fresh
    BY <1>2, <2>2
  <2>4. tick'[u].stage \notin Planned /\ tick'[u].stage # "read" /\ tick'[u].stage \notin Chosen
    BY <2>3 DEF Holding, Planned, Chosen
  <2> QED BY <2>3, <2>4 DEF TickOK, HolderFor, ReadFor, PlanFor, IdleFor
<1> QED BY <1>1, <1>3, <1>4

\* The lease is taken: whoever loaded the cursor too has an old copy now.
LEMMA TakeLeaseKeeps == ASSUME IInv, NEW t \in Ticks, TakeLease(t) PROVE IInv'
<1>1. PICK T : T = [tick[t] EXCEPT !.stage = "leased"]
  OBVIOUS
<1>2. PICK c : c = [cursor EXCEPT !.owner = t, !.until = LeaseFrom(tick[t])]
  OBVIOUS
<1>3. TypeOK /\ tick[t] \in TickType /\ cursor \in CursorType
  BY DEF IInv, TypeOK
<1>4. T \in TickType /\ T.stage = "leased" /\ T.fresh = tick[t].fresh /\ T.age = tick[t].age
  BY <1>1, <1>3 DEF TickType, Stages
<1>5. Save(t, c, T)
  BY <1>1, <1>2 DEF TakeLease
<1>6. cursor' = c /\ tick[t].fresh
  BY <1>5 DEF Save
<1>7. LeaseFrom(tick[t]) \in 0..Lease
  BY <1>3, LeaseIs DEF LeaseFrom
<1>8. /\ c \in CursorType /\ c.owner = t /\ c.until = Lease - tick[t].age /\ c.watermark = cursor.watermark
      /\ c.seen = cursor.seen /\ c.pending = cursor.pending
  BY <1>2, <1>3, <1>7 DEF CursorType, LeaseFrom
<1>9. /\ tick' \in [Ticks -> TickType] /\ tick'[t] = T
      /\ \A u \in Ticks \ {t} : TickOK(u)'
  BY <1>4, <1>5, <1>6, OthersAfterSave DEF TakeLease
<1>10. TypeOK'
  <2>1. TickType' = TickType /\ CursorType' = CursorType /\ Times' = Times
    BY DEF TakeLease, TickType, NoHold, CursorType, PerJob, Times
  <2>2. cursor'.owner # Nobody
    BY <1>6, <1>8, TicksAssumption
  <2> QED BY <1>3, <1>6, <1>8, <1>9, <2>1, <2>2 DEF TakeLease, jobs, TypeOK, PerJob
<1>11. Dated' /\ Noted' /\ Together' /\ RingKept'
  BY <1>6, <1>8 DEF IInv, TakeLease, jobs, Dated, Noted, Together, RingKept, Offered, Raised, Routed, Hits
<1>12. TickOK(t)'
  BY <1>4, <1>6, <1>8, <1>9 DEF TickOK, HolderFor, ReadFor, PlanFor, IdleFor, Holding, Planned, Chosen
<1> QED BY <1>9, <1>10, <1>11, <1>12 DEF IInv

\* Nothing is dropped by what a tick saves.
LEMMA SavedKeepsRing ==
    ASSUME IInv, NEW t \in Ticks, tick[t].stage = "loop", tick[t].todo = {},
           NEW a \in Rows, ts[a] # 0,
           NEW seen, seen = cursor.seen \cup Remembered(tick[t])
    PROVE  /\ \A j \in Jobs : a \in Wants[j] =>
                \/ a \in finished[j] \cup tick[t].pend[j]
                \/ a \notin seen /\ ts[a] >= Target(tick[t]) - Overlap
           /\ (a \in Raised(Rows) \ Routed(Rows)) =>
                a \notin seen /\ ts[a] >= Target(tick[t]) - Overlap
<1>1. PICK T : T = tick[t]
  OBVIOUS
<1>2. TypeOK /\ T \in TickType /\ PlanFor(T) /\ T.stage \in Planned
  BY <1>1 DEF IInv, TypeOK, TickOK, Planned
<1>3. /\ \A d \in T.done : \E j \in Jobs : d \in cursor.pending[j] \cap finished[j]
      /\ \A d \in Rows : InWindow(d) /\ d \notin cursor.seen \cup T.done \cup T.new => Covered(d, T.new)
      /\ \A j \in Jobs : /\ cursor.pending[j] \ finished[j] \subseteq T.pend[j]
                         /\ Hits(T.new, j) \subseteq T.pend[j]
      /\ \A d \in Raised(T.new) : T.hold <= ts[d]
  BY <1>1, <1>2 DEF PlanFor
<1>4. T.new \in SUBSET Rows
  BY <1>2 DEF TickType
<1>5. /\ Target(T) \in Nat /\ cursor.watermark <= Target(T)
      /\ Target(T) = cursor.watermark \/ \E b \in T.new : Target(T) <= ts[b]
      /\ Target(T) = cursor.watermark \/ Target(T) <= T.hold - 1
  BY <1>2, TargetIs
<1>6. /\ Overlap \in Nat /\ cursor.watermark \in Nat
      /\ \A b \in Rows : ts[b] \in Nat /\ ts[b] <= setting.time
  BY <1>2, TimesAre
\* A row that came after the read stays in the overlap.
<1>7. ASSUME Offered(a), a \notin T.done, a \notin T.new
      PROVE  a \notin seen /\ ts[a] >= Target(T) - Overlap
  <2>1. a \notin cursor.seen /\ InWindow(a)
    BY <1>7 DEF Offered, InWindow
  <2>2. Covered(a, T.new)
    BY <1>3, <1>7, <2>1
  <2>3. a \notin seen
    BY <1>1, <1>7, <2>1 DEF Remembered
  <2>4. CASE Target(T) = cursor.watermark
    BY <1>7, <2>3, <2>4 DEF Offered
  <2>5. ASSUME NEW b \in T.new, Target(T) <= ts[b] PROVE ts[a] >= Target(T) - Overlap
    <3>1. ts[a] >= ts[b] - Overlap /\ ts[a] \in Nat /\ ts[b] \in Nat
      BY <2>2, <1>4, <1>6 DEF Covered
    <3> QED BY <3>1, <2>5, <1>5, <1>6
  <2> QED BY <1>5, <2>3, <2>4, <2>5
<1>8. ASSUME NEW j \in Jobs, a \in Wants[j]
      PROVE  \/ a \in finished[j] \cup T.pend[j]
             \/ a \notin seen /\ ts[a] >= Target(T) - Overlap
  <2>1. a \in finished[j] \cup cursor.pending[j] \/ Offered(a)
    BY <1>8 DEF IInv, RingKept
  <2>2. CASE a \in finished[j] \cup cursor.pending[j]
    BY <1>3, <2>2
  <2>3. CASE a \in T.done
    <3>1. PICK i \in Jobs : a \in cursor.pending[i]
      BY <1>3, <2>3
    <3>2. a \in cursor.pending[j] \cup finished[j]
      BY <3>1, <1>8 DEF IInv, Together
    <3> QED BY <3>2, <1>3
  <2>4. CASE a \in T.new
    BY <1>3, <1>8, <2>4 DEF Hits
  <2> QED BY <1>7, <2>1, <2>2, <2>3, <2>4
<1>9. ASSUME a \in Raised(Rows) \ Routed(Rows)
      PROVE  a \notin seen /\ ts[a] >= Target(T) - Overlap
  <2>1. Offered(a)
    BY <1>9 DEF IInv, RingKept
  <2>2. \A j \in Jobs : a \notin Wants[j]
    BY <1>9 DEF Routed, Hits
  <2>3. a \notin T.done
    BY <2>2, <1>3 DEF IInv, Noted
  <2>4. CASE a \in T.new
    <3>1. a \in Raised(T.new)
      BY <1>9, <2>4 DEF Raised
    <3>2. a \notin seen
      BY <1>1, <2>1, <2>3, <3>1 DEF Remembered, Offered
    <3>3. T.hold <= ts[a]
      BY <3>1, <1>3
    <3>4. T.hold \in Nat /\ ts[a] \in Nat
      BY <1>2, <1>6, TimesAre DEF TickType, NoHold
    <3>5. ts[a] >= cursor.watermark - Overlap
      BY <2>1 DEF Offered
    <3>6. Target(T) <= T.hold - 1 => ts[a] >= Target(T) - Overlap
      BY <3>3, <3>4, <1>5, <1>6
    <3> QED BY <1>5, <3>2, <3>5, <3>6
  <2> QED BY <1>7, <2>1, <2>3, <2>4
<1>10. ASSUME NEW j \in Jobs, a \in Wants[j]
       PROVE  \/ a \in finished[j] \cup tick[t].pend[j]
              \/ a \notin seen /\ ts[a] >= Target(tick[t]) - Overlap
  <2>1. \/ a \in finished[j] \cup T.pend[j]
        \/ a \notin seen /\ ts[a] >= Target(T) - Overlap
    BY <1>8, <1>10
  <2>2. T.pend = tick[t].pend /\ Target(T) = Target(tick[t])
    BY <1>1
  <2> QED BY <2>1, <2>2
<1>11. ASSUME a \in Raised(Rows) \ Routed(Rows)
       PROVE  a \notin seen /\ ts[a] >= Target(tick[t]) - Overlap
  BY <1>1, <1>9, <1>11
<1> QED BY <1>10, <1>11

\* The save of a finished tick, which gives the lease back.
LEMMA FinishKeeps == ASSUME IInv, NEW t \in Ticks, Finish(t) PROVE IInv'
<1>1. PICK T : T = tick[t]
  OBVIOUS
<1>2. PICK seen : seen = cursor.seen \cup Remembered(T)
  OBVIOUS
<1>3. PICK c : c = [watermark |-> Target(T), seen |-> seen, pending |-> T.pend, owner |-> Nobody, until |-> 0]
  OBVIOUS
<1>4. TypeOK /\ T \in TickType /\ cursor \in CursorType /\ TickOK(t) /\ Off \in TickType
  BY <1>1, OffIs DEF IInv, TypeOK
<1>5. T.stage = "loop" /\ T.todo = {} /\ T.stage \in Planned
  BY <1>1 DEF Finish, Planned
<1>6. Save(t, c, Off)
  BY <1>1, <1>2, <1>3 DEF Finish
<1>7. cursor' = c /\ tick[t].fresh
  BY <1>6 DEF Save
<1>8. /\ \A b \in T.new : ts[b] # 0
      /\ \A d \in T.done : \E j \in Jobs : d \in cursor.pending[j] \cap finished[j]
      /\ \A j \in Jobs : /\ cursor.pending[j] \ finished[j] \subseteq T.pend[j]
                         /\ T.pend[j] \subseteq cursor.pending[j] \cup Hits(T.new, j)
                         /\ Hits(T.new, j) \subseteq T.pend[j]
  BY <1>1, <1>4, <1>5 DEF TickOK, PlanFor
<1>9. /\ cursor.watermark <= clock /\ clock \in Nat /\ clock <= setting.time
      /\ \A a \in Rows : ts[a] <= clock /\ ts[a] \in Nat
      /\ cursor.watermark \in Nat /\ 1 <= cursor.watermark /\ setting.time \in Nat
  BY <1>4, TimesAre DEF IInv, Dated
<1>10. T.new \in SUBSET Rows /\ T.done \in SUBSET Rows /\ T.pend \in PerJob /\ cursor.seen \in SUBSET Rows
  BY <1>4 DEF TickType, CursorType
<1>11. Target(T) \in Nat /\ 1 <= Target(T) /\ Target(T) <= clock
  <2>1. /\ Target(T) \in Nat /\ cursor.watermark <= Target(T)
        /\ Target(T) = cursor.watermark \/ \E b \in T.new : Target(T) <= ts[b]
    BY <1>4, TargetIs
  <2>2. CASE Target(T) = cursor.watermark
    BY <2>1, <2>2, <1>9
  <2>3. ASSUME NEW b \in T.new, Target(T) <= ts[b] PROVE Target(T) <= clock
    <3>1. ts[b] <= clock /\ ts[b] \in Nat
      BY <1>9, <1>10
    <3> QED BY <3>1, <2>1, <2>3, <1>9
  <2> QED BY <2>1, <2>2, <2>3, <1>9
<1>12. /\ cursor'.watermark = Target(T) /\ cursor'.seen = seen /\ cursor'.pending = T.pend
       /\ cursor'.owner = Nobody /\ cursor'.until = 0
  BY <1>3, <1>7
<1>13. seen \in SUBSET Rows /\ seen \subseteq cursor.seen \cup T.done \cup T.new
  BY <1>2, <1>10 DEF Remembered
<1>14. c \in CursorType
  <2>1. Target(T) \in 1..setting.time
    BY <1>9, <1>11
  <2> QED BY <1>3, <1>10, <1>13, <2>1, LeaseAssumption DEF CursorType
<1>15. /\ tick' \in [Ticks -> TickType] /\ tick'[t] = Off
       /\ \A u \in Ticks \ {t} : TickOK(u)'
  <2>1. tick[t].stage \in Holding \cup {"loaded"}
    BY <1>1, <1>5 DEF Holding
  <2> QED BY <1>4, <1>6, <1>7, <2>1, OthersAfterSave DEF Finish
<1>16. TypeOK'
  <2>1. TickType' = TickType /\ CursorType' = CursorType /\ Times' = Times
    BY DEF Finish, TickType, NoHold, CursorType, PerJob, Times
  <2> QED BY <1>4, <1>7, <1>12, <1>14, <1>15, <2>1 DEF Finish, jobs, TypeOK, PerJob
<1>17. Dated'
  BY <1>9, <1>11, <1>12 DEF Dated, Finish
<1>18. Noted'
  <2>1. ASSUME NEW d \in T.done PROVE ts[d] # 0
    BY <1>8 DEF IInv, Noted
  <2>2. \A a \in seen : ts[a] # 0
    BY <1>8, <1>13, <2>1 DEF IInv, Noted
  <2>3. ASSUME NEW j \in Jobs, NEW a \in T.pend[j] PROVE a \in Wants[j] /\ ts[a] # 0
    BY <1>8 DEF IInv, Noted, Hits
  <2> QED BY <1>12, <2>2, <2>3 DEF Noted, Finish
<1>19. Together'
  <2>1. ASSUME NEW i \in Jobs, NEW j \in Jobs, NEW a \in T.pend[i], a \in Wants[j]
        PROVE  a \in T.pend[j] \cup finished[j]
    <3>1. CASE a \in cursor.pending[i]
      <4>1. a \in cursor.pending[j] \cup finished[j]
        BY <2>1, <3>1 DEF IInv, Together
      <4> QED BY <4>1, <1>8
    <3>2. CASE a \in Hits(T.new, i)
      BY <2>1, <3>2, <1>8 DEF Hits
    <3> QED BY <1>8, <3>1, <3>2
  <2> QED BY <1>12, <2>1 DEF Together, Finish, jobs
<1>20. RingKept'
  <2>1. ASSUME NEW a \in Rows, ts[a] # 0
        PROVE  /\ \A j \in Jobs : a \in Wants[j] =>
                      \/ a \in finished[j] \cup T.pend[j]
                      \/ a \notin seen /\ ts[a] >= Target(T) - Overlap
               /\ (a \in Raised(Rows) \ Routed(Rows)) => a \notin seen /\ ts[a] >= Target(T) - Overlap
    BY <1>1, <1>2, <1>5, <2>1, SavedKeepsRing
  <2>2. UNCHANGED <<ts, finished>>
    BY DEF Finish, jobs
  <2> QED BY <2>1, <2>2, <1>12 DEF RingKept, Offered, Raised, Routed, Hits
<1>21. TickOK(t)'
  BY <1>15 DEF TickOK, HolderFor, ReadFor, PlanFor, IdleFor, Holding, Planned, Chosen, Off
<1> QED BY <1>15, <1>16, <1>17, <1>18, <1>19, <1>20, <1>21 DEF IInv

-----------------------------------------------------------------------------
(* The board, the jobs, the other doorbell, and time.                      *)

\* A row that arrives is in the overlap of whatever was read before it.
LEMMA ArriveKeeps == ASSUME IInv, NEW a \in Rows, Arrive(a) PROVE IInv'
<1>1. TypeOK
  BY DEF IInv
<1>2. PICK s \in (clock - Lag)..clock : s > 0 /\ ts' = [ts EXCEPT ![a] = s]
  BY DEF Arrive
<1>3. /\ ts \in [Rows -> Times] /\ setting \in Settings
      /\ clock \in Nat /\ clock <= setting.time /\ setting.time \in Nat /\ Lag \in Nat
      /\ Overlap \in Nat /\ Lag <= Overlap /\ cursor.watermark \in Nat /\ cursor.watermark <= clock
      /\ \A b \in Rows : ts[b] <= clock /\ ts[b] \in Nat
  BY <1>1, TimesAre DEF IInv, Dated, TypeOK
<1>4. s \in Nat /\ s <= clock /\ clock - Overlap <= s /\ s # 0
  BY <1>2, <1>3
<1>5. ts[a] = 0 /\ ts'[a] = s /\ \A b \in Rows \ {a} : ts'[b] = ts[b]
  BY <1>2, <1>3 DEF Arrive
<1>6. s \in Times
  BY <1>3, <1>4 DEF Times
<1>7. UNCHANGED <<setting, finished, running, cursor, clock, tick, faults>>
  BY DEF Arrive, jobs
<1>8. TypeOK'
  <2>1. ts' \in [Rows -> Times]
    BY <1>2, <1>3, <1>6
  <2>2. TickType' = TickType /\ CursorType' = CursorType /\ Times' = Times
    BY <1>7 DEF TickType, NoHold, CursorType, PerJob, Times
  <2> QED BY <1>1, <1>7, <2>1, <2>2 DEF TypeOK, PerJob
<1>9. Dated'
  BY <1>3, <1>4, <1>5, <1>7 DEF Dated
<1>10. \A b \in Rows : ts[b] # 0 => ts'[b] = ts[b] /\ ts'[b] # 0
  BY <1>5
<1>11. cursor.seen \in SUBSET Rows /\ cursor.pending \in PerJob
  BY <1>1 DEF TypeOK, CursorType
<1>12. Noted'
  <2>1. \A b \in cursor.seen : ts'[b] # 0
    BY <1>10, <1>11 DEF IInv, Noted
  <2>2. ASSUME NEW j \in Jobs, NEW b \in cursor.pending[j] PROVE b \in Wants[j] /\ ts'[b] # 0
    BY <1>10, <1>11 DEF IInv, Noted, PerJob
  <2> QED BY <1>7, <2>1, <2>2 DEF Noted
<1>13. Together'
  BY <1>7 DEF IInv, Together
<1>14. RingKept'
  <2>1. a \notin cursor.seen /\ s >= cursor.watermark - Overlap
    BY <1>3, <1>4, <1>5 DEF IInv, Noted
  <2>2. Offered(a)'
    BY <1>5, <1>7, <2>1 DEF Offered
  <2>3. ASSUME NEW b \in Rows, b # a PROVE Offered(b)' <=> Offered(b)
    BY <1>5, <1>7, <2>3 DEF Offered
  <2> QED BY <1>5, <1>7, <2>2, <2>3 DEF IInv, RingKept, Raised, Routed, Hits
\* What was read before the row came is covered by it.
<1>15. ASSUME NEW N \in SUBSET Rows, \A b \in N : ts[b] # 0 PROVE Covered(a, N)'
  <2>1. ASSUME NEW b \in N PROVE ts'[a] >= ts'[b] - Overlap
    <3>1. b \in Rows /\ ts'[b] = ts[b] /\ ts[b] <= clock /\ ts[b] \in Nat
      BY <1>3, <1>10, <1>15
    <3> QED BY <3>1, <1>3, <1>4, <1>5
  <2> QED BY <2>1 DEF Covered
<1>16. ASSUME NEW N \in SUBSET Rows, \A b \in N : ts[b] # 0, NEW d \in Rows, d # a, Covered(d, N)
       PROVE  Covered(d, N)'
  BY <1>5, <1>10, <1>16 DEF Covered
<1>17. ASSUME NEW d \in Rows, d # a PROVE InWindow(d)' <=> InWindow(d)
  BY <1>5, <1>7, <1>17 DEF InWindow
<1>18. ASSUME NEW t \in Ticks PROVE TickOK(t)'
  <2>1. PICK T : T = tick[t]
    OBVIOUS
  <2>2. T \in TickType /\ T.new \in SUBSET Rows /\ TickOK(t)
    BY <1>1, <2>1 DEF IInv, TypeOK, TickType
  <2>3. HolderFor(t, T)' /\ IdleFor(T)'
    BY <1>7, <2>1, <2>2 DEF TickOK, HolderFor, IdleFor
  <2>4. ASSUME T.stage = "read" PROVE
        /\ \A b \in T.new : ts'[b] # 0
        /\ \A d \in Rows : InWindow(d)' /\ d \notin T.new => Covered(d, T.new)'
    <3>1. /\ \A b \in T.new : ts[b] # 0
          /\ \A d \in Rows : InWindow(d) /\ d \notin T.new => Covered(d, T.new)
      BY <2>1, <2>2, <2>4 DEF TickOK, ReadFor
    <3>2. \A b \in T.new : ts'[b] # 0
      BY <1>10, <2>2, <3>1
    <3>3. ASSUME NEW d \in Rows, InWindow(d)', d \notin T.new PROVE Covered(d, T.new)'
      BY <1>15, <1>16, <1>17, <2>2, <3>1, <3>3
    <3> QED BY <3>2, <3>3
  <2>5. ASSUME T.stage \in Planned PROVE
        /\ \A b \in T.new : ts'[b] # 0
        /\ \A d \in Rows : InWindow(d)' /\ d \notin cursor.seen \cup T.done \cup T.new => Covered(d, T.new)'
        /\ \A d \in Raised(T.new) : T.hold <= ts'[d]
    <3>1. /\ \A b \in T.new : ts[b] # 0
          /\ \A d \in Rows : InWindow(d) /\ d \notin cursor.seen \cup T.done \cup T.new => Covered(d, T.new)
          /\ \A d \in Raised(T.new) : T.hold <= ts[d]
      BY <2>1, <2>2, <2>5 DEF TickOK, PlanFor
    <3>2. \A b \in T.new : ts'[b] # 0
      BY <1>10, <2>2, <3>1
    <3>3. ASSUME NEW d \in Rows, InWindow(d)', d \notin cursor.seen \cup T.done \cup T.new
          PROVE  Covered(d, T.new)'
      BY <1>15, <1>16, <1>17, <2>2, <3>1, <3>3
    <3>4. ASSUME NEW d \in Raised(T.new) PROVE T.hold <= ts'[d]
      <4>1. d \in T.new
        BY DEF Raised
      <4> QED BY <4>1, <1>10, <2>2, <3>1
    <3> QED BY <3>2, <3>3, <3>4
  <2>6. ReadFor(T)'
    BY <2>4 DEF ReadFor
  <2>7. PlanFor(T)'
    BY <1>7, <2>1, <2>2, <2>5 DEF TickOK, PlanFor, Raised, Hits
  <2> QED BY <1>7, <2>1, <2>3, <2>6, <2>7 DEF TickOK
<1> QED BY <1>8, <1>9, <1>12, <1>13, <1>14, <1>18 DEF IInv

\* A row that gets into a job's own record waits no longer, and stays there.
LEMMA SettleKeeps == ASSUME IInv, NEW j \in Jobs, NEW a \in Rows, Settle(j, a) PROVE IInv'
<1>1. TypeOK /\ finished \in PerJob
  BY DEF IInv, TypeOK
<1>2. /\ UNCHANGED <<setting, ts, running, cursor, clock, tick, faults>>
      /\ finished' = [finished EXCEPT ![j] = @ \cup {a}]
  BY DEF Settle
<1>3. finished' \in PerJob /\ \A i \in Jobs : finished[i] \subseteq finished'[i]
  BY <1>1, <1>2 DEF PerJob
<1>4. TypeOK'
  <2>1. TickType' = TickType /\ CursorType' = CursorType /\ Times' = Times
    BY <1>2 DEF TickType, NoHold, CursorType, PerJob, Times
  <2> QED BY <1>1, <1>2, <1>3, <2>1 DEF TypeOK, PerJob
<1>5. Dated' /\ Noted'
  BY <1>2 DEF IInv, Dated, Noted
<1>6. Together'
  BY <1>2, <1>3 DEF IInv, Together
<1>7. RingKept'
  BY <1>2, <1>3 DEF IInv, RingKept, Offered, Raised, Routed, Hits
<1>8. ASSUME NEW t \in Ticks PROVE TickOK(t)'
  <2>1. TickOK(t)
    BY DEF IInv
  <2>2. HolderFor(t, tick[t])' /\ ReadFor(tick[t])' /\ IdleFor(tick[t])'
    BY <1>2, <2>1 DEF TickOK, HolderFor, ReadFor, IdleFor, InWindow, Covered
  <2>3. PlanFor(tick[t])'
    <3>1. PICK T : T = tick[t]
      OBVIOUS
    <3>2. ASSUME T.stage \in Planned, NEW i \in Jobs
          PROVE  cursor.pending[i] \ finished'[i] \subseteq T.pend[i]
      BY <1>3, <2>1, <3>1, <3>2 DEF TickOK, PlanFor
    <3>3. ASSUME T.stage \in Planned, NEW d \in T.done
          PROVE  \E i \in Jobs : d \in cursor.pending[i] \cap finished'[i]
      BY <1>3, <2>1, <3>1, <3>3 DEF TickOK, PlanFor
    <3>4. PlanFor(T)'
      BY <1>2, <2>1, <3>1, <3>2, <3>3 DEF TickOK, PlanFor, InWindow, Covered, Raised, Hits
    <3> QED BY <1>2, <3>1, <3>4
  <2> QED BY <2>2, <2>3 DEF TickOK
<1> QED BY <1>4, <1>5, <1>6, <1>7, <1>8 DEF IInv

\* Only the counts of running jobs change.
LEMMA RunningKeeps ==
    ASSUME IInv, UNCHANGED <<setting, ts, finished, cursor, clock, tick, faults>>,
           running' \in [Jobs -> Nat],
           \A j \in Jobs \ setting.alsoRung : running[j] = 0 => running'[j] = 0
    PROVE  IInv'
<1>1. TypeOK'
  <2>1. TickType' = TickType /\ CursorType' = CursorType /\ Times' = Times
    BY DEF TickType, NoHold, CursorType, PerJob, Times
  <2> QED BY <2>1 DEF IInv, TypeOK, PerJob
<1>2. Dated' /\ Noted' /\ Together' /\ RingKept'
  BY DEF IInv, Dated, Noted, Together, RingKept, Offered, Raised, Routed, Hits
<1>3. ASSUME NEW t \in Ticks PROVE TickOK(t)'
  <2>1. TickOK(t)
    BY DEF IInv
  <2>2. HolderFor(t, tick[t])' /\ ReadFor(tick[t])' /\ PlanFor(tick[t])'
    BY <2>1 DEF TickOK, HolderFor, ReadFor, PlanFor, InWindow, Covered, Raised, Hits
  <2>3. IdleFor(tick[t])'
    BY <2>1 DEF TickOK, IdleFor
  <2> QED BY <2>2, <2>3 DEF TickOK
<1> QED BY <1>1, <1>2, <1>3 DEF IInv

\* An execution ends.
LEMMA JobEndsKeeps == ASSUME IInv, NEW j \in Jobs, JobEnds(j) PROVE IInv'
<1>1. running \in [Jobs -> Nat] /\ running[j] > 0 /\ running' = [running EXCEPT ![j] = @ - 1]
  BY DEF JobEnds, IInv, TypeOK
<1>2. running' \in [Jobs -> Nat]
  BY <1>1
<1>3. \A i \in Jobs \ setting.alsoRung : running[i] = 0 => running'[i] = 0
  BY <1>1
<1> QED BY <1>2, <1>3, RunningKeeps DEF JobEnds

\* The other doorbell starts only jobs it may start.
LEMMA RingKeeps == ASSUME IInv, NEW j \in Jobs, Ring(j) PROVE IInv'
<1>1. running \in [Jobs -> Nat] /\ j \in setting.alsoRung /\ running' = [running EXCEPT ![j] = @ + 1]
  BY DEF Ring, IInv, TypeOK
<1>2. running' \in [Jobs -> Nat]
  BY <1>1
<1>3. \A i \in Jobs \ setting.alsoRung : running[i] = 0 => running'[i] = 0
  BY <1>1
<1> QED BY <1>2, <1>3, RunningKeeps DEF Ring

\* What a minute leaves of a lease.
LEMMA LeftIs == ASSUME NEW n \in Nat
    PROVE /\ Left(n) \in Nat /\ Left(n) <= n
          /\ (n > 0 => Left(n) = n - 1) /\ (n = 0 => Left(n) = 0)
<1>1. CASE n = 0
  <2>1. {n - 1, 0} \subseteq {-1, 0} /\ 0 \in {n - 1, 0} /\ (n - 1) \in {n - 1, 0}
    BY <1>1
  <2>2. Max({n - 1, 0}) = 0
    BY <1>1, <2>1 DEF Max
  <2> QED BY <1>1, <2>2 DEF Left
<1>2. CASE n > 0
  <2>1. n - 1 \in Nat
    BY <1>2
  <2>2. Max({n - 1, 0}) \in {n - 1, 0} /\ n - 1 <= Max({n - 1, 0}) /\ 0 <= Max({n - 1, 0})
    BY <2>1, MaxTwo
  <2> QED BY <2>1, <2>2, <1>2 DEF Left
<1> QED BY <1>1, <1>2

\* Time goes by: a lease and the age of its tick keep their sum.
LEMMA TickKeeps == ASSUME IInv, Tick PROVE IInv'
<1>1. TypeOK /\ tick \in [Ticks -> TickType] /\ cursor \in CursorType /\ Off \in TickType
  BY OffIs DEF IInv, TypeOK
<1>2. /\ clock \in Nat /\ 1 <= clock /\ clock <= setting.time /\ setting.time \in Nat
      /\ \A a \in Rows : ts[a] \in Nat /\ ts[a] <= clock
      /\ cursor.watermark \in Nat /\ cursor.watermark <= clock
  BY <1>1, TimesAre DEF IInv, Dated
<1>3. clock' \in Nat /\ clock <= clock' /\ clock' <= setting.time
  <2>1. clock' = Min({clock + 1, setting.time}) /\ clock + 1 \in Nat
    BY <1>2 DEF Tick
  <2>2. clock' \in {clock + 1, setting.time} /\ clock' <= clock + 1 /\ clock' <= setting.time
    BY <2>1, <1>2, MinTwo
  <2> QED BY <2>2, <1>2
<1>4. PICK n : n = Left(cursor.until)
  OBVIOUS
<1>5. /\ n \in Nat /\ n <= cursor.until
      /\ (cursor.until > 0 => n = cursor.until - 1) /\ (cursor.until = 0 => n = 0)
  BY <1>1, <1>4, LeaseIs, LeftIs
<1>6. cursor' = [cursor EXCEPT !.until = n]
  BY <1>4 DEF Tick
<1>7. /\ cursor' \in CursorType /\ cursor'.until = n /\ cursor'.owner = cursor.owner
      /\ cursor'.watermark = cursor.watermark /\ cursor'.seen = cursor.seen
      /\ cursor'.pending = cursor.pending
  <2>1. n \in 0..Lease
    <3>1. cursor.until \in Nat /\ cursor.until <= Lease /\ Lease \in Nat
      BY <1>1, LeaseIs DEF CursorType
    <3> QED BY <3>1, <1>5
  <2> QED BY <2>1, <1>1, <1>6 DEF CursorType
<1>8. ASSUME NEW t \in Ticks PROVE
        \/ tick[t].stage = "off" /\ tick'[t] = Off
        \/ /\ tick[t].stage # "off" /\ tick[t].age < TaskTime
           /\ tick'[t] = [tick[t] EXCEPT !.age = @ + 1] /\ tick'[t] \in TickType
  <2>1. tick'[t] = IF tick[t].stage = "off" THEN Off ELSE [tick[t] EXCEPT !.age = @ + 1]
    BY DEF Tick
  <2>2. ASSUME tick[t].stage # "off" PROVE
           tick[t].age < TaskTime /\ [tick[t] EXCEPT !.age = @ + 1] \in TickType
    <3>1. tick[t].age < TaskTime /\ tick[t].age \in Nat /\ TaskTime \in Nat
      BY <1>1, <2>2, LeaseIs DEF Tick
    <3>2. tick[t].age + 1 \in 0..TaskTime
      BY <3>1
    <3>3. tick[t] \in TickType
      BY <1>1
    <3> QED BY <3>1, <3>2, <3>3 DEF TickType
  <2> QED BY <2>1, <2>2
<1>9. UNCHANGED <<setting, ts, running, finished, faults>>
  BY DEF Tick, jobs
<1>10. TypeOK'
  <2>1. tick' \in [Ticks -> TickType]
    <3>1. tick' = [t \in Ticks |-> tick'[t]]
      BY DEF Tick
    <3>2. \A t \in Ticks : tick'[t] \in TickType
      BY <1>1, <1>8
    <3> QED BY <3>1, <3>2
  <2>2. TickType' = TickType /\ CursorType' = CursorType /\ Times' = Times
    BY <1>9 DEF TickType, NoHold, CursorType, PerJob, Times
  <2>3. cursor'.owner = Nobody => cursor'.until = 0
    BY <1>1, <1>5, <1>7 DEF TypeOK
  <2>4. clock' \in 1..setting.time
    BY <1>2, <1>3
  <2> QED BY <1>1, <1>7, <1>9, <2>1, <2>2, <2>3, <2>4 DEF TypeOK, PerJob
<1>11. Dated'
  <2>1. \A a \in Rows : ts[a] <= clock'
    BY <1>2, <1>3
  <2>2. cursor.watermark <= clock'
    BY <1>2, <1>3
  <2> QED BY <1>7, <1>9, <2>1, <2>2 DEF Dated
<1>12. Noted' /\ Together' /\ RingKept'
  BY <1>7, <1>9 DEF IInv, Noted, Together, RingKept, Offered, Raised, Routed, Hits
<1>13. ASSUME NEW t \in Ticks PROVE TickOK(t)'
  <2>1. CASE tick'[t] = Off
    BY <2>1 DEF TickOK, HolderFor, ReadFor, PlanFor, IdleFor, Holding, Planned, Chosen, Off
  <2>2. CASE tick[t].age < TaskTime /\ tick'[t] = [tick[t] EXCEPT !.age = @ + 1]
    <3>1. /\ tick[t] \in TickType /\ TickOK(t) /\ tick[t].age \in Nat
          /\ Lease \in Nat /\ TaskTime \in Nat /\ TaskTime < Lease
      BY <1>1, LeaseIs DEF IInv
    <3>2. PICK T : T = tick'[t]
      OBVIOUS
    <3>3. /\ T.age = tick[t].age + 1
          /\ T.stage = tick[t].stage /\ T.fresh = tick[t].fresh /\ T.new = tick[t].new
          /\ T.done = tick[t].done /\ T.pend = tick[t].pend /\ T.todo = tick[t].todo
          /\ T.hold = tick[t].hold /\ T.job = tick[t].job
      BY <2>2, <3>1, <3>2 DEF TickType
    <3>4. HolderFor(t, T)'
      <4>1. T.stage \in Holding => cursor.until = Lease - tick[t].age /\ cursor.owner = t /\ T.fresh
        BY <3>1, <3>3 DEF TickOK, HolderFor
      <4>2. T.stage \in Holding => n = Lease - T.age
        BY <4>1, <3>1, <3>3, <1>5, <2>2
      <4>3. (T.stage = "loaded" /\ T.fresh) => n = 0
        BY <3>1, <3>3, <1>5 DEF TickOK, HolderFor
      <4> QED BY <4>1, <4>2, <4>3, <1>7 DEF HolderFor
    <3>5. ReadFor(T)' /\ IdleFor(T)'
      BY <3>1, <3>3, <1>7, <1>9 DEF TickOK, ReadFor, IdleFor, InWindow, Covered
    <3>6. PlanFor(T)'
      BY <3>1, <3>3, <1>7, <1>9 DEF TickOK, PlanFor, InWindow, Covered, Raised, Hits
    <3> QED BY <3>2, <3>4, <3>5, <3>6 DEF TickOK
  <2> QED BY <1>8, <2>1, <2>2
<1> QED BY <1>10, <1>11, <1>12, <1>13 DEF IInv

\* A step that changes nothing.
LEMMA StutterKeeps == ASSUME IInv, UNCHANGED vars PROVE IInv'
<1>1. running' \in [Jobs -> Nat]
  BY DEF IInv, TypeOK, vars, jobs
<1> QED BY <1>1, RunningKeeps DEF vars, jobs

\* The cursor, the lease, the plans of the ticks and the records of the jobs agree, in every reachable state.
THEOREM InductiveInvariant == Spec => []IInv
<1>1. Init => IInv
  BY InitOK
<1>2. ASSUME IInv, [Next]_vars PROVE IInv'
  <2>1. CASE UNCHANGED vars
    BY <1>2, <2>1, StutterKeeps
  <2>2. ASSUME NEW t \in Ticks, Load(t) \/ Work(t) \/ StartFails(t) \/ Die(t) PROVE IInv'
    BY <1>2, <2>2, LoadKeeps, TakeLeaseKeeps, ReadKeeps, PlanKeeps, IdleKeeps, BusyKeeps, StillOwnsKeeps,
       StartedKeeps, FinishKeeps, LostRaceKeeps, StartFailsKeeps, DieKeeps DEF Work
  <2>3. ASSUME NEW t \in Ticks, NEW j \in Jobs, Unknown(t, j) PROVE IInv'
    BY <1>2, <2>3, UnknownKeeps
  <2>4. ASSUME NEW a \in Rows, Arrive(a) PROVE IInv'
    BY <1>2, <2>4, ArriveKeeps
  <2>5. ASSUME NEW j \in Jobs, NEW a \in Rows, Settle(j, a) PROVE IInv'
    BY <1>2, <2>5, SettleKeeps
  <2>6. ASSUME NEW j \in Jobs, JobEnds(j) \/ Ring(j) PROVE IInv'
    BY <1>2, <2>6, JobEndsKeeps, RingKeeps
  <2>7. CASE Tick
    BY <1>2, <2>7, TickKeeps
  <2> QED BY <1>2, <2>1, <2>2, <2>3, <2>4, <2>5, <2>6, <2>7 DEF Next
<1> QED BY <1>1, <1>2, PTL DEF Spec

\* A row on the board is in the record of every job it is for, waits in the saved
\* cursor, or is offered to the next tick: whatever ticks overlap, die or lose the lease.
THEOREM NoRingIsSwallowed == Spec => []WatcherInv
<1>1. IInv => WatcherInv
  BY DEF IInv, WatcherInv
<1> QED BY <1>1, InductiveInvariant, PTL

\* What a start does to the count of a job.
LEMMA StartsAnIdleJob ==
    ASSUME IInv, NEW t \in Ticks, Started(t) \/ StartFails(t),
           NEW j \in Jobs \ setting.alsoRung, running'[j] > running[j]
    PROVE  running[j] = 0
<1>1. /\ tick[t].stage = "owns" /\ running \in [Jobs -> Nat]
      /\ \E n \in 0..1 : running' = [running EXCEPT ![tick[t].job] = @ + n]
  BY DEF Started, StartFails, IInv, TypeOK
<1>2. tick[t].job = j
  BY <1>1
<1>3. IdleFor(tick[t])
  BY DEF IInv, TickOK
<1> QED BY <1>1, <1>2, <1>3 DEF IdleFor, Chosen

\* The watcher never starts a copy of a job that runs, unless another doorbell starts it too.
THEOREM OneCopyOfEachJob == Spec => NoSecondCopy
<1> DEFINE Step == \A t \in Ticks, j \in Jobs \ setting.alsoRung :
                      (Started(t) \/ StartFails(t)) /\ running'[j] > running[j] => running[j] = 0
<1>1. IInv => Step
  BY StartsAnIdleJob
<1>2. (IInv /\ [Next]_vars) => [Step]_vars
  BY <1>1
<1>3. NoSecondCopy <=> [][Step]_vars
  BY DEF NoSecondCopy
<1> HIDE DEF Step
<1> QED BY <1>2, <1>3, InductiveInvariant, PTL DEF Spec
=============================================================================
