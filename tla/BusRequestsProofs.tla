--------------------------- MODULE BusRequestsProofs ---------------------------
(***************************************************************************)
(* Proofs about the request worker, for any board, workers and bounds.     *)
(* Only a request without a marker is claimed or refused, and a marker is  *)
(* never taken away; so at most one execution ever comes to run a request, *)
(* and what a row says of it stays true.  While no lock lapses under an    *)
(* execution that lives, one execution at a time gets past its claim, and  *)
(* finds the board without a row.                                          *)
(***************************************************************************)
EXTENDS BusRequests, TLAPS

-----------------------------------------------------------------------------
(* The invariant.                                                          *)

Req(W) == Order[W.i]

\* It has the claim and is about to run the request.
Preparing(W) == W.at \in {"receipt", "run"} \/ (W.at \in {"renew", "append"} /\ W.row = "RECEIPT")

\* It is about to write a RESULT row.
Writing(W) == W.at \in {"renew", "append"} /\ W.row \in Rows

\* Nobody ran the request, and nobody will.
Denied(r) == runs[r] = 0 /\ \A v \in Workers : ~(Preparing(worker[v]) /\ Req(worker[v]) = r)

WorkerOK(W) ==
    /\ Preparing(W) => marker[Req(W)] # "none" /\ runs[Req(W)] = 0
    /\ W.at = "answer" => marker[Req(W)] # "none" /\ W.row \in {"OK", "UNKNOWN"}
    /\ W.at \in {"answer", "renew", "append"} /\ W.row = "OK" => runs[Req(W)] = 1
    /\ Writing(W) \/ W.at = "done" => marker[Req(W)] \in {"answering", "answered"}
    /\ Writing(W) /\ W.row = "REFUSED" => Denied(Req(W))
    /\ W.at \in {"renew", "append"} => W.row \in Rows \cup {"RECEIPT"}
    /\ W.at = "refuse" => W.row = "REFUSED"

RequestOK(r) ==
    /\ marker[r] = "none" => Denied(r)
    /\ marker[r] \in {"none", "claimed"} => results[r] = <<>>
    /\ runs[r] <= 1
    /\ "REFUSED" \in Posted(r) => Denied(r)
    /\ "OK" \in Posted(r) => runs[r] = 1

OneRunner ==
    \A v, w \in Workers :
        Preparing(worker[v]) /\ Preparing(worker[w]) /\ Req(worker[v]) = Req(worker[w]) => v = w

IInv ==
    /\ TypeOK
    /\ \A r \in Requests : RequestOK(r)
    /\ \A w \in Workers : WorkerOK(worker[w])
    /\ OneRunner

\* While no lock lapsed under an execution that lived.
Live(W) == W.at \notin {"over", "waiting"}
Alone(w) ==
    Live(worker[w]) =>
        /\ lock = w
        /\ Preparing(worker[w]) \/ worker[w].at = "answer" => marker[Req(worker[w])] = "claimed"
        /\ Writing(worker[w]) => results[Req(worker[w])] = <<>>
LockInv == lapses = 0 => ResultOnce /\ \A w \in Workers : Alone(w)

-----------------------------------------------------------------------------
(* Rows and workers.                                                       *)

\* What one more row makes of the rows of a request.
LEMMA OneMore ==
    ASSUME NEW s \in Seq(Rows), NEW x \in Rows
    PROVE  /\ Append(s, x) \in Seq(Rows) /\ Len(Append(s, x)) = Len(s) + 1
           /\ \A y : y \in {Append(s, x)[k] : k \in 1..Len(Append(s, x))}
                        => y = x \/ y \in {s[k] : k \in 1..Len(s)}
           /\ s = <<>> => Len(Append(s, x)) = 1
<1>1. Len(s) \in Nat /\ Append(s, x) \in Seq(Rows) /\ Len(Append(s, x)) = Len(s) + 1
  OBVIOUS
<1>2. \A k \in 1..(Len(s) + 1) : /\ k \in 1..Len(s) => Append(s, x)[k] = s[k]
                                 /\ k = Len(s) + 1 => Append(s, x)[k] = x
  OBVIOUS
<1>3. \A k \in 1..(Len(s) + 1) : k \in 1..Len(s) \/ k = Len(s) + 1
  BY <1>1
<1> QED BY <1>1, <1>2, <1>3

\* The board has a first request, and requests only.
LEMMA OrderIs ==
    /\ Len(Order) \in Nat /\ 1 \in 1..Len(Order) /\ \A i \in 1..Len(Order) : Order[i] \in Requests
<1>1. Order \in Seq(Requests) /\ Order # <<>>
  BY RequestsAssumption
<1>2. Len(Order) \in Nat /\ Len(Order) # 0
  BY <1>1
<1> QED BY <1>2 DEF Requests

\* The type invariant, for one worker.
LEMMA WorkerTyped ==
    ASSUME TypeOK, NEW w \in Workers
    PROVE  /\ worker[w] \in WorkerType /\ Current(w) = Req(worker[w]) /\ Current(w) \in Requests
           /\ worker[w].i \in 1..Len(Order) /\ worker[w].at \in Steps /\ worker[w].left \in 0..MaxPerRun
           /\ worker[w].now \subseteq Requests /\ worker[w].row \in Rows \cup {"none", "RECEIPT"}
  BY OrderIs DEF TypeOK, WorkerType, Current, Req

\* The places a worker goes on to with nothing in its hands.
LEMMA Empty ==
    ASSUME NEW W, W.at \in {"over", "waiting", "ready", "idle", "reading", "judge", "claim"}
    PROVE  ~Preparing(W) /\ ~Writing(W) /\ WorkerOK(W) /\ WorkerOK(W)'
  BY DEF Preparing, Writing, WorkerOK

\* A worker that starts its pass over.
LEMMA WaitingTyped ==
    ASSUME NEW s \in Steps
    PROVE  [Waiting EXCEPT !.at = s] \in WorkerType /\ [Waiting EXCEPT !.at = s].at = s
  BY OrderIs, BoundsAssumption DEF Waiting, WorkerType

\* Where a worker goes that passes over a request, or ends its pass.
LEMMA SkipIs ==
    ASSUME TypeOK, NEW w \in Workers, Skip(w) \/ EndPass(w)
    PROVE  \E W \in WorkerType : /\ worker' = [worker EXCEPT ![w] = W]
                                 /\ W.at \in {"judge", "idle"}
<1>1. worker[w] \in WorkerType /\ worker[w].i \in 1..Len(Order) /\ Len(Order) \in Nat
      /\ worker \in [Workers -> WorkerType]
  BY WorkerTyped, OrderIs DEF TypeOK
<1> DEFINE W == [Waiting EXCEPT !.at = "idle"]
           V == ToNext(w)
<1>2. W \in WorkerType /\ W.at = "idle"
  BY WaitingTyped DEF Steps
<1>3. worker[w].i < Len(Order) => V \in WorkerType /\ V.at = "judge"
  <2>1. worker[w].i < Len(Order) => worker[w].i + 1 \in 1..Len(Order)
    BY <1>1
  <2> QED BY <1>1, <2>1 DEF ToNext, WorkerType, Steps
<1>4. CASE EndPass(w)
  BY <1>1, <1>2, <1>4 DEF EndPass
<1>5. CASE Skip(w) /\ worker[w].i < Len(Order)
  <2>1. worker' = [worker EXCEPT ![w] = IF worker[w].i < Len(Order) THEN V ELSE W]
    BY <1>5 DEF Skip
  <2> HIDE DEF V
  <2> QED BY <1>3, <1>5, <2>1
<1>6. CASE Skip(w) /\ ~(worker[w].i < Len(Order))
  BY <1>1, <1>2, <1>6 DEF Skip
<1> QED BY <1>4, <1>5, <1>6

\* Going on changes nothing else of the worker.
LEMMA GoIs ==
    ASSUME TypeOK, NEW w \in Workers, NEW s \in Steps, Go(w, s)
    PROVE  \E W \in WorkerType : /\ worker' = [worker EXCEPT ![w] = W]
                                 /\ W.at = s /\ W.i = worker[w].i /\ W.row = worker[w].row
<1>1. worker[w] \in WorkerType /\ worker \in [Workers -> WorkerType]
  BY WorkerTyped DEF TypeOK
<1> DEFINE W == [worker[w] EXCEPT !.at = s]
<1>2. W \in WorkerType /\ W.at = s /\ W.i = worker[w].i /\ W.row = worker[w].row
  BY <1>1 DEF WorkerType
<1>3. worker' = [worker EXCEPT ![w] = W]
  BY <1>1 DEF Go
<1> QED BY <1>2, <1>3

-----------------------------------------------------------------------------
(* One execution takes a step: of a request, only the one it is at.        *)

\* Markers are never taken away, only the execution that prepares a request runs it,
\* and only a request without a marker gets an execution that prepares it.
Moves(w, W) ==
    LET r == Req(worker[w]) IN
    /\ worker' = [worker EXCEPT ![w] = W] /\ W \in WorkerType
    /\ marker' \in [Requests -> Markers] /\ runs' \in [Requests -> Nat]
    /\ results' \in [Requests -> Seq(Rows)] /\ receipts' \in [Requests -> Nat]
    /\ \A q \in Requests \ {r} : marker'[q] = marker[q] /\ runs'[q] = runs[q] /\ results'[q] = results[q]
    /\ marker[r] # "none" => marker'[r] # "none"
    /\ marker[r] \in {"answering", "answered"} => marker'[r] \in {"answering", "answered"}
    /\ runs'[r] = runs[r] \/ Preparing(worker[w])
    /\ Preparing(W) => Req(W) = r /\ (Preparing(worker[w]) \/ marker[r] = "none")
    /\ old' \subseteq Requests /\ aged' \subseteq Requests /\ lock' \in Workers \cup {Nobody}
    /\ faults' \in 0..MaxFaults /\ lapses' \in 0..MaxLapses

\* Then the others, and the other requests, need no more thought.
LEMMA MoveKeeps ==
    ASSUME IInv, NEW w \in Workers, NEW W, NEW r, r = Req(worker[w]),
           Moves(w, W), WorkerOK(W)', RequestOK(r)'
    PROVE  IInv'
<1>1. TypeOK /\ r \in Requests /\ worker \in [Workers -> WorkerType]
  BY WorkerTyped DEF IInv, TypeOK
<1>2. TypeOK'
  BY <1>1 DEF Moves, TypeOK
<1>3. worker'[w] = W /\ \A v \in Workers \ {w} : worker'[v] = worker[v]
  BY <1>1 DEF Moves
<1>4. \A v \in Workers : WorkerOK(worker[v]) /\ Req(worker[v]) \in Requests
  BY <1>1, WorkerTyped DEF IInv
<1>5. RequestOK(r) /\ \A v \in Workers \ {w} : ~(Preparing(worker[v]) /\ Preparing(worker[w])
                                                  /\ Req(worker[v]) = r)
  BY <1>1 DEF IInv, OneRunner
<1>6. ASSUME NEW v \in Workers \ {w}, Preparing(W), Preparing(worker[v]) PROVE Req(worker[v]) # Req(W)
  <2>1. Req(W) = r /\ (Preparing(worker[w]) \/ marker[r] = "none")
    BY <1>6 DEF Moves
  <2> QED BY <2>1, <1>4, <1>5, <1>6 DEF WorkerOK
<1>7. ASSUME NEW q \in Requests, q # r \/ runs'[q] = runs[q], Denied(q),
             q = r /\ marker[r] = "none" => ~Preparing(W)
      PROVE  Denied(q)'
  <2>1. runs'[q] = runs[q]
    BY <1>7 DEF Moves
  <2>2. ASSUME Preparing(W), Req(W) = q PROVE FALSE
    <3>1. q = r /\ Preparing(worker[w])
      BY <1>7, <2>2 DEF Moves
    <3> QED BY <3>1, <1>7 DEF Denied
  <2> QED BY <1>3, <1>7, <2>1, <2>2 DEF Denied, Preparing, Req
<1>8. ASSUME NEW v \in Workers \ {w} PROVE WorkerOK(worker[v])'
  <2> DEFINE V == worker[v]
             q == Req(worker[v])
  <2>1. WorkerOK(V) /\ worker'[v] = V /\ q \in Requests
    BY <1>3, <1>4
  <2>2. marker[q] # "none" => marker'[q] # "none"
    BY <2>1 DEF Moves
  <2>3. marker[q] \in {"answering", "answered"} => marker'[q] \in {"answering", "answered"}
    BY <2>1 DEF Moves
  <2>4. runs'[q] = runs[q] \/ (q = r /\ Preparing(worker[w]) /\ runs[r] = 0)
    <3>1. Preparing(worker[w]) => runs[r] = 0
      BY <1>4 DEF WorkerOK
    <3> QED BY <2>1, <3>1 DEF Moves
  <2>5. Preparing(V) => runs'[q] = runs[q]
    BY <2>4, <1>5
  <2>6. V.at \in {"answer", "renew", "append"} /\ V.row = "OK" => runs'[q] = 1
    BY <2>1, <2>4 DEF WorkerOK
  <2>7. ASSUME Writing(V), V.row = "REFUSED" PROVE Denied(q)'
    <3>1. Denied(q) /\ marker[q] # "none"
      BY <2>1, <2>7 DEF WorkerOK
    <3>2. ~(q = r /\ Preparing(worker[w]))
      BY <3>1 DEF Denied
    <3> QED BY <2>1, <2>4, <3>1, <3>2, <1>7
  <2>8. WorkerOK(V)'
    BY <2>1, <2>2, <2>3, <2>5, <2>6, <2>7 DEF WorkerOK, Preparing, Writing, Req
  <2> QED BY <2>8
<1>9. ASSUME NEW q \in Requests \ {r} PROVE RequestOK(q)'
  <2>1. RequestOK(q) /\ marker'[q] = marker[q] /\ runs'[q] = runs[q] /\ results'[q] = results[q]
    BY <1>9 DEF IInv, Moves
  <2>2. Denied(q) => Denied(q)'
    BY <2>1, <1>7, <1>9
  <2> QED BY <2>1, <2>2 DEF RequestOK, Posted
<1>10. OneRunner'
  BY <1>3, <1>5, <1>6 DEF OneRunner, IInv, Preparing, Req
<1>11. WorkerOK(worker[w])'
  BY <1>3 DEF WorkerOK, Preparing, Writing, Req
<1>12. \A v \in Workers : WorkerOK(worker[v])'
  BY <1>8, <1>11
<1> QED BY <1>2, <1>9, <1>10, <1>12 DEF IInv

-----------------------------------------------------------------------------
(* One lemma per step.                                                     *)

\* What nobody prepares stays denied while nobody comes to prepare it.
LEMMA DeniedStays ==
    ASSUME TypeOK, NEW w \in Workers, NEW W, worker' = [worker EXCEPT ![w] = W], ~Preparing(W),
           NEW r, Denied(r), runs'[r] = runs[r]
    PROVE  Denied(r)'
<1>1. worker'[w] = W /\ \A v \in Workers \ {w} : worker'[v] = worker[v]
  BY DEF TypeOK
<1> QED BY <1>1 DEF Denied, Preparing, Req

\* Markers and rows stay, and the worker prepares nothing new.
LEMMA QuietKeeps ==
    ASSUME IInv, NEW w \in Workers, NEW W \in WorkerType, worker' = [worker EXCEPT ![w] = W],
           UNCHANGED <<time, marker, runs, board>>, lock' \in Workers \cup {Nobody},
           faults' \in 0..MaxFaults, lapses' \in 0..MaxLapses, WorkerOK(W)',
           Preparing(W) => Preparing(worker[w]) /\ Req(W) = Req(worker[w])
    PROVE  IInv'
<1>1. PICK r \in Requests : r = Req(worker[w])
  BY WorkerTyped DEF IInv
<1>2. Moves(w, W)
  BY DEF Moves, IInv, TypeOK, time, board
<1>3. worker'[w] = W /\ \A v \in Workers \ {w} : worker'[v] = worker[v]
  BY DEF IInv, TypeOK
<1>4. Denied(r) => Denied(r)'
  BY <1>1, <1>3 DEF Denied, Preparing, Req
<1>5. RequestOK(r)'
  BY <1>4 DEF IInv, RequestOK, Posted, board
<1> QED BY <1>1, <1>2, <1>5, MoveKeeps

\* So it is with a worker that has nothing in its hands afterwards.
LEMMA EmptyKeeps ==
    ASSUME IInv, NEW w \in Workers, NEW W \in WorkerType, worker' = [worker EXCEPT ![w] = W],
           W.at \in {"over", "waiting", "ready", "idle", "reading", "judge", "claim"},
           UNCHANGED <<time, marker, runs, board>>, lock' \in Workers \cup {Nobody},
           faults' \in 0..MaxFaults, lapses' \in 0..MaxLapses
    PROVE  IInv'
<1>1. WorkerOK(W)' /\ ~Preparing(W)
  BY Empty
<1> QED BY <1>1, QuietKeeps

\* The bound on faults.
LEMMA FaultIs == ASSUME TypeOK, Fault \/ UNCHANGED faults PROVE faults' \in 0..MaxFaults
  BY BoundsAssumption DEF TypeOK, Fault

\* What a renewal may do to the lock.
LEMMA LockIs ==
    ASSUME TypeOK, NEW w \in Workers, Renewed(w) \/ NotRenewed(w)
    PROVE  lock' \in Workers \cup {Nobody} /\ faults' \in 0..MaxFaults
  BY FaultIs DEF TypeOK, Renewed, NotRenewed

\* Taking the lock.
LEMMA TakeKeeps == ASSUME IInv, NEW w \in Workers, Take(w) PROVE IInv'
<1>1. TypeOK /\ Go(w, "ready") /\ lock' = w /\ UNCHANGED <<time, marker, runs, board, faults, lapses>>
  BY DEF Take, IInv
<1>2. PICK W \in WorkerType : worker' = [worker EXCEPT ![w] = W] /\ W.at = "ready"
  BY <1>1, GoIs DEF Steps
<1> QED BY <1>1, <1>2, EmptyKeeps DEF TypeOK

\* Keeping it for a pass, or finding it lost.
LEMMA KeepKeeps == ASSUME IInv, NEW w \in Workers, Keep(w) PROVE IInv'
<1>1. TypeOK /\ UNCHANGED <<time, marker, runs, board, faults, lapses>>
      /\ lock' \in Workers \cup {Nobody}
  BY DEF Keep, IInv, TypeOK
<1>2. CASE Go(w, "over")
  <2>1. PICK W \in WorkerType : worker' = [worker EXCEPT ![w] = W] /\ W.at = "over"
    BY <1>1, <1>2, GoIs DEF Steps
  <2> QED BY <1>1, <2>1, EmptyKeeps DEF TypeOK
<1>3. CASE worker' = [worker EXCEPT ![w].at = "reading", ![w].now = old]
  <2> DEFINE W == [worker[w] EXCEPT !.at = "reading", !.now = old]
  <2>1. W \in WorkerType /\ W.at = "reading"
    BY <1>1, WorkerTyped DEF WorkerType, TypeOK, Steps
  <2>2. worker' = [worker EXCEPT ![w] = W]
    BY <1>1, <1>3 DEF TypeOK
  <2> HIDE DEF W
  <2> QED BY <1>1, <2>1, <2>2, EmptyKeeps DEF TypeOK
<1> QED BY <1>2, <1>3 DEF Keep

\* The read of the board.
LEMMA ReadKeeps == ASSUME IInv, NEW w \in Workers, Read(w) PROVE IInv'
<1>1. TypeOK /\ UNCHANGED <<time, marker, runs, board, lapses>>
      /\ lock' \in Workers \cup {Nobody} /\ faults' \in 0..MaxFaults
  BY LockIs DEF Read, IInv
<1>2. CASE EndPass(w)
  <2>1. PICK W \in WorkerType : worker' = [worker EXCEPT ![w] = W] /\ W.at \in {"judge", "idle"}
    BY <1>1, <1>2, SkipIs
  <2> QED BY <1>1, <2>1, EmptyKeeps DEF TypeOK
<1>3. CASE worker' = [worker EXCEPT ![w].at = "judge", ![w].left = MaxPerRun]
  <2> DEFINE W == [worker[w] EXCEPT !.at = "judge", !.left = MaxPerRun]
  <2>1. W \in WorkerType /\ W.at = "judge"
    <3>1. MaxPerRun \in 0..MaxPerRun
      BY BoundsAssumption
    <3> QED BY <1>1, <3>1, WorkerTyped DEF WorkerType, Steps
  <2>2. worker' = [worker EXCEPT ![w] = W]
    BY <1>1, <1>3 DEF TypeOK
  <2> HIDE DEF W
  <2> QED BY <1>1, <2>1, <2>2, EmptyKeeps DEF TypeOK
<1> QED BY <1>2, <1>3 DEF Read

\* A verdict: a claim is answered as unknown, without a marker the request is claimed or refused.
LEMMA JudgeKeeps == ASSUME IInv, NEW w \in Workers, Judge(w) PROVE IInv'
<1>1. TypeOK /\ UNCHANGED <<time, marker, runs, board, lock, lapses>>
      /\ lock' \in Workers \cup {Nobody} /\ faults' \in 0..MaxFaults
  BY FaultIs DEF Judge, IInv, TypeOK
<1>2. CASE Skip(w)
  <2>1. PICK W \in WorkerType : worker' = [worker EXCEPT ![w] = W] /\ W.at \in {"judge", "idle"}
    BY <1>1, <1>2, SkipIs
  <2> QED BY <1>1, <2>1, EmptyKeeps DEF TypeOK
<1>3. CASE ~Skip(w)
  <2>1. PICK v : v = Verdict(Current(w), worker[w].now)
    OBVIOUS
  <2>2. /\ v.at # "judge" /\ worker[w].left > 0
        /\ worker' = [worker EXCEPT ![w].at = v.at, ![w].row = v.row, ![w].left = @ - 1]
    BY <1>3, <2>1 DEF Judge
  <2>3. \/ v = [at |-> "refuse", row |-> "REFUSED"]
        \/ v = [at |-> "claim", row |-> "none"]
        \/ v = [at |-> "answer", row |-> "UNKNOWN"] /\ marker[Current(w)] = "claimed"
    BY <2>1, <2>2 DEF Verdict
  <2>4. worker[w].left - 1 \in 0..MaxPerRun
    BY <1>1, <2>2, WorkerTyped, BoundsAssumption
  <2>5. /\ v.at \in {"refuse", "claim", "answer"} /\ v.row \in {"REFUSED", "none", "UNKNOWN"}
        /\ v.at = "refuse" => v.row = "REFUSED"
        /\ v.at = "answer" => v.row = "UNKNOWN" /\ marker[Current(w)] = "claimed"
    BY <2>3
  <2>6. PICK W : W = [worker[w] EXCEPT !.at = v.at, !.row = v.row, !.left = @ - 1]
    OBVIOUS
  <2>7. W \in WorkerType /\ W.at = v.at /\ W.row = v.row /\ W.i = worker[w].i
    BY <1>1, <2>4, <2>5, <2>6, WorkerTyped DEF WorkerType, Steps, Rows
  <2>8. worker' = [worker EXCEPT ![w] = W]
    BY <1>1, <2>2, <2>6 DEF TypeOK
  <2>9. ~Preparing(W) /\ ~Writing(W)
    BY <2>5, <2>7 DEF Preparing, Writing
  <2>10. W.at = "answer" => marker'[Req(W)] = "claimed"
    BY <1>1, <2>5, <2>7 DEF Req, Current
  <2>11. WorkerOK(W)'
    BY <2>5, <2>7, <2>9, <2>10 DEF WorkerOK, Preparing, Writing, Req
  <2>12. lapses' \in 0..MaxLapses
    BY <1>1 DEF TypeOK
  <2> QED BY <1>1, <2>7, <2>8, <2>9, <2>11, <2>12, QuietKeeps
<1> QED BY <1>2, <1>3

\* What the setting of a marker comes to.
Marked(w, W, r, m, s) ==
    /\ worker' = [worker EXCEPT ![w] = W]
    /\ \/ W.at = s /\ W.i = worker[w].i /\ W.row = worker[w].row /\ marker'[r] = m
       \/ W.at \in {"judge", "idle"}
    /\ marker' \in [Requests -> Markers] /\ marker'[r] \in {marker[r], m}
    /\ \A q \in Requests \ {r} : marker'[q] = marker[q]
    /\ faults' \in 0..MaxFaults /\ UNCHANGED <<time, runs, board, lock, lapses>>

\* Such a setting of a marker is all that Mark does.
LEMMA MarkIs ==
    ASSUME TypeOK, NEW w \in Workers, NEW s \in Steps, NEW m \in Markers, NEW r, r = Current(w), Mark(w, m, s)
    PROVE  \E W \in WorkerType : Marked(w, W, r, m, s)
<1>1. UNCHANGED <<time, runs, board, lock, lapses>> /\ faults' \in 0..MaxFaults
  BY FaultIs DEF Mark
<1>2. /\ marker' \in [Requests -> Markers] /\ marker'[r] \in {marker[r], m}
      /\ \A q \in Requests \ {r} : marker'[q] = marker[q]
  <2>1. r \in Requests /\ marker \in [Requests -> Markers]
    BY WorkerTyped DEF TypeOK
  <2>2. marker' = [marker EXCEPT ![r] = m] \/ marker' = marker
    BY DEF Mark
  <2> QED BY <2>1, <2>2
<1>3. CASE Skip(w)
  BY <1>1, <1>2, <1>3, SkipIs DEF Marked
<1>4. CASE marker' = [marker EXCEPT ![r] = m] /\ Go(w, s)
  <2>1. marker'[r] = m
    BY <1>4, WorkerTyped DEF TypeOK
  <2> QED BY <1>1, <1>2, <1>4, <2>1, GoIs DEF Marked
<1> QED BY <1>3, <1>4 DEF Mark

\* A refusal finds a request nobody ran, and makes sure that nobody will.
LEMMA RefuseKeeps == ASSUME IInv, NEW w \in Workers, Refuse(w) PROVE IInv'
<1>1. PICK r : r = Current(w)
  OBVIOUS
<1>2. /\ TypeOK /\ At(w, "refuse") /\ WorkerOK(worker[w]) /\ RequestOK(r)
      /\ r = Req(worker[w]) /\ r \in Requests
  BY <1>1, WorkerTyped DEF Refuse, IInv
<1>3. CASE marker[r] # "none"
  <2>1. Skip(w) /\ UNCHANGED <<time, marker, runs, board, lock, faults, lapses>>
    BY <1>1, <1>3 DEF Refuse
  <2>2. PICK W \in WorkerType : worker' = [worker EXCEPT ![w] = W] /\ W.at \in {"judge", "idle"}
    BY <1>2, <2>1, SkipIs
  <2> QED BY <1>2, <2>1, <2>2, EmptyKeeps DEF TypeOK
<1>4. CASE marker[r] = "none"
  <2>1. Mark(w, "answering", "renew")
    BY <1>1, <1>4 DEF Refuse
  <2>2. PICK W \in WorkerType : Marked(w, W, r, "answering", "renew")
    <3>1. "renew" \in Steps /\ "answering" \in Markers
      BY DEF Steps, Markers
    <3> QED BY <1>1, <1>2, <2>1, <3>1, MarkIs
  <2>3. worker[w].row = "REFUSED" /\ worker[w].at = "refuse"
    BY <1>2 DEF WorkerOK, At
  <2>4. ~Preparing(W)
    BY <2>2, <2>3 DEF Marked, Preparing
  <2>5. Denied(r) /\ results[r] = <<>>
    BY <1>2, <1>4 DEF RequestOK
  <2>6. Denied(r)'
    BY <1>2, <2>2, <2>4, <2>5, DeniedStays DEF Marked
  <2>7. WorkerOK(W)'
    <3>1. CASE W.at \in {"judge", "idle"}
      BY <3>1, Empty
    <3>2. CASE W.at = "renew" /\ W.i = worker[w].i /\ W.row = worker[w].row /\ marker'[r] = "answering"
      <4>1. Req(W) = r
        BY <1>2, <3>2 DEF Req
      <4> QED BY <2>3, <2>4, <2>6, <3>2, <4>1 DEF WorkerOK, Preparing, Writing, Req, Rows
    <3> QED BY <2>2, <3>1, <3>2 DEF Marked
  <2>8. RequestOK(r)'
    <3>1. runs'[r] <= 1 /\ results'[r] = <<>>
      BY <2>2, <2>5 DEF Marked, Denied, board
    <3> QED BY <2>6, <3>1 DEF RequestOK, Posted
  <2>9. Moves(w, W)
    BY <1>2, <1>4, <2>2, <2>4 DEF Marked, Moves, TypeOK, time, board
  <2> QED BY <1>2, <2>7, <2>8, <2>9, MoveKeeps
<1> QED BY <1>3, <1>4

\* A claim makes its worker the only one to prepare the request.
LEMMA ClaimKeeps == ASSUME IInv, NEW w \in Workers, Claim(w) PROVE IInv'
<1>1. PICK r : r = Current(w)
  OBVIOUS
<1>2. /\ TypeOK /\ worker[w].at = "claim" /\ RequestOK(r)
      /\ r = Req(worker[w]) /\ r \in Requests
  BY <1>1, WorkerTyped DEF Claim, At, IInv
<1>3. CASE marker[r] # "none"
  <2>1. Go(w, "judge") /\ UNCHANGED <<time, marker, runs, board, lock, faults, lapses>>
    BY <1>1, <1>3 DEF Claim
  <2>2. PICK W \in WorkerType : worker' = [worker EXCEPT ![w] = W] /\ W.at = "judge"
    BY <1>2, <2>1, GoIs DEF Steps
  <2> QED BY <1>2, <2>1, <2>2, EmptyKeeps DEF TypeOK
<1>4. CASE marker[r] = "none"
  <2>1. PICK s \in {"receipt", "run"} : Mark(w, "claimed", s)
    BY <1>1, <1>4 DEF Claim
  <2>2. PICK W \in WorkerType : Marked(w, W, r, "claimed", s)
    <3>1. s \in Steps /\ "claimed" \in Markers
      BY DEF Steps, Markers
    <3> QED BY <1>1, <1>2, <2>1, <3>1, MarkIs
  <2>3. Denied(r) /\ results[r] = <<>> /\ runs[r] = 0
    BY <1>2, <1>4 DEF RequestOK, Denied
  <2>4. runs'[r] = 0 /\ results'[r] = <<>> /\ marker'[r] \in {"none", "claimed"}
    BY <1>4, <2>2, <2>3 DEF Marked, board
  <2>5. CASE W.at \in {"judge", "idle"}
    <3>1. WorkerOK(W)' /\ ~Preparing(W)
      BY <2>5, Empty
    <3>2. Denied(r)'
      BY <1>2, <2>2, <2>3, <2>4, <3>1, DeniedStays DEF Marked
    <3>3. RequestOK(r)'
      BY <2>4, <3>2 DEF RequestOK, Posted
    <3>4. Moves(w, W)
      BY <1>2, <1>4, <2>2, <3>1 DEF Marked, Moves, TypeOK, time, board
    <3> QED BY <1>2, <3>1, <3>3, <3>4, MoveKeeps
  <2>6. CASE W.at = s /\ W.i = worker[w].i /\ marker'[r] = "claimed"
    <3>1. Req(W) = r
      BY <1>2, <2>6 DEF Req
    <3>2. WorkerOK(W)'
      BY <2>4, <2>6, <3>1 DEF WorkerOK, Preparing, Writing, Req
    <3>3. RequestOK(r)'
      BY <2>4, <2>6 DEF RequestOK, Posted
    <3>4. Moves(w, W)
      BY <1>2, <1>4, <2>2, <3>1 DEF Marked, Moves, TypeOK, time, board
    <3> QED BY <1>2, <3>2, <3>3, <3>4, MoveKeeps
  <2> QED BY <2>2, <2>5, <2>6 DEF Marked
<1> QED BY <1>3, <1>4

\* The receipt of a probe is part of its preparation.
LEMMA ReceiptKeeps == ASSUME IInv, NEW w \in Workers, Receipt(w) PROVE IInv'
<1>1. /\ TypeOK /\ worker[w].at = "receipt" /\ WorkerOK(worker[w]) /\ worker[w] \in WorkerType
      /\ UNCHANGED <<time, marker, runs, board, lock, faults, lapses>>
  BY WorkerTyped DEF Receipt, At, IInv
<1>2. PICK W : /\ worker' = [worker EXCEPT ![w] = W]
               /\ \/ W = [worker[w] EXCEPT !.at = "renew", !.row = "RECEIPT"]
                  \/ W = [worker[w] EXCEPT !.at = "run"]
  BY <1>1 DEF Receipt, Go, TypeOK
<1>3. /\ W \in WorkerType /\ W.i = worker[w].i
      /\ (W.at = "renew" /\ W.row = "RECEIPT") \/ W.at = "run"
  BY <1>1, <1>2 DEF WorkerType, Steps
<1>4. Preparing(worker[w]) /\ Req(W) = Req(worker[w])
  BY <1>1, <1>3 DEF Preparing, Req
<1>5. marker'[Req(W)] # "none" /\ runs'[Req(W)] = 0
  BY <1>1, <1>4 DEF WorkerOK
<1>6. WorkerOK(W)'
  BY <1>3, <1>5 DEF WorkerOK, Preparing, Writing, Req, Rows
<1>7. lock' \in Workers \cup {Nobody} /\ faults' \in 0..MaxFaults /\ lapses' \in 0..MaxLapses
  BY <1>1 DEF TypeOK
<1> QED BY <1>1, <1>2, <1>3, <1>4, <1>6, <1>7, QuietKeeps

\* The run: it was never run, and nobody else prepares it.
LEMMA RunKeeps == ASSUME IInv, NEW w \in Workers, Run(w) PROVE IInv'
<1>1. PICK r : r = Current(w)
  OBVIOUS
<1>2. /\ TypeOK /\ worker[w].at = "run" /\ WorkerOK(worker[w]) /\ worker[w] \in WorkerType
      /\ runs' = [runs EXCEPT ![r] = @ + 1] /\ r = Req(worker[w]) /\ r \in Requests
      /\ UNCHANGED <<time, marker, board, lock, faults, lapses>> /\ RequestOK(r)
  BY <1>1, WorkerTyped DEF Run, At, IInv
<1>3. PICK W : /\ worker' = [worker EXCEPT ![w] = W]
               /\ W = [worker[w] EXCEPT !.at = "answer", !.row = "OK"]
  BY <1>1, <1>2 DEF Run, TypeOK
<1>4. /\ W \in WorkerType /\ Req(W) = r /\ W.at = "answer" /\ W.row = "OK"
      /\ ~Preparing(W) /\ ~Writing(W)
  BY <1>2, <1>3 DEF WorkerType, Steps, Rows, Req, Preparing, Writing
<1>5. Preparing(worker[w]) /\ marker[r] # "none" /\ runs[r] = 0
  BY <1>2 DEF WorkerOK, Preparing
<1>6. runs' \in [Requests -> Nat] /\ runs'[r] = 1 /\ \A q \in Requests \ {r} : runs'[q] = runs[q]
  BY <1>2, <1>5 DEF TypeOK
<1>7. WorkerOK(W)'
  BY <1>2, <1>4, <1>5, <1>6 DEF WorkerOK, Preparing, Writing, Req
<1>8. RequestOK(r)'
  <2>1. ~Denied(r)
    BY <1>2, <1>5 DEF Denied
  <2> QED BY <1>2, <1>5, <1>6, <2>1 DEF RequestOK, Posted, board
<1>9. Moves(w, W)
  BY <1>2, <1>3, <1>4, <1>5, <1>6 DEF Moves, TypeOK, time, board
<1> QED BY <1>2, <1>7, <1>8, <1>9, MoveKeeps

\* The marker before the row.
LEMMA AnswerKeeps == ASSUME IInv, NEW w \in Workers, Answer(w) PROVE IInv'
<1>1. PICK r : r = Current(w)
  OBVIOUS
<1>2. /\ TypeOK /\ worker[w].at = "answer" /\ WorkerOK(worker[w]) /\ RequestOK(r)
      /\ r = Req(worker[w]) /\ r \in Requests /\ Mark(w, "answering", "renew")
  BY <1>1, WorkerTyped DEF Answer, At, IInv
<1>3. PICK W \in WorkerType : Marked(w, W, r, "answering", "renew")
  <2>1. "renew" \in Steps /\ "answering" \in Markers
    BY DEF Steps, Markers
  <2> QED BY <1>1, <1>2, <2>1, MarkIs
<1>4. /\ marker[r] # "none" /\ worker[w].row \in {"OK", "UNKNOWN"}
      /\ worker[w].row = "OK" => runs[r] = 1
  BY <1>2 DEF WorkerOK
<1>5. ~Preparing(W)
  BY <1>3, <1>4 DEF Marked, Preparing
<1>6. Denied(r) => Denied(r)'
  BY <1>2, <1>3, <1>5, DeniedStays DEF Marked
<1>7. WorkerOK(W)'
  <2>1. CASE W.at \in {"judge", "idle"}
    BY <2>1, Empty
  <2>2. CASE W.at = "renew" /\ W.i = worker[w].i /\ W.row = worker[w].row /\ marker'[r] = "answering"
    <3>1. Req(W) = r /\ runs'[r] = runs[r]
      BY <1>2, <1>3, <2>2 DEF Marked, Req
    <3> QED BY <1>4, <1>5, <2>2, <3>1 DEF WorkerOK, Preparing, Writing, Req, Rows
  <2> QED BY <1>3, <2>1, <2>2 DEF Marked
<1>8. RequestOK(r)'
  <2>1. /\ runs'[r] = runs[r] /\ results'[r] = results[r] /\ marker'[r] \in {marker[r], "answering"}
    BY <1>3 DEF Marked, board
  <2> QED BY <1>2, <1>4, <1>6, <2>1 DEF RequestOK, Posted
<1>9. Moves(w, W)
  BY <1>2, <1>3, <1>5 DEF Marked, Moves, TypeOK, time, board
<1> QED BY <1>2, <1>7, <1>8, <1>9, MoveKeeps

\* The renewal before the row.
LEMMA RenewKeeps == ASSUME IInv, NEW w \in Workers, Renew(w) PROVE IInv'
<1>1. /\ TypeOK /\ worker[w].at = "renew" /\ WorkerOK(worker[w])
      /\ UNCHANGED <<time, marker, runs, board, lapses>> /\ lapses' \in 0..MaxLapses
      /\ lock' \in Workers \cup {Nobody} /\ faults' \in 0..MaxFaults
  BY LockIs DEF Renew, At, IInv, TypeOK
<1>2. CASE EndPass(w)
  <2>1. PICK W \in WorkerType : worker' = [worker EXCEPT ![w] = W] /\ W.at \in {"judge", "idle"}
    BY <1>1, <1>2, SkipIs
  <2> QED BY <1>1, <2>1, EmptyKeeps
<1>3. CASE Go(w, "append")
  <2>1. PICK W \in WorkerType : /\ worker' = [worker EXCEPT ![w] = W]
                                /\ W.at = "append" /\ W.i = worker[w].i /\ W.row = worker[w].row
    BY <1>1, <1>3, GoIs DEF Steps
  <2>2. /\ Req(W) = Req(worker[w]) /\ (Preparing(W) <=> Preparing(worker[w]))
        /\ (Writing(W) <=> Writing(worker[w]))
    BY <1>1, <2>1 DEF Req, Preparing, Writing
  <2>3. Denied(Req(W)) => Denied(Req(W))'
    <3>1. PICK r : r = Req(W)
      OBVIOUS
    <3>2. worker'[w] = W /\ \A v \in Workers \ {w} : worker'[v] = worker[v]
      BY <1>1, <2>1 DEF TypeOK
    <3>3. Denied(r) => Denied(r)'
      BY <1>1, <2>2, <3>2 DEF Denied, Preparing, Req
    <3> QED BY <3>1, <3>3 DEF Req
  <2>4. WorkerOK(W)'
    BY <1>1, <2>1, <2>2, <2>3 DEF WorkerOK, Preparing, Writing, Req
  <2> QED BY <1>1, <2>1, <2>2, <2>4, QuietKeeps
<1> QED BY <1>2, <1>3 DEF Renew

\* The row says what is true of the request.
LEMMA AppendKeeps == ASSUME IInv, NEW w \in Workers, Append1(w) PROVE IInv'
<1>1. PICK r, x : r = Current(w) /\ x = worker[w].row
  OBVIOUS
<1>2. /\ TypeOK /\ worker[w].at = "append" /\ WorkerOK(worker[w]) /\ RequestOK(r)
      /\ r = Req(worker[w]) /\ r \in Requests /\ x \in Rows \cup {"RECEIPT"}
      /\ UNCHANGED <<time, marker, runs, lock, lapses>> /\ faults' \in 0..MaxFaults
  BY <1>1, WorkerTyped, FaultIs DEF Append1, At, IInv, WorkerOK
<1>3. PICK W \in WorkerType :
          /\ worker' = [worker EXCEPT ![w] = W]
          /\ \/ W.at \in {"judge", "idle"}
             \/ W.i = worker[w].i /\ W.at = IF x = "RECEIPT" THEN "run" ELSE "done"
  <2>1. CASE EndPass(w)
    BY <1>2, <2>1, SkipIs
  <2>2. CASE Go(w, IF x = "RECEIPT" THEN "run" ELSE "done")
    BY <1>2, <2>2, GoIs DEF Steps
  <2> QED BY <1>1, <2>1, <2>2 DEF Append1
<1>4. /\ results' \in [Requests -> Seq(Rows)] /\ receipts' \in [Requests -> Nat]
      /\ \A q \in Requests \ {r} : results'[q] = results[q]
      /\ results'[r] = results[r] \/ (x # "RECEIPT" /\ results'[r] = Append(results[r], x))
  <2>1. x # "RECEIPT" => Append(results[r], x) \in Seq(Rows)
    BY <1>2, OneMore DEF TypeOK
  <2>2. CASE UNCHANGED board
    BY <1>2, <2>2 DEF TypeOK, board
  <2>3. CASE x = "RECEIPT" /\ receipts' = [receipts EXCEPT ![r] = @ + 1] /\ UNCHANGED results
    BY <1>2, <2>3 DEF TypeOK
  <2>4. CASE x # "RECEIPT" /\ results' = [results EXCEPT ![r] = Append(@, x)] /\ UNCHANGED receipts
    BY <1>2, <2>1, <2>4 DEF TypeOK
  <2> QED BY <1>1, <2>2, <2>3, <2>4 DEF Append1
<1>5. /\ x = "RECEIPT" => Preparing(worker[w]) /\ marker[r] # "none" /\ runs[r] = 0
      /\ x # "RECEIPT" => x \in Rows /\ Writing(worker[w]) /\ ~Preparing(worker[w])
                          /\ marker[r] \in {"answering", "answered"}
  BY <1>1, <1>2 DEF WorkerOK, Preparing, Writing
<1>6. (Preparing(W) <=> W.at = "run") /\ (W.at = "run" => x = "RECEIPT" /\ Req(W) = r)
  BY <1>2, <1>3 DEF Preparing, Req
<1>7. WorkerOK(W)'
  <2>1. CASE W.at \in {"judge", "idle"}
    BY <2>1, Empty
  <2>2. CASE W.i = worker[w].i /\ W.at = IF x = "RECEIPT" THEN "run" ELSE "done"
    <3>1. Req(W) = r /\ runs'[r] = runs[r] /\ marker'[r] = marker[r]
      BY <1>2, <2>2 DEF Req
    <3> QED BY <1>5, <2>2, <3>1 DEF WorkerOK, Preparing, Writing, Req
  <2> QED BY <1>3, <2>1, <2>2
<1>8. RequestOK(r)'
  <2>1. Denied(r) => Denied(r)'
    <3>1. Denied(r) => ~Preparing(W)
      BY <1>2, <1>5, <1>6 DEF Denied
    <3> QED BY <1>2, <1>3, <3>1, DeniedStays
  <2>2. CASE results'[r] = results[r]
    BY <1>2, <2>1, <2>2 DEF RequestOK, Posted
  <2>3. CASE x # "RECEIPT" /\ results'[r] = Append(results[r], x)
    <3>1. \A y : y \in Posted(r)' => y = x \/ y \in Posted(r)
      BY <1>2, <2>3, <1>5, OneMore DEF Posted, TypeOK
    <3>2. (x = "REFUSED" => Denied(r)) /\ (x = "OK" => runs[r] = 1)
      BY <1>1, <1>2, <1>5 DEF WorkerOK
    <3> QED BY <1>2, <1>5, <2>1, <2>3, <3>1, <3>2 DEF RequestOK
  <2> QED BY <1>4, <2>2, <2>3
<1>9. Moves(w, W)
  BY <1>2, <1>3, <1>4, <1>5, <1>6 DEF Moves, TypeOK, time
<1> QED BY <1>2, <1>7, <1>8, <1>9, MoveKeeps

\* The marker after the row.
LEMMA DoneKeeps == ASSUME IInv, NEW w \in Workers, Done(w) PROVE IInv'
<1>1. PICK r : r = Current(w)
  OBVIOUS
<1>2. /\ TypeOK /\ worker[w].at = "done" /\ WorkerOK(worker[w]) /\ RequestOK(r)
      /\ r = Req(worker[w]) /\ r \in Requests /\ Skip(w)
      /\ UNCHANGED <<time, runs, board, lock, lapses>> /\ faults' \in 0..MaxFaults
  BY <1>1, WorkerTyped, FaultIs DEF Done, At, IInv
<1>3. PICK W \in WorkerType : worker' = [worker EXCEPT ![w] = W] /\ W.at \in {"judge", "idle"}
  BY <1>2, SkipIs
<1>4. WorkerOK(W)' /\ ~Preparing(W)
  BY <1>3, Empty
<1>5. marker[r] \in {"answering", "answered"}
  BY <1>2 DEF WorkerOK
<1>6. /\ marker' \in [Requests -> Markers] /\ marker'[r] \in {marker[r], "answered"}
      /\ \A q \in Requests \ {r} : marker'[q] = marker[q]
  BY <1>1, <1>2 DEF Done, TypeOK, Markers
<1>7. Denied(r) => Denied(r)'
  BY <1>2, <1>3, <1>4, DeniedStays
<1>8. RequestOK(r)'
  BY <1>2, <1>5, <1>6, <1>7 DEF RequestOK, Posted, board
<1>9. Moves(w, W)
  BY <1>2, <1>3, <1>4, <1>5, <1>6 DEF Moves, TypeOK, time, board
<1> QED BY <1>2, <1>4, <1>8, <1>9, MoveKeeps

\* An execution ends, or the next one is launched.
LEMMA EndKeeps == ASSUME IInv, NEW w \in Workers, Stop(w) \/ Die(w) \/ Launch(w) PROVE IInv'
<1>1. /\ TypeOK /\ UNCHANGED <<time, marker, runs, board, lapses>> /\ lapses' \in 0..MaxLapses
      /\ lock' \in Workers \cup {Nobody} /\ faults' \in 0..MaxFaults
  BY FaultIs DEF Stop, Die, Launch, IInv, TypeOK
<1>2. PICK W \in WorkerType : worker' = [worker EXCEPT ![w] = W] /\ W.at \in {"over", "waiting"}
  <2>1. "over" \in Steps /\ "waiting" \in Steps
    BY DEF Steps
  <2>2. CASE Stop(w)
    BY <1>1, <2>1, <2>2, GoIs DEF Stop
  <2>3. CASE Launch(w)
    BY <1>1, <2>1, <2>3, GoIs DEF Launch
  <2>4. CASE Die(w)
    BY <2>1, <2>4, WaitingTyped DEF Die
  <2> QED BY <2>2, <2>3, <2>4
<1> QED BY <1>1, <1>2, EmptyKeeps

\* Time and the lock alone.
LEMMA RestKeeps ==
    ASSUME IInv, UNCHANGED <<marker, runs, board, worker>>, old' \subseteq Requests, aged' \subseteq Requests,
           lock' \in Workers \cup {Nobody}, faults' \in 0..MaxFaults, lapses' \in 0..MaxLapses
    PROVE  IInv'
<1>1. TypeOK'
  BY DEF IInv, TypeOK, board
<1>2. \A r \in Requests : RequestOK(r)'
  BY DEF IInv, RequestOK, Denied, Posted, Preparing, Req, board
<1>3. \A w \in Workers : WorkerOK(worker[w])'
  BY DEF IInv, WorkerOK, Denied, Preparing, Writing, Req
<1>4. OneRunner'
  BY DEF IInv, OneRunner, Preparing, Req
<1> QED BY <1>1, <1>2, <1>3, <1>4 DEF IInv

\* Time and lapses.
LEMMA TimeKeeps ==
    ASSUME IInv, \/ LapseOfDead \/ Lapse \/ UNCHANGED vars
                 \/ \E r \in Requests : Stale(r) \/ Grace(r)
    PROVE  IInv'
<1>1. TypeOK /\ UNCHANGED <<marker, runs, board, worker>>
  BY DEF LapseOfDead, Lapse, vars, Stale, Grace, IInv
<1>2. old' \subseteq Requests /\ aged' \subseteq Requests
  BY <1>1 DEF LapseOfDead, Lapse, vars, Stale, Grace, TypeOK, time
<1>3. lock' \in Workers \cup {Nobody} /\ faults' \in 0..MaxFaults
  BY <1>1 DEF LapseOfDead, Lapse, vars, Stale, Grace, TypeOK
<1>4. lapses' \in 0..MaxLapses
  BY <1>1, BoundsAssumption DEF LapseOfDead, Lapse, vars, Stale, Grace, TypeOK
<1> QED BY <1>1, <1>2, <1>3, <1>4, RestKeeps

\* The invariant holds at the start.
LEMMA InitIInv == Init => IInv
<1> SUFFICES ASSUME Init PROVE IInv
  OBVIOUS
<1>1. Waiting \in WorkerType /\ Waiting.at = "waiting"
  BY OrderIs, BoundsAssumption DEF Waiting, WorkerType, Steps
<1>2. \A w \in Workers : worker[w] = Waiting /\ ~Preparing(worker[w]) /\ WorkerOK(worker[w])
  BY <1>1, Empty DEF Init
<1>3. TypeOK
  BY <1>1, BoundsAssumption DEF Init, TypeOK, Markers
<1>4. \A r \in Requests : RequestOK(r)
  BY <1>2 DEF Init, RequestOK, Denied, Posted
<1>5. OneRunner
  BY <1>2 DEF OneRunner
<1> QED BY <1>2, <1>3, <1>4, <1>5 DEF IInv

\* Every step keeps the invariant.
LEMMA NextKeeps == IInv /\ [Next]_vars => IInv'
<1> SUFFICES ASSUME IInv, [Next]_vars PROVE IInv'
  OBVIOUS
<1>1. ASSUME NEW w \in Workers, Step(w) PROVE IInv'
  BY <1>1, TakeKeeps, KeepKeeps, ReadKeeps, JudgeKeeps, RefuseKeeps, ClaimKeeps, ReceiptKeeps, RunKeeps,
     AnswerKeeps, RenewKeeps, AppendKeeps, DoneKeeps DEF Step
<1>2. ASSUME NEW w \in Workers, Stop(w) \/ Die(w) \/ Launch(w) PROVE IInv'
  BY <1>2, EndKeeps
<1> QED BY <1>1, <1>2, TimeKeeps DEF Next

\* The invariant holds of every behaviour.
THEOREM InductiveInvariant == Spec => []IInv
  BY InitIInv, NextKeeps, PTL DEF Spec

\* No request is run twice and every row on the board tells what became of its request,
\* whoever dies, whoever holds the lock and whichever reply is lost.
THEOREM RequestsRunOnce == Spec => []RequestsInv
<1>1. IInv => RequestsInv
  BY DEF IInv, RequestOK, Denied, RequestsInv, OpOnce, RowsAreTrue
<1> QED BY <1>1, InductiveInvariant, PTL

-----------------------------------------------------------------------------
(* One RESULT row, while no lock lapses under an execution that lives.      *)

\* What a step of w has to leave to keep to the lock.
Held(w, W) ==
    Live(W) => /\ lock' = w
               /\ Preparing(W) \/ W.at = "answer" => marker'[Req(W)] = "claimed"
               /\ Writing(W) => results'[Req(W)] = <<>>

\* One execution lives: only it has to be looked at.
LEMMA HeldKeeps ==
    ASSUME IInv, LockInv, NEW w \in Workers, NEW W, worker' = [worker EXCEPT ![w] = W], lapses' = lapses,
           lapses = 0 => /\ \A v \in Workers \ {w} : ~Live(worker[v])
                         /\ ResultOnce' /\ Held(w, W)
    PROVE  LockInv'
<1>1. worker'[w] = W /\ \A v \in Workers \ {w} : worker'[v] = worker[v]
  BY DEF IInv, TypeOK
<1>2. ASSUME lapses = 0, NEW v \in Workers PROVE Alone(v)'
  <2>1. CASE v = w
    BY <1>1, <1>2, <2>1 DEF Alone, Held, Live, Preparing, Writing, Req
  <2>2. CASE v # w
    BY <1>1, <1>2, <2>2 DEF Alone, Live
  <2> QED BY <2>1, <2>2
<1> QED BY <1>2 DEF LockInv

\* While no lock lapsed, a worker that lives is the only one.
LEMMA OnlyOne ==
    ASSUME LockInv, lapses = 0, NEW w \in Workers, Live(worker[w])
    PROVE  /\ lock = w /\ Alone(w) /\ ResultOnce
           /\ \A v \in Workers \ {w} : ~Live(worker[v])
  BY DEF LockInv, Alone

\* A worker with nothing in its hands.
LEMMA EmptyHeld ==
    ASSUME NEW w, NEW W, W.at \in {"over", "waiting", "ready", "idle", "reading", "judge", "claim"},
           Live(W) => lock' = w
    PROVE  Held(w, W)
  BY Empty DEF Held

\* The steps that leave a worker with nothing in its hands.
LEMMA EmptyHeldKeeps ==
    ASSUME IInv, LockInv, NEW w \in Workers, Live(worker[w]), NEW W, worker' = [worker EXCEPT ![w] = W],
           W.at \in {"over", "waiting", "ready", "idle", "reading", "judge", "claim"},
           lapses' = lapses, results' = results, lapses = 0 /\ Live(W) => lock' = w
    PROVE  LockInv'
<1>1. ASSUME lapses = 0
      PROVE  (\A v \in Workers \ {w} : ~Live(worker[v])) /\ ResultOnce' /\ Held(w, W)
  BY <1>1, OnlyOne, EmptyHeld DEF ResultOnce
<1> QED BY <1>1, HeldKeeps

\* A lock that is free means that no execution lives.
LEMMA TakeHeld == ASSUME IInv, LockInv, NEW w \in Workers, Take(w) PROVE LockInv'
<1>1. TypeOK /\ Go(w, "ready") /\ lock = Nobody /\ lock' = w /\ results' = results /\ lapses' = lapses
  BY DEF Take, IInv, board
<1>2. PICK W \in WorkerType : worker' = [worker EXCEPT ![w] = W] /\ W.at = "ready"
  BY <1>1, GoIs DEF Steps
<1>3. lapses = 0 => \A v \in Workers : ~Live(worker[v])
  BY <1>1, WorkersAssumption DEF LockInv, Alone
<1>4. lapses = 0 => ResultOnce'
  BY <1>1 DEF LockInv, ResultOnce
<1>5. Held(w, W)
  BY <1>1, <1>2, EmptyHeld
<1> QED BY <1>1, <1>2, <1>3, <1>4, <1>5, HeldKeeps

\* A pass begins under the lock.
LEMMA KeepHeld == ASSUME IInv, LockInv, NEW w \in Workers, Keep(w) PROVE LockInv'
<1>1. TypeOK /\ Live(worker[w]) /\ results' = results /\ lapses' = lapses
  BY DEF Keep, IInv, board, Live, At
<1>2. CASE Go(w, "over")
  <2>1. PICK W \in WorkerType : worker' = [worker EXCEPT ![w] = W] /\ W.at = "over"
    BY <1>1, <1>2, GoIs DEF Steps
  <2> QED BY <1>1, <2>1, EmptyHeldKeeps DEF Live
<1>3. CASE lock' = w /\ worker' = [worker EXCEPT ![w].at = "reading", ![w].now = old]
  <2>1. PICK W : W = [worker[w] EXCEPT !.at = "reading", !.now = old]
    OBVIOUS
  <2>2. W.at = "reading" /\ worker' = [worker EXCEPT ![w] = W]
    BY <1>1, <1>3, <2>1, WorkerTyped DEF WorkerType, TypeOK
  <2> QED BY <1>1, <1>3, <2>2, EmptyHeldKeeps
<1> QED BY <1>2, <1>3 DEF Keep

\* Under a lock that did not lapse every renewal leaves it with its holder.
LEMMA RenewedHeld ==
    ASSUME LockInv, lapses = 0, NEW w \in Workers, Live(worker[w]), Renewed(w) \/ NotRenewed(w)
    PROVE  lock' = w
  BY OnlyOne DEF Renewed, NotRenewed, Mine

\* So does the loop.
LEMMA ReadHeld == ASSUME IInv, LockInv, NEW w \in Workers, Read(w) PROVE LockInv'
<1>1. TypeOK /\ Live(worker[w]) /\ results' = results /\ lapses' = lapses /\ (lapses = 0 => lock' = w)
  BY RenewedHeld DEF Read, IInv, board, Live, At
<1>2. CASE EndPass(w)
  <2>1. PICK W \in WorkerType : worker' = [worker EXCEPT ![w] = W] /\ W.at \in {"judge", "idle"}
    BY <1>1, <1>2, SkipIs
  <2> QED BY <1>1, <2>1, EmptyHeldKeeps
<1>3. CASE worker' = [worker EXCEPT ![w].at = "judge", ![w].left = MaxPerRun]
  <2>1. PICK W : W = [worker[w] EXCEPT !.at = "judge", !.left = MaxPerRun]
    OBVIOUS
  <2>2. W.at = "judge" /\ worker' = [worker EXCEPT ![w] = W]
    BY <1>1, <1>3, <2>1, WorkerTyped DEF WorkerType, TypeOK
  <2> QED BY <1>1, <2>2, EmptyHeldKeeps
<1> QED BY <1>2, <1>3 DEF Read

\* A claim that is answered is still a claim.
LEMMA JudgeHeld == ASSUME IInv, LockInv, NEW w \in Workers, Judge(w) PROVE LockInv'
<1>1. /\ TypeOK /\ Live(worker[w]) /\ results' = results /\ marker' = marker /\ lapses' = lapses
      /\ lapses = 0 => lock' = w
  BY OnlyOne DEF Judge, IInv, board, Live, At
<1>2. CASE Skip(w)
  <2>1. PICK W \in WorkerType : worker' = [worker EXCEPT ![w] = W] /\ W.at \in {"judge", "idle"}
    BY <1>1, <1>2, SkipIs
  <2> QED BY <1>1, <2>1, EmptyHeldKeeps
<1>3. CASE ~Skip(w)
  <2>1. PICK v : v = Verdict(Current(w), worker[w].now)
    OBVIOUS
  <2>2. /\ v.at # "judge"
        /\ worker' = [worker EXCEPT ![w].at = v.at, ![w].row = v.row, ![w].left = @ - 1]
    BY <1>3, <2>1 DEF Judge
  <2>3. \/ v = [at |-> "refuse", row |-> "REFUSED"]
        \/ v = [at |-> "claim", row |-> "none"]
        \/ v = [at |-> "answer", row |-> "UNKNOWN"] /\ marker[Current(w)] = "claimed"
    BY <2>1, <2>2 DEF Verdict
  <2>4. PICK W : W = [worker[w] EXCEPT !.at = v.at, !.row = v.row, !.left = @ - 1]
    OBVIOUS
  <2>5. W.at = v.at /\ W.i = worker[w].i /\ worker' = [worker EXCEPT ![w] = W]
    BY <1>1, <2>2, <2>4, WorkerTyped DEF WorkerType, TypeOK
  <2>6. /\ W.at \in {"refuse", "claim", "answer"}
        /\ W.at = "answer" => marker'[Req(W)] = "claimed"
    BY <1>1, <2>3, <2>5 DEF Req, Current
  <2>7. lapses = 0 => Held(w, W)
    BY <1>1, <2>6 DEF Held, Preparing, Writing
  <2>8. lapses = 0 => ResultOnce' /\ \A u \in Workers \ {w} : ~Live(worker[u])
    BY <1>1, OnlyOne DEF ResultOnce
  <2> QED BY <1>1, <2>5, <2>7, <2>8, HeldKeeps
<1> QED BY <1>2, <1>3

\* Setting a marker: what is held afterwards.
LEMMA MarkHeld ==
    ASSUME IInv, LockInv, NEW w \in Workers, Live(worker[w]), NEW s \in Steps, NEW m \in Markers,
           NEW r, r = Current(w), Mark(w, m, s),
           lapses = 0 =>
             \A W : W.at = s /\ W.i = worker[w].i /\ W.row = worker[w].row =>
               /\ Preparing(W) \/ W.at = "answer" => m = "claimed"
               /\ Writing(W) => results[r] = <<>>
    PROVE  LockInv'
<1>1. PICK W \in WorkerType : Marked(w, W, r, m, s)
  BY MarkIs DEF IInv
<1>2. /\ worker' = [worker EXCEPT ![w] = W] /\ results' = results /\ lapses' = lapses
      /\ lapses = 0 => lock' = w
  BY <1>1, OnlyOne DEF Marked, board
<1>3. CASE W.at \in {"judge", "idle"}
  BY <1>2, <1>3, EmptyHeldKeeps
<1>4. CASE W.at = s /\ W.i = worker[w].i /\ W.row = worker[w].row /\ marker'[r] = m
  <2>1. Req(W) = r
    BY <1>4 DEF Req, Current
  <2>2. lapses = 0 => Held(w, W)
    BY <1>2, <1>4, <2>1 DEF Held
  <2>3. lapses = 0 => ResultOnce' /\ \A v \in Workers \ {w} : ~Live(worker[v])
    BY <1>2, OnlyOne DEF ResultOnce
  <2> QED BY <1>2, <2>2, <2>3, HeldKeeps
<1> QED BY <1>1, <1>3, <1>4 DEF Marked

\* A refusal finds no row.
LEMMA RefuseHeld == ASSUME IInv, LockInv, NEW w \in Workers, Refuse(w) PROVE LockInv'
<1>1. PICK r : r = Current(w)
  OBVIOUS
<1>2. /\ TypeOK /\ Live(worker[w]) /\ worker[w].row = "REFUSED" /\ RequestOK(r)
  BY <1>1, WorkerTyped DEF Refuse, IInv, Live, At, WorkerOK
<1>3. CASE marker[r] # "none"
  <2>1. Skip(w) /\ lapses' = lapses /\ results' = results /\ lock' = lock
    BY <1>1, <1>3 DEF Refuse, board
  <2>2. PICK W \in WorkerType : worker' = [worker EXCEPT ![w] = W] /\ W.at \in {"judge", "idle"}
    BY <1>2, <2>1, SkipIs
  <2> QED BY <1>2, <2>1, <2>2, EmptyHeldKeeps, OnlyOne
<1>4. CASE marker[r] = "none"
  <2>1. Mark(w, "answering", "renew") /\ results[r] = <<>>
    BY <1>1, <1>2, <1>4 DEF Refuse, RequestOK
  <2>2. "renew" \in Steps /\ "answering" \in Markers
    BY DEF Steps, Markers
  <2>3. \A W : W.at = "renew" /\ W.i = worker[w].i /\ W.row = worker[w].row
                  => ~Preparing(W) /\ W.at # "answer"
    BY <1>2 DEF Preparing
  <2> QED BY <1>1, <1>2, <2>1, <2>2, <2>3, MarkHeld
<1> QED BY <1>3, <1>4

\* A claim is marked.
LEMMA ClaimHeld == ASSUME IInv, LockInv, NEW w \in Workers, Claim(w) PROVE LockInv'
<1>1. PICK r : r = Current(w)
  OBVIOUS
<1>2. TypeOK /\ Live(worker[w])
  BY DEF Claim, IInv, Live, At
<1>3. CASE marker[r] # "none"
  <2>1. Go(w, "judge") /\ lapses' = lapses /\ results' = results /\ lock' = lock
    BY <1>1, <1>3 DEF Claim, board
  <2>2. PICK W \in WorkerType : worker' = [worker EXCEPT ![w] = W] /\ W.at = "judge"
    BY <1>2, <2>1, GoIs DEF Steps
  <2> QED BY <1>2, <2>1, <2>2, EmptyHeldKeeps, OnlyOne
<1>4. CASE marker[r] = "none"
  <2>1. PICK s \in {"receipt", "run"} : Mark(w, "claimed", s)
    BY <1>1, <1>4 DEF Claim
  <2>2. s \in Steps /\ "claimed" \in Markers
    BY DEF Steps, Markers
  <2>3. \A W : W.at = s => ~Writing(W)
    BY DEF Writing
  <2> QED BY <1>1, <1>2, <2>1, <2>2, <2>3, MarkHeld
<1> QED BY <1>3, <1>4

\* An answer finds a claim, so no row.
LEMMA AnswerHeld == ASSUME IInv, LockInv, NEW w \in Workers, Answer(w) PROVE LockInv'
<1>1. PICK r : r = Current(w)
  OBVIOUS
<1>2. /\ TypeOK /\ Live(worker[w]) /\ worker[w].at = "answer" /\ RequestOK(r) /\ r = Req(worker[w])
      /\ worker[w].row \in {"OK", "UNKNOWN"} /\ Mark(w, "answering", "renew")
  BY <1>1, WorkerTyped DEF Answer, IInv, Live, At, WorkerOK
<1>3. lapses = 0 => results[r] = <<>>
  BY <1>2 DEF LockInv, Alone, RequestOK
<1>4. "renew" \in Steps /\ "answering" \in Markers
  BY DEF Steps, Markers
<1>5. \A W : W.at = "renew" /\ W.i = worker[w].i /\ W.row = worker[w].row => ~Preparing(W) /\ W.at # "answer"
  BY <1>2 DEF Preparing
<1> QED BY <1>1, <1>2, <1>3, <1>4, <1>5, MarkHeld

\* The receipt and the run: the marker stays claimed.
LEMMA PrepareHeld == ASSUME IInv, LockInv, NEW w \in Workers, Receipt(w) \/ Run(w) PROVE LockInv'
<1>1. /\ TypeOK /\ Live(worker[w]) /\ Preparing(worker[w]) /\ worker[w] \in WorkerType
      /\ UNCHANGED <<marker, board, lock, lapses>>
  BY WorkerTyped DEF Receipt, Run, IInv, Live, At, Preparing
<1>2. PICK W : /\ worker' = [worker EXCEPT ![w] = W]
               /\ \/ W = [worker[w] EXCEPT !.at = "renew", !.row = "RECEIPT"]
                  \/ W = [worker[w] EXCEPT !.at = "run"]
                  \/ W = [worker[w] EXCEPT !.at = "answer", !.row = "OK"]
  BY <1>1 DEF Receipt, Run, Go, TypeOK
<1>3. W.i = worker[w].i /\ ~Writing(W)
  BY <1>1, <1>2 DEF WorkerType, Writing, Rows
<1>4. ASSUME lapses = 0
      PROVE  (\A v \in Workers \ {w} : ~Live(worker[v])) /\ ResultOnce' /\ Held(w, W)
  <2>1. /\ lock = w /\ ResultOnce /\ marker[Req(worker[w])] = "claimed"
        /\ \A v \in Workers \ {w} : ~Live(worker[v])
    BY <1>1, <1>4, OnlyOne DEF Alone
  <2>2. ResultOnce'
    BY <1>1, <2>1 DEF ResultOnce, board
  <2>3. Held(w, W)
    BY <1>1, <1>3, <2>1 DEF Held, Req
  <2> QED BY <2>1, <2>2, <2>3
<1> QED BY <1>1, <1>2, <1>4, HeldKeeps

\* The renewal keeps the lock.
LEMMA RenewHeld == ASSUME IInv, LockInv, NEW w \in Workers, Renew(w) PROVE LockInv'
<1>1. /\ TypeOK /\ Live(worker[w]) /\ worker[w].at = "renew" /\ UNCHANGED <<marker, board, lapses>>
      /\ results' = results /\ (lapses = 0 => lock' = w)
  BY RenewedHeld DEF Renew, IInv, board, Live, At
<1>2. CASE EndPass(w)
  <2>1. PICK W \in WorkerType : worker' = [worker EXCEPT ![w] = W] /\ W.at \in {"judge", "idle"}
    BY <1>1, <1>2, SkipIs
  <2> QED BY <1>1, <2>1, EmptyHeldKeeps
<1>3. CASE Go(w, "append")
  <2>1. PICK W \in WorkerType : /\ worker' = [worker EXCEPT ![w] = W]
                                /\ W.at = "append" /\ W.i = worker[w].i /\ W.row = worker[w].row
    BY <1>1, <1>3, GoIs DEF Steps
  <2>2. /\ Req(W) = Req(worker[w]) /\ (Preparing(W) <=> Preparing(worker[w]))
        /\ (Writing(W) <=> Writing(worker[w]))
    BY <1>1, <2>1 DEF Req, Preparing, Writing
  <2>3. lapses = 0 => /\ \A v \in Workers \ {w} : ~Live(worker[v])
                      /\ ResultOnce' /\ Held(w, W)
    BY <1>1, <2>1, <2>2, OnlyOne DEF Alone, Held, ResultOnce
  <2> QED BY <1>1, <2>1, <2>3, HeldKeeps
<1> QED BY <1>2, <1>3 DEF Renew

\* The row is the first.
LEMMA AppendHeld == ASSUME IInv, LockInv, NEW w \in Workers, Append1(w) PROVE LockInv'
<1>1. PICK r, x : r = Current(w) /\ x = worker[w].row
  OBVIOUS
<1>2. /\ TypeOK /\ Live(worker[w]) /\ worker[w].at = "append" /\ x \in Rows \cup {"RECEIPT"}
      /\ r = Req(worker[w]) /\ r \in Requests /\ UNCHANGED <<marker, lock, lapses>>
  BY <1>1, WorkerTyped DEF Append1, IInv, Live, At, WorkerOK
<1>3. PICK W \in WorkerType :
          /\ worker' = [worker EXCEPT ![w] = W]
          /\ \/ W.at \in {"judge", "idle"}
             \/ W.i = worker[w].i /\ W.at = IF x = "RECEIPT" THEN "run" ELSE "done"
  <2>1. CASE EndPass(w)
    BY <1>2, <2>1, SkipIs
  <2>2. CASE Go(w, IF x = "RECEIPT" THEN "run" ELSE "done")
    BY <1>2, <2>2, GoIs DEF Steps
  <2> QED BY <1>1, <2>1, <2>2 DEF Append1
<1>4. results' = results \/ (x # "RECEIPT" /\ results' = [results EXCEPT ![r] = Append(@, x)])
  BY <1>1 DEF Append1, board
<1>5. ASSUME lapses = 0
      PROVE  (\A v \in Workers \ {w} : ~Live(worker[v])) /\ ResultOnce' /\ Held(w, W)
  <2>1. /\ lock = w /\ ResultOnce /\ \A v \in Workers \ {w} : ~Live(worker[v])
        /\ x = "RECEIPT" => marker[r] = "claimed"
        /\ x # "RECEIPT" => results[r] = <<>>
    BY <1>1, <1>2, <1>5, OnlyOne DEF Alone, Preparing, Writing
  <2>2. x # "RECEIPT" => Len(Append(results[r], x)) = 1
    BY <1>2, <2>1, OneMore DEF TypeOK
  <2>3. ResultOnce'
    <3>1. CASE results' = results
      BY <2>1, <3>1 DEF ResultOnce
    <3>2. CASE x # "RECEIPT" /\ results' = [results EXCEPT ![r] = Append(@, x)]
      <4>1. results'[r] = Append(results[r], x) /\ \A q \in Requests \ {r} : results'[q] = results[q]
        BY <1>2, <3>2 DEF TypeOK
      <4>2. Len(results'[r]) <= 1
        BY <2>2, <3>2, <4>1
      <4> QED BY <2>1, <4>1, <4>2 DEF ResultOnce
    <3> QED BY <1>4, <3>1, <3>2
  <2>4. Held(w, W)
    BY <1>2, <1>3, <2>1 DEF Held, Preparing, Writing, Req
  <2> QED BY <2>1, <2>3, <2>4
<1> QED BY <1>2, <1>3, <1>5, HeldKeeps

\* The marker after the row, under the lock.
LEMMA DoneHeld == ASSUME IInv, LockInv, NEW w \in Workers, Done(w) PROVE LockInv'
<1>1. /\ TypeOK /\ Live(worker[w]) /\ Skip(w) /\ lapses' = lapses /\ results' = results /\ lock' = lock
  BY DEF Done, IInv, board, Live, At
<1>2. PICK W \in WorkerType : worker' = [worker EXCEPT ![w] = W] /\ W.at \in {"judge", "idle"}
  BY <1>1, SkipIs
<1> QED BY <1>1, <1>2, EmptyHeldKeeps, OnlyOne

\* An execution ends, another is launched.
LEMMA EndHeld == ASSUME IInv, LockInv, NEW w \in Workers, Stop(w) \/ Die(w) \/ Launch(w) PROVE LockInv'
<1>1. TypeOK /\ results' = results /\ marker' = marker /\ lapses' = lapses
  BY DEF Stop, Die, Launch, IInv, board
<1>2. PICK W \in WorkerType : worker' = [worker EXCEPT ![w] = W] /\ W.at \in {"over", "waiting"}
  <2>1. "over" \in Steps /\ "waiting" \in Steps
    BY DEF Steps
  <2>2. CASE Stop(w)
    BY <1>1, <2>1, <2>2, GoIs DEF Stop
  <2>3. CASE Launch(w)
    BY <1>1, <2>1, <2>3, GoIs DEF Launch
  <2>4. CASE Die(w)
    BY <2>1, <2>4, WaitingTyped DEF Die
  <2> QED BY <2>2, <2>3, <2>4
<1>3. CASE Stop(w) \/ Die(w)
  <2>1. Live(worker[w]) /\ ~Live(W)
    BY <1>2, <1>3 DEF Stop, Die, At, Live
  <2> QED BY <1>1, <1>2, <2>1, EmptyHeldKeeps
<1>4. CASE Launch(w)
  <2>1. worker'[w] = W /\ (\A v \in Workers \ {w} : worker'[v] = worker[v]) /\ lock' = lock
    BY <1>1, <1>2, <1>4 DEF TypeOK, Launch
  <2>2. \A v \in Workers : Alone(v) => Alone(v)'
    BY <1>1, <1>2, <2>1 DEF Alone, Live, Preparing, Writing, Req
  <2> QED BY <1>1, <2>2 DEF LockInv, ResultOnce
<1> QED BY <1>3, <1>4

\* A lock that lapses was that of a dead execution, or it counts.
LEMMA TimeHeld ==
    ASSUME IInv, LockInv, \/ LapseOfDead \/ Lapse \/ UNCHANGED vars
                          \/ \E r \in Requests : Stale(r) \/ Grace(r)
    PROVE  LockInv'
<1>1. UNCHANGED <<marker, results, worker>>
  BY DEF LapseOfDead, Lapse, vars, Stale, Grace, board
<1>2. CASE LapseOfDead
  <2>1. lapses = 0 => \A v \in Workers : ~Live(worker[v])
    BY <1>2 DEF LapseOfDead, LockInv, Alone, Live
  <2> QED BY <1>1, <1>2, <2>1 DEF LapseOfDead, LockInv, Alone, Live, ResultOnce
<1>3. CASE Lapse
  BY <1>3 DEF Lapse, LockInv, IInv, TypeOK
<1>4. CASE UNCHANGED vars \/ \E r \in Requests : Stale(r) \/ Grace(r)
  <2>1. lock' = lock /\ lapses' = lapses
    BY <1>4 DEF vars, Stale, Grace
  <2> QED BY <1>1, <2>1 DEF LockInv, Alone, Live, Preparing, Writing, Req, ResultOnce
<1> QED BY <1>2, <1>3, <1>4

\* No execution lives at the start.
LEMMA InitHeld == Init => LockInv
  BY DEF Init, LockInv, Alone, Live, Waiting, ResultOnce

\* Every step keeps to the lock.
LEMMA NextHeld == IInv /\ LockInv /\ [Next]_vars => LockInv'
<1> SUFFICES ASSUME IInv, LockInv, [Next]_vars PROVE LockInv'
  OBVIOUS
<1>1. ASSUME NEW w \in Workers, Step(w) PROVE LockInv'
  BY <1>1, TakeHeld, KeepHeld, ReadHeld, JudgeHeld, RefuseHeld, ClaimHeld, PrepareHeld,
     AnswerHeld, RenewHeld, AppendHeld, DoneHeld DEF Step
<1>2. ASSUME NEW w \in Workers, Stop(w) \/ Die(w) \/ Launch(w) PROVE LockInv'
  BY <1>2, EndHeld
<1> QED BY <1>1, <1>2, TimeHeld DEF Next

\* As long as no lock lapsed under an execution that lived, a request has one RESULT row
\* at most: whatever dies, and whichever reply is lost.
THEOREM RequestsAnsweredOnce == Spec => []ResultOnceUnderLock
<1>1. LockInv => ResultOnceUnderLock
  BY DEF LockInv, ResultOnceUnderLock
<1> QED BY <1>1, InitHeld, NextHeld, InductiveInvariant, PTL DEF Spec
=============================================================================
