--------------------------- MODULE AgentWakerProofs ---------------------------
(***************************************************************************)
(* Proofs about the waker, for any asks, runs and bounds.  That no ask is  *)
(* answered twice rests on where the trace of a past append is kept: while *)
(* nobody knows how it ended it is the posting claim, afterwards a settled *)
(* id, and a run whose copy is current agrees with the cursor about the    *)
(* row it is working on.                                                   *)
(***************************************************************************)
EXTENDS AgentWaker, TLAPS

\* What a run is working on.
Working == {"model", "written", "posting", "sent"}
AtWork == \A r \in Runs : run[r].stage \in Working =>
              run[r].ask \in Asks /\ run[r].rows < MaxRows

\* A claim is never on an ask that is settled.
ClaimNotSettled == cursor.inflight \notin Settled(cursor)

Unresolved(a) == cursor.inflight = a /\ cursor.phase = "posting"

\* The trace of a dispatched append.
SentIsRecorded == \A a \in Asks : sent[a] > 0 => a \in Settled(cursor) \/ Unresolved(a)

RepliesWereSent == \A a \in Asks : a \in wire \cup landed => sent[a] > 0

\* A run about to append is the first, and the only one.
PostingIsFirst ==
    \A r \in Runs : run[r].stage = "posting" =>
        /\ sent[run[r].ask] = 0
        /\ run[r].ask \in cursor.unknown \/ Unresolved(run[r].ask)
        /\ \A s \in Runs \ {r} : run[s].stage = "posting" => run[s].ask # run[r].ask

\* A current copy agrees with the cursor about the row the run works on.
Holds(R, c) ==
    /\ R.stage \in {"model", "written"} => c.inflight = R.ask /\ c.phase = "claimed"
    /\ R.stage \in {"posting", "sent"} => c.inflight = R.ask /\ c.phase = "posting"
FreshHoldsClaim == \A r \in Runs : run[r].fresh => Holds(run[r], cursor)

IInv ==
    /\ TypeOK /\ AtWork
    /\ ClaimNotSettled /\ SentIsRecorded /\ RepliesWereSent
    /\ PostingIsFirst /\ FreshHoldsClaim
    /\ AtMostOneReply /\ AnsweredMeansVisible

-----------------------------------------------------------------------------
(* The operators of the cursor.                                            *)

LEMMA Ends0 == \A n \in Nat : 0 \in 0..n /\ n \in 0..n
  OBVIOUS

LEMMA ZeroAndEnds ==
    0 \in Times /\ 0 \in Leases /\ ClaimLease \in Leases /\ PostLease \in Leases
<1>1. ClaimLease \in Nat /\ PostLease \in Nat /\ MaxTime \in Nat
  BY TimesAssumption
<1> QED
  BY <1>1, Ends0 DEF Times, Leases

LEMMA CursorOps ==
    ASSUME NEW c \in CursorType, NEW a \in Asks
    PROVE  /\ Cleared(c) \in CursorType
           /\ Cleared(c).inflight = NoAsk /\ Cleared(c).phase = ""
           /\ Cleared(c).answered = c.answered /\ Cleared(c).unknown = c.unknown
           /\ MarkAnswered(c, a) \in CursorType
           /\ MarkAnswered(c, a).inflight = NoAsk /\ MarkAnswered(c, a).phase = ""
           /\ MarkAnswered(c, a).answered = c.answered \cup {a}
           /\ MarkAnswered(c, a).unknown = c.unknown
           /\ Quarantine(c, a) \in CursorType
           /\ Quarantine(c, a).inflight = NoAsk /\ Quarantine(c, a).phase = ""
           /\ Quarantine(c, a).answered = c.answered
           /\ Quarantine(c, a).unknown = c.unknown \cup {a}
           /\ WritePosting(c) \in CursorType
           /\ WritePosting(c).inflight = c.inflight /\ WritePosting(c).phase = "posting"
           /\ WritePosting(c).answered = c.answered /\ WritePosting(c).unknown = c.unknown
<1> USE DEF CursorType, Leases, Times
<1>1. 0 \in Times /\ 0 \in Leases /\ PostLease \in Leases
  BY ZeroAndEnds
<1>2. Cleared(c) \in CursorType
  BY <1>1 DEF Cleared
<1>3. MarkAnswered(c, a) \in CursorType
  BY <1>1 DEF Cleared, MarkAnswered
<1>4. Quarantine(c, a) \in CursorType
  BY <1>1 DEF Cleared, Quarantine
<1>5. WritePosting(c) \in CursorType
  BY <1>1, TimesAssumption DEF WritePosting
<1> QED
  BY <1>2, <1>3, <1>4, <1>5 DEF Cleared, MarkAnswered, Quarantine, WritePosting

LEMMA ClaimOp ==
    ASSUME NEW c \in CursorType, NEW a \in Asks, NEW o \in Owners \cup {Nobody}
    PROVE  /\ WriteClaim(c, a, o) \in CursorType
           /\ WriteClaim(c, a, o).inflight = a /\ WriteClaim(c, a, o).phase = "claimed"
           /\ WriteClaim(c, a, o).answered = c.answered
           /\ WriteClaim(c, a, o).unknown = c.unknown
<1>1. ClaimLease \in Leases
  BY ZeroAndEnds
<1> QED
  BY <1>1 DEF CursorType, WriteClaim

\* What a save and a step without one leave of the runs.
LEMMA SaveFacts ==
    ASSUME NEW r \in Runs, NEW R \in RunType, NEW c, run \in [Runs -> RunType],
           Save(r, c, R)
    PROVE  /\ run' \in [Runs -> RunType]
           /\ cursor' = c /\ run'[r] = R /\ run[r].fresh
           /\ \A s \in Runs \ {r} :
                 /\ run'[s].stage = run[s].stage /\ run'[s].ask = run[s].ask
                 /\ run'[s].rows = run[s].rows /\ run'[s].newest = run[s].newest
                 /\ run'[s].me = run[s].me /\ run'[s].queue = run[s].queue
                 /\ run'[s].fresh => run[s].fresh /\ c = cursor /\ run'[s] = run[s]
  BY DEF Save, RunType

LEMMA BecomeFacts ==
    ASSUME NEW r \in Runs, NEW R \in RunType, run \in [Runs -> RunType], Become(r, R)
    PROVE  /\ run' \in [Runs -> RunType]
           /\ cursor' = cursor /\ run'[r] = R
           /\ \A s \in Runs \ {r} : run'[s] = run[s]
  BY DEF Become

LEMMA SkipFacts ==
    ASSUME NEW R \in RunType, NEW a \in Asks, ts \in [Asks -> Times], R.rows < MaxRows
    PROVE  Skip(R, a) \in RunType /\ Skip(R, a).stage = "picking"
           /\ Skip(R, a).fresh = R.fresh /\ Skip(R, a).ask = NoAsk
           /\ Skip(R, a).newest = R.newest
<1>1. R.rows + 1 \in 0..MaxRows
  BY BoundsAssumption DEF RunType
<1>2. (IF R.floor = 0 \/ ts[a] < R.floor THEN ts[a] ELSE R.floor) \in Times
  BY DEF RunType
<1>3. R.queue \ {a} \in SUBSET Asks /\ "picking" \in Stages
  BY DEF RunType, Stages
<1> QED
  BY <1>1, <1>2, <1>3 DEF Skip, RunType

LEMMA OffFacts == Off \in RunType /\ Off.stage = "off" /\ ~Off.fresh
  BY BoundsAssumption, TimesAssumption DEF Off, RunType, Stages, Times

LEMMA HeldFacts ==
    ASSUME NEW R \in RunType, NEW old \in Times
    PROVE  Held(R, old) \in Times
  BY TimesAssumption DEF Held, Later, RunType, Times
LEMMA RunFields ==
    ASSUME NEW R \in RunType
    PROVE  /\ R.stage \in Stages /\ R.me \in Owners \cup {Nobody} /\ R.fresh \in BOOLEAN
           /\ R.queue \subseteq Asks /\ R.rows \in 0..MaxRows /\ R.ask \in Asks \cup {NoAsk}
           /\ R.newest \in Times /\ R.floor \in Times
  BY DEF RunType

LEMMA CursorFields ==
    ASSUME NEW c \in CursorType
    PROVE  /\ c.watermark \in Times /\ c.answered \subseteq Asks /\ c.unknown \subseteq Asks
           /\ c.inflight \in Asks \cup {NoAsk} /\ c.owner \in Owners \cup {Nobody}
           /\ c.until \in Leases /\ c.phase \in {"", "claimed", "posting"}
  BY DEF CursorType

-----------------------------------------------------------------------------
(* The invariant.                                                          *)

LEMMA InitInv == Init => IInv
<1> SUFFICES ASSUME Init PROVE IInv
  OBVIOUS
<1>1. 0 \in Times /\ 0 \in Leases /\ 1 \in Times /\ 1 \in 1..MaxTime
  BY ZeroAndEnds, TimesAssumption DEF Times
<1>2. cursor \in CursorType
  BY <1>1 DEF Init, CursorType
<1>3. run \in [Runs -> RunType] /\ \A r \in Runs : run[r].stage = "off" /\ ~run[r].fresh
  BY OffFacts DEF Init
<1>4. crashes \in 0..MaxCrashes
  BY Ends0, BoundsAssumption DEF Init
<1>5. sent \in [Asks -> Nat] /\ ts \in [Asks -> Times]
  BY <1>1 DEF Init
<1>6. TypeOK
  BY <1>1, <1>2, <1>3, <1>4, <1>5 DEF Init, TypeOK
<1>7. AtWork /\ PostingIsFirst /\ FreshHoldsClaim
  BY <1>3 DEF AtWork, Working, PostingIsFirst, FreshHoldsClaim
<1>8. ClaimNotSettled
  BY DEF Init, ClaimNotSettled, Settled
<1>9. SentIsRecorded /\ RepliesWereSent /\ AtMostOneReply /\ AnsweredMeansVisible
  <2>1. \A a \in Asks : ~(sent[a] > 0) /\ sent[a] <= 1
    <3>1. \A a \in Asks : sent[a] = 0
      BY DEF Init
    <3> QED BY <3>1
  <2>2. wire = {} /\ landed = {} /\ cursor.answered = {}
    BY DEF Init
  <2> QED
    BY <2>1, <2>2
       DEF SentIsRecorded, RepliesWereSent, AtMostOneReply, AnsweredMeansVisible
<1> QED
  BY <1>6, <1>7, <1>8, <1>9 DEF IInv

\* What a save must respect for the invariant to survive it.
SaveOK(r, c, R) ==
    /\ c \in CursorType /\ R \in RunType
    /\ (c.inflight = NoAsk) <=> (c.phase = "")
    /\ R.stage \in Working => R.ask \in Asks /\ R.rows < MaxRows
    /\ c.inflight \notin Settled(c)
    /\ cursor.unknown \subseteq c.unknown /\ cursor.answered \subseteq c.answered
    /\ c.answered \subseteq landed
    /\ cursor.phase = "posting" =>
         \/ c.inflight = cursor.inflight /\ c.phase = "posting"
         \/ cursor.inflight \in c.unknown
         \/ cursor.inflight \in c.answered /\ sent[cursor.inflight] > 0
    /\ Holds(R, c)
    /\ R.stage = "posting" =>
         /\ sent[R.ask] = 0
         /\ \A s \in Runs \ {r} : run[s].stage = "posting" => run[s].ask # R.ask

LEMMA SaveKeeps ==
    ASSUME IInv, NEW r \in Runs, NEW c, NEW R, SaveOK(r, c, R), Save(r, c, R),
           UNCHANGED <<ts, sent, wire, landed, clock, crashes>>, tried' \subseteq Asks
    PROVE  IInv'
<1>1. /\ TypeOK /\ AtWork /\ ClaimNotSettled /\ SentIsRecorded /\ RepliesWereSent
      /\ PostingIsFirst /\ FreshHoldsClaim /\ AtMostOneReply /\ AnsweredMeansVisible
  BY DEF IInv
<1>2. run \in [Runs -> RunType] /\ cursor \in CursorType
  BY <1>1 DEF TypeOK
<1>3. /\ c \in CursorType /\ R \in RunType
      /\ run' \in [Runs -> RunType] /\ cursor' = c /\ run'[r] = R
      /\ \A s \in Runs \ {r} :
            /\ run'[s].stage = run[s].stage /\ run'[s].ask = run[s].ask
            /\ run'[s].rows = run[s].rows
            /\ run'[s].fresh => run[s].fresh /\ c = cursor
  <2>1. c \in CursorType /\ R \in RunType
    BY DEF SaveOK
  <2> QED
    BY <1>2, <2>1, SaveFacts
<1>4. TypeOK'
  BY <1>1, <1>3 DEF TypeOK, SaveOK
<1>5. AtWork'
  BY <1>1, <1>3 DEF AtWork, SaveOK
<1>6. ClaimNotSettled'
  BY <1>3 DEF ClaimNotSettled, SaveOK, Settled
<1>7. SentIsRecorded'
  BY <1>1, <1>3 DEF SentIsRecorded, SaveOK, Settled, Unresolved
<1>8. RepliesWereSent' /\ AtMostOneReply'
  BY <1>1 DEF RepliesWereSent, AtMostOneReply
<1>9. AnsweredMeansVisible'
  BY <1>3 DEF AnsweredMeansVisible, SaveOK
<1>10. FreshHoldsClaim'
  <2> SUFFICES ASSUME NEW s \in Runs, run'[s].fresh PROVE Holds(run'[s], cursor')
    BY DEF FreshHoldsClaim
  <2>1. CASE s = r
    BY <2>1, <1>3 DEF SaveOK
  <2>2. CASE s # r
    BY <2>2, <1>1, <1>3 DEF FreshHoldsClaim, Holds
  <2> QED BY <2>1, <2>2
<1>11. PostingIsFirst'
  <2> SUFFICES ASSUME NEW s \in Runs, run'[s].stage = "posting"
               PROVE  /\ sent[run'[s].ask] = 0
                      /\ run'[s].ask \in c.unknown
                           \/ (c.inflight = run'[s].ask /\ c.phase = "posting")
                      /\ \A u \in Runs \ {s} :
                            run'[u].stage = "posting" => run'[u].ask # run'[s].ask
    BY <1>3 DEF PostingIsFirst, Unresolved
  <2>1. CASE s = r
    BY <2>1, <1>3 DEF SaveOK, Holds
  <2>2. CASE s # r
    <3>1. /\ run[s].stage = "posting" /\ run'[s].ask = run[s].ask /\ sent[run[s].ask] = 0
          /\ run[s].ask \in cursor.unknown \/ Unresolved(run[s].ask)
          /\ \A u \in Runs \ {s} : run[u].stage = "posting" => run[u].ask # run[s].ask
      BY <2>2, <1>1, <1>3 DEF PostingIsFirst
    <3>2. run[s].ask \in c.unknown \/ (c.inflight = run[s].ask /\ c.phase = "posting")
      <4>1. CASE run[s].ask \in cursor.unknown
        BY <4>1 DEF SaveOK
      <4>2. CASE cursor.inflight = run[s].ask /\ cursor.phase = "posting"
        <5>1. ~(sent[cursor.inflight] > 0)
          BY <3>1, <4>2
        <5> QED BY <4>2, <5>1 DEF SaveOK
      <4> QED BY <3>1, <4>1, <4>2 DEF Unresolved
    <3>3. \A u \in Runs \ {s} : run'[u].stage = "posting" => run'[u].ask # run[s].ask
      BY <3>1, <2>2, <1>3 DEF SaveOK
    <3> QED BY <3>1, <3>2, <3>3
  <2> QED BY <2>1, <2>2
<1> QED
  BY <1>4, <1>5, <1>6, <1>7, <1>8, <1>9, <1>10, <1>11 DEF IInv

\* And a step of a run that saves nothing and sends nothing.
BecomeOK(r, R) ==
    /\ R \in RunType
    /\ R.stage # "posting"
    /\ R.stage \in Working => R.ask \in Asks /\ R.rows < MaxRows
    /\ R.fresh => Holds(R, cursor)

LEMMA BecomeKeeps ==
    ASSUME IInv, NEW r \in Runs, NEW R, BecomeOK(r, R), Become(r, R),
           UNCHANGED <<ts, sent, wire, landed, clock, tried>>, crashes' \in 0..MaxCrashes
    PROVE  IInv'
<1>1. /\ TypeOK /\ AtWork /\ ClaimNotSettled /\ SentIsRecorded /\ RepliesWereSent
      /\ PostingIsFirst /\ FreshHoldsClaim /\ AtMostOneReply /\ AnsweredMeansVisible
  BY DEF IInv
<1>2. run \in [Runs -> RunType]
  BY <1>1 DEF TypeOK
<1>3. /\ run' \in [Runs -> RunType] /\ cursor' = cursor /\ run'[r] = R
      /\ \A s \in Runs \ {r} : run'[s] = run[s]
  BY <1>2, BecomeFacts DEF BecomeOK
<1>4. TypeOK'
  BY <1>1, <1>3 DEF TypeOK
<1>5. AtWork'
  BY <1>1, <1>3 DEF AtWork, BecomeOK
<1>6. ClaimNotSettled' /\ SentIsRecorded' /\ RepliesWereSent'
  BY <1>1, <1>3 DEF ClaimNotSettled, SentIsRecorded, RepliesWereSent, Settled, Unresolved
<1>7. PostingIsFirst'
  BY <1>1, <1>3 DEF PostingIsFirst, BecomeOK, Unresolved
<1>8. FreshHoldsClaim'
  BY <1>1, <1>3 DEF FreshHoldsClaim, BecomeOK, Holds
<1>9. AtMostOneReply' /\ AnsweredMeansVisible'
  BY <1>1, <1>3 DEF AtMostOneReply, AnsweredMeansVisible
<1> QED
  BY <1>4, <1>5, <1>6, <1>7, <1>8, <1>9 DEF IInv

-----------------------------------------------------------------------------
(* One step per action.                                                    *)

LEMMA StepFields ==
    ASSUME TypeOK, NEW r \in Runs
    PROVE  run[r] \in RunType /\ cursor \in CursorType
  BY DEF TypeOK

\* A run's record with a new stage.
LEMMA StageFacts ==
    ASSUME NEW R \in RunType, NEW g \in Stages
    PROVE  /\ [R EXCEPT !.stage = g] \in RunType
           /\ [R EXCEPT !.stage = g].stage = g
           /\ [R EXCEPT !.stage = g].fresh = R.fresh
           /\ [R EXCEPT !.stage = g].ask = R.ask
           /\ [R EXCEPT !.stage = g].rows = R.rows
  BY DEF RunType

LEMMA OffOK == ASSUME NEW r \in Runs PROVE BecomeOK(r, Off)
  BY OffFacts DEF BecomeOK, Working

LEMMA StartKeeps == ASSUME IInv, NEW r \in Runs, Start(r) PROVE IInv'
<1>1. PICK me \in Owners : Become(r, [Off EXCEPT !.stage = "loaded", !.me = me, !.fresh = TRUE])
  BY DEF Start
<1> DEFINE R == [Off EXCEPT !.stage = "loaded", !.me = me, !.fresh = TRUE]
<1>2. R \in RunType /\ R.stage = "loaded"
  BY OffFacts DEF RunType, Stages
<1> HIDE DEF R
<1>3. BecomeOK(r, R)
  BY <1>2 DEF BecomeOK, Working, Holds
<1>4. crashes' \in 0..MaxCrashes
  BY DEF Start, IInv, TypeOK
<1> QED
  BY <1>1, <1>3, <1>4, BecomeKeeps DEF Start, R

LEMMA CrashKeeps == ASSUME IInv, NEW r \in Runs, Crash(r) PROVE IInv'
<1>1. crashes' \in 0..MaxCrashes
  <2>1. crashes \in 0..MaxCrashes /\ crashes < MaxCrashes /\ crashes' = crashes + 1
    BY DEF Crash, IInv, TypeOK
  <2> QED BY <2>1, BoundsAssumption
<1> QED
  BY <1>1, OffOK, BecomeKeeps DEF Crash

\* A settled or released claim may be saved by any run that is not working.
LEMMA SettleOK ==
    ASSUME IInv, NEW r \in Runs, NEW c, NEW R, c \in CursorType, R \in RunType,
           R.stage \notin Working, c.inflight = NoAsk, c.phase = "",
           cursor.unknown \subseteq c.unknown, cursor.answered \subseteq c.answered,
           c.answered \subseteq landed,
           cursor.phase = "posting" =>
             \/ cursor.inflight \in c.unknown
             \/ cursor.inflight \in c.answered /\ sent[cursor.inflight] > 0
    PROVE  SaveOK(r, c, R)
<1>1. c.inflight \notin Settled(c)
  BY AsksAssumption, CursorFields DEF Settled
<1> QED
  BY <1>1 DEF SaveOK, Holds, Working

LEMMA ResolveKeeps == ASSUME IInv, NEW r \in Runs, Resolve(r) PROVE IInv'
<1> DEFINE a == cursor.inflight
           next == [run[r] EXCEPT !.stage = "gated"]
<1>1. run[r] \in RunType /\ cursor \in CursorType /\ (a = NoAsk <=> cursor.phase = "")
  BY DEF IInv, TypeOK
<1>2. next \in RunType /\ next.stage = "gated" /\ next.stage \notin Working
  BY <1>1, StageFacts DEF Stages, Working
<1>3. cursor.answered \subseteq landed /\ landed \subseteq Asks /\ a \notin Settled(cursor)
  BY DEF IInv, TypeOK, AnsweredMeansVisible, ClaimNotSettled
<1>4. tried' \subseteq Asks /\ crashes' \in 0..MaxCrashes
  BY DEF Resolve, IInv, TypeOK
<1> HIDE DEF next
<1>5. CASE a \in landed \cup cursor.answered
  <2>1. a \in Asks /\ a \in landed /\ sent[a] > 0
    BY <1>3, <1>5 DEF IInv, RepliesWereSent
  <2>2. SaveOK(r, MarkAnswered(cursor, a), next)
    <3>1. /\ MarkAnswered(cursor, a) \in CursorType
          /\ MarkAnswered(cursor, a).inflight = NoAsk /\ MarkAnswered(cursor, a).phase = ""
          /\ MarkAnswered(cursor, a).answered = cursor.answered \cup {a}
          /\ MarkAnswered(cursor, a).unknown = cursor.unknown
      BY <1>1, <2>1, CursorOps
    <3> QED BY <3>1, <1>2, <1>3, <2>1, SettleOK
  <2>3. Save(r, MarkAnswered(cursor, a), next)
    BY <1>5 DEF Resolve, next
  <2> QED BY <1>4, <2>2, <2>3, SaveKeeps DEF Resolve
<1>6. CASE a \notin landed \cup cursor.answered /\ cursor.phase = "posting"
  <2>1. a \in Asks
    BY <1>1, <1>6, CursorFields
  <2>2. SaveOK(r, Quarantine(cursor, a), next)
    BY <1>1, <1>2, <1>3, <2>1, CursorOps, SettleOK
  <2>3. Save(r, Quarantine(cursor, a), next)
    BY <1>6 DEF Resolve, next
  <2> QED BY <1>4, <2>2, <2>3, SaveKeeps DEF Resolve
<1>7. CASE a \notin landed \cup cursor.answered /\ cursor.phase # "posting"
  <2>1. Become(r, IF MustDefer(cursor) THEN Off ELSE next)
    BY <1>7 DEF Resolve, next
  <2>2. BecomeOK(r, next)
    BY <1>2 DEF BecomeOK, Holds
  <2>3. CASE MustDefer(cursor)
    BY <2>1, <2>3, OffOK, <1>4, BecomeKeeps DEF Resolve
  <2>4. CASE ~MustDefer(cursor)
    BY <2>1, <2>2, <2>4, <1>4, BecomeKeeps DEF Resolve
  <2> QED BY <2>3, <2>4
<1> QED BY <1>5, <1>6, <1>7

LEMMA ReadKeeps == ASSUME IInv, NEW r \in Runs, Read(r) PROVE IInv'
<1> DEFINE g == IF Pending(cursor) = {} THEN "empty" ELSE "picking"
           R == [run[r] EXCEPT !.stage = g, !.queue = Pending(cursor),
                               !.newest = cursor.watermark]
<1>1. run[r] \in RunType /\ cursor \in CursorType
  BY StepFields DEF IInv
<1>2. g \in Stages /\ g \notin Working /\ Pending(cursor) \subseteq Asks
  BY DEF Stages, Working, Pending
<1>3. cursor.watermark \in Times
  BY <1>1, CursorFields
<1> HIDE DEF g
<1>4. R \in RunType /\ R.stage = g
  BY <1>1, <1>2, <1>3 DEF RunType
<1> HIDE DEF R
<1>5. BecomeOK(r, R)
  BY <1>2, <1>4 DEF BecomeOK, Holds, Working
<1>6. Become(r, R) /\ crashes' \in 0..MaxCrashes
  BY DEF Read, R, g, IInv, TypeOK
<1> QED BY <1>5, <1>6, BecomeKeeps DEF Read

LEMMA StampKeeps == ASSUME IInv, NEW r \in Runs, Stamp(r) PROVE IInv'
<1> DEFINE R == [run[r] EXCEPT !.stage = "done", !.newest = clock]
<1>1. run[r] \in RunType /\ clock \in 1..MaxTime
  BY DEF IInv, TypeOK
<1>2. clock \in Times
  BY <1>1, TimesAssumption DEF Times
<1>3. R \in RunType /\ R.stage = "done"
  BY <1>1, <1>2 DEF RunType, Stages
<1> HIDE DEF R
<1>4. BecomeOK(r, R)
  BY <1>3 DEF BecomeOK, Holds, Working
<1>5. Become(r, R) /\ crashes' \in 0..MaxCrashes
  BY DEF Stamp, R, IInv, TypeOK
<1> QED BY <1>4, <1>5, BecomeKeeps DEF Stamp

LEMMA ClaimKeeps == ASSUME IInv, NEW r \in Runs, NEW a \in Asks, Claim(r, a) PROVE IInv'
<1> DEFINE R == [run[r] EXCEPT !.stage = "model", !.ask = a]
           c == WriteClaim(cursor, a, run[r].me)
<1>1. run[r] \in RunType /\ cursor \in CursorType
  BY StepFields DEF IInv
<1>2. run[r].rows < MaxRows /\ a \notin Settled(cursor) /\ cursor.phase # "posting"
  BY DEF Claim, Picks, Claimable
<1>3. R \in RunType /\ R.stage = "model" /\ R.ask = a /\ R.rows = run[r].rows
  BY <1>1 DEF RunType, Stages
<1>4. run[r].me \in Owners \cup {Nobody}
  BY <1>1, RunFields
<1>5. /\ c \in CursorType /\ c.inflight = a /\ c.phase = "claimed"
      /\ c.answered = cursor.answered /\ c.unknown = cursor.unknown
  BY <1>1, <1>4, ClaimOp
<1>6. Save(r, c, R) /\ tried' \subseteq Asks
  BY DEF Claim, IInv, TypeOK
<1> HIDE DEF R, c
<1>7. SaveOK(r, c, R)
  BY <1>2, <1>3, <1>5, AsksAssumption
     DEF SaveOK, Holds, Settled, IInv, AnsweredMeansVisible
<1> QED BY <1>6, <1>7, SaveKeeps DEF Claim

LEMMA SkipOK ==
    ASSUME IInv, NEW r \in Runs, NEW a \in Asks, run[r].rows < MaxRows
    PROVE  Skip(run[r], a) \in RunType /\ Skip(run[r], a).stage = "picking"
           /\ Skip(run[r], a).stage \notin Working /\ BecomeOK(r, Skip(run[r], a))
<1>1. run[r] \in RunType /\ ts \in [Asks -> Times]
  BY DEF IInv, TypeOK
<1>2. Skip(run[r], a) \in RunType /\ Skip(run[r], a).stage = "picking"
  BY <1>1, SkipFacts
<1> QED BY <1>2 DEF BecomeOK, Holds, Working

LEMMA LeaveKeeps ==
    ASSUME IInv, NEW r \in Runs, NEW a \in Asks, LeaveForOwner(r, a) PROVE IInv'
<1>1. BecomeOK(r, Skip(run[r], a)) /\ crashes' \in 0..MaxCrashes
  BY SkipOK DEF LeaveForOwner, Picks, IInv, TypeOK
<1> QED BY <1>1, BecomeKeeps DEF LeaveForOwner

LEMMA ModelAnswersKeeps == ASSUME IInv, NEW r \in Runs, ModelAnswers(r) PROVE IInv'
<1> DEFINE R == [run[r] EXCEPT !.stage = "written"]
<1>1. /\ R \in RunType /\ R.stage = "written" /\ R.fresh = run[r].fresh
      /\ R.ask = run[r].ask /\ R.rows = run[r].rows
  BY StepFields, StageFacts DEF IInv, Stages
<1>2. /\ run[r].stage = "model" /\ run[r].ask \in Asks /\ run[r].rows < MaxRows
      /\ run[r].fresh => Holds(run[r], cursor)
  BY DEF ModelAnswers, IInv, AtWork, Working, FreshHoldsClaim
<1>3. Become(r, R) /\ crashes' \in 0..MaxCrashes
  BY DEF ModelAnswers, IInv, TypeOK
<1> HIDE DEF R
<1>4. BecomeOK(r, R)
  BY <1>1, <1>2 DEF BecomeOK, Holds
<1> QED BY <1>3, <1>4, BecomeKeeps DEF ModelAnswers

LEMMA ModelFailsKeeps == ASSUME IInv, NEW r \in Runs, ModelFails(r) PROVE IInv'
<1> DEFINE R == Skip(run[r], run[r].ask)
           c == Cleared(cursor)
<1>1. run[r] \in RunType /\ cursor \in CursorType
  BY StepFields DEF IInv
<1>2. Save(r, c, R) /\ tried' \subseteq Asks /\ run[r].fresh
  BY DEF ModelFails, Save, IInv, TypeOK
<1>3. run[r].ask \in Asks /\ run[r].rows < MaxRows /\ cursor.phase = "claimed"
  BY <1>2 DEF ModelFails, IInv, AtWork, Working, FreshHoldsClaim, Holds
<1>4. R \in RunType /\ R.stage \notin Working
  BY <1>3, SkipOK
<1>5. /\ c \in CursorType /\ c.inflight = NoAsk /\ c.phase = ""
      /\ c.answered = cursor.answered /\ c.unknown = cursor.unknown
  BY <1>1, <1>3, CursorOps
<1>6. cursor.answered \subseteq landed
  BY DEF IInv, AnsweredMeansVisible
<1> HIDE DEF R, c
<1>7. SaveOK(r, c, R)
  BY <1>3, <1>4, <1>5, <1>6, SettleOK
<1> QED BY <1>2, <1>7, SaveKeeps DEF ModelFails

\* begin_post, where the claim it advances is on an ask nobody ever answered.
LEMMA BeginPostKeeps == ASSUME IInv, NEW r \in Runs, BeginPost(r) PROVE IInv'
<1>1. run[r] \in RunType /\ cursor \in CursorType
  BY StepFields DEF IInv
<1>2. run[r].stage = "written" /\ run[r].ask \in Asks /\ run[r].rows < MaxRows
  BY DEF BeginPost, IInv, AtWork, Working
<1>3. tried' \subseteq Asks /\ crashes' \in 0..MaxCrashes
  BY DEF BeginPost, IInv, TypeOK
<1>4. CASE MayPost(cursor, run[r].ask, run[r].me)
  <2> DEFINE R == [run[r] EXCEPT !.stage = "posting"]
             c == WritePosting(cursor)
  <2>1. Save(r, c, R)
    BY <1>4 DEF BeginPost
  <2>2. R \in RunType /\ R.stage = "posting" /\ R.ask = run[r].ask /\ R.rows = run[r].rows
    BY <1>1, StageFacts DEF Stages
  <2>3. /\ c \in CursorType /\ c.inflight = cursor.inflight /\ c.phase = "posting"
        /\ c.answered = cursor.answered /\ c.unknown = cursor.unknown
    BY <1>1, <1>2, CursorOps
  <2>4. cursor.inflight = run[r].ask /\ cursor.phase = "claimed"
    BY <1>4 DEF MayPost
  <2>5. cursor.inflight \notin Settled(cursor) /\ cursor.answered \subseteq landed
    BY DEF IInv, ClaimNotSettled, AnsweredMeansVisible
  <2>6. sent[run[r].ask] = 0
    <3>1. sent[run[r].ask] \in Nat
      BY <1>2 DEF IInv, TypeOK
    <3>2. ~(sent[run[r].ask] > 0)
      BY <1>2, <2>4, <2>5 DEF IInv, SentIsRecorded, Unresolved
    <3> QED BY <3>1, <3>2
  <2>7. \A s \in Runs \ {r} : run[s].stage = "posting" => run[s].ask # run[r].ask
    BY <2>4, <2>5 DEF IInv, PostingIsFirst, Unresolved, Settled
  <2> HIDE DEF R, c
  <2>8. SaveOK(r, c, R)
    BY <1>2, <2>2, <2>3, <2>4, <2>5, <2>6, <2>7, AsksAssumption
       DEF SaveOK, Holds, Settled
  <2> QED BY <1>3, <2>1, <2>8, SaveKeeps DEF BeginPost
<1>5. CASE ~MayPost(cursor, run[r].ask, run[r].me)
  <2> DEFINE R == [run[r] EXCEPT !.stage = "done"]
  <2>1. R \in RunType /\ R.stage = "done"
    BY <1>1, StageFacts DEF Stages
  <2>2. Become(r, R)
    BY <1>5 DEF BeginPost
  <2> HIDE DEF R
  <2>3. BecomeOK(r, R)
    BY <2>1 DEF BecomeOK, Holds, Working
  <2> QED BY <1>3, <2>2, <2>3, BecomeKeeps DEF BeginPost
<1> QED BY <1>4, <1>5

LEMMA DispatchKeeps == ASSUME IInv, NEW r \in Runs, Dispatch(r) PROVE IInv'
<1> DEFINE a == run[r].ask
           R == [run[r] EXCEPT !.stage = "sent"]
<1>1. /\ TypeOK /\ AtWork /\ ClaimNotSettled /\ SentIsRecorded /\ RepliesWereSent
      /\ PostingIsFirst /\ FreshHoldsClaim /\ AtMostOneReply /\ AnsweredMeansVisible
  BY DEF IInv
<1>2. run[r] \in RunType /\ run[r].stage = "posting" /\ a \in Asks /\ run[r].rows < MaxRows
  BY <1>1, StepFields DEF Dispatch, AtWork, Working
<1>3. /\ sent[a] = 0
      /\ a \in cursor.unknown \/ Unresolved(a)
      /\ \A s \in Runs \ {r} : run[s].stage = "posting" => run[s].ask # a
  BY <1>1, <1>2 DEF PostingIsFirst
<1>4. /\ R \in RunType /\ R.stage = "sent" /\ R.fresh = run[r].fresh
      /\ R.ask = a /\ R.rows = run[r].rows
  BY <1>2, StageFacts DEF Stages
<1>5. /\ run' \in [Runs -> RunType] /\ cursor' = cursor /\ run'[r] = R
      /\ \A s \in Runs \ {r} : run'[s] = run[s]
  <2>1. Become(r, R) /\ run \in [Runs -> RunType]
    BY <1>1 DEF Dispatch, TypeOK
  <2> QED BY <1>4, <2>1, BecomeFacts
<1>6. sent' = [sent EXCEPT ![a] = @ + 1] /\ wire' = wire \cup {a}
      /\ UNCHANGED <<ts, landed, clock, crashes, tried>>
  BY DEF Dispatch
<1>7. sent \in [Asks -> Nat]
  BY <1>1 DEF TypeOK
<1> HIDE DEF a, R
<1>8. sent'[a] = 1 /\ \A b \in Asks \ {a} : sent'[b] = sent[b]
  BY <1>2, <1>3, <1>6, <1>7
<1>9. sent' \in [Asks -> Nat]
  BY <1>2, <1>6, <1>7
<1>10. TypeOK'
  BY <1>1, <1>2, <1>5, <1>6, <1>9 DEF TypeOK
<1>11. AtWork'
  BY <1>1, <1>2, <1>4, <1>5 DEF AtWork
<1>12. ClaimNotSettled' /\ AnsweredMeansVisible'
  BY <1>1, <1>5, <1>6 DEF ClaimNotSettled, Settled, AnsweredMeansVisible
<1>13. SentIsRecorded'
  <2> SUFFICES ASSUME NEW b \in Asks, sent'[b] > 0
               PROVE  b \in Settled(cursor) \/ Unresolved(b)
    BY <1>5 DEF SentIsRecorded, Settled, Unresolved
  <2>1. CASE b = a BY <2>1, <1>3 DEF Settled
  <2>2. CASE b # a BY <2>2, <1>1, <1>8 DEF SentIsRecorded
  <2> QED BY <2>1, <2>2
<1>14. RepliesWereSent'
  <2> SUFFICES ASSUME NEW b \in Asks, b \in wire' \cup landed' PROVE sent'[b] > 0
    BY DEF RepliesWereSent
  <2>1. CASE b = a BY <2>1, <1>8
  <2>2. CASE b # a BY <2>2, <1>1, <1>6, <1>8 DEF RepliesWereSent
  <2> QED BY <2>1, <2>2
<1>15. AtMostOneReply'
  <2> SUFFICES ASSUME NEW b \in Asks PROVE sent'[b] <= 1
    BY DEF AtMostOneReply
  <2>1. CASE b = a BY <2>1, <1>8
  <2>2. CASE b # a BY <2>2, <1>1, <1>8 DEF AtMostOneReply
  <2> QED BY <2>1, <2>2
<1>16. PostingIsFirst'
  <2> SUFFICES ASSUME NEW s \in Runs, run'[s].stage = "posting"
               PROVE  /\ sent'[run'[s].ask] = 0
                      /\ run'[s].ask \in cursor.unknown \/ Unresolved(run'[s].ask)
                      /\ \A u \in Runs \ {s} :
                            run'[u].stage = "posting" => run'[u].ask # run'[s].ask
    BY <1>5 DEF PostingIsFirst, Unresolved
  <2>1. s # r /\ run'[s] = run[s]
    BY <1>4, <1>5
  <2>2. run[s].ask \in Asks /\ run[s].ask # a
    BY <2>1, <1>1, <1>3 DEF AtWork, Working
  <2> QED BY <2>1, <2>2, <1>1, <1>4, <1>5, <1>8 DEF PostingIsFirst
<1>17. FreshHoldsClaim'
  <2> SUFFICES ASSUME NEW s \in Runs, run'[s].fresh PROVE Holds(run'[s], cursor)
    BY <1>5 DEF FreshHoldsClaim
  <2>1. CASE s = r
    <3>1. Holds(run[r], cursor)
      BY <2>1, <1>1, <1>4, <1>5 DEF FreshHoldsClaim
    <3>2. cursor.inflight = a /\ cursor.phase = "posting"
      BY <3>1, <1>2 DEF Holds, a
    <3> QED BY <2>1, <3>2, <1>4, <1>5 DEF Holds
  <2>2. CASE s # r
    BY <2>2, <1>1, <1>5 DEF FreshHoldsClaim
  <2> QED BY <2>1, <2>2
<1> QED
  BY <1>10, <1>11, <1>12, <1>13, <1>14, <1>15, <1>16, <1>17 DEF IInv

LEMMA ConfirmKeeps == ASSUME IInv, NEW r \in Runs, Confirm(r) PROVE IInv'
<1> DEFINE a == run[r].ask
           c == MarkAnswered(cursor, a)
           R == [run[r] EXCEPT !.stage = "picking", !.queue = @ \ {a}, !.rows = @ + 1,
                               !.ask = NoAsk, !.newest = Later(@, ts[a])]
<1>1. run[r] \in RunType /\ cursor \in CursorType /\ ts \in [Asks -> Times]
  BY DEF IInv, TypeOK
<1>2. Save(r, c, R) /\ tried' \subseteq Asks /\ run[r].fresh
  BY DEF Confirm, Save, IInv, TypeOK
<1>3. a \in Asks /\ run[r].rows < MaxRows /\ a \in landed /\ cursor.inflight = a
  BY <1>2 DEF Confirm, IInv, AtWork, Working, FreshHoldsClaim, Holds
<1>4. R \in RunType /\ R.stage = "picking" /\ R.stage \notin Working
  <2>1. run[r].rows + 1 \in 0..MaxRows
    BY <1>1, <1>3, RunFields, BoundsAssumption
  <2>2. Later(run[r].newest, ts[a]) \in Times
    BY <1>1, <1>3, RunFields DEF Later
  <2> QED BY <1>1, <2>1, <2>2 DEF RunType, Stages, Working
<1>5. /\ c \in CursorType /\ c.inflight = NoAsk /\ c.phase = ""
      /\ c.answered = cursor.answered \cup {a} /\ c.unknown = cursor.unknown
  BY <1>1, <1>3, CursorOps
<1>6. cursor.answered \subseteq landed /\ sent[a] > 0
  BY <1>3 DEF IInv, AnsweredMeansVisible, RepliesWereSent
<1> HIDE DEF a, R, c
<1>7. SaveOK(r, c, R)
  BY <1>3, <1>4, <1>5, <1>6, SettleOK
<1> QED BY <1>2, <1>7, SaveKeeps DEF Confirm

LEMMA UnconfirmedKeeps == ASSUME IInv, NEW r \in Runs, Unconfirmed(r) PROVE IInv'
<1> DEFINE R == [run[r] EXCEPT !.stage = "done"]
<1>1. R \in RunType /\ R.stage = "done"
  BY StepFields, StageFacts DEF IInv, Stages
<1>2. Become(r, R) /\ crashes' \in 0..MaxCrashes
  BY DEF Unconfirmed, IInv, TypeOK
<1> HIDE DEF R
<1>3. BecomeOK(r, R)
  BY <1>1 DEF BecomeOK, Holds, Working
<1> QED BY <1>2, <1>3, BecomeKeeps DEF Unconfirmed

LEMMA FinishKeeps == ASSUME IInv, NEW r \in Runs, Finish(r) PROVE IInv'
<1> DEFINE c == [cursor EXCEPT !.watermark = Held(run[r], @)]
<1>1. run[r] \in RunType /\ cursor \in CursorType /\ (cursor.inflight = NoAsk <=> cursor.phase = "")
  BY DEF IInv, TypeOK
<1>2. Held(run[r], cursor.watermark) \in Times
  BY <1>1, CursorFields, HeldFacts
<1>3. /\ c \in CursorType /\ c.inflight = cursor.inflight /\ c.phase = cursor.phase
      /\ c.answered = cursor.answered /\ c.unknown = cursor.unknown
  BY <1>1, <1>2 DEF CursorType
<1>4. Save(r, c, Off) /\ tried' \subseteq Asks
  BY DEF Finish, IInv, TypeOK
<1> HIDE DEF c
<1>5. SaveOK(r, c, Off)
  BY <1>1, <1>3, OffFacts
     DEF SaveOK, Holds, Working, Settled, IInv, ClaimNotSettled, AnsweredMeansVisible
<1> QED BY <1>4, <1>5, SaveKeeps DEF Finish

LEMMA EndStaleKeeps == ASSUME IInv, NEW r \in Runs, EndStale(r) PROVE IInv'
<1>1. crashes' \in 0..MaxCrashes
  BY DEF EndStale, IInv, TypeOK
<1> QED BY <1>1, OffOK, BecomeKeeps DEF EndStale

-----------------------------------------------------------------------------
(* The board, the gateway and time.                                        *)

LEMMA AskKeeps == ASSUME IInv, NEW a \in Asks, Ask(a) PROVE IInv'
<1>1. ts' \in [Asks -> Times]
  <2>1. PICK t \in Later(1, clock - Lag)..clock : ts' = [ts EXCEPT ![a] = t]
    BY DEF Ask
  <2>2. clock \in 1..MaxTime /\ ts \in [Asks -> Times]
    BY DEF IInv, TypeOK
  <2>3. t \in Times
    BY <2>1, <2>2, TimesAssumption DEF Later, Times
  <2> QED BY <2>1, <2>2, <2>3
<1>2. UNCHANGED <<sent, wire, landed, cursor, clock, run, crashes, tried>>
  BY DEF Ask
<1> QED
  BY <1>1, <1>2
     DEF IInv, TypeOK, AtWork, ClaimNotSettled, SentIsRecorded, RepliesWereSent,
         PostingIsFirst, FreshHoldsClaim, Holds, AtMostOneReply, AnsweredMeansVisible,
         Settled, Unresolved

LEMMA DeliveryKeeps == ASSUME IInv, NEW a \in Asks, Land(a) \/ Lose(a) PROVE IInv'
<1>1. UNCHANGED <<ts, sent, cursor, clock, run, crashes, tried>>
  BY DEF Land, Lose
<1>2. /\ wire' \subseteq wire /\ landed \subseteq landed'
      /\ wire' \cup landed' \subseteq wire \cup landed
  BY DEF Land, Lose
<1>3. wire' \subseteq Asks /\ landed' \subseteq Asks
  BY <1>2 DEF IInv, TypeOK
<1>4. RepliesWereSent'
  BY <1>1, <1>2 DEF IInv, RepliesWereSent
<1>5. AnsweredMeansVisible'
  BY <1>1, <1>2 DEF IInv, AnsweredMeansVisible
<1>6. TypeOK'
  BY <1>1, <1>3 DEF IInv, TypeOK
<1> QED
  BY <1>1, <1>4, <1>5, <1>6
     DEF IInv, AtWork, ClaimNotSettled, SentIsRecorded, PostingIsFirst,
         FreshHoldsClaim, Holds, AtMostOneReply, Settled, Unresolved

LEMMA TickKeeps == ASSUME IInv, Tick PROVE IInv'
<1>1. UNCHANGED <<ts, sent, wire, landed, run, crashes, tried>>
  BY DEF Tick
<1>2. cursor \in CursorType /\ clock \in 1..MaxTime
  BY DEF IInv, TypeOK
<1>3. clock' \in 1..MaxTime
  BY <1>2, TimesAssumption DEF Tick
<1>4. /\ cursor' \in CursorType
      /\ cursor'.inflight = cursor.inflight /\ cursor'.phase = cursor.phase
      /\ cursor'.answered = cursor.answered /\ cursor'.unknown = cursor.unknown
  <2>1. (IF cursor.until > 0 THEN cursor.until - 1 ELSE 0) \in Leases
    <3>1. \A n \in Nat : \A u \in 0..n : (IF u > 0 THEN u - 1 ELSE 0) \in 0..n
      OBVIOUS
    <3>2. ClaimLease \in Nat /\ PostLease \in Nat
      BY TimesAssumption
    <3>3. cursor.until \in (0..ClaimLease) \cup (0..PostLease)
      BY <1>2, CursorFields DEF Leases
    <3>4. CASE cursor.until \in 0..ClaimLease
      BY <3>1, <3>2, <3>4 DEF Leases
    <3>5. CASE cursor.until \in 0..PostLease
      BY <3>1, <3>2, <3>5 DEF Leases
    <3> QED BY <3>3, <3>4, <3>5
  <2>2. cursor' = [cursor EXCEPT !.until = IF cursor.until > 0 THEN cursor.until - 1 ELSE 0]
    BY DEF Tick
  <2> QED BY <1>2, <2>1, <2>2 DEF CursorType
<1>5. TypeOK'
  BY <1>1, <1>3, <1>4 DEF IInv, TypeOK
<1> QED
  BY <1>1, <1>4, <1>5
     DEF IInv, AtWork, ClaimNotSettled, SentIsRecorded, RepliesWereSent, PostingIsFirst,
         FreshHoldsClaim, Holds, AtMostOneReply, AnsweredMeansVisible, Settled, Unresolved

LEMMA WorkKeeps == ASSUME IInv, NEW r \in Runs, Work(r) PROVE IInv'
<1>1. CASE Resolve(r) BY <1>1, ResolveKeeps
<1>2. CASE Read(r) BY <1>2, ReadKeeps
<1>3. CASE Stamp(r) BY <1>3, StampKeeps
<1>4. CASE \E a \in Asks : Claim(r, a) BY <1>4, ClaimKeeps
<1>5. CASE \E a \in Asks : LeaveForOwner(r, a) BY <1>5, LeaveKeeps
<1>6. CASE ModelAnswers(r) BY <1>6, ModelAnswersKeeps
<1>7. CASE ModelFails(r) BY <1>7, ModelFailsKeeps
<1>8. CASE BeginPost(r) BY <1>8, BeginPostKeeps
<1>9. CASE Dispatch(r) BY <1>9, DispatchKeeps
<1>10. CASE Confirm(r) BY <1>10, ConfirmKeeps
<1>11. CASE Unconfirmed(r) BY <1>11, UnconfirmedKeeps
<1>12. CASE Finish(r) BY <1>12, FinishKeeps
<1>13. CASE EndStale(r) BY <1>13, EndStaleKeeps
<1> QED
  BY <1>1, <1>2, <1>3, <1>4, <1>5, <1>6, <1>7, <1>8, <1>9, <1>10, <1>11, <1>12, <1>13
     DEF Work

LEMMA NextKeeps == ASSUME IInv, [Next]_vars PROVE IInv'
<1>1. CASE UNCHANGED vars
  BY <1>1
     DEF vars, IInv, TypeOK, AtWork, ClaimNotSettled, SentIsRecorded, RepliesWereSent,
         PostingIsFirst, FreshHoldsClaim, Holds, AtMostOneReply, AnsweredMeansVisible,
         Settled, Unresolved
<1>2. CASE \E r \in Runs : Start(r) \/ Work(r) \/ Crash(r)
  BY <1>2, StartKeeps, WorkKeeps, CrashKeeps
<1>3. CASE \E a \in Asks : Ask(a) \/ Land(a) \/ Lose(a)
  BY <1>3, AskKeeps, DeliveryKeeps
<1>4. CASE Tick
  BY <1>4, TickKeeps
<1> QED
  BY <1>1, <1>2, <1>3, <1>4 DEF Next

-----------------------------------------------------------------------------
(* The theorems.                                                           *)

\* The strengthening is inductive.
THEOREM InductiveInvariant == Spec => []IInv
<1>1. Init => IInv
  BY InitInv
<1>2. IInv /\ [Next]_vars => IInv'
  BY NextKeeps
<1> QED
  BY <1>1, <1>2, PTL DEF Spec

\* Every reachable state of the waker is well typed: a claim has a phase exactly
\* while there is one, and no save leaves a cursor the next run cannot read.
THEOREM TypeCorrect == Spec => []TypeOK
<1>1. IInv => TypeOK
  BY DEF IInv
<1> QED
  BY <1>1, InductiveInvariant, PTL

\* However many runs overlap, crash or find their lease expired, and whatever
\* the gateway does with an append, an ask gets at most one reply appended.
THEOREM OneReplyPerAsk == Spec => []AtMostOneReply
<1>1. IInv => AtMostOneReply
  BY DEF IInv
<1> QED
  BY <1>1, InductiveInvariant, PTL

\* The cursor calls an ask answered only if its reply is on the board.
THEOREM AnsweredIsOnTheBoard == Spec => []AnsweredMeansVisible
<1>1. IInv => AnsweredMeansVisible
  BY DEF IInv
<1> QED
  BY <1>1, InductiveInvariant, PTL

-----------------------------------------------------------------------------
(* The window.  A run whose copy is current counts every ask that was ever *)
(* tried: it is answered, or still in the run's queue, or at or above the  *)
(* floor of what the run gave up.  In one band the queue is worked off in  *)
(* the order of time, so what is left in it is no older than what was      *)
(* answered.                                                               *)

OneBand == \A a, b \in Asks : a \in Whatsapp <=> b \in Whatsapp

PastRead == {"empty", "picking", "done"} \cup Working
Idlers == {"gated", "empty", "picking", "done"}

Counted(R, c, a) ==
    a \in Settled(c) \cup landed \/ a \in R.queue \/ (R.floor # 0 /\ R.floor <= ts[a])

\* What a run's record keeps whether or not its copy is current.
RunOK(R) ==
    /\ R.newest <= clock
    /\ \A a \in R.queue : ts[a] # 0 /\ (OneBand => R.newest <= ts[a])
    /\ R.stage \in Working => R.ask \in First(R.queue)
    /\ R.stage = "empty" => R.queue = {}

\* What a current copy knows of the cursor and of the asks T that were tried.
FreshOK(R, c, T) ==
    /\ R.stage \in {"model", "written"} => c.owner = R.me
    /\ R.stage \in Idlers => ~(c.phase = "claimed" /\ c.until > 0)
    /\ R.stage \in PastRead => c.watermark <= R.newest
    /\ OneBand /\ R.stage \in PastRead => \A a \in T : Counted(R, c, a)

CursorOK(c, T) ==
    /\ c.watermark <= clock
    /\ OneBand => \A a \in T : a \in Settled(c) \cup landed \/ ts[a] >= c.watermark

Window ==
    /\ \A a \in Asks : ts[a] <= clock
    /\ \A a \in tried : ts[a] # 0
    /\ CursorOK(cursor, tried)
    /\ \A r \in Runs : RunOK(run[r])
    /\ \A r \in Runs : run[r].fresh => FreshOK(run[r], cursor, tried)

\* The two action properties, of one step.
Guarded ==
    cursor.phase = "claimed" /\ cursor.until > 0
      /\ [cursor' EXCEPT !.until = 0] # [cursor EXCEPT !.until = 0]
    => \E r \in Runs : run[r].me = cursor.owner /\ run'[r].stage # run[r].stage
Kept ==
    /\ cursor.answered \subseteq cursor'.answered
    /\ cursor.unknown \subseteq cursor'.unknown
    /\ cursor.watermark <= cursor'.watermark
Good == Window' /\ Guarded /\ Kept

\* What the operators of the cursor leave of it.
LEMMA CursorLeaves ==
    ASSUME NEW c \in CursorType, NEW a
    PROVE  /\ Cleared(c).watermark = c.watermark
           /\ MarkAnswered(c, a).watermark = c.watermark
           /\ Quarantine(c, a).watermark = c.watermark
           /\ \A o : WriteClaim(c, a, o).watermark = c.watermark
                     /\ WriteClaim(c, a, o).owner = o /\ WriteClaim(c, a, o).until = ClaimLease
           /\ WritePosting(c).watermark = c.watermark
           /\ WritePosting(c).answered = c.answered /\ WritePosting(c).unknown = c.unknown
           /\ WritePosting(c).phase = "posting"
  BY DEF CursorType, Cleared, MarkAnswered, Quarantine, WriteClaim, WritePosting

\* Timestamps, watermarks and the clock are numbers.
LEMMA Numbers ==
    ASSUME TypeOK
    PROVE  /\ Times \subseteq Nat /\ clock \in Times /\ clock \in Nat
           /\ \A a \in Asks : ts[a] \in Nat
           /\ cursor.watermark \in Nat /\ cursor.until \in Nat
           /\ \A r \in Runs : run[r].newest \in Nat /\ run[r].floor \in Nat
<1>0. clock \in 1..MaxTime /\ MaxTime \in Nat
  BY TimesAssumption DEF TypeOK
<1>1. Times \subseteq Nat /\ clock \in Times
  BY <1>0 DEF Times
<1>2. Leases \subseteq Nat
  BY TimesAssumption DEF Leases
<1>3. cursor.watermark \in Times /\ cursor.until \in Leases
  BY CursorFields DEF TypeOK
<1>4. \A r \in Runs : run[r].newest \in Times /\ run[r].floor \in Times
  BY RunFields DEF TypeOK
<1> QED BY <1>1, <1>2, <1>3, <1>4 DEF TypeOK

\* What a save must respect for the window and the claims to survive it.
SaveGood(r, c, R) ==
    /\ CursorOK(c, tried') /\ RunOK(R) /\ (R.fresh => FreshOK(R, c, tried'))
    /\ cursor.answered \subseteq c.answered /\ cursor.unknown \subseteq c.unknown
    /\ cursor.watermark <= c.watermark
    /\ cursor.phase = "claimed" /\ cursor.until > 0
       => c = cursor \/ (cursor.owner = run[r].me /\ R.stage # run[r].stage)

LEMMA SavesWell ==
    ASSUME IInv, Window, NEW r \in Runs, NEW c, NEW R \in RunType, SaveGood(r, c, R), Save(r, c, R),
           UNCHANGED <<ts, landed, clock>>, tried' = tried \/ c # cursor,
           \A a \in tried' : ts[a] # 0
    PROVE  Good
<1>1. run \in [Runs -> RunType]
  BY DEF IInv, TypeOK
<1>2. /\ cursor' = c /\ run'[r] = R
      /\ \A s \in Runs \ {r} :
            /\ run'[s].stage = run[s].stage /\ run'[s].ask = run[s].ask
            /\ run'[s].newest = run[s].newest /\ run'[s].queue = run[s].queue
            /\ run'[s].fresh => run[s].fresh /\ c = cursor /\ run'[s] = run[s]
  BY <1>1, SaveFacts
<1>3. /\ \A a \in Asks : ts'[a] <= clock'
      /\ \A a \in tried' : ts'[a] # 0
      /\ CursorOK(cursor, tried)'
  BY <1>2 DEF Window, SaveGood, CursorOK
<1>4. ASSUME NEW s \in Runs PROVE RunOK(run[s])'
  BY <1>2 DEF Window, SaveGood, RunOK, First, Ahead
<1>5. ASSUME NEW s \in Runs, run'[s].fresh PROVE FreshOK(run[s], cursor, tried)'
  <2>1. CASE s = r
    BY <2>1, <1>2, <1>5 DEF SaveGood, FreshOK, Counted
  <2>2. CASE s # r
    <3>1. run'[s] = run[s] /\ cursor' = cursor /\ tried' = tried /\ run[s].fresh
      BY <2>2, <1>2, <1>5
    <3>2. FreshOK(run[s], cursor, tried)
      BY <3>1 DEF Window
    <3> QED BY <3>1, <3>2 DEF FreshOK, Counted
  <2> QED BY <2>1, <2>2
<1>6. Guarded /\ Kept
  BY <1>2 DEF SaveGood, Guarded, Kept
<1>7. Window'
  BY <1>3, <1>4, <1>5 DEF Window, CursorOK, FreshOK, Counted
<1> QED BY <1>6, <1>7 DEF Good

\* A step of a run that saves nothing.
LEMMA BecomesWell ==
    ASSUME IInv, Window, NEW r \in Runs, NEW R \in RunType, Become(r, R), RunOK(R),
           R.fresh => FreshOK(R, cursor, tried),
           UNCHANGED <<ts, landed, clock, tried>>
    PROVE  Good
<1>1. run \in [Runs -> RunType]
  BY DEF IInv, TypeOK
<1>2. /\ cursor' = cursor /\ run'[r] = R
      /\ \A s \in Runs \ {r} : run'[s] = run[s]
  BY <1>1, BecomeFacts
<1>3. /\ \A a \in Asks : ts'[a] <= clock'
      /\ \A a \in tried' : ts'[a] # 0
      /\ CursorOK(cursor, tried)'
  BY <1>2 DEF Window, CursorOK
<1>4. ASSUME NEW s \in Runs PROVE RunOK(run[s])'
  BY <1>2 DEF Window, RunOK, First, Ahead
<1>5. ASSUME NEW s \in Runs, run'[s].fresh PROVE FreshOK(run[s], cursor, tried)'
  <2>1. FreshOK(run'[s], cursor, tried)
    BY <1>2, <1>5 DEF Window
  <2> QED BY <2>1, <1>2 DEF FreshOK, Counted
<1>6. cursor.watermark \in Nat
  BY Numbers DEF IInv
<1>7. Guarded /\ Kept
  BY <1>2, <1>6 DEF Guarded, Kept
<1>8. Window'
  BY <1>3, <1>4, <1>5 DEF Window, CursorOK, FreshOK, Counted
<1> QED BY <1>7, <1>8 DEF Good

\* The facts every step below starts from.
LEMMA Here ==
    ASSUME IInv, Window, NEW r \in Runs
    PROVE  /\ run[r] \in RunType /\ cursor \in CursorType /\ RunOK(run[r])
           /\ run[r].fresh => FreshOK(run[r], cursor, tried)
           /\ CursorOK(cursor, tried) /\ \A a \in tried : ts[a] # 0
           /\ cursor.watermark \in Nat /\ cursor.until \in Nat /\ clock \in Nat
           /\ run[r].newest \in Nat /\ run[r].floor \in Nat
           /\ tried \subseteq Asks /\ \A a \in Asks : ts[a] \in Nat
<1>1. TypeOK
  BY DEF IInv
<1> QED BY <1>1, Numbers, StepFields DEF Window, TypeOK

\* A run that is off is in order.
LEMMA OffGood == ASSUME IInv PROVE Off \in RunType /\ ~Off.fresh /\ RunOK(Off)
<1>1. clock \in Nat
  BY Numbers DEF IInv
<1>2. 0 <= clock
  BY <1>1
<1> QED BY <1>2, OffFacts DEF RunOK, Off, Working

\* A run that dies or ends leaves the window alone.
LEMMA CrashWell == ASSUME IInv, Window, NEW r \in Runs, Crash(r) PROVE Good
  BY OffGood, BecomesWell DEF Crash

LEMMA EndStaleWell == ASSUME IInv, Window, NEW r \in Runs, EndStale(r) PROVE Good
  BY OffGood, BecomesWell DEF EndStale

\* A run starts with a current copy and knows nothing yet.
LEMMA StartWell == ASSUME IInv, Window, NEW r \in Runs, Start(r) PROVE Good
<1>1. PICK me \in Owners : Become(r, [Off EXCEPT !.stage = "loaded", !.me = me, !.fresh = TRUE])
  BY DEF Start
<1> DEFINE R == [Off EXCEPT !.stage = "loaded", !.me = me, !.fresh = TRUE]
<1>2. R \in RunType /\ R.stage = "loaded" /\ R.newest = Off.newest /\ R.queue = Off.queue
  BY OffFacts DEF RunType, Stages
<1>3. Become(r, R)
  BY <1>1
<1> HIDE DEF R
<1>4. RunOK(R)
  BY <1>2, OffGood DEF RunOK, Working
<1>5. FreshOK(R, cursor, tried)
  BY <1>2 DEF FreshOK, Idlers, PastRead, Working
<1> QED BY <1>2, <1>3, <1>4, <1>5, BecomesWell DEF Start

\* A copy with another stage, where the run did no work before.
LEMMA Restaged ==
    ASSUME NEW R \in RunType, NEW g \in Stages \ (Working \cup {"empty"}), RunOK(R)
    PROVE  /\ [R EXCEPT !.stage = g] \in RunType /\ RunOK([R EXCEPT !.stage = g])
           /\ [R EXCEPT !.stage = g].stage = g /\ [R EXCEPT !.stage = g].fresh = R.fresh
           /\ [R EXCEPT !.stage = g].newest = R.newest /\ [R EXCEPT !.stage = g].queue = R.queue
           /\ [R EXCEPT !.stage = g].floor = R.floor
  BY DEF RunType, RunOK

\* A claim that is live is on no ask whose reply is on the board.
LEMMA LiveClaimUnanswered ==
    ASSUME IInv, cursor.phase = "claimed"
    PROVE  cursor.inflight \notin landed \cup cursor.answered
<1>1. cursor.inflight \notin Settled(cursor) /\ landed \subseteq Asks
  BY DEF IInv, TypeOK, ClaimNotSettled
<1>2. cursor.inflight \in landed => sent[cursor.inflight] > 0
  BY <1>1 DEF IInv, RepliesWereSent
<1> QED BY <1>1, <1>2 DEF IInv, SentIsRecorded, Settled, Unresolved

\* Resolving what a dead run left settles it; a live claim is left alone.
LEMMA ResolveWell == ASSUME IInv, Window, NEW r \in Runs, Resolve(r) PROVE Good
<1> DEFINE a == cursor.inflight
           next == [run[r] EXCEPT !.stage = "gated"]
<1>1. run[r] \in RunType /\ cursor \in CursorType /\ CursorOK(cursor, tried)
      /\ cursor.watermark \in Nat /\ \A x \in tried : ts[x] # 0
  BY Here
<1>2. next \in RunType /\ next.stage = "gated" /\ RunOK(next)
  BY Here, Restaged DEF Stages, Working
<1>3. a \notin Settled(cursor) /\ landed \subseteq Asks /\ cursor.answered \subseteq Asks
      /\ (a = NoAsk <=> cursor.phase = "")
  BY CursorFields DEF IInv, TypeOK, ClaimNotSettled
<1> HIDE DEF next
<1>4. ASSUME NEW c, c.watermark = cursor.watermark, c.phase = "",
             cursor.answered \subseteq c.answered, cursor.unknown \subseteq c.unknown,
             cursor.phase # "claimed"
      PROVE  SaveGood(r, c, next)
  <2>1. CursorOK(c, tried')
    BY <1>1, <1>4 DEF CursorOK, Settled, Resolve
  <2>2. FreshOK(next, c, tried')
    BY <1>2, <1>4 DEF FreshOK, PastRead, Working
  <2>3. cursor.watermark <= c.watermark
    <3>1. ASSUME NEW n \in Nat PROVE n <= n
      OBVIOUS
    <3> QED BY <1>1, <1>4, <3>1
  <2>4. ~(cursor.phase = "claimed" /\ cursor.until > 0)
    BY <1>4
  <2> QED BY <1>2, <1>4, <2>1, <2>2, <2>3, <2>4 DEF SaveGood
<1>5. CASE a \in landed \cup cursor.answered
  <2>1. a \in Asks /\ cursor.phase # "claimed"
    BY <1>3, <1>5, LiveClaimUnanswered
  <2>2. /\ MarkAnswered(cursor, a).phase = ""
        /\ MarkAnswered(cursor, a).answered = cursor.answered \cup {a}
        /\ MarkAnswered(cursor, a).unknown = cursor.unknown
        /\ MarkAnswered(cursor, a).watermark = cursor.watermark
    BY <1>1, <2>1, CursorOps, CursorLeaves
  <2>3. SaveGood(r, MarkAnswered(cursor, a), next)
    BY <1>4, <2>1, <2>2
  <2>4. Save(r, MarkAnswered(cursor, a), next)
    BY <1>5 DEF Resolve, next
  <2> QED BY <1>1, <1>2, <2>3, <2>4, SavesWell DEF Resolve
<1>6. CASE a \notin landed \cup cursor.answered /\ cursor.phase = "posting"
  <2>1. a \in Asks
    BY <1>1, <1>3, <1>6, CursorFields
  <2>2. /\ Quarantine(cursor, a).phase = ""
        /\ Quarantine(cursor, a).answered = cursor.answered
        /\ Quarantine(cursor, a).unknown = cursor.unknown \cup {a}
        /\ Quarantine(cursor, a).watermark = cursor.watermark
    BY <1>1, <2>1, CursorOps, CursorLeaves
  <2>3. SaveGood(r, Quarantine(cursor, a), next)
    BY <1>4, <1>6, <2>2
  <2>4. Save(r, Quarantine(cursor, a), next)
    BY <1>6 DEF Resolve, next
  <2> QED BY <1>1, <1>2, <2>3, <2>4, SavesWell DEF Resolve
<1>7. CASE a \notin landed \cup cursor.answered /\ cursor.phase # "posting"
  <2>1. Become(r, IF MustDefer(cursor) THEN Off ELSE next)
    BY <1>7 DEF Resolve, next
  <2>2. CASE MustDefer(cursor)
    BY <2>1, <2>2, OffGood, BecomesWell DEF Resolve
  <2>3. CASE ~MustDefer(cursor)
    <3>1. ~(cursor.phase = "claimed" /\ cursor.until > 0)
      BY <2>3, <1>3 DEF MustDefer, Live
    <3>2. FreshOK(next, cursor, tried)
      BY <1>2, <3>1 DEF FreshOK, PastRead, Working
    <3> QED BY <1>2, <2>1, <2>3, <3>2, BecomesWell DEF Resolve
  <2> QED BY <2>2, <2>3
<1> QED BY <1>5, <1>6, <1>7

\* The read puts every tried ask without an answer into the queue.
LEMMA ReadWell == ASSUME IInv, Window, NEW r \in Runs, Read(r) PROVE Good
<1> DEFINE g == IF Pending(cursor) = {} THEN "empty" ELSE "picking"
           R == [run[r] EXCEPT !.stage = g, !.queue = Pending(cursor),
                               !.newest = cursor.watermark]
<1>1. /\ run[r] \in RunType /\ cursor \in CursorType /\ FreshOK(run[r], cursor, tried)
      /\ CursorOK(cursor, tried) /\ \A a \in tried : ts[a] # 0
      /\ cursor.watermark \in Nat /\ tried \subseteq Asks /\ \A a \in Asks : ts[a] \in Nat
  BY Here DEF Read
<1>2. g \in {"empty", "picking"} /\ Pending(cursor) \subseteq Asks /\ run[r].stage = "gated"
  BY DEF Pending, Read
<1>3. cursor.watermark \in Times
  BY <1>1, CursorFields
<1>4. Become(r, R)
  BY DEF Read
<1> HIDE DEF g
<1>5. R \in RunType /\ R.stage = g /\ R.queue = Pending(cursor) /\ R.newest = cursor.watermark
  BY <1>1, <1>2, <1>3 DEF RunType, Stages
<1> HIDE DEF R
<1>6. RunOK(R)
  <2>1. R.newest <= clock
    BY <1>1, <1>5 DEF CursorOK
  <2>2. ASSUME NEW a \in R.queue PROVE ts[a] # 0 /\ R.newest <= ts[a]
    BY <1>1, <1>5, <2>2 DEF Pending
  <2>3. R.stage = "empty" => R.queue = {}
    BY <1>5 DEF g
  <2> QED BY <1>2, <1>5, <2>1, <2>2, <2>3 DEF RunOK, Working
<1>7. FreshOK(R, cursor, tried)
  <2>1. ASSUME OneBand, NEW a \in tried PROVE Counted(R, cursor, a)
    BY <1>1, <1>5, <2>1 DEF CursorOK, Counted, Pending
  <2>2. ~(cursor.phase = "claimed" /\ cursor.until > 0)
    BY <1>1, <1>2 DEF FreshOK, Idlers
  <2> QED BY <1>1, <1>2, <1>5, <2>1, <2>2 DEF FreshOK
<1> QED BY <1>4, <1>5, <1>6, <1>7, BecomesWell DEF Read

\* A pass without rows moves its mark to the clock: every tried ask is answered.
LEMMA StampWell == ASSUME IInv, Window, NEW r \in Runs, Stamp(r) PROVE Good
<1> DEFINE R == [run[r] EXCEPT !.stage = "done", !.newest = clock]
<1>1. /\ run[r] \in RunType /\ clock \in Nat /\ RunOK(run[r])
      /\ run[r].fresh => FreshOK(run[r], cursor, tried)
      /\ CursorOK(cursor, tried) /\ run[r].stage = "empty"
  BY Here DEF Stamp
<1>2. clock \in Times
  BY Numbers DEF IInv
<1>3. R \in RunType /\ R.stage = "done" /\ R.queue = run[r].queue /\ R.newest = clock
      /\ R.fresh = run[r].fresh /\ R.floor = run[r].floor
  BY <1>1, <1>2 DEF RunType, Stages
<1>4. Become(r, R)
  BY DEF Stamp
<1> HIDE DEF R
<1>5. run[r].queue = {}
  BY <1>1 DEF RunOK
<1>6. RunOK(R)
  BY <1>1, <1>3, <1>5 DEF RunOK, Working
<1>7. R.fresh => FreshOK(R, cursor, tried)
  BY <1>1, <1>3, <1>5 DEF FreshOK, CursorOK, Counted, Idlers, PastRead
<1> QED BY <1>3, <1>4, <1>6, <1>7, BecomesWell DEF Stamp

\* Giving a row up: it is counted by the floor from now on.
LEMMA SkipWell ==
    ASSUME IInv, Window, NEW r \in Runs, NEW a \in run[r].queue, run[r].rows < MaxRows
    PROVE  /\ Skip(run[r], a) \in RunType /\ RunOK(Skip(run[r], a))
           /\ Skip(run[r], a).stage = "picking" /\ Skip(run[r], a).fresh = run[r].fresh
           /\ Skip(run[r], a).newest = run[r].newest
           /\ \A c : \A x \in Asks : Counted(run[r], c, x) => Counted(Skip(run[r], a), c, x)
<1> DEFINE R == run[r]
           S == Skip(R, a)
<1>1. /\ R \in RunType /\ RunOK(R) /\ R.floor \in Nat /\ a \in Asks
      /\ \A x \in Asks : ts[x] \in Nat
  BY Here, RunFields
<1>2. ts[a] # 0 /\ ts \in [Asks -> Times]
  BY <1>1 DEF RunOK, IInv, TypeOK
<1>3. S \in RunType /\ S.stage = "picking" /\ S.fresh = R.fresh /\ S.newest = R.newest
  BY <1>1, <1>2, SkipFacts
<1>4. /\ S.queue = R.queue \ {a}
      /\ S.floor = IF R.floor = 0 \/ ts[a] < R.floor THEN ts[a] ELSE R.floor
  BY <1>1 DEF Skip, RunType
<1> HIDE DEF S
<1>5. RunOK(S)
  BY <1>1, <1>3, <1>4 DEF RunOK, Working
<1>6. ASSUME NEW c, NEW x \in Asks, Counted(R, c, x) PROVE Counted(S, c, x)
  <2>1. CASE x = a
    <3>1. S.floor # 0 /\ S.floor <= ts[a]
      BY <1>1, <1>2, <1>4
    <3> QED BY <2>1, <3>1 DEF Counted
  <2>2. CASE x # a /\ x \in R.queue
    BY <2>2, <1>4 DEF Counted
  <2>3. CASE R.floor # 0 /\ R.floor <= ts[x]
    <3>1. S.floor # 0 /\ S.floor <= ts[x]
      BY <1>1, <1>2, <1>4, <2>3
    <3> QED BY <3>1 DEF Counted
  <2> QED BY <1>6, <2>1, <2>2, <2>3 DEF Counted
<1> QED BY <1>3, <1>5, <1>6 DEF S

\* The row a run works on is in its queue; a run picks from its queue.
LEMMA FromQueue ==
    ASSUME IInv, Window, NEW r \in Runs
    PROVE  /\ run[r].stage \in Working => /\ run[r].ask \in Asks /\ run[r].rows < MaxRows
                                          /\ run[r].ask \in run[r].queue
           /\ \A a \in Asks : Picks(r, a) => /\ a \in run[r].queue /\ run[r].rows < MaxRows
                                             /\ run[r].fresh /\ run[r].stage = "picking"
  BY Here DEF IInv, AtWork, RunOK, First, Picks

\* A row left for its owner is counted by the floor.
LEMMA LeaveWell ==
    ASSUME IInv, Window, NEW r \in Runs, NEW a \in Asks, LeaveForOwner(r, a) PROVE Good
<1>1. /\ run[r].fresh /\ FreshOK(run[r], cursor, tried) /\ a \in run[r].queue
      /\ run[r].rows < MaxRows /\ run[r].stage = "picking" /\ tried \subseteq Asks
  BY FromQueue, Here DEF LeaveForOwner
<1> DEFINE S == Skip(run[r], a)
<1>2. /\ S \in RunType /\ RunOK(S) /\ S.stage = "picking" /\ S.newest = run[r].newest
      /\ \A c : \A x \in Asks : Counted(run[r], c, x) => Counted(S, c, x)
  BY <1>1, SkipWell
<1>3. Become(r, S)
  BY DEF LeaveForOwner
<1> HIDE DEF S
<1>4. FreshOK(S, cursor, tried)
  BY <1>1, <1>2 DEF FreshOK, PastRead, Idlers, Working
<1> QED BY <1>2, <1>3, <1>4, BecomesWell DEF LeaveForOwner

\* A claim is written where no claim is live.
LEMMA ClaimWell ==
    ASSUME IInv, Window, NEW r \in Runs, NEW a \in Asks, Claim(r, a) PROVE Good
<1> DEFINE R == [run[r] EXCEPT !.stage = "model", !.ask = a]
           c == WriteClaim(cursor, a, run[r].me)
<1>1. /\ run[r] \in RunType /\ cursor \in CursorType /\ RunOK(run[r])
      /\ run[r].fresh /\ FreshOK(run[r], cursor, tried) /\ CursorOK(cursor, tried)
      /\ \A x \in tried : ts[x] # 0
      /\ cursor.watermark \in Nat /\ cursor.until \in Nat
      /\ run[r].newest \in Nat /\ \A x \in Asks : ts[x] \in Nat
  BY Here DEF Claim, Picks
<1>2. a \in run[r].queue /\ run[r].stage = "picking" /\ a \in First(run[r].queue)
  BY FromQueue DEF Claim, Picks
<1>3. /\ R \in RunType /\ R.stage = "model" /\ R.ask = a /\ R.me = run[r].me
      /\ R.queue = run[r].queue /\ R.newest = run[r].newest /\ R.floor = run[r].floor
  BY <1>1 DEF RunType, Stages
<1>4. /\ c.inflight = a /\ c.answered = cursor.answered /\ c.unknown = cursor.unknown
      /\ c.watermark = cursor.watermark /\ c.owner = run[r].me /\ c.until = ClaimLease
  <2>1. run[r].me \in Owners \cup {Nobody}
    BY <1>1, RunFields
  <2>2. /\ c.inflight = a /\ c.answered = cursor.answered /\ c.unknown = cursor.unknown
    BY <1>1, <2>1, ClaimOp
  <2>3. c.watermark = cursor.watermark /\ c.owner = run[r].me /\ c.until = ClaimLease
    BY <1>1, CursorLeaves
  <2> QED BY <2>2, <2>3
<1>5. Save(r, c, R) /\ tried' = tried \cup {a}
  BY DEF Claim
<1>6. c # cursor
  <2>1. cursor.inflight \in {NoAsk, a} /\ ~(cursor.inflight # NoAsk /\ cursor.until > 0)
    BY DEF Claim, Claimable, Live
  <2>2. CASE cursor.inflight = NoAsk
    BY <2>2, <1>4, AsksAssumption
  <2>3. CASE cursor.inflight = a
    BY <2>1, <2>3, <1>1, <1>4, AsksAssumption, TimesAssumption
  <2> QED BY <2>1, <2>2, <2>3
<1> HIDE DEF R, c
<1>7. ts[a] # 0 /\ (OneBand => run[r].newest <= ts[a])
  BY <1>1, <1>2 DEF RunOK
<1>8. cursor.watermark <= run[r].newest /\ ~(cursor.phase = "claimed" /\ cursor.until > 0)
  BY <1>1, <1>2 DEF FreshOK, PastRead, Idlers
<1>9. Settled(c) = Settled(cursor)
  BY <1>4 DEF Settled
<1>10. CursorOK(c, tried')
  <2>1. OneBand => ts[a] >= cursor.watermark
    BY <1>1, <1>7, <1>8
  <2> QED BY <1>1, <1>4, <1>5, <1>9, <2>1 DEF CursorOK
<1>11. RunOK(R)
  BY <1>1, <1>2, <1>3 DEF RunOK
<1>12. FreshOK(R, c, tried')
  <2>1. ASSUME OneBand, NEW x \in tried' PROVE Counted(R, c, x)
    <3>1. CASE x = a
      BY <3>1, <1>2, <1>3 DEF Counted
    <3>2. CASE x \in tried
      <4>1. Counted(run[r], cursor, x)
        BY <2>1, <3>2, <1>1, <1>2 DEF FreshOK, PastRead
      <4> QED BY <4>1, <1>3, <1>9 DEF Counted
    <3> QED BY <2>1, <3>1, <3>2, <1>5
  <2> QED BY <1>3, <1>4, <1>8, <2>1 DEF FreshOK, Idlers, Working
<1>13. SaveGood(r, c, R)
  <2>1. ASSUME NEW n \in Nat PROVE n <= n
    OBVIOUS
  <2>2. cursor.watermark <= c.watermark
    BY <1>1, <1>4, <2>1
  <2> QED BY <1>4, <1>8, <1>10, <1>11, <1>12, <2>2 DEF SaveGood
<1>14. \A x \in tried' : ts[x] # 0
  BY <1>1, <1>5, <1>7
<1> QED BY <1>3, <1>5, <1>6, <1>13, <1>14, SavesWell DEF Claim

LEMMA ModelAnswersWell == ASSUME IInv, Window, NEW r \in Runs, ModelAnswers(r) PROVE Good
<1> DEFINE R == [run[r] EXCEPT !.stage = "written"]
<1>1. /\ run[r] \in RunType /\ RunOK(run[r]) /\ run[r].stage = "model"
      /\ run[r].fresh => FreshOK(run[r], cursor, tried)
  BY Here DEF ModelAnswers
<1>2. /\ R \in RunType /\ R.stage = "written" /\ R.ask = run[r].ask /\ R.me = run[r].me
      /\ R.queue = run[r].queue /\ R.newest = run[r].newest /\ R.floor = run[r].floor
      /\ R.fresh = run[r].fresh
  BY <1>1 DEF RunType, Stages
<1>3. Become(r, R)
  BY DEF ModelAnswers
<1> HIDE DEF R
<1>4. RunOK(R) /\ (R.fresh => FreshOK(R, cursor, tried))
  BY <1>1, <1>2 DEF RunOK, FreshOK, PastRead, Idlers, Working, Counted
<1> QED BY <1>2, <1>3, <1>4, BecomesWell DEF ModelAnswers

\* Without an answer the run releases its own claim and gives the row up.
LEMMA ModelFailsWell == ASSUME IInv, Window, NEW r \in Runs, ModelFails(r) PROVE Good
<1> DEFINE a == run[r].ask
           S == Skip(run[r], a)
           c == Cleared(cursor)
<1>1. /\ cursor \in CursorType /\ run[r].stage = "model" /\ run[r].fresh
      /\ FreshOK(run[r], cursor, tried) /\ CursorOK(cursor, tried) /\ \A x \in tried : ts[x] # 0
      /\ cursor.watermark \in Nat /\ tried \subseteq Asks
  BY Here DEF ModelFails, Save
<1>2. a \in Asks /\ a \in run[r].queue /\ run[r].rows < MaxRows
  BY <1>1, FromQueue DEF Working
<1>3. /\ S \in RunType /\ RunOK(S) /\ S.stage = "picking" /\ S.newest = run[r].newest
      /\ \A d : \A x \in Asks : Counted(run[r], d, x) => Counted(S, d, x)
  BY <1>2, SkipWell
<1>4. /\ c.phase = "" /\ c.answered = cursor.answered /\ c.unknown = cursor.unknown
      /\ c.watermark = cursor.watermark
  BY <1>1, <1>2, CursorOps, CursorLeaves
<1>5. Save(r, c, S)
  BY DEF ModelFails
<1> HIDE DEF S, c
<1>6. Settled(c) = Settled(cursor) /\ tried' = tried
  BY <1>4 DEF Settled, ModelFails
<1>7. CursorOK(c, tried')
  BY <1>1, <1>4, <1>6 DEF CursorOK
<1>8. FreshOK(S, c, tried')
  <2>1. ASSUME OneBand, NEW x \in tried PROVE Counted(S, c, x)
    <3>1. Counted(run[r], cursor, x)
      BY <2>1, <1>1 DEF FreshOK, PastRead, Working
    <3>2. Counted(S, cursor, x)
      <4>1. x \in Asks
        BY <1>1
      <4> QED BY <3>1, <4>1, <1>3
    <3> QED BY <3>2, <1>6 DEF Counted
  <2> QED BY <1>1, <1>3, <1>4, <1>6, <2>1 DEF FreshOK, Idlers, PastRead, Working
<1>9. SaveGood(r, c, S)
  <2>1. ASSUME NEW n \in Nat PROVE n <= n
    OBVIOUS
  <2>2. cursor.watermark <= c.watermark
    BY <1>1, <1>4, <2>1
  <2>3. cursor.owner = run[r].me /\ S.stage # run[r].stage
    BY <1>1, <1>3 DEF FreshOK
  <2> QED BY <1>3, <1>4, <1>7, <1>8, <2>2, <2>3 DEF SaveGood
<1> QED BY <1>1, <1>3, <1>5, <1>6, <1>9, SavesWell DEF ModelFails

\* Two comparisons in a row.
LEMMA AtMostChain == \A k, m, n \in Nat : k <= m /\ m <= n => k <= n
  OBVIOUS

\* Posting is written by the owner of the claim, or the pass stops.
LEMMA BeginPostWell == ASSUME IInv, Window, NEW r \in Runs, BeginPost(r) PROVE Good
<1>1. /\ run[r] \in RunType /\ cursor \in CursorType /\ RunOK(run[r])
      /\ run[r].stage = "written" /\ (run[r].fresh => FreshOK(run[r], cursor, tried))
      /\ CursorOK(cursor, tried) /\ \A x \in tried : ts[x] # 0
      /\ cursor.watermark \in Nat /\ cursor.until \in Nat
  BY Here DEF BeginPost
<1>2. run[r].ask \in Asks /\ tried' = tried
  BY <1>1, FromQueue DEF Working, BeginPost
<1>3. CASE MayPost(cursor, run[r].ask, run[r].me)
  <2> DEFINE R == [run[r] EXCEPT !.stage = "posting"]
             c == WritePosting(cursor)
  <2>1. /\ R \in RunType /\ R.stage = "posting" /\ R.ask = run[r].ask
        /\ R.queue = run[r].queue /\ R.newest = run[r].newest /\ R.floor = run[r].floor
    BY <1>1 DEF RunType, Stages
  <2>2. /\ c.watermark = cursor.watermark
        /\ c.answered = cursor.answered /\ c.unknown = cursor.unknown
    BY <1>1, CursorLeaves
  <2>3. Save(r, c, R) /\ run[r].fresh /\ cursor.owner = run[r].me
    BY <1>3 DEF BeginPost, Save, MayPost
  <2> HIDE DEF R, c
  <2>4. Settled(c) = Settled(cursor)
    BY <2>2 DEF Settled
  <2>5. CursorOK(c, tried') /\ RunOK(R)
    BY <1>1, <1>2, <2>1, <2>2, <2>4 DEF CursorOK, RunOK, Working
  <2>6. FreshOK(R, c, tried')
    BY <1>1, <1>2, <2>1, <2>2, <2>3, <2>4 DEF FreshOK, PastRead, Idlers, Working, Counted
  <2>7. SaveGood(r, c, R)
    <3>1. ASSUME NEW n \in Nat PROVE n <= n
      OBVIOUS
    <3>2. cursor.watermark <= c.watermark
      BY <1>1, <2>2, <3>1
    <3> QED BY <1>1, <2>1, <2>2, <2>3, <2>5, <2>6, <3>2 DEF SaveGood
  <2> QED BY <1>1, <1>2, <2>1, <2>3, <2>7, SavesWell DEF BeginPost
<1>4. CASE ~MayPost(cursor, run[r].ask, run[r].me)
  <2> DEFINE R == [run[r] EXCEPT !.stage = "done"]
  <2>1. /\ R \in RunType /\ R.stage = "done" /\ R.fresh = run[r].fresh
        /\ R.queue = run[r].queue /\ R.newest = run[r].newest /\ R.floor = run[r].floor
    BY <1>1 DEF RunType, Stages
  <2>2. Become(r, R)
    BY <1>4 DEF BeginPost
  <2> HIDE DEF R
  <2>3. RunOK(R)
    BY <1>1, <2>1 DEF RunOK, Working
  <2>4. ASSUME run[r].fresh PROVE ~(cursor.phase = "claimed" /\ cursor.until > 0)
    <3>1. cursor.inflight = run[r].ask /\ cursor.owner = run[r].me
      BY <1>1, <2>4 DEF IInv, FreshHoldsClaim, Holds, FreshOK
    <3> QED BY <1>2, <1>4, <3>1, AsksAssumption DEF MayPost, Live
  <2>5. R.fresh => FreshOK(R, cursor, tried)
    BY <1>1, <2>1, <2>4 DEF FreshOK, PastRead, Working, Counted
  <2> QED BY <2>1, <2>2, <2>3, <2>5, BecomesWell DEF BeginPost
<1> QED BY <1>3, <1>4

\* The stage of a run that is appending, or has appended, moves on.
LEMMA MovesOn ==
    ASSUME IInv, Window, NEW r \in Runs, NEW g \in {"sent", "done"},
           run[r].stage \in {"posting", "sent"}
    PROVE  LET R == [run[r] EXCEPT !.stage = g] IN
           R \in RunType /\ RunOK(R) /\ (R.fresh => FreshOK(R, cursor, tried))
<1> DEFINE R == [run[r] EXCEPT !.stage = g]
<1>1. /\ run[r] \in RunType /\ RunOK(run[r])
      /\ run[r].fresh => FreshOK(run[r], cursor, tried)
  BY Here
<1>2. /\ R \in RunType /\ R.stage = g /\ R.fresh = run[r].fresh /\ R.ask = run[r].ask
      /\ R.queue = run[r].queue /\ R.newest = run[r].newest /\ R.floor = run[r].floor
  BY <1>1 DEF RunType, Stages
<1> HIDE DEF R
<1>3. run[r].fresh => cursor.phase = "posting"
  BY DEF IInv, FreshHoldsClaim, Holds
<1>4. RunOK(R) /\ (R.fresh => FreshOK(R, cursor, tried))
  BY <1>1, <1>2, <1>3 DEF RunOK, FreshOK, PastRead, Idlers, Working, Counted
<1> QED BY <1>2, <1>4 DEF R

LEMMA DispatchWell == ASSUME IInv, Window, NEW r \in Runs, Dispatch(r) PROVE Good
  BY MovesOn, BecomesWell DEF Dispatch

LEMMA UnconfirmedWell == ASSUME IInv, Window, NEW r \in Runs, Unconfirmed(r) PROVE Good
  BY MovesOn, BecomesWell DEF Unconfirmed

\* A confirmed reply settles its row; in one band it was the oldest of the queue.
LEMMA ConfirmWell == ASSUME IInv, Window, NEW r \in Runs, Confirm(r) PROVE Good
<1> DEFINE a == run[r].ask
           c == MarkAnswered(cursor, a)
           R == [run[r] EXCEPT !.stage = "picking", !.queue = @ \ {a}, !.rows = @ + 1,
                               !.ask = NoAsk, !.newest = Later(@, ts[a])]
<1>1. /\ run[r] \in RunType /\ cursor \in CursorType /\ RunOK(run[r])
      /\ run[r].stage = "sent" /\ run[r].fresh /\ FreshOK(run[r], cursor, tried)
      /\ CursorOK(cursor, tried) /\ \A x \in tried : ts[x] # 0
      /\ cursor.watermark \in Nat /\ clock \in Nat /\ run[r].newest \in Nat
      /\ \A x \in Asks : ts[x] \in Nat
  BY Here DEF Confirm, Save
<1>2. a \in Asks /\ a \in run[r].queue /\ a \in First(run[r].queue) /\ run[r].rows < MaxRows
  BY <1>1, FromQueue DEF Working, RunOK
<1>3. run[r].newest \in Times /\ ts[a] \in Times /\ ts[a] <= clock /\ run[r].queue \subseteq Asks
      /\ run[r].rows + 1 \in 0..MaxRows
  <2>1. run[r].newest \in Times /\ run[r].queue \subseteq Asks /\ run[r].rows \in 0..MaxRows
    BY <1>1, RunFields
  <2>2. run[r].rows + 1 \in 0..MaxRows
    BY <1>2, <2>1, BoundsAssumption
  <2> QED BY <1>2, <2>1, <2>2 DEF IInv, TypeOK, Window
<1>4. /\ R \in RunType /\ R.stage = "picking" /\ R.queue = run[r].queue \ {a}
      /\ R.newest = Later(run[r].newest, ts[a]) /\ R.floor = run[r].floor
  BY <1>1, <1>3 DEF RunType, Stages, Later
<1>5. /\ c.watermark = cursor.watermark /\ c.phase = ""
      /\ c.answered = cursor.answered \cup {a} /\ c.unknown = cursor.unknown
  BY <1>1, <1>2, CursorOps, CursorLeaves
<1>6. Save(r, c, R) /\ tried' = tried
  BY DEF Confirm
<1> HIDE DEF R, c
<1>7. cursor.phase = "posting"
  BY <1>1 DEF IInv, FreshHoldsClaim, Holds
<1>8. Settled(c) = Settled(cursor) \cup {a}
  BY <1>5 DEF Settled
<1>9. CursorOK(c, tried')
  BY <1>1, <1>5, <1>6, <1>8 DEF CursorOK
<1>10. R.newest <= clock /\ run[r].newest <= R.newest
  BY <1>1, <1>2, <1>3, <1>4 DEF Later, RunOK
<1>11. RunOK(R)
  <2>1. ASSUME NEW x \in R.queue PROVE ts[x] # 0 /\ (OneBand => R.newest <= ts[x])
    <3>1. /\ x \in run[r].queue /\ x \in Asks /\ ts[x] # 0 /\ Ahead(a, x)
          /\ OneBand => run[r].newest <= ts[x]
      BY <1>1, <1>2, <1>3, <1>4 DEF RunOK, First
    <3>2. OneBand => ts[a] <= ts[x]
      BY <1>2, <3>1 DEF Ahead, OneBand
    <3> QED BY <1>4, <3>1, <3>2 DEF Later
  <2> QED BY <1>4, <1>10, <2>1 DEF RunOK, Working
<1>12. FreshOK(R, c, tried')
  <2>1. ASSUME OneBand, NEW x \in tried PROVE Counted(R, c, x)
    <3>1. Counted(run[r], cursor, x)
      BY <2>1, <1>1 DEF FreshOK, PastRead, Working
    <3> QED BY <3>1, <1>4, <1>8 DEF Counted
  <2>2. c.watermark <= R.newest
    <3>1. cursor.watermark <= run[r].newest
      BY <1>1 DEF FreshOK, PastRead, Working
    <3>2. R.newest \in Nat
      BY <1>1, <1>2, <1>4 DEF Later
    <3> QED BY <1>1, <1>5, <1>10, <3>1, <3>2, AtMostChain
  <2> QED BY <1>4, <1>5, <1>6, <2>1, <2>2 DEF FreshOK
<1>13. SaveGood(r, c, R)
  <2>1. ASSUME NEW n \in Nat PROVE n <= n
    OBVIOUS
  <2>2. cursor.watermark <= c.watermark
    BY <1>1, <1>5, <2>1
  <2> QED BY <1>5, <1>7, <1>9, <1>11, <1>12, <2>2 DEF SaveGood
<1> QED BY <1>1, <1>4, <1>6, <1>13, SavesWell DEF Confirm

\* The watermark a pass leaves is not below the old one, and passes no row
\* that the floor or the queue counts.
LEMMA HeldBetween ==
    ASSUME NEW R \in RunType, NEW old \in Nat, old <= R.newest, NEW top \in Nat, R.newest <= top,
           R.newest \in Nat, R.floor \in Nat
    PROVE  /\ old <= Held(R, old) /\ Held(R, old) <= top /\ Held(R, old) \in Nat
           /\ \A t \in Nat : /\ R.newest <= t /\ old <= t => Held(R, old) <= t
                             /\ R.floor # 0 /\ R.floor <= t /\ old <= t => Held(R, old) <= t
  BY DEF Held, Later

\* The mark of a finished pass passes no tried ask without an answer.
LEMMA FinishWell == ASSUME IInv, Window, NEW r \in Runs, Finish(r) PROVE Good
<1> DEFINE m == Held(run[r], cursor.watermark)
           c == [cursor EXCEPT !.watermark = Held(run[r], @)]
<1>1. /\ run[r] \in RunType /\ cursor \in CursorType /\ RunOK(run[r])
      /\ run[r].fresh /\ FreshOK(run[r], cursor, tried)
      /\ CursorOK(cursor, tried) /\ \A x \in tried : ts[x] # 0
      /\ cursor.watermark \in Nat /\ clock \in Nat
      /\ run[r].newest \in Nat /\ run[r].floor \in Nat
      /\ tried \subseteq Asks /\ \A x \in Asks : ts[x] \in Nat
  BY Here DEF Finish, Save
<1>2. run[r].stage \in {"done", "picking"}
  BY DEF Finish, Ends
<1>3. cursor.watermark <= run[r].newest /\ ~(cursor.phase = "claimed" /\ cursor.until > 0)
      /\ run[r].newest <= clock
  BY <1>1, <1>2 DEF FreshOK, PastRead, Idlers, RunOK
<1>4. /\ cursor.watermark <= m /\ m <= clock /\ m \in Nat
      /\ \A t \in Nat : /\ run[r].newest <= t /\ cursor.watermark <= t => m <= t
                        /\ run[r].floor # 0 /\ run[r].floor <= t /\ cursor.watermark <= t => m <= t
  BY <1>1, <1>3, HeldBetween
<1>5. c.watermark = m /\ c.answered = cursor.answered /\ c.unknown = cursor.unknown
  BY <1>1 DEF CursorType
<1>6. Save(r, c, Off) /\ tried' = tried
  BY DEF Finish
<1> HIDE DEF c, m
<1>7. Settled(c) = Settled(cursor)
  BY <1>5 DEF Settled
<1>8. CursorOK(c, tried')
  <2>1. ASSUME OneBand, NEW x \in tried, x \notin Settled(cursor) \cup landed
        PROVE  ts[x] >= m
    <3>1. ts[x] >= cursor.watermark /\ Counted(run[r], cursor, x) /\ ts[x] \in Nat
      BY <1>1, <1>2, <2>1 DEF CursorOK, FreshOK, PastRead
    <3>2. CASE x \in run[r].queue
      BY <3>1, <3>2, <1>1, <1>4, <2>1 DEF RunOK
    <3>3. CASE run[r].floor # 0 /\ run[r].floor <= ts[x]
      BY <3>1, <3>3, <1>4
    <3> QED BY <2>1, <3>1, <3>2, <3>3 DEF Counted
  <2> QED BY <1>4, <1>5, <1>6, <1>7, <2>1 DEF CursorOK
<1>9. Off \in RunType /\ RunOK(Off) /\ ~Off.fresh
  BY OffGood
<1>10. SaveGood(r, c, Off)
  BY <1>3, <1>4, <1>5, <1>8, <1>9 DEF SaveGood
<1> QED BY <1>1, <1>6, <1>9, <1>10, SavesWell DEF Finish

-----------------------------------------------------------------------------
(* The board and the clock leave the window alone: asks arrive with their  *)
(* timestamps, and nothing that was answered is forgotten.                 *)

\* A step that changes neither the runs nor what the cursor settles.
LEMMA WorldWell ==
    ASSUME Window, NEW n \in Nat, cursor' = [cursor EXCEPT !.until = n], cursor \in CursorType,
           cursor.watermark \in Nat, cursor.until \in Nat, cursor.until = 0 => n = 0, UNCHANGED <<run, tried>>,
           \A a \in Asks : ts[a] # 0 => ts'[a] = ts[a],
           \A a \in Asks : ts'[a] <= clock', \A m \in Nat : m <= clock => m <= clock',
           \A r \in Runs : run[r].queue \subseteq Asks /\ run[r].newest \in Nat,
           tried \subseteq Asks, landed \subseteq landed'
    PROVE  Good
<1>1. /\ cursor'.watermark = cursor.watermark /\ cursor'.answered = cursor.answered
      /\ cursor'.unknown = cursor.unknown /\ cursor'.owner = cursor.owner
      /\ cursor'.phase = cursor.phase /\ cursor'.until = n
      /\ [cursor' EXCEPT !.until = 0] = [cursor EXCEPT !.until = 0]
  BY DEF CursorType
<1>2. Settled(cursor') = Settled(cursor)
  BY <1>1 DEF Settled
<1>3. \A a \in tried : ts'[a] = ts[a] /\ ts[a] # 0
  BY DEF Window
<1>4. CursorOK(cursor, tried)'
  BY <1>1, <1>2, <1>3 DEF Window, CursorOK
<1>5. ASSUME NEW r \in Runs PROVE RunOK(run[r])'
  <2>1. RunOK(run[r]) /\ run[r].queue \subseteq Asks /\ run[r].newest \in Nat
    BY DEF Window
  <2>2. \A a \in run[r].queue : ts'[a] = ts[a] /\ ts[a] # 0
    BY <2>1 DEF RunOK
  <2>3. First(run[r].queue)' = First(run[r].queue)
    BY <2>2 DEF First, Ahead
  <2> QED BY <2>1, <2>2, <2>3 DEF RunOK
<1>6. ASSUME NEW r \in Runs, run'[r].fresh PROVE FreshOK(run[r], cursor, tried)'
  <2>1. FreshOK(run[r], cursor, tried)
    BY <1>6 DEF Window
  <2>2. \A a \in tried : Counted(run[r], cursor, a) => Counted(run[r], cursor, a)'
    BY <1>2, <1>3 DEF Counted
  <2>3. cursor.until = 0 => ~(cursor'.until > 0)
    BY <1>1
  <2>4. run[r].stage \in Idlers => ~(cursor'.phase = "claimed" /\ cursor'.until > 0)
    <3>1. CASE cursor.phase # "claimed"
      BY <3>1, <1>1
    <3>2. CASE run[r].stage \in Idlers /\ cursor.phase = "claimed" /\ cursor.until = 0
      BY <3>2, <2>3
    <3>3. CASE run[r].stage \in Idlers /\ cursor.phase = "claimed" /\ cursor.until # 0
      <4>1. ~(cursor.until > 0)
        BY <3>3, <2>1 DEF FreshOK
      <4> QED BY <4>1, <3>3
    <3> QED BY <3>1, <3>2, <3>3
  <2> QED BY <1>1, <2>1, <2>2, <2>4 DEF FreshOK
<1>7. Guarded /\ Kept
  <2>1. ASSUME NEW m \in Nat PROVE m <= m
    OBVIOUS
  <2> QED BY <1>1, <2>1 DEF Guarded, Kept
<1>8. Window'
  BY <1>3, <1>4, <1>5, <1>6 DEF Window
<1> QED BY <1>7, <1>8 DEF Good

\* What WorldWell wants to know of the state.
LEMMA WorldHere ==
    ASSUME IInv, Window
    PROVE  /\ cursor \in CursorType /\ cursor.watermark \in Nat /\ cursor.until \in Nat
           /\ tried \subseteq Asks /\ clock \in Nat /\ ts \in [Asks -> Times]
           /\ \A r \in Runs : run[r].queue \subseteq Asks /\ run[r].newest \in Nat
           /\ \A a \in Asks : ts[a] \in Nat /\ ts[a] <= clock
           /\ cursor = [cursor EXCEPT !.until = cursor.until]
<1>1. cursor \in CursorType /\ \A r \in Runs : run[r].queue \subseteq Asks
  BY RunFields DEF IInv, TypeOK
<1>2. cursor = [cursor EXCEPT !.until = cursor.until]
  BY <1>1 DEF CursorType
<1> QED BY <1>1, <1>2, Numbers DEF IInv, TypeOK, Window

\* An ask arrives with a timestamp of the past.
LEMMA AskWell == ASSUME IInv, Window, NEW a \in Asks, Ask(a) PROVE Good
<1>1. PICK t \in Later(1, clock - Lag)..clock : ts' = [ts EXCEPT ![a] = t]
  BY DEF Ask
<1>2. t <= clock
  BY <1>1
<1>3. \A x \in Asks : ts'[x] <= clock /\ (ts[x] # 0 => ts'[x] = ts[x])
  BY <1>1, <1>2, WorldHere DEF Ask
<1> QED BY <1>3, WorldHere, WorldWell DEF Ask

LEMMA DeliveryWell == ASSUME IInv, Window, NEW a \in Asks, Land(a) \/ Lose(a) PROVE Good
<1>1. landed \subseteq landed' /\ UNCHANGED <<ts, clock, cursor, run, tried>>
  BY DEF Land, Lose
<1> QED BY <1>1, WorldHere, WorldWell

\* Time passes for the lease too.
LEMMA TickWell == ASSUME IInv, Window, Tick PROVE Good
<1> DEFINE n == IF cursor.until > 0 THEN cursor.until - 1 ELSE 0
<1>1. n \in Nat /\ (cursor.until = 0 => n = 0)
  BY WorldHere
<1>2. cursor' = [cursor EXCEPT !.until = n]
  BY DEF Tick
<1> HIDE DEF n
<1>3. clock' = clock \/ clock' = clock + 1
  BY DEF Tick
<1>4. \A m \in Nat : m <= clock => m <= clock'
  BY <1>3, WorldHere
<1>5. \A x \in Asks : ts[x] \in Nat /\ ts[x] <= clock'
  BY <1>4, WorldHere
<1> QED BY <1>1, <1>2, <1>4, <1>5, WorldHere, WorldWell DEF Tick

LEMMA NothingWell == ASSUME IInv, Window, UNCHANGED vars PROVE Good
  BY WorldHere, WorldWell DEF vars

\* Every step of a run keeps the window and takes nothing back.
LEMMA WorkWell == ASSUME IInv, Window, NEW r \in Runs, Work(r) PROVE Good
<1>1. CASE Resolve(r)       BY <1>1, ResolveWell
<1>2. CASE Read(r)          BY <1>2, ReadWell
<1>3. CASE Stamp(r)         BY <1>3, StampWell
<1>4. CASE \E a \in Asks : Claim(r, a)         BY <1>4, ClaimWell
<1>5. CASE \E a \in Asks : LeaveForOwner(r, a) BY <1>5, LeaveWell
<1>6. CASE ModelAnswers(r)  BY <1>6, ModelAnswersWell
<1>7. CASE ModelFails(r)    BY <1>7, ModelFailsWell
<1>8. CASE BeginPost(r)     BY <1>8, BeginPostWell
<1>9. CASE Dispatch(r)      BY <1>9, DispatchWell
<1>10. CASE Confirm(r)      BY <1>10, ConfirmWell
<1>11. CASE Unconfirmed(r)  BY <1>11, UnconfirmedWell
<1>12. CASE Finish(r)       BY <1>12, FinishWell
<1>13. CASE EndStale(r)     BY <1>13, EndStaleWell
<1> QED
  BY <1>1, <1>2, <1>3, <1>4, <1>5, <1>6, <1>7, <1>8, <1>9, <1>10, <1>11, <1>12, <1>13 DEF Work

\* So does every step.
LEMMA StepWell == ASSUME IInv, Window, [Next]_vars PROVE Good
<1>1. CASE \E r \in Runs : Start(r) \/ Work(r) \/ Crash(r)
  BY <1>1, StartWell, WorkWell, CrashWell
<1>2. CASE \E a \in Asks : Ask(a) \/ Land(a) \/ Lose(a)
  BY <1>2, AskWell, DeliveryWell
<1>3. CASE Tick
  BY <1>3, TickWell
<1>4. CASE UNCHANGED vars
  BY <1>4, NothingWell
<1> QED BY <1>1, <1>2, <1>3, <1>4 DEF Next

\* It holds at the start.
LEMMA InitWindow == Init => Window
<1> SUFFICES ASSUME Init PROVE Window
  OBVIOUS
<1>1. IInv
  BY InitInv
<1>2. CursorOK(cursor, tried) /\ \A a \in Asks : ts[a] <= clock
  <2>1. cursor.watermark = 1 /\ clock = 1 /\ tried = {} /\ \A a \in Asks : ts[a] = 0
    BY DEF Init
  <2> QED BY <2>1 DEF CursorOK
<1>3. \A r \in Runs : RunOK(run[r]) /\ ~run[r].fresh
  BY <1>1, OffGood DEF Init
<1> QED BY <1>2, <1>3 DEF Init, Window

\* The window holds throughout.
LEMMA SpecWindow == Spec => [](IInv /\ Window)
<1>1. Init => IInv /\ Window
  BY InitInv, InitWindow
<1>2. IInv /\ Window /\ [Next]_vars => (IInv /\ Window)'
  BY NextKeeps, StepWell DEF Good
<1> QED BY <1>1, <1>2, PTL DEF Spec

\* However runs overlap, no save of scripts/agent_waker.py or its cloud wrapper moves
\* the cursor under a live claim of another run, and none forgets an ask that was
\* settled or takes the watermark back: the compare-and-swap save and the gate suffice.
THEOREM NothingIsTakenBack == Spec => SavesTakeNothingBack
<1>1. IInv /\ Window /\ [Next]_vars => Guarded /\ Kept
  BY StepWell DEF Good
<1>2. Guarded =>
        [cursor.phase = "claimed" /\ cursor.until > 0
         /\ [cursor' EXCEPT !.until = 0] # [cursor EXCEPT !.until = 0]
       => \E r \in Runs : run[r].me = cursor.owner /\ run'[r].stage # run[r].stage]_vars
  BY DEF Guarded
<1>3. Kept => [/\ cursor.answered \subseteq cursor'.answered
               /\ cursor.unknown \subseteq cursor'.unknown
               /\ cursor.watermark <= cursor'.watermark]_vars
  BY DEF Kept
<1> QED
  BY <1>1, <1>2, <1>3, SpecWindow, PTL
  DEF Spec, SavesTakeNothingBack, LiveClaimIsLeftAlone, ProgressNotErased

\* While all asks are of one band, and so answered in the order of time, the
\* watermark passes no ask that a run tried and could not answer.
THEOREM TriedIsReadAgain ==
    ASSUME \A a, b \in Asks : a \in Whatsapp <=> b \in Whatsapp
    PROVE  Spec => []TriedStaysInWindow
<1>1. OneBand
  BY DEF OneBand
<1>2. IInv /\ Window => TriedStaysInWindow
  BY <1>1 DEF Window, CursorOK, TriedStaysInWindow, Answered
<1> QED BY <1>2, SpecWindow, PTL
=============================================================================
