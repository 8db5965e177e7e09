------------------------------ MODULE AgentWaker ------------------------------
(***************************************************************************)
(* The cloud waker of an API-only agent: cloud/agent-waker/main.py around  *)
(* the pass of scripts/agent_waker.py.  A scheduler starts runs, which may *)
(* overlap.  Each reads the board for asks addressed to the agent, calls   *)
(* the model and posts a reply.  What must survive a run is one cursor     *)
(* object, saved by compare-and-swap on its generation; the replies on the *)
(* board are the second record.                                            *)
(*                                                                         *)
(* A run keeps a copy of the cursor with the generation it was read at,    *)
(* and every save replaces both.  So while nobody else saved (fresh) the   *)
(* copy IS the cursor, and afterwards the run can save nothing: the copy   *)
(* is not modelled, and a stale run may end at any step that saves.        *)
(* Leases are countdowns.                                                  *)
(***************************************************************************)
EXTENDS Integers, FiniteSets

CONSTANTS Asks,       \* source ids of rows addressed to the agent
          Whatsapp,   \* those the person sent: answered first
          NoAsk,
          Runs,       \* runs that may be alive at one time
          Owners,     \* claim owner ids (uuid4): more of them than Runs
          Nobody,
          MaxRows,    \* --max, rows answered in one pass
          ClaimLease, \* CLAIM_LEASE_SECONDS
          PostLease,  \* POST_LEASE_SECONDS
          Lag,        \* bound: how long after its timestamp a row is on the board
          MaxTime,    \* bound: the last timestamp; the clock stops there
          MaxCrashes  \* bound: runs that die

ASSUME AsksAssumption == Whatsapp \subseteq Asks /\ NoAsk \notin Asks /\ Nobody \notin Owners
ASSUME OwnersAssumption == IsFiniteSet(Owners) /\ Cardinality(Owners) > Cardinality(Runs)
ASSUME TimesAssumption == /\ ClaimLease \in Nat \ {0} /\ PostLease \in Nat \ {0}
                          /\ Lag \in Nat /\ MaxTime \in Nat \ {0}
ASSUME BoundsAssumption == MaxRows \in Nat \ {0} /\ MaxCrashes \in Nat

VARIABLES ts,      \* ts[a]: the timestamp of ask a, 0 while it is not on the board
          sent,    \* sent[a]: appends of a reply to a that were dispatched
          wire,    \* replies dispatched, neither landed nor lost
          landed,  \* replies on the board
          cursor,  \* the object <agent>_waker
          clock,
          run,     \* run[r]: one execution of the job
          crashes, \* runs that have died
          tried    \* history: asks some run ever claimed

vars == <<ts, sent, wire, landed, cursor, clock, run, crashes, tried>>

Times == 0..MaxTime
Leases == (0..ClaimLease) \cup (0..PostLease)
Stages == {"off", "loaded", "gated", "empty", "picking", "model", "written",
           "posting", "sent", "done"}
CursorType == [watermark : Times, answered : SUBSET Asks, unknown : SUBSET Asks,
               inflight : Asks \cup {NoAsk}, owner : Owners \cup {Nobody}, until : Leases,
               phase : {"", "claimed", "posting"}]
RunType == [stage : Stages, me : Owners \cup {Nobody}, fresh : BOOLEAN,
            queue : SUBSET Asks, rows : 0..MaxRows, ask : Asks \cup {NoAsk},
            newest : Times, floor : Times]

TypeOK ==
    /\ ts \in [Asks -> Times]
    /\ sent \in [Asks -> Nat]
    /\ wire \subseteq Asks /\ landed \subseteq Asks /\ tried \subseteq Asks
    /\ cursor \in CursorType
    /\ (cursor.inflight = NoAsk) <=> (cursor.phase = "")
    /\ clock \in 1..MaxTime
    /\ run \in [Runs -> RunType]
    /\ crashes \in 0..MaxCrashes

Off == [stage |-> "off", me |-> Nobody, fresh |-> FALSE, queue |-> {}, rows |-> 0,
        ask |-> NoAsk, newest |-> 0, floor |-> 0]

\* The first run finds a seeded cursor: a run without one refuses.
Init ==
    /\ ts = [a \in Asks |-> 0]
    /\ sent = [a \in Asks |-> 0]
    /\ wire = {} /\ landed = {} /\ tried = {}
    /\ cursor = [watermark |-> 1, answered |-> {}, unknown |-> {}, inflight |-> NoAsk,
                 owner |-> Nobody, until |-> 0, phase |-> ""]
    /\ clock = 1
    /\ run = [r \in Runs |-> Off]
    /\ crashes = 0

-----------------------------------------------------------------------------
(* The cursor: what a save does, and the claims written into it.           *)

\* Faulty variant: a store without the precondition, the last writer wins.
SaveBlind(r, c, R) ==
    /\ cursor' = c
    /\ run' = [run EXCEPT ![r] = R]

\* state_store.save: refused unless the run's generation is the current one.
\* The next state of run r is R; every other copy is stale from now on.
Save(r, c, R) ==
    /\ run[r].fresh
    /\ cursor' = c
    /\ run' = [s \in Runs |->
          IF s = r THEN R
          ELSE IF c = cursor THEN run[s] ELSE [run[s] EXCEPT !.fresh = FALSE]]

Become(r, R) == run' = [run EXCEPT ![r] = R] /\ UNCHANGED cursor

Cleared(c) == [c EXCEPT !.inflight = NoAsk, !.owner = Nobody, !.until = 0, !.phase = ""]
MarkAnswered(c, a) == Cleared([c EXCEPT !.answered = @ \cup {a}])
\* Faulty variant: no reply on the board is taken for a reply never posted.
QuarantineAsFree(c, a) == Cleared(c)
\* Faulty variant: an unconfirmed post is left as it is.
QuarantineNot(c, a) == c

\* quarantine: may have landed; never posted again, never called answered.
Quarantine(c, a) == Cleared([c EXCEPT !.unknown = @ \cup {a}])

WriteClaim(c, a, o) ==
    [c EXCEPT !.inflight = a, !.owner = o, !.until = ClaimLease, !.phase = "claimed"]
WritePosting(c) == [c EXCEPT !.phase = "posting", !.until = IF @ < PostLease THEN PostLease ELSE @]

\* Faulty variant: the lease compared the wrong way round.
LiveReversed(c) == c.inflight # NoAsk /\ c.until = 0

Live(c) == c.inflight # NoAsk /\ c.until > 0
Settled(c) == c.answered \cup c.unknown

\* Faulty variant: an expired claim is nobody's to take.
ClaimableFree(c, a) ==
    /\ a \notin Settled(c)
    /\ c.inflight = NoAsk

\* claim_answer: free, or this very row with an expired claim.
Claimable(c, a) ==
    /\ a \notin Settled(c)
    /\ c.phase # "posting"
    /\ c.inflight \in {NoAsk, a}
    /\ ~Live(c)

\* The gate: a live claim is left to the run inside the model, without a save.
MustDefer(c) == Live(c)

\* begin_post: the claim is still this run's, and its lease is live.
MayPost(c, a, o) ==
    c.inflight = a /\ c.owner = o /\ c.phase = "claimed" /\ Live(c)

-----------------------------------------------------------------------------
(* The pass.  One pick is one iteration of the loop over pending rows.     *)

\* select: addressed rows inside the window, without those answered or
\* quarantined in the cursor and those whose reply is on the board.
Pending(c) ==
    {a \in Asks : ts[a] # 0 /\ ts[a] >= c.watermark} \ (Settled(c) \cup landed)

\* The person's rows first, then oldest first.
Ahead(a, b) ==
    \/ a \in Whatsapp /\ b \notin Whatsapp
    \/ (a \in Whatsapp <=> b \in Whatsapp) /\ ts[a] <= ts[b]
First(Q) == {a \in Q : \A b \in Q : Ahead(a, b)}

Later(t, u) == IF t < u THEN u ELSE t

\* Faulty variant: the floor forgotten.
HeldNot(R, old) == R.newest

\* The watermark a pass leaves: the newest row answered, held one second below
\* the earliest row it could not answer, never below where it was.
Held(R, old) ==
    IF R.floor # 0 /\ R.floor - 1 < R.newest THEN Later(R.floor - 1, old) ELSE R.newest

\* Give up on the picked row and go on; floor_ts is the earliest such row, if any.
Skip(R, a) == [R EXCEPT !.queue = @ \ {a}, !.rows = @ + 1, !.ask = NoAsk,
                        !.floor = IF @ = 0 \/ ts[a] < @ THEN ts[a] ELSE @,
                        !.stage = "picking"]

-----------------------------------------------------------------------------
(* One run.                                                                *)

Start(r) ==
    /\ run[r].stage = "off"
    /\ \E me \in Owners \ ({cursor.owner} \cup {run[s].me : s \in Runs}) :
          Become(r, [Off EXCEPT !.stage = "loaded", !.me = me, !.fresh = TRUE])
    /\ UNCHANGED <<ts, sent, wire, landed, clock, crashes, tried>>

\* resolve_inflight and the live-claim gate.
Resolve(r) ==
    /\ run[r].stage = "loaded"
    /\ LET a == cursor.inflight
           next == [run[r] EXCEPT !.stage = "gated"] IN
       IF a \in landed \cup cursor.answered THEN Save(r, MarkAnswered(cursor, a), next)
       ELSE IF cursor.phase = "posting" THEN Save(r, Quarantine(cursor, a), next)
       ELSE /\ run[r].fresh
            /\ Become(r, IF MustDefer(cursor) THEN Off ELSE next)
    /\ UNCHANGED <<ts, sent, wire, landed, clock, crashes, tried>>

\* read_since and select.
Read(r) ==
    /\ run[r].stage = "gated"
    /\ run[r].fresh
    /\ Become(r, [run[r] EXCEPT
          !.stage = IF Pending(cursor) = {} THEN "empty" ELSE "picking",
          !.queue = Pending(cursor), !.newest = cursor.watermark])
    /\ UNCHANGED <<ts, sent, wire, landed, clock, crashes, tried>>

\* Nothing pending: the watermark becomes the time after the read returned.
Stamp(r) ==
    /\ run[r].stage = "empty"
    /\ Become(r, [run[r] EXCEPT !.stage = "done", !.newest = clock])
    /\ UNCHANGED <<ts, sent, wire, landed, clock, crashes, tried>>

Picks(r, a) == /\ run[r].stage = "picking" /\ run[r].fresh
               /\ run[r].rows < MaxRows
               /\ a \in First(run[r].queue)

Claim(r, a) ==
    /\ Picks(r, a)
    /\ Claimable(cursor, a)
    /\ Save(r, WriteClaim(cursor, a, run[r].me), [run[r] EXCEPT !.stage = "model", !.ask = a])
    /\ tried' = tried \cup {a}
    /\ UNCHANGED <<ts, sent, wire, landed, clock, crashes>>

\* "left for the run that owns it".
LeaveForOwner(r, a) ==
    /\ Picks(r, a)
    /\ ~Claimable(cursor, a)
    /\ Become(r, Skip(run[r], a))
    /\ UNCHANGED <<ts, sent, wire, landed, clock, crashes, tried>>

\* The model answers, or there is no text and the run releases its own claim.
ModelAnswers(r) ==
    /\ run[r].stage = "model"
    /\ Become(r, [run[r] EXCEPT !.stage = "written"])
    /\ UNCHANGED <<ts, sent, wire, landed, clock, crashes, tried>>

ModelFails(r) ==
    /\ run[r].stage = "model"
    /\ Save(r, Cleared(cursor), Skip(run[r], run[r].ask))
    /\ UNCHANGED <<ts, sent, wire, landed, clock, crashes, tried>>

\* begin_post; refused, the pass stops as after an unconfirmed post.
BeginPost(r) ==
    /\ run[r].stage = "written"
    /\ IF MayPost(cursor, run[r].ask, run[r].me)
       THEN Save(r, WritePosting(cursor), [run[r] EXCEPT !.stage = "posting"])
       ELSE Become(r, [run[r] EXCEPT !.stage = "done"])
    /\ UNCHANGED <<ts, sent, wire, landed, clock, crashes, tried>>

\* fleet_agent appends once.
Dispatch(r) ==
    /\ run[r].stage = "posting"
    /\ sent' = [sent EXCEPT ![run[r].ask] = @ + 1]
    /\ wire' = wire \cup {run[r].ask}
    /\ Become(r, [run[r] EXCEPT !.stage = "sent"])
    /\ UNCHANGED <<ts, landed, clock, crashes, tried>>

\* Faulty variant: a dispatched append counts as a reply.
ConfirmUnread(r) ==
    /\ run[r].stage = "sent"
    /\ LET a == run[r].ask IN
       Save(r, MarkAnswered(cursor, a),
            [run[r] EXCEPT !.stage = "picking", !.queue = @ \ {a}, !.rows = @ + 1,
                           !.ask = NoAsk, !.newest = Later(@, ts[a])])
    /\ UNCHANGED <<ts, sent, wire, landed, clock, crashes, tried>>

\* The Row_ID was read back.
Confirm(r) ==
    /\ run[r].stage = "sent"
    /\ run[r].ask \in landed
    /\ LET a == run[r].ask IN
       Save(r, MarkAnswered(cursor, a),
            [run[r] EXCEPT !.stage = "picking", !.queue = @ \ {a}, !.rows = @ + 1,
                           !.ask = NoAsk, !.newest = Later(@, ts[a])])
    /\ UNCHANGED <<ts, sent, wire, landed, clock, crashes, tried>>

\* No read-back: not posted again, the claim stays posting, the pass stops.
Unconfirmed(r) ==
    /\ run[r].stage = "sent"
    /\ Become(r, [run[r] EXCEPT !.stage = "done"])
    /\ UNCHANGED <<ts, sent, wire, landed, clock, crashes, tried>>

\* The pass ended: its watermark, and whatever the claims left.
Ends(r) ==
    \/ run[r].stage = "done"
    \/ run[r].stage = "picking" /\ (run[r].queue = {} \/ run[r].rows = MaxRows)
Finish(r) ==
    /\ Ends(r)
    /\ Save(r, [cursor EXCEPT !.watermark = Held(run[r], @)], Off)
    /\ UNCHANGED <<ts, sent, wire, landed, clock, crashes, tried>>

\* A save was refused, or a stale copy said there is nothing to do: the run ends
\* and leaves no trace.  Only the append of a claim already posting still goes out.
EndStale(r) ==
    /\ run[r].stage \notin {"off", "posting"}
    /\ ~run[r].fresh
    /\ Become(r, Off)
    /\ UNCHANGED <<ts, sent, wire, landed, clock, crashes, tried>>

Crash(r) ==
    /\ run[r].stage # "off"
    /\ crashes < MaxCrashes
    /\ crashes' = crashes + 1
    /\ Become(r, Off)
    /\ UNCHANGED <<ts, sent, wire, landed, clock, tried>>

-----------------------------------------------------------------------------
(* The board, the gateway and time.                                        *)

\* A sender stamps its row before the row is on the board.
Ask(a) ==
    /\ ts[a] = 0
    /\ \E t \in Later(1, clock - Lag)..clock : ts' = [ts EXCEPT ![a] = t]
    /\ UNCHANGED <<sent, wire, landed, cursor, clock, run, crashes, tried>>

Land(a) ==
    /\ a \in wire
    /\ wire' = wire \ {a} /\ landed' = landed \cup {a}
    /\ UNCHANGED <<ts, sent, cursor, clock, run, crashes, tried>>

Lose(a) ==
    /\ a \in wire
    /\ wire' = wire \ {a}
    /\ UNCHANGED <<ts, sent, landed, cursor, clock, run, crashes, tried>>

Tick ==
    /\ clock < MaxTime \/ cursor.until > 0
    /\ clock' = IF clock < MaxTime THEN clock + 1 ELSE clock
    /\ cursor' = [cursor EXCEPT !.until = IF @ > 0 THEN @ - 1 ELSE 0]
    /\ UNCHANGED <<ts, sent, wire, landed, run, crashes, tried>>

Work(r) ==
    \/ Resolve(r) \/ Read(r) \/ Stamp(r)
    \/ \E a \in Asks : Claim(r, a) \/ LeaveForOwner(r, a)
    \/ ModelAnswers(r) \/ ModelFails(r) \/ BeginPost(r) \/ Dispatch(r)
    \/ Confirm(r) \/ Unconfirmed(r) \/ Finish(r) \/ EndStale(r)

Next ==
    \/ \E r \in Runs : Start(r) \/ Work(r) \/ Crash(r)
    \/ \E a \in Asks : Ask(a) \/ Land(a) \/ Lose(a)
    \/ Tick

Spec == Init /\ [][Next]_vars

\* The scheduler starts runs, a run that is alive works, time passes.
Fairness == WF_vars(Tick) /\ \A r \in Runs : WF_vars(Start(r)) /\ WF_vars(Work(r))
FairSpec == Spec /\ Fairness

-----------------------------------------------------------------------------
(* Properties.                                                             *)

\* An ask gets at most one reply appended, whatever overlaps, expires, is lost
\* or dies: the reason the cursor is written before the model and the append.
AtMostOneReply == \A a \in Asks : sent[a] <= 1

\* answered_ids holds only asks whose reply is on the board.
AnsweredMeansVisible == cursor.answered \subseteq landed

\* While a claim is live only its owner saves: nobody takes the row over, and
\* nobody moves the generation out from under the run that is in the model.
LiveClaimIsLeftAlone ==
    [][cursor.phase = "claimed" /\ cursor.until > 0
         /\ [cursor' EXCEPT !.until = 0] # [cursor EXCEPT !.until = 0]
       => \E r \in Runs : run[r].me = cursor.owner /\ run'[r].stage # run[r].stage]_vars

\* No save erases what another run recorded, and the watermark never goes back.
ProgressNotErased ==
    [][/\ cursor.answered \subseteq cursor'.answered
       /\ cursor.unknown \subseteq cursor'.unknown
       /\ cursor.watermark <= cursor'.watermark]_vars

\* An ask a run tried and could not answer is still inside the window of the
\* next one.
Answered(a) == a \in Settled(cursor) \cup landed
TriedStaysInWindow == \A a \in tried : Answered(a) \/ ts[a] >= cursor.watermark

\* A row said to be left for the next pass is inside its window.
LeftForNextPass ==
    [][\A r \in Runs : Ends(r) /\ run[r].stage = "picking" /\ run'[r].stage = "off" /\ run[r].fresh
          => \A a \in run[r].queue : ts[a] >= cursor'.watermark \/ crashes' # crashes]_vars

\* A reply that was dispatched is at last recorded as answered or as unknown.
PostIsReconciled == \A a \in Asks : sent[a] > 0 ~> a \in Settled(cursor)

\* The claim of a run that died is taken over or settled at last.
ClaimIsTaken ==
    \A o \in Owners : cursor.owner = o /\ cursor.phase = "claimed"
                         ~> ~(cursor.owner = o /\ cursor.phase = "claimed")

\* A run whose copy is old saves nothing over another's work, be that a live
\* claim or what is settled.
SavesTakeNothingBack == LiveClaimIsLeftAlone /\ ProgressNotErased

\* Whatever a dead run left, a reply on its way or a claim, is settled by later runs.
LeftoversEnd == PostIsReconciled /\ ClaimIsTaken
=============================================================================
