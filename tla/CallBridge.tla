----------------------------- MODULE CallBridge -----------------------------
(***************************************************************************)
(* The call bridge, call_bridge.py, on top of the call tasks: it reads a   *)
(* conference room's events, claims the owner's asks or proposes them for  *)
(* his go-ahead, sends a change to the card that lives, rings the agents   *)
(* and settles their acknowledgements.                                     *)
(*                                                                         *)
(* A bridge is one execution, with the thread of its ticks (tick) and the  *)
(* thread of the board passes (settle).  One step is one command to Redis, *)
(* one transaction or one row, but for the cards of one proposal and for   *)
(* reads of one decision, which are one step.  Any step may be the last of *)
(* an execution or of its tick.                                            *)
(*                                                                         *)
(* One unit of time is more than READBACK_SECONDS and LOOKBACK_SECONDS (5  *)
(* minutes each) and less than the 10 of a pending ask.  Left out: the     *)
(* voices' refusals and the floor, screen steps, projects, team cards, the *)
(* word "final", windows of the canvas and the timings.                    *)
(***************************************************************************)
EXTENDS CallTask, Sequences, FiniteSets

CONSTANTS Agents,
          Bridges,    \* executions that may be alive at one time
          Nobody,
          Modes,      \* settings, with the room and the bounds each is run against
          MaxSaid     \* bound: events of a room

\* A task is a turn, and whom it asks.
ASSUME TasksAssumption == /\ Tasks = (1..MaxSaid) \X Agents
                          /\ MaxSaid \in Nat \ {0} /\ Agents # {}
ASSUME NobodyAssumption == Nobody \notin Bridges

\* readback: asks are proposed first; doorbell: the bridge rings.  words: the
\* owner's turns; revokes: he cancels tasks; ops: what the agents ask of their
\* tasks; ends: deadlines pass.  Bounds: the executions that may be alive at one
\* time, the agents' requests, said events, units of time, lost replies,
\* failed ticks and deaths, and lapses of the lock under an execution that lives.
ModeType == [readback : BOOLEAN, doorbell : BOOLEAN,
             words : SUBSET [kind : {"ask", "go", "cancel"}, to : SUBSET Agents],
             revokes : BOOLEAN, ops : SUBSET Ops, ends : BOOLEAN,
             bridges : SUBSET Bridges, requests : SUBSET Requests,
             said : 0..MaxSaid, time : Nat, faults : Nat, lapses : Nat]
ASSUME ModesAssumption == Modes \subseteq ModeType

VARIABLES mode,
          said,     \* v1:conf:<room>:events
          clock,
          cursor,   \* events consumed
          pending,  \* the last task ask, for a go-ahead of the direct start
          proposal, \* the room's open proposal
          readback, \* what the chair is asked to read back
          offer,    \* offer[t]: the proposal card of t
          routed,   \* markers of the turns that went to a living card
          revise,   \* revise[t]: the turns sent to the card of t
          wake,     \* wake[t]: its wake record, and whether ACK_SECONDS have passed
          rows,     \* rows[t]: ring rows on the board, first and second
          acks,     \* tasks whose agent's ACK row is on the board
          lock,     \* gov:worker:lock
          tick, settle,
          faults, lapses

words == <<said, clock, acks>>
asked == <<pending, proposal, readback, offer>>
living == <<routed, revise>>
bell == <<wake, rows>>
bounds == <<faults, lapses>>
vars == <<taskVars, mode, words, cursor, asked, living, bell, lock, tick, settle, bounds>>

Kinds == {"ask", "go", "cancel", "spoken", "revoke"}
\* to: the voices named; of: the ask read back; rev: the revision revoked.
Event == [kind : Kinds, to : SUBSET Agents, of : 0..MaxSaid, rev : Nat, at : Nat]
Nothing == [of |-> 0, to |-> {}]
NoProposal == [of |-> 0, to |-> {}, spoken |-> 0]
Offers == {"none", "proposed", "unstarted", "waiting"}
WakeStates == {"none", "unknown", "rung", "rerung", "acked", "no_wake"}
\* Faulty variant: an acknowledgement counts only while the ring is thought to be out.
ReachedInTime == {"rung", "rerung"}
Reached == {"rung", "rerung", "no_wake", "unknown"}
Steps == {"off", "idle", "event", "mark", "keep", "close", "drop", "supersede", "propose", "cards",
          "agents", "route", "claim", "open", "after", "sweep", "ring", "rung", "rang", "unqueue", "check",
          "reached", "again", "rering", "rerang", "nowake", "look", "show"}
\* now, upto: the time and the last event when the tick began; e: the event; src: the
\* ask it acts on, todo: its agents still to serve; go: it confirms a proposal; t:
\* the task at work, to: the living card for its words; left: tasks still to ring
\* or to check; held, display: what was read and what to show.
TickType == [at : Steps, now : Nat, upto : 0..MaxSaid, e : 0..MaxSaid, src : 0..MaxSaid, todo : SUBSET Agents, go : BOOLEAN,
             t : Tasks, to : Tasks, retire : BOOLEAN, left : SUBSET Tasks,
             held : [of : 0..MaxSaid, to : SUBSET Agents, spoken : 0..MaxSaid],
             display : Displays]
SettleType == [at : {"idle", "write", "look", "show"}, t : Tasks, seen : WakeStates]
SomeTask == CHOOSE t \in Tasks : TRUE
Idle == [at |-> "idle", now |-> 0, upto |-> 0, e |-> 0, src |-> 0, todo |-> {}, go |-> FALSE, t |-> SomeTask, to |-> SomeTask,
         retire |-> FALSE, left |-> {}, held |-> NoProposal, display |-> "claimed"]
Off == [Idle EXCEPT !.at = "off"]
Quiet == [at |-> "idle", t |-> SomeTask, seen |-> "none"]
NoWake == [state |-> "none", due |-> FALSE]

TypeOK ==
    /\ TaskTypeOK /\ mode \in Modes
    /\ said \in Seq(Event) /\ clock \in 0..mode.time /\ acks \subseteq Tasks /\ cursor \in 0..Len(said)
    /\ pending \in [of : 0..MaxSaid, to : SUBSET Agents]
    /\ readback \in [of : 0..MaxSaid, to : SUBSET Agents]
    /\ proposal \in [of : 0..MaxSaid, to : SUBSET Agents, spoken : 0..MaxSaid]
    /\ offer \in [Tasks -> Offers]
    /\ routed \subseteq Tasks /\ revise \in [Tasks -> Seq(1..MaxSaid)]
    /\ wake \in [Tasks -> [state : WakeStates, due : BOOLEAN]]
    /\ rows \in [Tasks -> [first : Nat, second : Nat]]
    /\ lock \in Bridges \cup {Nobody} /\ tick \in [Bridges -> TickType] /\ settle \in [Bridges -> SettleType]
    /\ faults \in 0..mode.faults /\ lapses \in 0..mode.lapses

Init ==
    /\ TaskInit /\ mode \in Modes
    /\ said = <<>> /\ clock = 0 /\ acks = {} /\ cursor = 0
    /\ pending = Nothing /\ proposal = NoProposal /\ readback = Nothing
    /\ offer = [t \in Tasks |-> "none"]
    /\ routed = {} /\ revise = [t \in Tasks |-> <<>>]
    /\ wake = [t \in Tasks |-> NoWake] /\ rows = [t \in Tasks |-> [first |-> 0, second |-> 0]]
    /\ lock = Nobody /\ tick = [b \in Bridges |-> Off] /\ settle = [b \in Bridges |-> Quiet]
    /\ faults = 0 /\ lapses = 0

-----------------------------------------------------------------------------
(* The execution.                                                          *)

At(b, step) == tick[b].at = step
Alive(b) == ~At(b, "off")
Holds(b) == lock = b
Go(b, step) == tick' = [tick EXCEPT ![b].at = step]
Fault == faults < mode.faults /\ faults' = faults + 1

\* What a step of the room, of the doorbell and of the settling leaves alone.
Room == <<taskVars, mode, words, living, bell, lock, settle, lapses>>
Bell == <<mode, words, cursor, asked, living, lock, settle, lapses>>

\* A new execution takes the free lock, or one that lives takes its lapsed one back.
Launch(b) ==
    /\ lock = Nobody /\ lock' = b
    /\ Alive(b) \/ b = CHOOSE x \in mode.bridges : ~Alive(x)
    /\ IF Alive(b) THEN UNCHANGED tick ELSE Go(b, "idle")
    /\ UNCHANGED <<taskVars, mode, words, cursor, asked, living, bell, settle, bounds>>

\* One that finds another holding it is over.
End(b) ==
    /\ At(b, "idle") /\ settle[b] = Quiet /\ lock \notin {b, Nobody}
    /\ tick' = [tick EXCEPT ![b] = Off]
    /\ UNCHANGED <<taskVars, mode, words, cursor, asked, living, bell, lock, settle, bounds>>

\* A claim between its transactions is abandoned with its tick.
Drops(b) == IF At(b, "open") THEN Abandon(tick[b].t) ELSE UNCHANGED taskVars

\* A failed command costs one tick; a death costs both threads and, later, the lock.
Fail(b) ==
    /\ tick[b].at \notin {"off", "idle"} /\ Fault
    /\ Drops(b) /\ tick' = [tick EXCEPT ![b] = Idle]
    /\ UNCHANGED <<mode, words, cursor, asked, living, bell, lock, settle, lapses>>
Die(b) ==
    /\ Alive(b) /\ Fault
    /\ Drops(b) /\ tick' = [tick EXCEPT ![b] = Off] /\ settle' = [settle EXCEPT ![b] = Quiet]
    /\ lock' = IF Holds(b) THEN Nobody ELSE lock
    /\ UNCHANGED <<mode, words, cursor, asked, living, bell, lapses>>
Lapse(b) ==
    /\ Holds(b) /\ lapses < mode.lapses /\ lapses' = lapses + 1
    /\ lock' = Nobody
    /\ UNCHANGED <<taskVars, mode, words, cursor, asked, living, bell, tick, settle, faults>>

-----------------------------------------------------------------------------
(* The events of the room, one at a time.                                  *)

\* On to the event after e, of those that were there, or past the last.
Onward(b, e, now, upto) ==
    tick' = [tick EXCEPT ![b] =
        [Idle EXCEPT !.at = IF e < upto THEN "event" ELSE "sweep", !.now = now,
                     !.e = IF e < upto THEN e + 1 ELSE 0, !.upto = IF e < upto THEN upto ELSE 0]]
Heard(b) == said[tick[b].e]
Stale(b) == Heard(b).at < tick[b].now

\* Faulty variant: an uncertain ring is sent again.
UnrungOrUnknown(tasks) == {t \in tasks : wake[t].state \in {"none", "unknown"}}
\* What the doorbell has to do: a ring to send, or an open task to check.
Unrung(tasks) == {t \in tasks : wake[t].state = "none"}
ToCheck(tasks) ==
    {t \in tasks : \/ wake[t].state \in {"rung", "rerung"} /\ (wake[t].due \/ work[t] # NoCard)
                   \/ wake[t].state = "unknown" /\ (card[t] = "claimed" \/ work[t] # NoCard)}
OpenTasks == {t \in Tasks : open[t] # NoRecord}

\* A tick that would find nothing to do is left out.
Look(b) ==
    /\ At(b, "idle") /\ Holds(b)
    /\ \/ cursor < Len(said) \/ proposal.of # 0
       \/ mode.doorbell /\ (Unrung(ring) # {} \/ ToCheck(OpenTasks) # {})
    /\ Onward(b, cursor, clock, Len(said))
    /\ UNCHANGED <<Room, cursor, asked, faults>>
\* Faulty variant: the cursor is put on the next event.
MarkNext(b) ==
    /\ At(b, "mark") \/ (At(b, "event") /\ Stale(b))
    /\ cursor' = tick[b].e + 1 /\ Onward(b, tick[b].e, tick[b].now, tick[b].upto)
    /\ UNCHANGED <<Room, asked, faults>>
\* Faulty variant: a stale event is skipped and not consumed.
MarkServed(b) ==
    /\ At(b, "mark") \/ (At(b, "event") /\ Stale(b))
    /\ cursor' = (IF At(b, "mark") THEN tick[b].e ELSE cursor)
    /\ Onward(b, tick[b].e, tick[b].now, tick[b].upto)
    /\ UNCHANGED <<Room, asked, faults>>
Mark(b) ==
    /\ At(b, "mark") \/ (At(b, "event") /\ Stale(b))
    /\ cursor' = tick[b].e /\ Onward(b, tick[b].e, tick[b].now, tick[b].upto)
    /\ UNCHANGED <<Room, asked, faults>>

Hears(b, kind) == At(b, "event") /\ ~Stale(b) /\ Heard(b).kind = kind

\* The owner's typed cancellation of a task, or its refusal.
Revoke(b) ==
    LET t == <<Heard(b).of, CHOOSE a \in Heard(b).to : TRUE>> IN
    /\ Hears(b, "revoke")
    /\ IF task[t].rev = Heard(b).rev /\ task[t].state \in {"PREPARED", "OPEN"}
       THEN CancelEvent(t, Heard(b).rev) ELSE UNCHANGED taskVars
    /\ Go(b, "mark")
    /\ UNCHANGED <<mode, words, cursor, asked, living, bell, lock, settle, bounds>>

\* _keep: a proposal for other voices than before is read back again.  The chair
\* has until READBACK_SECONDS after the ask.
Kept(of, to, spoken) ==
    /\ proposal' = [of |-> of, to |-> to, spoken |-> spoken]
    /\ readback' = IF spoken # 0 \/ said[of].at < clock THEN Nothing ELSE [of |-> of, to |-> to]
Dropped == proposal' = NoProposal /\ readback' = Nothing

\* _close: a proposal card says why, or goes when the words have a card; the
\* proposal keeps the other voices.
Closed(of, to, retire) ==
    /\ offer' = [t \in Tasks |->
          IF t[1] # of \/ t[2] \notin to \/ offer[t] # "proposed" THEN offer[t]
          ELSE IF retire \/ task[t] # NoRecord THEN "none" ELSE "unstarted"]
    /\ IF proposal.of # of THEN UNCHANGED <<proposal, readback>>
       ELSE IF proposal.to \subseteq to THEN Dropped
       ELSE Kept(of, proposal.to \ to, IF proposal.to \cap to = {} THEN proposal.spoken ELSE 0)

\* The chair's voice has read the proposal back.
Spoken(b) ==
    /\ Hears(b, "spoken")
    /\ IF /\ mode.readback /\ proposal.of = Heard(b).of /\ proposal.to = Heard(b).to
          /\ proposal.spoken = 0
       THEN tick' = [tick EXCEPT ![b].at = "keep", ![b].held = proposal]
       ELSE Go(b, "mark")
    /\ UNCHANGED <<Room, cursor, asked, faults>>
Keep(b) ==
    /\ At(b, "keep")
    /\ Kept(tick[b].held.of, tick[b].held.to, tick[b].e) /\ Go(b, "mark")
    /\ UNCHANGED <<Room, cursor, pending, offer, faults>>

\* Faulty variant: the proposal survives.
CancelPending(b) ==
    /\ Hears(b, "cancel")
    /\ pending' = Nothing /\ Go(b, "mark")
    /\ UNCHANGED <<Room, cursor, proposal, readback, offer, faults>>
\* Words that call everything off.
Cancel(b) ==
    /\ Hears(b, "cancel")
    /\ pending' = Nothing
    /\ IF mode.readback /\ proposal.of \in 1..(tick[b].e - 1)
       THEN tick' = [tick EXCEPT ![b].at = "close", ![b].held = proposal]
       ELSE Go(b, "mark")
    /\ UNCHANGED <<Room, cursor, proposal, readback, offer, faults>>
Close(b) ==
    /\ At(b, "close")
    /\ Closed(tick[b].held.of, tick[b].held.to, FALSE) /\ Go(b, "mark")
    /\ UNCHANGED <<Room, cursor, pending, faults>>

\* Whom a go-ahead that names the voices named is for, of the voices asked.
GoAgents(asks, named) ==
    IF asks = {} \/ named = {} THEN asks \cup named
    ELSE IF named \subseteq asks THEN named ELSE {}

\* A go-ahead with the read-back: of the proposal, once the owner heard it.
GoConfirms(b) ==
    LET agents == GoAgents(proposal.to, Heard(b).to) IN
    /\ Hears(b, "go") /\ mode.readback
    /\ IF proposal.of = 0 \/ proposal.spoken \notin 1..(tick[b].e - 1) THEN Go(b, "mark")
       ELSE IF said[proposal.spoken].at # Heard(b).at
            THEN tick' = [tick EXCEPT ![b].at = "close", ![b].held = proposal]
       ELSE IF agents = {} THEN Go(b, "mark")
       ELSE tick' = [tick EXCEPT ![b].at = "drop", ![b].held = proposal, ![b].todo = agents]
    /\ UNCHANGED <<Room, cursor, asked, faults>>
Drop(b) ==
    LET p == tick[b].held IN
    /\ At(b, "drop")
    /\ Dropped
    /\ offer' = [t \in Tasks |-> IF t[1] = p.of /\ t[2] \in p.to \ tick[b].todo /\ offer[t] = "proposed"
                                 THEN "unstarted" ELSE offer[t]]
    /\ tick' = [tick EXCEPT ![b].at = "agents", ![b].src = p.of, ![b].go = TRUE]
    /\ UNCHANGED <<Room, cursor, pending, faults>>

\* Without it: of the last ask that is still pending.
GoDirect(b) ==
    /\ Hears(b, "go") /\ ~mode.readback
    /\ tick' = [tick EXCEPT ![b].at = "agents", ![b].src = pending.of,
          ![b].todo = IF pending.of = 0 THEN {} ELSE GoAgents(pending.to, Heard(b).to)]
    /\ UNCHANGED <<Room, cursor, asked, faults>>

\* An ask of the direct start is claimed at once for the voices it names.
AskDirect(b) ==
    /\ Hears(b, "ask") /\ ~mode.readback
    /\ pending' = [of |-> tick[b].e, to |-> Heard(b).to]
    /\ tick' = [tick EXCEPT ![b].at = "agents", ![b].src = tick[b].e, ![b].todo = Heard(b).to]
    /\ UNCHANGED <<Room, cursor, proposal, readback, offer, faults>>

\* With the read-back it is proposed.  An earlier proposal that is still alive
\* is never replaced: the newer ask waits behind it.
Blocks(t) == offer[t] \in {"proposed", "unstarted"} \/ task[t] # NoRecord
Since == IF proposal.spoken # 0 THEN proposal.spoken ELSE proposal.of
AskReadback(b) ==
    LET e == tick[b].e
        mine == {e} \X Heard(b).to IN
    /\ Hears(b, "ask") /\ mode.readback
    /\ IF mine = {} \/ ~Holds(b) \/ \E t \in mine : Blocks(t) THEN Go(b, "mark") /\ UNCHANGED offer
       ELSE IF proposal.of \in {0, e} THEN Go(b, "propose") /\ UNCHANGED offer
       ELSE IF e < proposal.of THEN Go(b, "mark") /\ UNCHANGED offer
       ELSE IF e < Since \/ said[e].at = said[Since].at
            THEN /\ Go(b, "mark")
                 /\ offer' = [t \in Tasks |-> IF t \in mine THEN "waiting" ELSE offer[t]]
       ELSE tick' = [tick EXCEPT ![b].at = "supersede", ![b].held = proposal] /\ UNCHANGED offer
    /\ UNCHANGED <<Room, cursor, pending, proposal, readback, faults>>
Supersede(b) ==
    /\ At(b, "supersede")
    /\ Closed(tick[b].held.of, tick[b].held.to, FALSE) /\ Go(b, "propose")
    /\ UNCHANGED <<Room, cursor, pending, faults>>
Propose(b) ==
    /\ At(b, "propose")
    /\ Kept(tick[b].e, Heard(b).to, 0) /\ Go(b, "cards")
    /\ UNCHANGED <<Room, cursor, pending, offer, faults>>
Cards(b) ==
    /\ At(b, "cards")
    /\ offer' = [t \in Tasks |-> IF t \in {tick[b].e} \X Heard(b).to THEN "proposed" ELSE offer[t]]
    /\ Go(b, "mark")
    /\ UNCHANGED <<Room, cursor, pending, proposal, readback, faults>>

-----------------------------------------------------------------------------
(* The agents of one ask, one after the other.                             *)

\* The agent's newest living card: an open task in time that has its own card.
Living(a) == {l \in Tasks : l[2] = a /\ open[l].state = "OPEN" /\ open[l].hash # NoCard /\ Live(l)}
Newest(cards) == CHOOSE l \in cards : \A other \in cards : other[1] <= l[1]

\* Faulty variant: without the lock the event counts as served.
PickConsumes(b) ==
    /\ At(b, "agents")
    /\ IF tick[b].todo = {} \/ ~Holds(b) THEN Go(b, "mark")
       ELSE \E a \in tick[b].todo :
              LET t == <<tick[b].src, a>> IN
              IF Living(a) # {} /\ t[1] > Newest(Living(a))[1]
              THEN tick' = [tick EXCEPT ![b].at = "route", ![b].t = t, ![b].to = Newest(Living(a))]
              ELSE tick' = [tick EXCEPT ![b].at = IF t \in routed THEN "after" ELSE "claim", ![b].t = t]
    /\ UNCHANGED <<Room, cursor, asked, faults>>
\* Faulty variant: words that were sent to a card are claimed once it is gone.
PickUnmarked(b) ==
    /\ At(b, "agents")
    /\ IF tick[b].todo = {} THEN Go(b, "mark")
       ELSE IF ~Holds(b) THEN tick' = [tick EXCEPT ![b] = Idle]
       ELSE \E a \in tick[b].todo :
              LET t == <<tick[b].src, a>> IN
              IF Living(a) # {} /\ t[1] > Newest(Living(a))[1]
              THEN tick' = [tick EXCEPT ![b].at = "route", ![b].t = t, ![b].to = Newest(Living(a))]
              ELSE tick' = [tick EXCEPT ![b].at = "claim", ![b].t = t]
    /\ UNCHANGED <<Room, cursor, asked, faults>>

\* Words that are newer than the card's own go to it, others are claimed, unless
\* they went to a card before.  Without the lock the event is left unmarked.
Pick(b) ==
    /\ At(b, "agents")
    /\ IF tick[b].todo = {} THEN Go(b, "mark")
       ELSE IF ~Holds(b) THEN tick' = [tick EXCEPT ![b] = Idle]
       ELSE \E a \in tick[b].todo :
              LET t == <<tick[b].src, a>> IN
              IF Living(a) # {} /\ t[1] > Newest(Living(a))[1]
              THEN tick' = [tick EXCEPT ![b].at = "route", ![b].t = t, ![b].to = Newest(Living(a))]
              ELSE tick' = [tick EXCEPT ![b].at = IF t \in routed THEN "after" ELSE "claim", ![b].t = t]
    /\ UNCHANGED <<Room, cursor, asked, faults>>

\* Faulty variant: the marker is not asked.
RouteAgain(b) ==
    LET t == tick[b].t IN
    /\ At(b, "route")
    /\ routed' = routed \cup {t}
    /\ revise' = [revise EXCEPT ![tick[b].to] = Append(@, t[1])]
    /\ tick' = [tick EXCEPT ![b].at = "after", ![b].retire = TRUE]
    /\ UNCHANGED <<taskVars, mode, words, cursor, asked, bell, lock, settle, bounds>>
\* _route: the marker and the change in one transaction.
Route(b) ==
    LET t == tick[b].t IN
    /\ At(b, "route")
    /\ routed' = routed \cup {t}
    /\ revise' = IF t \in routed THEN revise ELSE [revise EXCEPT ![tick[b].to] = Append(@, t[1])]
    /\ tick' = [tick EXCEPT ![b].at = "after", ![b].retire = TRUE]
    /\ UNCHANGED <<taskVars, mode, words, cursor, asked, bell, lock, settle, bounds>>

\* _claim, in its two transactions.
ClaimAsk(b) ==
    LET t == tick[b].t IN
    /\ At(b, "claim")
    /\ \/ task[t] # NoRecord /\ Go(b, "after") /\ UNCHANGED <<taskVars, faults>>
       \/ Claim(t, mode.doorbell) /\ Go(b, "open") /\ UNCHANGED faults
       \/ Fault /\ ClaimUnknown(t, mode.doorbell) /\ Go(b, "after")
    /\ UNCHANGED <<mode, words, cursor, asked, living, bell, lock, settle, lapses>>
OpenAsk(b) ==
    LET t == tick[b].t IN
    /\ At(b, "open") /\ Go(b, "after")
    /\ \/ Activate(t) /\ UNCHANGED faults
       \/ Fault /\ Abandon(t)
    /\ UNCHANGED <<mode, words, cursor, asked, living, bell, lock, settle, lapses>>

\* The proposal card of a confirmed ask goes, or says that its claim was held.
After(b) ==
    LET t == tick[b].t IN
    /\ At(b, "after")
    /\ IF tick[b].go THEN Closed(t[1], {t[2]}, tick[b].retire) ELSE UNCHANGED <<proposal, readback, offer>>
    /\ tick' = [tick EXCEPT ![b].at = "agents", ![b].todo = @ \ {t[2]}, ![b].retire = FALSE,
                            ![b].t = SomeTask, ![b].to = SomeTask]
    /\ UNCHANGED <<Room, cursor, pending, faults>>

\* Faulty variant: only a claim ends a proposal.
SweepClaimed(b) ==
    LET claimed == {a \in proposal.to : task[<<proposal.of, a>>] # NoRecord} IN
    /\ At(b, "sweep")
    /\ IF Holds(b) /\ proposal.of # 0 /\ claimed # {} THEN Closed(proposal.of, claimed, FALSE)
       ELSE UNCHANGED <<proposal, readback, offer>>
    /\ tick' = [tick EXCEPT ![b] = IF mode.doorbell /\ Holds(b)
                                   THEN [Idle EXCEPT !.at = "ring", !.left = ring] ELSE Idle]
    /\ UNCHANGED <<Room, cursor, pending, faults>>

\* Every event is read: a proposal that had its chance is closed, and so is one
\* whose ask was claimed by other means.
Sweep(b) ==
    LET claimed == {a \in proposal.to : task[<<proposal.of, a>>] # NoRecord} IN
    /\ At(b, "sweep")
    /\ IF ~Holds(b) \/ proposal.of = 0 THEN UNCHANGED <<proposal, readback, offer>>
       ELSE IF said[Since].at < tick[b].now THEN Closed(proposal.of, proposal.to, FALSE)
       ELSE IF claimed # {} THEN Closed(proposal.of, claimed, FALSE)
       ELSE UNCHANGED <<proposal, readback, offer>>
    /\ tick' = [tick EXCEPT ![b] = IF mode.doorbell /\ Holds(b)
                                   THEN [Idle EXCEPT !.at = "ring", !.left = ring] ELSE Idle]
    /\ UNCHANGED <<Room, cursor, pending, faults>>

-----------------------------------------------------------------------------
(* ring_pending: uncertainty is written before the row, and never retried.  *)

Reserve(b) ==
    LET new == Unrung(tick[b].left) IN
    /\ At(b, "ring")
    /\ IF ~Holds(b) THEN tick' = [tick EXCEPT ![b] = Idle] /\ UNCHANGED wake
       ELSE IF new = {}
            THEN tick' = [tick EXCEPT ![b].at = "check", ![b].left = OpenTasks] /\ UNCHANGED wake
       ELSE \E t \in new :
              /\ wake' = [wake EXCEPT ![t].state = "unknown"]
              /\ tick' = [tick EXCEPT ![b].at = "rung", ![b].left = new \ {t}, ![b].t = t]
    /\ UNCHANGED <<Bell, taskVars, rows, faults>>

\* The row of t, first or second.  An append that fails may yet be on the board.
Append1(t, which) == rows' = [rows EXCEPT ![t][which] = @ + 1]
Ring(b) ==
    LET t == tick[b].t IN
    /\ At(b, "rung")
    /\ \/ ~Holds(b) /\ Go(b, "ring") /\ UNCHANGED <<rows, faults>>
       \/ Holds(b) /\ Append1(t, "first") /\ Go(b, "rang") /\ UNCHANGED faults
       \/ Holds(b) /\ Fault /\ (Append1(t, "first") \/ UNCHANGED rows) /\ Go(b, "ring")
    /\ UNCHANGED <<Bell, taskVars, wake>>
Rang(b) ==
    /\ At(b, "rang")
    /\ wake' = [wake EXCEPT ![tick[b].t] = [state |-> "rung", due |-> FALSE]]
    /\ Go(b, "unqueue")
    /\ UNCHANGED <<Bell, taskVars, rows, faults>>
Unqueue(b) ==
    /\ At(b, "unqueue")
    /\ Dequeue(tick[b].t) /\ Go(b, "ring")
    /\ UNCHANGED <<Bell, bell, faults>>

-----------------------------------------------------------------------------
(* wake_check: the open tasks that were rung, one after the other.         *)

Check(b) ==
    LET due == ToCheck(tick[b].left) IN
    /\ At(b, "check")
    /\ IF due = {} \/ ~Holds(b) THEN tick' = [tick EXCEPT ![b] = Idle]
       ELSE \E t \in due :
              tick' = [tick EXCEPT ![b].left = due \ {t}, ![b].t = t, ![b].display = "unconfirmed", ![b].at =
                  IF work[t] # NoCard THEN "reached"
                  ELSE IF wake[t].state = "unknown" THEN "show"
                  ELSE IF wake[t].state = "rung" THEN "again" ELSE "nowake"]
    /\ UNCHANGED <<Bell, taskVars, bell, faults>>

Wakes(b, from, state, to) ==
    /\ At(b, from)
    /\ wake' = [wake EXCEPT ![tick[b].t] = [state |-> state, due |-> FALSE]] /\ Go(b, to)
    /\ UNCHANGED <<Bell, taskVars, rows, faults>>
ByCard(b) == Wakes(b, "reached", "acked", "check")
Again(b) == Wakes(b, "again", "unknown", "rering")
\* The second ring does not ask for the lock again.
Rering(b) ==
    LET t == tick[b].t IN
    /\ At(b, "rering")
    /\ \/ Append1(t, "second") /\ Go(b, "rerang") /\ UNCHANGED faults
       \/ Fault /\ (Append1(t, "second") \/ UNCHANGED rows) /\ Go(b, "check")
    /\ UNCHANGED <<Bell, taskVars, wake>>
Rerang(b) == Wakes(b, "rerang", "rerung", "check")
NoWakeYet(b) == Wakes(b, "nowake", "no_wake", "look")
LookAtCard(b) ==
    /\ At(b, "look")
    /\ tick' = [tick EXCEPT ![b].at = IF card[tick[b].t] = "claimed" THEN "show" ELSE "check",
                            ![b].display = "no_wake"]
    /\ UNCHANGED <<Bell, taskVars, bell, faults>>
Show(b) ==
    LET t == tick[b].t IN
    /\ At(b, "show") /\ Go(b, "check")
    /\ IF Refreshes(t) THEN Refresh(t, tick[b].display) ELSE UNCHANGED taskVars
    /\ UNCHANGED <<Bell, bell, faults>>

-----------------------------------------------------------------------------
(* acks: the thread of the board passes.                                   *)

Doing(b, step) == settle[b].at = step
Then(b, step) == [settle[b] EXCEPT !.at = step]
Elsewhere == <<mode, words, cursor, asked, living, rows, lock, tick, bounds>>
SeeAck(b) ==
    /\ Alive(b) /\ Doing(b, "idle") /\ Holds(b)
    /\ \E t \in acks :
          /\ wake[t].state \in Reached
          /\ settle' = [settle EXCEPT ![b] = [at |-> "write", t |-> t, seen |-> wake[t].state]]
    /\ UNCHANGED <<Elsewhere, taskVars, wake>>
KeepAck(b) ==
    /\ Doing(b, "write")
    /\ wake' = [wake EXCEPT ![settle[b].t] = [state |-> "acked", due |-> FALSE]]
    /\ settle' = [settle EXCEPT ![b] = IF @.seen \in {"no_wake", "unknown"} THEN Then(b, "look") ELSE Quiet]
    /\ UNCHANGED <<Elsewhere, taskVars>>
AckLook(b) ==
    /\ Doing(b, "look")
    /\ settle' = [settle EXCEPT ![b] = IF card[@.t] \in {"no_wake", "unconfirmed"} THEN Then(b, "show")
                                       ELSE Quiet]
    /\ UNCHANGED <<Elsewhere, taskVars, wake>>
AckShow(b) ==
    LET t == settle[b].t IN
    /\ Doing(b, "show") /\ settle' = [settle EXCEPT ![b] = Quiet]
    /\ IF Refreshes(t) THEN Refresh(t, "claimed") ELSE UNCHANGED taskVars
    /\ UNCHANGED <<Elsewhere, wake>>

-----------------------------------------------------------------------------
(* The room, the board, the agents and time.                               *)

Hear(event) == said' = Append(said, event)
Said == <<taskVars, mode, clock, acks, cursor, asked, living, bell, lock, tick, settle, bounds>>
Say ==
    /\ Len(said) < mode.said
    /\ \/ \E w \in mode.words : Hear([kind |-> w.kind, to |-> w.to, of |-> 0, rev |-> 0, at |-> clock])
       \/ mode.revokes /\ \E t \in Tasks :
            /\ task[t].state \in {"PREPARED", "OPEN"}
            /\ Hear([kind |-> "revoke", to |-> {t[2]}, of |-> t[1], rev |-> task[t].rev, at |-> clock])
       \* The chair, while the read-back key is there.
       \/ /\ readback.of # 0 /\ said[readback.of].at = clock
          /\ Hear([kind |-> "spoken", to |-> readback.to, of |-> readback.of, rev |-> 0, at |-> clock])
    /\ UNCHANGED Said

Time ==
    /\ clock < mode.time /\ clock' = clock + 1
    /\ UNCHANGED <<taskVars, mode, said, acks, cursor, asked, living, bell, lock, tick, settle, bounds>>
\* ACK_SECONDS pass after a ring.
Due(t) ==
    /\ wake[t].state \in {"rung", "rerung"} /\ ~wake[t].due /\ wake' = [wake EXCEPT ![t].due = TRUE]
    /\ UNCHANGED <<taskVars, mode, words, cursor, asked, living, rows, lock, tick, settle, bounds>>
\* The agent takes the ask from its inbox.
Ack(t) ==
    /\ mode.doorbell /\ inbox[t] > 0 /\ t \notin acks /\ acks' = acks \cup {t}
    /\ UNCHANGED <<taskVars, mode, said, clock, cursor, asked, living, bell, lock, tick, settle, bounds>>

\* The agents use any revision and digest there has been: late, replayed, or right.
Agent ==
    /\ \/ \E q \in mode.requests, op \in mode.ops, t \in Tasks : \E rev \in 1..task[t].rev :
            \E hash \in IF op = "complete" THEN Requests ELSE {NoCard} : Send(q, t, op, rev, hash)
       \/ \E q \in Requests : Expire(q) \/ PutCard(q) \/ Complete(q)
       \/ mode.ends /\ \E t \in Tasks : KeyExpires(t) \/ ClockPasses(t)
    /\ UNCHANGED <<mode, words, cursor, asked, living, bell, lock, tick, settle, bounds>>

Tick(b) ==
    \/ Launch(b) \/ End(b) \/ Look(b) \/ Mark(b) \/ Revoke(b) \/ Spoken(b) \/ Keep(b) \/ Cancel(b) \/ Close(b)
    \/ GoConfirms(b) \/ Drop(b) \/ GoDirect(b) \/ AskDirect(b) \/ AskReadback(b) \/ Supersede(b)
    \/ Propose(b) \/ Cards(b) \/ Pick(b) \/ Route(b) \/ ClaimAsk(b) \/ OpenAsk(b) \/ After(b) \/ Sweep(b)
    \/  Reserve(b) \/ Ring(b) \/ Rang(b) \/ Unqueue(b) \/ Check(b) \/ ByCard(b) \/ Again(b)
    \/ Rering(b) \/ Rerang(b) \/ NoWakeYet(b) \/ LookAtCard(b) \/ Show(b)
Settle(b) == SeeAck(b) \/ KeepAck(b) \/ AckLook(b) \/ AckShow(b)

Next ==
    \/ \E b \in Bridges : Tick(b) \/ Settle(b) \/ Fail(b) \/ Die(b) \/ Lapse(b)
    \/ Say \/ Time \/ Agent \/ \E t \in Tasks : Due(t) \/ Ack(t)

Spec == Init /\ [][Next]_vars
\* The threads of an execution go on, and the schedule starts the next one.
FairSpec == Spec /\ \A b \in Bridges : WF_vars(Tick(b)) /\ WF_vars(Settle(b))

-----------------------------------------------------------------------------
(* Properties.                                                             *)

Turns == DOMAIN said

\* With the read-back an agent works only on what the owner heard read back and
\* then confirmed for that agent, in the time that counts; and, while one bridge
\* holds the lock, never on what he called off before.
ClaimedAsConfirmed ==
    mode.readback => \A t \in Tasks : task[t] # NoRecord =>
        \E s, g \in Turns :
            /\ t[1] < s /\ s < g /\ said[s].at = said[g].at
            /\ said[s].kind = "spoken" /\ said[s].of = t[1] /\ t[2] \in said[s].to
            /\ said[g].kind = "go" /\ (said[g].to = {} \/ t[2] \in said[g].to)
            /\ lapses = 0 => \A c \in t[1]..g : said[c].kind # "cancel"

\* A turn the bridge has consumed is not lost: each voice it asked has a task, a
\* change to its card, or a card that says what became of it.  With the read-back
\* this needs the lock: without it the ask is consumed and nothing proposed.
NoAskPassedOver ==
    (mode.readback => lapses = 0) => \A e \in 1..cursor : said[e].kind = "ask" /\ said[e].at = clock =>
        \A a \in said[e].to :
            task[<<e, a>>] # NoRecord \/ <<e, a>> \in routed \/ offer[<<e, a>>] # "none"

\* A turn changes an agent's work at most once, and only work that was asked for
\* before it: a replay never makes an ask a change to its own card.
RevisedOnce ==
    \A l, m \in Tasks : \A i \in DOMAIN revise[l], j \in DOMAIN revise[m] :
        /\ revise[l][i] > l[1]
        /\ l[2] = m[2] /\ revise[l][i] = revise[m][j] => l = m /\ i = j

\* A turn that went to a living card is never claimed afterwards, while one
\* bridge holds the lock.
RoutedIsNotClaimed ==
    [][\A t \in routed : lapses' = 0 /\ task[t] = NoRecord => task'[t] = NoRecord]_vars

\* An agent is rung once by any number of executions, and once more only after a
\* ring that is confirmed; no card calls it asleep before both.
RungAtMostTwice ==
    \A t \in Tasks :
        /\ rows[t].first <= 1 /\ (rows[t].second > 0 => rows[t].first = 1)
        /\ lapses = 0 => rows[t].second <= 1
        /\ wake[t].state = "no_wake" \/ card[t] = "no_wake" => rows[t].second > 0

\* Every turn is read, whatever fails in between.
EveryTurnIsRead == <>[](cursor = Len(said))

\* A proposal that had its chance is closed.
OverdueCloses == <>[](proposal.of = 0 \/ said[Since].at = clock)

\* An acknowledgement the board holds of a ring is kept in the end, whatever the
\* doorbell writes at the same time.
AckIsKept == <>[](\A t \in acks : wake[t].state \in {"none", "acked"})

\* The record of a task, its copy in the index, its ask in the agent's inbox and the
\* requests that changed it agree, whoever died between which of the bridge's steps, and
\* nobody is rung for it a third time.
BridgeInv == TypeOK /\ IndexIsTask /\ DeliveredOnce /\ AppliedOnce /\ RungAtMostTwice

\* Words of the owner are served once, as a change to a living card or as a claim.
ServedOneWay == []RevisedOnce /\ RoutedIsNotClaimed
=============================================================================
