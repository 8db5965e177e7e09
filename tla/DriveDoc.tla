------------------------------ MODULE DriveDoc ------------------------------
(***************************************************************************)
(* One doc of the owner's Drive folder: his request, and under it the      *)
(* trail of receipts, which is the only record of a task that never        *)
(* expires.  Its two writers, cloud/drive-intake and                       *)
(* cloud/claude-api-worker, append a line in the same way (write_receipt): *)
(* look for it, append under the revision they hold, and when the append   *)
(* fails look again, take the doc's new revision and try once more.        *)
(*                                                                         *)
(* A revision is never that of an older doc, so a writer's copy of it is   *)
(* whether the doc has changed since (guard).  The lines are a set: how    *)
(* often one stands in the doc is not modelled.                            *)
(***************************************************************************)
EXTENDS Integers, Sequences, FiniteSets, FiniteSetsExt

CONSTANTS MaxRequests, \* bound: texts of the request, by the owner's edits
          Workers, Laptop, Api, NoWorker,
          Passes,      \* passes of the intake that may be alive at one time
          Works        \* passes of the worker that may

ASSUME MaxRequestsAssumption == MaxRequests \in Nat \ {0}
ASSUME WorkersAssumption == {Laptop, Api} \subseteq Workers /\ NoWorker \notin Workers
ASSUME WritersAssumption == Passes \cap Works = {} /\ NoWorker \notin Passes \cup Works

VARIABLES doc,  \* the doc, and whether the feed and the pages still list its last change
          pen   \* pen[a]: what writer a still has to write

\* A task is the request's text: an edit is another task.
Requests == 1..MaxRequests
Writers == Passes \cup Works
Waits == {"QUEUED", "BLOCKED"}
Verdicts == {"SUCCEEDED", "FAILED", "UNKNOWN"}
Line == [by : {"drive-intake", "claude-api"}, task : Requests, to : Workers,
         state : Waits \cup Verdicts \cup {"REQUESTED", "DISPATCHED", "ACCEPTED"}]

\* listed: the doc changed after the poll's watermark, within its margin, or neither.
\* pushed: it changed after the page token.
DocType == [req : Requests, lines : SUBSET Line, listed : {"new", "seen", "no"}, pushed : BOOLEAN]

\* at: the next call; second: the second attempt; landed: what the look said;
\* covers: the doc has not changed since the pass listed it; owed: a line of
\* this round was not read back.
PenType == [todo : Seq(Line), at : {"has", "append", "look", "refresh"}, second : BOOLEAN,
            landed : BOOLEAN, guard : BOOLEAN, covers : BOOLEAN, owed : BOOLEAN]
NoPen == [todo |-> <<>>, at |-> "has", second |-> FALSE, landed |-> FALSE, guard |-> FALSE,
          covers |-> FALSE, owed |-> FALSE]

DocTypeOK == doc \in DocType /\ pen \in [Writers -> PenType]

Trail(by, t) == {l \in doc.lines : l.by = by /\ l.task = t}
InTrail(by, t, state) == \E l \in Trail(by, t) : l.state = state

\* What a receipt id is made of.
Has(l) == InTrail(l.by, l.task, l.state)

-----------------------------------------------------------------------------

Writing(a, step) == pen[a].todo # <<>> /\ pen[a].at = step
Idle(a) == pen[a].todo = <<>>

\* The line is dealt with, read back or not.
Settled(x, good) == [x EXCEPT !.todo = Tail(@), !.at = "has", !.second = FALSE,
                              !.landed = FALSE, !.owed = @ \/ ~good]
Settle(a, good) == pen' = [pen EXCEPT ![a] = Settled(@, good)]
Move(a, step) == pen' = [pen EXCEPT ![a].at = step]

\* A write of the doc by a, or by the owner: every other copy of its revision is old.
Write(d, a, x) ==
    /\ doc' = [d EXCEPT !.listed = "new", !.pushed = TRUE]
    /\ pen' = [b \in Writers |-> [(IF b = a THEN x ELSE pen[b])
                                  EXCEPT !.guard = @ /\ b = a, !.covers = FALSE]]
Put(a, x) == Write([doc EXCEPT !.lines = @ \cup {Head(pen[a].todo)}], a, x)

LookFirst(a) ==
    /\ Writing(a, "has") /\ UNCHANGED doc
    /\ IF Has(Head(pen[a].todo)) THEN Settle(a, TRUE) ELSE Move(a, "append")

Append1(a) ==
    /\ Writing(a, "append")
    /\ IF pen[a].guard THEN Put(a, Settled(pen[a], TRUE)) ELSE Move(a, "look") /\ UNCHANGED doc

LookAgain(a) ==
    /\ Writing(a, "look") /\ UNCHANGED doc
    /\ pen' = [pen EXCEPT ![a].landed = Has(Head(pen[a].todo)), ![a].at = "refresh"]

Refresh(a) ==
    /\ Writing(a, "refresh") /\ UNCHANGED doc
    /\ LET x == [pen[a] EXCEPT !.guard = TRUE] IN
       pen' = [pen EXCEPT ![a] = IF x.landed THEN Settled(x, TRUE)
                                 ELSE IF x.second THEN Settled(x, FALSE)
                                 ELSE [x EXCEPT !.second = TRUE, !.at = "append"]]

WriteReceipt(a) == LookFirst(a) \/ Append1(a) \/ LookAgain(a) \/ Refresh(a)

\* A call that fails: a look; an append that was not carried out, or was; the
\* look after an append that was.
ReceiptFails(a) ==
    \/ (Writing(a, "has") \/ Writing(a, "look")) /\ Settle(a, FALSE) /\ UNCHANGED doc
    \/ Writing(a, "append") /\ Move(a, "look") /\ UNCHANGED doc
    \/ Writing(a, "append") /\ pen[a].guard /\ Put(a, [pen[a] EXCEPT !.at = "look", !.guard = FALSE])
    \/ Writing(a, "append") /\ pen[a].guard /\ Put(a, Settled(pen[a], FALSE))

\* The owner changes his request.
Rewrite == doc.req < MaxRequests /\ Write([doc EXCEPT !.req = @ + 1], NoWorker, NoPen)
=============================================================================
