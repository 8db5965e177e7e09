---------------------------- MODULE MCCallBridge ----------------------------
(***************************************************************************)
(* Seven rooms: with the read-back, with a fault or with a lock that       *)
(* changes hands; where changes reach living cards, which end or are       *)
(* served by two executions; with the doorbell, with lost appends or with  *)
(* two executions; and one whose tasks live to their end.                  *)
(***************************************************************************)
EXTENDS CallBridge

CONSTANTS a1, a2, b1, q1

AllTasks == (1..MaxSaid) \X Agents
Word(kind, to) == [kind |-> kind, to |-> to]
Plain == [readback |-> FALSE, doorbell |-> FALSE, words |-> {Word("ask", {a1})}, revokes |-> FALSE,
          ops |-> {}, ends |-> FALSE, bridges |-> {b1}, requests |-> {q1},
          said |-> 1, time |-> 0, faults |-> 0, lapses |-> 0]
Consent == [Plain EXCEPT !.readback = TRUE, !.said = 4, !.time = 1, !.faults = 1,
              !.words = {Word("ask", {a1, a2}), Word("go", {a1}), Word("cancel", {})}]
Handover == [Plain EXCEPT !.readback = TRUE, !.said = 3, !.time = 1, !.lapses = 1, !.bridges = Bridges,
               !.words = @ \cup {Word("go", {}), Word("cancel", {})}]
Changes == [Plain EXCEPT !.words = @ \cup {Word("go", {})}, !.ops = {"card"}, !.said = 3]
Expiring == [Changes EXCEPT !.ends = TRUE]
Takeover == [Changes EXCEPT !.lapses = 1, !.bridges = Bridges]
Doorbell == [Plain EXCEPT !.doorbell = TRUE, !.ops = {"card"}, !.ends = TRUE, !.faults = 1]
TwoBells == [Plain EXCEPT !.doorbell = TRUE, !.lapses = 1, !.bridges = Bridges]
Lives == [Plain EXCEPT !.ops = {"card", "complete"}, !.ends = TRUE, !.revokes = TRUE,
            !.requests = Requests, !.said = 2]
Rooms == {Consent, Handover, Expiring, Takeover, Doorbell, TwoBells, Lives}
PartialEffects == {{}, {"card", "inbox"}}
=============================================================================
