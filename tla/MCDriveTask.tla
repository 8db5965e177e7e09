----------------------------- MODULE MCDriveTask -----------------------------
(***************************************************************************)
(* A request of the owner's doc from the intake to the answer, in rooms    *)
(* that each keep one part of it whole and bound the rest.                 *)
(***************************************************************************)
EXTENDS ApiWorker

CONSTANTS p1, p2, w1, w2

Never == [b \in Bounds |-> 0]
Once(bounds) == [b \in Bounds |-> IF b \in bounds THEN 1 ELSE 0]

-----------------------------------------------------------------------------
(* The intake alone: an unaddressed doc, no laptop yet, an API worker.     *)

Alone == [passes |-> {p1}, works |-> {}, filter |-> TRUE, live |-> FALSE, up |-> FALSE, to |-> NoWorker,
          cli |-> FALSE, api |-> TRUE, allowed |-> Workers, polled |-> FALSE, delivered |-> FALSE, only |-> FALSE,
          cap |-> 0, budget |-> Never]

\* A poll and a push overlap: the laptop changes and a lease runs out under a pass, or a call fails.
Overlapping == [Alone EXCEPT !.passes = {p1, p2}, !.budget = Once({"flip", "lapse"})]
Failing == [Overlapping EXCEPT !.budget = Once({"fault"})]
\* Redis forgets, twice or with a pass that dies; inbox-wake fails; the task filter is off.
Forgetful == [Alone EXCEPT !.filter = FALSE, !.budget = [Once({"flip", "wake"}) EXCEPT !["forget"] = 2]]
Forgotten == [Alone EXCEPT !.filter = FALSE, !.budget = [Once({"flip", "fault"}) EXCEPT !["forget"] = 2]]
\* The request needs the laptop's tools; nobody else may have it; no other worker is there.
NeedsLaptop == [Alone EXCEPT !.cli = TRUE, !.budget = Once({"flip", "fault"})]
LaptopBarred == [Alone EXCEPT !.cli = TRUE, !.allowed = {Api}, !.budget = Once({"fault"})]
NobodyElse == [Alone EXCEPT !.api = FALSE, !.budget = Once({"flip", "fault"})]
\* The doc names the worker, which polls; it is edited, or grows old, and its day ends.
Edited == [Alone EXCEPT !.live = TRUE, !.to = Api, !.polled = TRUE, !.budget = Once({"fault", "edit"})]
Aging == [Edited EXCEPT !.budget = Once({"fault", "day", "age"})]

-----------------------------------------------------------------------------
(* The worker alone: a task that was delivered to it.                      *)

Taken == [Alone EXCEPT !.passes = {}, !.works = {w1}, !.filter = FALSE, !.to = Api, !.delivered = TRUE,
          !.cap = 2 * Reservation]

\* A call fails or the pass dies, and Redis forgets.
Lossy == [Taken EXCEPT !.budget = Once({"fault", "forget"})]
\* Two passes overlap, and a lease runs out under one.
Overtaken == [Taken EXCEPT !.works = {w1, w2}, !.budget = Once({"lapse"})]
\* The laptop has the first turn, and the day's cap is one call.
Thrifty == [Taken EXCEPT !.to = NoWorker, !.up = TRUE, !.cap = Reservation,
                         !.budget = Once({"fault", "day", "age"})]
Changed == [Thrifty EXCEPT !.up = FALSE, !.budget = Once({"fault", "edit"})]

-----------------------------------------------------------------------------
(* Both of them, one addressed and polled, one because the laptop is away. *)

Addressed == [Taken EXCEPT !.passes = {p1}, !.delivered = FALSE, !.polled = TRUE, !.only = TRUE, !.cap = Reservation]
Fallback == [Addressed EXCEPT !.to = NoWorker, !.polled = FALSE, !.only = FALSE]

TestRooms == {Overlapping, Failing, Forgetful, Forgotten, NeedsLaptop, LaptopBarred, NobodyElse, Edited, Aging,
              Lossy, Overtaken, Thrifty, Changed, Addressed, Fallback}
=============================================================================
