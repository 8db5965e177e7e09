----------------------------- MODULE MCAgentWaker -----------------------------
(***************************************************************************)
(* Small instances of the waker.  In TwoBands the person's message w       *)
(* overtakes the agents' rows; in OneBand nothing does.                    *)
(***************************************************************************)
EXTENDS AgentWaker, TLC

CONSTANTS w

TwoBands == {w}
OneBand == {}
Alike == Permutations(Runs) \cup Permutations(Owners)
=============================================================================
