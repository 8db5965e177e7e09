---------------------------- MODULE MCBoardWatcher ----------------------------
(* Small instances of the board watcher, with two jobs: two ticks over one   *)
(* row, with a doorbell that starts a job too; and one tick over two rows,   *)
(* for long enough that a row can fall out of the overlap.                   *)
EXTENDS BoardWatcher

CONSTANTS gemini, outbox, plain, odd, t1

OddFor == [j \in Jobs |-> IF j = outbox THEN {odd} \cap Rows ELSE {}]
WantsFor == [j \in Jobs |-> {plain}]
Overlapping == [alsoRung |-> {gemini}, rows |-> {plain}, ticks |-> Ticks, time |-> 2]
Alone == [alsoRung |-> {}, rows |-> Rows, ticks |-> {t1}, time |-> 3]
TwoSettings == {Overlapping, Alone}
=============================================================================
