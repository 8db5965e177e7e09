--------------------------- MODULE MCBusRequests ---------------------------
(* Small instances of the request worker.                                    *)
EXTENDS BusRequests

CONSTANTS op, probe, w1, w2

Two == <<op, probe>>
Both == {w1, w2}
TheProbe == {probe}
=============================================================================
