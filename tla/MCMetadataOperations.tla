------------------------- MODULE MCMetadataOperations -------------------------
(* Two operations compete for one field under one thread; one operation is   *)
(* worked on by three threads in two processes.                              *)
EXTENDS MetadataOperations

CONSTANTS o1, o2, lead, A, B, u, v, x

OneField == [o \in Ops |-> lead]
Two == {[ops |-> {o1, o2}, threads |-> {u}], [ops |-> {o1}, threads |-> {u, v, x}]}
Homes == [w \in Workers |-> IF w = x THEN B ELSE A]
=============================================================================
