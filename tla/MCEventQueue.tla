---------------------------- MODULE MCEventQueue ----------------------------
(* Small instances of EventQueue: two targets, e1 of the first and the other *)
(* events of the second, so that a batch can mix them.                      *)
EXTENDS EventQueue

CONSTANTS e1, t1, t2

MCTargetOf    == [e \in Events |-> IF e = e1 THEN t1 ELSE t2]
MCBatchSize   == [t \in Targets |-> IF t = t1 THEN 2 ELSE 1]
MCMaxAttempts == [t \in Targets |-> IF t = t1 THEN 1 ELSE 0]
=============================================================================
