----------------------------- MODULE MCEventSink ----------------------------
(* Instances of EventSink: one client stream or one reactor stream.        *)
EXTENDS EventSink, TLC

CONSTANTS client, reactor

(* The client follows one thread, a reactor has no filter.                 *)
ClientOrAll == [r \in Reader |-> IF r = client THEN {"thread"} ELSE Topic]

OneOfThem == {{r} : r \in Reader}

WriterSymmetry == Permutations(Writer)
=============================================================================
