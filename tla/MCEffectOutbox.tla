--------------------------- MODULE MCEffectOutbox ---------------------------
(* Small instances of EffectOutbox: effects of one thread that exercise     *)
(* every kind, drained by two fibers.                                       *)
EXTENDS EffectOutbox, TLC

CONSTANTS e1, e2, e3, t1, f1, f2

OneThread == [e \in Effect |-> t1]

(* A start, the interrupt that follows it and a capture: one lane.          *)
LaneKinds == e1 :> "turn" @@ e2 :> "control" @@ e3 :> "replayable"

(* A start and a capture behind it in the lane.                             *)
StartThenCapture == e1 :> "turn" @@ e2 :> "replayable"

(* A title next to a start: two lanes of one thread.                        *)
TitleKinds == e1 :> "turn" @@ e2 :> "title"

FiberSymmetry == Permutations(Fiber)
=============================================================================
