----------------------------- MODULE KeyedMutex -----------------------------
(***************************************************************************)
(* What callers of withLock rely on (packages/shared/src/KeyedLock.ts): a  *)
(* key that somebody holds is not given to anybody else.  Holders may let  *)
(* go together, as the fibers of a server that is lost do.                 *)
(***************************************************************************)
CONSTANTS Key, Holder

VARIABLE held   (* who holds what *)

Init == held = {}

Take(k, h) ==
  /\ \A g \in held : g.key # k
  /\ held' = held \cup {[key |-> k, by |-> h]}

LetGo(H) == H # {} /\ held' = held \ H

Next ==
  \/ \E k \in Key, h \in Holder : Take(k, h)
  \/ \E H \in SUBSET held : LetGo(H)

Spec == Init /\ [][Next]_held
=============================================================================
