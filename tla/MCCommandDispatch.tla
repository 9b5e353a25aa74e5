------------------------- MODULE MCCommandDispatch --------------------------
(* Small instances of CommandDispatch.                                     *)
EXTENDS CommandDispatch, TLC

CONSTANTS d1, d2, d3, p, s, c, b, c1, c2, c3, c4, c5, c6

Ask(id, type, thread) == [id |-> id, type |-> type, thread |-> thread, source |-> NoThread]
From(id, type, source, thread) == [id |-> id, type |-> type, thread |-> thread, source |-> source]
Fork(id, source, thread) == From(id, "fork", source, thread)

NoParents == [t \in Thread |-> NoThread]
ChildOfP == [t \in Thread |-> IF t = c THEN p ELSE NoThread]
NoSideChats == NoParents
SideChatOfP == [t \in Thread |-> IF t = s THEN p ELSE NoThread]

(* Commands sent more than once, and an id used again for another thread.  *)
Repeated ==
  {Ask(c1, "resume", p), Ask(c1, "update", s), Ask(c2, "settle", p), Ask(c3, "promote", s)}

(* One id for two threads.                                                 *)
Reused == {Ask(c1, "resume", p), Ask(c1, "update", s)}

(* A thread p, its subagent c, and a side chat s that is opened while p    *)
(* is deleted, forked as a thread b and given the work of s.               *)
Family ==
  {Fork(c1, p, s), Ask(c2, "delete", p), Ask(c3, "message", c), Ask(c4, "finish", c),
   From(c5, "branch", p, b), From(c6, "merge", s, p)}

(* A side chat is promoted, forked and deleted at the same time.           *)
Forked == {Ask(c1, "promote", s), Fork(c2, s, c), Ask(c3, "delete", s)}

Fibers == Permutations(Dispatcher)
=============================================================================
