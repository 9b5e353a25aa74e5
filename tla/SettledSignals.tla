--------------------------- MODULE SettledSignals ---------------------------
(***************************************************************************)
(* awaitSettled of the effect outbox (EffectOutbox.ts): fibers wait for a  *)
(* row of the outbox to settle on a deferred kept per effect.  A waiter    *)
(* registers the deferred, or joins the one that is there, before it reads *)
(* the row; settling commits first and signals after.  A command may       *)
(* cancel the row, and signals only after its own transaction.             *)
(***************************************************************************)
EXTENDS Integers

CONSTANTS
  Waiter,        (* fibers that await the effect                           *)
  Deferred,      (* identities of deferreds                                *)
  NoDeferred     (* not a deferred                                         *)

VARIABLES
  row,           (* status of the effect's row, "gone" once pruned         *)
  settledSignal, (* the entry of the effect in settledSignals              *)
  completed,     (* deferreds that are done                                *)
  owed,          (* signals still to be sent for a committed settlement    *)
  wait,          (* where each waiter is                                   *)
  joined         (* the deferred each waiter registered or joined          *)

signalVars == <<row, settledSignal, completed, owed, wait, joined>>

Unsettled == {"pending", "running"}

TypeOK ==
  /\ row \in Unsettled \cup {"settled", "gone"}
  /\ settledSignal \in Deferred \cup {NoDeferred}
  /\ completed \subseteq Deferred
  /\ owed \in BOOLEAN
  /\ wait \in [Waiter -> {"out", "registered", "awaiting", "clearing", "woken"}]
  /\ joined \in [Waiter -> Deferred \cup {NoDeferred}]

(* Callers await effects that are committed: the row exists.               *)
Init ==
  /\ row = "pending"
  /\ settledSignal = NoDeferred
  /\ completed = {}
  /\ owed = FALSE
  /\ wait = [w \in Waiter |-> "out"]
  /\ joined = [w \in Waiter |-> NoDeferred]

Unreferenced ==
  {d \in Deferred : d # settledSignal /\ \A w \in Waiter : joined[w] # d}

(* Faulty: every waiter makes its own deferred.                            *)
RegisterOwn(w) ==
  /\ wait[w] = "out"
  /\ \E d \in Unreferenced :
       /\ settledSignal' = d
       /\ joined' = [joined EXCEPT ![w] = d]
       /\ completed' = completed \ {d}
  /\ wait' = [wait EXCEPT ![w] = "registered"]
  /\ UNCHANGED <<row, owed>>

(* The waiter takes the deferred of the effect, or makes it.               *)
Register(w) ==
  /\ wait[w] = "out"
  /\ \E d \in IF settledSignal # NoDeferred THEN {settledSignal} ELSE Unreferenced :
       /\ settledSignal' = d
       /\ joined' = [joined EXCEPT ![w] = d]
       /\ completed' = IF settledSignal = NoDeferred THEN completed \ {d} ELSE completed
  /\ wait' = [wait EXCEPT ![w] = "registered"]
  /\ UNCHANGED <<row, owed>>

ReadRow(w) ==
  /\ wait[w] = "registered"
  /\ wait' = [wait EXCEPT ![w] = IF row \in Unsettled THEN "awaiting" ELSE "clearing"]
  /\ UNCHANGED <<row, settledSignal, completed, owed, joined>>

(* signalSettled: the entry goes, then its deferred completes.             *)
SignalSettled ==
  /\ settledSignal' = NoDeferred
  /\ completed' = completed \cup ({settledSignal} \ {NoDeferred})

(* A settled row: the waiter signals for whoever joined it and returns.    *)
ClearEntry(w) ==
  /\ wait[w] = "clearing"
  /\ SignalSettled
  /\ wait' = [wait EXCEPT ![w] = "woken"]
  /\ UNCHANGED <<row, owed, joined>>

Wake(w) ==
  /\ wait[w] = "awaiting"
  /\ joined[w] \in completed
  /\ wait' = [wait EXCEPT ![w] = "woken"]
  /\ UNCHANGED <<row, settledSignal, completed, owed, joined>>

(* The caller is done, or interrupted while it waits; it may come again.   *)
LeaveWait(w) ==
  /\ wait[w] \in {"registered", "awaiting", "woken"}
  /\ wait' = [wait EXCEPT ![w] = "out"]
  /\ joined' = [joined EXCEPT ![w] = NoDeferred]
  /\ UNCHANGED <<row, settledSignal, completed, owed>>

ClaimRow ==
  /\ row = "pending"
  /\ row' = "running"
  /\ UNCHANGED <<settledSignal, completed, owed, wait, joined>>

(* retry and requeue put the row back and signal nobody.                   *)
RetryRow ==
  /\ row = "running"
  /\ row' = "pending"
  /\ UNCHANGED <<settledSignal, completed, owed, wait, joined>>

(* succeed, fail, or the cancellation by a command commit the row.         *)
SettleRow ==
  /\ row \in Unsettled
  /\ row' = "settled"
  /\ owed' = TRUE
  /\ UNCHANGED <<settledSignal, completed, wait, joined>>

(* signalSettled after succeed and fail, signalCancellations after the     *)
(* commit of the command.                                                  *)
SendSignal ==
  /\ owed
  /\ owed' = FALSE
  /\ SignalSettled
  /\ UNCHANGED <<row, wait, joined>>

(* A deleted thread takes the settled row with it.                         *)
PruneRow ==
  /\ row = "settled"
  /\ row' = "gone"
  /\ UNCHANGED <<settledSignal, completed, owed, wait, joined>>

Next ==
  \/ \E w \in Waiter :
       Register(w) \/ ReadRow(w) \/ ClearEntry(w) \/ Wake(w) \/ LeaveWait(w)
  \/ ClaimRow
  \/ RetryRow
  \/ SettleRow
  \/ SendSignal
  \/ PruneRow

(* The process stays up: fibers run on, and who committed signals.         *)
Fairness ==
  /\ \A w \in Waiter :
       WF_signalVars(ReadRow(w)) /\ WF_signalVars(ClearEntry(w)) /\ WF_signalVars(Wake(w))
  /\ WF_signalVars(SendSignal)

Spec == Init /\ [][Next]_signalVars /\ Fairness

-----------------------------------------------------------------------------
(* A waiter returns only when the row has settled, even when a caller that *)
(* shares its deferred left or cleared the entry (EffectOutbox.ts:479).     *)
WokenAfterSettle ==
  \A w \in Waiter : wait[w] = "woken" => row \notin Unsettled

(* No wakeup is lost between the registration and the read, nor when two   *)
(* waiters share a deferred: once the row has settled, whoever awaits it   *)
(* returns or leaves.                                                      *)
SettleWakesAll ==
  \A w \in Waiter : []<>(wait[w] = "awaiting" => row \in Unsettled)

(* Waiters return exactly when the row has settled.                        *)
WaitersExact == []WokenAfterSettle /\ SettleWakesAll
=============================================================================
