---------------------------- MODULE ThreadLoading ----------------------------
(***************************************************************************)
(* One thread of a provider session that several threads share             *)
(* (orchestration-v2/ProviderSessionManager.ts).  The session remembers    *)
(* which threads the provider has loaded; turns and requests of MCP apps   *)
(* hold the thread loaded and load it if needed, an idle thread is         *)
(* unloaded, and a detach unloads it too.  All but the detach's change of  *)
(* the books happens under the thread's attachment lock.                   *)
(***************************************************************************)
EXTENDS Integers, FiniteSets

CONSTANTS
  Request,       (* turns and MCP app requests of the thread               *)
  Unloader,      (* idle unload timers                                     *)
  Detacher,      (* the fiber of a detach                                  *)
  Free,          (* not a fiber                                            *)
  MaxDetaches    (* detaches of the thread                                 *)

VARIABLES
  attached,      (* the thread is in attachedThreadIds                     *)
  loaded,        (* it is in loadedProviderThreadsByThread                 *)
  native,        (* the provider has it loaded                             *)
  holders,       (* requests among the entry's busyTurns                   *)
  unload,        (* idleThreadUnloads: is there one, generation, fiber     *)
  attachment,    (* who holds the attachment lock                          *)
  request,       (* where each request is                                  *)
  unloader,      (* where each unload timer is, and its generation         *)
  detacher,      (* where the detach is                                    *)
  detaches,      (* detaches so far                                        *)
  cut            (* history: running requests a detach came upon           *)

loadVars ==
  <<attached, loaded, native, holders, unload, attachment, request, unloader,
    detacher, detaches, cut>>

NotPending == [tracked |-> FALSE, generation |-> 0, fiber |-> Free]
NoUnload == [at |-> "free", generation |-> 0]

LoadingTypeOK ==
  /\ attached \in BOOLEAN
  /\ loaded \in BOOLEAN
  /\ native \in BOOLEAN
  /\ holders \subseteq Request
  /\ unload \in [tracked : BOOLEAN, generation : Nat, fiber : Unloader \cup {Free}]
  /\ attachment \in Request \cup Unloader \cup {Detacher, Free}
  /\ request \in [Request -> {"new", "loading", "attached", "starting", "marked",
                              "resuming", "running", "ending", "over"}]
  /\ unloader \in [Unloader -> [at : {"free", "sleeping", "probing", "unloading"},
                                generation : Nat]]
  /\ detacher \in {"idle", "detached", "unloading"}
  /\ detaches \in 0..MaxDetaches
  /\ cut \subseteq Request

LoadingInit ==
  /\ attached = FALSE
  /\ loaded = FALSE
  /\ native = FALSE
  /\ holders = {}
  /\ unload = NotPending
  /\ attachment = Free
  /\ request = [q \in Request |-> "new"]
  /\ unloader = [u \in Unloader |-> NoUnload]
  /\ detacher = "idle"
  /\ detaches = 0
  /\ cut = {}

-----------------------------------------------------------------------------
(* Requests.                                                               *)

(* holdThreadLoaded: a new generation, and the unload timer is cancelled.  *)
Hold ==
  /\ unload' = [tracked |-> TRUE, generation |-> unload.generation + 1, fiber |-> Free]
  /\ unloader' = IF unload.fiber \in Unloader
                   THEN [unloader EXCEPT ![unload.fiber] = NoUnload]
                   ELSE unloader

(* resumeThread of the session: attach, hold, and load unless it is.       *)
Load(q) ==
  /\ request[q] = "new"
  /\ attachment = Free
  /\ attached' = TRUE
  /\ Hold
  /\ request' = [request EXCEPT ![q] = IF loaded THEN "attached" ELSE "loading"]
  /\ attachment' = IF loaded THEN Free ELSE q
  /\ UNCHANGED <<loaded, native, holders, detacher, detaches, cut>>

(* startTurn attaches the thread once more, in case it was detached.       *)
Attach(q) ==
  /\ request[q] = "attached"
  /\ attachment = Free
  /\ attached' = TRUE
  /\ request' = [request EXCEPT ![q] = "starting"]
  /\ UNCHANGED <<loaded, native, holders, unload, attachment, unloader, detacher,
                 detaches, cut>>

(* Acquiring in startTurn and withMcpAppThread: of an attached thread the  *)
(* turn is marked busy and the thread held; an app request does not attach *)
(* first.                                                                  *)
Mark(q) ==
  /\ request[q] \in {"new", "starting"}
  /\ attachment = Free
  /\ IF attached
       THEN /\ holders' = holders \cup {q}
            /\ Hold
            /\ request' = [request EXCEPT ![q] = "marked"]
       ELSE /\ request' = [request EXCEPT ![q] = "over"]
            /\ UNCHANGED <<holders, unload, unloader>>
  /\ UNCHANGED <<attached, loaded, native, attachment, detacher, detaches, cut>>

(* resumeProviderThread under the lock: the request goes on at once if the *)
(* thread is known to be loaded.                                           *)
Resume(q) ==
  /\ request[q] = "marked"
  /\ attachment = Free
  /\ request' = [request EXCEPT ![q] = IF ~attached THEN "ending"
                                       ELSE IF loaded THEN "running" ELSE "resuming"]
  /\ attachment' = IF attached /\ ~loaded THEN q ELSE Free
  /\ UNCHANGED <<attached, loaded, native, holders, unload, unloader, detacher,
                 detaches, cut>>

(* The provider has loaded the thread, which is noted if it is still       *)
(* attached; or it failed to, or the fiber was interrupted and what the    *)
(* provider does is not known.                                             *)
Resumed(q) ==
  /\ request[q] \in {"loading", "resuming"}
  /\ attachment' = Free
  /\ \E success \in BOOLEAN :
       /\ native' \in IF success THEN {TRUE} ELSE {native, TRUE}
       /\ loaded' = (loaded \/ (success /\ attached))
       /\ request' = [request EXCEPT ![q] =
                        IF success /\ attached
                          THEN IF @ = "loading" THEN "attached" ELSE "running"
                          ELSE IF @ = "loading" THEN "over" ELSE "ending"]
  /\ UNCHANGED <<attached, holders, unload, unloader, detacher, detaches, cut>>

(* The turn ends, or the request is answered or interrupted.               *)
Answered(q) ==
  /\ request[q] \in {"marked", "running"}
  /\ request' = [request EXCEPT ![q] = "ending"]
  /\ UNCHANGED <<attached, loaded, native, holders, unload, attachment, unloader,
                 detacher, detaches, cut>>

(* markIdle, and after it scheduleThreadUnload: unless the thread is busy, *)
(* a new timer replaces the one there is.                                  *)
MarkRequestIdle(q) ==
  /\ request[q] = "ending"
  /\ q \in holders
  /\ holders' = holders \ {q}
  /\ UNCHANGED <<attached, loaded, native, unload, attachment, request, unloader,
                 detacher, detaches, cut>>

ScheduleUnload(q) ==
  /\ request[q] = "ending"
  /\ q \notin holders
  /\ request' = [request EXCEPT ![q] = "over"]
  /\ IF holders = {} /\ unload.tracked
       THEN \E u \in Unloader :
              /\ unloader[u].at = "free"
              /\ unload' = [unload EXCEPT !.generation = @ + 1, !.fiber = u]
              /\ unloader' =
                   [v \in Unloader |->
                      IF v = u THEN [at |-> "sleeping", generation |-> unload.generation + 1]
                      ELSE IF v = unload.fiber THEN NoUnload ELSE unloader[v]]
              /\ attachment' = IF attachment = unload.fiber THEN Free ELSE attachment
       ELSE UNCHANGED <<unload, attachment, unloader>>
  /\ UNCHANGED <<attached, loaded, native, holders, detacher, detaches, cut>>

-----------------------------------------------------------------------------
(* unloadIdleThread.                                                       *)

Current(u) == unload.tracked /\ unload.generation = unloader[u].generation

(* Under the lock: a thread that is busy, detached or held again is left   *)
(* alone, otherwise the provider is asked for background work.             *)
EnterUnload(u) ==
  /\ unloader[u].at = "sleeping"
  /\ attachment = Free
  /\ IF Current(u) /\ attached /\ holders = {}
       THEN /\ unloader' = [unloader EXCEPT ![u].at = "probing"]
            /\ attachment' = u
       ELSE /\ unloader' = [unloader EXCEPT ![u] = NoUnload]
            /\ UNCHANGED attachment
  /\ UNCHANGED <<attached, loaded, native, holders, unload, request, detacher, detaches,
                 cut>>

(* Background work: the timer sleeps for another window.                   *)
DeferUnload(u) ==
  /\ unloader[u].at = "probing"
  /\ unloader' = [unloader EXCEPT ![u].at = "sleeping"]
  /\ attachment' = Free
  /\ UNCHANGED <<attached, loaded, native, holders, unload, request, detacher, detaches,
                 cut>>

(* The books change before the provider is asked to unload.                *)
BeginUnload(u) ==
  /\ unloader[u].at = "probing"
  /\ IF Current(u)
       THEN /\ loaded' = FALSE
            /\ unload' = NotPending
            /\ unloader' = [unloader EXCEPT ![u].at = "unloading"]
            /\ UNCHANGED attachment
       ELSE /\ unloader' = [unloader EXCEPT ![u] = NoUnload]
            /\ attachment' = Free
            /\ UNCHANGED <<loaded, unload>>
  /\ UNCHANGED <<attached, native, holders, request, detacher, detaches, cut>>

(* The provider has unloaded it, failed to, or did not answer in time.     *)
Unloaded(u) ==
  /\ unloader[u].at = "unloading"
  /\ native' \in {native, FALSE}
  /\ unloader' = [unloader EXCEPT ![u] = NoUnload]
  /\ attachment' = Free
  /\ UNCHANGED <<attached, loaded, holders, unload, request, detacher, detaches, cut>>

-----------------------------------------------------------------------------
(* detach, and the provider's errors.                                      *)

(* The books are changed without the lock, and the unload timer is         *)
(* cancelled, even while it holds the lock.                                *)
Detach ==
  /\ detacher = "idle"
  /\ detaches < MaxDetaches
  /\ attached
  /\ detaches' = detaches + 1
  /\ detacher' = "detached"
  /\ attached' = FALSE
  /\ loaded' = FALSE
  /\ cut' = cut \cup {q \in Request : request[q] = "running"}
  /\ unload' = NotPending
  /\ unloader' = IF unload.fiber \in Unloader
                   THEN [unloader EXCEPT ![unload.fiber] = NoUnload]
                   ELSE unloader
  /\ attachment' = IF attachment = unload.fiber THEN Free ELSE attachment
  /\ UNCHANGED <<native, holders, request>>

(* Faulty: a thread attached again in the meantime is unloaded too.        *)
DetachUnloadAnyway ==
  /\ detacher = "detached"
  /\ attachment = Free
  /\ detacher' = "unloading"
  /\ attachment' = Detacher
  /\ UNCHANGED <<attached, loaded, native, holders, unload, request, unloader, detaches,
                 cut>>

(* Then, under the lock, the provider unloads what was not attached again. *)
DetachUnload ==
  /\ detacher = "detached"
  /\ attachment = Free
  /\ detacher' = IF attached THEN "idle" ELSE "unloading"
  /\ attachment' = IF attached THEN Free ELSE Detacher
  /\ UNCHANGED <<attached, loaded, native, holders, unload, request, unloader, detaches,
                 cut>>

DetachEnds ==
  /\ detacher = "unloading"
  /\ native' \in {native, FALSE}
  /\ detacher' = "idle"
  /\ attachment' = Free
  /\ UNCHANGED <<attached, loaded, holders, unload, request, unloader, detaches, cut>>

(* The pump sees an error of the thread: it is loaded again next time.     *)
ThreadErrs ==
  /\ loaded
  /\ loaded' = FALSE
  /\ UNCHANGED <<attached, native, holders, unload, attachment, request, unloader,
                 detacher, detaches, cut>>

-----------------------------------------------------------------------------
LoadingNext ==
  \/ \E q \in Request :
       \/ Load(q) \/ Attach(q) \/ Mark(q) \/ Resume(q) \/ Resumed(q)
       \/ Answered(q) \/ MarkRequestIdle(q) \/ ScheduleUnload(q)
  \/ \E u \in Unloader :
       EnterUnload(u) \/ DeferUnload(u) \/ BeginUnload(u) \/ Unloaded(u)
  \/ Detach
  \/ DetachUnload
  \/ DetachEnds
  \/ ThreadErrs

LoadingSpec == LoadingInit /\ [][LoadingNext]_loadVars

-----------------------------------------------------------------------------
(* A turn or an app request that went on to the provider finds its thread  *)
(* loaded there, whatever unloads and detaches raced it before; only a     *)
(* detach that comes upon it takes the thread away                         *)
(* (ProviderSessionManager.ts:1591, 2603).                                 *)
RunsLoaded ==
  \A q \in Request : request[q] = "running" => native \/ q \in cut
=============================================================================
