------------------------ MODULE ShutdownCoordinator ------------------------
(***************************************************************************)
(* The terminal shutdown of the process                                    *)
(* (roundwatch-shutdown-coordinator.ts): fence every owner of work, join   *)
(* their lifetimes under one deadline, and close SQLite only when it is    *)
(* proven that nothing can touch it any more.                              *)
(*                                                                         *)
(* Owners are the HTTP server, the application, the facilitator client,    *)
(* the poller, the reconciler, the health probe and the dispatcher.  An    *)
(* owner has work while it runs an operation that may use the store.       *)
(* Termination is a request to the platform: as the code provides for,     *)
(* work may still go on after it.                                          *)
(***************************************************************************)
EXTENDS Integers

CONSTANTS
    Owners,   \* everything the coordinator joins
    Server    \* the one owner that is closed and not fenced

ASSUME ShutdownAssumption == Server \in Owners

VARIABLES
    fenced,     \* owners that admit no more work
    work,       \* owners that have admitted work which is not finished
    pending,    \* owners whose lifetime promise has not settled
    unproven,   \* ownershipUnproven
    failed,     \* errors is not empty
    status,     \* "running", "stopping" or the status of the result
    exitCode,   \* of the result, 2 before there is one
    store       \* "open" or "closed"

shutdownVars == <<fenced, work, pending, unproven, failed, status, exitCode, store>>

Completed == {"drained", "deadline-exceeded", "ownership-failed"}

ShutdownInit ==
    /\ fenced = {}
    /\ work = {}
    /\ pending = Owners
    /\ unproven = FALSE
    /\ failed = FALSE
    /\ status = "running"
    /\ exitCode = 2
    /\ store = "open"

(* An owner that is not fenced admits an operation. *)
Admit(o) ==
    /\ o \notin fenced
    /\ work' = work \cup {o}
    /\ UNCHANGED <<fenced, pending, unproven, failed, status, exitCode, store>>

Finish(o) ==
    /\ o \in work
    /\ work' = work \ {o}
    /\ UNCHANGED <<fenced, pending, unproven, failed, status, exitCode, store>>

(* Mutant: a fence that throws is only reported. *)
ProofLostOnDrainOnly(badFences, badDrains) == badDrains # {}

(* A fence or a drain that throws proves nothing of its owner. *)
ProofLost(badFences, badDrains) == badFences \cup badDrains # {}

(* shutdown, the first call: one synchronous pass over all fences (and the  *)
(* sampler's stop), the server's close, the deadline timer and the drains,  *)
(* any of which may throw.  A fence that throws may or may not have closed  *)
(* its owner.                                                               *)
ShutdownCall(hasError, noTimer, badSampler, badFences, badDrains) ==
    /\ \E left \in SUBSET (badFences \cup (badDrains \cap {Server})) :
         fenced' = Owners \ left
    /\ pending' = Owners \ badDrains
    /\ unproven' = (badSampler \/ ProofLost(badFences, badDrains))
    /\ failed' = (hasError \/ noTimer \/ badSampler \/ badFences \cup badDrains # {})
    /\ status' = IF noTimer THEN "ownership-failed" ELSE "stopping"
    /\ exitCode' = IF noTimer THEN 1 ELSE 2
    /\ UNCHANGED <<work, store>>

Shutdown ==
    /\ status = "running"
    /\ \E hasError, noTimer, badSampler \in BOOLEAN,
          badFences \in SUBSET (Owners \ {Server}), badDrains \in SUBSET Owners :
            ShutdownCall(hasError, noTimer, badSampler, badFences, badDrains)

(* shutdown, any later call: a signal or another failure. *)
ShutdownAgain ==
    /\ status = "stopping"
    /\ failed' = TRUE
    /\ UNCHANGED <<fenced, work, pending, unproven, status, exitCode, store>>

(* An owner's drain settles once its admitted work is over: it may reject.  *)
OwnerSettles(o) ==
    /\ status # "running"
    /\ o \in pending
    /\ o \notin work
    /\ pending' = pending \ {o}
    /\ failed' \in {failed, TRUE}
    /\ UNCHANGED <<fenced, work, unproven, status, exitCode, store>>

(* IncompleteServerClose: close() itself threw, the server may live on. *)
ServerCloseFails ==
    /\ status # "running"
    /\ Server \in pending
    /\ pending' = pending \ {Server}
    /\ fenced' \in {fenced, fenced \ {Server}}
    /\ unproven' = TRUE
    /\ failed' = TRUE
    /\ UNCHANGED <<work, status, exitCode, store>>

(* Mutant: the exit code is decided before the store is closed. *)
JoinIgnoringCloseError ==
    /\ status = "stopping"
    /\ pending = {}
    /\ ~unproven
    /\ status' = "drained"
    /\ store' \in {"open", "closed"}
    /\ exitCode' = IF failed THEN 1 ELSE 0
    /\ UNCHANGED <<fenced, work, pending, unproven, failed>>

(* All lifetimes settled before the deadline; closing the store may throw. *)
Join ==
    /\ status = "stopping"
    /\ pending = {}
    /\ \/ /\ unproven
          /\ status' = "ownership-failed"
          /\ exitCode' = 1
          /\ UNCHANGED <<failed, store>>
       \/ /\ ~unproven
          /\ status' = "drained"
          /\ \/ store' = "closed" /\ failed' = failed
             \/ store' = "open" /\ failed' = TRUE
          /\ exitCode' = IF failed' THEN 1 ELSE 0
    /\ UNCHANGED <<fenced, work, pending, unproven>>

(* Mutant: the deadline waits for a proof. *)
DeadlineWhileProven ==
    /\ status = "stopping"
    /\ ~unproven
    /\ status' = "deadline-exceeded"
    /\ exitCode' = 1
    /\ UNCHANGED <<fenced, work, pending, unproven, failed, store>>

(* The deadline forfeits the store for good. *)
Deadline ==
    /\ status = "stopping"
    /\ status' = "deadline-exceeded"
    /\ exitCode' = 1
    /\ UNCHANGED <<fenced, work, pending, unproven, failed, store>>

ShutdownNext ==
    \/ \E o \in Owners : Admit(o) \/ Finish(o) \/ OwnerSettles(o)
    \/ Shutdown
    \/ ShutdownAgain
    \/ ServerCloseFails
    \/ Join
    \/ Deadline

ShutdownSpec == ShutdownInit /\ [][ShutdownNext]_shutdownVars

(* The timer fires; nothing is assumed of the owners. *)
ShutdownFairSpec == ShutdownSpec /\ WF_shutdownVars(Deadline)

-----------------------------------------------------------------------------
(* Type invariant of the coordinator. *)
ShutdownTypeOK ==
    /\ fenced \subseteq Owners
    /\ work \subseteq Owners
    /\ pending \subseteq Owners
    /\ unproven \in BOOLEAN
    /\ failed \in BOOLEAN
    /\ status \in {"running", "stopping"} \cup Completed
    /\ exitCode \in 0..2
    /\ store \in {"open", "closed"}

(* SQLite is closed only when no owner has work that could use it and none  *)
(* can ever admit more, whichever fence or drain threw and whoever hangs.   *)
StoreOutlivesWork == store = "closed" => work = {} /\ fenced = Owners

(* Exit code 0 is the promise that everything drained and the store closed. *)
CleanExitIsTrue == exitCode = 0 => status = "drained" /\ store = "closed" /\ ~unproven

(* The result is given once: owners that settle late, after the deadline or *)
(* after a failed fence, neither change it nor close the store.             *)
ResultIsFinal ==
    [][(status \in Completed) =>
        status' = status /\ exitCode' = exitCode /\ store' = store]_shutdownVars

(* A shutdown concludes even when an owner hangs for ever.                  *)
ShutdownConcludes == status = "stopping" ~> status \in Completed

=============================================================================
