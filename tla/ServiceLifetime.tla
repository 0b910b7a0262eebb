--------------------------- MODULE ServiceLifetime ---------------------------
(***************************************************************************)
(* The life of the process around its shutdown: the start                  *)
(* (roundwatch-startup.ts, index.ts), every HTTP request from its          *)
(* connection to its answer (app.ts, request-body.ts,                      *)
(* free-payment-gate.ts, request-telemetry.ts, acceptance-funnel.ts) and   *)
(* the calls to the facilitator (roundwatch-facilitator.ts), tracked by    *)
(* the owners the coordinator joins.                                       *)
(*                                                                         *)
(* The state of ShutdownCoordinator is kept by superposition: here an      *)
(* owner has work because of what requests, start and workers really do.   *)
(*                                                                         *)
(* A request is a record: where it is, whether its socket is open, the     *)
(* last event of its acceptance funnel, the status of its response, how    *)
(* far its payment went ("no", "invoked", "confirmed"), whether this       *)
(* request itself confirmed the activation, and the row it prepared.       *)
(* Token refill is abstracted: a gate may refuse at any time.              *)
(***************************************************************************)
EXTENDS ShutdownCoordinator, FiniteSets

CONSTANTS
    Application, Facilitator,   \* the owners of requests and of facilitator calls
    Background,                 \* the owner of the workers
    Requests,                   \* requests served at the same time
    Concurrency,                \* slots of each gate
    MaxThrows                   \* bound: fences and drains that throw

ASSUME ServiceAssumption ==
    /\ Owners = {Application, Facilitator, Background, Server}
    /\ Application \notin {Facilitator, Background, Server}
    /\ Facilitator \notin {Background, Server}
    /\ Background # Server
    /\ IsFiniteSet(Requests)
    /\ Concurrency \in Nat \ {0}
    /\ MaxThrows \in Nat

VARIABLES
    boot,        \* stage of startProductionRuntime
    listener,    \* of the HTTP server: "none", "open" or "closed"
    req,         \* request -> its record
    held         \* gate -> inFlight

serviceVars == <<shutdownVars, boot, listener, req, held>>

Gates == {"body", "payment", "free"}

Absent == [at |-> "out", open |-> FALSE, event |-> "none", status |-> 0,
           paid |-> "no", activated |-> FALSE, row |-> "none"]

(* Stages of a start in which initializePayments runs, and those of them in *)
(* which getSupported does.                                                 *)
Asking == {"headers", "supported", "retrying"}
Initialising == {"payments", "asked", "refused"} \cup Asking

(* Stages of a request inside the facilitator client, behind the payment    *)
(* gate, and owned by the application.                                      *)
Calling == {"verify", "verifying", "settle", "settling"}
BehindGate == Calling \cup {"prepare", "activate", "unwind"}
Owned == {"readiness", "body", "free"} \cup BehindGate

Inside(g) == {r \in Requests :
    req[r].at \in CASE g = "body" -> {"body"} [] g = "free" -> {"free"} [] g = "payment" -> BehindGate}

(* Mutant: a request is owned for as long as its client listens. *)
OwningSockets(requests, stage) ==
    (IF stage \in Initialising \/ \E r \in Requests : requests[r].at \in Owned /\ requests[r].open
        THEN {Application} ELSE {})
      \cup (IF stage \in Asking \/ \E r \in Requests : requests[r].at \in Calling THEN {Facilitator} ELSE {})
      \cup (IF \E r \in Requests : requests[r].open THEN {Server} ELSE {})

(* The owners that hold something: track until the promise settles, with or *)
(* without its socket; the server for as long as a connection is open.      *)
Owning(requests, stage) ==
    (IF stage \in Initialising \/ \E r \in Requests : requests[r].at \in Owned THEN {Application} ELSE {})
      \cup (IF stage \in Asking \/ \E r \in Requests : requests[r].at \in Calling THEN {Facilitator} ELSE {})
      \cup (IF \E r \in Requests : requests[r].open THEN {Server} ELSE {})

ServiceInit ==
    /\ ShutdownInit
    /\ boot = "resources"
    /\ listener = "none"
    /\ req = [r \in Requests |-> Absent]
    /\ held = [g \in Gates |-> 0]

joinVars == <<fenced, pending, unproven, failed, status, exitCode, store>>

(* A request, or the start, moves on and its owners with it. *)
Move(r, record) ==
    /\ req' = [req EXCEPT ![r] = record]
    /\ work' = Owning(req', boot) \cup (work \cap {Background})
    /\ UNCHANGED <<joinVars, boot, listener>>

Advance(stage) ==
    /\ boot' = stage
    /\ work' = Owning(req, boot') \cup (work \cap {Background})
    /\ UNCHANGED <<joinVars, req, held>>

-----------------------------------------------------------------------------
(* startProductionRuntime: nothing more is started once the service stops.  *)
InitializePayments ==
    /\ boot = "resources"
    /\ \/ status # "running" /\ Advance("abandoned")
       \/ status = "running" /\ Advance("payments")
    /\ UNCHANGED listener

(* getSupported begins: refused by a facilitator client that has stopped.   *)
AskSupported ==
    /\ boot = "payments"
    /\ Advance(IF Facilitator \in fenced THEN "refused" ELSE "headers")
    /\ UNCHANGED listener

(* assertAdmission before every request, the first and the retries.         *)
SendSupported ==
    /\ boot = "headers"
    /\ Advance(IF Facilitator \in fenced THEN "refused" ELSE "supported")
    /\ UNCHANGED listener

(* A kind list, a 429 to be retried after a delay, or an error.             *)
SupportedAnswered ==
    /\ boot = "supported"
    /\ \/ Advance("asked")
       \/ Advance("refused")
       \/ Facilitator \notin fenced /\ Advance("retrying")
    /\ UNCHANGED listener

(* waitToRetry: the delay passes, or stopAdmission cancels it.              *)
RetryWaited ==
    /\ boot = "retrying"
    /\ Advance(IF Facilitator \in fenced THEN "refused" ELSE "supported")
    /\ UNCHANGED listener

(* initializePayments settles. *)
Initialized ==
    /\ boot \in {"asked", "refused"}
    /\ Advance(IF boot = "asked" THEN "initialized" ELSE "failed")
    /\ UNCHANGED listener

(* Mutant: the listener opens whatever happened during initialisation. *)
ListenUnchecked ==
    /\ boot = "initialized"
    /\ Advance("bound")
    /\ listener' = "open"

Listen ==
    /\ boot = "initialized"
    /\ \/ status # "running" /\ Advance("abandoned") /\ UNCHANGED listener
       \/ status = "running" /\ Advance("bound") /\ listener' = "open"

(* The listening event starts the workers, or the listener fails.           *)
StartWorkers ==
    /\ boot = "bound"
    /\ \/ status # "running" /\ Advance("abandoned")
       \/ status = "running" /\ Advance("serving")
       \/ Advance("failed")
    /\ UNCHANGED listener

Startup ==
    \/ InitializePayments \/ AskSupported \/ SendSupported
    \/ SupportedAnswered \/ RetryWaited \/ Initialized \/ Listen \/ StartWorkers

-----------------------------------------------------------------------------
(* observeAcceptance, with the record's new place. *)
Observed(q, at, event) == [q EXCEPT !.at = at, !.event = event]

(* finishAcceptance: the one final outcome.  The SDK's own 402 before it    *)
(* verified anything is told from the stage alone.                          *)
Outcome(q) ==
    CASE q.paid = "confirmed" /\ ~q.activated
           /\ q.event \notin {"activation_pending", "activation_rejected"} -> "activation_pending"
      [] q.paid = "invoked" -> "settlement_ambiguous"
      [] q.event = "payment_protocol" -> "payment_protocol_rejected"
      [] \/ q.event \in {"signed_request_received", "durable_prepared", "activation_confirmed"}
         \/ q.event = "purchase_completed" /\ q.status # 200 -> "purchase_failed_unknown"
      [] OTHER -> q.event

(* The response leaves the application, its client still there or not.      *)
Responded(q, code, event) ==
    LET final == [q EXCEPT !.event = event, !.status = code]
    IN  [final EXCEPT !.at = "answered", !.event = Outcome(final)]

Connect(r) ==
    /\ req[r].at = "out"
    /\ listener = "open" /\ boot # "bound"
    /\ Move(r, [Absent EXCEPT !.at = "connected", !.open = TRUE])
    /\ UNCHANGED held

(* ownApplicationFetch: a stopped application answers by itself; otherwise  *)
(* a purchase begins, or a request for MCP or recovery passes its gate.     *)
Enter(r) ==
    /\ req[r].at = "connected"
    /\ \/ /\ Application \in fenced
          /\ Move(r, [req[r] EXCEPT !.at = "answered", !.status = 503])
          /\ UNCHANGED held
       \/ /\ Application \notin fenced
          /\ Move(r, Observed(req[r], "readiness", "signed_request_received"))
          /\ UNCHANGED held
       \/ /\ Application \notin fenced
          /\ held["free"] < Concurrency
          /\ held' = [held EXCEPT !["free"] = @ + 1]
          /\ Move(r, [req[r] EXCEPT !.at = "free"])

(* An MCP or recovery call ends in any way; finally releases its slot.      *)
ServeFree(r) ==
    /\ req[r].at = "free"
    /\ held' = [held EXCEPT !["free"] = @ - 1]
    /\ \E code \in {200, 400, 500} : Move(r, Responded(req[r], code, "none"))

(* pre_challenge: not ready, an unsigned request for the offer, or a signed *)
(* one for the body gate.                                                   *)
CheckReadiness(r) ==
    /\ req[r].at = "readiness"
    /\ \/ Move(r, Responded(req[r], 503, "admission_unavailable")) /\ UNCHANGED held
       \/ Move(r, Responded(req[r], 402, "challenge_issued")) /\ UNCHANGED held
       \/ Move(r, Responded(req[r], 429, "signed_request_rate_limited")) /\ UNCHANGED held
       \/ /\ held["body"] < Concurrency
          /\ held' = [held EXCEPT !["body"] = @ + 1]
          /\ Move(r, [req[r] EXCEPT !.at = "body"])

(* Mutant: the slot of a body that cannot be read is not given back. *)
ReadBodyLeaking(r) ==
    /\ req[r].at = "body"
    /\ \/ Move(r, Responded(req[r], 400, "body_validation_rejected")) /\ UNCHANGED held
       \/ /\ held["payment"] < Concurrency
          /\ held' = [held EXCEPT !["body"] = @ - 1, !["payment"] = @ + 1]
          /\ Facilitator \notin fenced
          /\ Move(r, [req[r] EXCEPT !.at = "verify"])

(* readJsonBodyWithLimit settles, however the client feeds the stream, at   *)
(* its deadline at the latest; then parsing, the header and the payment     *)
(* gate, up to the SDK: its own 402 or the call of verify.                  *)
ReadBody(r) ==
    /\ req[r].at = "body"
    /\ \/ /\ held' = [held EXCEPT !["body"] = @ - 1]
          /\ \/ Move(r, Responded(req[r], 400, "body_validation_rejected"))
             \/ Move(r, Responded(req[r], 400, "payment_header_rejected"))
             \/ Move(r, Responded(req[r], 429, "signed_request_rate_limited"))
       \/ /\ held["payment"] < Concurrency
          /\ held' = [held EXCEPT !["body"] = @ - 1, !["payment"] = @ + 1]
          /\ \/ Facilitator \notin fenced /\ Move(r, [req[r] EXCEPT !.at = "verify"])
             \/ /\ Facilitator \in fenced
                /\ Move(r, [Observed(req[r], "unwind", "payment_verification_unavailable") EXCEPT !.status = 402])
             \/ Move(r, [Observed(req[r], "unwind", "payment_protocol") EXCEPT !.status = 402])

(* The slot of the payment gate is held across the whole of next(). *)
Behind(r, at, code, event) ==
    /\ Move(r, [Observed(req[r], at, event) EXCEPT !.status = code])
    /\ UNCHANGED held

(* verify, its headers made: sent unless the client has stopped meanwhile;  *)
(* a call already sent is never aborted but by its timeout.                 *)
Verify(r) ==
    /\ req[r].at = "verify"
    /\ IF Facilitator \in fenced
          THEN Behind(r, "unwind", 402, "payment_verification_unavailable")
          ELSE Behind(r, "verifying", 0, req[r].event)

(* Mutant: an unavailable facilitator is asked again. *)
VerifiedRetrying(r) ==
    /\ req[r].at = "verifying"
    /\ \/ Behind(r, "prepare", 0, req[r].event)
       \/ Behind(r, "unwind", 402, "payment_verification_rejected")
       \/ Behind(r, "verify", 0, req[r].event)

(* Valid, invalid, or no usable answer in time. *)
Verified(r) ==
    /\ req[r].at = "verifying"
    /\ \/ Behind(r, "prepare", 0, req[r].event)
       \/ Behind(r, "unwind", 402, "payment_verification_rejected")
       \/ Behind(r, "unwind", 402, "payment_verification_unavailable")

(* The handler: every refusal skips settlement; with a new row settle is    *)
(* called, and refused by a client that has stopped.                        *)
Prepare(r) ==
    /\ req[r].at = "prepare"
    /\ \/ Behind(r, "unwind", 503, "admission_unavailable")
       \/ Behind(r, "unwind", 409, "idempotency_conflicted")
       \/ Behind(r, "unwind", 409, "idempotency_replayed")
       \/ Behind(r, "unwind", 429, "capacity_rejected")
       \/ Behind(r, "unwind", 500, "internal_admission_failed")
       \/ /\ LET sold == [req[r] EXCEPT !.row = "pending", !.paid = "invoked"]
             IN  Move(r, IF Facilitator \in fenced
                           THEN [Observed(sold, "unwind", "settlement_ambiguous") EXCEPT !.status = 402]
                           ELSE Observed(sold, "settle", "durable_prepared"))
          /\ UNCHANGED held

(* settle: a call that never left is as ambiguous as one that timed out.    *)
Settle(r) ==
    /\ req[r].at = "settle"
    /\ IF Facilitator \in fenced
          THEN Behind(r, "unwind", 402, "settlement_ambiguous")
          ELSE Behind(r, "settling", 0, req[r].event)

(* onAfterSettle records the candidate, which may fail; onSettleFailure     *)
(* leaves the row to the reconciler.                                        *)
Settled(r) ==
    /\ req[r].at = "settling"
    /\ \/ Behind(r, "unwind", 402, "settlement_ambiguous")
       \/ /\ \/ Move(r, [Observed(req[r], "activate", "settlement_confirmed") EXCEPT !.paid = "confirmed"])
             \/ Move(r, [Observed(req[r], "unwind", "activation_pending") EXCEPT
                            !.paid = "confirmed", !.status = 200])
          /\ UNCHANGED held

(* The lookup's answer: absent or failed, other than what was sold, or the  *)
(* evidence the row is activated with; a row the reconciler has activated   *)
(* meanwhile is activated again without change.                             *)
Activate(r) ==
    /\ req[r].at = "activate"
    /\ \/ Behind(r, "unwind", 200, "activation_pending")
       \/ /\ req[r].row = "pending"
          /\ Move(r, [Observed(req[r], "unwind", "activation_rejected") EXCEPT
                         !.row = "rejected", !.status = 200])
          /\ UNCHANGED held
       \/ /\ Move(r, [Observed(req[r], "unwind", "activation_confirmed") EXCEPT
                         !.row = "active", !.activated = TRUE, !.status = 200])
          /\ UNCHANGED held

(* Mutant: a confirmed settlement is answered without asking the store. *)
UnwindOnSettlement(r) ==
    /\ req[r].at = "unwind"
    /\ held' = [held EXCEPT !["payment"] = @ - 1]
    /\ IF req[r].status < 400
          THEN Move(r, Responded(req[r], 200, "purchase_completed"))
          ELSE Move(r, Responded(req[r], req[r].status, req[r].event))

(* The middlewares end in reverse: finally the slot, then the row the store *)
(* holds now decides over a response that settlement let pass.              *)
Unwind(r) ==
    /\ req[r].at = "unwind"
    /\ held' = [held EXCEPT !["payment"] = @ - 1]
    /\ CASE req[r].status >= 400 -> Move(r, Responded(req[r], req[r].status, req[r].event))
         [] req[r].status < 400 /\ req[r].row = "active" -> Move(r, Responded(req[r], 200, "purchase_completed"))
         [] OTHER -> Move(r, Responded(req[r], 500, req[r].event))

(* The reconciler activates a row whose payment it found. *)
Reconcile(r) ==
    /\ Background \in work
    /\ req[r].row = "pending"
    /\ req[r].at \in {"settling", "activate", "unwind"}
    /\ Move(r, [req[r] EXCEPT !.row = "active"])
    /\ UNCHANGED held

(* The client is gone: what it asked for goes on without it. *)
Disconnect(r) ==
    /\ req[r].open
    /\ req[r].at # "answered"
    /\ Move(r, IF req[r].at = "connected" THEN Absent ELSE [req[r] EXCEPT !.open = FALSE])
    /\ UNCHANGED held

(* The answer is written, or its socket is gone. *)
Leave(r) ==
    /\ req[r].at = "answered"
    /\ Move(r, Absent)
    /\ UNCHANGED held

-----------------------------------------------------------------------------
serviceOnly == <<boot, listener, req, held>>

(* The coordinator's first call closes the server, if there is one.         *)
Few == {S \in SUBSET Owners : Cardinality(S) <= MaxThrows}

Stop ==
    /\ status = "running"
    /\ \E hasError, noTimer, badSampler \in BOOLEAN, badFences, badDrains \in Few :
         /\ Server \notin badFences
         /\ Cardinality({x \in {"timer"} : noTimer} \cup {x \in {"sampler"} : badSampler})
              + Cardinality(badFences) + Cardinality(badDrains) <= MaxThrows
         /\ ShutdownCall(hasError, noTimer, badSampler, badFences, badDrains)
    /\ listener' = IF listener = "open" /\ Server \in fenced' THEN "closed" ELSE listener
    /\ UNCHANGED <<boot, req, held>>

ServerLivesOn ==
    /\ ServerCloseFails
    /\ \/ fenced' = fenced /\ UNCHANGED listener
       \/ Server \notin fenced' /\ listener' = IF listener = "closed" THEN "open" ELSE listener
    /\ UNCHANGED <<boot, req, held>>

(* The workers' turns, once started. *)
WorkerTurn ==
    /\ \/ boot = "serving" /\ Admit(Background)
       \/ Finish(Background)
    /\ UNCHANGED serviceOnly

Joining ==
    /\ \/ ShutdownAgain \/ Join \/ Deadline
       \/ \E o \in Owners : OwnerSettles(o)
    /\ UNCHANGED serviceOnly

(* The steps of a request that need nothing of its client: every wait among *)
(* them has a timeout.                                                      *)
Progress(r) ==
    \/ CheckReadiness(r) \/ ReadBody(r)
    \/ Verify(r) \/ Verified(r) \/ Prepare(r)
    \/ Settle(r) \/ Settled(r) \/ Activate(r) \/ Unwind(r)

RequestStep(r) ==
    \/ Connect(r) \/ Enter(r) \/ ServeFree(r) \/ Progress(r)
    \/ Reconcile(r) \/ Disconnect(r) \/ Leave(r)

ServiceNext ==
    \/ Startup
    \/ \E r \in Requests : RequestStep(r)
    \/ Stop \/ ServerLivesOn \/ WorkerTurn \/ Joining

ServiceSpec == ServiceInit /\ [][ServiceNext]_serviceVars

(* Timers fire: the deadline, and those that bound every wait of a request. *)
ServiceFairSpec ==
    /\ ServiceSpec
    /\ WF_serviceVars(Deadline /\ UNCHANGED serviceOnly)
    /\ \A r \in Requests : WF_serviceVars(Progress(r))

-----------------------------------------------------------------------------
(* Every step of the service is a step of the coordinator's owners or none: *)
(* no request, worker, facilitator call or listener begins under a fence.   *)
KeepsCoordinator == ShutdownSpec

(* Nothing touches SQLite once it is closed: no start and no request goes   *)
(* on, also none whose client has gone.                                     *)
StoreUnusedOnceClosed ==
    store = "closed" => boot \notin Initialising /\ \A r \in Requests : req[r].at \notin Owned

(* A gate counts the requests inside it, on every way out of them.          *)
GatesAreHonest ==
    \A g \in Gates : held[g] = Cardinality(Inside(g)) /\ held[g] <= Concurrency

(* What a request says of itself is true: 200 only for an active watch paid *)
(* for, purchase_completed only with 200, and once settlement was invoked   *)
(* no outcome that sounds as if nothing had been paid.                      *)
OutcomeIsTrue ==
    \A r \in Requests : req[r].at = "answered" =>
        /\ req[r].event = "purchase_completed" => req[r].status = 200
        /\ req[r].status = 200 /\ req[r].event # "none" => req[r].row = "active" /\ req[r].paid = "confirmed"
        /\ req[r].paid # "no" => req[r].event \in
             {"settlement_ambiguous", "activation_pending", "activation_rejected", "purchase_completed"}

(* Every purchase that was admitted is answered, shutdown or not.           *)
EveryPurchaseEnds ==
    \A r \in Requests : req[r].at \in Owned \ {"free"} ~> req[r].at \notin Owned

=============================================================================
