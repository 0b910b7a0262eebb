------------------------ MODULE ServiceLifetimeProofs ------------------------
(***************************************************************************)
(* For any number of requests, slots and throwing fences: the service with *)
(* its start, requests and facilitator calls implements the coordinator    *)
(* with its owners, so SQLite is not used once it is closed; the gates     *)
(* count who is inside; and what a request says of its purchase is true.   *)
(***************************************************************************)
EXTENDS ServiceLifetime, FiniteSetTheorems, TLAPS

-----------------------------------------------------------------------------
(***************************************************************************)
(* The coordinator, for any owners, however many fences and drains throw   *)
(* and whoever hangs: SQLite is closed only under a proof, and the result  *)
(* is given once.                                                          *)
(***************************************************************************)

(* While nothing is unproven every owner is fenced and every owner with     *)
(* work still holds the join; the store is closed by a drained join alone.  *)
JoinInv ==
    /\ ShutdownTypeOK
    /\ status # "running" /\ ~unproven => fenced = Owners /\ work \subseteq pending
    /\ status = "drained" => ~unproven /\ pending = {}
    /\ store = "closed" => status = "drained"
    /\ exitCode = 0 => status = "drained" /\ store = "closed"

(* The first call puts all fences up, or loses the proof.                   *)
LEMMA ShutdownEstablishes == ASSUME JoinInv, Shutdown PROVE JoinInv'
<1> USE ShutdownAssumption DEF ShutdownTypeOK, Completed
<1>1. PICK hasError \in BOOLEAN, noTimer \in BOOLEAN, badSampler \in BOOLEAN,
           badFences \in SUBSET (Owners \ {Server}), badDrains \in SUBSET Owners :
        ShutdownCall(hasError, noTimer, badSampler, badFences, badDrains)
  BY DEF Shutdown
<1> USE DEF ShutdownCall
<1>2. store' = "open" /\ work' = work /\ status = "running"
  BY <1>1 DEF Shutdown, JoinInv
<1>3. ShutdownTypeOK'
  BY <1>1, <1>2 DEF ProofLost, JoinInv
<1>4. ~unproven' => fenced' = Owners /\ work' \subseteq pending'
  <2> SUFFICES ASSUME ~unproven' PROVE fenced' = Owners /\ work' \subseteq pending'
    OBVIOUS
  <2>1. badFences = {} /\ badDrains = {}
    BY <1>1 DEF ProofLost
  <2> QED
    BY <1>1, <1>2, <2>1 DEF JoinInv
<1> QED
  BY <1>1, <1>2, <1>3, <1>4 DEF JoinInv

(* Every other step keeps the proof or gives it up.                         *)
LEMMA JoinInvStep == ASSUME JoinInv, [ShutdownNext]_shutdownVars PROVE JoinInv'
<1> USE ShutdownAssumption DEF ShutdownTypeOK, Completed, JoinInv
<1>1. ASSUME NEW o \in Owners, Admit(o) PROVE JoinInv'
  BY <1>1 DEF Admit
<1>2. ASSUME NEW o \in Owners, Finish(o) PROVE JoinInv'
  BY <1>2 DEF Finish
<1>3. ASSUME NEW o \in Owners, OwnerSettles(o) PROVE JoinInv'
  BY <1>3 DEF OwnerSettles
<1>4. CASE Shutdown
  BY <1>4, ShutdownEstablishes
<1>5. CASE ShutdownAgain
  BY <1>5 DEF ShutdownAgain
<1>6. CASE ServerCloseFails
  BY <1>6 DEF ServerCloseFails
<1>7. CASE Join
  <2>1. CASE unproven
    BY <1>7, <2>1 DEF Join
  <2>2. CASE ~unproven /\ store' = "closed" /\ failed' = failed
    <3>1. exitCode' \in {0, 1} /\ failed' \in BOOLEAN
      BY <1>7, <2>2 DEF Join
    <3> QED
      BY <1>7, <2>2, <3>1 DEF Join
  <2>3. CASE ~unproven /\ store' = "open" /\ failed' = TRUE
    <3>1. exitCode' = 1
      BY <1>7, <2>3 DEF Join
    <3>2. failed' \in BOOLEAN
      BY <2>3
    <3>3. ~unproven /\ store' = "open"
      BY <2>3
    <3> QED
      BY <1>7, <3>1, <3>2, <3>3 DEF Join
  <2> QED
    BY <1>7, <2>1, <2>2, <2>3 DEF Join
<1>8. CASE Deadline
  BY <1>8 DEF Deadline
<1>9. CASE UNCHANGED shutdownVars
  BY <1>9 DEF shutdownVars
<1> QED
  BY <1>1, <1>2, <1>3, <1>4, <1>5, <1>6, <1>7, <1>8, <1>9 DEF ShutdownNext

(* The join's invariant holds in every reachable state.                     *)
THEOREM JoinIsProven == ShutdownSpec => []JoinInv
<1>1. ShutdownInit => JoinInv
  <2> SUFFICES ASSUME ShutdownInit PROVE JoinInv
    OBVIOUS
  <2>1. unproven \in BOOLEAN /\ failed \in BOOLEAN
    BY Zenon DEF ShutdownInit
  <2>2. ShutdownTypeOK
    BY <2>1 DEF ShutdownInit, ShutdownTypeOK, Completed
  <2> QED
    BY <2>2 DEF ShutdownInit, JoinInv
<1>2. JoinInv /\ [ShutdownNext]_shutdownVars => JoinInv'
  BY JoinInvStep
<1> QED
  BY <1>1, <1>2, PTL DEF ShutdownSpec

(* The coordinator's state is well typed.                                   *)
THEOREM ShutdownTypes == ShutdownSpec => []ShutdownTypeOK
<1>1. JoinInv => ShutdownTypeOK
  BY DEF JoinInv
<1> QED
  BY <1>1, JoinIsProven, PTL

(* SQLite is closed only when no owner has, or can ever admit, work.        *)
THEOREM StoreAlwaysOutlivesWork == ShutdownSpec => []StoreOutlivesWork
<1>1. JoinInv => StoreOutlivesWork
  BY DEF JoinInv, StoreOutlivesWork
<1> QED
  BY <1>1, JoinIsProven, PTL

(* Exit code 0 says that everything drained and the store was closed.       *)
THEOREM CleanExitIsAlwaysTrue == ShutdownSpec => []CleanExitIsTrue
<1>1. JoinInv => CleanExitIsTrue
  BY DEF JoinInv, CleanExitIsTrue
<1> QED
  BY <1>1, JoinIsProven, PTL

(* Nothing that happens after the result changes it or closes the store.    *)
THEOREM ResultStaysFinal == ShutdownSpec => ResultIsFinal
<1>1. JoinInv /\ [ShutdownNext]_shutdownVars
        => [(status \in Completed) => status' = status /\ exitCode' = exitCode /\ store' = store]_shutdownVars
  <2> SUFFICES ASSUME JoinInv, ShutdownNext, status \in Completed
               PROVE  status' = status /\ exitCode' = exitCode /\ store' = store
    OBVIOUS
  <2> QED
    BY DEF ShutdownNext, Admit, Finish, OwnerSettles, Shutdown, ShutdownCall, ShutdownAgain,
           ServerCloseFails, Join, Deadline, Completed
<1> QED
  BY <1>1, JoinIsProven, PTL DEF ShutdownSpec, ResultIsFinal

(***************************************************************************)
(* The service.                                                            *)
(***************************************************************************)

-----------------------------------------------------------------------------
(* Types. *)
Stages == {"out", "connected", "answered"} \cup Owned

Boots == {"resources", "abandoned", "initialized", "failed", "bound", "serving"} \cup Initialising

Refusals ==
    {"admission_unavailable", "challenge_issued", "signed_request_rate_limited",
     "body_validation_rejected", "payment_header_rejected", "payment_protocol",
     "payment_protocol_rejected", "payment_verification_rejected",
     "payment_verification_unavailable", "idempotency_conflicted", "idempotency_replayed",
     "capacity_rejected", "internal_admission_failed", "purchase_failed_unknown"}

Sales == {"settlement_ambiguous", "activation_pending", "activation_rejected", "purchase_completed"}

Events == {"none", "signed_request_received", "durable_prepared", "settlement_confirmed",
           "activation_confirmed"} \cup Refusals \cup Sales

Errors == {400, 402, 409, 429, 500, 503}

RequestRecord ==
    [at : Stages, open : BOOLEAN, event : Events, status : {0, 200} \cup Errors,
     paid : {"no", "invoked", "confirmed"}, activated : BOOLEAN,
     row : {"none", "pending", "active", "rejected"}]

(* Nothing was prepared for the request and nothing paid. *)
Untouched(q) == q.paid = "no" /\ q.row = "none" /\ ~q.activated

(* What a record says at each of its stages. *)
Truthful(q) ==
    /\ q.at \in {"out", "connected", "free"} => Untouched(q) /\ q.event = "none" /\ q.status = 0
    /\ q.at \in {"readiness", "body", "verify", "verifying", "prepare"} =>
         Untouched(q) /\ q.event = "signed_request_received" /\ q.status = 0
    /\ q.at \in {"settle", "settling"} =>
         /\ q.paid = "invoked" /\ q.row \in {"pending", "active"} /\ ~q.activated
         /\ q.event = "durable_prepared" /\ q.status = 0
    /\ q.at = "activate" =>
         /\ q.paid = "confirmed" /\ q.row \in {"pending", "active"} /\ ~q.activated
         /\ q.event = "settlement_confirmed" /\ q.status = 0
    /\ q.at = "unwind" =>
         \/ Untouched(q) /\ q.status \in Errors /\ q.event \in Refusals
         \/ /\ q.paid = "invoked" /\ q.status = 402 /\ q.event = "settlement_ambiguous"
            /\ q.row \in {"pending", "active"} /\ ~q.activated
         \/ /\ q.paid = "confirmed" /\ q.status = 200
            /\ \/ q.event = "activation_pending" /\ ~q.activated
               \/ q.event = "activation_rejected" /\ ~q.activated /\ q.row = "rejected"
               \/ q.event = "activation_confirmed" /\ q.activated /\ q.row = "active"
    /\ q.at = "answered" =>
         /\ q.event = "purchase_completed" => q.status = 200
         /\ q.status = 200 /\ q.event # "none" => q.row = "active" /\ q.paid = "confirmed"
         /\ q.paid # "no" => q.event \in Sales

-----------------------------------------------------------------------------
(* Who holds what, owner by owner. *)
AppHolds(requests, stage) == stage \in Initialising \/ \E r \in Requests : requests[r].at \in Owned
FacHolds(requests, stage) == stage \in Asking \/ \E r \in Requests : requests[r].at \in Calling
SrvHolds(requests) == \E r \in Requests : requests[r].open

Tracked ==
    /\ work \subseteq Owners
    /\ Application \in work <=> AppHolds(req, boot)
    /\ Facilitator \in work <=> FacHolds(req, boot)
    /\ Server \in work <=> SrvHolds(req)

(* No fence before the stop, and no open listener under the server's. *)
Fences ==
    /\ status = "running" => fenced = {}
    /\ listener = "open" => Server \notin fenced

(* The stages of a request at which it holds a slot of a gate. *)
Within(g) == CASE g = "body" -> {"body"} [] g = "free" -> {"free"} [] g = "payment" -> BehindGate

Slots ==
    /\ held \in [Gates -> Nat]
    /\ \A g \in Gates : held[g] = Cardinality(Inside(g)) /\ held[g] <= Concurrency

ServiceInv ==
    /\ req \in [Requests -> RequestRecord]
    /\ boot \in Boots
    /\ \A r \in Requests : Truthful(req[r])
    /\ Tracked
    /\ Fences
    /\ Slots

-----------------------------------------------------------------------------
(* What a step of a request may do: to the owners ... *)
Keeps(r, record) ==
    LET before == req[r]
        app == record.at \in Owned
        fac == record.at \in Calling
        sameApp == before.at \in Owned <=> app
        sameFac == before.at \in Calling <=> fac
        sameSrv == before.open = record.open
    IN  \/ sameApp /\ sameFac /\ sameSrv
        \/ sameFac /\ sameSrv /\ (app => Application \notin fenced)
        \/ sameApp /\ sameSrv /\ (fac => Facilitator \notin fenced)
        \/ sameApp /\ sameFac /\ (record.open => Server \notin fenced)

(* ... and to the slots. *)
Counts(r, record) ==
    /\ held' \in [Gates -> Int]
    /\ \A g \in Gates :
        \/ held'[g] = held[g] /\ (req[r].at \in Within(g) <=> record.at \in Within(g))
        \/ /\ held'[g] = held[g] + 1 /\ held[g] < Concurrency
           /\ req[r].at \notin Within(g) /\ record.at \in Within(g)
        \/ /\ held'[g] = held[g] - 1
           /\ req[r].at \in Within(g) /\ record.at \notin Within(g)

Sound(r, record) ==
    /\ record \in RequestRecord
    /\ Move(r, record)
    /\ Truthful(record)
    /\ Keeps(r, record)
    /\ Counts(r, record)

-----------------------------------------------------------------------------
(* The owners' sets, spelled out member by member.                         *)
LEMMA OwningMembers ==
  ASSUME NEW requests, NEW stage, NEW rest,
         rest = Owning(requests, stage) \cup (work \cap {Background})
  PROVE  /\ rest \subseteq Owners
         /\ Application \in rest <=> AppHolds(requests, stage)
         /\ Facilitator \in rest <=> FacHolds(requests, stage)
         /\ Server \in rest <=> SrvHolds(requests)
         /\ Background \in rest <=> Background \in work
  BY ServiceAssumption DEF Owning, AppHolds, FacHolds, SrvHolds

(* A set of owners that changes at one owner is an owner's step.           *)
LEMMA OneOwnerMoves ==
  ASSUME UNCHANGED joinVars, work \subseteq Owners, work' \subseteq Owners,
         NEW o \in Owners,
         \A x \in Owners \ {o} : x \in work' <=> x \in work,
         o \in work' /\ o \notin work => o \notin fenced
  PROVE  [ShutdownNext]_shutdownVars
<1>1. CASE o \in work'
  <2>1. CASE o \in work
    <3>1. work' = work
      BY <1>1, <2>1
    <3> QED
      BY <3>1 DEF joinVars, shutdownVars
  <2>2. CASE o \notin work
    <3>1. work' = work \cup {o}
      BY <1>1
    <3>2. Admit(o)
      BY <1>1, <2>2, <3>1 DEF Admit, joinVars
    <3> QED
      BY <3>2 DEF ShutdownNext
  <2> QED
    BY <2>1, <2>2
<1>2. CASE o \notin work'
  <2>1. CASE o \in work
    <3>1. work' = work \ {o}
      BY <1>2
    <3>2. Finish(o)
      BY <2>1, <3>1 DEF Finish, joinVars
    <3> QED
      BY <3>2 DEF ShutdownNext
  <2>2. CASE o \notin work
    <3>1. work' = work
      BY <1>2, <2>2
    <3> QED
      BY <3>1 DEF joinVars, shutdownVars
  <2> QED
    BY <2>1, <2>2
<1> QED
  BY <1>1, <1>2

(* What the others hold does not change with one record.                   *)
LEMMA HoldsOfOthers ==
  ASSUME req \in [Requests -> RequestRecord], NEW r \in Requests, NEW record \in RequestRecord,
         NEW after, after = [req EXCEPT ![r] = record], NEW stage
  PROVE  /\ (req[r].at \in Owned <=> record.at \in Owned) => (AppHolds(after, stage) <=> AppHolds(req, stage))
         /\ (req[r].at \in Calling <=> record.at \in Calling) => (FacHolds(after, stage) <=> FacHolds(req, stage))
         /\ (req[r].open <=> record.open) => (SrvHolds(after) <=> SrvHolds(req))
         /\ AppHolds(after, stage) /\ ~AppHolds(req, stage) => record.at \in Owned
         /\ FacHolds(after, stage) /\ ~FacHolds(req, stage) => record.at \in Calling
         /\ SrvHolds(after) /\ ~SrvHolds(req) => record.open
<1>1. after[r] = record /\ \A s \in Requests \ {r} : after[s] = req[s]
  OBVIOUS
<1> HIDE DEF Owned, Calling, Initialising, Asking
<1> QED
  BY <1>1 DEF AppHolds, FacHolds, SrvHolds

(* A sound step of a request is a step of the coordinator's owners.        *)
LEMMA SoundRefines ==
  ASSUME ServiceInv, NEW r \in Requests, NEW record, Sound(r, record)
  PROVE  [ShutdownNext]_shutdownVars /\ Tracked'
<1> USE DEF Move
<1>1. record \in RequestRecord /\ UNCHANGED <<joinVars, boot>> /\ Keeps(r, record)
  BY DEF Sound
<1>2. req' = [req EXCEPT ![r] = record]
  BY DEF Sound
<1>3. /\ work' \subseteq Owners
      /\ Application \in work' <=> AppHolds(req', boot)
      /\ Facilitator \in work' <=> FacHolds(req', boot)
      /\ Server \in work' <=> SrvHolds(req')
      /\ Background \in work' <=> Background \in work
  <2>1. work' = Owning(req', boot) \cup (work \cap {Background})
    BY DEF Sound
  <2> QED
    BY <2>1, OwningMembers
<1>4. Tracked'
  BY <1>1, <1>3 DEF Tracked
<1>5. /\ (req[r].at \in Owned <=> record.at \in Owned) => (Application \in work' <=> Application \in work)
      /\ (req[r].at \in Calling <=> record.at \in Calling) => (Facilitator \in work' <=> Facilitator \in work)
      /\ (req[r].open <=> record.open) => (Server \in work' <=> Server \in work)
      /\ Application \in work' /\ Application \notin work => record.at \in Owned
      /\ Facilitator \in work' /\ Facilitator \notin work => record.at \in Calling
      /\ Server \in work' /\ Server \notin work => record.open
  <2>1. req \in [Requests -> RequestRecord] /\ Tracked
    BY DEF ServiceInv
  <2> QED
    BY <1>1, <1>2, <1>3, <2>1, HoldsOfOthers DEF Tracked
<1>6. \E o \in Owners :
        /\ \A x \in Owners \ {o} : x \in work' <=> x \in work
        /\ o \in work' /\ o \notin work => o \notin fenced
  <2>1. /\ (req[r].at \in Owned) \in BOOLEAN /\ (record.at \in Owned) \in BOOLEAN
        /\ req[r].open \in BOOLEAN /\ record.open \in BOOLEAN
    BY <1>1 DEF ServiceInv, RequestRecord
  <2> QED
    BY <1>1, <1>3, <1>5, <2>1, ServiceAssumption DEF Keeps
<1>7. work \subseteq Owners
  BY DEF ServiceInv, Tracked
<1> QED
  BY <1>1, <1>3, <1>4, <1>6, <1>7, OneOwnerMoves

(* Inside(g), after one record has changed.                                *)
LEMMA InsideMoves ==
  ASSUME req \in [Requests -> RequestRecord], NEW r \in Requests, NEW record \in RequestRecord,
         req' = [req EXCEPT ![r] = record], NEW g \in Gates
  PROVE  Inside(g)' = IF record.at \in Within(g) THEN Inside(g) \cup {r} ELSE Inside(g) \ {r}
<1>1. req'[r] = record /\ \A s \in Requests \ {r} : req'[s] = req[s]
  OBVIOUS
<1>2. Inside(g) = {s \in Requests : req[s].at \in Within(g)}
  BY DEF Inside, Within
<1>3. Inside(g)' = {s \in Requests : req'[s].at \in Within(g)}
  BY DEF Inside, Within
<1> HIDE DEF Within
<1> QED
  BY <1>1, <1>2, <1>3

(* A sound step keeps the slots counted.                                   *)
LEMMA SoundCounts ==
  ASSUME ServiceInv, NEW r \in Requests, NEW record, Sound(r, record)
  PROVE  Slots'
<1>1. record \in RequestRecord /\ req' = [req EXCEPT ![r] = record] /\ Counts(r, record)
  BY DEF Sound, Move
<1>2. req \in [Requests -> RequestRecord] /\ Slots
  BY DEF ServiceInv
<1>3. Concurrency \in Nat
  BY ServiceAssumption
<1>4. ASSUME NEW g \in Gates
      PROVE  held'[g] \in Nat /\ held'[g] = Cardinality(Inside(g)') /\ held'[g] <= Concurrency
  <2>1. IsFiniteSet(Inside(g)) /\ Inside(g) \subseteq Requests
    BY ServiceAssumption, FS_Subset DEF Inside
  <2>2. Cardinality(Inside(g)) \in Nat
    BY <2>1, FS_CardinalityType
  <2>3. r \in Inside(g) <=> req[r].at \in Within(g)
    BY DEF Inside, Within
  <2>4. Inside(g)' = IF record.at \in Within(g) THEN Inside(g) \cup {r} ELSE Inside(g) \ {r}
    BY <1>1, <1>2, InsideMoves
  <2>5. held[g] \in Nat /\ held[g] = Cardinality(Inside(g)) /\ held[g] <= Concurrency
    BY <1>2 DEF Slots
  <2>6. CASE held'[g] = held[g] /\ (req[r].at \in Within(g) <=> record.at \in Within(g))
    <3>1. Inside(g)' = Inside(g)
      BY <2>3, <2>4, <2>6
    <3> QED
      BY <2>5, <2>6, <3>1
  <2>7. CASE /\ held'[g] = held[g] + 1 /\ held[g] < Concurrency
             /\ req[r].at \notin Within(g) /\ record.at \in Within(g)
    <3>1. Inside(g)' = Inside(g) \cup {r} /\ r \notin Inside(g)
      BY <2>3, <2>4, <2>7
    <3>2. Cardinality(Inside(g) \cup {r}) = Cardinality(Inside(g)) + 1
      BY <2>1, <3>1, FS_AddElement
    <3> QED
      BY <1>3, <2>5, <2>7, <3>1, <3>2
  <2>8. CASE /\ held'[g] = held[g] - 1
             /\ req[r].at \in Within(g) /\ record.at \notin Within(g)
    <3>1. Inside(g)' = Inside(g) \ {r} /\ r \in Inside(g)
      BY <2>3, <2>4, <2>8
    <3>2. Cardinality(Inside(g) \ {r}) = Cardinality(Inside(g)) - 1
      BY <2>1, <3>1, FS_RemoveElement
    <3>3. Cardinality(Inside(g) \ {r}) \in Nat
      BY <2>1, FS_Subset, FS_CardinalityType
    <3> QED
      BY <1>3, <2>5, <2>8, <3>1, <3>2, <3>3
  <2> QED
    BY <1>1, <2>6, <2>7, <2>8 DEF Counts
<1>5. held' \in [Gates -> Nat]
  BY <1>1, <1>4 DEF Counts
<1> QED
  BY <1>4, <1>5 DEF Slots

(* A sound step keeps the invariant.                                       *)
LEMMA SoundKeepsInv ==
  ASSUME ServiceInv, NEW r \in Requests, NEW record, Sound(r, record)
  PROVE  ServiceInv' /\ [ShutdownNext]_shutdownVars
<1>1. record \in RequestRecord /\ req' = [req EXCEPT ![r] = record] /\ Truthful(record)
      /\ UNCHANGED <<joinVars, boot, listener>>
  BY DEF Sound, Move
<1>2. req' \in [Requests -> RequestRecord]
  BY <1>1 DEF ServiceInv
<1>3. \A s \in Requests : Truthful(req'[s])
  <2>1. \A s \in Requests : Truthful(req[s])
    BY DEF ServiceInv
  <2>2. req'[r] = record /\ \A s \in Requests \ {r} : req'[s] = req[s]
    BY <1>1 DEF ServiceInv
  <2> HIDE DEF Truthful
  <2> QED
    BY <1>1, <2>1, <2>2
<1>4. Fences' /\ boot' \in Boots
  BY <1>1 DEF Fences, joinVars, ServiceInv
<1> QED
  BY <1>2, <1>3, <1>4, SoundRefines, SoundCounts DEF ServiceInv

-----------------------------------------------------------------------------
(* Records that differ in their place, event and status.                   *)
Placed(q, at, code) == [q EXCEPT !.at = at, !.status = code]

(* A record in another place, with another status.                          *)
LEMMA RecordAt ==
  ASSUME NEW q \in RequestRecord, NEW at \in Stages, NEW code \in {0, 200} \cup Errors
  PROVE  LET record == Placed(q, at, code)
         IN  /\ record \in RequestRecord /\ record.at = at /\ record.status = code
             /\ record.open = q.open /\ record.event = q.event /\ record.paid = q.paid
             /\ record.row = q.row /\ record.activated = q.activated
  BY DEF RequestRecord, Placed

(* ... and with another event.                                              *)
LEMMA RecordObserved ==
  ASSUME NEW q \in RequestRecord, NEW at \in Stages, NEW event \in Events,
         NEW code \in {0, 200} \cup Errors
  PROVE  LET record == [Observed(q, at, event) EXCEPT !.status = code]
         IN  /\ record \in RequestRecord /\ record.at = at /\ record.status = code
             /\ record.open = q.open /\ record.event = event /\ record.paid = q.paid
             /\ record.row = q.row /\ record.activated = q.activated
  BY DEF RequestRecord, Observed

(* The record of a response is one of an answered request.                 *)
LEMMA AnswerOf ==
  ASSUME NEW q \in RequestRecord, NEW code \in {200} \cup Errors, NEW event \in Events
  PROVE  LET answer == Responded(q, code, event)
         IN  /\ answer \in RequestRecord
             /\ answer.at = "answered" /\ answer.open = q.open /\ answer.status = code
             /\ answer.event = Outcome([q EXCEPT !.event = event, !.status = code])
             /\ answer.paid = q.paid /\ answer.row = q.row
<1> DEFINE final == [q EXCEPT !.event = event, !.status = code]
<1>1. final \in RequestRecord
  BY DEF RequestRecord
<1>2. Outcome(final) \in Events
  BY <1>1 DEF Outcome, RequestRecord, Events, Refusals, Sales
<1> QED
  BY <1>1, <1>2 DEF RequestRecord, Responded, Stages

(* A refusal before anything was paid says no more than that.              *)
LEMMA RefusalAnswered ==
  ASSUME NEW q \in RequestRecord, Untouched(q), NEW code \in {200} \cup Errors,
         NEW event \in Refusals \cup {"none"}, code = 200 => event = "none"
  PROVE  /\ Responded(q, code, event) \in RequestRecord
         /\ Responded(q, code, event).at = "answered"
         /\ Responded(q, code, event).open = q.open
         /\ Truthful(Responded(q, code, event))
<1> DEFINE final == [q EXCEPT !.event = event, !.status = code]
           answer == Responded(q, code, event)
<1>1. event \in Events
  BY DEF Events
<1>2. /\ answer \in RequestRecord
      /\ answer.at = "answered" /\ answer.open = q.open /\ answer.status = code
      /\ answer.event = Outcome(final) /\ answer.paid = q.paid
  BY <1>1, AnswerOf
<1> HIDE DEF answer
<1>3. final.event = event /\ final.status = code /\ final.paid = "no" /\ final.activated = FALSE
  BY DEF RequestRecord, Untouched
<1>4. Outcome(final) \in Refusals \cup {"none"} /\ (event = "none" => Outcome(final) = "none")
  BY <1>3 DEF Outcome, Refusals
<1>5. Truthful(answer)
  BY <1>2, <1>4 DEF Truthful, Untouched, Refusals, Sales, Errors
<1> QED
  BY <1>2, <1>5 DEF answer

(* ... and the response behind the payment gate tells what was paid.       *)
LEMMA UnwindAnswered ==
  ASSUME NEW q \in RequestRecord, Truthful(q), q.at = "unwind", NEW code, NEW event,
         \/ q.status \in Errors /\ code = q.status /\ event = q.event
         \/ q.status < 400 /\ q.row = "active" /\ code = 200 /\ event = "purchase_completed"
         \/ q.status < 400 /\ q.row # "active" /\ code = 500 /\ event = q.event
  PROVE  /\ Responded(q, code, event) \in RequestRecord
         /\ Responded(q, code, event).at = "answered"
         /\ Responded(q, code, event).open = q.open
         /\ Truthful(Responded(q, code, event))
<1> DEFINE final == [q EXCEPT !.event = event, !.status = code]
           answer == Responded(q, code, event)
<1>1. code \in {200} \cup Errors /\ event \in Events
  BY DEF RequestRecord, Events, Sales, Errors
<1>2. /\ answer \in RequestRecord
      /\ answer.at = "answered" /\ answer.open = q.open /\ answer.status = code
      /\ answer.event = Outcome(final) /\ answer.paid = q.paid /\ answer.row = q.row
  BY ONLY <1>1, q \in RequestRecord, AnswerOf
<1> HIDE DEF answer
<1>3. final.event = event /\ final.status = code /\ final.paid = q.paid /\ final.activated = q.activated
  BY DEF RequestRecord
<1>4. ASSUME Untouched(q), q.status \in Errors, q.event \in Refusals PROVE Truthful(answer)
  <2>1. code = q.status /\ event = q.event /\ code # 200
    BY <1>4 DEF Errors
  <2>2. Outcome(final) \in Refusals
    BY <1>3, <1>4, <2>1 DEF Outcome, Refusals, Untouched
  <2> QED
    BY <1>2, <1>4, <2>1, <2>2 DEF Truthful, Untouched, Refusals
<1>5. ASSUME q.paid = "invoked", q.status = 402, q.event = "settlement_ambiguous" PROVE Truthful(answer)
  <2>1. code = 402
    BY <1>5
  <2>2. Outcome(final) = "settlement_ambiguous"
    BY <1>3, <1>5 DEF Outcome
  <2> QED
    BY <1>2, <1>5, <2>1, <2>2 DEF Truthful, Sales
<1>6. ASSUME q.paid = "confirmed", q.status = 200,
             \/ q.event = "activation_pending" /\ ~q.activated
             \/ q.event = "activation_rejected" /\ ~q.activated /\ q.row = "rejected"
             \/ q.event = "activation_confirmed" /\ q.activated /\ q.row = "active"
      PROVE  Truthful(answer)
  <2>1. CASE q.row = "active"
    <3>1. code = 200 /\ event = "purchase_completed"
      BY <1>6, <2>1 DEF Errors
    <3>2. Outcome(final) \in {"activation_pending", "purchase_completed"}
      BY <1>3, <1>6, <3>1 DEF Outcome
    <3> QED
      BY <1>2, <1>6, <2>1, <3>1, <3>2 DEF Truthful, Sales
  <2>2. CASE q.row # "active"
    <3>1. code = 500 /\ event = q.event /\ event \in {"activation_pending", "activation_rejected"}
      BY <1>6, <2>2 DEF Errors
    <3>2. Outcome(final) = event
      BY <1>3, <1>6, <3>1 DEF Outcome
    <3> QED
      BY <1>2, <1>6, <3>1, <3>2 DEF Truthful, Sales
  <2> QED
    BY <2>1, <2>2
<1> QED
  <2>1. Truthful(answer)
    BY <1>4, <1>5, <1>6 DEF Truthful
  <2> QED
    BY <1>2, <2>1 DEF answer

-----------------------------------------------------------------------------
(* Three shapes of a sound step.  One that stays within its gates ...      *)
LEMMA SoundStay ==
  ASSUME ServiceInv, NEW r \in Requests, NEW record \in RequestRecord,
         Move(r, record), Truthful(record), Keeps(r, record), UNCHANGED held,
         \A g \in Gates : req[r].at \in Within(g) <=> record.at \in Within(g)
  PROVE  Sound(r, record)
<1>1. held \in [Gates -> Nat]
  BY DEF ServiceInv, Slots
<1>2. Counts(r, record)
  BY <1>1 DEF Counts
<1> QED
  BY <1>2 DEF Sound

(* ... one that enters a gate, leaves one, or goes from one to the next.   *)
LEMMA SoundPass ==
  ASSUME ServiceInv, NEW r \in Requests, NEW record \in RequestRecord,
         Move(r, record), Truthful(record), Keeps(r, record),
         NEW into \in SUBSET Gates, NEW from \in SUBSET Gates, into \cap from = {},
         \A g \in into : held[g] < Concurrency /\ req[r].at \notin Within(g) /\ record.at \in Within(g),
         \A g \in from : req[r].at \in Within(g) /\ record.at \notin Within(g),
         \A g \in Gates \ (into \cup from) : req[r].at \in Within(g) <=> record.at \in Within(g),
         held' = [g \in Gates |-> IF g \in into THEN held[g] + 1
                                  ELSE IF g \in from THEN held[g] - 1 ELSE held[g]]
  PROVE  Sound(r, record)
<1>1. held \in [Gates -> Nat]
  BY DEF ServiceInv, Slots
<1>2. held' \in [Gates -> Int]
  BY <1>1
<1>3. ASSUME NEW g \in Gates
      PROVE  \/ held'[g] = held[g] /\ (req[r].at \in Within(g) <=> record.at \in Within(g))
             \/ /\ held'[g] = held[g] + 1 /\ held[g] < Concurrency
                /\ req[r].at \notin Within(g) /\ record.at \in Within(g)
             \/ /\ held'[g] = held[g] - 1
                /\ req[r].at \in Within(g) /\ record.at \notin Within(g)
  BY <1>1
<1>4. Counts(r, record)
  BY <1>2, <1>3 DEF Counts
<1> QED
  BY <1>4 DEF Sound

(* The gates a stage is within. *)
LEMMA GatesOf ==
  /\ \A g \in Gates : g \in {"body", "payment", "free"}
  /\ \A at : at \in Within("body") <=> at = "body"
  /\ \A at : at \in Within("free") <=> at = "free"
  /\ \A at : at \in Within("payment") <=> at \in BehindGate
  BY DEF Gates, Within

(* A request that is answered gives back the slot it has.                  *)
LEMMA AnswerSound ==
  ASSUME ServiceInv, NEW r \in Requests, NEW record \in RequestRecord,
         req[r].at \in {"connected", "readiness", "free", "body", "unwind"},
         record.at = "answered", record.open = req[r].open,
         Truthful(record), Move(r, record),
         held' = [g \in Gates |-> IF req[r].at \in Within(g) THEN held[g] - 1 ELSE held[g]]
  PROVE  Sound(r, record)
<1>1. Keeps(r, record)
  BY DEF Keeps, Owned, Calling, BehindGate
<1> DEFINE from == {g \in Gates : req[r].at \in Within(g)}
<1>2. \A g \in Gates : record.at \notin Within(g)
  BY GatesOf DEF BehindGate, Calling
<1>3. held' = [g \in Gates |-> IF g \in {} THEN held[g] + 1
                               ELSE IF g \in from THEN held[g] - 1 ELSE held[g]]
  OBVIOUS
<1>4. /\ {} \in SUBSET Gates /\ from \in SUBSET Gates /\ {} \cap from = {}
      /\ \A g \in from : req[r].at \in Within(g) /\ record.at \notin Within(g)
      /\ \A g \in Gates \ ({} \cup from) : req[r].at \in Within(g) <=> record.at \in Within(g)
  BY <1>2
<1> HIDE DEF from
<1> QED
  BY <1>1, <1>3, <1>4, SoundPass

(* A step behind the payment gate keeps its slot.                          *)
LEMMA BehindSound ==
  ASSUME ServiceInv, NEW r \in Requests, NEW record \in RequestRecord,
         req[r].at \in BehindGate, record.at \in BehindGate, record.open = req[r].open,
         record.at \in Calling /\ req[r].at \notin Calling => Facilitator \notin fenced,
         Truthful(record), Move(r, record), UNCHANGED held
  PROVE  Sound(r, record)
<1>1. req[r].at \in Owned /\ record.at \in Owned
  BY DEF Owned
<1>2. Keeps(r, record)
  BY <1>1 DEF Keeps
<1>3. \A g \in Gates : req[r].at \in Within(g) <=> record.at \in Within(g)
  BY GatesOf DEF BehindGate, Calling
<1> QED
  BY <1>2, <1>3, SoundStay

-----------------------------------------------------------------------------
(* The actions of a request, one by one: a connection opens ...            *)
LEMMA ConnectSound ==
  ASSUME ServiceInv, NEW r \in Requests, Connect(r) PROVE \E record : Sound(r, record)
<1> DEFINE record == [Absent EXCEPT !.at = "connected", !.open = TRUE]
<1>1. req[r].at = "out" /\ req[r] \in RequestRecord
  BY DEF ServiceInv, Connect
<1>2. record \in RequestRecord /\ record.at = "connected" /\ Truthful(record)
  BY DEF Absent, RequestRecord, Stages, Events, Truthful, Untouched
<1>3. Server \notin fenced
  BY DEF Connect, ServiceInv, Fences
<1>4. Move(r, record) /\ UNCHANGED held
  BY DEF Connect
<1> HIDE DEF record
<1>5. Keeps(r, record)
  BY <1>1, <1>2, <1>3 DEF Keeps, Owned, Calling, BehindGate
<1>6. \A g \in Gates : req[r].at \in Within(g) <=> record.at \in Within(g)
  BY <1>1, <1>2, GatesOf DEF BehindGate, Calling
<1> QED
  BY <1>2, <1>4, <1>5, <1>6, SoundStay

(* ownApplicationFetch: refused, or owned until it is answered.             *)
LEMMA EnterSound ==
  ASSUME ServiceInv, NEW r \in Requests, Enter(r) PROVE \E record : Sound(r, record)
<1>1. req[r] \in RequestRecord /\ req[r].at = "connected" /\ Truthful(req[r])
  BY DEF ServiceInv, Enter
<1>2. Untouched(req[r]) /\ req[r].event = "none" /\ req[r].status = 0
  BY <1>1 DEF Truthful
<1>3. held \in [Gates -> Nat]
  BY DEF ServiceInv, Slots
<1>4. CASE Move(r, [req[r] EXCEPT !.at = "answered", !.status = 503]) /\ UNCHANGED held
  <2>0. PICK code \in {0, 200} \cup Errors : code = 503
    BY DEF Errors
  <2> DEFINE record == Placed(req[r], "answered", code)
  <2>1. /\ record \in RequestRecord /\ record.at = "answered" /\ record.open = req[r].open
        /\ record.status = 503 /\ record.event = "none" /\ record.paid = "no"
    <3>1. "answered" \in Stages
      BY DEF Stages
    <3> QED
      BY <1>1, <1>2, <2>0, <3>1, RecordAt DEF Untouched
  <2> HIDE DEF record
  <2>2. Truthful(record)
    BY <2>1 DEF Truthful
  <2>3. held' = [g \in Gates |-> IF req[r].at \in Within(g) THEN held[g] - 1 ELSE held[g]]
    <3>1. \A g \in Gates : req[r].at \notin Within(g)
      BY <1>1, GatesOf DEF BehindGate, Calling
    <3> QED
      BY <1>3, <1>4, <3>1
  <2>4. Move(r, record)
    BY <1>4, <2>0 DEF record, Placed
  <2> QED
    BY <1>1, <2>1, <2>2, <2>3, <2>4, AnswerSound
<1>5. CASE /\ Application \notin fenced /\ UNCHANGED held
           /\ Move(r, Observed(req[r], "readiness", "signed_request_received"))
  <2> DEFINE record == Observed(req[r], "readiness", "signed_request_received")
  <2>1. /\ record \in RequestRecord /\ record.at = "readiness" /\ record.open = req[r].open
        /\ record.status = 0 /\ record.event = "signed_request_received" /\ Untouched(record)
    BY <1>1, <1>2 DEF Observed, RequestRecord, Stages, Owned, Events, Untouched
  <2>2. Move(r, record)
    BY <1>5
  <2> HIDE DEF record
  <2>3. Truthful(record)
    BY <2>1 DEF Truthful
  <2>4. Keeps(r, record)
    BY <1>1, <1>5, <2>1 DEF Keeps, Owned, Calling, BehindGate
  <2>5. \A g \in Gates : req[r].at \in Within(g) <=> record.at \in Within(g)
    BY <1>1, <2>1, GatesOf DEF BehindGate, Calling
  <2> QED
    BY <1>5, <2>1, <2>2, <2>3, <2>4, <2>5, SoundStay
<1>6. CASE /\ Application \notin fenced /\ held["free"] < Concurrency
           /\ held' = [held EXCEPT !["free"] = @ + 1]
           /\ Move(r, [req[r] EXCEPT !.at = "free"])
  <2> DEFINE record == [req[r] EXCEPT !.at = "free"]
  <2>1. /\ record \in RequestRecord /\ record.at = "free" /\ record.open = req[r].open
        /\ record.status = 0 /\ record.event = "none" /\ Untouched(record)
    BY <1>1, <1>2 DEF RequestRecord, Stages, Owned, Untouched
  <2>2. Move(r, record)
    BY <1>6
  <2> HIDE DEF record
  <2>3. Truthful(record)
    BY <2>1 DEF Truthful
  <2>4. Keeps(r, record)
    BY <1>1, <1>6, <2>1 DEF Keeps, Owned, Calling, BehindGate
  <2> DEFINE into == {"free"}
             from == {}
  <2>5. /\ into \in SUBSET Gates /\ from \in SUBSET Gates /\ into \cap from = {}
        /\ \A g \in into : held[g] < Concurrency /\ req[r].at \notin Within(g) /\ record.at \in Within(g)
        /\ \A g \in from : req[r].at \in Within(g) /\ record.at \notin Within(g)
        /\ \A g \in Gates \ (into \cup from) : req[r].at \in Within(g) <=> record.at \in Within(g)
    BY <1>1, <1>6, <2>1, GatesOf DEF Gates, BehindGate, Calling
  <2>6. held' = [g \in Gates |-> IF g \in into THEN held[g] + 1
                                 ELSE IF g \in from THEN held[g] - 1 ELSE held[g]]
    BY <1>3, <1>6
  <2> HIDE DEF into, from
  <2> QED
    BY <2>1, <2>2, <2>3, <2>4, <2>5, <2>6, SoundPass
<1> QED
  BY <1>4, <1>5, <1>6 DEF Enter

(* An MCP or recovery call gives its slot back.                             *)
LEMMA ServeFreeSound ==
  ASSUME ServiceInv, NEW r \in Requests, ServeFree(r) PROVE \E record : Sound(r, record)
<1>1. req[r] \in RequestRecord /\ req[r].at = "free" /\ Truthful(req[r])
  BY DEF ServiceInv, ServeFree
<1>2. Untouched(req[r])
  BY <1>1 DEF Truthful
<1>3. PICK code \in {200, 400, 500} : Move(r, Responded(req[r], code, "none"))
  BY DEF ServeFree
<1> DEFINE record == Responded(req[r], code, "none")
<1>4. /\ record \in RequestRecord /\ record.at = "answered" /\ record.open = req[r].open
      /\ Truthful(record)
  <2>1. code \in {200} \cup Errors
    BY DEF Errors
  <2> QED
    BY <1>1, <1>2, <2>1, RefusalAnswered
<1>5. held' = [g \in Gates |-> IF req[r].at \in Within(g) THEN held[g] - 1 ELSE held[g]]
  <2>1. \A g \in Gates : req[r].at \in Within(g) <=> g = "free"
    BY <1>1, GatesOf DEF BehindGate, Calling
  <2>2. held \in [Gates -> Nat] /\ held' = [held EXCEPT !["free"] = @ - 1]
    BY DEF ServiceInv, Slots, ServeFree
  <2>3. held' = [g \in Gates |-> IF g = "free" THEN held[g] - 1 ELSE held[g]]
    BY <2>2
  <2> QED
    BY <2>1, <2>3
<1> HIDE DEF record
<1>6. Move(r, record)
  BY <1>3 DEF record
<1> QED
  BY <1>1, <1>4, <1>5, <1>6, AnswerSound

(* The challenge before a payment, up to the gate of the body.              *)
LEMMA CheckReadinessSound ==
  ASSUME ServiceInv, NEW r \in Requests, CheckReadiness(r) PROVE \E record : Sound(r, record)
<1>1. req[r] \in RequestRecord /\ req[r].at = "readiness" /\ Truthful(req[r])
  BY DEF ServiceInv, CheckReadiness
<1>2. Untouched(req[r]) /\ req[r].event = "signed_request_received" /\ req[r].status = 0
  BY <1>1 DEF Truthful
<1>3. held \in [Gates -> Nat]
  BY DEF ServiceInv, Slots
<1>4. ASSUME NEW code \in Errors, NEW event \in Refusals,
             Move(r, Responded(req[r], code, event)), UNCHANGED held
      PROVE  \E record : Sound(r, record)
  <2> DEFINE record == Responded(req[r], code, event)
  <2>1. /\ record \in RequestRecord /\ record.at = "answered" /\ record.open = req[r].open
        /\ Truthful(record)
    <3>1. code \in {200} \cup Errors /\ code # 200
      BY DEF Errors
    <3> QED
      BY <1>1, <1>2, <3>1, RefusalAnswered
  <2>2. held' = [g \in Gates |-> IF req[r].at \in Within(g) THEN held[g] - 1 ELSE held[g]]
    <3>1. \A g \in Gates : req[r].at \notin Within(g)
      BY <1>1, GatesOf DEF BehindGate, Calling
    <3> QED
      BY <1>3, <1>4, <3>1
  <2> HIDE DEF record
  <2>3. Move(r, record)
    BY <1>4 DEF record
  <2> QED
    BY <1>1, <2>1, <2>2, <2>3, AnswerSound
<1>5. CASE /\ held["body"] < Concurrency /\ held' = [held EXCEPT !["body"] = @ + 1]
           /\ Move(r, [req[r] EXCEPT !.at = "body"])
  <2> DEFINE record == [req[r] EXCEPT !.at = "body"]
             into == {"body"}
             from == {}
  <2>1. /\ record \in RequestRecord /\ record.at = "body" /\ record.open = req[r].open
        /\ record.status = 0 /\ record.event = "signed_request_received" /\ Untouched(record)
    BY <1>1, <1>2 DEF RequestRecord, Stages, Owned, Untouched
  <2>2. Move(r, record)
    BY <1>5
  <2> HIDE DEF record
  <2>3. Truthful(record)
    BY <2>1 DEF Truthful
  <2>4. Keeps(r, record)
    BY <1>1, <2>1 DEF Keeps, Owned, Calling, BehindGate
  <2>5. /\ into \in SUBSET Gates /\ from \in SUBSET Gates /\ into \cap from = {}
        /\ \A g \in into : held[g] < Concurrency /\ req[r].at \notin Within(g) /\ record.at \in Within(g)
        /\ \A g \in from : req[r].at \in Within(g) /\ record.at \notin Within(g)
        /\ \A g \in Gates \ (into \cup from) : req[r].at \in Within(g) <=> record.at \in Within(g)
    BY <1>1, <1>5, <2>1, GatesOf DEF Gates, BehindGate, Calling
  <2>6. held' = [g \in Gates |-> IF g \in into THEN held[g] + 1
                                 ELSE IF g \in from THEN held[g] - 1 ELSE held[g]]
    BY <1>3, <1>5
  <2> HIDE DEF into, from
  <2> QED
    BY <2>1, <2>2, <2>3, <2>4, <2>5, <2>6, SoundPass
<1>6. /\ {503, 402, 429} \subseteq Errors
      /\ {"admission_unavailable", "challenge_issued", "signed_request_rate_limited"} \subseteq Refusals
  BY DEF Errors, Refusals
<1> QED
  BY <1>4, <1>5, <1>6 DEF CheckReadiness

(* A step of Behind, from its arguments. *)
LEMMA BehindStep ==
  ASSUME ServiceInv, NEW r \in Requests, req[r].at \in BehindGate,
         NEW at \in BehindGate, NEW code \in {0, 200} \cup Errors, NEW event \in Events,
         Behind(r, at, code, event),
         at \in Calling /\ req[r].at \notin Calling => Facilitator \notin fenced,
         \A q : /\ q.at = at /\ q.status = code /\ q.event = event
                /\ q.paid = req[r].paid /\ q.row = req[r].row /\ q.activated = req[r].activated
                => Truthful(q)
  PROVE  \E record : Sound(r, record)
<1> DEFINE record == [Observed(req[r], at, event) EXCEPT !.status = code]
<1>1. req[r] \in RequestRecord /\ at \in Stages
  BY DEF ServiceInv, Stages, Owned
<1>2. /\ record \in RequestRecord /\ record.at = at /\ record.status = code
      /\ record.open = req[r].open /\ record.event = event /\ record.paid = req[r].paid
      /\ record.row = req[r].row /\ record.activated = req[r].activated
  BY <1>1, RecordObserved
<1>3. Move(r, record) /\ UNCHANGED held
  BY DEF Behind
<1> HIDE DEF record
<1>4. Truthful(record)
  BY <1>2
<1> QED
  BY <1>2, <1>3, <1>4, BehindSound

(* verify is sent, or refused by a client that has stopped.                 *)
LEMMA VerifySound ==
  ASSUME ServiceInv, NEW r \in Requests, Verify(r) PROVE \E record : Sound(r, record)
<1>1. req[r] \in RequestRecord /\ req[r].at = "verify" /\ Truthful(req[r])
  BY DEF ServiceInv, Verify
<1>2. Untouched(req[r]) /\ req[r].event = "signed_request_received"
  BY <1>1 DEF Truthful
<1>3. PICK at \in BehindGate, code \in {0, 200} \cup Errors, event \in Events :
        /\ Behind(r, at, code, event)
        /\ \/ at = "unwind" /\ code = 402 /\ event = "payment_verification_unavailable"
           \/ at = "verifying" /\ code = 0 /\ event = req[r].event
  <2>1. /\ {"unwind", "verifying"} \subseteq BehindGate /\ {0, 402} \subseteq {0, 200} \cup Errors
        /\ {"payment_verification_unavailable", req[r].event} \subseteq Events
    BY <1>2 DEF BehindGate, Calling, Errors, Events, Refusals
  <2>2. \/ Behind(r, "unwind", 402, "payment_verification_unavailable")
        \/ Behind(r, "verifying", 0, req[r].event)
    BY DEF Verify
  <2> QED
    BY ONLY <2>1, <2>2
<1>4. \A q : /\ q.at = at /\ q.status = code /\ q.event = event
             /\ q.paid = req[r].paid /\ q.row = req[r].row /\ q.activated = req[r].activated
             => Truthful(q)
  BY <1>2, <1>3 DEF Truthful, Untouched, Errors, Refusals
<1>5. req[r].at \in BehindGate /\ req[r].at \in Calling
  BY <1>1 DEF BehindGate, Calling
<1> QED
  BY <1>3, <1>4, <1>5, BehindStep

(* The answer of verify.                                                    *)
LEMMA VerifiedSound ==
  ASSUME ServiceInv, NEW r \in Requests, Verified(r) PROVE \E record : Sound(r, record)
<1>1. req[r] \in RequestRecord /\ req[r].at = "verifying" /\ Truthful(req[r])
  BY DEF ServiceInv, Verified
<1>2. Untouched(req[r]) /\ req[r].event = "signed_request_received"
  BY <1>1 DEF Truthful
<1>3. PICK at \in BehindGate, code \in {0, 200} \cup Errors, event \in Events :
        /\ Behind(r, at, code, event)
        /\ \/ at = "prepare" /\ code = 0 /\ event = req[r].event
           \/ at = "unwind" /\ code = 402 /\ event = "payment_verification_rejected"
           \/ at = "unwind" /\ code = 402 /\ event = "payment_verification_unavailable"
  <2>1. /\ {"unwind", "prepare"} \subseteq BehindGate /\ {0, 402} \subseteq {0, 200} \cup Errors
        /\ {"payment_verification_unavailable", "payment_verification_rejected", req[r].event} \subseteq Events
    BY <1>2 DEF BehindGate, Calling, Errors, Events, Refusals
  <2>2. \/ Behind(r, "prepare", 0, req[r].event)
        \/ Behind(r, "unwind", 402, "payment_verification_rejected")
        \/ Behind(r, "unwind", 402, "payment_verification_unavailable")
    BY DEF Verified
  <2> QED
    BY ONLY <2>1, <2>2
<1>4. \A q : /\ q.at = at /\ q.status = code /\ q.event = event
             /\ q.paid = req[r].paid /\ q.row = req[r].row /\ q.activated = req[r].activated
             => Truthful(q)
  BY <1>2, <1>3 DEF Truthful, Untouched, Errors, Refusals
<1>5. req[r].at \in BehindGate /\ req[r].at \in Calling
  BY <1>1 DEF BehindGate, Calling
<1> QED
  BY <1>3, <1>4, <1>5, BehindStep

(* The handler: a refusal, or a row and the call of settle.                 *)
LEMMA PrepareSound ==
  ASSUME ServiceInv, NEW r \in Requests, Prepare(r) PROVE \E record : Sound(r, record)
<1>1. req[r] \in RequestRecord /\ req[r].at = "prepare" /\ Truthful(req[r])
  BY DEF ServiceInv, Prepare
<1>2. Untouched(req[r]) /\ req[r].event = "signed_request_received" /\ req[r].status = 0
  BY <1>1 DEF Truthful
<1>3. req[r].at \in BehindGate
  BY <1>1 DEF BehindGate
<1>4. ASSUME NEW code \in Errors, NEW event \in Refusals, Behind(r, "unwind", code, event)
      PROVE  \E record : Sound(r, record)
  <2>1. PICK at \in BehindGate : at = "unwind"
    BY DEF BehindGate
  <2>2. \A q : /\ q.at = at /\ q.status = code /\ q.event = event
               /\ q.paid = req[r].paid /\ q.row = req[r].row /\ q.activated = req[r].activated
               => Truthful(q)
    BY <1>2, <2>1 DEF Truthful, Untouched
  <2>3. Behind(r, at, code, event) /\ at \notin Calling
    BY <1>4, <2>1 DEF Calling
  <2>4. code \in {0, 200} \cup Errors /\ event \in Events
    BY DEF Events
  <2> QED
    BY <1>3, <2>2, <2>3, <2>4, BehindStep
<1>5. /\ {503, 409, 429, 500} \subseteq Errors
      /\ {"admission_unavailable", "idempotency_conflicted", "idempotency_replayed",
          "capacity_rejected", "internal_admission_failed"} \subseteq Refusals
  BY DEF Errors, Refusals
<1> DEFINE sold == [req[r] EXCEPT !.row = "pending", !.paid = "invoked"]
<1>6. /\ sold \in RequestRecord /\ sold.at = "prepare" /\ sold.row = "pending" /\ sold.paid = "invoked"
      /\ ~sold.activated /\ sold.open = req[r].open /\ sold.status = 0
  BY <1>1, <1>2 DEF RequestRecord, Untouched
<1>7. ASSUME Facilitator \in fenced, UNCHANGED held,
             Move(r, [Observed(sold, "unwind", "settlement_ambiguous") EXCEPT !.status = 402])
      PROVE  \E record : Sound(r, record)
  <2> HIDE DEF sold
  <2>1. PICK at \in Stages, code \in {0, 200} \cup Errors, event \in Events :
          at = "unwind" /\ code = 402 /\ event = "settlement_ambiguous"
    BY DEF Stages, Owned, BehindGate, Errors, Events, Sales
  <2> DEFINE record == [Observed(sold, at, event) EXCEPT !.status = code]
  <2>2. /\ record \in RequestRecord /\ record.at = at /\ record.status = code
        /\ record.open = sold.open /\ record.event = event /\ record.paid = sold.paid
        /\ record.row = sold.row /\ record.activated = sold.activated
    BY <1>6, RecordObserved
  <2>3. Move(r, record)
    BY <1>7, <2>1
  <2> HIDE DEF record
  <2>4. Truthful(record) /\ record.at \in BehindGate /\ record.at \notin Calling
    BY <1>6, <2>1, <2>2 DEF Truthful, BehindGate, Calling
  <2> QED
    BY <1>3, <1>6, <1>7, <2>2, <2>3, <2>4, BehindSound
<1>8. ASSUME Facilitator \notin fenced, UNCHANGED held,
             Move(r, Observed(sold, "settle", "durable_prepared"))
      PROVE  \E record : Sound(r, record)
  <2> DEFINE record == Observed(sold, "settle", "durable_prepared")
  <2> HIDE DEF sold
  <2>1. /\ record \in RequestRecord /\ record.at = "settle" /\ record.status = 0
        /\ record.open = sold.open /\ record.event = "durable_prepared" /\ record.paid = sold.paid
        /\ record.row = sold.row /\ record.activated = sold.activated
    BY <1>6 DEF Observed, RequestRecord, Stages, Owned, BehindGate, Calling, Events
  <2>2. Move(r, record)
    BY <1>8
  <2> HIDE DEF record
  <2>3. Truthful(record) /\ record.at \in BehindGate
    BY <1>6, <2>1 DEF Truthful, BehindGate, Calling
  <2> QED
    BY <1>3, <1>6, <1>8, <2>1, <2>2, <2>3, BehindSound
<1> HIDE DEF sold
<1> QED
  BY <1>4, <1>5, <1>7, <1>8 DEF Prepare, sold

(* settle is sent, or refused by a client that has stopped.                 *)
LEMMA SettleSound ==
  ASSUME ServiceInv, NEW r \in Requests, Settle(r) PROVE \E record : Sound(r, record)
<1>1. req[r] \in RequestRecord /\ req[r].at = "settle" /\ Truthful(req[r])
  BY DEF ServiceInv, Settle
<1>2. /\ req[r].paid = "invoked" /\ req[r].row \in {"pending", "active"} /\ ~req[r].activated
      /\ req[r].event = "durable_prepared"
  BY <1>1 DEF Truthful
<1>3. PICK at \in BehindGate, code \in {0, 200} \cup Errors, event \in Events :
        /\ Behind(r, at, code, event)
        /\ \/ at = "unwind" /\ code = 402 /\ event = "settlement_ambiguous"
           \/ at = "settling" /\ code = 0 /\ event = req[r].event
  <2>1. /\ {"unwind", "settling"} \subseteq BehindGate /\ {0, 402} \subseteq {0, 200} \cup Errors
        /\ {"settlement_ambiguous", req[r].event} \subseteq Events
    BY <1>2 DEF BehindGate, Calling, Errors, Events, Sales
  <2>2. \/ Behind(r, "unwind", 402, "settlement_ambiguous")
        \/ Behind(r, "settling", 0, req[r].event)
    BY DEF Settle
  <2> QED
    BY ONLY <2>1, <2>2
<1>4. \A q : /\ q.at = at /\ q.status = code /\ q.event = event
             /\ q.paid = req[r].paid /\ q.row = req[r].row /\ q.activated = req[r].activated
             => Truthful(q)
  BY <1>2, <1>3 DEF Truthful
<1>5. req[r].at \in BehindGate /\ req[r].at \in Calling
  BY <1>1 DEF BehindGate, Calling
<1> QED
  BY <1>3, <1>4, <1>5, BehindStep

(* The answer of settle and the candidate it records.                       *)
LEMMA SettledSound ==
  ASSUME ServiceInv, NEW r \in Requests, Settled(r) PROVE \E record : Sound(r, record)
<1>1. req[r] \in RequestRecord /\ req[r].at = "settling" /\ Truthful(req[r])
  BY DEF ServiceInv, Settled
<1>2. /\ req[r].paid = "invoked" /\ req[r].row \in {"pending", "active"} /\ ~req[r].activated
      /\ req[r].event = "durable_prepared" /\ req[r].status = 0
  BY <1>1 DEF Truthful
<1>3. req[r].at \in BehindGate /\ req[r].at \in Calling
  BY <1>1 DEF BehindGate, Calling
<1>4. CASE Behind(r, "unwind", 402, "settlement_ambiguous")
  <2>1. PICK at \in BehindGate, code \in {0, 200} \cup Errors, event \in Events :
          at = "unwind" /\ code = 402 /\ event = "settlement_ambiguous"
    BY DEF BehindGate, Errors, Events, Sales
  <2>2. \A q : /\ q.at = at /\ q.status = code /\ q.event = event
               /\ q.paid = req[r].paid /\ q.row = req[r].row /\ q.activated = req[r].activated
               => Truthful(q)
    BY <1>2, <2>1 DEF Truthful
  <2>3. Behind(r, at, code, event)
    BY <1>4, <2>1
  <2> QED
    BY <1>3, <2>2, <2>3, BehindStep
<1>5. CASE /\ Move(r, [Observed(req[r], "activate", "settlement_confirmed") EXCEPT !.paid = "confirmed"])
           /\ UNCHANGED held
  <2> DEFINE record == [Observed(req[r], "activate", "settlement_confirmed") EXCEPT !.paid = "confirmed"]
  <2>1. /\ record \in RequestRecord /\ record.at = "activate" /\ record.status = 0
        /\ record.open = req[r].open /\ record.event = "settlement_confirmed" /\ record.paid = "confirmed"
        /\ record.row = req[r].row /\ record.activated = req[r].activated
    BY <1>1, <1>2 DEF Observed, RequestRecord, Stages, Owned, BehindGate, Events
  <2>2. Move(r, record)
    BY <1>5
  <2> HIDE DEF record
  <2>3. Truthful(record) /\ record.at \in BehindGate
    BY <1>2, <2>1 DEF Truthful, BehindGate
  <2> QED
    BY <1>3, <1>5, <2>1, <2>2, <2>3, BehindSound
<1>6. CASE /\ Move(r, [Observed(req[r], "unwind", "activation_pending") EXCEPT
                          !.paid = "confirmed", !.status = 200])
           /\ UNCHANGED held
  <2> DEFINE record == [Observed(req[r], "unwind", "activation_pending") EXCEPT
                          !.paid = "confirmed", !.status = 200]
  <2>1. /\ record \in RequestRecord /\ record.at = "unwind" /\ record.status = 200
        /\ record.open = req[r].open /\ record.event = "activation_pending" /\ record.paid = "confirmed"
        /\ record.row = req[r].row /\ record.activated = req[r].activated
    BY <1>1, <1>2 DEF Observed, RequestRecord, Stages, Owned, BehindGate, Events, Sales
  <2>2. Move(r, record)
    BY <1>6
  <2> HIDE DEF record
  <2>3. Truthful(record) /\ record.at \in BehindGate
    BY <1>2, <2>1 DEF Truthful, BehindGate
  <2> QED
    BY <1>3, <1>6, <2>1, <2>2, <2>3, BehindSound
<1> QED
  BY <1>4, <1>5, <1>6 DEF Settled

(* The lookup decides over the activation.                                  *)
LEMMA ActivateSound ==
  ASSUME ServiceInv, NEW r \in Requests, Activate(r) PROVE \E record : Sound(r, record)
<1>1. req[r] \in RequestRecord /\ req[r].at = "activate" /\ Truthful(req[r])
  BY DEF ServiceInv, Activate
<1>2. /\ req[r].paid = "confirmed" /\ req[r].row \in {"pending", "active"} /\ ~req[r].activated
      /\ req[r].event = "settlement_confirmed" /\ req[r].status = 0
  BY <1>1 DEF Truthful
<1>3. req[r].at \in BehindGate
  BY <1>1 DEF BehindGate
<1>4. CASE Behind(r, "unwind", 200, "activation_pending")
  <2>1. PICK at \in BehindGate, code \in {0, 200} \cup Errors, event \in Events :
          at = "unwind" /\ code = 200 /\ event = "activation_pending"
    BY DEF BehindGate, Events, Sales
  <2>2. \A q : /\ q.at = at /\ q.status = code /\ q.event = event
               /\ q.paid = req[r].paid /\ q.row = req[r].row /\ q.activated = req[r].activated
               => Truthful(q)
    BY <1>2, <2>1 DEF Truthful
  <2>3. Behind(r, at, code, event) /\ at \notin Calling
    BY <1>4, <2>1 DEF Calling
  <2> QED
    BY <1>3, <2>2, <2>3, BehindStep
<1>5. CASE /\ Move(r, [Observed(req[r], "unwind", "activation_rejected") EXCEPT
                          !.row = "rejected", !.status = 200])
           /\ UNCHANGED held
  <2> DEFINE record == [Observed(req[r], "unwind", "activation_rejected") EXCEPT
                          !.row = "rejected", !.status = 200]
  <2>1. /\ record \in RequestRecord /\ record.at = "unwind" /\ record.status = 200
        /\ record.open = req[r].open /\ record.event = "activation_rejected" /\ record.paid = "confirmed"
        /\ record.row = "rejected" /\ record.activated = req[r].activated
    BY <1>1, <1>2 DEF Observed, RequestRecord, Stages, Owned, BehindGate, Events, Sales
  <2>2. Move(r, record)
    BY <1>5
  <2> HIDE DEF record
  <2>3. Truthful(record) /\ record.at \in BehindGate /\ record.at \notin Calling
    BY <1>2, <2>1 DEF Truthful, BehindGate, Calling
  <2> QED
    BY <1>3, <1>5, <2>1, <2>2, <2>3, BehindSound
<1>6. CASE /\ Move(r, [Observed(req[r], "unwind", "activation_confirmed") EXCEPT
                          !.row = "active", !.activated = TRUE, !.status = 200])
           /\ UNCHANGED held
  <2> DEFINE record == [Observed(req[r], "unwind", "activation_confirmed") EXCEPT
                          !.row = "active", !.activated = TRUE, !.status = 200]
  <2>1. /\ record \in RequestRecord /\ record.at = "unwind" /\ record.status = 200
        /\ record.open = req[r].open /\ record.event = "activation_confirmed" /\ record.paid = "confirmed"
        /\ record.row = "active" /\ record.activated = TRUE
    BY <1>1, <1>2 DEF Observed, RequestRecord, Stages, Owned, BehindGate, Events
  <2>2. Move(r, record)
    BY <1>6
  <2> HIDE DEF record
  <2>3. Truthful(record) /\ record.at \in BehindGate /\ record.at \notin Calling
    BY <1>2, <2>1 DEF Truthful, BehindGate, Calling
  <2> QED
    BY <1>3, <1>6, <2>1, <2>2, <2>3, BehindSound
<1> QED
  BY <1>4, <1>5, <1>6 DEF Activate

(* The response behind the payment gate, and its slot.                      *)
LEMMA UnwindSound ==
  ASSUME ServiceInv, NEW r \in Requests, Unwind(r) PROVE \E record : Sound(r, record)
<1>1. req[r] \in RequestRecord /\ req[r].at = "unwind" /\ Truthful(req[r])
  BY DEF ServiceInv, Unwind
<1>2. PICK code, event :
        /\ Move(r, Responded(req[r], code, event))
        /\ \/ req[r].status \in Errors /\ code = req[r].status /\ event = req[r].event
           \/ req[r].status < 400 /\ req[r].row = "active" /\ code = 200 /\ event = "purchase_completed"
           \/ req[r].status < 400 /\ req[r].row # "active" /\ code = 500 /\ event = req[r].event
  <2>1. CASE req[r].status >= 400
    <3>1. req[r].status \in Errors
      BY <1>1, <2>1 DEF RequestRecord
    <3>2. ~(req[r].status < 400)
      BY <3>1 DEF Errors
    <3>3. Move(r, Responded(req[r], req[r].status, req[r].event))
      BY <2>1, <3>2 DEF Unwind
    <3> QED
      BY <3>1, <3>3
  <2>2. CASE req[r].status < 400 /\ req[r].row = "active"
    <3>1. ~(req[r].status >= 400)
      BY <1>1, <2>2 DEF RequestRecord, Errors
    <3>2. Move(r, Responded(req[r], 200, "purchase_completed"))
      BY <2>2, <3>1 DEF Unwind
    <3> QED
      BY <2>2, <3>2
  <2>3. CASE req[r].status < 400 /\ req[r].row # "active"
    <3>1. ~(req[r].status >= 400)
      BY <1>1, <2>3 DEF RequestRecord, Errors
    <3>2. Move(r, Responded(req[r], 500, req[r].event))
      BY <2>3, <3>1 DEF Unwind
    <3> QED
      BY <2>3, <3>2
  <2> QED
    BY <1>1, <2>1, <2>2, <2>3 DEF RequestRecord, Errors
<1> DEFINE record == Responded(req[r], code, event)
<1>3. /\ record \in RequestRecord /\ record.at = "answered" /\ record.open = req[r].open
      /\ Truthful(record)
  BY <1>1, <1>2, UnwindAnswered
<1>4. held' = [g \in Gates |-> IF req[r].at \in Within(g) THEN held[g] - 1 ELSE held[g]]
  <2>1. \A g \in Gates : req[r].at \in Within(g) <=> g = "payment"
    BY <1>1, GatesOf DEF BehindGate, Calling
  <2>2. held \in [Gates -> Nat] /\ held' = [held EXCEPT !["payment"] = @ - 1]
    BY DEF ServiceInv, Slots, Unwind
  <2>3. held' = [g \in Gates |-> IF g = "payment" THEN held[g] - 1 ELSE held[g]]
    BY <2>2
  <2> QED
    BY <2>1, <2>3
<1>5. Move(r, record)
  BY <1>2
<1> HIDE DEF record
<1> QED
  BY <1>1, <1>3, <1>4, <1>5, AnswerSound

(* The reconciler finds the payment of a request's row.                     *)
LEMMA ReconcileSound ==
  ASSUME ServiceInv, NEW r \in Requests, Reconcile(r) PROVE \E record : Sound(r, record)
<1>1. /\ req[r] \in RequestRecord /\ req[r].at \in {"settling", "activate", "unwind"}
      /\ Truthful(req[r]) /\ req[r].row = "pending"
  BY DEF ServiceInv, Reconcile
<1> DEFINE record == [req[r] EXCEPT !.row = "active"]
<1>2. /\ record \in RequestRecord /\ record.at = req[r].at /\ record.status = req[r].status
      /\ record.open = req[r].open /\ record.event = req[r].event /\ record.paid = req[r].paid
      /\ record.row = "active" /\ record.activated = req[r].activated
  BY <1>1 DEF RequestRecord
<1>3. Move(r, record) /\ UNCHANGED held
  BY DEF Reconcile
<1> HIDE DEF record
<1>4. Truthful(record)
  BY <1>1, <1>2 DEF Truthful, Untouched
<1>5. req[r].at \in BehindGate /\ (record.at \in Calling => req[r].at \in Calling)
  BY <1>1, <1>2 DEF BehindGate, Calling
<1> QED
  BY <1>2, <1>3, <1>4, <1>5, BehindSound

(* The record of a slot nobody uses. *)
LEMMA AbsentRecord ==
  Absent \in RequestRecord /\ Absent.at = "out" /\ Absent.open = FALSE /\ Truthful(Absent)
  BY DEF Absent, RequestRecord, Stages, Events, Truthful, Untouched

(* The client goes, its request stays.                                      *)
LEMMA DisconnectSound ==
  ASSUME ServiceInv, NEW r \in Requests, Disconnect(r) PROVE \E record : Sound(r, record)
<1>1. req[r] \in RequestRecord /\ req[r].open = TRUE /\ Truthful(req[r])
  BY DEF ServiceInv, Disconnect, RequestRecord
<1>2. UNCHANGED held
  BY DEF Disconnect
<1>3. CASE req[r].at = "connected"
  <2>1. Move(r, Absent)
    BY <1>3 DEF Disconnect
  <2>2. Keeps(r, Absent)
    BY <1>3, AbsentRecord DEF Keeps, Owned, Calling, BehindGate
  <2>3. \A g \in Gates : req[r].at \in Within(g) <=> Absent.at \in Within(g)
    BY <1>3, AbsentRecord, GatesOf DEF BehindGate, Calling
  <2> QED
    BY <1>2, <2>1, <2>2, <2>3, AbsentRecord, SoundStay
<1>4. CASE req[r].at # "connected"
  <2> DEFINE record == [req[r] EXCEPT !.open = FALSE]
  <2>1. /\ record \in RequestRecord /\ record.at = req[r].at /\ record.status = req[r].status
        /\ record.open = FALSE /\ record.event = req[r].event /\ record.paid = req[r].paid
        /\ record.row = req[r].row /\ record.activated = req[r].activated
    BY <1>1 DEF RequestRecord
  <2>2. Move(r, record)
    BY <1>4 DEF Disconnect
  <2> HIDE DEF record
  <2>3. Truthful(record)
    BY <1>1, <2>1 DEF Truthful, Untouched
  <2>4. Keeps(r, record)
    BY <2>1 DEF Keeps
  <2>5. \A g \in Gates : req[r].at \in Within(g) <=> record.at \in Within(g)
    BY <2>1
  <2> QED
    BY <1>2, <2>1, <2>2, <2>3, <2>4, <2>5, SoundStay
<1> QED
  BY <1>3, <1>4

(* The answer is written and its connection closed.                         *)
LEMMA LeaveSound ==
  ASSUME ServiceInv, NEW r \in Requests, Leave(r) PROVE \E record : Sound(r, record)
<1>1. req[r].at = "answered" /\ Move(r, Absent) /\ UNCHANGED held
  BY DEF Leave
<1>2. Keeps(r, Absent)
  BY <1>1, AbsentRecord DEF Keeps, Owned, Calling, BehindGate
<1>3. \A g \in Gates : req[r].at \in Within(g) <=> Absent.at \in Within(g)
  BY <1>1, AbsentRecord, GatesOf DEF BehindGate, Calling
<1> QED
  BY <1>1, <1>2, <1>3, AbsentRecord, SoundStay

(* The record of a payment the SDK or its client refuses unasked.          *)
LEMMA RefusedBehindGate ==
  ASSUME NEW q \in RequestRecord,
         NEW refusal \in {"payment_verification_unavailable", "payment_protocol"}
  PROVE  \E record \in RequestRecord :
           /\ record = [Observed(q, "unwind", refusal) EXCEPT !.status = 402]
           /\ record.at = "unwind" /\ record.status = 402 /\ record.open = q.open
           /\ record.event = refusal /\ record.paid = q.paid
           /\ record.row = q.row /\ record.activated = q.activated
<1>1. PICK at \in Stages, code \in {0, 200} \cup Errors, event \in Events :
        at = "unwind" /\ code = 402 /\ event = refusal
  BY DEF Stages, Owned, BehindGate, Errors, Events, Refusals
<1> DEFINE record == [Observed(q, at, event) EXCEPT !.status = code]
<1>2. /\ record \in RequestRecord /\ record.at = at /\ record.status = code
      /\ record.open = q.open /\ record.event = event /\ record.paid = q.paid
      /\ record.row = q.row /\ record.activated = q.activated
  BY RecordObserved
<1> QED
  BY <1>1, <1>2

(* The body is read, and the payment gate entered or not.                  *)
LEMMA ReadBodySound ==
  ASSUME ServiceInv, NEW r \in Requests, ReadBody(r) PROVE \E record : Sound(r, record)
<1>1. req[r] \in RequestRecord /\ req[r].at = "body" /\ Truthful(req[r])
  BY DEF ServiceInv, ReadBody
<1>2. Untouched(req[r]) /\ req[r].event = "signed_request_received" /\ req[r].status = 0
  BY <1>1 DEF Truthful
<1>3. held \in [Gates -> Nat]
  BY DEF ServiceInv, Slots
<1>4. ASSUME NEW code \in Errors, NEW event \in Refusals,
             Move(r, Responded(req[r], code, event)), held' = [held EXCEPT !["body"] = @ - 1]
      PROVE  \E record : Sound(r, record)
  <2> DEFINE record == Responded(req[r], code, event)
  <2>1. /\ record \in RequestRecord /\ record.at = "answered" /\ record.open = req[r].open
        /\ Truthful(record)
    <3>1. code \in {200} \cup Errors /\ code # 200
      BY DEF Errors
    <3> QED
      BY <1>1, <1>2, <3>1, RefusalAnswered
  <2>2. held' = [g \in Gates |-> IF req[r].at \in Within(g) THEN held[g] - 1 ELSE held[g]]
    <3>1. \A g \in Gates : req[r].at \in Within(g) <=> g = "body"
      BY <1>1, GatesOf DEF BehindGate, Calling
    <3>2. held' = [g \in Gates |-> IF g = "body" THEN held[g] - 1 ELSE held[g]]
      BY <1>3, <1>4
    <3> QED
      BY <3>1, <3>2
  <2> HIDE DEF record
  <2>3. Move(r, record)
    BY <1>4 DEF record
  <2> QED
    BY <1>1, <2>1, <2>2, <2>3, AnswerSound
<1>5. ASSUME held["payment"] < Concurrency,
             held' = [held EXCEPT !["body"] = @ - 1, !["payment"] = @ + 1],
             NEW record \in RequestRecord, Move(r, record), Truthful(record),
             record.open = req[r].open, record.at \in BehindGate,
             record.at \in Calling => Facilitator \notin fenced
      PROVE  Sound(r, record)
  <2> DEFINE into == {"payment"}
             from == {"body"}
  <2>1. Keeps(r, record)
    BY <1>1, <1>5 DEF Keeps, Owned
  <2>2. /\ into \in SUBSET Gates /\ from \in SUBSET Gates /\ into \cap from = {}
        /\ \A g \in into : held[g] < Concurrency /\ req[r].at \notin Within(g) /\ record.at \in Within(g)
        /\ \A g \in from : req[r].at \in Within(g) /\ record.at \notin Within(g)
        /\ \A g \in Gates \ (into \cup from) : req[r].at \in Within(g) <=> record.at \in Within(g)
    BY <1>1, <1>5, GatesOf DEF Gates, BehindGate, Calling
  <2>3. held' = [g \in Gates |-> IF g \in into THEN held[g] + 1
                                 ELSE IF g \in from THEN held[g] - 1 ELSE held[g]]
    BY <1>3, <1>5
  <2> HIDE DEF into, from
  <2> QED
    BY <1>5, <2>1, <2>2, <2>3, SoundPass
<1>6. ASSUME held["payment"] < Concurrency,
             held' = [held EXCEPT !["body"] = @ - 1, !["payment"] = @ + 1],
             NEW refusal \in {"payment_verification_unavailable", "payment_protocol"},
             Move(r, [Observed(req[r], "unwind", refusal) EXCEPT !.status = 402])
      PROVE  \E record : Sound(r, record)
  <2>1. PICK record \in RequestRecord :
          /\ record = [Observed(req[r], "unwind", refusal) EXCEPT !.status = 402]
          /\ record.at = "unwind" /\ record.status = 402 /\ record.open = req[r].open
          /\ record.event = refusal /\ record.paid = req[r].paid
          /\ record.row = req[r].row /\ record.activated = req[r].activated
    BY <1>1, RefusedBehindGate
  <2>3. Move(r, record)
    BY <1>6, <2>1
  <2>4. Truthful(record) /\ record.at \in BehindGate /\ record.at \notin Calling
    BY <1>2, <2>1 DEF Truthful, Untouched, BehindGate, Calling, Errors, Refusals
  <2> QED
    BY <1>5, <1>6, <2>1, <2>3, <2>4
<1>7. ASSUME held["payment"] < Concurrency,
             held' = [held EXCEPT !["body"] = @ - 1, !["payment"] = @ + 1],
             Facilitator \notin fenced, Move(r, [req[r] EXCEPT !.at = "verify"])
      PROVE  \E record : Sound(r, record)
  <2> DEFINE record == [req[r] EXCEPT !.at = "verify"]
  <2>1. /\ record \in RequestRecord /\ record.at = "verify" /\ record.open = req[r].open
        /\ record.status = 0 /\ record.event = "signed_request_received" /\ Untouched(record)
    BY <1>1, <1>2 DEF RequestRecord, Stages, Owned, BehindGate, Calling, Untouched
  <2>2. Move(r, record)
    BY <1>7
  <2> HIDE DEF record
  <2>3. Truthful(record) /\ record.at \in BehindGate
    BY <2>1 DEF Truthful, BehindGate, Calling
  <2> QED
    BY <1>5, <1>7, <2>1, <2>2, <2>3
<1>8. /\ {400, 429} \subseteq Errors
      /\ {"body_validation_rejected", "payment_header_rejected", "signed_request_rate_limited"} \subseteq Refusals
  BY DEF Errors, Refusals
<1> QED
  BY <1>4, <1>6, <1>7, <1>8 DEF ReadBody

(* Whatever a request does, it is a sound step.                            *)
LEMMA RequestKeepsInv ==
  ASSUME ServiceInv, NEW r \in Requests, RequestStep(r)
  PROVE  ServiceInv' /\ [ShutdownNext]_shutdownVars
<1>1. \E record : Sound(r, record)
  BY ConnectSound, EnterSound, ServeFreeSound, CheckReadinessSound, ReadBodySound, VerifySound,
     VerifiedSound, PrepareSound, SettleSound, SettledSound, ActivateSound, UnwindSound,
     ReconcileSound, DisconnectSound, LeaveSound
     DEF RequestStep, Progress
<1> QED
  BY <1>1, SoundKeepsInv

-----------------------------------------------------------------------------
(* The start: at most one owner moves with its stage.                      *)
LEMMA AdvanceKeepsInv ==
  ASSUME ServiceInv, NEW stage \in Boots, Advance(stage),
         listener' = "open" => listener = "open" \/ Server \notin fenced,
         boot \in Initialising /\ stage \notin Initialising =>
            boot \notin Asking /\ stage \notin Asking,
         boot \notin Initialising /\ stage \in Initialising =>
            boot \notin Asking /\ stage \notin Asking /\ Application \notin fenced,
         boot \notin Asking /\ stage \in Asking => Facilitator \notin fenced
  PROVE  ServiceInv' /\ [ShutdownNext]_shutdownVars
<1>1. boot' = stage /\ UNCHANGED <<joinVars, req, held>>
  BY DEF Advance
<1>2. /\ work' \subseteq Owners
      /\ Application \in work' <=> AppHolds(req, stage)
      /\ Facilitator \in work' <=> FacHolds(req, stage)
      /\ Server \in work' <=> SrvHolds(req)
      /\ Background \in work' <=> Background \in work
  <2>1. work' = Owning(req, stage) \cup (work \cap {Background})
    BY <1>1 DEF Advance
  <2> QED
    BY <2>1, OwningMembers
<1>3. Tracked'
  BY <1>1, <1>2 DEF Tracked
<1>4. Fences'
  BY <1>1 DEF ServiceInv, Fences, joinVars
<1>5. Slots'
  BY <1>1 DEF ServiceInv, Slots, Inside
<1>6. ServiceInv'
  <2>1. req' \in [Requests -> RequestRecord] /\ \A r \in Requests : Truthful(req'[r])
    <3> HIDE DEF Truthful
    <3> QED
      BY <1>1 DEF ServiceInv
  <2> QED
    BY <1>1, <1>3, <1>4, <1>5, <2>1 DEF ServiceInv
<1>7. Tracked
  BY DEF ServiceInv
<1>8. \E o \in Owners :
        /\ \A x \in Owners \ {o} : x \in work' <=> x \in work
        /\ o \in work' /\ o \notin work => o \notin fenced
  <2>1. Server \in work' <=> Server \in work
    BY <1>2, <1>7 DEF Tracked
  <2>2. CASE boot \in Initialising <=> stage \in Initialising
    <3>1. Application \in work' <=> Application \in work
      BY <1>2, <1>7, <2>2 DEF Tracked, AppHolds
    <3>2. Facilitator \in work' /\ Facilitator \notin work => Facilitator \notin fenced
      BY <1>2, <1>7 DEF Tracked, FacHolds
    <3> QED
      BY <1>2, <2>1, <3>1, <3>2, ServiceAssumption
  <2>3. CASE ~(boot \in Initialising <=> stage \in Initialising)
    <3>1. Facilitator \in work' <=> Facilitator \in work
      BY <1>2, <1>7, <2>3 DEF Tracked, FacHolds
    <3>2. Application \in work' /\ Application \notin work => Application \notin fenced
      BY <1>2, <1>7 DEF Tracked, AppHolds
    <3> QED
      BY <1>2, <2>1, <3>1, <3>2, ServiceAssumption
  <2> QED
    BY <2>2, <2>3
<1>9. UNCHANGED joinVars /\ work \subseteq Owners
  BY <1>1, <1>7 DEF Tracked
<1> QED
  BY <1>2, <1>6, <1>8, <1>9, OneOwnerMoves

(* startProductionRuntime, step by step.                                   *)
LEMMA StartupKeepsInv ==
  ASSUME ServiceInv, Startup
  PROVE  ServiceInv' /\ [ShutdownNext]_shutdownVars
<1>1. status = "running" => Application \notin fenced /\ Server \notin fenced
  BY DEF ServiceInv, Fences
<1> DEFINE Goes(stage) == Advance(stage) /\ (listener' = "open" => listener = "open" \/ Server \notin fenced)
<1>2. CASE InitializePayments
  <2>1. \/ boot = "resources" /\ Goes("abandoned")
        \/ boot = "resources" /\ Goes("payments") /\ Application \notin fenced
    BY <1>1, <1>2 DEF InitializePayments
  <2> HIDE DEF Goes
  <2> QED
    BY <2>1, AdvanceKeepsInv DEF Goes, Boots, Initialising, Asking
<1>3. CASE AskSupported \/ SendSupported \/ SupportedAnswered \/ RetryWaited
  <2>1. /\ boot \in {"payments"} \cup Asking
        /\ \E stage \in {"refused", "asked"} \cup Asking :
             Goes(stage) /\ (boot = "payments" => stage = "refused" \/ Facilitator \notin fenced)
    BY <1>3 DEF AskSupported, SendSupported, SupportedAnswered, RetryWaited, Asking
  <2>2. PICK stage \in {"refused", "asked"} \cup Asking :
             Goes(stage) /\ (boot = "payments" => stage = "refused" \/ Facilitator \notin fenced)
    BY <2>1
  <2>3. /\ stage \in Boots /\ boot \in Initialising /\ stage \in Initialising
        /\ boot \notin Asking /\ stage \in Asking => Facilitator \notin fenced
    BY <2>1, <2>2 DEF Boots, Initialising, Asking
  <2>4. Advance(stage) /\ (listener' = "open" => listener = "open" \/ Server \notin fenced)
    BY <2>2
  <2> QED
    BY <2>3, <2>4, AdvanceKeepsInv
<1>4. CASE Initialized
  <2>1. boot \in {"asked", "refused"} /\ (Goes("initialized") \/ Goes("failed"))
    BY <1>4 DEF Initialized
  <2> QED
    BY <2>1, AdvanceKeepsInv DEF Boots, Initialising, Asking
<1>5. CASE Listen
  <2>1. boot = "initialized" /\ (Goes("abandoned") \/ Goes("bound"))
    BY <1>1, <1>5 DEF Listen
  <2> QED
    BY <2>1, AdvanceKeepsInv DEF Boots, Initialising, Asking
<1>6. CASE StartWorkers
  <2>1. boot = "bound" /\ (Goes("abandoned") \/ Goes("serving") \/ Goes("failed"))
    BY <1>6 DEF StartWorkers
  <2> QED
    BY <2>1, AdvanceKeepsInv DEF Boots, Initialising, Asking
<1> QED
  BY <1>2, <1>3, <1>4, <1>5, <1>6 DEF Startup

-----------------------------------------------------------------------------
(* The coordinator's own steps leave the requests and the start alone.      *)
LEMMA OthersKeepInv ==
  ASSUME ServiceInv, UNCHANGED <<boot, req, held>>, work' \subseteq Owners,
         \A o \in {Application, Facilitator, Server} : o \in work' <=> o \in work, Fences'
  PROVE  ServiceInv'
<1>1. Tracked'
  BY DEF ServiceInv, Tracked, AppHolds, FacHolds, SrvHolds
<1>2. Slots'
  BY DEF ServiceInv, Slots, Inside
<1>3. req' \in [Requests -> RequestRecord] /\ boot' \in Boots /\ \A r \in Requests : Truthful(req'[r])
  <2> HIDE DEF Truthful
  <2> QED
    BY DEF ServiceInv
<1> QED
  BY <1>1, <1>2, <1>3 DEF ServiceInv

(* The stop, the server's close, the workers' turns and the join.           *)
LEMMA CoordinatorKeepsInv ==
  ASSUME ServiceInv, Stop \/ ServerLivesOn \/ WorkerTurn \/ Joining
  PROVE  ServiceInv' /\ [ShutdownNext]_shutdownVars
<1>1. work \subseteq Owners /\ Fences
  BY DEF ServiceInv, Tracked
<1>2. CASE Stop
  <2>1. PICK hasError \in BOOLEAN, noTimer \in BOOLEAN, badSampler \in BOOLEAN,
             badFences \in Few, badDrains \in Few :
          Server \notin badFences /\ ShutdownCall(hasError, noTimer, badSampler, badFences, badDrains)
    BY <1>2 DEF Stop
  <2>2. badFences \in SUBSET (Owners \ {Server}) /\ badDrains \in SUBSET Owners
    BY <2>1 DEF Few
  <2>3. Shutdown
    BY <1>2, <2>1, <2>2 DEF Shutdown, Stop
  <2>4. work' = work /\ status' # "running"
    BY <2>1 DEF ShutdownCall
  <2>5. Fences'
    BY <1>1, <1>2, <2>4, ServiceAssumption DEF Fences, Stop
  <2>6. ServiceInv'
    BY <1>1, <1>2, <2>4, <2>5, OthersKeepInv DEF Stop
  <2> QED
    BY <2>3, <2>6 DEF ShutdownNext
<1>3. CASE ServerLivesOn
  <2>1. work' = work /\ status' = status /\ status # "running"
    BY <1>3 DEF ServerLivesOn, ServerCloseFails
  <2>2. Fences'
    BY <1>1, <1>3, <2>1 DEF Fences, ServerLivesOn, ServerCloseFails
  <2>3. ServiceInv'
    BY <1>1, <1>3, <2>1, <2>2, OthersKeepInv DEF ServerLivesOn
  <2> QED
    BY <1>3, <2>3 DEF ServerLivesOn, ShutdownNext
<1>4. CASE WorkerTurn
  <2>1. Admit(Background) \/ Finish(Background)
    BY <1>4 DEF WorkerTurn
  <2>2. /\ work' = work \cup {Background} \/ work' = work \ {Background}
        /\ UNCHANGED <<fenced, status>>
    BY <2>1 DEF Admit, Finish
  <2>3. /\ work' \subseteq Owners
        /\ \A o \in {Application, Facilitator, Server} : o \in work' <=> o \in work
    BY <1>1, <2>2, ServiceAssumption
  <2>4. Fences'
    BY <1>1, <1>4, <2>2 DEF Fences, WorkerTurn, serviceOnly
  <2>5. ServiceInv'
    BY <1>4, <2>3, <2>4, OthersKeepInv DEF WorkerTurn, serviceOnly
  <2>6. ShutdownNext
    BY <2>1, ServiceAssumption DEF ShutdownNext
  <2> QED
    BY <2>5, <2>6
<1>5. CASE Joining
  <2>1. ShutdownNext /\ UNCHANGED <<work, fenced>> /\ (status' = "running" => status = "running")
    BY <1>5 DEF Joining, ShutdownNext, ShutdownAgain, Join, Deadline, OwnerSettles
  <2>2. Fences'
    BY <1>1, <1>5, <2>1 DEF Fences, Joining, serviceOnly
  <2>3. ServiceInv'
    BY <1>1, <1>5, <2>1, <2>2, OthersKeepInv DEF Joining, serviceOnly
  <2> QED
    BY <2>1, <2>3
<1> QED
  BY <1>2, <1>3, <1>4, <1>5

(* The process starts with nothing held, nothing fenced and nobody inside.  *)
LEMMA InitEstablishes == ASSUME ServiceInit PROVE ServiceInv
<1>1. req \in [Requests -> RequestRecord] /\ \A r \in Requests : req[r] = Absent
  BY AbsentRecord DEF ServiceInit
<1>2. boot = "resources" /\ boot \in Boots /\ boot \notin Initialising /\ boot \notin Asking
  BY DEF ServiceInit, Boots, Initialising, Asking
<1>3. \A r \in Requests : Truthful(req[r])
  <2> HIDE DEF Truthful
  <2> QED
    BY <1>1, AbsentRecord
<1>4. work = {} /\ fenced = {} /\ listener = "none"
  BY DEF ServiceInit, ShutdownInit
<1>5. "out" \notin Owned /\ "out" \notin Calling /\ \A g \in Gates : "out" \notin Within(g)
  BY DEF Owned, Calling, BehindGate, Within, Gates
<1>6. Tracked
  <2>1. \A r \in Requests : req[r].at = "out" /\ req[r].open = FALSE
    BY <1>1, AbsentRecord
  <2> HIDE DEF Owned, Calling, Initialising, Asking
  <2> QED
    BY <1>2, <1>4, <1>5, <2>1 DEF Tracked, AppHolds, FacHolds, SrvHolds
<1>7. Slots
  <2>1. \A g \in Gates : Inside(g) = {}
    BY <1>1, <1>5, AbsentRecord DEF Inside, Within
  <2>2. held = [g \in Gates |-> 0] /\ Cardinality({}) = 0 /\ Concurrency \in Nat
    BY ServiceAssumption, FS_EmptySet DEF ServiceInit
  <2> QED
    BY <2>1, <2>2 DEF Slots
<1> QED
  BY <1>1, <1>2, <1>3, <1>4, <1>6, <1>7 DEF ServiceInv, Fences

(* Every step keeps the invariant and is one of the coordinator's.          *)
LEMMA ServiceStep ==
  ASSUME ServiceInv, [ServiceNext]_serviceVars PROVE ServiceInv' /\ [ShutdownNext]_shutdownVars
<1>1. CASE Startup
  BY <1>1, StartupKeepsInv
<1>2. ASSUME NEW r \in Requests, RequestStep(r) PROVE ServiceInv' /\ [ShutdownNext]_shutdownVars
  BY <1>2, RequestKeepsInv
<1>3. CASE Stop \/ ServerLivesOn \/ WorkerTurn \/ Joining
  BY <1>3, CoordinatorKeepsInv
<1>4. CASE UNCHANGED serviceVars
  <2>1. UNCHANGED shutdownVars /\ UNCHANGED <<boot, req, held, listener>>
    BY <1>4 DEF serviceVars
  <2>2. UNCHANGED <<work, fenced, status>>
    BY <2>1 DEF shutdownVars
  <2>3. work \subseteq Owners /\ Fences'
    BY <2>1, <2>2 DEF ServiceInv, Tracked, Fences
  <2> QED
    BY <2>1, <2>2, <2>3, OthersKeepInv
<1> QED
  BY <1>1, <1>2, <1>3, <1>4 DEF ServiceNext

-----------------------------------------------------------------------------
(* The invariant of requests, start, owners, fences and slots.              *)
THEOREM ServiceInvariant == ServiceSpec => []ServiceInv
<1>1. ServiceInit => ServiceInv
  BY InitEstablishes
<1>2. ServiceInv /\ [ServiceNext]_serviceVars => ServiceInv'
  BY ServiceStep
<1> QED
  BY <1>1, <1>2, PTL DEF ServiceSpec

(* The service implements the coordinator: no request, worker, facilitator  *)
(* call or listener begins under its owner's fence.                         *)
THEOREM ServiceAlwaysKeepsCoordinator == ServiceSpec => KeepsCoordinator
<1>1. ServiceInit => ShutdownInit
  BY DEF ServiceInit
<1>2. ServiceInv /\ [ServiceNext]_serviceVars => [ShutdownNext]_shutdownVars
  BY ServiceStep
<1> QED
  BY <1>1, <1>2, ServiceInvariant, PTL DEF ServiceSpec, KeepsCoordinator, ShutdownSpec

(* Once SQLite is closed no start and no request goes on.                   *)
THEOREM StoreNeverUsedOnceClosed == ServiceSpec => []StoreUnusedOnceClosed
<1>1. ServiceInv /\ StoreOutlivesWork => StoreUnusedOnceClosed
  <2> HIDE DEF Owned, Initialising
  <2> QED
    BY DEF ServiceInv, Tracked, AppHolds, StoreOutlivesWork, StoreUnusedOnceClosed
<1>2. ServiceSpec => ShutdownSpec
  BY ServiceAlwaysKeepsCoordinator DEF KeepsCoordinator
<1> QED
  BY <1>1, <1>2, ServiceInvariant, StoreAlwaysOutlivesWork, PTL

(* Exit code 0 of the whole service: everything drained, the store closed.  *)
THEOREM ServiceExitsCleanly == ServiceSpec => []CleanExitIsTrue
<1>1. ServiceSpec => ShutdownSpec
  BY ServiceAlwaysKeepsCoordinator DEF KeepsCoordinator
<1> QED
  BY <1>1, CleanExitIsAlwaysTrue, PTL

(* The slots of every gate are given back on every way out.                 *)
THEOREM GatesAlwaysHonest == ServiceSpec => []GatesAreHonest
<1>1. ServiceInv => GatesAreHonest
  BY DEF ServiceInv, Slots, GatesAreHonest
<1> QED
  BY <1>1, ServiceInvariant, PTL

(* What a request's final outcome and status say is true.                   *)
THEOREM OutcomeAlwaysTrue == ServiceSpec => []OutcomeIsTrue
<1>1. ServiceInv => OutcomeIsTrue
  BY DEF ServiceInv, Truthful, OutcomeIsTrue, Sales
<1> QED
  BY <1>1, ServiceInvariant, PTL

=============================================================================
