---------------------------- MODULE IndexerClient ----------------------------
(***************************************************************************)
(* The Indexer client (roundwatch-indexer.ts): which query it sends for a  *)
(* watch, which answers it believes and what it makes of them.             *)
(*                                                                         *)
(* A provider may answer anything.  Whether it answers honestly is         *)
(* recorded, never assumed: an honest search returns exactly the on-chain  *)
(* transactions the query selects, page by page, as a replica with some    *)
(* view of the chain knows them.                                           *)
(*                                                                         *)
(* A note is a sequence of bytes, a tree of inner transactions the         *)
(* sequence of its nodes, each with its depth.  The bounds on pages, inner *)
(* transactions and their depth (1000, 1000, 16) are parameters.           *)
(***************************************************************************)
EXTENDS Integers, Sequences, SequencesExt, FiniteSets

CONSTANTS
    None,
    Zero,           \* the zero address
    ProbeWatch,     \* the synthetic watch of the readiness probe
    ProbeId,        \* the transaction it looks up
    Watches,        \* the terms of paid watches
    Variants,       \* scan query variants
    Chains,         \* transactions of the chain, in order
    Pages,          \* sets of transactions a provider may make up a page of
    MaxRound,       \* bound on rounds
    PageLimit,      \* most transactions of a page
    MaxInner,       \* most inner transactions of one transaction
    MaxDepth        \* their greatest depth

(* A transaction as the chain knows it, which the parser takes for granted  *)
(* of no provider; inner transactions share its round.                      *)
OnChain(t) ==
    /\ t.fields
    /\ t.amount \in Nat
    /\ t.envelope <=> t.type = "axfer"
    /\ t.close # "amount only"
    /\ t.nested <=> t.tree # <<>>
    /\ t.nested => t.type = "appl"
    /\ Len(t.tree) \in 0..MaxInner
    /\ DOMAIN t.tree = 1..Len(t.tree)
    /\ \A i \in DOMAIN t.tree :
        LET inner == t.tree[i]
        IN  /\ inner.fields /\ inner.round = t.round /\ inner.depth <= MaxDepth
            /\ inner.envelope <=> inner.type = "axfer"
            /\ inner.nested => inner.type = "appl"
            /\ inner.close # "amount only" /\ inner.amount \in Nat

ASSUME ClientAssumption ==
    /\ Variants \subseteq {"A", "B", "C", "D"}
    /\ MaxRound \in Nat /\ PageLimit \in Nat \ {0}
    /\ MaxInner \in Nat /\ MaxDepth \in Nat
    /\ None \notin Nat
    /\ \A w \in Watches \cup {ProbeWatch} :
         w.amount \in Nat \ {0} /\ (w.note # None => Len(w.note) \in Nat)

ASSUME ChainAssumption ==
    \A c \in Chains :
        /\ Len(c) \in Nat /\ DOMAIN c = 1..Len(c)
        /\ \A i \in DOMAIN c : OnChain(c[i]) /\ c[i].round \in 1..MaxRound

VARIABLES
    variant,   \* ROUNDWATCH_SCAN_QUERY_VARIANT
    chain,     \* what is on chain
    query,     \* the request in flight or answered last, or None
    reply,     \* the provider's answer to it, or None
    result,    \* what the client returned to its caller, or None
    matched,   \* transactions of the current scan that matchesWatch accepts
    honest,    \* history: the current scan was answered honestly, beyond its window
    probe      \* probeReadinessCapabilities

settingVars == <<variant, chain>>
clientVars == <<settingVars, query, reply, result, matched, honest, probe>>

-----------------------------------------------------------------------------
(***************************************************************************)
(* The query.                                                              *)
(***************************************************************************)

(* Mutant: the receiver's variant keeps the sender's role. *)
PlanWithoutRole(w) ==
    [address    |-> IF variant = "D" THEN w.receiver ELSE w.sender,
     role       |-> "sender",
     exact      |-> variant # "A",
     notePrefix |-> variant \in {"C", "D"} /\ w.note # None]

(* buildScanQueryPlan; amounts of watches are positive. *)
Plan(w) ==
    [address    |-> IF variant = "D" THEN w.receiver ELSE w.sender,
     role       |-> IF variant = "D" THEN "receiver" ELSE "sender",
     exact      |-> variant # "A",
     notePrefix |-> variant \in {"C", "D"} /\ w.note # None]

(* buildWatchSearchUrl: what the provider is asked for. *)
SearchUrl(w, min, max) ==
    [address |-> Plan(w).address, role |-> Plan(w).role, asset |-> w.asset,
     greater |-> IF Plan(w).exact THEN w.amount - 1 ELSE None,
     less    |-> IF Plan(w).exact THEN w.amount + 1 ELSE None,
     prefix  |-> IF Plan(w).notePrefix THEN w.note ELSE None,
     min     |-> min, max |-> max]

Scan(w, min, max, token) ==
    [purpose |-> "scan-page", watch |-> w, url |-> SearchUrl(w, min, max),
     min |-> min, max |-> max, token |-> token, id |-> None]

Other(purpose, round, id) ==
    [purpose |-> purpose, watch |-> None, url |-> None,
     min |-> round, max |-> round, token |-> None, id |-> id]

-----------------------------------------------------------------------------
(***************************************************************************)
(* What an honest provider answers.                                        *)
(***************************************************************************)

(* A transfer, on its own or inside another transaction, meets the query. *)
Meets(t, url) ==
    /\ t.type = "axfer"
    /\ t.asset = url.asset
    /\ IF url.role = "sender" THEN url.address \in {t.sender, t.assetSender}
                              ELSE t.receiver = url.address
    /\ url.greater # None => t.amount > url.greater
    /\ url.less # None => t.amount < url.less
    /\ url.prefix # None => t.note # None /\ IsPrefix(url.prefix, t.note)

Selected(t, url) ==
    /\ t.round \in url.min..url.max
    /\ Meets(t, url) \/ \E i \in DOMAIN t.tree : Meets(t.tree[i], url)

(* Positions of the transactions that remain to be returned. *)
Rest(q, view) ==
    {i \in DOMAIN chain : i > q.token /\ chain[i].round <= view /\ Selected(chain[i], q.url)}

OnPage(q, view) ==
    {i \in Rest(q, view) : Cardinality({j \in Rest(q, view) : j < i}) < PageLimit}

LastOf(positions) == CHOOSE i \in positions : \A j \in positions : j <= i

HonestItems(q, view) == {chain[i] : i \in OnPage(q, view)}

HonestNext(q, view) ==
    IF OnPage(q, view) = Rest(q, view) THEN None ELSE LastOf(OnPage(q, view))

(* A complete and readable body. *)
Body(items, view, next) ==
    [status |-> 200, refusal |-> FALSE, body |-> "whole", items |-> items,
     view |-> view, next |-> next]

HonestPage(q, view) == Body(HonestItems(q, view), view, HonestNext(q, view))

(* Searching the zero address as a sender is refused. *)
Refusal(seen) ==
    [Body({}, 0, None) EXCEPT !.status = 400, !.refusal = TRUE, !.body = seen]

Refused(url) == url.role = "sender" /\ url.address = Zero

-----------------------------------------------------------------------------
(***************************************************************************)
(* What the client believes.                                               *)
(***************************************************************************)

(* parseTransactionCommon and assertTransactionEnvelopeShape: fields are   *)
(* well formed, a transfer envelope belongs to an axfer and inner          *)
(* transactions to an application call.                                    *)
WellFormed(t) ==
    /\ t.fields
    /\ t.envelope => t.type = "axfer"
    /\ t.nested => t.type = "appl"

(* parseAssetTransferEnvelope: a close amount needs a destination. *)
Transfer(t) ==
    /\ t.type = "axfer" /\ t.envelope
    /\ t.close # "amount only"

Direct(t) == t.assetSender = None /\ t.close = "none"

(* Mutant: a sender's search believes only the transfers he signed. *)
SatisfiesSignedOnly(t, w) ==
    /\ t.asset = w.asset
    /\ t[Plan(w).role] = Plan(w).address
    /\ Plan(w).exact => t.amount = w.amount
    /\ Plan(w).notePrefix => t.note # None /\ IsPrefix(w.note, t.note)

(* satisfiesScanFilters, and what assertTopLevelScanFilters asserts. *)
Satisfies(t, w) ==
    /\ t.asset = w.asset
    /\ IF Plan(w).role = "sender" THEN Plan(w).address \in {t.sender, t.assetSender}
                                  ELSE t.receiver = Plan(w).address
    /\ Plan(w).exact => t.amount = w.amount
    /\ Plan(w).notePrefix => t.note # None /\ IsPrefix(w.note, t.note)

(* inspectInnerTransaction over the whole tree. *)
InnerEvidence(t, w, min, max) ==
    /\ t.nested
    /\ Len(t.tree) \in 1..MaxInner
    /\ \A i \in DOMAIN t.tree :
        /\ t.tree[i].depth <= MaxDepth
        /\ WellFormed(t.tree[i])
        /\ t.tree[i].round \in min..max
        /\ t.tree[i].type = "axfer" => Transfer(t.tree[i])
    /\ \E i \in DOMAIN t.tree : t.tree[i].type = "axfer" /\ Satisfies(t.tree[i], w)

(* Mutant: a top-level transfer outside the search is skipped, not refused. *)
BelievedIfParsed(t, w, min, max) ==
    /\ WellFormed(t)
    /\ t.round \in min..max
    /\ t.type = "axfer" => Transfer(t)
    /\ t.type # "axfer" => InnerEvidence(t, w, min, max)

(* parseWatchTransaction does not throw. *)
Believed(t, w, min, max) ==
    /\ WellFormed(t)
    /\ t.round \in min..max
    /\ t.type = "axfer" => Transfer(t) /\ Satisfies(t, w)
    /\ t.type # "axfer" => InnerEvidence(t, w, min, max)

(* It returns a transfer the poller may match. *)
Kept(t) == t.type = "axfer" /\ Direct(t)

(* matchesWatch *)
MatchesWatch(t, w) ==
    /\ t.round > w.activation
    /\ t.sender = w.sender /\ t.receiver = w.receiver
    /\ t.asset = w.asset /\ t.amount = w.amount
    /\ t.time < w.deadline
    /\ w.note # None => t.note = w.note

Failed(code, forWatch) ==
    [kind |-> "failed", code |-> code, permanent |-> forWatch, items |-> {},
     view |-> 0, next |-> None]

Answered(kind, items, view, next) ==
    [kind |-> kind, code |-> None, permanent |-> FALSE, items |-> items,
     view |-> view, next |-> next]

(* Mutant: the provider's words alone classify the failure. *)
ZeroSenderRefusedByBody(q, r) == r.status = 400 /\ r.refusal /\ r.body = "whole"

(* The one failure that concerns the watch and not the provider: the       *)
(* message was read in full and the query could have provoked it.          *)
ZeroSenderRefused(q, r) ==
    /\ r.status = 400 /\ r.refusal /\ r.body = "whole"
    /\ q.purpose = "scan-page"
    /\ q.url.address = Zero /\ q.url.role = "sender"

(* classifyIndexerHttpFailure, and of its permanent codes the one that     *)
(* classifyPollingFailure lets end a watch.                                *)
HttpFailure(q, r) ==
    IF ZeroSenderRefused(q, r) THEN Failed("zero_address_sender_unsupported", TRUE)
    ELSE IF r.status = 429 THEN Failed("rate_limited", FALSE)
    ELSE Failed("provider_error", FALSE)

(* What the parse callback of a request accepts. *)
Sought(t, id) == WellFormed(t) /\ Transfer(t) /\ Direct(t) /\ t.id = id

Acceptable(q, r) ==
    /\ q.purpose = "checkpoint" => r.view = q.min
    /\ q.purpose = "lookup" => \E t \in r.items : r.items = {t} /\ Sought(t, q.id)
    /\ q.purpose = "absence-proof" => \A t \in r.items : Sought(t, q.id)
    /\ q.purpose = "scan-page" =>
         /\ Cardinality(r.items) <= PageLimit
         /\ \A t \in r.items : Believed(t, q.watch, q.min, q.max)

(* ... and what it returns. *)
Parsed(q, r) ==
    IF ~Acceptable(q, r) THEN Failed("indexer_protocol_failure", FALSE)
    ELSE IF q.purpose \in {"health", "checkpoint"} THEN Answered("round", {}, r.view, None)
    ELSE IF q.purpose = "lookup" THEN Answered("transfer", r.items, r.view, None)
    ELSE IF q.purpose = "absence-proof" THEN Answered("page", r.items, r.view, r.next)
    ELSE Answered("page", {t \in r.items : Kept(t)}, r.view, r.next)

(* requestUrl: an HTTP failure is read by its diagnostic, an answer only   *)
(* when all of it fits and is valid.                                       *)
Outcome(q, r) ==
    IF r.status = 0 THEN Failed("indexer_timeout", FALSE)
    ELSE IF r.status = 404 /\ q.purpose = "lookup" THEN Answered("absent", {}, 0, None)
    ELSE IF r.status # 200 THEN HttpFailure(q, r)
    ELSE IF r.body # "whole" THEN Failed("indexer_protocol_failure", FALSE)
    ELSE Parsed(q, r)

-----------------------------------------------------------------------------
(***************************************************************************)
(* A conversation: the requests of one scan session, one lookup or search  *)
(* of the reconciler, one round, or one readiness probe.  The client keeps *)
(* nothing from one to the next, so one is followed.                       *)
(***************************************************************************)
NoProbe == [at |-> "idle", tip |-> 0, polling |-> FALSE, reconciliation |-> FALSE]

ClientInit ==
    /\ variant \in Variants
    /\ chain \in Chains
    /\ query = None
    /\ reply = None
    /\ result = None
    /\ matched = {}
    /\ honest = FALSE
    /\ probe = NoProbe

Fresh == query = None /\ probe.at = "idle"

Asking == query # None /\ result = None

Ask(q) ==
    /\ query' = q
    /\ reply' = None
    /\ result' = None
    /\ UNCHANGED settingVars

(* searchWatchPage of a new session. *)
StartScan ==
    /\ Fresh
    /\ \E w \in Watches, min, max \in 1..MaxRound :
        /\ w.activation < min /\ min <= max
        /\ Ask(Scan(w, min, max, 0))
    /\ honest' = TRUE
    /\ UNCHANGED <<matched, probe>>

(* ... and of its next page. *)
ContinueScan ==
    /\ probe.at = "idle" /\ ~Asking
    /\ query # None /\ query.purpose = "scan-page"
    /\ result.kind = "page" /\ result.next # None
    /\ Ask([query EXCEPT !.token = result.next])
    /\ UNCHANGED <<matched, honest, probe>>

(* lookupAssetTransfer and searchTransactionPage of the reconciler. *)
StartLookup ==
    /\ Fresh
    /\ \E purpose \in {"lookup", "absence-proof"}, i \in DOMAIN chain :
        Ask(Other(purpose, 0, chain[i].id))
    /\ UNCHANGED <<matched, honest, probe>>

(* getCurrentRound and getBlock. *)
StartRound ==
    /\ Fresh
    /\ \E purpose \in {"health", "checkpoint"}, round \in 1..MaxRound :
        Ask(Other(purpose, round, None))
    /\ UNCHANGED <<matched, honest, probe>>

(* Answers from some provider, from a proxy before it, or from nobody. *)
SomeReplies ==
    {[Body({}, 0, None) EXCEPT !.status = status] : status \in {0, 401, 403, 404, 422, 429, 500}}
        \cup {Refusal(seen) : seen \in {"whole", "partly"}}
        \cup {[Body({}, 0, None) EXCEPT !.body = "partly"]}
        \cup {Body(items, view, None) : items \in Pages, view \in 0..MaxRound}

HonestReplies ==
    IF query.purpose # "scan-page" THEN {}
    ELSE IF Refused(query.url) THEN {Refusal("whole")}
    ELSE {HonestPage(query, view) : view \in 0..MaxRound}

Receive(r) ==
    /\ reply' = r
    /\ result' = Outcome(query, r)
    /\ matched' = IF query.purpose = "scan-page" /\ probe.at = "idle"
                  THEN matched \cup {t \in result'.items : MatchesWatch(t, query.watch)}
                  ELSE matched
    /\ honest' = (honest /\ (query.purpose = "scan-page" =>
                    r \in HonestReplies /\ r.view >= query.max))
    /\ UNCHANGED <<settingVars, query, probe>>

Receives == Asking /\ \E r \in SomeReplies \cup HonestReplies : Receive(r)

(* probeReadinessCapabilities: five requests one after another.  Without a *)
(* tip both capabilities are denied; the two halves fail on their own.     *)
ProbeStart ==
    /\ Fresh
    /\ probe' = [NoProbe EXCEPT !.at = "tip"]
    /\ Ask(Other("health", 0, None))
    /\ UNCHANGED <<matched, honest>>

ProbeGoesOn(at, q) ==
    /\ probe' = [probe EXCEPT !.at = at]
    /\ Ask(q)

ProbeTip ==
    /\ probe.at = "tip" /\ ~Asking
    /\ \/ /\ result.kind = "round"
          /\ probe' = [probe EXCEPT !.at = "scan", !.tip = result.view]
          /\ Ask(Scan(ProbeWatch, result.view, result.view, 0))
       \/ /\ result.kind # "round"
          /\ probe' = [probe EXCEPT !.at = "idle"]
          /\ UNCHANGED <<settingVars, query, reply, result>>
    /\ UNCHANGED <<matched, honest>>

ProbeScan ==
    /\ probe.at = "scan" /\ ~Asking
    /\ \/ /\ result.kind = "page" /\ result.view >= probe.tip
          /\ ProbeGoesOn("block", Other("checkpoint", probe.tip, None))
       \/ /\ ~(result.kind = "page" /\ result.view >= probe.tip)
          /\ ProbeGoesOn("lookup", Other("lookup", 0, ProbeId))
    /\ UNCHANGED <<matched, honest>>

ProbeBlock ==
    /\ probe.at = "block" /\ ~Asking
    /\ probe' = [probe EXCEPT !.at = "lookup", !.polling = (result.kind = "round")]
    /\ Ask(Other("lookup", 0, ProbeId))
    /\ UNCHANGED <<matched, honest>>

ProbeLookup ==
    /\ probe.at = "lookup" /\ ~Asking
    /\ \/ /\ result.kind \in {"transfer", "absent"}
          /\ ProbeGoesOn("search", Other("absence-proof", 0, ProbeId))
       \/ /\ result.kind \notin {"transfer", "absent"}
          /\ probe' = [probe EXCEPT !.at = "idle"]
          /\ UNCHANGED <<settingVars, query, reply, result>>
    /\ UNCHANGED <<matched, honest>>

ProbeSearch ==
    /\ probe.at = "search" /\ ~Asking
    /\ probe' = [probe EXCEPT !.at = "idle",
                    !.reconciliation = (result.kind = "page" /\ result.view >= probe.tip)]
    /\ UNCHANGED <<settingVars, query, reply, result, matched, honest>>

ClientNext ==
    \/ StartScan
    \/ ContinueScan
    \/ StartLookup
    \/ StartRound
    \/ Receives
    \/ ProbeStart
    \/ ProbeTip
    \/ ProbeScan
    \/ ProbeBlock
    \/ ProbeLookup
    \/ ProbeSearch

ClientSpec == ClientInit /\ [][ClientNext]_clientVars

-----------------------------------------------------------------------------
(***************************************************************************)
(* Properties.                                                             *)
(***************************************************************************)

(* What the buyer was promised a watch finds: a direct transfer on its     *)
(* terms, confirmed after the activation and before the deadline.          *)
Due(t, w) ==
    /\ t.type = "axfer" /\ t.assetSender = None /\ t.close = "none"
    /\ <<t.sender, t.receiver, t.asset, t.amount>> = <<w.sender, w.receiver, w.asset, w.amount>>
    /\ w.note \in {None, t.note}
    /\ t.round > w.activation /\ t.time < w.deadline

(* The last request was a page of a watch's scan, and it was accepted. *)
PageAccepted == query # None /\ query.purpose = "scan-page" /\ result # None /\ result.kind = "page"

(* A page answered honestly is never refused, whatever else its sender or  *)
(* receiver did: clawbacks, close-outs and application calls included.     *)
HonestPagesAreAccepted ==
    query # None /\ reply # None /\ query.purpose = "scan-page" =>
        \A view \in 0..MaxRound :
            ~Refused(query.url) /\ reply = HonestPage(query, view) => result.kind = "page"

(* Whichever query variant is configured and however the pages split, a    *)
(* scan that was answered honestly finds every transfer due.               *)
NothingDueIsLost ==
    PageAccepted /\ probe.at = "idle" /\ honest /\ result.next = None =>
        \A i \in DOMAIN chain :
            chain[i].round \in query.min..query.max /\ Due(chain[i], query.watch)
                => chain[i] \in matched

(* Whatever the provider says, an accepted page holds only what the query  *)
(* selects and nothing due on it is dropped: evidence that contradicts the *)
(* query fails the page instead of being skipped.                          *)
OnlyEvidenceIsUsed ==
    PageAccepted =>
        /\ \A t \in reply.items : Selected(t, query.url)
        /\ \A t \in reply.items : Due(t, query.watch) => t \in result.items
        /\ \A t \in result.items : MatchesWatch(t, query.watch) => Due(t, query.watch)

(* No answer ends a watch unless its own search named the zero address as  *)
(* the sender.                                                             *)
RefusalConcernsTheWatch ==
    result # None /\ result.permanent =>
        query.purpose = "scan-page" /\ variant # "D" /\ query.watch.sender = Zero

=============================================================================
