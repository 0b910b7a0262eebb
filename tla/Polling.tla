------------------------------ MODULE Polling ------------------------------
(***************************************************************************)
(* The poller (roundwatch-poller.ts): bounded, resumable scans of the      *)
(* chain for each active watch, through replicas that may lag, and the     *)
(* finalization checkpoint that lets a watch expire.                       *)
(*                                                                         *)
(* An action is the code between two awaits of serviceWatch:               *)
(*   claim                        -> "checkpoint", "tip", "page" or done   *)
(*   checkpoint tip               -> "block"                               *)
(*   checkpoint block             -> "tip", "page" or done                 *)
(*   sweep tip (shared by a sweep)-> "page" or done                        *)
(*   page                         -> done                                  *)
(* The turns of a sweep run one after another, here in any order (the code *)
(* rotates the first one).                                                 *)
(***************************************************************************)
EXTENDS ServerProcess, FiniteSetsExt

CONSTANT RoundWindow   \* most rounds one scan session covers

ASSUME PollingAssumption == RoundWindow \in Nat \ {0}

VARIABLES
    poll,     \* the current sweep and turn (process memory)
    scans,    \* sessions: resumable scan of each watch (process memory)
    pages     \* the cached historical pages (process memory)

pollingVars == <<poll, scans, pages>>

IdlePoller == [pc |-> "idle", todo |-> <<>>, watch |-> None, row |-> NoRow,
               checkpoint |-> None, tip |-> None, tipFailed |-> FALSE]

NoScans == [w \in Watches |-> None]

PollingInit ==
    /\ poll = IdlePoller
    /\ scans = NoScans
    /\ pages = {}

(* listPollingCandidates *)
PollingCandidates == {w \in Watches : db[w].state = "active" /\ ~db[w].pollWaiting}

ScanCompatible(row, scan) ==
    /\ row.state = "active"
    /\ row.proof
    /\ row.scanAfter + 1 = scan.min
    /\ row.closing = None \/ scan.max <= row.closing

(* pruneScanSessions *)
PrunedScans ==
    [w \in Watches |-> IF scans[w] # None /\ ~ScanCompatible(db[w], scans[w])
                       THEN None ELSE scans[w]]

(* runPollingSweep takes one snapshot of the due rows for all its turns. *)
StartPollSweep ==
    /\ poll.pc = "idle"
    /\ PollingCandidates # {}
    /\ poll' = [IdlePoller EXCEPT !.pc = "sweep",
                                  !.todo = [w \in PollingCandidates |-> db[w]]]
    /\ scans' = PrunedScans
    /\ UNCHANGED <<db, pages, ledgerVars>>

EndPollSweep ==
    /\ poll.pc = "sweep"
    /\ DOMAIN poll.todo = {}
    /\ poll' = IdlePoller
    /\ scans' = PrunedScans
    /\ UNCHANGED <<db, pages, ledgerVars>>

PollTurnOver(p) == [p EXCEPT !.pc = "sweep", !.watch = None, !.row = NoRow, !.checkpoint = None]

DropScan(w) == [scans EXCEPT ![w] = None]

Closed(row) == row.closing # None /\ row.scanAfter >= row.closing

(* serviceWatch after the checkpoint: finalize a fully scanned watch, else *)
(* continue its session or ask for a tip to open a new one.  d is the      *)
(* table so far, row the turn's copy of the watch.                         *)
ScanOrFinalize(d, p, w, row) ==
    \/ /\ Closed(row)
       /\ db' = MarkExpired(d, w, row.scanAfter, row.closing)
       /\ poll' = PollTurnOver(p)
       /\ UNCHANGED scans
    \/ /\ ~Closed(row)
       /\ db' = d
       /\ IF scans[w] # None /\ ScanCompatible(row, scans[w])
          THEN /\ poll' = [p EXCEPT !.pc = "page", !.watch = w, !.row = row]
               /\ UNCHANGED scans
          ELSE /\ poll' = [p EXCEPT !.pc = "tip", !.watch = w, !.row = row]
               /\ scans' = DropScan(w)

(* serviceWatch up to its first await.  The claim fails, charging nothing, *)
(* when the row no longer is what the sweep's snapshot says.               *)
PollClaim(w) ==
    LET row      == poll.todo[w]
        eligible == PollingEligible(db[w], row.scanAfter, row.closing, row.failures)
        outcome  == ClaimOutcome(db[w], eligible)
        next     == [poll EXCEPT !.todo = [v \in DOMAIN @ \ {w} |-> @[v]]]
    IN  /\ poll.pc = "sweep"
        /\ w \in DOMAIN poll.todo
        /\ \/ /\ outcome = "claimed" /\ row.closing = None /\ now >= row.expiresAt
              /\ db' = ClaimWorkUnit(db, w, eligible)
              /\ poll' = [next EXCEPT !.pc = "checkpoint", !.watch = w, !.row = row]
              /\ UNCHANGED scans
           \/ /\ outcome = "claimed" /\ ~(row.closing = None /\ now >= row.expiresAt)
              /\ ScanOrFinalize(ClaimWorkUnit(db, w, eligible), next, w, row)
           \/ /\ outcome = "exhausted"
              /\ db' = ClaimWorkUnit(db, w, eligible)
              /\ poll' = next
              /\ scans' = DropScan(w)
           \/ /\ outcome = "inactive"
              /\ poll' = next
              /\ scans' = IF scans[w] # None /\ ~ScanCompatible(db[w], scans[w])
                          THEN DropScan(w) ELSE scans
              /\ UNCHANGED db
        /\ UNCHANGED <<pages, ledgerVars>>

(* The catch of runPollingSweep.  Only a scan page can fail permanently:   *)
(* the provider refuses the query of this very watch.                      *)
PollFailure(permanent) ==
    /\ db' = RecordPollingFailure(db, poll.watch, permanent)
    /\ poll' = PollTurnOver(poll)
    /\ scans' = DropScan(poll.watch)
    /\ pages' = {}
    /\ UNCHANGED ledgerVars

PollError ==
    \/ poll.pc \in {"checkpoint", "block", "page"} /\ PollFailure(FALSE)
    \/ poll.pc = "page" /\ PollFailure(TRUE)

(* The shared tip request fails, for every turn of the sweep that needs it. *)
SweepTipError ==
    /\ poll.pc = "tip"
    /\ poll.tip = None
    /\ db' = RecordPollingFailure(db, poll.watch, FALSE)
    /\ poll' = [PollTurnOver(poll) EXCEPT !.tipFailed = TRUE]
    /\ scans' = DropScan(poll.watch)
    /\ pages' = {}
    /\ UNCHANGED ledgerVars

CheckpointTip ==
    /\ poll.pc = "checkpoint"
    /\ \E view \in Views :
        poll' = [poll EXCEPT !.pc = "block", !.checkpoint = view]
    /\ UNCHANGED <<db, scans, pages, ledgerVars>>

(* Mutant: the server's clock stands in for the block's timestamp. *)
PastDeadlineByClock(row, r) == now >= row.expiresAt

PastDeadlineAt(row, r) == blocks[r].time * MsPerSecond >= row.expiresAt

(* The header of the reported tip: the first one seen at or past the       *)
(* deadline fixes the closing round.                                       *)
CheckpointBlock ==
    /\ poll.pc = "block"
    /\ poll.checkpoint \in DOMAIN blocks
    /\ LET w == poll.watch
           d == IF PastDeadlineAt(poll.row, poll.checkpoint)
                THEN SetClosingRound(db, w, poll.checkpoint) ELSE db
       IN  ScanOrFinalize(d, poll, w, d[w])
    /\ UNCHANGED <<pages, ledgerVars>>

(* The window of a new session. *)
ScanMax(row, tip) ==
    Min({row.scanAfter + RoundWindow, tip} \cup ({row.closing} \ {None}))

SweepTip ==
    /\ poll.pc = "tip"
    /\ ~poll.tipFailed
    /\ \E tip \in IF poll.tip = None THEN Views ELSE {poll.tip} :
        LET max == ScanMax(poll.row, tip)
        IN  \/ /\ max <= poll.row.scanAfter
               /\ poll' = [PollTurnOver(poll) EXCEPT !.tip = tip]
               /\ UNCHANGED scans
            \/ /\ max > poll.row.scanAfter
               /\ poll' = [poll EXCEPT !.pc = "page", !.tip = tip]
               /\ scans' = [scans EXCEPT ![poll.watch] =
                    [min |-> poll.row.scanAfter + 1, max |-> max, token |-> {}, seen |-> {}]]
    /\ UNCHANGED <<db, pages, ledgerVars>>

(* The rounds of the window that a replica with this view knows and that   *)
(* no page of the session has covered.                                     *)
Remaining(scan, view) == {r \in scan.min..scan.max : r <= view} \ scan.token

(* A page covers some of these, in the provider's own order: the client    *)
(* asks for none and tests none.  Its continuation, which the poller only  *)
(* compares, stands for the rounds covered so far.  The last page has none;*)
(* a stalled provider repeats one that it has given, and gets no further.  *)
PageAnswers(scan, view) ==
    LET rest == Remaining(scan, view)
    IN  {[items |-> rest, more |-> FALSE, next |-> {}]}
        \cup {[items |-> i, more |-> TRUE, next |-> scan.token \cup i] : i \in (SUBSET rest) \ {{}}}
        \cup [items : SUBSET rest, more : {TRUE}, next : scan.seen \cap SUBSET scan.token]

(* Mutant: a replica one round short of the window is believed. *)
CoversAllButOne(scan, view) == view + 1 >= scan.max

(* The replica knew the whole window when it answered. *)
Covers(scan, view) == view >= scan.max

(* Mutant: the block's timestamp is not compared with the deadline. *)
MatchesIgnoringDeadline(row, items) == {r \in items : blocks[r].pays = row.spec}

(* The transfers of a page that matchesWatch accepts; find takes the one   *)
(* that the provider happens to list first.                                *)
Matches(row, items) == {r \in items : Eligible(row, r)}

(* Mutant: the first page of a window is taken for all of it. *)
OnlyPage(page) == TRUE

(* No continuation: the window has been answered. *)
LastOf(page) == ~page.more

(* cacheHistoricalPage: one page for each query. *)
Remember(scan, page) ==
    {p \in pages : <<p.min, p.max, p.token>> # <<scan.min, scan.max, scan.token>>}
    \cup {[min |-> scan.min, max |-> scan.max, token |-> scan.token,
           items |-> page.items, more |-> page.more, next |-> page.next]}

(* What a turn does with a page; the coverage test precedes any use of its *)
(* contents.  fresh is FALSE for a page out of the cache, which says       *)
(* nothing of the provider and so does not clear the failure record.       *)
ApplyPage(scan, view, page, fresh) ==
    LET w        == poll.watch
        row      == poll.row
        match    == Matches(row, page.items)
        repeated == page.next = scan.token \/ page.next \in scan.seen
        unmatched == Covers(scan, view) /\ match = {}
        Provider(d) == IF fresh THEN ClearPollingFailure(d, w) ELSE d
        advanced == AdvanceScanRound(db, w, row.scanAfter, scan.max)
        closing  == advanced[w].closing
        Answered == /\ poll' = PollTurnOver(poll)
                    /\ pages' = Remember(scan, page)
                    /\ UNCHANGED ledgerVars
    IN  \/ /\ ~Covers(scan, view) \/ (unmatched /\ ~LastOf(page) /\ repeated)
           /\ PollFailure(FALSE)
        \/ /\ Covers(scan, view)
           /\ \E r \in match : db' = MarkMatched(db, w, r)
           /\ scans' = DropScan(w)
           /\ Answered
        \/ /\ unmatched /\ ~LastOf(page) /\ ~repeated
           /\ db' = Provider(db)
           /\ scans' = [scans EXCEPT ![w].token = page.next, ![w].seen = @ \cup {page.next}]
           /\ Answered
        \/ /\ unmatched /\ LastOf(page) /\ CanAdvance(db[w], row.scanAfter, scan.max)
           /\ db' = ClearPollingFailure(
                        IF closing = scan.max THEN MarkExpired(advanced, w, scan.max, closing)
                        ELSE advanced, w)
           /\ scans' = DropScan(w)
           /\ Answered
        \/ /\ unmatched /\ LastOf(page) /\ ~CanAdvance(db[w], row.scanAfter, scan.max)
           /\ db' = Provider(db)
           /\ scans' = DropScan(w)
           /\ Answered

(* A page from some replica; the cache keeps it once its coverage is complete. *)
FetchPage ==
    /\ poll.pc = "page"
    /\ \E view \in Views :
        \E page \in PageAnswers(scans[poll.watch], view) :
            ApplyPage(scans[poll.watch], view, page, TRUE)

(* A historical page out of the cache (which may also have evicted it). *)
CachedPage ==
    /\ poll.pc = "page"
    /\ LET scan == scans[poll.watch]
       IN  \E page \in pages :
            /\ <<page.min, page.max, page.token>> = <<scan.min, scan.max, scan.token>>
            /\ ApplyPage(scan, scan.max, page, FALSE)

(* The clock passes polling_retry_at. *)
PollDue(w) ==
    /\ db[w].pollWaiting
    /\ db' = PollRetryDue(db, w)
    /\ UNCHANGED <<pollingVars, ledgerVars>>

PollerStep ==
    \/ StartPollSweep
    \/ EndPollSweep
    \/ \E w \in Watches : PollClaim(w)
    \/ CheckpointTip
    \/ CheckpointBlock
    \/ SweepTip
    \/ FetchPage
    \/ CachedPage
    \/ PollError
    \/ SweepTipError

PollerNext ==
    \/ PollerStep
    \/ \E w \in Watches : PollDue(w)

LosePollingMemory ==
    /\ poll' = IdlePoller
    /\ scans' = NoScans
    /\ pages' = {}

-----------------------------------------------------------------------------
(***************************************************************************)
(* The polling half of the service on its own: some watches were paid and  *)
(* activated in round 1, within the admission caps, the others never sold. *)
(***************************************************************************)
Injections(S, T) == {f \in [S -> T] : \A v, w \in S : f[v] = f[w] => v = w}

SoldRow(spec, tx, key) ==
    [NoRow EXCEPT !.state = "active", !.key = key, !.spec = spec,
                  !.tx = tx, !.payer = PayerOf[tx], !.proof = TRUE, !.expiresAt = TTL,
                  !.serviceTx = tx, !.servicePayer = PayerOf[tx],
                  !.activationRound = 1, !.scanAfter = 1]

PollingStart ==
    /\ blocks = <<[time |-> 0, pays |-> None]>>
    /\ submitted = Txs
    /\ landed = [t \in Txs |-> 1]
    /\ now = 0
    /\ crashes = 0
    /\ \E sold \in (SUBSET Watches) \ {{}}, spec \in [Watches -> Specs],
          tx \in Injections(Watches, Txs), key \in Injections(Watches, Keys) :
        /\ \A w \in sold : Paid(tx[w])
        /\ Cardinality(sold) <= MaxOpenWatches
        /\ \A p \in Payers :
             Cardinality({w \in sold : PayerOf[tx[w]] = p}) <= MaxOpenWatchesPerPayer
        /\ db = [w \in Watches |-> IF w \in sold THEN SoldRow(spec[w], tx[w], key[w]) ELSE NoRow]
    /\ PollingInit

pollingSpecVars == <<db, pollingVars, ledgerVars, crashes>>

PollingCrash ==
    /\ ProcessDies
    /\ LosePollingMemory

PollingNext ==
    \/ PollerNext /\ UNCHANGED crashes
    \/ (NewBlock \/ ClockTick) /\ UNCHANGED <<db, pollingVars, crashes>>
    \/ PollingCrash

PollingSpec == PollingStart /\ [][PollingNext]_pollingSpecVars

-----------------------------------------------------------------------------
(***************************************************************************)
(* Properties.                                                             *)
(***************************************************************************)

(* Watches that some transfer of the chain satisfies within its window. *)
Satisfied(row) == \E r \in DOMAIN blocks : Eligible(row, r)

(* A watch expires only when no transfer satisfied it: the closing round   *)
(* and the coverage tests leave no unscanned eligible round, however the   *)
(* replicas lag, pages split or the process restarts.                      *)
NoFalseExpiry ==
    \A w \in Watches : db[w].state = "expired" => ~Satisfied(db[w])

(* A matched watch names a round whose transfer satisfies it.  In whatever *)
(* order pages list transfers it need not be the first, but none precedes  *)
(* it by a whole window: earlier windows held nothing for the watch.       *)
MatchIsInFirstWindow ==
    \A w \in Watches :
        db[w].state = "matched" =>
            /\ Eligible(db[w], db[w].matchedRound)
            /\ \A r \in DOMAIN blocks :
                 Eligible(db[w], r) => db[w].matchedRound < r + RoundWindow

=============================================================================
