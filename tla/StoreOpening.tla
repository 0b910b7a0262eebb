---------------------------- MODULE StoreOpening ----------------------------
(***************************************************************************)
(* How the watch database is opened (the RoundWatchStore constructor), and *)
(* who else writes to it.  The file may be new or be left by an older      *)
(* version; a server brings it up to date by statements that each commit   *)
(* on their own, may die after any of them, and starts over when it comes  *)
(* back.  Only then do the callers of StoreCallers work on the table.  The *)
(* refund recorder is a second process on the same file, at any time.      *)
(***************************************************************************)
EXTENDS StoreCallers

CONSTANTS
    Recorders,     \* processes of record-refund.ts
    RefundTxs,     \* transaction ids of refunds
    Terms,         \* the rest of a refund's evidence: network, amount, reason
    MaxOpenings    \* bound on the openings of the store

ASSUME OpeningAssumption ==
    /\ MaxOpenings \in Nat
    /\ None \notin Terms
    /\ MaxOpenWatches > 0 /\ MaxOpenWatchesPerPayer > 0 /\ Specs # {}

(* The columns in the order ensureColumn adds them, in groups: the signed *)
(* intent, the terminal flag, the evidence, the backoff, the work units,  *)
(* the polling failures.                                                  *)
ColumnGroups == 6
HasEvidence  == 4      \* groups of a version with evidence but no budgets

VARIABLES
    schema,    \* what the file's schema is
    budget,    \* work_unit_budget of each row
    server,    \* where the server's constructor is, or "serving", or "down"
    openings,
    refunds,   \* roundwatch_refunds, by transaction
    recorder   \* each recorder's call

openingVars == <<schema, budget, server, openings, refunds, recorder>>

NoCall == [at |-> "idle", watch |-> None, tx |-> None, terms |-> None]

(* refunds: the table the foreign key of roundwatch_refunds refers to. *)
NoFile  == [exists |-> FALSE, columns |-> 0, current |-> FALSE, indexes |-> {}, open |-> "none", refunds |-> "none"]
Created == [NoFile EXCEPT !.exists = TRUE, !.columns = ColumnGroups, !.current = TRUE]

-----------------------------------------------------------------------------
(***************************************************************************)
(* What older versions left.  Their keys were unique in the whole table;   *)
(* rows without evidence have neither payer nor intent.                    *)
(***************************************************************************)
Pending(row) == [row EXCEPT !.state = "settlement_pending"]

Unknown(row, terminal) == [row EXCEPT !.state = "settlement_unknown", !.terminal = terminal]

Settled(row, t, round) ==
    [row EXCEPT !.state = "active", !.serviceTx = t, !.servicePayer = PayerOf[t],
                !.activationRound = round, !.scanAfter = round]

Matched(row, t, round) ==
    [Settled(row, t, round) EXCEPT !.state = "matched", !.matchedRound = round]

Unproven(k) == [NoRow EXCEPT !.key = k, !.spec = CHOOSE s \in Specs : TRUE]

Proven(k, t) == [Unproven(k) EXCEPT !.tx = t, !.payer = PayerOf[t], !.proof = TRUE]

UnprovenRows(k) ==
    {Pending(Unproven(k)), Unknown(Unproven(k), FALSE)}
    \cup (UNION {{Settled(Unproven(k), t, round) : round \in Rounds}
                   \cup {Matched(Unproven(k), t, round) : round \in Rounds} : t \in Txs})

ProvenRows(k) ==
    UNION {{Pending(Proven(k, t)), Unknown(Proven(k, t), TRUE)}
             \cup {Settled(Proven(k, t), t, round) : round \in Rounds} : t \in Txs}

(* One row of each kind; its callers admit the others once the store serves. *)
LegacyRows(columns) ==
    UNION {UnprovenRows(k) \cup (IF columns >= HasEvidence THEN ProvenRows(k) ELSE {}) : k \in Keys}

OpeningInit ==
    /\ \/ schema = NoFile /\ CallersInit
       \/ /\ schema \in {[NoFile EXCEPT !.exists = TRUE, !.columns = c, !.open = i] :
                            c \in {0, HasEvidence}, i \in {"none", "broad"}}
          /\ \E w \in Watches, row \in LegacyRows(schema.columns) :
               db = [EmptyTable EXCEPT ![w] = row]
    /\ budget = [w \in Watches |-> None]
    /\ server = "down"
    /\ openings = 0
    /\ refunds = [x \in RefundTxs |-> None]
    /\ recorder = [r \in Recorders |-> NoCall]

-----------------------------------------------------------------------------
(***************************************************************************)
(* The constructor, one committed statement at a time.                     *)
(***************************************************************************)

(* Mutant: the audit table is created with the others, before the rebuild. *)
OpenFileWithAuditTable ==
    /\ server = "down" /\ openings < MaxOpenings
    /\ openings' = openings + 1
    /\ schema' = [IF schema.exists THEN schema ELSE Created
                    EXCEPT !.refunds = IF @ = "none" THEN "watches" ELSE @]
    /\ server' = "columns"
    /\ UNCHANGED <<db, budget, refunds, recorder>>

(* createWatchTable: a new file gets the current table at once. *)
OpenFile ==
    /\ server = "down" /\ openings < MaxOpenings
    /\ openings' = openings + 1
    /\ schema' = IF schema.exists THEN schema ELSE Created
    /\ server' = "columns"
    /\ UNCHANGED <<db, budget, refunds, recorder>>

(* ensureColumn: the rows of an older table read the column's default. *)
EnsureColumn ==
    /\ server = "columns"
    /\ IF schema.columns < ColumnGroups
       THEN schema' = [schema EXCEPT !.columns = @ + 1] /\ UNCHANGED server
       ELSE server' = "constraint" /\ UNCHANGED schema
    /\ UNCHANGED <<db, budget, openings, refunds, recorder>>

(* Mutant: a column is missing from the copy's list. *)
CopiedWithoutEvidence(d) == [w \in Watches |-> [d[w] EXCEPT !.proof = FALSE]]

Copied(d) == d

(* ensureWatchStateConstraint: one transaction renames the old table, which *)
(* takes its indexes and any foreign key that refers to it along, copies    *)
(* the rows and drops it; rows that refer to it keep it from being dropped. *)
EnsureWatchStateConstraint ==
    /\ server = "constraint"
    /\ \/ schema.current /\ server' = "refunds" /\ UNCHANGED <<db, schema>>
       \/ /\ ~schema.current
          /\ IF schema.refunds # "none" /\ \E x \in RefundTxs : refunds[x] # None
             THEN server' = "down" /\ UNCHANGED <<db, schema>>
             ELSE /\ db' = Copied(db)
                  /\ schema' = [schema EXCEPT !.current = TRUE, !.indexes = {}, !.open = "none",
                                              !.refunds = IF @ = "none" THEN @ ELSE "legacy"]
                  /\ server' = "refunds"
    /\ UNCHANGED <<budget, openings, refunds, recorder>>

CreateRefundAuditTable ==
    /\ server = "refunds"
    /\ schema' = [schema EXCEPT !.refunds = IF @ = "none" THEN "watches" ELSE @]
    /\ server' = "indexes"
    /\ UNCHANGED <<db, budget, openings, refunds, recorder>>

(* The two unique indexes; neither can be built over duplicates. *)
UniqueIndexes == {"scope", "payment"}

Indexable(index) ==
    \A v, w \in Watches :
        v # w /\ db[v].state # "absent" /\ db[w].state # "absent" =>
            CASE index = "scope"   -> <<db[v].payer, db[v].key>> # <<db[w].payer, db[w].key>>
              [] index = "payment" -> db[v].tx # None => db[v].tx # db[w].tx

CreateUniqueIndex ==
    /\ server = "indexes"
    /\ \E index \in UniqueIndexes \ schema.indexes :
        /\ index = "payment" => "scope" \in schema.indexes
        /\ IF Indexable(index)
           THEN schema' = [schema EXCEPT !.indexes = @ \cup {index}] /\ UNCHANGED server
           ELSE server' = "down" /\ UNCHANGED schema
    /\ UNCHANGED <<db, budget, openings, refunds, recorder>>

(* An index of that name is kept as it is; hasOpenObligationPartialIndex   *)
(* then compares its predicate with OPEN_OBLIGATION_PREDICATE.             *)
CreateOpenIndex ==
    /\ server = "indexes"
    /\ UniqueIndexes \subseteq schema.indexes
    /\ schema' = [schema EXCEPT !.open = IF @ = "none" THEN "partial" ELSE @]
    /\ server' = IF schema'.open = "partial" THEN "repair" ELSE "down"
    /\ UNCHANGED <<db, budget, openings, refunds, recorder>>

(* Mutant: a payment whose fate is unknown is not thought to be owed work. *)
RepairedForKnown ==
    [w \in Watches |-> IF db[w].state \in {"settlement_pending", "active"}
                       THEN Coalesce(budget[w], WorkUnitBudget) ELSE budget[w]]

(* The rows the repair touches: open ones, and only where there is no budget. *)
Repaired ==
    [w \in Watches |-> IF Open(db[w]) THEN Coalesce(budget[w], WorkUnitBudget) ELSE budget[w]]

RepairBudgets ==
    /\ server = "repair"
    /\ budget' = Repaired
    /\ server' = "serving"
    /\ UNCHANGED <<db, schema, openings, refunds, recorder>>

(* store.close(), or the process dies between two statements. *)
ServerStops ==
    /\ server # "down"
    /\ server' = "down"
    /\ UNCHANGED <<db, schema, budget, openings, refunds, recorder>>

(* The service's calls; prepareWatch grants the configured budget.  A row   *)
(* without a budget would answer every claim "inactive"; EveryOpenRowIsPaid *)
(* says that none of the open rows is one.                                  *)
Serve ==
    /\ server = "serving"
    /\ CallersNext
    /\ budget' = [w \in Watches |->
                    IF db[w].state = "absent" /\ db'[w].state # "absent"
                    THEN WorkUnitBudget ELSE budget[w]]
    /\ UNCHANGED <<schema, server, openings, refunds, recorder>>

-----------------------------------------------------------------------------
(***************************************************************************)
(* record-refund.ts on the same file: assertExistingRefundAuditSchema on a *)
(* read-only connection, then recordRefundEvidence, whose lookup and       *)
(* insert are two statements.                                              *)
(***************************************************************************)
AuditSchemaValid == schema.columns = ColumnGroups /\ schema.refunds = "watches"

OpenForAudit(r) ==
    /\ recorder[r].at = "idle"
    /\ AuditSchemaValid
    /\ \E w \in Watches, x \in RefundTxs, terms \in Terms :
         recorder' = [recorder EXCEPT ![r] =
                        [at |-> "lookup", watch |-> w, tx |-> x, terms |-> terms]]
    /\ UNCHANGED <<db, schema, budget, server, openings, refunds>>

(* A missing watch throws; recorded evidence is returned, or throws if it differs. *)
LookUpRefund(r) ==
    /\ recorder[r].at = "lookup"
    /\ recorder' = [recorder EXCEPT ![r] =
                      IF db[@.watch].state = "absent" \/ refunds[@.tx] # None
                      THEN NoCall ELSE [@ EXCEPT !.at = "insert"]]
    /\ UNCHANGED <<db, schema, budget, server, openings, refunds>>

Evidence(call) == [watch |-> call.watch, terms |-> call.terms]

(* Mutant: the insert replaces what the transaction was bound to. *)
InsertOrReplaceRefund(r) ==
    /\ recorder[r].at = "insert"
    /\ refunds' = [refunds EXCEPT ![recorder[r].tx] = Evidence(recorder[r])]
    /\ recorder' = [recorder EXCEPT ![r] = NoCall]
    /\ UNCHANGED <<db, schema, budget, server, openings>>

(* The insert throws on a transaction that was bound meanwhile (UNIQUE), *)
(* and when the foreign key's table is gone.                             *)
InsertRefund(r) ==
    /\ recorder[r].at = "insert"
    /\ refunds' = IF schema.refunds = "watches"
                  THEN [refunds EXCEPT ![recorder[r].tx] = Coalesce(@, Evidence(recorder[r]))]
                  ELSE refunds
    /\ recorder' = [recorder EXCEPT ![r] = NoCall]
    /\ UNCHANGED <<db, schema, budget, server, openings>>

OpeningNext ==
    \/ OpenFile
    \/ EnsureColumn
    \/ EnsureWatchStateConstraint
    \/ CreateRefundAuditTable
    \/ CreateUniqueIndex
    \/ CreateOpenIndex
    \/ RepairBudgets
    \/ ServerStops
    \/ Serve
    \/ \E r \in Recorders : OpenForAudit(r) \/ LookUpRefund(r) \/ InsertRefund(r)

OpeningSpec == OpeningInit /\ [][OpeningNext]_<<db, openingVars>>

-----------------------------------------------------------------------------
(* While the store serves, every row it still owes work has a budget, so no *)
(* open watch is passed over for ever, however often the opening was cut    *)
(* short and although rows without one stay in the table (the repair in the *)
(* constructor, claimWorkUnit's work_unit_budget IS NOT NULL).              *)
EveryOpenRowIsPaid ==
    server = "serving" =>
        \A w \in Watches :
            /\ Open(db[w]) => budget[w] # None
            /\ budget[w] # None => db[w].used <= budget[w]

(* The audit trail never loses its table: the foreign key of the refunds    *)
(* refers to the table of watches, and each refund to one of its rows, for  *)
(* every order of old files, crashes and recorders (the order the           *)
(* constructor's comment asks for).                                         *)
RefundsStayLinked ==
    /\ schema.refunds \in {"none", "watches"}
    /\ \A x \in RefundTxs : refunds[x] # None => db[refunds[x].watch].state # "absent"

(* A refund transaction stays bound to the evidence first recorded for it,  *)
(* also when two recorders look before either inserts, and a budget once    *)
(* granted stays through every restart.                                     *)
RecordsStand ==
    [][/\ \A x \in RefundTxs : refunds[x] # None => refunds'[x] = refunds[x]
       /\ \A w \in Watches : budget[w] # None => budget'[w] = budget[w]
      ]_<<refunds, budget>>

=============================================================================
