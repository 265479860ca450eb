# TLA+ models and proofs for the GIF MCP server

GIF is a governance layer between an AI client and PostgreSQL: an MCP server
(`src/mcp-server`) that lets a tool call through only under a valid *persona*
and inside a *session*, and a schema (`src/schema`) whose triggers keep a
tamper-evident audit trail of every call. This directory holds TLA+ modules of
its core, TLC configurations that check them on small instances, and TLAPS
proofs for every size.

    tlc -config MCAuditTrail.cfg MCAuditTrail      # one run (table below)
    tlapm AuditChainProofs.tla                     # one proof module

`PROJECT.json` lists components, runs, mutants (a plausible bug for every
property, which the run must find), the source lines behind each definition,
findings, hazards and theorems.

## 1. Inventory

| Component | Source | State | Operations | What makes it correct | Status |
|---|---|---|---|---|---|
| Audit hash chain | `schema/016`, `006`, `002`; `_logAuditEvent` in `enforcement.ts` | `audit_events`, `audit_chain_locks` | insert with trigger, commit, rollback | one writer per month; linkage order is sort order; append only; no fork; writers finish | modelled, proved |
| Chain verifier | `audit/verify-core.ts`, `cli/verify_audit_chain.ts` | what the CLI has read | fetch a month, walk it, compare anchors, report | alterations, holes, cuts and rewritings are found; what is reported of a trail nobody touched has one of a few known causes (rows of one millisecond, a failed digest, a retired month) | modelled, proved |
| Session handles | `tools/session_start.ts`, `session_close.ts`, `_validateSessionHandle` | `sessions` | mint, validate, close, expire lazily | closure and expiry final for later calls; closed once; reasons true | modelled, proved |
| Dispatcher | `index.ts` `tools/call` | one handler per call in flight | validate persona, validate handle, execute, audit in `finally` | no effect without authority; the trail tells the truth | modelled, proved |
| Persona lifecycle | `_validatePersona`, `persona_revoke.ts`, `persona_create.ts` | `personas`, `revocation_log`, `delegation_chain` | validate, revoke, create, delegate | revocation immediate; closes each session once; child within its lineage | modelled, proved |
| Identity tokens | `_verifyIdentityBinding`, `issue_identity_token.ts`, `schema/007` | `user_persona_assignments.token_consumed` | issue, verify, consume | used at most once, never after revocation, not lost to a refusal | modelled, proved |
| Combination policies | `_checkCombinationPolicies`, `schema/010` | policies, sources in the trail | accumulate, match, obey, record | a blocked combination meets in one session only through its known races; no refusal without a cause | modelled, proved |
| Data tools, read log | `tools/db_read.ts`, `db_write.ts`, `arg-guards.ts`, `schema/008` | `audit_read_log`, `scope_violations` | check, query, log | nothing outside allowlist and scope; the logs true and complete | modelled, proved |
| Shutdown drain | `index.ts` 132-145, 421-480 | `inFlightCalls`, `drainResolve`, `shuttingDown` | signal, drain, force, end pool | no audit row lost by an orderly shutdown; it ends | modelled, proved |
| Connection pool | `db.ts` | clients, a queue | acquire, time out, release, destroy, end | no starvation below its limit; no audit row in another call's transaction | modelled, proved |
| Retention and holds | `schema/009`, `schema/003`, `ops/` | partitions, holds, `erasure_log` | hold, release, retire | nothing under hold is dropped; each erasure accounted for once; no CALL keeps the trail locked | modelled, proved |
| Transport, configuration | `origin-allowlist.ts`, `index.ts`, `registry.ts` | the allowlist, connections | parse, compare a header, route | the allowlist is the one written | partly; the allowlist proved |
| Canonical JSON | `schema/014`, `015`, `verify-core.ts` | none | normalize a string | trigger and verifier hash alike | partly; strings proved |
| Audit record contract | `conformance/audit-record-contract/` | none | verify a record, a segment | it agrees with the operator's verifier | partly; agreement proved |
| Schema installation; probes, tests, dist, docs | `schema/000`-`015`, `conformance/*.mjs` | none at run time | | | not modelled (section 7) |

### How the parts interact

The dispatcher awaits a query at each step, so any number of calls are between
steps at once, each acting on rows it read earlier. All calls share the tables
and one connection pool. Each call that is audited ends with one INSERT into
`audit_events`; there the database trigger takes over, and all calls of all
servers meet at the lock row of the current month. The verifier reads what the
trigger committed, at any moment and one statement at a time, from another
process; a retirement takes a month away under the same lock that every INSERT
needs. A tool that reads governed sources asks the audit trail what its session
has read before, and records its own there afterwards. Shutdown waits for the
calls in flight because their audit INSERTs are awaited inside them.

### What is hard

* Writers that waited for a lock with a stamp from before the wait; a month
  that rolls over meanwhile; a clock that steps back; a stamp supplied by hand.
* Lock rows created concurrently; transactions over two months; no lock timeout.
* Checks and statements of one call separated by awaits, against revocation,
  closure and expiry by another call; a check that reads a trail to which the
  calls it looks for have not written yet.
* Statements that commit while their reply is lost; audit rows that are dropped
  because `logAuditEvent` never throws.
* A verifier whose order, types and snapshots must agree with the trigger's,
  and anchors that are compared with counts of another moment.
* A drain that is latched at the first zero while connections are still open;
  a bounded pool under calls that use it twice.
* Holds checked in one statement and a table dropped in a later one.

The hazards, each at its line and with the properties that cover it, are in
`PROJECT.json`.

## 2. Modules

    AuditRows            a row, its digest, its order
      AuditChain         the writers: trigger, locks, transactions      (core)
      ChainVerifier      verifyPartition as a function of rows
        AuditTrail       AuditChain read by ChainVerifier; refines AuditLog
        RecordContract   the published contract's verifier, against ChainVerifier
      Retention          partitions, holds, retire_partition
        AnchorAudit      Retention read by ChainVerifier, with anchors
    AuditLog             abstract: one append-only log per month
    Dispatcher           calls, personas, sessions, audit rows
    Delegation           persona_create, identity tokens
    DataAccess           db_read, db_write, combination policies
    Service              connections, calls in flight, pool, shutdown
    AuditText            a governed string from argument to preimage
    Configuration        the Origin allowlist
    VerifierProofs       the verifier's verdict, row by row
      AuditChainProofs   AuditTrail: locks, order, forks, refinement, alarms
      RetentionProofs    AnchorAudit: holds, erasure_log, anchors
      TextProofs         MCTextForms: strings, allowlists, both verifiers
    DispatcherProofs     authority of calls, revocation, the trail
    DelegationProofs     tokens, grants, lineage
    ServiceProofs        drain, pool
    DataAccessProofs     scope, logs, combinations
    MCAuditChain, MCAuditTrail, MCDispatcher, MCDelegation, MCService,
    MCRetention, MCAnchorAudit, MCDataAccess, MCTextForms   instances for TLC

The modules meet at what they hand over. `Dispatcher` decides whether a call
may run; for it `Write` stands for any governed tool of one statement, and
`DataAccess` says what such a tool does then. `Service` takes a call as the
sequence of its uses of the pool, whatever they do. `Retention` inserts an audit
row in one step, which `MonthsAreSerialized` justifies.

### AuditChain

One action per step of `gif.compute_audit_event_hash` (migration 016) at READ
COMMITTED: a statement sees committed rows and its own transaction's.

| Action | Code |
|---|---|
| `Begin`, `InsertAgain` | the INSERT: default `event_id`, `occurred_at = now()`, routing to the month |
| `SelectLock`, `CreateLock` | Step 1: `SELECT ... FOR UPDATE`, or `INSERT ... ON CONFLICT DO NOTHING` and again |
| `Restamp` | Step 2: `clock_timestamp()` under the lock, if still in the month |
| `ReadTail` | Step 3: newest row of the month; an error is swallowed (`"prev_read"`) |
| `SealRow` | Steps 3a and 4: floor, cap, digest or `HASH_ERROR` (`"hash"`) |
| `Commit`, `Abort`, `DeadlockVictim` | the end of the surrounding transaction |
| `Tick` | the system clock, forwards or backwards |

Instants are microseconds; SHA-256 is injective (a digest is the record of its
preimage); a payload is named by its event. The advisory NOTICE and alert of a
large move are left out, and so are retention's DROP and any change made by a
superuser (the verifier's model adds those).

### ChainVerifier, AuditTrail, AuditLog

`verifyRow` is the loop body of `verifyPartition`, `Walk` the order of the CLI's
query. That query says `to_char(...) AS occurred_at ... ORDER BY occurred_at,
event_id`: PostgreSQL resolves a bare name in ORDER BY to the output column, so
rows are walked by millisecond text. `AuditTrail` applies the verifier to the
committed rows at every state, as written and with one row altered. Its
refinement mapping `ChainLog` sorts a month's committed rows, those of its last
microsecond apart (`Settled`), in the trigger's order and shows that they grow
like `AuditLog`, by entries at the end that name the entry before.

### Dispatcher

| Action | Code |
|---|---|
| `Arrive` | the request reaches `tools/call` |
| `ValidatePersona` | `_validatePersona`: status, `valid_until` |
| `ValidateHandle` | `_validateSessionHandle`: ownership, closed before expired |
| `Write` | `db_write`, for any governed tool of one statement |
| `FetchTarget`, `BeginRevoke`, `EndRevoke` | `persona_revoke`: status check, UPDATEs under row locks, COMMIT or ROLLBACK |
| `Mint` | `session_start` |
| `Lookup`, `Close` | `session_close`: lookup, then an UPDATE without a condition |
| `WriteAudit` | `_logAuditEvent`, which may drop the row |
| `Tick` | time |

`effects`, `dropped` and `over` are history variables: which statements
committed, which audit rows were dropped, and what was already over when a call
arrived; no guard reads them. One clock serves database and server. `valid_from`
and `governance_review_status`, which nothing in the server changes, are taken
as passing. Requests carry all their arguments.

### Delegation

| Action | Code |
|---|---|
| `Arrive` | `executePersonaCreate` begins: `manage_personas` |
| `FetchParent` | the parent's row, if it is active |
| `FetchDepth` | its row in `delegation_chain`, then depth and `scopeIsSubset` |
| `LookupAssignment` | `_verifyIdentityBinding`: signature, age, SELECT of an open assignment |
| `ConsumeToken` | UPDATE ... `AND token_consumed = false` |
| `InsertPersona` | one transaction: persona and chain row |
| `Revoke`, `RevokeAssignment` | `persona_revoke` of another call; an administrator sets `revoked_at` |
| `Tick` | time |

A scope is a set of rights. A token is good (a constant: its assignment and its
time of issue) or `BadToken`; several may be issued for one assignment. What the
handler keeps in local variables is cleared when it returns. An INSERT that the
database refuses, a malformed timestamp say, is a failing query. Left out: the
`scope_violations` row of a refusal, which nothing reads; syntactic checks of the
arguments, before any query; `valid_until` of the parent, which the handler does
not look at. The foreign keys of the INSERTs take key-share locks, which do not
conflict with an UPDATE of `status`, so the transaction is one step. `over`,
`grant` and `spender` are history variables.

### Service

| Action | Code |
|---|---|
| `Send`, `AnswerDirectly`, `Disconnect` | a request on a new or kept-alive connection; `/health`, a refused Origin, an unknown path; the client goes away |
| `Dispatch` | `tools/call`: `inFlightCalls++`, and the handler begins |
| `Ask` | `pool.query` or `pool.connect`: a client, a place in the queue, or the refusal of an ended pool |
| `Complete` | the statement or the transaction ends, the client goes to the first waiter; a failed ROLLBACK destroys it |
| `TimeOut` | `connectionTimeoutMillis` |
| `Finish` | the outer `finally`: the counter, and the drain if it is the last |
| `Signal`, `SecondSignal`, `ForceTimer`, `EndPool`, `ExitOrderly` | `shutdown` |

A handler is the sequence of its uses of the pool: nothing, single statements,
or a transaction, and then its audit row. The statements a handler makes one
after the other are one `"query"`: between two of them it holds no client, as
before the first. `late` and `overload` are history variables. `max`, the
timeouts and the grace are numbers the properties do not depend on: a timer may
fire at any moment once it is armed. A client that the pool drops after the idle
timeout is replaced by a fresh one, which is the same client here.

### Retention

| Action | Code |
|---|---|
| `Log` | an audit INSERT, routed through the parent table |
| `PlaceHold`, `ReleaseHold`, `Assign` | operators' INSERTs and UPDATEs of `retention_holds` and `user_persona_assignments` |
| `Call` | `retire_partition` Step 1: is there such a partition |
| `Collect` | Step 2: its personas and its count, from which on the partition is share-locked |
| `CheckHolds` | Step 3: the active holds, direct and through users, or RAISE |
| `LockParent` | Step 4, and DROP TABLE takes ACCESS EXCLUSIVE on the parent |
| `Drop` | Step 5 and COMMIT, once nobody else reads the partition |
| `DeadlockVictim` | two CALLs of one partition that wait for each other |

The `erasure_log` row of Step 4 is visible only after COMMIT and is therefore
written in `Drop`. `dropped` and `atCall` are history variables.

### AnchorAudit

`Retention` plus the operator's anchors and one run of the CLI with
`--check-anchors`, an action for each statement it makes: `fetchMonths` and one
`fetchPartition` per month, `fetchAnchors`, `fetchLiveHashLookup`, one
`fetchLiveCountLookup` per partition name, `Report`. Each reads the rows of its
own moment, and waits while a DROP has the table locked. `verifyAnchors`,
`verifyChain`'s `ok` and `renderHuman` are operators. A `partition_name` is free
text, so one that names no month is among them. Rows may share a millisecond
(`MilliOf`), and an `event_id` is any that is not in use, so that the walk visits
the rows of one millisecond in every order (`Crossed`). What the properties say
is therefore relative to the walk: a break is reported only at a row out of
place or right after one (`AlarmsHaveCauses`), and rows in which the walk meets
a crossed pair fail whether something was deleted or not. Tampering is not an
action: at every state each subset of the rows, and each rewriting of a month
from a row on, is shown to the verifier.

### DataAccess

| Action | Code |
|---|---|
| `Arrive` | required arguments, then all checks of `db_read` or `db_write` before the first query; for an adopter's tool, whether it declares sources |
| `LogScopeViolation` | `_logScopeViolation`, which may fail in silence |
| `Query`, `LogAuditRead` | the statement; the `audit_read_log` row of an audit-class table |
| `AccumulateSources` | `checkCombinationPolicies` Steps 1 and 2: the session's recorded sources and the call's own, or its failure, which blocks |
| `EvaluatePolicies` | Steps 3 and 4: the first active policy that matches |
| `ReadSources`, `LogSources` | the adopter's tool obeys, reads, and records with `logAuditEvent` |
| `Toggle` | an operator sets a policy active or not |

No tool in this repository calls `checkCombinationPolicies`; it is exported for
the tools of an adopter, and the model's adopter uses it as its header asks. The
rows of `combination_policies` come in no stated order, so any match may be the
first. A safe identifier is one key, an unsafe one another. `executed`,
`dropped` and `unseen` are history variables.

### AuditText, Configuration, RecordContract

Pure algorithms, compared with a reference definition over every input up to a
size, which `MCTextForms` grows a piece at a time.

* `AuditText` follows a governed string through the argument guard, the driver's
  encoding, the column, the trigger's `norm` and the verifier's
  `normalizeString`. Characters are classes that one of the four tells apart.
* `Configuration` is `parseAllowedOrigins` with what `new URL` does to a host
  name, against a grammar of host names (`Hostname`).
* `RecordContract` is the conformance kit's reference verifier, against
  `verifyPartition`.

## 3. Runs

| Run | Instance | Shows |
|---|---|---|
| `audit_backfill` | 2 writers, two-row transactions over 2 months, explicit stamps, failing tail queries and digests | `ForksOnlyAtCap`; `WriterFinishes` (liveness) |
| `audit_trail` | 3 writers, 2 months of 4 and 2 instants, some of which share a millisecond, clock stepping over 3 readings, one explicit stamp, aborts, one payload the verifier refuses | `TypeOK`, `SerializedMonth`, `ChainOrder`, `NoDeadlock`, `AppendOnly`, `AlarmsExplained`, `AlterationDetected`, refinement `ImplementsLog` |
| `walk_order` | as `audit_trail`, in a longer month, no failures, nothing supplied by hand | violated; see Findings |
| `anchors` | 2 months, 3 rows with ids in every order, two of which share a millisecond, 1 anchor, a misnamed partition, one CLI, one retirement | `AlarmsHaveCauses`, `DeletionNoticed`, `RewriteNoticed` |
| `retention` | 2 CALLs, 2 months, 2 rows, 2 personas, a user, a hold | `HeldRowsSurvive`, `ErasureAccounted`; `RetirementsEnd` (liveness) |
| `dispatcher` | 2 calls, all tools, 2 sessions, all faults, expiry of session and persona | `TypeOK`, `Accounted`, `RejectionsTruthful` |
| `revocation` | 3 calls, all tools, 1 session id, expiry, no faults | `AuthorityAtStart`, `RevocationClosesSessions`, `TerminatedOnce` |
| `double_close` | 2 calls of `session_close` | violated; see Findings |
| `delegation` | 2 calls, 3 persona ids, 2 assignments with 3 tokens, revocations, all faults | `TypeOK`, `TokenUsedOnce`, `TokensAccounted`, `ScopeWithinLineage`, `DepthIsDistance`, `GrantedAtStart` |
| `data_access` | 3 calls, 2 sessions, 2 personas, 20 requests, a blocking and a flagging policy, every log INSERT and query may fail | `CombinationCaught`, `BlockedForCause`, `AccessAccounted` |
| `service` | 3 calls, 2 connections, 1 pooled client, failures, disconnects, both signals, force timer | `TypeOK`, `DrainFlushesAudits`, `TimeoutMeansOverload`, `NoAuditStranded`; `ShutdownEnds`, `CallsAnswered` (liveness) |
| `text` | every string of 5 characters, every allowlist of up to 8, every segment of 3 records | `StringHashedAlike`, `OriginsAsWritten`, `SegmentAgreed` |

What each property says is in the comment above it.

*Why the bounds are enough.* A month of three instants or four has a first, a
middle and a last microsecond, so floor, cap and tie all occur; two of the four
share a millisecond, and three rows can also lie in three; the second month gives
the rollover during a wait. Three writers are a holder, a waiter and a newcomer.
Three event ids are a row, its successor and a row that could slip between.
Backfills need two rows to hold two locks, and two of them need four ids to wait
for each other. In `anchors` three rows are a head, a middle and a tail; in one
month the first two share a millisecond, in the other the last two; and an anchor
fails or holds for itself alone, so that one, on any row and of any count, stands
for all. Two CALLs of `retire_partition` name one partition or two; two rows are
one that was there at the CALL and one that came later, or one in each month; one
hold is placed on a persona or on its user, at every moment. Two calls give every
pair of racing tools with every failure; the third call adds a mint or a close
between two revocations. In `delegation` two calls suffice for a race on one
assignment and for a child of a child, with an ancestor that is not the issuer; a
token of each age, fresh and stale, and two of one assignment. In `data_access` a
combination needs two calls and a third to record in between or in the other
session; the requests differ from a good one in one respect each, limits at both
ends of their range. In `service` one client and three calls are a holder and a
queue of two, and one connection of the two carries a second request after its
first, also after the drain has settled. In `text` the strings are one longer than
the column, and eight characters are the shortest allowlist that can hold an IPv4
address and a mistake in it.
`MaxTime`, `TxnRows`, `ClockValues`, `Supplied`, `EventIds`, `Ids`, `Calls`,
`MaxRows`, `MaxAnchors`, `Holds`, `Operators` and the lengths in `MCTextForms` are
the only bounds, and each is named.

`CHECK_DEADLOCK FALSE` stands where the system may really stop: `audit_backfill`
when its UUIDs are used and nobody is writing (that no writer is stuck is
`WriterFinishes`); `dispatcher`, `revocation`, `double_close` and `delegation`
when every call is answered and time is up, or no UUID is left; `service` when the
process has exited; `retention`, `anchors` and `data_access` when everything that
was asked for is done; `text` when nothing longer is to be looked at.

*Fairness.*

* `AuditChain!FairSpec`: a writer that can go on for ever again does go on
  (`SF_vars(Proceed(w))`). A backend runs its statement to the end, and the
  client commits (`pool.query` is autocommit); for the steps that wait for nobody
  this is weak fairness. Waiters on a row or a key are queued by PostgreSQL, so
  they are not overtaken for ever, and the deadlock detector runs.
* `Service!FairSpec`: a handler that can go on does (the event loop), and the
  force timer fires. It does *not* say that PostgreSQL answers: an INSERT waits
  on a month's lock as long as its holder likes, and `ShutdownEnds` must hold all
  the same. `CallsAnswered` assumes of PostgreSQL, in the property itself, that
  it answers.
* `Retention!FairSpec`: a backend runs a procedure to its end, and the deadlock
  detector resolves what two CALLs of one partition get into.

Nothing says that statements begin, that time passes, that clients stay or that
anything fails.

*Symmetry* is used for writers and calls, in runs without liveness only.

## 4. Proofs

All theorems are for any values of the constants that satisfy the module's
assumptions, which TLC evaluates in every run. `CalendarAssumption` is what a
calendar is and `MilliAssumption` that milliseconds follow instants;
`ServiceAssumption` says that calls are finitely many numbers and that the pool
has at least one client; `AuditTextAssumption` that `MAX_FIELD_LEN` is at least
twice the length of a column; `DispatcherAssumption`, `DelegationAssumption`,
`NamesAssumption`, `RetentionAssumption`, `AnchorAssumption` and
`DataAccessAssumption` type the constants and keep the names of nothing apart
from the others; `RetentionAssumption` says besides that the milliseconds of a
month's rows follow their order. SHA-256 is injective by the way a digest is
modelled. Every invariant and every action property of the passing runs is proved,
and so is the refinement; only liveness is not.

| Module | Theorem | Says |
|---|---|---|
| `AuditChainProofs` | `TypeCorrect` | `Spec => []TypeOK` |
| | `MonthsAreSerialized` | `Spec => []SerializedMonth` |
| | `LinkageIsSortOrder` | `Spec => []ChainOrder`, if `"prev_read" \notin Faults` |
| | `LogGrowsAtItsEnd` | `Spec => AppendOnly`, under the same assumption |
| | `WritersDoNotDeadlock` | `Spec => []NoDeadlock`, if `TxnRows = 1` |
| | `NoForkBeforeTheCap` | `Spec => []ForksOnlyAtCap` |
| | `WritersImplementLog` | `Spec => ImplementsLog`, if `TxnRows = 1` and `Faults \subseteq {"abort"}` |
| | `AlarmsAreExplained` | `Spec => []AlarmsExplained`, if `Faults \subseteq {"abort"}` |
| | `AlterationsAreDetected` | `Spec => []AlterationDetected`, under the same assumption |
| `VerifierProofs` | `VerdictIsPerRow` | what `verifyPartition` reports of any month, row by row |
| `DispatcherProofs` | `AuthorityFromTheStart` | `Spec => []AuthorityAtStart` |
| | `RevocationIsComplete` | `Spec => []RevocationClosesSessions` |
| | `SessionsCountedOnce` | `Spec => []TerminatedOnce` |
| | `TrailIsComplete` | `Spec => []Accounted` |
| | `ReasonsAreTrue` | `Spec => []RejectionsTruthful` |
| | `TypeCorrect` | `Spec => []TypeOK` |
| `DelegationProofs` | `TokensAreSingleUse` | `Spec => []TokenUsedOnce` |
| | `NoTokenIsLostByRefusal` | `Spec => []TokensAccounted` |
| | `GrantsWereGood` | `Spec => []GrantedAtStart` |
| | `RightsShrinkDownward` | `Spec => []ScopeWithinLineage` |
| | `DepthCountsAncestors` | `Spec => []DepthIsDistance` |
| | `TypeCorrect` | `Spec => []TypeOK` |
| `ServiceProofs` | `ServiceTyped` | `Spec => []TypeOK` |
| | `DrainFlushes` | `Spec => []DrainFlushesAudits` |
| | `TimeoutsMeanOverload` | `Spec => []TimeoutMeansOverload` |
| | `NoRowStranded` | `Spec => []NoAuditStranded` |
| `RetentionProofs` | `HoldsSurvive` | `Spec => []HeldRowsSurvive` |
| | `ErasuresAccounted` | `Spec => []ErasureAccounted` |
| | `AlarmsHaveTheirCauses` | `AuditSpec => []AlarmsHaveCauses` |
| | `DeletionsAreNoticed` | `AuditSpec => []DeletionNoticed` |
| | `RewritesAreNoticed` | `AuditSpec => []RewriteNoticed` |
| `DataAccessProofs` | `CombinationsCaught` | `Spec => []CombinationCaught` |
| | `RefusalsHaveCause` | `Spec => []BlockedForCause` |
| | `AccessIsAccounted` | `Spec => []AccessAccounted` |
| `TextProofs` | `StringsHashAlike` | `HashedAlike(s)` for every string of `Characters`; `GrownStringsHashAlike`: `Spec => []StringHashedAlike` |
| | `AllowlistsAreExact` | `OriginsExact(raw)` for every text of `Alphabet`; `GrownAllowlistsAreExact`: `Spec => []OriginsAsWritten` |
| | `VerifiersAlwaysAgree` | `VerifiersAgree(records)` for every segment of hashed rows; `GrownSegmentsAgree`: `Spec => []SegmentAgreed` |

The assumptions on `Faults` and `TxnRows` are the code's. When the tail query
fails (`"prev_read"`), the trigger links the row as the first of its month, and
`ChainOrder` is false; when the digest fails, a row without a hash is reported.
Two transactions of two months may wait for each other, and PostgreSQL kills
one; `_logAuditEvent` writes one row per transaction. The run `audit_trail`
satisfies all of them. On a month's last microsecond rows may be committed out of
order, which is why the rows there are not in the abstract log.

*Argument, audit chain.* `LockInv` says that at most one transaction holds a month,
that a writer past Step 1 holds the month of its job, and that every uncommitted row
lies in a month its transaction holds. `SerializedMonth` is a part of it.
`ChainOrder` is about committed rows only and is not inductive: `ChainInv` adds
that, for every writer, the committed rows of a month together with the rows of the
transaction that holds it are chained as well; that uncommitted rows follow every
committed row of their month unless they are capped; and that the result of a tail
query still is the tail when the row is sealed, because nobody else can store a row
in that month. `SealChained` shows that a floored row linked to the tail keeps the
set chained; a commit then only renames it. `AppendOnly` is a consequence of
`ChainInv` in the state before the step. Proofs follow the disjuncts of `Next`, one
lemma for each action that matters.

`ForkInv` is the same argument without the assumption on the tail query: every link
leads back to an older row of its month, so a row that is continued already is not
the tail a writer reads, unless both are capped. `OneRow` says that a writer of
single rows holds no month while it waits for one, so that nobody waits for a
waiter. For the refinement, `ChainInv` makes a row that is committed before the last
microsecond the greatest of its month: `ChainLog`, which ranks the rows, then grows by
one entry at its end (`RankOfNew`), and this entry names the last one. `LogInv` is what
else that needs: the row is new, and every rank of a month is taken.

*Argument, verifier.* `verifyPartition` is a loop. `FiledAll` says what it has filed
after the first k rows, for each k, by the least k at which it would not have; and
sorting is dealt with once (`WalkSorts`). The verdict is a set of rows, each put
there by itself and by the row before it (`VerdictIsPerRow`). `TrailInv` says of the
committed rows what the verifier recomputes: each carries the digest of itself and
of its link, and links are those of `ChainInv`, so that a break needs two rows whose
order by millisecond is not their order by microsecond. An altered row has a digest
that is not its own.

*Argument, dispatcher.* None of the three properties is inductive: a call in the
middle of its handler acts on rows it read before. `RowsKept` says what every step
does to the rows: personas are revoked and never restored, sessions appear and end,
time advances. Hence what was over when a call arrived is over still (`StillOver`),
and a check that passes now would have passed then; `Established` records, for each
place in the handler, the checks that have passed (`AuthorityInv`). For revocations
`RevokeInv` adds what the row locks give: a transaction between its UPDATEs and
COMMIT has locked only open sessions of its target and nobody ends them meanwhile
(`Locked`); every session of the target that existed at the arrival is locked or has
ended (`Reached`); no two transactions hold one target. A session that is locked now
is therefore in no earlier revocation's count. `DispatcherInvariant` proves both
together. `TrailInv` follows one call's outcome to the trail: `Unrecorded` is what
is known of a call that has not written its row, `Recorded` of one that has, `Sound`
that the outcome agrees with the effects, and the reason of a denial with what the
call saw, which later steps cannot undo.

*Argument, delegation.* `TokenUsedOnce` is about personas, but the race is between
calls: `TokenInv` adds that a call between its UPDATE and its INSERT owns its
assignment (`Owns`), that who spent an assignment is known exactly when it is
consumed, and is then about to insert, failed, or created a persona (`Spent`), and
that a call creates one persona at most. So when an UPDATE finds an assignment
unconsumed nobody owns it and nothing was paid for with it. `GrantInv` has the same
shape as `AuthorityInv`: revocations are final (`TablesKept`), so what was over at
the arrival is over still (`Past`), and `Held` lists the checks passed at each
place.

`LineageInv` speaks of parent and child only: the scope of a child is within its
parent's, its depth one more, and a call between its checks and its INSERT would
pass them still, since scope, limit and chain row are never updated. `Lineage`, a
persona and all above it, is recursive: the least set that is closed under
parents solves its equation (`LineageStep`), and that scope and depth are right
along all of it follows by the least depth at which they would not be
(`AncestryOfAll`).

*Argument, service.* `PoolInv` says who holds what: a client belongs to one
call, which stands at a use of its own and holds no other; an open transaction
belongs to the use it was begun for, so no audit row finds one; waiters are
waiting, each once. `LoadInv` is about timeouts: whoever waits does so because
every client is out, each with a call of its own in flight, so that the waiter
and they are more calls than clients (`AllOutMeansOverload`, a pigeonhole
argument: the map from clients to their calls is injective). `DrainInv` ties the
promise to the counter: pending means that somebody is in flight; once it has
settled, whoever is in flight is in `late`; a call whose client waits keeps its
connection open, and so the pool is not ended under it. The counter is the
number of handlers in flight (`TypeOK`), so reading zero there means that nobody
is.

*Argument, retention.* `CallOf` follows one CALL. Before Step 2, if its partition
is still there, so are the rows of the CALL, since rows leave only with their
partition. From Step 2 on the share lock keeps the partition from everybody
else's `Drop`, and what was found `Covers` those rows as the partition grows.
Past Step 3 every hold that was on one of them has been released: a hold stays
on whom it was placed, assignments only grow (`Onwards`), so a hold that covered
a row at the CALL would have been found at Step 3. `ErasureInv` adds that a month
has at most one entry and is then gone for good.

*Argument, anchors.* `RowsInv` says that the rows of each month, those dropped
included, are linked and sealed as the trigger does, and `AnchorInv` that the row of
an anchor is there, at its place, while its partition is. `CliInv` follows the
statements of the CLI: what it has read of a partition that is still there agrees
with the anchors on it, whenever it read it, because a partition only grows until it
goes. What it read is a part of the trail from the first row of the month on
(`Rooted`); of two rows neighbouring in the walk, the later one names the earlier
unless one of the two is out of place, or the row that it names is
(`BreakHasCause`). A verification without a pause passes exactly if the walk meets
each month linked and the anchors find their counts and hashes (`OkIsLinked`), and
it meets a month linked exactly if its rows are linked and none crosses another
(`WalkLinkedIs`). So the rows left by a deletion must be neighbours, and rewritten
rows, which carry other hashes from the rewritten row on (by the least row that
would not), must be no anchor's.

*Argument, data access.* `AccessOf` says which logs hold a data call at each of
its steps. `CauseOf` says what a check has concluded, and that the sources it
looked at are its own or on record. `CombinationCaught` speaks of many calls
whose checks interleave; `SeenInv` says what is left of mutual knowledge: in any
set of calls of one session whose checks have looked, there is one, the last to
look, that saw the sources of each of the others or has it in `unseen`. Applied
to the calls that completed a combination, that one saw all of it, and was let
through by another policy only.

*Argument, text.* These are pure functions, and what a recursion computes is shown
for each prefix, by the least one for which it would fail: `NFCKeeps` (not
longer, and blank only if it was) and `SplitIs` (where a split cuts). From there
on it is a matter of places: a character of a name is a dot, or it is the p-th of
one label (`Placed`). That labels begin and end with a letter or digit is then
that the neighbours of dots do (`SoundAlike`); that a name is an IPv4 address is
that it has no letter, three dots (the cuts are a bijection with them,
`DotsCounted`) and no three characters in a row without one (`NumbersAlike`). The
contract's verifier has no loop, so with `FiledAll` the two verifiers are compared
row by row.

*Only model-checked:* liveness (`WriterFinishes`, `RetirementsEnd`,
`ShutdownEnds`, `CallsAnswered`), which is out of the prover's reach.

## 5. Findings

Two runs state what a comment or a document of the repository says, and are
violated by what the code does:

* `walk_order` (`HonestTrailLinked`): the CLI sorts by millisecond text and then by
  a random `event_id`, so two rows of one millisecond may be walked against their
  links and reported as a break of a trail nobody touched. `verify-core.ts` and
  `016` both say that the verifier walks in the order of the links. What remains
  true is `AlarmsExplained` and `AlarmsHaveCauses`.
* `double_close` (`SecondCloseRejected`): of two concurrent `session_close` calls of
  one session both succeed, and each writes its row, while GIF-020 says that a
  second close is rejected. The UPDATE has no condition on `ended_at`.

Other things the models made visible. Each is what the source does, and the
property named is stated so that it allows just that. The first three are at odds
with a comment in the code:

1. `HASH_ERROR` comes back from `CHAR(64)` padded with blanks, is not recognised,
   and fails the chain as a mismatch (`SegmentAgreed`); the CLI's header says that
   it is a warning.
2. `persona_create` never compares the limit a child asks for with its parent's, as
   its header says; only depth is compared (`Delegation`, `FetchDepth`).
3. The drain settles once. A call that arrives on a connection still open
   afterwards, and whose client then leaves, can lose its audit row to an orderly
   exit (`DrainFlushesAudits`), the loss the comment on `shutdown` is about.
4. On a month's last microsecond the chain may fork (`ForksOnlyAtCap`).
5. A `session_close` whose query fails leaves no audit row (`Accounted`).
6. A hold placed after Step 3 of `retire_partition` does not stop the DROP, and
   rows committed after the count go uncounted (`HeldRowsSurvive`,
   `ErasureAccounted`).
7. The anchors of a retired month fail verification for ever
   (`AlarmsHaveCauses`); one whose `partition_name` is no month fails from the
   start.
8. Rows deleted at the head of a month are hidden by as many inserted since: the
   anchor compares counts, and the first row's link is not looked at
   (`DeletionNoticed`).
9. The combination check reads, then the tool acts and records: overlapping calls
   of one session may complete a combination between them, and a policy that
   exempts or only flags may match before one that blocks (`CombinationCaught`).
10. Not modelled, but met on the way: on the last day of a retention window the
    report of `ops/retire_audit_partitions.sql` says `RETAIN` and `eligible now` of
    one partition (`EXTRACT(DAY ...)` is 0 by then), and it looks at no holds; the
    numbers in the environment are read with `parseInt`, which takes `10m` for 10;
    the CLI computes a month's boundaries in the database session's time zone.

What the checks do *not* contradict: away from the last microsecond and from
swallowed failures, links always agree with the order of `occurred_at` and
`event_id` as the table has them; no call that arrives
after a revocation or a closure has an effect; and no orderly exit loses the audit
row of a call that arrived before the drain settled.

## 6. Plan

The audit chain, the dispatcher and delegation came first, as what everything
else relies on; then shutdown and pool, retention, anchors and the data tools.
What is left, in order:

1. **Composition** of `Dispatcher` with `Service`: an orderly exit and `Accounted`
   together, calls with several statements.
2. **Refinement** of an abstract table of persona rights by `Dispatcher`.
3. **`ended_at`** with its value: which of two closes is on record.

## 7. Not modelled

* *Schema installation* (`000`-`015`, `install.sh`): DDL that an operator runs
  once, in order. What it leaves is where each `Init` starts.
* *Canonical JSON* beyond the normalization of a string: key order, escaping and
  the syntax of numbers are rules about single characters, fixed by the
  repository's own vectors; the models use that a preimage determines its row.
* *The numbers in the environment*, the static tool table and the SDK's protocol
  handling.
* *Attestation manifest and vectors* of the record contract: a form and data.
* *Probes* (`conformance/c*.mjs`), tests, `dist/` and docs: they call a running
  server and look at its answers, and are read as statements of what the system
  promises.
* *The alert and NOTICE* of a large move of the clock, and log output.
* *The report* of `ops/`: it reads, and an operator decides.
* *Identifiers as text*: `_validateSessionHandle` compares persona ids as they are
  spelt, so a UUID in capitals is another persona to it; the models compare ids.
* *What an adopter does* with a combination that is flagged or wants a human
  review: `checkCombinationPolicies` returns the action, and nothing in the
  repository acts on it.
* *The types of a record's fields* in the contract's verifier: a record exported
  from `audit_events` has them.
* *A transaction that is left open for good*: the writers' fairness says that each
  commits or fails, as an INSERT of `pool.query` does. One that an operator's own
  session leaves open holds its month as long as it likes, and no lock timeout
  ends the wait.
* *A superuser's changes* to rows, other than those shown to the verifier.
