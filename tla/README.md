# Verification of identity-mcp

TLA+ models, TLC configurations and TLAPS proofs for identity-mcp: MCP servers for five
identity providers, and the authorization gateway `mcp-authz-gateway` that stands in front of
them. The gateway decides whether an agent's tool call may reach a provider, and keeps a
durable, tamper-evident ledger of what it let through. Paths below are those of the repository.

## The system

| part | state | operations | interacts with |
| --- | --- | --- | --- |
| State ledger (`internal/authz/statedb.go`) | `state.db` (replay, budget, challenge, grant, grant_revoke, audit_hwm records), `audit.jsonl` (hash chain), per-process cache of parsed records | init-state, open with recovery, audit append, challenge, commit, grant snapshot, revoke-grant, compaction, verify-audit, repair | all gateways and CLI commands on one machine, through the two files and `flock(state.db.lock)` |
| Gateway pipeline (`proxy.go`) | `notifiedGen`, `verifiedGen`, poisoned and dead flags, `epochMu` | `tools/list`, read calls under the shared lock, write calls in three phases under the exclusive one, notifications and exit of the upstream server | ledger, upstream session, step-up, policy, pinning |
| Policy (`policy.go`) | none after loading | loading and validation, limit defaults, guardrails, `CheckSoDRules` | ledger (grants), pipeline, pinned schemas |
| Step-up approval (`stepup.go`) | challenge receipts in a directory | receipt, pruning, approve command, token verification | ledger (jti), policy, pipeline |
| Manifest pinning (`pin.go`) | lockfile | pin, comparison of a tool list | pipeline |
| Principals (`jwt.go`, `obo.go`) | none | verification of the caller's JWT, its scopes and those of its groups, intersection with the agent's | pipeline |
| Providers (`internal/{okta,entra,lumos,c1,sailpoint}`) | cached access token, HTTP client | list, get and write tools, token refresh, paging loops | provider APIs |
| Shared helpers (`internal/idmcp`) | none | clamping of limits, cursors, result encoding | providers |

Hard behaviours, and what makes each part correct:

- **Ledger.** Several processes append to two files that no single write can update together,
  each trusting a cache of what it parsed earlier; any of them may die, the machine may lose
  power, a write may fail half-way, and any append may replace `state.db` by a compacted copy.
  Correct means: the chain stays verifiable and recoverable, caches show what is in the file, an
  approval token lets at most one write through, budgets and challenge limits hold, conflicting
  grants are never recorded, a grant is lost by revocation only, and what was forwarded is
  audited.
- **Pipeline.** Notifications race re-verification, readers race a writer, the upstream server
  may change or die between check and call. Correct means: no read is forwarded under a manifest
  that was announced as changed and not verified again, no write commits on one that differed
  all the time it was being verified, a change that comes later is not lost, nothing is forwarded
  once poisoned, and every forwarded write has been committed first.
- **Policy and principals.** Callers choose spellings, shapes and limits of arguments; a policy
  names targets through paths, normalizers and case modes that have to agree with each other,
  with the pinned schemas and with the JWT. Correct means: what is forwarded hits no protected
  target and not its caller, gives nobody entitlements that exclude each other, by whatever
  tool, spelling or policy, and stays within the limits.
- **Step-up.** A token is verified before the ledger lock and consumed under it; receipts are
  pruned while they are read; two hosts have two clocks; gateways, policies and ledgers are
  replaced between challenge, approval and call. Correct means: one approval, by someone other
  than the requester, lets one call through, for exactly the intent that was approved.
- **Providers.** One token cache is shared by concurrent calls; paging loops follow cursors the
  provider chooses, within limits on rows, pages and requests. Correct means: a token outlasts
  the request it is sent with, no error shows it, calls return, loops end, and an agent that
  goes on as the results tell it to misses no row.

`PROJECT.json` lists all components, the hazards with the line at which each bites, and for
every definition the lines it models.

## Modules

| module | content |
| --- | --- |
| `Ledger` | both files, the critical section, every operation, each write and fsync, compaction, startup, repair, faults |
| `LedgerProperties` | `TypeOK` and what the ledger promises |
| `MCLedger` | finite instances: calls, rules, token expiry, symmetry |
| `LedgerFiles` | proved facts on last audit_hwm, commit lines, compaction, separation of duty; proofs of `TypeOK` and `CacheCoherent`; in a second part those of `VerifyAuditPasses`, `Recoverable` and `ForwardIsAudited` |
| `LedgerCommits` | proofs of `NoConflictingGrants`, `AtMostOnce`, `AllowIsCommitted` and `GrantsOnlyRevoked`; in a second part those of `ChallengeLimit` and `BudgetRespected` |
| `Gateway` | the request pipeline: start-up, generations, flags, `epochMu`, the paths of list, read and write requests |
| `GatewayProperties` | `TypeOK` and what the pipeline promises |
| `MCGateway` | finite instances: two concurrent requests |
| `GatewayProofs` | proofs of `TypeOK`, of what `epochMu` protects and of how drift is noticed |
| `StepUp` | challenge directory, approve command, verification, the write path from challenge to post-forward audit, policies, restarts, new ledgers, clocks |
| `Approvals` | abstract: the life of an approval |
| `StepUpProperties`, `MCStepUp` | what step-up guarantees; the refinement mapping to `Approvals`; instances |
| `StepUpProofs` | proofs of `TypeOK`, of what is said of approvals and forwarded calls, that `Approvals` is implemented, and of how the challenge directory is pruned |
| `Paths` | path expressions over JSON arguments and schemas |
| `Authorize` | names, principals, list of tools, loading checks, guardrails, calls and grants |
| `AuthorizeProperties`, `MCAuthorize` | what the guardrails guarantee of forwarded arguments; instances |
| `Recursion` | that a recursive function satisfies its equation, proved once for any step |
| `AuthorizeProofs` | what each walk along a path finds, refuses or changes; proofs of all properties of `Authorize` |
| `Tokens` | the token cache of the Entra, ConductorOne and SailPoint clients, requests, fallbacks, errors |
| `TokensProperties`, `MCTokens`, `TokensProofs` | what concurrent calls rely on; instances; proofs |
| `Scans` | limits, cursors, lists, scans, access reports of the five providers, and the agent that calls them |
| `ScansProperties`, `MCScans`, `ScansProofs` | what an agent relies on; instances; proofs |

How the modules fit together. `Gateway` is the pipeline with the decisions left open; `Authorize`
is the decisions, stages 1 to 3, with stage 4 left open; `StepUp` is stage 4 and the write path,
with what `Gateway` decides about manifests and `Ledger` about budgets left open (a call may be
refused there). `StepUp.Commit` and `Authorize.Commit` take the ledger at its word: a critical
section that sees what was recorded and loses none of it, which is what `CacheCoherent`,
`AtMostOnce` and `GrantsOnlyRevoked` say of `Ledger`. So the replay records of `StepUp` never
expire; that they are not dropped too early is a matter of `Ledger`, and of `LedgerStale` where
they are. `Tokens` and `Scans` are about one provider's server, which knows nothing of the
gateway.

### Ledger: state and actions

A file is the sequence of its lines, with the number of lines known to be on disk beside it
(`audit`/`auditSync`, `db`/`dbSync`); `db.ino` is the inode that a compaction's rename changes.
`lock` stands for `ledgerMu` and the flock together. `pc[p]` is where process `p` is: `down`,
`idle`, or before one of the writes and fsyncs of its section; `job[p]` is the section it is in.
`cache[p]` is `cachedIno`, `cachedSize` (in lines) and the records behind `cachedState`. `done`
is a history of the commits and challenges that returned without error; properties use it, no
action does.

A parsed state is the sequence of the records folded into it, and the fields of
`parsedLedgerState` are operators on it. The hash of an audit record is its position, which
assumes SHA-256 collision free; a record that was overwritten cannot return, so equal positions
are equal records except after the fork shown by run `LedgerFork`, where the chain is broken by
its sequence numbers already. A torn line is a line of its own kind; a line written behind it
completes it to one that never parses (`Glue`). In `state.db` a torn line leaves the file
unparsable for every reader whether or not something is appended, and every section parses
before it writes, so nothing is. Ledger and gateway identifiers, the header line, and the
content of records beyond what decisions read are left out.

| code | actions |
| --- | --- |
| `withExclusiveLock` | `Enter`, `Warm`, `View`, `Loaded` |
| `AppendAudit`, `ActiveGrantsSnapshot`, `LedgerID` | `AppendAudit`, `Snapshot` |
| `RecordChallengeAndAudit` | `RecordChallenge`, `WriteState` |
| `CommitWriteAndPreForwardAudit` | `CommitWrite`, `WriteState`, `SyncState` |
| `RevokeGrantCLI` | `RevokeGrant`, `WriteState` |
| `appendAuditAndHWMLocked` | `WriteAudit`, `SyncAudit`, `WriteHwm`, `SyncHwm` |
| `compactLocked` | `Compact` |
| `OpenLedger`, `verifyStartupAndRecoverHWM`, `Close` | `Open`, `OpenRecover`, `Exit` |
| `RepairLedgerCLI` | `RepairState`, `RepairAudit`, then the actions of an audit append |
| `InitState` | `Init` |

A handler that denies (replayed token, conflict, exhausted budget or limit) appends an audited
denial and nothing else; the denial's own errors are ignored by the code as they are here.
`IoError` covers every error return behind the lock: of a write, which may leave a part of its
lines and a torn one; of an fsync; of the compaction, before or after its rename. `Kill` ends one
process and keeps the page cache; `PowerFailure` ends all of them and keeps of each file some
prefix that contains the synced lines, perhaps with a torn line behind it. The rename of a
compaction is atomic and its data is synced before it. The directory fsync behind the rename is
taken to happen with it: the code ignores its error, and other processes are locked out until
it is done.

Definitions marked "Variant" in `Ledger` are plausible mistakes in the definition that follows
them; no specification uses them. They measure whether a property depends on the code: with the
definition replaced by its variant, TLC finds the property violated.

### Gateway: state and actions

`notified`, `verified`, `poisoned` and `dead` are the atomics of `Gateway`; `phase` is where
`ServeStdio` is. `manifest[n]` says whether page n of the upstream tool list is as the lockfile
pins it, which is what a comparison of canonical tools amounts to; `pending` counts
notifications that were sent and not yet handled. `pc[c]` is where the goroutine of a host
request is and `kind[c]` what it asks; `snap[c]` holds the local variables of
`reverifyManifestLocked`, and `differ[c]`, a ghost, the pages that have not been as pinned at any
time since `c` began to fetch the list. `writer` and `readers` are `epochMu` with the semantics of
`sync.RWMutex`: a writer that has claimed it keeps new readers out and waits for those inside
(`drain`), and the readers that waited go before the next writer.

| code | actions |
| --- | --- |
| upstream server, `OnToolListChanged`, `drainAndRedactChildStderr`, `OnUpstreamProcessExit` | `ChangeManifest`, `OnToolListChanged`, `UpstreamExit`, `OnUpstreamProcessExit` |
| `NewGateway`, `ServeStdio` | `StartPage`, `StartVerified`, `Publish` |
| `EvaluateToolCall`, `HandleToolsList` | `Arrive`, `Stage0`, `Compare`, `Stages` |
| `reverifyManifestLocked`, `FetchAndCanonicalizeUpstreamTools`, `poisonUpstreamLocked` | `Claim`, `Reverify`, `FetchPage`, `FetchFails`, `Verified`, `Poison` |
| `executeReadCall` | `RLock`, `Check`, `Send`, `Answer`, `Report` |
| `executeWriteCall`, `callUpstreamSession` | `Claim` .. `Verified`, `Commit`, `Send`, `Answer`, `Report` |

Stage 0 loads the two counters in two steps, since a verification may fall between them; under
the read lock `verifiedGen` cannot move and one step is exact. The decision stages and the
ledger's answer are free choices. The policy loader requires re-verification before every write
whenever write tools are enabled (`policy.go`, 327), so writes always verify. A request that
finds the gateway poisoned or dead on arrival is refused without a step.

### StepUp: state and actions

`dir` is `challenge_dir`, `receipts` all receipts ever written; `call[c]` is a goroutine in
`executeWriteCall` and `session[a]` the approve command of approver `a`, whose clock is
`clock + Offset[a]`. `tokens` are the approvals that were signed, by number, which stands for the
jti; their `begun` is a ghost, the time of the gateway at which the approver's command began.
`used` are the replay records of each ledger. `installed` is the policy on disk, which the
approve command reads, `loaded` the one the gateway read when it started; a policy stands for
itself with lockfile and binary, all of which an intent names. A principal is one identity with
one JWT. The intent holds the JWT's digest, so an approval is of no use once the JWT is renewed;
that would be one more principal here.

| code | actions |
| --- | --- |
| `executeWriteCall` up to `WriteChallengeReceipt` | `Challenge` |
| `pruneChallengeDir` | `List`, `Prune` (which files go is decided on the listing) |
| `WriteChallengeReceipt` | `Create`, `Fill` |
| `SignApprovalFromCLI` | `Review`, then `Sign` or `Decline` |
| `VerifyApprovalToken`, `VerifyMakerChecker`, call with an approval | `Present` |
| phases 2 and 3 of `executeWriteCall` | `Commit`, `Forward`, `Report` |
| `ServeStdio`, end of the process, `InitState` | `Serve`, `Stop`, `InitState` |

`Approvals` is the promise: an approval is none, approved, spent, forwarded, settled or lost, and
only moves that way. The mapping (`StatusOf`) reads the status off the replay records, the calls
under way, what has been forwarded and the second audit records. `Sign` is the abstract
`Approve`; `Commit` is `Spend`, or `SpendInVain` when the audit record behind the replay record
fails; `Stop` is `Crash`.

### Paths and Authorize: state and actions

A name is whose it is and the case it is spelled in; a regular expression is the set of spellings
it matches. Arguments and schemas are trees of records, over which `Paths` walks as the code
does. A binding's optional flag, `null`, absent objects, arrays behind `[*]`, and leaves of another
type are kept apart as in the code, since each leads to another of its errors. What a path finds is
a set: no check depends on its order, and of several errors the first is returned (`FirstError`,
`??`).

Each walk of the code is a recursive function of the path and a step beside it, which says what
one segment does given the walk of the rest: `ExtractStrings` and `ExtractFromSegments`, `InjectDefault` and
`InjectDefaultAtSegments`. Recursive functions, unlike RECURSIVE operators, can be proved about.
The price is that they have a domain: `Json` and `Schemas` are the values and schema nodes there
are, closed under taking parts.

| code | definitions |
| --- | --- |
| `extractFromSegments`, `extractNumbersFromSegments`, `checkArrayCapAtPath`, `checkLimitCapAtPath`, `injectDefaultAtSegments`, `CheckUnknownToolArguments`, `resolvePathInSchema` | `ExtractStrings`, `ExtractNumbers`, `CheckArrayCapAtPath`, `CheckLimitCapAtPath`, `InjectDefault`, `Conforms`, `ResolvePath` |
| `ParseAndValidatePolicyBytes`, `ValidatePolicyPathsAgainstSchema` | `Loads`, `ToolFits`, `EntriesFit`, `PathsFit` |
| `VerifyPrincipalJWT`, `PopulateOBOScopes`, `resolvePrincipal`, `HandleToolsList` | operators of the same names, `ToolsList` |
| `EvaluateStage3Guardrails`, `CheckSoDRules`, `matchProtectedCategory`, `evaluateArgConstraints` | `Stage3` and its parts |
| stages 0 to 3 of `EvaluateToolCall` | `Evaluate` |
| what becomes of the call | `Commit`, `Refuse` |
| gateway started with the next policy | `Restart` |

`Conforms` stands for `CheckUnknownToolArguments` and the schema validator together: names,
types, nullability, and for the nesting that the decoder allows (`MaxJSONDepth`, 16).
`Decoded` is what parsing makes of a policy file: a binding has a path, which is not empty
(`policy.go`, 664), a limit has numbers, a separation-of-duty binding has both paths or is not
there. `sent` is a history, and the properties are about the arguments in it, by their own reading of what a spelling means (`Means`, `At`), not about what the guardrails took
from them.

### Tokens: state and actions

`holder` is who keeps `c.mu` over a token request; every other use of the mutex is one step that
needs it free. `token`, `expiry` are the cache, `pc[c]` the place of a call in `ensureToken`,
`bearer`, `allSecrets`, the request, and `scrub`; time may pass at every place, and `waited[c]`
counts what passed between the check of the token and its request. `plan[c]` are the queries that
are left: `getJSON400` goes down one group of them, `memberOf` from group to group. `ends` of a
token is when the server stops accepting it, which is counted from its issue, while the client
counts from the arrival of the response. `echo[c]` are the secrets in the error so far.

### Scans: state and actions

One agent's walk with one tool of one provider. `ends` is the directory, as the sequence of the
numbers of the last row on each of its pages; Lumos numbers pages, SailPoint counts offsets, the
others hand out opaque cursors, which may name their own page (`loops`). Lumos and SailPoint may
answer in pages of their own size whatever is asked for (`width`), also larger ones than a scan
may inspect; Lumos may leave out the number of pages (`known`), and report as their size nothing,
what was asked for, or what they have (`said`). A request is a step; it
may fail. A result is `next`, `truncated`, and the rows that are added to `delivered`; the agent
resumes at `next`, asks for more where a result is truncated without one, and is done otherwise
(`Retry`, `Resume`, `Enlarge`, `Stop`), as the descriptions of the tools tell it to
(`okta/types.go`, 111). The same actions serve all providers; where loops differ (what caps them,
whether a page that does not fit into the budget is begun) the guards name the provider.

## Properties and runs

| run | instance | checks |
| --- | --- | --- |
| `LedgerPower` | two processes, two power failures, three audit records beyond which no operation starts | `Recoverable`, `ForwardIsAudited`, `AllowIsCommitted` |
| `LedgerCrash` | two processes, two faults of any kind, also during repair, compaction above four lines | `CacheCoherent`, `NoConflictingGrants`, `GrantsOnlyRevoked` |
| `LedgerTime` | two processes, clock 0..5, a token that expires at 3, minute 2, window 4, requests up to 1 old, compaction above three lines | `TypeOK`, `VerifyAuditPasses`, `AtMostOnce`, `BudgetRespected`, `ChallengeLimit` |
| `LedgerFork` | two processes, one killed | refutes `Recoverable` |
| `LedgerStale` | requests as old as the margin on replay records | refutes `AtMostOnce` |
| `LedgerRevoke` | one power failure | refutes `RevocationIsKept` |
| `GatewayCalls` | two requests, two pages, two notifications, nothing changes before serving | `TypeOK`, `DriftIsNoticed`, `CallsAreExclusive`, `NoReadOnNoticedDrift`, `NoWriteOnDrift`, `NothingAfterPoison`, `Answered` |
| `GatewayEarly` | one request, the tool list may change during start-up | refutes `DriftIsNoticed` |
| `StepUp` | two calls, two principals, two approvers with one clock ahead, two policies, a directory of two, in three profiles | `TypeOK`, `ApprovedByAnother`, `ApprovedLately`, `LivingIsAccepted`, `DirectoryBounded`, `RecentIsKept`, `KeepsPromise` |
| `Authorize` | three tools, seven pairs of policies or single ones, two forwarded calls | `TargetsAreSpared`, `DutiesStaySeparate`, `LimitsHold`, `PoliciesFit`, `ListedIsCallable` |
| `TokenCache` | two calls, tokens that live shorter and longer than the skew, two refreshes, clock 0..3 | `TypeOK`, `TokenOutlivesRequest`, `RefreshedOnce`, `ErrorsAreClean`, `SentAtMost`, `CallReturns` |
| `StaleScan` | five providers, four kinds of tools, seven directories of up to seven rows, pages of the provider's own size, unreported counts, all sets of stale rows, one error | `NothingMissed`, `NoRepeats`, `CallIsBounded`, `WalkEnds` |

What some of the runs show:

- **GatewayCalls.** Reads and writes are promised different things. A read looks at the two
  generations under the lock it is forwarded with, so that whatever was announced before keeps it
  from passing (`NoReadOnNoticedDrift`). A write fetches the list itself once it has the lock, so
  that a page which differs all along is found even if nobody announced it (`NoWriteOnDrift`),
  but a page that changes behind the reader is not, and a notification that comes in
  during the fetch or after it does not stop the write: `proxy.go`, 628 to 646, commits and
  forwards without another look at `notifiedGen`. SPEC, line 163, describes it so. What is
  promised of such a change is that it is not lost (`DriftIsNoticed`): the next call verifies.
- **StepUp.** `KeepsPromise` is the refinement: whatever races, fails, times out or is killed, an
  approval is spent before anything is forwarded, lets at most one call through, and what is lost
  stays lost. `ApprovedByAnother` is about the policy and ledger that the gateway runs when it
  forwards, not those that were there when the approval was given. `ApprovedLately` and
  `LivingIsAccepted` bound the time window from both sides, with the approver's clock up to the
  skew ahead or behind. `DirectoryBounded` and `RecentIsKept` are about concurrent pruning by
  listings that are out of date: the directory may grow beyond its limit by the number of
  calls under way less one, and no receipt goes that is younger than 15 minutes and among the newest.
- **Authorize.** The properties hold for every spelling under the conditions that their comments
  name, and these are the ones under which a policy means what it says (see below). `PoliciesFit`
  is about the type of what a path leads to, for bindings, caps, limits and constraints alike.
  To that end `Paths` and `Constrained` report `type` where the code has the one error for a wrong
  type and for a value out of bounds. A limit may be of schema type `number` (`policy.go`,
  1602): a fraction then conforms to the schema and is refused by `checkLimitCapAtPath` (1098),
  which the model calls `fraction`; that is a matter of its value and not covered.
- **TokenCache.** `TokenOutlivesRequest` is why `tokenSkew` is twice the HTTP timeout: the life of
  a token is counted from the arrival of a response that may have taken one timeout, and the
  request it is then sent with may take another.
- **StaleScan.** A walk that ends has found every stale row (`NothingMissed`), through limits that
  cut a page, scan budgets that run out in one, empty pages, and calls that fail and are repeated,
  provided that the tool can tell the last page from the others (`Tells`): a provider with
  numbered pages or offsets reports how many there are, or a full page is as long as the tool
  expects. Where that is not so rows are lost (next section).
  `NoRepeats` is about walks in which no result has carried the note that `signInActivity` is not
  available: if Graph refuses the field in one call and not in the next (`entra/users.go`, 142),
  the first is cut further on in the directory than the second, which has more rows to return, and
  what is resumed behind the second returns some of them again. Without `~noted` TLC shows that.

Why these bounds are enough for the question each run asks: every property relates at most two
completed operations and one interrupted one, of at most two processes. `LedgerPower` and
`LedgerCrash` allow an operation, a fault, an operation of the other process, a second fault, a
repair or recovery, and an operation after it. Two writes with conflicting grants, one under a
token, meet each other in both orders; `CompactAt` is low enough for a compaction to happen both
in a process that wrote the other's records and in one that has to read them first. `LedgerTime`
lets the clock reach every expiry (token, replay margin, minute, window) while a request with the
previous `now` is still to come. In the ledger's runs deadlock is checked: a process can always exit and open again, whatever
bound is reached.
Properties that concern the passage of time are in the run with a clock only: `LedgerPower` and
`LedgerCrash` keep it at 0, since expiry and faults meet in `Kept` alone.

The passing runs exclude what goes wrong (next section): `LedgerPower` has no process death
without a power failure, since a survivor forks the chain (`LedgerFork`), and no I/O errors;
`LedgerCrash` leaves out challenges and checks neither `Recoverable` nor `ForwardIsAudited`;
`LedgerTime` has requests younger than the margin (`LedgerStale`). `BudgetRespected` and
`ChallengeLimit` shorten the window by the age a request may have, which the code does allow: a
compaction with a newer `now` drops entries that an older request would still have counted.
Calls are counted over a full minute, because their records last for the whole budget window:
that takes a window which outlasts the minute by the age of a request. The loader accepts a
window of a minute (`policy.go`, 336); with `BudgetWindow = Minute` in `LedgerTime.cfg` TLC
refutes `BudgetRespected`.

`Recoverable` is about what `repair` and then `serve` would do, hence the cuts in its statement.
Repair itself may be interrupted in `LedgerCrash` and not in `LedgerPower`: an interrupted repair
can be two records behind, which is outside what SPEC 4.6.3 promises.

`GatewayCalls` has the two pages that a change behind the reader needs, and two notifications:
one that starts a verification and one that arrives in it. Two requests meet in every pair of
kinds, as reader and writer and as two writers; a third would only queue up behind them. The
gateway really stops when start-up fails, or once it refuses everything, hence
`CHECK_DEADLOCK FALSE`; that no request waits for ever is `Answered`.

`Answered` assumes `FairSpec`: a goroutine that can run does, and one that waits for the mutex
inside `epochMu` infinitely often free gets it (Go's mutexes hand over to those that waited for
more than a millisecond, and to readers when a writer leaves). An upstream request ends by its
answer or its timeout, so `FetchPage` or `FetchFails`, and `Answer`, always happen. Notifications
are finitely many (`MaxGen`): a server that announces changes without end keeps a read in its
loop without end, and nothing in the code limits it. Nothing is assumed of the upstream server.

`StepUp` has three profiles (`MCBounds`), since its dimensions multiply: calls that race for the
directory, with twice as many receipts as it holds; one approval under two clocks that tick
through every boundary of its life; two approvals with a second policy, a restart and a second
ledger. `FairSpec` says that a call that has begun goes on: no step of it waits for anything but
`epochMu`, whose holder is another call, and an upstream call that ends by its timeout. A
gateway that is down or whose clock has reached its bound may stay so, hence
`CHECK_DEADLOCK FALSE`.

`Authorize` restarts a gateway with another policy for as many combinations of case mode and case
folding as disagree, so that names recorded under one meet names asked for under the other. Two
forwarded calls suffice, since a conflict is between two grants. `HardCap` and the limits are the
least with a value below, at and above each. `MCJson` holds the arguments of the run, with every
limit put in that a default or a caller may give, and their parts. It checks no liveness.

`TokenCache` has tokens whose life is below and above the skew, a skew of two and a timeout of
one, which are the proportions of the code (60 s and 30 s). A third call would queue behind the
second. `CallReturns` assumes `FairSpec`: every exchange ends, at its timeout at the latest, and
`sync.Mutex` hands itself to a goroutine that has waited for a millisecond, hence strong
fairness for what takes it.

`StaleScan` scales the code's numbers down (50, 200, 10, 500, 100, 10, 50, 1000) and keeps their order; its
directories are those that cut a scan at a limit, at a budget, at the number of pages, within a
page, at an empty one and in a first page larger than the budget; a provider's own page size is
below, above and beyond it. Of the stale users none, the first two, all but these, or all are
disabled: enough for an answer without `signInActivity` to end before and behind one with it. The directory does not change during a walk: if it does, cursors by
number or offset skip or repeat rows whatever the client does. `WalkEnds` assumes that a tool
runs to its end, which its timeouts justify, and that the agent goes on; it is about directories
whose cursors lead on, since nobody can end a walk through one that leads in a circle, and whose
pages a call can inspect (`PagesFit`, next section). `CallIsBounded` says that in the others each call
ends anyway. It bounds the pages for all providers, and the rows for Lumos, SailPoint and
ConductorOne, which count them against their cap; the loops of Okta and Entra have no such cap,
and that a call inspects at most 500 accounts (`okta/types.go`, 112) is ten pages of the 50 rows asked for,
as long as the provider sends no more.

## What the refuting runs show, and what else is known

- **LedgerFork** - recovery of a lagging audit_hwm happens in `OpenLedger` only. A process that
  already has the ledger open appends by audit_hwm alone and repeats the sequence number; after
  that `serve`, `verify-audit` and `repair` refuse the ledger.
- **LedgerStale** - a write waits for `epochMu` as long as another write's upstream call lasts.
  Its `now` is from before the wait. Once it is older than the 60 s margin of replay records, a
  compaction has forgotten the token and the old `now` still accepts it.
- **LedgerRevoke** - `revoke-grant` audits a revocation before it is durable.
- **GatewayEarly** - notifications that arrive before `gwRef.Store` are dropped, although the
  tool list they announce may have changed behind the start-up verification.

Without a run of their own, by changing the settings of one:

- `Faults = {"io"}` in `LedgerPower.cfg` refutes `Recoverable` and `ForwardIsAudited`: a partially
  written audit line swallows the next record, which may be the `pre_forward_allow` of a call that
  is then forwarded (SPEC, line 233, has an `aborted_after_commit` marker written instead).
- `Ops = {"challenge"}`, `Faults = {"io"}` and `MaxFaults = 1` in `LedgerTime.cfg`, with
  `CacheCoherent` among its invariants, refute that: a failed audit append after a challenge
  leaves a cache that claims the challenge's bytes and lacks its record; that process undercounts
  from then on.
- A `tools/list` that times out or whose request is cancelled counts as the end of the upstream
  process, for good: `dead` does not imply that it has exited or closed its pipe, which is what
  `UPSTREAM_PROCESS_TERMINATED` says (SPEC, line 605). `callUpstreamSession` does the same for
  every error of a call that is not a timeout, a cancellation or an oversized answer.
- A scan whose limit is 200 and whose page holds more stale rows than that leaves room for is
  truncated without a cursor; no larger limit is accepted, so the agent is `stuck`
  (`okta/tools.go`, 286, and its description in `okta/types.go`, 111). `NothingMissed` is about
  walks that end otherwise.
- Without `Tells`, TLC refutes `NothingMissed`. Lists and account reports of Lumos go by the length
  of a page when the number of pages is not reported: lists compare it with the reported size and
  end behind the first page if that is missing or is not the page's length (`lumos/tools.go`, 111,
  174, 605), the report of a user's accounts compares it with the size it asked for (506).
  `FindStaleAccounts` puts in its own size for a missing one (266). The results are not truncated,
  which means that nothing follows (`idmcp/result.go`, 13, `lumos/types.go`, 43). Likewise for a
  SailPoint server whose pages are not as long as asked for: `NextOffset` takes a page of
  any other length for the last.
- Without `PagesFit`, TLC refutes `WalkEnds`: a page with more rows than a scan may inspect is cut
  in every call and named again (`lumos/tools.go`, 271 and 297, pinned by `lumos_test.go`, 242;
  `sailpoint/tools.go`, 299 and 312, `sailpoint_test.go`, 436), so an agent that resumes there gets
  the same rows for ever and never those behind the cut. ConductorOne's first page has no token
  to name; such a call is truncated without a cursor.
- The loader makes sure that protected entries, rules and static entitlements can be normalized,
  not that they are normalized: with `ascii_lower` and no case folding the entry `Admin` never
  matches (`src/README.md`, 290). `TargetsAreSpared` says so with `InNormalForm`.
- Two tools with different case modes and a rule without case folding record one spelling under
  two names. `DutiesStaySeparate` takes such a rule at its word: it is about names as the bindings
  spell them (`Means`), not about what two tools would call the same.
- A limit in an object that the call leaves out gets no default (`policy.go`, 1289, says absent
  paths do), a limit path that ends in `[*]` gets a number in place of its array, so that a call
  without it fails the schema.
- An array cap that ends in `[*]` caps the array in front of it (`policy.go`, 1054), though such a
  path loads only if the elements are arrays themselves and SPEC, line 629, speaks of the array at the
  path; how long the elements are is then not looked at. `LimitsHold` says which array it is about
  with `Capped`.

## Proofs

All statements hold for every value of the constants under the named assumptions of their module.
For the ledger (1 to 9): any sets of processes, principals, tokens, subjects, entitlements, rules
and calls, any limits and any number of faults, under `LedgerConstants`: natural-number limits,
finite sets of subjects and entitlements, calls of the shape `WriteCall`, and the null values
outside the sets they extend. `~ReuseInodes`, and no I/O errors where challenges are issued, are
hypotheses of 2 to 9; item 2 says why.

1. `LedgerTypeOK` : `Spec => []TypeOK`. `TypeOK` alone is not inductive: the next sequence number
   is taken from the last audit_hwm of the section's state, so there must be one (`HwmKnown`).
   `Parses` gives it at entry; appends keep it, and a compaction ends the section.
2. `LedgerCacheCoherent` : `Spec => []CacheCoherent`, from the invariant `CacheInv`. Idle caches
   whose inode is the file's hold exactly the records of a prefix of it (`Mirrors`), and a
   section knows at each of its steps what it has made of the file (`AppendSection`). Whatever a
   section does to the file is an append, the cut of a torn last line, or a new inode
   (`FileStep`), and each of these keeps the caches of the others right (`OthersKeep`). The cut
   is harmless because no cache contains a torn line (`Whole`).
   Hypotheses: `~ReuseInodes`, and no I/O errors if challenges are issued. Both are necessary:
   the second by what is said of challenges and I/O errors above, the first because a file system may give the compacted
   file the inode number that a process cached two compactions ago, whereupon TLC finds a cache
   that shows the old records. Linux file systems do reuse inode numbers; the code's further
   guard is the size only.
3. `LedgerNoConflictingGrants` : `Spec => []NoConflictingGrants`, from `GrantsInv`: what is in
   `state.db`, and what a section is about to write to it, is free of conflicts in every prefix.
   Prefixes are what crashes and failed writes leave, so these need no further argument
   (`PrefixSafePrefix`, `PartialSafe`). A commit is checked against the view of its section, which
   is the file (`CacheInv`), so its lines fit the file (`CommitCompatible`, `SafeConcat`); a
   compaction keeps live grants and revives none (`CompactedSafe`). Hypotheses as above.
4. `LedgerAtMostOnce` and `LedgerAllowIsCommitted` : `Spec => []AtMostOnce` and `Spec =>
   []AllowIsCommitted`, from `ReplayInv`. A token that was let through or audited is `Held`: its
   replay record is among the synced lines, or the clock is past the expiry of the record. No step
   undoes that (`HeldKept`): appends, partial writes and power failures keep the synced lines
   (`Lasting`), the cut of a torn line is not the cut of a record, and a compaction keeps every
   record that has not expired (`CompactSpares`). A commit that passes the replay check carries a
   token that is not `Held` (`FreshToken`), has its record on disk before it is audited
   (`TokenJob`), and returns as the first one under its token (`DoneHeld`). Hypotheses as above,
   and `MaxStale < Minute`: `LedgerStale` refutes `AtMostOnce` when a request may be as old as the
   margin on replay records.
5. `LedgerGrantsOnlyRevoked` : `Spec => GrantsOnlyRevoked`, an action property. A grant is settled
   if it is among the synced lines with no revocation of it behind, on disk or not. Steps either
   keep the synced lines or compact (`StepLasts`); what they append revokes the grant only if it
   is a revocation of just that grant (`RevokesInv`: what a section is about to write revokes no
   more than its `ref` says), and a compaction, which rewrites the file from what the section
   knows, keeps live grants in it (`GrantStays`).
6. `LedgerVerifyAuditPasses` and `LedgerRecoverable` : `Spec => []VerifyAuditPasses` and `Spec =>
   []Recoverable`, from `ChainInv`. The property speaks of moments between sections; the invariant
   has to say at each step of a section how far it has got. `Consistent` says so: at rest both files
   `Agree`; in a section, the audit file ends with the record the section is about, or the one
   before, and every prefix of `state.db` that is at least what was synced has as its last
   audit_hwm the one (`OldMark`) or the other (`Mark`). So whatever survives a power failure is at
   most one record behind, and after the cuts of `repair` can be opened (`Mendable`). It is claimed
   until something fails, and beyond if only the machine does, and not in a repair (`Mild`): after
   a kill or an I/O error `LedgerFork` refutes it. Hypotheses of `LedgerRecoverable`: `~ReuseInodes`, `Faults \subseteq
   {"power"}`, `~RepairFaults`.
7. `LedgerForwardIsAudited` : `Spec => []ForwardIsAudited`, from `AuditedInv`, under the hypotheses
   of `LedgerRecoverable`. What has returned and what is past the fsync of its audit record
   together never exceed the synced records of the same write (`Balanced`); a record that is
   synced stays (`RecordsStay`), since repair cuts only what is torn and nothing synced ever is.
8. `LedgerChallengeLimit` : `Spec => []ChallengeLimit`, from `QuotasInv`. The code counts records in
   the file, the property counts calls that returned; the invariant `RecordsInv` connects them. As
   long as an entry of the history has not expired by the clock, its record is among the synced
   lines, and different entries have different records (`Finds`, an injection). Appends, cuts and
   power failures keep the injection (`RecordsLast`), a compaction moves it along with the lines it
   keeps (`RecordsCompact`), and a section adds its own record (`RecordJob`, `RecordsGrow`). So the
   history fits into what the call finds in its window (`UsedIsShown`), also for windows that end
   later than its `now`, which matters as requests come out of order; a call that passes has
   `Room`, and keeps it until it returns because it holds the lock (`QuotaStep`, `QuotaGrows`).
9. `LedgerBudgetRespected` : `Spec => []BudgetRespected`, from the same invariant for calls and for
   targets (`Meters`), with `Minute + MaxStale <= BudgetWindow` as the only further hypothesis; it
   is needed, see above. Sums of targets are counted as sets of pairs in model and property
   (`Targets`, `TargetsOf`), so that cardinalities can be compared by injections.
10. `TokensTypeOK`, `TokensOutliveRequests`, `TokensErrorsAreClean`, `TokensRefreshedOnce`, for any
    set of calls, lifetimes, plans and any timeout of which the skew is at least twice
    (`TokensConstants`), all from `TokensInvariant`. Beside the types, `TokensInv` says of the
    cache that the mutex is held only while the token cannot be used and that the local expiry
    lies before the server's by the skew less one timeout (`Margin`), and of each call how long
    ago its token was good and that the secrets collected for its error contain the one in its
    header. The margin is what makes the time between check and request, and the two exchanges,
    add up.
11. `TokensSentAtMost` : `Spec => []SentAtMost`. A call goes through its queries in order and each
    through its forms; what it has sent and what is left of its plan add up to no more than
    `Queries`, a counted set, and a refused token request sends nothing (`SentInv`).
12. `StepUpTypeOK`, `StepUpApprovedByAnother`, `StepUpApprovedLately`, `StepUpLivingIsAccepted`, for
    any policies, identities, calls, approvers, clocks within the skew, restarts and new ledgers
    (`StepUpConstants`). `TypeOK` is inductive together with what the command has made sure of
    before it asks (`SessionsInv`), since that bounds the lifetime of what it signs. `StepUpInv`
    adds that an approval keeps what its approver was asked (`ReviewInv`), that a call from its
    verification on bears an approval that covers it, under the policy and ledger in force
    (`CallsInv`: both change only while the gateway is down, and then there are no calls), and
    that the same goes for what was forwarded (`ForwardInv`).
13. `StepUpImplements` : `Spec => Promise!ASpec`, the safety part of `KeepsPromise`. `StepCases`
    sorts the steps by what they do to an approval: nothing, or one step of `Approvals` each.
    `OrderInv` is what they need: an approval belongs to the one ledger of its intent
    (`UsedInv`), so that one not spent there was not spent at all, also after `init-state`; what
    is settled was sent and what was sent was spent (`SentInv`); and at most one call is between
    its commit and its report (`OneInFlight`, which is `epochMu`).
14. `StepUpDirectoryBounded` : `Spec => []DirectoryBounded`. Each call prunes what its own listing
    shows to be too many, and other calls create receipts meanwhile. `DirInv` numbers the calls
    by when they listed the directory, and takes the last one that has pruned: of what it had
    listed there is room left, and what has come since came from calls that had listed before it,
    one file each (`Due`). The set of calls is finite (`StepUpConstants`).
15. `StepUpRecentIsKept` : `Spec => RecentIsKept`, an action property. Listings are of the past
    (`DatesInv`): the date of a receipt in a listing lies between
    its making and its present date, since dates never go back, so what a call takes for no older
    than the file it removes still is.
16. `GatewayTypeOK`, `GatewayLocksReleased`, `GatewayCallsAreExclusive`, `GatewayNothingAfterPoison`,
    for any requests, pages and notifications. `LockInv` says what kinds of requests pass where
    (`KindInv`), that those inside hold the lock, and that a writer past the drain has no readers
    beside it (`HoldInv`). So whoever fetches the tool list is alone with it (`AloneAtFetch`), and
    nobody poisons between a call's last check and its sending (`UnpoisonedInv`). That every early
    return gives up its lock is `LocksReleased`; no run lists it, since a lock that is kept makes
    `Answered` fail.
17. `GatewayDriftIsNoticed`, `GatewayNoReadOnNoticedDrift`, under `~EarlyNotices`: what was fetched of
    the tool list since the generation was read is as pinned unless something has been announced
    since (`FetchedInv`). The hypothesis is needed: `GatewayEarly` refutes `DriftIsNoticed` without it.
    `GatewayNoWriteOnDrift` needs no hypothesis: no page that a verification has fetched and found
    as pinned has differed since it began (`WatchedInv`).
18. `ScansNothingMissed` and `ScansCallIsBounded`, for any directory, page size (of the tool or of the
    provider), limit, cap and number of failed calls, from `ScansInv`; the first with `Tells` as its
    premise, which makes a page that ends a walk the last one. A cursor stands for the number of rows in front of it
    (`Before`); what was delivered and what this call has collected are all the rows sought up to
    there (`Reached`), however a page was cut by a limit, a budget or an end. `Bounded` says that a
    scan which goes on has not used up its pages and rows.
19. `ScansNoRepeats` : `Spec => NoRepeats`, an action property. What was delivered lies in front of
    where a walk is resumed (`Onward`). The hard case is a call that is made again, with a larger
    limit or for the page it was cut off in: it must not stop in front of what the call before it
    has delivered and offer a cursor there. `Passes` says when a scan reads its k-th page and goes
    on, from the position of that page alone (`PlacesAscend`, `PageBetween`), so that one call can
    be compared with another; what a call has passed, one from the same cursor with a larger limit
    passes too (`AgainGrows`, `AgainBehind`), and a call that stops stands at a page that none
    passes (`PassesHere`).
20. `TargetsAreSparedAlways`, `DutiesStaySeparateAlways`, `LimitsHoldAlways`, `PoliciesFitAlways`
    and `ListedIsCallableAlways`: all five properties of `Authorize`, for any policies that load,
    paths of any length and shape, schemas, arguments, JWTs, calls at once and restarts, all from
    `AuthorizeInvariant`. The properties speak of what was forwarded, and none is inductive: what
    was forwarded was let through earlier, from a state that is gone. `AuthorizeInv` keeps what
    is needed of that state. A call under way or forwarded is `Vetted`: it was made from arguments
    that the tool may be called with, under a policy that was loaded, and passed the checks of
    stage 3 on targets, subjects, arrays and limits (`PassesStage3`), which depend neither on the
    clock nor on the ledger. And the ledger knows what comes of every forwarded write (`Pairs`), so
    that `CheckSoDRules`, run again at the commit, keeps it apart from all before it (`Separate`),
    although stage 3 looked at an older ledger.
    From there each property is a matter of what the checks say of the arguments:
    - `StringsFound`: a walk that reports no error has found all that the path leads to (`At`), so
      no target, subject or entitlement is overlooked; `NamesFound` carries that through the
      normalizer.
    - `CapsHold`, `LimitsInBounds`: likewise for array caps and limits.
    - `DefaultIsThere`, `DefaultKeeps`, `DefaultsAreThere`: an injected default is found wherever
      there is an object for it, and injecting another one, whose path may run through the same
      objects, takes no earlier one away. `LimitsHold` needs it for two limits of one tool.
    - `StringsAreStrings`, `NumbersAreNumbers`, `ArraysAreArrays`, `LimitsAreNumbers`: if a path
      resolves in the schema to the type a binding reads, no conforming arguments make the walk
      find another type.
    - `RulesKeepApart`: what `CheckSoDRules` counts, in terms of pairs of names.

    Assumptions: `BoundsAssumption` (`HardCap` and `MaxJSONDepth` are natural numbers; in the
    code 1000 and 16), `JsonAssumption`, `SchemasAssumption` and `InjectionAssumption` (the values
    and schemas that there are have their parts among them, and arguments with a default put in
    are JSON values again), `DeploymentsAssumption` (policies are as `Decoded` says, and the
    entitlements of a rule are a finite set) and `CallsAssumption` (arguments are JSON
    objects, and a call may come without a JWT). TLC evaluates all of them in run `Authorize`.
21. `Equation` in `Recursion`: the value of a recursive function is what its definition says. In TLA+
    that has to be proved, since the definition is a CHOOSE. The module takes the step as
    a constant operator and is instantiated once for each walk, since the provers cannot
    instantiate theorems that quantify over operators. It shows by induction over the rank
    that solutions for all arguments below a rank exist and agree. Facts about all paths are
    proved with `PathInduction`, on the set of lengths at which all paths have them.

Only model-checked, and why:

- Liveness, which the prover does not handle: `Answered`, `CallReturns`, `WalkEnds`, and of
  `KeepsPromise` that what is spent is soon forwarded or lost.

Every invariant and every action property of the passing runs has a theorem.

The properties that runs refute (`LedgerFork`, `LedgerStale`, `LedgerRevoke`, `GatewayEarly`) show
which hypotheses of the theorems are needed.

For the ledger and for `Authorize` no fairness is assumed: their properties are safety and action
properties. Handlers are started by clients and faults by the environment, and a section may
always be cut short.

## Plan

1. **LedgerSpec**: an abstract ledger whose commit, challenge and revocation are single atomic
   steps on sets of consumed tokens, grants and charges, implemented by `Ledger` through a
   refinement mapping that takes effect where the records become readable; the step from
   `ReplayInv`, `RevokesInv` and `QuotasInv`, which already relate the history to the file.
2. The pin command and the lockfile signature (`pin.go`) as a protocol between an administrator,
   the upstream server and a gateway that starts.

## Not modelled

Canonical JSON and signatures (a digest stands for the value digested, a signed thing for what its
owner has signed; keys are not revoked), file ownership and permission checks (`tcb.go`,
`fs_*.go`), request building and field mapping of the provider tools, sanitising of upstream
results, error texts, process start-up and flag parsing. In the ledger: the test-only
`ForceCompact` and `SkipNextHWMUpdateForTest`, the maximal sizes of the files, and replacement of
the files by someone other than the gateway's processes. In the policy: parsing of keys, the
keyword subset of schemas, and `ExtractAndStripApprovalToken`. In the clients: validation of
endpoints and of identifiers. The write tools of the providers are one request each and keep no
state; what can go wrong about them is in `Tokens`.

## Running

    tlc -workers 2 -config LedgerCrash.cfg MCLedger.tla
    tlc -workers 2 -config GatewayCalls.cfg MCGateway.tla
    tlc -workers 2 -config StepUp.cfg MCStepUp.tla
    tlc -workers 2 -config Authorize.cfg MCAuthorize.tla
    tlc -workers 2 -config TokenCache.cfg MCTokens.tla
    tlc -workers 2 -config StaleScan.cfg MCScans.tla
    tlapm LedgerFiles.tla
    tlapm LedgerCommits.tla
    tlapm TokensProofs.tla
    tlapm StepUpProofs.tla
    tlapm ScansProofs.tla
    tlapm GatewayProofs.tla
    tlapm Recursion.tla
    tlapm AuthorizeProofs.tla

Symmetry over `Procs`, and over the calls of `Authorize`, is used where all are alike and no
liveness is checked.
