# A TLA+ verification of the AI coding environment

The repository is a local coding assistant: a command line and a desktop window
walk *tasks* through a guarded lifecycle, agents call tools behind a policy, and
requests go to model providers under budgets. Everything durable is in one
SQLite file that several processes use at once. This directory holds TLA+ models
of the parts where order, interleaving and failure matter, TLC configurations
that check them on small instances, and TLAPS proofs of theorems about them for
every value of their constants.

    tlc -workers 2 -config engine_single.cfg MCTaskEngine
    tlapm TaskEngineProofs.tla

`PROJECT.json` maps every definition to the lines it models and lists the runs,
the mutants each property must catch, the hazards, the findings and the theorems.

## 1. The system

| component | its state | its operations | talks to | what is hard |
|---|---|---|---|---|
| task states and guard (`core/src/states.ts`, `orchestrator/src/index.ts`) | none: a table of edges and six gates | `canTransition`, `guardTransition` | called by the engine | the table is dense, and a gate must hold on every path |
| task engine (`orchestrator/src/engine.ts`) | rows of `tasks`, `runs`, `audit_events`, `test_results`, `security_findings` | `transition`, `approve`, `recordCheckpoint`, `recordVerify`, `recordReview` | the DAOs; called by the CLI, the desktop commands and the workspace service | seven reads, then three writes, each in a transaction of its own; other processes write in between |
| workspace service (`orchestrator/src/workspace-service.ts`) | `workspaces` rows, worktrees and branches of the user's repository | `prepare`, `remove` | engine, git runner | several git commands and rows that cannot be undone together |
| git runner (`git/src`) | the repository | `worktreeAdd/Remove`, `createBranch`, `checkpoint` | git | external failures |
| provider chain (`providers/src/{router,dispatcher,budget,registry}.ts`) | `budget_events`, `models`, a health cache per router | `complete`, `health`, `probeModel`, budget `guard`/`record` | adapters, network | awaits between check and record, failover, stale cache |
| provider adapters (`providers/src/{adapters,http}.ts`) | none | request and response translation | network | which answer counts as usage, which failure as which code |
| policy kernel (`policy/src`) | none | `evaluate` | tool runtime | precedence of deny, approval and allow |
| tool runtime (`tools/src/runtime.ts`) | registry of tools | `call` | policy, tools, audit | a timeout that does not stop the tool |
| terminal (`tools/src/terminal.ts`) | a child process, its buffers and timers | `execArgv` | the operating system | exit, timeout, output cap and two kill timers race |
| other tools (`tools/src/*`) | the jailed tree | read, write, search, git, tests, scanners, browser, memory | behind the runtime | checks of a path that changes before it is used |
| agents (`agents/src`) | the transcript of a run | `runAgent` | router, tool runtime | must stop whatever the model answers |
| memory (`memory/src`, `storage/src/dao-memory.ts`) | `memory_entries`, retention policies | `set`, `get`, `list`, `delete`, `sweep` | SQLite | expiry and retention racing with refreshes |
| secrets (`secrets/src`) | an encrypted file and its key | `store`, `load`, `remove` | the file system | read-modify-write of a whole file; creation of the key |
| MCP (`mcp/src`) | servers, tokens, approvals, pinned skills | stdio calls, `decideMcpCall`, OAuth exchange, refresh and revoke | vault, child processes, network | settle, timeout and close race; two writes per rotation |
| context and routing (`context/src`) | a repository index | `routeTask`, `escalate`, `debateVote`, retrieval | models table | ties and fallbacks |
| database and migrations (`storage/src/{database,migrate}.ts`) | `schema_migrations` | `openDatabase`, `applyMigrations` | SQLite | two processes that boot together |
| command line and desktop bridge (`apps`, `ui/src`) | none of their own | one command is one process | everything above | read early, write late |
| operator scripts (`scripts/db-*.mjs`) | backups | backup, restore, migrate | the database file | running processes meanwhile |
| security scanners and guards (`security/src`) | none | patterns over strings | everything that takes text | the patterns themselves |
| release and check scripts (`scripts`) | none | build-time steps | files | nothing concurrent |

The components meet in three ways. *Calls*: a command calls the workspace
service, which calls the engine; the agent loop calls the router and the tool
runtime. All of storage and of git is synchronous, so inside one process calls
nest; only provider, tool and MCP calls are awaited. *Shared tables*: every
command is a process and every SQL statement commits on its own, so the
processes interleave between statements. No transaction spans two of them, and
no busy timeout is set, so a statement may also throw. *Evidence*: the engine
never receives proofs from its caller; it looks for approvals, checkpoints,
reviews and verify claims in the audit trail and for test runs and findings in
their tables.

What makes each component correct:

* engine: no state behind a gate without the gate's evidence; a bounded fix
  loop; a closed task stays closed; a recorded claim is backed by the tables;
  the trail and the tables tell the same story;
* workspace service: worktrees only after the gate; one workspace per task; rows
  and worktrees agree; a failed prepare stops the task; every call returns;
* provider chain: budgets bound what is spent; classification, egress and secret
  checks hold for every send; one answer per request; no premature giving up; a
  verified model answered itself, and a row is marked `available` only after its
  provider answered (not always for that row's model: section 6);
* tool runtime and agents: nothing runs that policy refused or left to a human who
  did not approve; a call is answered once; the loop stops;
* memory: a sweep leaves nothing it should have removed, trims the oldest, and the
  operator's policy outlives every boot;
* vault: the key opens what the file holds; a provider's row names a secret that
  loads;
* MCP: no call past its gates; no token comes back after it was deleted; the
  refresh token in the vault is one the server still accepts;
* database: a migration is applied exactly when the ledger says so; a backup that
  no checkpoint crosses holds what was committed; a restore replaces the database and
  nothing else;
* context and routing: no file in reach of the walk is left out of an index, nothing
  that fits out of a pack; no
  route to a model that is not cleared; an even vote is not decided by the
  alphabet.

## 2. The modules and how they correspond to the code

### TaskStates, TaskEngine, TaskMachine, TaskSafety

`TaskStates` is the table of edges built by `buildTransitions` and the six gates
of `guardTransition`, as predicates over a *context* of evidence. It has no
variables; the engine, the abstract machine and the workspace service share it.

`TaskEngine` takes the engine apart into its SQL statements. A process has at most
one call in progress; `pc[p]` is the next statement and `call[p]` is what the call
has read so far.

| in the model | in the code |
|---|---|
| `state`, `risk` | `tasks` rows |
| `audit[t]` | what the engine reads back of `audit_events`: the plan and final approvals, the checkpoint, the newest verify row (its decision and claims), the newest review, and the newest lifecycle row |
| `fixRuns` | `countFixLoops` |
| `testRow`, `newestSuite`, `findings` | `test_results`, `security_findings` |
| `BeginTransition` | `tasks.get`, the default target, the early return without one |
| `ReadLedger`, `ReadVerifyRow`, `ReadReviewRow` | `assembleGuardContext` |
| `SetState`, `RecordRun`, `AppendTransition` | the three writes of an allowed transition |
| `DenyTransition` | the audit row of a refused one |
| `BeginVerify`, `CheckTests`, `CheckFindings`, `AppendVerify`, `DenyVerify` | `recordVerify` |
| `Approve`, `RecordCheckpoint`, `RecordReview`, `RecordTests`, `AddFinding`, `ResolveFinding` | the one-statement commands |
| `Fault` | a process that dies, or a statement that throws, in mid-call |

Left out: the `overrides` argument of a transition, which only tests pass; audit
rows that no code reads; projects and permissions, which never change the result.

`TaskMachine` is the abstract specification: a task moves in *one* step, along an
edge, on the evidence of that instant, and approvals are never withdrawn.
`ImplementsMachine` says that the engine's statements implement it, under a
refinement mapping that counts a fix loop from the moment its state is written.
`Promised` is what the machine guarantees to whatever implements it.
`TaskSafety` states the properties.

### WorkspaceService, WorkspaceSafety

Each table statement is one step, those of an engine call included, and so is each
git command. `ask[p]` holds the locals of `TaskEngine.transition` and who called it: a
command, the loop of `prepare`, its gate or `block()`. A path under `.aice/worktrees`
is made from the clock, so the n-th call of `prepare` tries path n.

| in the model | in the code |
|---|---|
| `state`, `risk`, `planApproved`, `checkpointed`, `fixRuns` | the task's row, the approvals and checkpoints of the trail, `countFixLoops` |
| `tree`, `branches` | the worktree at a path, and whether `agent/<task>` exists |
| `rows` | the `workspaces` row of a path |
| `Ask`, `Weigh`, `Refuse`, `SetState`, `RecordRun` | `transition`: the read of the task, of the evidence, the two writes |
| `Denied`, `Allowed` | where each caller goes on after a refusal and after a move |
| `BeginPrepare`, `Look`, `AdvancePhase`, `NoWayForward` | the loop that walks a task up to the gate |
| `Gate`, `AskGate` | the plan approval gate |
| `RecordCheckpoint`, `AddWorktree`, `CreateBranch`, `InsertWorkspace` | the rest of `prepare` |
| `PrepareFails`, `Block` | any of it failing, and the epilogue that blocks the task |
| `BeginRemove`, `RemoveTree`, `RemoveFails`, `MarkRemoved` | `remove` |
| `Advance`, `ApprovePlan` | `task advance`, `task fail` and `approve plan`, in any process |
| `Fault` | a process that dies, or a statement that throws |

The evidence is weighed in one step: approvals, checkpoints and runs only grow, and
no gate weighs two of them that can still change at that point (`TaskEngine` has the
reads one by one). `MovesByTheMachine` says that the service, too, implements
`TaskMachine` while one process at a time works and does not die; `GatesKept` is what
is left of it for any number of processes; `CallsShrink` is why the loop of
`prepare`, which has no bound of its own, ends.

### ProviderChain, ProviderSafety

A *caller* is a process with one request in flight and a router of its own; all
callers share the ledger and the models table. Code between two awaits is
synchronous; the awaits are the health probe (`probing`) and the provider call
(`sent`). The statements that follow an await are separate steps.

| in the model | in the code |
|---|---|
| `spend[b]` | `sumsSince` of one limit of one `budgets` row, over its current window |
| `status`, `verified` | `models.status`, `models.verified` |
| `healthCache[c]` | the router's unexpired probe results |
| `call[c].name`, `TargetOf` | the model the request names; what a provider is asked for |
| `call[c].model` | the candidate's row, which the router marks |
| `BeginRoute`, `SkipCandidate`, `TryCandidate`, `Exhaust`, `RouteAnswers` | the loop of `FailoverRouter.complete` |
| `CachedHealth`, `StartHealthProbe`, `HealthDenied`, `HealthAnswers`, `HealthExpires` | `health` with its cache, the dispatcher's gate and the adapter's probe |
| `Deny`, `Send` | `gate`, `gateOutbound` and `guard`, in that order |
| `Answer`, `CallFails` | the adapter's outcomes, with and without usage |
| `RecordUsage`, `LedgerThrows` | `record`, and a ledger statement that throws |
| `BeginProbe`, `ProbePasses`, `ProbeAvailable`, `ProbeGarbled` | `probeModel` |
| `Rollover` | a budget window that ends |
| `Crash` | a process that dies, and its router with it |

`Fail` is the one place where errors are sorted: a probe notes a status and
returns; the router rethrows a request-scoped error and hops on any other.
The router hands the same request to every candidate (`router.ts:106`), so gates,
prices, budgets and the send go by the name in the request, and the mark goes to the
candidate's row: they differ after a hop, and the models keep them apart. The codes
the callers treat alike are one value. Setting and removing budgets
and costs, discovery and the connection test are not modelled.

### PolicyKernel, AgentRun, AgentSafety

`PolicyKernel` has no state: `Evaluate` is `evaluate`, split into what no approval
lifts (`HardDeny`), what a human must approve (`NeedsApproval`) and the terminal
check that comes last; `Grant` and `Registry` are the manifests and the tools of
the three phases. `AgentRun` is one `agent run` command per process:

| in the model | in the code |
|---|---|
| `run[p]` | the locals of `AgentRunner.run`: rounds, counters, the calls of the message at hand |
| `Shape` | what a call comes to: its tool and what the tool's preflight finds; `append` and `branch` write although preflight takes them for harmless |
| `Funnel` | `ToolRunner.call` up to the execution, in its order: registry, schema, jail, policy |
| `ModelFails`, `ModelConcludes`, `ModelCalls` | the awaited transport, and `parseToolCalls` |
| `RefuseCall`, `GateCall`, `RunTool`, `NextRound`, `Exhaust` | the body of the loop |
| `StartTests`, `TestsFinish`, `TestsTimeOut`, `LateTestsEnd` | `test.exec`, the one tool that is awaited, and `runWithTimeout`, which does not stop it |
| `SaveRun`, `WriteArtifacts`, `RecordRun`, `AppendAudit` | the session row, the files under the jail, the run row and the audit row |
| `PrepareWorkspace`, `RemoveTree`, `MarkRemoved` | other processes, which take the jail away or leave a row without it |

The call is classified at the agent's clearance, as in `toolCtx`, and the provider
counts as cleared for the task's classification. `ran`, the last call executed,
and `replies`, the tool messages in the transcript, are history. `RunsShrink` counts
what a run has left: rounds, the stage of the round, calls.

### ProviderAdapters

What each wire protocol makes of what comes back: no state, three translations.
`Complete` is an adapter's `complete`, `Fetch` the shared `fetchJson` with its
`StatusCode`; `OpenAi`, `Anthropic` and `GenericRest` say which body is an answer,
which one counts as usage and what a finish word means; `Unauthorized` is
`resolveKey`, with a vault that does not answer. `ProviderChain` is composed with
it: an answer is a member of `Replies` read by the adapter of the provider it came
from. The codes that router and probes treat alike are one value.

### MemoryStore, MemorySafety

An action is one SQL statement of one of several processes that share the file.

| in the model | in the code |
|---|---|
| `rows` | `memory_entries`, by scope and key; an entry's text and author are left out |
| `policy` | `retention_policies` |
| `call[p]` | the locals of `sweep` (the scopes left, the policy read, the ids to trim) and of `set` |
| `Boot`, `SeedDefaults` | the start of a process: `seedDefaults`, which inserts `OR IGNORE` |
| `RetentionSet` | `setPolicy`, by `retentionSet` |
| `Set`, `ReadBack`, `ReportLost` | `set`: the `upsert` (with the time to live of the scope), the read of the row, its NOT_FOUND; `MemoryWrite` is the same by the agents' tool |
| `Delete`, `Purge` | `delete` (the DAO's `remove`) and `purge` (`purgePartition`) |
| `SweepExpired`, `SweepPolicy`, `SweepAge`, `SweepSelect`, `SweepTrim`, `SweepNext` | `sweep`: `deleteExpired`, then scope by scope `retentionFor`, `deleteOlderThan`, `idsBeyondMax` and `deleteById` one by one |
| `Exit`, `Tick` | a process that ends or dies; the clock |

`chosen` is history: what the operator set. Refused inputs and calls that only read
change no row; a secret is refused before a row is touched.

### CredentialVault, VaultSafety

One file operation, child command or SQL statement per action.

| in the model | in the code |
|---|---|
| `keyFile`, `vault`, `ring` | `vault.key`, `vault.enc`, what `secret-tool` holds |
| `rows` | the provider's `credential_ref` and last four characters |
| `proc[p]` | the locals of a command: its vault, the key it loaded, what it read |
| `Start`, `Detect` | `provider key set` or `remove`, and the choice of the vault |
| `LoadKey`, `CheckVault`, `CreateKey`, `FillKey` | `loadOrCreateKey`: read, look for an orphaned vault, create exclusively, write |
| `ReadAll`, `WriteTmp`, `RenameTmp` | `store` and `delete`: the whole file read, edited, written beside and renamed |
| `KeyringStore`, `KeyringClear` | the child commands, which may fail |
| `SetRow`, `RemoveRow`, `RemoveProvider` | the row of the provider |
| `Crash` | a process that dies |

`home`, `raced` and `halted` are history: the vault that served a provider last, the
providers on which two commands crossed, those a dead command left behind. A
secret is known by its last four characters; encryption is whether the key opens
the entry.

### McpServer, McpSafety

One server; every command is a sequence of awaits, and a vault operation is one
step (its file is `CredentialVault`'s subject). The authorization server is
external: it redeems a code once, against the verifier of its flow, and may
replace a refresh token when it is used.

| in the model | in the code |
|---|---|
| `row`, `secrets` | the `mcp_servers` row; the refs of the vault |
| `shown`, `spent`, `live`, `issued` | what the external server showed, redeemed, accepts and issued |
| `Add`, `SetEnabled`, `RemoveServer` | `mcp add`, `enable`, `disable`, `remove` |
| `Decide` | `decideMcpCall` over the server's row |
| `Authorize`, `StorePkce`, `StoreState` | `oauth authorize` |
| `Exchange`, `CheckState`, `LoadVerifier`, `Redeem`, `StoreAccess`, `StoreRefresh` | `oauth exchange` |
| `Refresh`, `LoadRefresh`, `Renew`, `Has`, `RotateAccess`, `RotateRefresh` | `oauth refresh`: load, await, look and store, twice |
| `Revoke`, `Drop` | `oauth revoke` |
| `Invoke`, `LoadBearer`, `Send` | `mcp call`: decide, load the token, send |
| `Lose`, `Quit` | an answer that does not arrive; a command that fails or dies |

`late`, `cut`, `burnt` and `revoked` are history: calls decided before the server
was switched off, renewals a deletion fell into, tokens whose successor was lost,
and a revoke that nothing crossed. No command writes permission rows, so none are
modelled; neither are the JSON-RPC framing and the pinned skills.

### DatabaseFiles, DatabaseSafety

SQLite in WAL mode is external: a connection reads the file it opened and the WAL
it opened beside it; a commit goes to that WAL; a checkpoint moves the WAL into the
file; the last connection that closes checkpoints and unlinks the WAL, but a dead
process does not; one writer at a time, and no waiting.

| in the model | in the code |
|---|---|
| `path`, `main`, `wal`, `named` | the file at the database's path, files, WALs, the one beside it |
| `conn`, `pc`, `todo` | a process's connection, its statement, the versions it found pending |
| `Open`, `ReadLedger`, `Body`, `PassOver`, `RollBack`, `CommitMigration` | `openDatabase`, `applyMigrations` |
| `BeginWrite`, `Write`, `AutoCheckpoint`, `Close`, `Crash` | a process at work |
| `Backup`, `StartCopy`, `FinishBackup` | `db-backup`: checkpoint, then the copy, which is not one operation |
| `Tear`, `Copied` | a checkpoint that rewrites the file while it is copied: what the copy then has is any part of it |
| `Restore`, `KeepSafety`, `Replace`, `Reopen` | `db-restore`: safety copy, rename, and the new file opened, verified and closed |
| `ScriptDies` | a script that dies at any of them |

`db-migrate` is a process that boots and closes. A `Copy` carries what was
committed when it began (`promised`) as history; a torn one, of pages from before and
after a checkpoint, promises nothing and passes the checks after it or not.

### Ordering, Routing, Retrieval, ContextCommands, ContextSafety

`Ordering` says what the built-in `sort` leaves of a set when no two elements compare
equal; it is external. `Routing` has `classifyTask`, `routeTask`, `escalate` and
`debateVote` as operators over what the patterns find in a text, and the shapes of
what they are asked (`IsInput`, `IsRegistry`, `Answer`); `Retrieval` has import edges,
scores, rank and `fitBudget`. `ContextCommands` makes processes of them: `Start`,
`NextDir`, `Visit`, `Read`, `Index`, `PackNext`, `Packed` are `context build`, entry
by entry, while `Change` is what agents and operators do to the workspace meanwhile,
and a directory may be one that cannot be listed or cannot be entered (`Listed`,
`Reachable`), which the walk passes over; `Ask` and `Reply` are `aice route` and a
debate. The tree is given by `Parent` and `Above`, the directories a path is in.
`ContextSafety` states what a route (`RightRoute`) and a vote (`FairVote`) promise
without repeating how they are computed.

## 3. The runs

| run | question | instance |
|---|---|---|
| `engine_single` | one process: does the engine implement the abstract machine, and do trail, claims and closed states hold? | one high-risk task, every command, targets forward, FIXING, BLOCKED, PLANNING and CANCELLED |
| `engine_concurrent` | two processes and a death: do gates and fix budget survive stale reads? | one high-risk task, forward and FIXING, retry limit 1 |
| `workspace_single` | one process, git failing anywhere: do rows match worktrees, does a failed prepare stop the task, do calls return? | three prepares, both risks, also targets CANCELLED and FIXING |
| `workspace_race` | two processes and a death: can a worktree exist before its gate, can a task have two workspaces? | two prepares, both risks, targets forward, BLOCKED and PLANNING |
| `provider_chain` | two callers: budgets, gates, answers, hops | an Anthropic provider, a keyless OpenAI-compatible one and a generic one, tried in order; the last one's endpoint is denied; requests for either of two model names; a token and a dollar limit on the first, three requests, one rollover, one fault |
| `agent_run` | an agent run of each phase, approved or not: is every call answered, do gates, scopes and clearances hold, does the run leave its rows and end? | one process, two runs of two rounds, a task of each of two classifications, every shape of call, one death |
| `memory_store` | two processes: does a sweep do its work while others write, does the operator's policy survive every boot? | two scopes, two keys, three writes, two ticks |
| `vault_file` | two commands: does the key on disk open the file, do rows and secrets agree? | one secret, two providers, two master keys, the keyring or the file at each command |
| `mcp_server` | two commands beside the operator: do gates, revokes and rotations hold while they cross? | two flows, three tokens, eight configurations, two endpoints |
| `database` | two processes beside the operator's scripts, all of which may die: are ledger, backup and restore right? | two migrations, one of which alters a table, one row, two files, two copies |
| `context` | a workspace that changes while it is walked, read and packed; all routes and debates of a small pool | six paths, directories that can be closed and opened, two changes, a cap of three files and four tokens; two models at two providers; debates of up to three answers |
| `denied_verify` | a disagreement between code and comment (section 6) | the smallest instance that shows it |

Why the bounds are enough to be interesting. Tasks share no row, so one task shows
every interleaving that matters to it. A retry limit of 1 is reached and exceeded
within a run. Two processes are the fewest that race; the theorems cover more. Two
calls of `prepare` are a race, three of one process a failure and a retry. Three
requests with a limit of 1 allow a request under the limit, one that reaches it, and
one that is refused, or two in flight at once. An agent run's messages hold up to four
calls, so that a call follows a success, a refusal, a timeout and a gate; agent runs
meet only in the task's worktree, so one process and a removal from outside show what
can happen.

Two keys of a scope with a budget of one give the sweep something to trim and
something to keep; two ticks let an entry expire and a refreshed one not. Two
providers in one vault file are what a lost update needs, two candidates for the
master key what two first starts need. Three tokens are two rotations of one grant, or
an exchange that crosses a renewal. Two files are a database and the one a restore
puts in its place, two copies a backup and a safety copy; two migrations allow one to
be applied and the next to fail. The context's six paths hold a key file, two sources
in two directories and an excluded directory with a file in it, more than the cap once
something is created. `MaxFaults`, `MaxPrepares`, `MaxRequests`, `MaxWindows`,
`MaxIds`, `MaxTime`, `MaxFlows`, `MaxTokens` (of McpServer), `MaxRows`, `MaxFiles` (of
DatabaseFiles), `MaxCopies` and `MaxChanges` bound the counters, in the guards.
Processes are interchangeable, so runs without liveness properties take their
permutations as symmetry. Type invariants are theorems (section 4) and are not run
again.

`provider_chain`, `agent_run` and `mcp_server` do not check deadlock: when their
requests, runs or tokens are used up and every process is idle the bounded system
stops. The other passing runs check it.

Fairness. Safety is checked without it. `CallsReturn` assumes weak fairness of the
steps of a `prepare`, a `remove` or an engine call in progress and of nothing else:
the code is synchronous from the call to its return, so a process that is not killed
takes its next statement; no fairness is given to commands, so nothing is ever
required to be started. The property is checked for one process without faults. A
second process that keeps moving the task could keep the unbounded loop at
`workspace-service.ts:51` going; that is what its hazard records. `RunEnds` assumes
weak fairness of a run's own steps: the transport answers or throws because its
requests time out, the timer of a test run goes off, and all else is synchronous.
Nothing is assumed of the tests, which may hang.

## 4. What is proved

The theorems hold for any processes, tasks, providers, entries, versions and
limits; the constants are constrained only by the named assumption of each module.

**TaskEngineProofs.** `TypeCorrect`. `GatesHold`: no task is behind a gate whose
evidence was not recorded (`NoGateSkipped`), with any number of processes and
faults. `NoGateSkipped` alone is not inductive, because a process writes the
state on what it read several statements before. `GateInv` adds `CallsBacked`: what
a call in progress believes about approvals, checkpoint and review is still true,
because these rows are appended and never withdrawn, and the risk never changes.
`OneWayThroughGates` shows from the transition table that a gate's edge is the
only way in. `FixLoopsBounded`: at most
`MaxFixAttempts + Cardinality(Procs) - 1` run rows of the fix loop. The strengthening
counts *tickets*, the calls that have passed the retry gate and have yet to record
their run: rows plus tickets stay below the bound (`LoopInv`), since a call takes
a ticket only on a count below the limit.
The remaining properties are false of two processes, which replace a state and
record a claim on what they read earlier. Their theorems assume one process at a
time (`Alone`), and hold for any tasks, suites, findings and retry limit:
`ClaimsBacked` (`RecordedClaimsBacked`) and `ClosedStaysClosed` (`ClosedIsFinal`),
whatever dies; and, with no faults (`MaxFaults = 0`), `TrailAgreesAlone`
(`TrailAgrees`), `TrailChains` (`TrailContinuous`) and `EngineImplementsMachine`
(`ImplementsMachine`). The invariant under all of them is `Current`: what the call
in progress has read so far is still what the tables hold. `TrailInv` adds that the
trail of a task ends at its state, or, between the update of the state and its
trail row, where the call in progress found the task. In the refinement `SetState`
is the abstract `Move` and a row of evidence is `PutOnRecord`; every other
statement stutters, the run row too, because its loop already counts.

**WorkspaceProofs.** `TypeCorrect`; `OneWorkspace` (`OneWorkspacePerTask`),
`TreesApproved` (`TreesAfterApproval`), `RowsAgree` (`RowsMatchTrees`), for any number
of processes. `PathInv`: a path belongs to the one call it was made for. `BranchInv`:
a branch is on at most one worktree, and a call that writes the row has it. `RowInv`
ties rows to the calls at work on them, `GatesInv` says that
a process past the gate or the checkpoint saw it, which nothing withdraws. With one process at a time, dying or not,
`PrepareStops` (`FailedPrepareStops`): a prepare that gives no workspace leaves its
task at the gate, blocked or closed. `AtGate` says that the state read at the head of
its loop still holds at the gate, and `BlockWorks` that `block()`, whose verdict the
code ignores, is refused for closed tasks only. `CallsShrinkAlways` (`CallsShrink`),
for any number of processes: each step of a prepare, a remove or an engine call leaves
that call fewer steps. `ToGo` numbers the states along the forward edges;
`ForwardIsNearer` shows that the edge `prepare` takes always leads down, whatever
state another process put the task in meanwhile. So a call that nobody else disturbs
ends within a known number of steps, and only a process that keeps moving the task
back can hold it.

What an engine call writes rests on what it read statements before, and `setState`
does not compare. `ServiceKeepsGates` (`GatesKept`), for any number of processes and
deaths: no task is behind the plan gate unapproved, where edits start without a
checkpoint, finally approved unless its risk is low, or merged. Its invariant
(`GatesInv`) says of every call between its verdict and its write that the gates of
its target are still open, because evidence is never withdrawn.
`WorkspaceMovesByTheMachine` (`MovesByTheMachine`): `SetState` is one `Move`, an
approval or a checkpoint one `PutOnRecord`, and every other statement, everything git
and the workspaces table do included, a stutter; a fix loop counts from its
`SetState`. This needs one process at a time that does not die (`Alone`, `MaxFaults =
0`): with two, the write of a task that has moved meanwhile follows no edge, and a
death after `SetState` leaves a move without its run row. `MachineKeepsPromises` shows
that the abstract machine is worth implementing: its gates hold and its fix budget is
never overdrawn (`Promised`). `ServiceKeepsPromises` carries that over to the service,
under the same two assumptions. The gates need neither of them (`ServiceKeepsGates`);
the budget of fixes does, and by how much several processes overdraw it is
`FixLoopsBounded`.

**ProviderProofs.** `TypeCorrect`. `OverdraftBounded`: a hard limit is overdrawn by
less than `MaxUsage * Cardinality(Callers)`. The guard reads before the await and the
usage is recorded after it, so `LedgerInv` adds for every request on its way what its
answer may still add. `SendsAreClean`: whatever the health cache, nothing is sent to
an uncleared or denied provider, and no secret. `PaidOnce`: one answer per request,
plus one per fault. `AvailableAnswered` (`AvailableHasAnswered`): a verified model
answered for its own name, and a model is marked available only after its provider
answered for some name: the stronger claim, that it answered as this model, is false
of the code (section 6). `LastResort` (`GivesUpLast`): a router gives up only with its
hops used or every cleared candidate tried; `HopInv` counts hops as the cleared
candidates behind the position plus the one at hand. `RequestsShrinkAlways`
(`RequestsShrink`): every step of a request or probe lowers what it has left, six
steps for each candidate to come and those of the stage it is at, so a request ends
within `6 * Len(Chain) + 8` steps of its own, whatever the other callers do. They rest
on `ChainAssumption`, in particular that one answer uses at most `MaxUsage` and that
limits are not lowered while requests are in flight.

**AgentProofs.** About `evaluate`, for every request, grant and context:
`ApprovalLiftsOnlyGates` (a denial stays one after approval) and
`NarrowerDeniesMore` (a hard denial under a grant is one under every narrower
grant). About agent runs, for any messages, processes and limits: `TypeCorrect`;
`GatesHold`, `InvestigationReads` and `ClearanceHolds`, which follow from one
invariant, that what a run executed last was permitted to it (`PermittedInv`),
because `FunnelPermits` shows that the funnel passes nothing else; `RunsShrinkAlways`
(`RunsShrink`): every step of a run lowers what it has left in a lexicographic order
that `LessIsWellFounded` shows to be well founded, so no run takes steps for ever,
whatever its models answer; `CallsReplied`,
whose strengthening adds that a run which still answers calls has no final status
(`AnsweredInv`); `RunsAccounted` (`TrailComplete`): each kind of row lags the one
before it by exactly the processes between the two statements and the runs that
were cut short (`TrailInv`).

The context of a run is proved about in the same module. Its sorts, folds and walks
call for induction over data, and the induction theorems of the library cannot be
instantiated here; every such argument is made by least counterexample instead, from
`LeastNumber`: a set of numbers that is not empty has a least one. `InOrderSorts`: a
list that `sort` leaves has every element once and in order, since the number of its
predecessors gives each element a place of its own. From it follow `RoutesAreRight`
(`RouteRight`), where `RouteTrusted` takes the rules in their order, and
`DebatesAreFair` (`DebateFair`), where `RankedVotes` says that the first of the
ranking has at least the votes of every other. `FoldsCourse` and `CourseExists` turn a
fold over a sequence into a *course*, its values after each prefix; along the course
of `fitBudget` the pack is within its budget, holds the chunks so far in their order,
and what it dropped did not fit and never will, because a pack only grows
(`FitBudgetPacks`, `PacksAreMaximal`). `IndexIsComplete` (`IndexComplete`) has the
invariant `IndexInv`: the tree stays a tree and what is below a changed path counts as
changed (`Rooted`); every file left alone below directories that are open is recorded,
or the walk is still on its way to it, because it, or a directory above it, is in one
of the two lists (`Covered`); and what has been recorded stays below the cap
(`Counted`). `ContextTypes` is their type invariant.

**MemoryProofs.** `TypeCorrect`, `PolicyStands`, `SweepsSettle`, `TrimTakesOldest`.
What a sweep has settled stays settled while others write, because a write after
the cutoff makes an entry young: `ExpiredInv`, `AgedInv` and `TrimInv` say so for the
three stages. That what remains of the counted entries fits the budget is a
counting argument, by an injection of the kept ones into the budget.

**VaultProofs.** `TypeCorrect`; `KeyOpensVault`: the key file is created exclusively
and never over a vault without a key, so whoever holds a key holds the one on disk
(`KeyInv`). `CredentialsBacked`: a command that nothing crossed carries, from its
read to its rename, the file as it is but for its own provider (`BackInv`).

**McpProofs.** `TypeCorrect`; `CallsArePermitted` (`CallInv`: a call at `send` was
decided on a configuration that still stands, or is in `late`); `DeletedStaysDeleted`
(`ResurInv`), `RevokeStands` (`AloneInv`, `RevokedInv`), and `RefreshTokensLive`: the
token a lane is about to store was issued and not used (`TokenInv`, with `Known`,
`HeldInv`, `RefreshLives`), under any number of crossings.

**DatabaseProofs.** `TypeCorrect`; `CopiesHold` (`CopyHolds`): a copy no checkpoint
crossed holds what was promised when it began. What was promised is in the main file
from the checkpoint before the copy to its end (`CopyInv`), though processes write,
close and die meanwhile and the last of them may leave its WAL behind. It says nothing
of a copy that a checkpoint tore: its pages may be from before and after, and in the
model it may hold any part of the file (`Copied`);
`RestoresReplace` (`AloneInv`: while the restore is alone its WAL is empty and the
safety copy holds the file); `LedgerIsHonest`: effect and ledger row are one
transaction (`PairInv`); `UpMigrated` (`UpInv`).

## 5. What is only model-checked

Of the properties of the runs two: `CallsReturn` and `RunEnds`, the liveness
properties. Fairness and ENABLED are beyond the installed prover. What is proved of
them is the descent (`CallsShrink`, `RunsShrink`, and `RequestsShrink` for the
provider chain); that a process which is not idle
has a step to take, and that fairness makes it take one, is left to TLC.
`DeniedClaimsOpenNoGate` is refuted. RECURSIVE operators are not used, so that every
module can be proved about.

## 6. Where code and documents disagree

`denied_verify` is the one run whose property TLC refutes: `recordVerify` says that
a green claim the tables do not support is refused (`engine.ts:190-193`); the
refused claim is nevertheless written as the newest verify row, and the merge gate
reads the claims of the newest row, not its decision.

What follows was seen while modelling. The models do what the code does, and no
property claims otherwise.

*Engine and workspace.* `latestByTask` takes the newest test row of all suites, so a
green suite hides a red one recorded before it (`dao-findings.ts:91`). The guard
compares the reviewer with an implementer that nothing fills in (`engine.ts:95`),
so the implementer's own review merges a task, against ADR-007:35-36. `setState`
does not compare the state it replaces (`dao.ts:210`): a decision taken before a
cancellation resumes the task. When the branch cannot be created after
`git worktree add`, the worktree stays without a row (`workspace-service.ts:100-104`),
though the header says "never leaves a half-prepared task" (line 4). A failed `prepare`
advises to "re-run prepare" (line 45), which turns a blocked task away and blocks it
again. Of two processes in one task's engine calls the trail need not chain, and a
merged or cancelled task may be moved on.

*Providers.* The router hands every candidate the request as it is (`router.ts:106`)
and then marks the candidate's model available (`router.ts:107`): after a hop a
provider is asked for the model of another one, and what the models table calls
available may never have answered. Only tests use `FailoverRouter`; the command line
calls the dispatcher itself (`cli.ts:417`). The health check is outside the router's
`try` (`router.ts:98`), so an endpoint the egress policy denies, or a protocol without
an adapter (`dispatcher.ts:198`), ends the request instead of hopping. An answer
without usage is in no budget. A vault that is locked during a probe marks the model
unavailable. The generic adapter reads no finish reason; the Anthropic one refuses
messages of role `tool` (the command line sends them as `user`). Of two processes that
configure one budget scope at once one fails (`dao-budgets.ts:69`).

*Agents and tools.* `git-tools.ts:7` maps "read-only subcommands" to low risk, but
`subcommandRisk` (`git-tools.ts:26-44`) also rates `git branch <name>` low, which
creates a branch, and `git diff`, `log` and `show` with `--output=<file>`, which write
a file; and appending to an existing file is not dangerous for `fs.write`
(`fs-tools.ts:183`). These run unapproved; `GatedNeedsApproval` names them (`Ungated`)
and promises nothing of them. An investigator or architect calls at clearance
`confidential`, so on a task of the default classification `internal` every one of its
calls is denied (`cli.ts:1012`). `agent run` looks at neither the task's state nor an
approval (`cli.ts:996-1012`), and its run row carries the state read before the await
(`cli.ts:1080`). `fs.edit` with `requireUniqueMatch=false` replaces every occurrence
and reports one. The default timeout of `test.exec` equals that of the runtime, so its
own verdict is lost. `latestByPhase` takes the newest row even if it holds no final
text. The command line gives its tool runners no audit sink. The kill timer of
`terminal.ts:112` is not cleared when the child closes.

*Memory.* Expired entries a sweep deletes are not audited, though
`memory/README.md:23` says "Every mutation is audited"; the budget that
`memory/README.md:10` gives a project is counted per scope over all projects;
`get` and `list` return expired entries until a sweep; `set` fails with NOT_FOUND
after a stored and audited write when a sweep comes in between; `upsert` returns a
fresh id even when the row kept its own (`dao-memory.ts:73`); `memory.read` says
"values redacted on display" and returns the raw rows.

*Vault.* A process that dies between creating and filling `vault.key` leaves an empty
key file, and every later start of what `secrets/README.md` calls the
"always-available fallback" is refused. Two stores at once lose one of the
secrets. A `secret-tool` that does not answer makes one command use the file
instead. `provider key set` stores the secret before the row refuses an unknown
provider; `provider remove` leaves the secret.

*MCP.* `gates.ts` speaks of a trust floor no lane uses, and permission rows have no
writer. `mcp remove` leaves the tokens, and `oauth revoke` is NOT_FOUND from then
on. An exchange whose answer has no refresh token keeps that of the grant before.
The loopback name `[::1]` of a URL never matches `::1`. A disabled server is still
served by the token lanes. The digest of a skill joins names and contents without
their lengths.

*Database.* `db-backup.mjs:2-5` promises a "crash-safe online backup" and "never a
silently-corrupt backup on disk", and `docs/runbooks/backup-restore.md:12-13` an atomic
copy. `copyFileSync` of a live file (`db-backup.mjs:43`) is not one: nothing keeps
another process from checkpointing during it, which rewrites pages and moves rows when
pages split. Such a copy may lack rows that were committed before it began, and the
checks after it need not notice: `integrity_check` compares a table with its indexes,
and `test_results` has none.
`db-restore` ignores whether its checkpoint was busy,
so beside a writer the safety copy may lack rows, though `db-restore.mjs:4` says
"never destruct silently", and nobody verifies that copy; a process that stays
connected takes its WAL along. `openDatabase` "Never throws on re-run"
(`database.ts:16`), but of two boots at once the second may fail, and succeeds
when repeated.

*Context.* `buildRepoIndex` says that errors "individualize into `skipped`; the walk
itself is total" (`repo-index.ts:250`), but a directory that cannot be listed and an
entry whose `lstat` fails (`repo-index.ts:181-194`) are passed over without a record,
with everything below; of a root that cannot be listed the index is empty.
`debateVote` says that there is no winner without a strict majority; only a tie at the
top is undecided. `routeTask` speaks of verified models and falls back to unverified
ones; "cheapest adequate" sorts by context before cost; `escalate` from low to medium
never changes the route; the adjacency point goes only to files that score already;
`choiceOf` finds `no` inside other words; `route` takes the project's classification,
`context build` the task's.

## 7. Not modelled

* `security/src`: pure functions over strings, whose content is the patterns; the
  models take their verdicts as inputs.
* Terminal execution beyond what a run sees of it, the sandbox and stack probes,
  and the scanner, browser and memory tools: the operating system's child processes
  and timers, or tools no command registers.
* The stdio framing of the MCP client and pinned skills; streams, model lists and
  wire field names of the adapters; discovery, the connection test and the
  configuration of budgets and costs.
* The desktop bridge: one more process that calls the engine; its HTML and its
  session token have no further state. Release and check scripts: sequential.
* The command line's parsing and printing.
* The composition of an agent run with the engine: the run reads its task's state
  once and writes it into its own row, so neither constrains the other.
