# asmlift, specified

TLA+ models of asmlift (a matching decompiler and the benchmark that measures
it): what its processes, caches and queues do, checked by TLC on small
instances, with theorems that TLAPS proves for every instance.

## 1. The system

Paths below are relative to `apps/benchmark/src` (`run/…`, `eval/…`),
`packages/cli/src` (`candcache.ts`, `compile-command.ts`) and so on, as the table
says. `PROJECT.json` holds the line-by-line correspondence.

asmlift turns assembly into C that should compile back to the same bytes. It is
a TypeScript monorepo:

| part | where | state it keeps | hard behaviour |
|---|---|---|---|
| Decompile pipeline | `packages/core/src` (frontend, ir, raise, pattern, structure, l3, backend) | none between calls | large pure transformations |
| Ranking | `core/src/rank.ts`, `stillborn.ts`, `rank-variations.ts` | a memo of scores per call | stops early, probes before it compiles all |
| Parallel ranking driver | `cli/src/rank.ts`, `benchmark/src/eval/compile-pool.ts`, `compile-worker.ts` | worker processes, a map of unanswered requests | worker deaths, answers out of order, shutdown |
| Candidate cache | `cli/src/candcache.ts`, `compile-command.ts` | `/tmp` store shared by processes, counters per process | concurrent writers, pruning under readers, audits that never end |
| Row queue and fan-out of a tier | `benchmark/src/run/{queue,orchestrate,runner}.ts` | `results/.<tier>.run` | shards racing for rows, kills at any point, `--resume` |
| Bench lock and admission | `benchmark/src/run/{lock,admission,preflight}.ts` | a register of process records | check then write, stale records, memory promised twice |
| Sweep driver and fan | `benchmark/src/run/{sweep,sweep-driver,fan}.ts` | cells per configuration | partial failure, merge of shards |
| Docker and m2c caches, provenance | `benchmark/src/{cache,provenance}.ts`, `compile/docker-cache.ts` | result files keyed by inputs | stale keys, a tree that goes dirty mid-run |
| Report and merge | `benchmark/src/report` | the published JSON | merging rows of several trees |
| Web playground | `apps/web/src/pages/playground` | a worker and the latest request | answers of an outdated request, a worker that fails |
| Strided ranges | `core/src/ir/bits.ts` | none between calls | induction over a loop counter that may wrap |

The orchestrator and its shards meet only on disk: the plan, one claim file per
row and one part file per shard. Everything a run knows after a crash is in
those files, and that is where the interesting behaviour is: nothing locks the
directory, rows are handed out by `open(…, 'wx')`, the only sign that an
orchestrator is gone is that its pid is no longer alive, and the user may kill
either side at any point and start again with or without `--resume`.

### What makes each part correct

* Row queue: each row is measured by one shard at a time and never again once it
  is in a part file; a run that ends well accounts for every planned row; a
  resumed run measures exactly the rest, on the same clean tree; no measured row
  is lost; rows of two trees are never mixed; every run ends and every orphan exits.
* Candidate cache: what a put hands out is what a compile would give; a wrong
  answer neither spreads to another key nor is put right in silence; every
  sampled answer is counted exactly once; a prune keeps its hands off what a
  living process holds or is about to hold.
* Lock and admission: jobs that may not run together do not; a measuring run keeps
  its record; what was admitted fits in memory when every job takes its peak.
* Parallel ranking: a row is ranked as a serial ranking ranks it or fails; every
  worker's counters are taken over once; the row settles whichever worker dies.
* Playground: what is shown belongs to the input on screen; a verdict is not
  reopened; no input is left on a spinner.
* Strided ranges: an answer holds every word the machine can compute there.

## 2. Modules

| module | what it is |
|---|---|
| `RowQueue` | the row queue of one benchmark tier: orchestrator, shards, directory, kills, `--resume` |
| `RowLedger` | what the row queue promises, without processes: one ledger, entered once, published whole |
| `RowQueue_proofs` | its inductive invariants and the theorems that follow: who measures what, the journal, the ledger, what exit 0 means |
| `CandStore` | the candidate cache's store: get, put, audits, the deduplicating link, counters |
| `CandStore_proofs` | its inductive invariants and the theorems that follow: what a put hands out, the arithmetic of the audits, what withholding costs, which repairs are reported |
| `CandLease` | the same cache one level up: resolving a namespace, leases, the prune |
| `CandLease_proofs` | its inductive invariant and the theorems that follow |
| `RankDriver` | one row: the ranked driver over a pool of compile workers, the stillborn rule, and rankBy as its serial specification |
| `RankDriver_proofs` | that the driver ranks as rankBy does and takes over each worker's counters once, for any fan and any workers |
| `RankingHook` | the playground's hook and its worker: two event loops and the messages between them |
| `RankingHook_proofs` | its inductive invariant and the theorems that follow |
| `BenchLock` | the register of heavy jobs and the memory admission that reads it |
| `BenchLock_proofs` | what keeps a record, what keeps two jobs apart, and why admitted jobs fit |
| `Totals`, `Totals_proofs` | sums over a set of processes, which `BenchLock` and `RankDriver` need, and their laws |
| `StridedRange` | the range analysis of `bits.ts`, beside the loop it is asked about |
| `StridedRange_proofs` | that no run of any loop leaves its answer, on any machine of 2^n words |
| `MC<module>` | instances for TLC: rows and plans, stores left behind, fans, jobs, loops, symmetry |

Each component module has the same parts in the same order: constants with
named assumptions, variables with what they stand for, one action per step the
code takes on shared state, the next-state relation, the properties. Next to an
action there may be one marked `Faulty`: the same step with a plausible bug. It
is in no next-state relation; it says what a property is sensitive to.

### RowQueue

| state | code |
|---|---|
| `plan` | `plan.json` (`queue.ts` writePlan): the tree and selection it was made for; `Ids[plan]` are its rows in claim order |
| `claimsDir`, `claims` | `claims/` and its files: created with `wx`, named by a second write |
| `parts` | `part-<g>-<s>.json`: rows, skipped rows, and the stamp of the tree; `Torn` does not parse |
| `tier`, `tierTorn` | `<tier>.json`, rewritten in place by stitch |
| `run`, `runs`, `verdict` | the orchestrator: where it is, how many there were, the exit it reported |
| `proc` | the shard children: program counter, cursor, rows recorded so far |
| `strays`, `remnant` | history that only the properties read |

Starting a run is `StartRun` (orchestrate's queueRefusal, liveClaimers, resumeRefusal; a
start that is refused throws before it touches anything). Nothing holds orphans back:
a run may begin while one is booting, or between its look at its orchestrator and
its claim, or between creating a claim and naming it. prepareQueue is `RemoveEntry`
(one entry of the recursive rmSync, in any order), `MakeClaims`, `WritePlan`; on a
resume it is `ReadJournal`, `DropTorn` per unparsable part, `ListClaims` and
`ReleaseClaim` per unfinished claim. `Fan` spawns the shards. A shard is `Boot`, then
`ClaimGo`, `OpenClaim`, `NameClaim`, `Record` or `NoRow` per row, then `Finish`, or
`Enoent` when the directory goes. The end is `Stitch`, `WriteTier`, `RemoveEntry` again,
`Cleaned`. The environment kills a shard, the whole process group, or the
orchestrator alone (its shards are then orphans; `Exit`, `Reaped`: the exit of a
process that nobody waits for leaves nothing).

Two variables that no action reads say what the code cannot know: `strays`, the
orphans a run was admitted beside because no claim told of them (`Untold`), and
`remnant`, that part of the directory has been removed and part has not. The
properties name them where they set such a case aside; section 4 says what
happens then.

One step is one system call that another process could see between, or a
synchronous stretch of code that touches nothing shared. Recording a row and
flushing its part file is one step: the file is written beside and renamed. The
look of a start (queueRefusal) and the reading of a journal are one step each.

`RowLedger` is the abstract specification: a ledger is opened for one tree, each planned
row is entered once, it is published whole, and it may go piece by piece only when
what goes is published, when the user starts afresh, or when it has lost its tree.
It promises this until `disturbed`: a run has begun beside a stray.

### CandStore

| state | code |
|---|---|
| `objects[o]`, `bytes[i]` | `objects/<ab>/<sha>`: which file (inode) the name has, and what is in it |
| `keyO[k]`, `fails` | `ns/<n>/<ab>/<key>.o`, a link to an inode, and `<key>.fail` |
| `log` | `MISMATCHES.log`: what was reported (and fails the run) |
| `sample`, `auditing`, `audited` | isSampled, and a process's two sets of withheld keys |
| `stats` | the counters of the `[candcache]` line |
| `proc` | where a process is in executeCached: which key, which repair, the file it has open |

Inodes matter: a hardlink shares a file, so a repair through one name reaches
all, and a rename over a name leaves the others behind. `Truth[k]` is what the
compiler gives for key `k` (an object or a rejection); the stores a process may
find (`Stores`) hold corrupt objects, keys that answer with another's object,
stored rejections of what compiles, and the reverse.

servedAnswer and `get` are `Bypass`, `Miss`, `Withhold`, `Serve`; recordAnswer is
`AuditStale`, `AuditAgrees`, `AuditDiffers`, `Transient`, or a plain put.
linkInto is `LinkRead`, then `Create` (write and rename) or `Cut` and `Write` (the
in-place repair, which is empty in between) and `Join` (link and rename).
`StoreFails` and `Discard` are what a failing write leads to. `Kill` ends a process
inside any of these; `Evict` and `Reap` are another process's prune.

### CandLease

| state | code |
|---|---|
| `dir`, `liveDir`, `files`, `leases` | `ns/<n>`, its `.live`, its key files, its lease files |
| `young` | whose mtime is within PRUNE_GRACE_MS |
| `using`, `refused`, `pruned` | what this process resolved, gave up on, and whether it pruned |
| `held` | paths that `get` or `put` handed out and nobody has opened yet |
| `proc` | where a process is in namespace() and pruneOnce |

namespace() is `Resolve` (mkdir, utimes, the check of `pruned`), the prune, then
`Claim` (mkdir `.live`, sweep) and `Lease`. The prune is `Survey`, then `LookAgain` and
`Remove` per namespace, `LeaveList`, `LookAtOwn` and `Evict` per key; `EndPrune` may
come at any point of it (budget, cap reached, a throw that is swallowed). A
removal takes entries one at a time, in any order, and meanwhile others make
new ones. Two auxiliary fields of a pruner record what it cannot know: `early`,
who touched a namespace since its survey, and `late`, who wrote a lease where it
deletes since it last looked there. No action reads them.

### RankDriver

| state | code |
|---|---|
| `fan`, `truth` | the row's enumeration, and what each candidate's compile comes to |
| `phase`, `queue`, `busy` | where decompileRankedParallel is, the indices nobody took, what each loop waits for |
| `scored`, `engine`, `answer` | the memo, the scoring engine's failure, what goes back to rankRow |
| `process`, `mail` | a compile worker process, and its reply on the way |
| `died`, `failure`, `stats`, `did`, `absorbed` | what the pool noticed, and the counters a worker has and this process took over |

A worker's loop is `Claim`; the process answers in `Reply`; `Deliver` (with `Score`) and
`Exit` are the pool's `message` and `exit` handlers, which may come in either order.
`Finish` ends a phase: the default, the probes, the rest, and then close(), whose
two halves are `Collected` and `Stopped`. `Die` kills a worker anywhere. `Stillborn` and
`rankBy` are operators of a fan and of outcomes: the driver applies them to its
memo, `SameAsSerial` to the truth.

### RankingHook

| state | code |
|---|---|
| `screen`, `pending` | what was rendered last, and whether its effects are still to run |
| `latestInput`, `requested`, `currentReqId`, `stored` | the hook's refs and its stored pair |
| `worker`, `latestReqId`, `runs` | the Web Worker, the newest id it was told, its unfinished runs |
| `inbox`, `outbox`, `thrown` | messages either way, and an `error` event under way |

`Render` paints, `Effects` runs what follows a paint, `Remount` is a cleanup and a second
mount over kept refs; `OnMessage` and `OnError` are the page's handlers. In the worker
`Receive` takes a message (its run goes on beside the older ones) and `Run` takes a run
to its next await: `Assembled`, `Enumerated`, `Scored`. `Throw` is an exception outside
every run.

### BenchLock

| state | code |
|---|---|
| `file` | the register: per pid a record, `Torn` between its creation and its content |
| `pc`, `job` | where a pid's process is, and what it was started as |
| `dead` | the records its scan found dead and it has still to remove |
| `avail`, `hold` | the memory it read as available, and the memory it holds |
| `saw`, `counted`, `moved`, `raced` | history that only the properties read |

A job is `Start`, `Look` (the refusals of `lock.ts`), `Read` and `Admit` (the two readings of
admission), then writeRecord: `Scan`, `Clear` per dead record, `Open`, `Fill`; then `Take`
of memory and `Exit`. `Kill` leaves the record; `Recycled` gives its pid to a process that is
no job, `Start` to another job.

### StridedRange

| state | code |
|---|---|
| `loop` | the program: a counter's entry and back edges, a value read from it, the tests on the way |
| `hyp`, `round`, `proven` | the induction of `inductive` |
| `answer` | what stridedRange says of the counter and of the value read, per window |
| `k`, `use` | the words the running program holds |

`Grow` and `Conclude` are the rounds of the induction, `Answer` the queries; then the
program runs beside its analysis: `Enter`, `Iterate`, `Read`. The sets `Ranges`, `EdgeBound`,
`Expression`, `Condition`, `BackEdge` and `Program` say which loops the theorems are about: any
range, multiple, constant and number of back edges, not just the loops the run is given.

### Totals

A sum over processes is the number of its units: `Total(f, S)` counts the pairs of an `x` in
`S` and one of `1..f[x]`. A fold would say the same, but what a fold comes to can only be
proved by induction over data; of a cardinality the provers have the laws. `Totals_proofs`
derives from them what a change of one summand, or a split of the set, does to the sum.

## 3. What the runs check

| run | instance | properties | shows |
|---|---|---|---|
| `row_queue` | 2 runs of up to 2 shards, 1 row, one tree; the directory removed entry by entry, orphans in any state | `TypeOK`, `OneMeasurer`, `NoOrphanBesideRun`, `OkIsComplete`, `ImplementsLedger` | claims exclude each other, only an orphan no claim told of goes on beside a run, exit 0 means every planned row is measured or was skipped by this generation, and the queue implements `RowLedger` |
| `row_queue_resume` | 2 runs of 1 shard, 2 rows; a whole tier and a filtered key of one row, torn parts, dirty trees, removals cut short, fairness | `NeverRemeasured`, `OneTree`, `Resumable`, `CleanPast`, `JournalKept`, `RunEnds`, `OrphansEnd` | a resume does exactly the rest, on the tree it began with, unless a removal was cut short or an orphan is beside it; a measured row leaves the journal only when published, given up or torn; every run ends; every orphan exits |
| `row_queue_stray_part` | 2 runs of 1 shard, 2 trees over one row | violates `TierIsThisRuns` | finding 3 |
| `cand_store` | 2 serving processes, 3 keys of 2 objects, 7 stores left behind | `TypeOK`, `NeverSpreads`, `NoSilentRepair` | wrong bytes never reach another key, and no wrong answer is put right unreported |
| `cand_store_audit` | a serving and a verifying process, a rejected key, evictions, reaps, failing writes | `StoredIsTruth`, `Reconciles`, `WithheldOnce`, `NeverWorse` | what a put hands out, the audit's arithmetic, and that sampling never costs an answer |
| `cand_lease` | 2 processes that may both prune, 2 namespaces, 1 key file each | `TypeOK`, `PruneComesFirst`, `Untouchable`, `GraceCovers` | what a prune may still take, and when |
| `cand_lease_evicted` | a process that prunes and a compile worker, 1 namespace | violates `ServedStays` | finding 1 |
| `rank_driver` | 2 workers; a fan of two variations and their product, and one of two signedness halves; refusals, scores and throws, any death | `TypeOK`, `SameAsSerial`, `CountersWhole`, `RowSettles` | a row is ranked as rankBy over the truth would rank it, or fails; counters are taken over once; it settles |
| `ranking_hook` | 3 inputs, one not rankable; 2 candidates, 2 edits, 1 remount or stray exception | `TypeOK`, `OnlyThisInput`, `SilencedIsStale`, `NeverReopened`, `NoPerpetualSpinner` | what is shown is about the input on screen, a verdict stays, no spinner turns forever |
| `ranking_hook_broken` | 1 edit, a worker that may fail to load | violates `NoPerpetualSpinner` | finding 2 |
| `bench_lock` | 3 pids, 3 starts, memory 3; whole runs with and without the lock, a scoped run, a sweep, a heavy job, an edit; kills, recycled and reused pids | `TypeOK`, `RecordKept`, `KeptApart`, `MemoryFits` | a run keeps its record, the second of two that collide sees the first, jobs admitted in turn fit |
| `strided_range` | 30102 loops on a machine of 16 words | `TypeOK`, `CounterCovered`, `UseCovered`, `LatchBounds` | no word leaves the range it was proven to stay in, wherever it wraps |

A run is `tlc -config <run>.cfg MC<module>`. Four more instances are kept for what the
models say beyond these runs; each ends in a counterexample that section 4 explains:

| instance | module | violates |
|---|---|---|
| `row_queue_cut_removal.cfg` | `MCRowQueue` | `ResumeIsExact`: a run is killed while it removes the directory, and resumed |
| `cand_store_two_writers.cfg` | `MCCandStore` | `KeysAreHardlinks`: two cold writers of one object |
| `cand_lease_removed.cfg` | `MCCandLease` | `ClaimedForLife`: a namespace goes after the second look at its leases |
| `bench_admission.cfg` | `MCBenchLock` | `SecondSeesFirst`: memory is taken between another job's two readings |

`row_queue_three_runs.cfg` is a larger passing instance (three runs over one row and two
trees: a resume of a resume, 1.7 million states, two and a half minutes).

Sizes with two workers: `row_queue` 378,496 states (about a minute),
`row_queue_resume` 91,472 (45 s, most of it for the two liveness properties),
`rank_driver` 589,320 (90 s), `bench_lock` 474,005 (30 s), `strided_range` 452,418 (35 s);
the others are smaller or take less.

`PROJECT.json` lists, for each property of a passing run, a `Faulty` variant of a
mapped step that violates it.

### Bounds, and why they are enough

* `RowQueue`: a race needs two shards and one row (`row_queue`); a lost or repeated row, a
  row a filter leaves out, and a removal cut short between two entries of a kind
  need a second row (`row_queue_resume`). `MaxRuns` 2 gives a run and a resume or a fresh
  start after it, with the first run's orphan still there; a resume of a resume
  (two generations of part files and one more) is `row_queue_three_runs.cfg`, and any
  number of runs, shards and rows is what the theorems are about. `MaxJobs` bounds
  `--jobs`. Row ids, trees and selections are model values.
* `CandStore`: `MaxInodes` never binds (a larger one gives the same states): it is at
  least the names, keys and open files there can be. `MaxAsks` is how often each
  process is asked; a withheld key needs one ask to be audited and a second to be
  served, so one process has two and its neighbour one. Two keys of one object
  are the least that can share a file; the third key has the other object.
* `CandLease`: a process resolves each namespace once and prunes once, so nothing is
  cut off: the state space is finite as it is. One pruner, one victim and two
  namespaces are what the races need.
* `RankDriver`: two workers give a death beside a live loop; four candidates are the least
  with a default, two probes and a candidate of the rest (their product). Refusals
  have two attempts and two messages: a message must survive one attempt and not
  the other for the stillborn rule to matter. Nothing else is bounded.
* `RankingHook`: two edits are the least that supersede a request twice or return to
  the first input; `MaxFaults` counts remounts and stray exceptions together; `Fan` 2
  gives a tick between the first and the last.
* `BenchLock`: two jobs collide, the third clears the register or reuses a pid;
  `MaxStarts` 3 lets each pid be a job once, or one pid twice beside another.
* `StridedRange`: 16 words keep both signs, both windows, every wrap and strides that do
  and do not divide the machine; one counter with up to two back edges; each
  operand is a multiple, a shift and at most one operation of the counter.

### Abstractions that matter

* `RowQueue`: when an orphan writes into a directory just emptied, rmSync throws; that is
  a kill. A directory without entries is no directory.
* `CandStore!Evict` and `Reap` may take any key, and any unlinked object, at any time:
  more than the prune does (it waits REAP_GRACE_MS, 5 minutes, for an object).
  What holds here does not rest on that window.
* A process has one call in the store at a time. Between two awaits its code is
  synchronous, and the candidates of one fan have distinct keys.
* The in-place repair is a cut and one write; reading a file, or `lookup`, is one step.
* `CandLease` does not count bytes: being under the cap, out of budget or out of keys
  is a choice. mkdir and utimes are one step, and so are asking for the leases of
  one's own namespace and listing its keys.
* `CandLease!Age`: an hour passes, but never between a process's touch of a namespace
  and its lease, which takes seconds (PRUNE_BUDGET_MS is 30 s; raising it by
  `ASMLIFT_CANDCACHE_PRUNE_MS` beyond the hour would break this assumption).
* Pids are not reused and a lease is a process's, not a thread's (`RowQueue`, `CandLease`).
* `RankDriver`: a worker's pending requests are the one its loop awaits, so a request's
  number is its worker; bytes are a score; the fan is a constant. A compile marked
  "attempts unread" may lose attempts of its refusal, after the verdict only.
* `RankingHook`: progress is a number; React's batching is a render and its effects, in
  this order; a worker that loads never unloads.
* `BenchLock`: a scan is one step, the record two. `RecordKept`, `KeptApart` and `MemoryFits` set
  aside what the code's comments leave open: a record written while another job
  was removing dead ones (`raced`: a pid that was dead at the scan and is a job's
  again), and memory taken between another job's two readings (`moved`); the memory of
  a killed job is free at once, though shards it orphaned end only with their row.
* `StridedRange`: 2^32 is `WORD`; values are expressions of one counter. An operation's operand
  is an integer form of the counter, which may have every bit, so the width of a
  zero-fill shift is that of its amount alone; the amount is an attribute (a shift by a
  second operand gets no width). Loads, remainder pairs
  spelled with shifts, params that feed each other and the query memo are left out, and
  so are the give-ups at `Number.isSafeInteger` and the query budget: there the code answers
  nothing, which every word satisfies.

### Fairness

Three runs assume some. No kill, edit, fault or start of a run is ever fair.

* `row_queue_resume`: weak fairness of the orchestrator's steps and of each shard's. The
  orchestrator awaits its children and then runs straight through; a shard loops
  over claims with a child process per compile that has a time-out. `RunEnds` and
  `OrphansEnd` are about steps the processes take by themselves.
* `rank_driver`: each worker answers or dies and its messages arrive, the driver's
  continuations run, and stop() kills a worker that has not left by itself: it
  disconnects it and after five seconds sends SIGKILL.
* `ranking_hook`: neither event loop stops while something is queued on it, and every
  await of a run resolves.

The runs turn off the check for deadlock because the systems do stop: all runs used
up and all shards gone, a row settled, the bounds on edits or starts reached.

## 4. Findings

1. `cand_lease_evicted`: a process that prunes its own namespace asks for the leases
   there once and goes on deleting for up to 30 s; a process that claims the namespace in the
   meantime loses paths it has just been handed.
2. `ranking_hook_broken`: a ranking worker that fails to load raises one `error` event,
   which settles the request of that moment. The worker is kept; the next edit
   posts to it, shows `queued`, and nothing ever answers.
3. `row_queue_stray_part`: a shard asks whether its orchestrator is alive and then opens a
   claim. When the orchestrator is killed in between and a run of another tree
   discards the queue and plans anew, the orphan claims a row there, measures it and
   writes its part. `orchestrate.ts:205` says such a part "is not this run's"; the code keeps
   every planned row, so it is stitched and the run ends `ok`. combineProvenance then
   finds two commits among the stamps and marks the tier dirty, so a merge refuses it.

Known exceptions, from the instances above:

* A kill inside the `rmSync` of the queue directory can leave `plan.json` without
  `claims/` (or with fewer claims than measured rows): `--resume` accepts what
  cannot be resumed, or repeats rows whose claim has gone but whose record is in a
  part (`row_queue_cut_removal.cfg`). Since such a claim counts as finished, the next run
  does not see the orphan that is measuring one and starts beside it. `queue.ts:202-205`
  and `orchestrate.ts:211-215` count rows that were measured twice, and give only a
  shard that was still writing as the cause. `Resumable` and `NeverRemeasured` set `remnant` aside,
  and `Untold` counts everybody alive in one; `OneMeasurer`, `OneTree`, `CleanPast`, `JournalKept`,
  `OkIsComplete` and the ledger hold there too.
* liveClaimers sees an orphan only in a claim that names it and that no part finished. A
  run that starts while an orphan is booting, asking, opening or naming a claim goes on
  beside it (`strays`). Finding 3 is the worst of it. A booting one costs less: it
  finds its orchestrator gone and leaves, but its last flush may write an
  empty part over the part of the new run's shard of that number (`runner.ts:246`); that
  shard's next flush writes it whole again, and if there is none the rows read as
  lost and the run does not end `ok`.
* Two processes storing the same object for the first time each write it; the
  second rename leaves the first one's key with a file of its own. No byte is
  wrong, but the key is not the hardlink the layout describes and a later in-place
  repair does not reach it.
* `rmSync` of another namespace follows the second look at its leases without
  excluding anybody: a lease written in between goes with the rest, and its owner
  goes on without one. `Untouchable` says how far this and finding 1 can go: a key or
  a living lease goes only at the hand of a pruner that had looked before that
  lease was written.
* Admission reads the memory before the register: a registered job that takes its
  memory between the two is counted in neither, and the second job is admitted
  beside a first it has seen.

## 5. What is proved

TLAPS proves the following for every number of processes, rows, keys, namespaces,
fans, jobs and inputs and every bound. The assumptions are the modules' named ones (bounds
are naturals, a plan names a row once, `None` and `Torn` are not values). The theorems
about `RowQueue` need no more: orphans in any state, removals cut short at any
entry, any number of runs are in what they are about, except that `LedgerImplemented`
assumes that no power loss tears a part file (then a row does leave the ledger).

**RowQueue.** `IInv` adds to `TypeOK` what ties the processes to the disk: whoever is alive is
of the newest run or a stray, and strays go on by the plan they have read
(`StraysOK`); the newest run's shards work for the plan on disk and their part files are
what they have recorded (`LiveOK`); one that is between claim and record is named in its
claim, and its row is in no part (`ClaimOK`); where the orchestrator is decides what
is on disk and what it remembers of it (`RunOK`); every measured row is claimed and
every part is of the plan's tree (`PlanOK`); so are the tier file and what is about
to be written to it (`TierOK`). None of the properties is inductive alone: that two
shards do not measure one row rests on the claim, that the claim is still theirs rests
on no other run being there, and that on liveClaimers, which reads the claims. What a
stray or a remnant spoils is left out of these parts, conjunct by conjunct, and
nothing more: a part file is exempt only while a stray has its shard number, a
shard's own claim never is. Theorems: `TypeCorrect`, `Exclusive` (`OneMeasurer`), `MeasuredOnce`
(`NeverRemeasured`), `RunsAlone` (`NoOrphanBesideRun`), `TreesApart` (`OneTree`), `CanResume` (`Resumable`).

Two more invariants build on it. `JInv` adds that what is measured is of the plan, that
a queue being cleaned up is all published, and that a run beside the parts of an
earlier generation found them clean: `StaysClean` (`CleanPast`), `NothingLost`
(`JournalKept`) and `LedgerImplemented` (`ImplementsLedger`: initial states map to initial
states and every step to a ledger step or a stutter). `KInv` adds, while a run waits, that
a row whose claim is taken is measured, skipped, or in the hands of a shard that is
alive or has failed the run: only then does exit 0 follow, `WellEnded` (`OkIsComplete`).

**CandStore.** The invariant says that no file has two object names and that a file
which holds a key's own bytes is only ever rewritten by a process that compiled
those bytes: then a put's answer cannot go bad later. Theorems: `TypeCorrect`,
`PutIsTrue` (`StoredIsTruth`), `Contained` (`NeverSpreads`). `AInv` adds, per process,
that it withholds at most the key it is compiling, never one it has audited, and
that the counters an audit ends in add up to the audited keys: `AlwaysReconciles`
(`Reconciles`) and, for finitely many candidates, `WithheldAtMostOnce` (`WithheldOnce`).

`WithholdingCostsNothing` (`NeverWorse`) needs that an answer was withheld only from a key now
under audit (`HInv`), so that what the compile gives is an answer at least as good.
`RepairsAreReported` (`NoSilentRepair`) is the hardest of them: the answer for a key may change
because another key's repair rewrote a shared file, because a prune took one of two answers,
or because two repairs overlap. `Effect` lists all that a step may do to an answer, and
every step has only those (`Harmless`); `SInv` says that whoever is about to store has nothing
left to put right that is not in the log (`Fit`), that a repair in place follows its report
(`RepairOK`), and that an object about to be linked to is whole, gone, or cut for a reported
repair (`LinksOK`). It is proved for stores that have one answer for each key (`OneAnswer`): where
a key has an object and a rejection, the object answers, a prune may take it, and the
rejection comes through, right, and in silence. That is an eviction that happens to mend a
store no process writes; the run covers one such store without evictions, where the
property holds too.

**CandLease.** The invariant says that whoever holds a lease where somebody deletes
wrote it after that pruner looked (`LateOK`), and that a namespace somebody is about
to claim is young or gone, hence on no list made since (`YoungOK`, `EarlyOK`).
Theorems: `TypeCorrect`, `PruneIsFirst`, `HeldIsUntouchable` (`Untouchable`),
`GraceIsEnough` (`GraceCovers`).

**RankDriver.** While the pool has not failed, everything memoized is the truth, or, after
the verdict, agrees with it in kind and score (`ScoredOK`); what is under way belongs
to its phase (`PlaceOK`); and whatever the phase owes is under way or scored (`DueOK`). The
last is what makes the verdict and the ranking complete, and needs that the probes
exist and decide the verdict for any fan, which is proved first. Theorem:
`RankedAsSerial` (`SameAsSerial`).

`CInv` follows the counters through close(), deaths and stop(): a worker is asked for its
counters only when no loop is left, and they are lost only with a failure (`AskedOK`); what
this process has is the total of those that were taken over (`AbsorbedOK`); and while nothing
has failed, what the workers did, what is in flight and what is left to schedule is never
more than the fan (`FanOK`), for a candidate goes to one worker. Theorems: `TypeCorrect`, `CountersAreWhole`
(`CountersWhole`).

**RankingHook.** Ids only grow along page, inbox, worker and outbox (`InboxOK`, `RunsOK`,
`OutboxOK`), each of the current id is about what the page asked for (`PageOK`), and
the ticks of one id go forward in the outbox and are never past their run
(`OrderOK`), which is what `NeverReopened` needs of a queue. Theorems: `TypeCorrect`,
`ShownIsOfTheInput` (`OnlyThisInput`), `SilencedRunsAreStale` (`SilencedIsStale`),
`VerdictsStand` (`NeverReopened`).

**BenchLock.** A record that was not written under a removal is its job's own and is on
nobody's list of dead ones (`RecordOK`); what a started job saw is still registered and
collides with it only if that record was raced for (`LookOK`). Theorems: `TypeCorrect`,
`RecordsAreKept` (`RecordKept`), `JobsAreKeptApart` (`KeptApart`).

`PeaksFit` (`MemoryFits`) needs `MInv`: nobody holds more than it needs, a reading that was not
overtaken is at most what is free (`ReadingOK`), and a job admitted on one fits beside the
peaks of everybody it counted (`PromiseOK`), which the unspent part of a promise makes true:
what a registered job has taken is missing from the reading, the rest from the budget.

**StridedRange.** For a machine of any power of two words, and any loop, expression, test and
divisor of the sets above. The proof is in three layers. Each operator on ranges is sound:
its answer holds the machine's result for every word its operand may be (`IntoWordFacts`,
`TestBoundSound`, `MeetInFacts`, `UnderSound`, `FormSound`, `ShiftMaskSound`, `WidthSound`,
`RemainderSound`, and from them `TermSound` and `EdgeSound`); a range holds a word when one of its
integers is that word modulo `WORD`, which is what lets a range cross the edge of a
window, and a range is never taken for words when that would not be true. The laws of
gcd, division rounding down, and of bits and powers of two, which these rest on, are proved
first. Then the induction: whatever `inductive` proved holds where the loop starts and is left
by no back edge (`Kept`), however the hypothesis grew; so the running counter stays
in it, and also in what one of the in-edges passes (`CounterOK`), which is what the
narrower of the two needs. Last, the windows and `rangeMayBe`. Theorems: `InductionHolds`,
`TypeCorrect`, `CounterStaysCovered` (`CounterCovered`), `UseStaysCovered` (`UseCovered`).

Those are about answers that are too small; `LatchesBound` (`LatchBounds`) is about one that is too
large. For the up-counters of that property `LatchOK` says what the hypothesis is: the start,
until the one round that grows names the latch's bound, and then a range from the start
to the latch, in steps that divide the loop's own (`Settled`), which no edge leaves. The
induction therefore ends within two rounds and proves something.

Only model-checked: `RunEnds`, `OrphansEnd`, `RowSettles` and `NoPerpetualSpinner`, because liveness
under fairness is out of the prover's reach. Every other property of a passing run is a
theorem. TLC checked each inductive invariant (for `StridedRange` and `CandStore`, on the
instances above) before it was proved.

## 6. Not modelled

* The decompile pipeline (`packages/core/src`: frontends, IR, raising, pattern engine,
  structuring, l3, backends, parsers of C) is by far the largest part of the
  repository. It is a pure function of one function's text and keeps no state; the
  inputs on which it could go wrong are whole functions, which no bounded set
  represents, and what is promised of it is decided by recompiling. The one piece
  with a specification of its own that a small machine can represent, the
  ranges of `bits.ts`, is `StridedRange`.
* Which spellings a function has (`rank-variations.ts` and the variations) is a table; the
  fan is a constant of `RankDriver` and a size in `RankingHook`.
* Several tiers over shared slots: `RowQueue` is one tier with all its shards started at
  once. That tiers take slots from one list, and that one tier's refusal refuses the
  whole run, is not modelled.
* The sweep is one process, or one child per tree, that compares digests; in the
  register it is a job of `BenchLock`.
* Docker's compile cache answers as `CandStore` does; when a container is replaced
  under its name is docker's doing. The m2c and target caches write whole files by
  rename under a digest of their inputs.
* Provenance is the dirty stamp in `RowQueue`; the sampling of git and the merge of
  reports are not modelled.
* Candidate reads and the namespace stamp decide from text whether a compile is a
  function of its input; `CandStore` takes the outcome as given.
* Command line, reports, pages, the benchmark schema and the toolchains are parsing,
  rendering, types and external programs.
