------------------------------ MODULE RowQueue ------------------------------
(***************************************************************************)
(* The row queue of one benchmark tier: apps/benchmark/src/run/queue.ts,   *)
(* orchestrate.ts and the claiming half of runner.ts.                      *)
(*                                                                         *)
(* A run is an ORCHESTRATOR process and the SHARD processes it spawns.     *)
(* They share one directory, results/.<tier>.run:                          *)
(*   plan.json        which rows, in claim order, and for which tree;      *)
(*   claims/<k>       row k is taken (created with O_EXCL, then named);    *)
(*   part-<g>-<s>     what shard s of generation g measured or skipped.    *)
(* A run that ends well publishes <tier>.json and removes the directory;   *)
(* one that fails or is killed leaves it for `--resume`.                   *)
(***************************************************************************)
EXTENDS Integers, Sequences, FiniteSets

CONSTANTS
  Rows,            \* row ids
  Keys,            \* a tree and a selection: the PlanKey a run is started with
  None,            \* "no such file" / "no value"
  Torn,            \* a part file that does not parse
  Ids,             \* Ids[k]: the rows key k selects, in claim order
  NoCommit,        \* the keys whose commit git could not tell ("unknown")
  Filtered,        \* the keys with a filter that may select no row
  MaxRuns,         \* bound: how many runs are admitted
  MaxJobs,         \* bound: the largest --jobs
  MayTear,         \* may a power loss leave a part file unparsable?
  MayDirty         \* may the worktree go dirty under a run?

Runs    == 1..MaxRuns
Procs   == Runs \X (1..MaxJobs)           \* shard s of run n
PartIds == (0..MaxRuns) \X (1..MaxJobs)   \* part-<generation>-<shard>
Idx     == 1..Cardinality(Rows)           \* claims/<k>

Planned(k) == {Ids[k][i] : i \in DOMAIN Ids[k]}

Part == [rows : SUBSET Rows, skipped : SUBSET Rows, tree : Keys, dirty : BOOLEAN]

ASSUME BoundsAssumption ==
  /\ MaxRuns \in Nat \ {0}
  /\ MaxJobs \in Nat \ {0}
  /\ IsFiniteSet(Rows)

ASSUME SwitchAssumption ==
  /\ MayTear \in BOOLEAN
  /\ MayDirty \in BOOLEAN

\* A plan names each row once (row ids are unique in a tier).
ASSUME PlanAssumption ==
  /\ NoCommit \subseteq Keys
  /\ Filtered \subseteq Keys
  /\ Ids \in [Keys -> Seq(Rows)]
  /\ \A k \in Keys : /\ Len(Ids[k]) <= Cardinality(Rows)
                     /\ \A i, j \in DOMAIN Ids[k] : Ids[k][i] = Ids[k][j] => i = j

ASSUME DistinctAssumption ==
  /\ None \notin Keys
  /\ None \notin Procs \X BOOLEAN
  /\ None \notin Part
  /\ Torn \notin Part
  /\ None # Torn

VARIABLES
  plan,       \* plan.json: the key it was made for, or None
  claimsDir,  \* does claims/ exist?
  claims,     \* claims[i]: <<shard, has it written its name?>> or None
  parts,      \* the part files
  tier,       \* <tier>.json: the tree each published row was measured on
  tierTorn,   \* was <tier>.json cut short while it was written?
  run,        \* the orchestrator
  runs,       \* how many runs have been admitted; the current one's number
  verdict,    \* how the last run, or attempt to start one, ended
  proc        \* the shard processes

\* What no process reads; the properties say by them what they are about.
VARIABLES
  strays,     \* the orphans a run was admitted beside
  remnant     \* has part of the directory been removed, and part not?

disk == <<plan, claimsDir, claims, parts, tier, tierTorn>>
aux  == <<strays, remnant>>
vars == <<disk, run, runs, verdict, proc, aux>>

-----------------------------------------------------------------------------
(* The directory, as the orchestrator reads it.                            *)

DirExists == plan # None \/ claimsDir \/ \E q \in PartIds : parts[q] # None

Readable(q) == parts[q] # None /\ parts[q] # Torn

\* journalRows: the rows measured, and the rows skipped, over every readable part.
Measured == {r \in Rows : \E q \in PartIds : Readable(q) /\ r \in parts[q].rows}
Skipped  == {r \in Rows : \E q \in PartIds : Readable(q) /\ r \in parts[q].skipped}

\* readJournal: one past the largest generation that left a part file.
GenBounds == {g \in 0..MaxRuns : \A q \in PartIds : parts[q] # None => q[1] < g}
\* Faulty: the largest generation itself, so its part files are written over.
NextGenReused == CHOOSE g \in GenBounds \cup {0} : \A h \in GenBounds : g <= h /\ (g > 0 => g < h)

NextGen == CHOOSE g \in GenBounds : \A h \in GenBounds : g <= h

\* Does claim i stand for one of the rows in done, under the plan on disk?
ClaimOf(i, done) ==
  /\ plan # None
  /\ i \in DOMAIN Ids[plan]
  /\ Ids[plan][i] \in done

ClaimDone(i) == ClaimOf(i, Measured)

-----------------------------------------------------------------------------
(* The processes.                                                          *)

Working == {"boot", "claim", "open", "name", "measure"}

\* Faulty: a child that failed is never seen to close.
ExitedWell == {"exit0", "exit3"}

Exited == {"exit0", "exit1", "exit3"}

Live(p)  == proc[p].pc \in Working
Mine     == {runs} \X (1..run.jobs)

\* Is the orchestrator that spawned shard p still there?
OrchAlive(p) == run.pc # "idle" /\ p[1] = runs

Shard(pc, key, gen) ==
  [pc |-> pc, at |-> 1, cases |-> None, tree |-> key, gen |-> gen,
   rows |-> {}, skipped |-> {}, bad |-> FALSE, dirty |-> FALSE]

Gone(code) == Shard(code, None, 0)

Become(p, s) == proc' = [proc EXCEPT ![p] = s]

\* An exit that nobody waits for leaves nothing.
Exit(p, code) == Become(p, Gone(IF OrchAlive(p) THEN code ELSE "absent"))
Reaped == [p \in Procs |-> IF Live(p) THEN proc[p] ELSE Gone("absent")]

\* What the orchestrator keeps in memory: of a journal it resumes, the rows
\* done, the part files to drop and the claims to free; of one it stitched,
\* what to publish and whether to keep the directory.
Idle ==
  [pc |-> "idle", key |-> None, gen |-> 0, jobs |-> 1,
   done |-> {}, drop |-> {}, free |-> {},
   out |-> [r \in Rows |-> None], keep |-> FALSE]

\* The row shard p has claimed, by the plan it read when it started.
RowOf(p) == Ids[proc[p].cases][proc[p].at]

Init ==
  /\ plan = None /\ claimsDir = FALSE
  /\ claims = [i \in Idx |-> None]
  /\ parts = [q \in PartIds |-> None]
  /\ tier = [r \in Rows |-> None] /\ tierTorn = FALSE
  /\ run = Idle /\ runs = 0 /\ verdict = "none"
  /\ proc = [p \in Procs |-> Gone("absent")]
  /\ strays = {} /\ remnant = FALSE

-----------------------------------------------------------------------------
(* Starting a run.                                                         *)

\* liveClaimers: live shard children named by a claim no part file finished.
LiveClaimers ==
  {p \in Procs : Live(p) /\ \E i \in Idx : claims[i] = <<p, TRUE>> /\ ~ClaimDone(i)}

\* Faulty: the unfinished run's tree and selection are not compared.
ResumeRefusalAnyKey(key) == plan = None \/ key \in NoCommit

\* resumeRefusal: no unfinished run, an unknown commit, or another tree or selection.
ResumeRefusal(key) ==
  \/ plan = None
  \/ key \in NoCommit
  \/ plan # key

DirtyJournal == \E q \in PartIds : Readable(q) /\ parts[q].dirty

\* Faulty: live claimers are not looked for.
QueueRefusalBlind(key, resume) == resume /\ (ResumeRefusal(key) \/ DirtyJournal)

\* Faulty: a dirty journal is resumed.
QueueRefusalAnyStamp(key, resume) == LiveClaimers # {} \/ (resume /\ ResumeRefusal(key))

QueueRefusal(key, resume) ==
  \/ LiveClaimers # {}
  \/ resume /\ (ResumeRefusal(key) \/ DirtyJournal)

\* Orphans that no claim tells of: those between two rows (or not yet at
\* their first), and everybody alive in a queue that is disturbed already,
\* by such an orphan or by a removal cut short.
Untold == {p \in Procs : Live(p) /\ (proc[p].pc # "measure" \/ remnant \/ strays # {})}

\* orchestrate looks once, and nothing holds the orphans back afterwards. A
\* start that is refused throws before it touches anything.
StartRun(key, resume, jobs) ==
  /\ run.pc = "idle" /\ runs < MaxRuns
  /\ ~QueueRefusal(key, resume)
  /\ runs' = runs + 1
  /\ run' = [Idle EXCEPT !.pc = IF resume THEN "journal" ELSE "discard",
                          !.key = key, !.jobs = jobs]
  /\ verdict' = "none"
  /\ strays' = strays \cup Untold
  /\ UNCHANGED <<disk, proc, remnant>>

-----------------------------------------------------------------------------
(* prepareQueue: discard the old queue and plan a new one, or release the  *)
(* claims an interrupted run left unfinished.                              *)

\* rmSync, entry by entry, in whatever order the directory lists them. When
\* an orphan writes into a directory just emptied it throws: that is a kill.
RemoveEntry ==
  /\ run.pc \in {"discard", "clean"}
  /\ \/ /\ plan # None
        /\ plan' = None /\ UNCHANGED <<claimsDir, claims, parts>>
     \/ \E i \in Idx :
        /\ claims[i] # None
        /\ claims' = [claims EXCEPT ![i] = None]
        /\ UNCHANGED <<plan, claimsDir, parts>>
     \/ /\ claimsDir /\ \A i \in Idx : claims[i] = None
        /\ claimsDir' = FALSE /\ UNCHANGED <<plan, claims, parts>>
     \/ \E q \in PartIds :
        /\ parts[q] # None
        /\ parts' = [parts EXCEPT ![q] = None]
        /\ UNCHANGED <<plan, claimsDir, claims>>
  /\ remnant' = DirExists'
  /\ UNCHANGED <<tier, tierTorn, run, runs, verdict, proc, strays>>

\* Faulty: plan.json is written before there is a claims/ to claim in.
PlanFirst ==
  /\ run.pc = "discard" /\ ~DirExists
  /\ plan' = run.key
  /\ run' = [run EXCEPT !.pc = "plan"]
  /\ UNCHANGED <<claimsDir, claims, parts, tier, tierTorn, runs, verdict, proc, aux>>

\* writePlan makes claims/ first and writes plan.json second.
MakeClaims ==
  /\ run.pc = "discard" /\ ~DirExists
  /\ claimsDir' = TRUE
  /\ run' = [run EXCEPT !.pc = "plan"]
  /\ UNCHANGED <<plan, claims, parts, tier, tierTorn, runs, verdict, proc, aux>>

WritePlan ==
  /\ run.pc = "plan"
  /\ plan' = run.key
  /\ run' = [run EXCEPT !.pc = "fan"]
  /\ UNCHANGED <<claimsDir, claims, parts, tier, tierTorn, runs, verdict, proc, aux>>

\* readJournal and journalRows, once.
ReadJournal ==
  /\ run.pc = "journal"
  /\ run' = [run EXCEPT !.pc = "drop", !.gen = NextGen, !.done = Measured,
                        !.drop = {q \in PartIds : parts[q] = Torn}]
  /\ UNCHANGED <<disk, runs, verdict, proc, aux>>

\* A part that would not parse is removed, whatever it has become since.
DropTorn(q) ==
  /\ run.pc = "drop" /\ q \in run.drop
  /\ parts' = [parts EXCEPT ![q] = None]
  /\ run' = [run EXCEPT !.drop = @ \ {q}]
  /\ UNCHANGED <<plan, claimsDir, claims, tier, tierTorn, runs, verdict, proc, aux>>

\* Faulty: finished claims are released too.
ListEvery ==
  /\ run.pc = "drop" /\ run.drop = {}
  /\ run' = [run EXCEPT !.pc = "release", !.free = {i \in Idx : claims[i] # None}]
  /\ UNCHANGED <<disk, runs, verdict, proc, aux>>

\* releaseUnfinished lists the claims, and removes every one whose row the
\* journal it read had not measured.
ListClaims ==
  /\ run.pc = "drop" /\ run.drop = {}
  /\ run' = [run EXCEPT !.pc = "release",
                        !.free = {i \in Idx : claims[i] # None /\ ~ClaimOf(i, run.done)}]
  /\ UNCHANGED <<disk, runs, verdict, proc, aux>>

ReleaseClaim(i) ==
  /\ run.pc = "release" /\ i \in run.free
  /\ claims' = [claims EXCEPT ![i] = None]
  /\ run' = [run EXCEPT !.free = @ \ {i}]
  /\ UNCHANGED <<plan, claimsDir, parts, tier, tierTorn, runs, verdict, proc, aux>>

\* Every slot spawns its shard child before the orchestrator first waits.
Fan ==
  /\ run.pc = "fan" \/ (run.pc = "release" /\ run.free = {})
  /\ run' = [run EXCEPT !.pc = "wait", !.done = {}]
  /\ proc' = [p \in Procs |-> IF p \in Mine THEN Shard("boot", run.key, run.gen) ELSE proc[p]]
  /\ UNCHANGED <<disk, runs, verdict, aux>>

-----------------------------------------------------------------------------
(* A shard child: runner.ts `runCases` over queue.ts `claimer`.            *)

\* planCases: the plan's rows as this tree's cases; a row it does not select throws.
Boot(p) ==
  /\ proc[p].pc = "boot"
  /\ IF plan # None /\ Planned(plan) \subseteq Planned(proc[p].tree)
       THEN Become(p, [proc[p] EXCEPT !.pc = "claim", !.cases = plan])
       ELSE Exit(p, "exit1")
  /\ UNCHANGED <<disk, run, runs, verdict, aux>>

\* claim(): the orchestrator is asked after once, before the cursor moves.
ClaimGo(p) ==
  /\ proc[p].pc = "claim" /\ OrchAlive(p)
  /\ Become(p, [proc[p] EXCEPT !.pc = "open"])
  /\ UNCHANGED <<disk, run, runs, verdict, aux>>

\* Faulty: opened without O_EXCL, so an existing claim is taken over.
OpenShared(p) ==
  /\ proc[p].pc = "open" /\ claimsDir
  /\ proc[p].at \in DOMAIN Ids[proc[p].cases]
  /\ claims' = [claims EXCEPT ![proc[p].at] = <<p, FALSE>>]
  /\ Become(p, [proc[p] EXCEPT !.pc = "name"])
  /\ UNCHANGED <<plan, claimsDir, parts, tier, tierTorn, run, runs, verdict, aux>>

\* open(claims/<at>, 'wx'): created by this process, or the cursor moves on.
OpenClaim(p) ==
  /\ proc[p].pc = "open" /\ claimsDir
  /\ proc[p].at \in DOMAIN Ids[proc[p].cases]
  /\ IF claims[proc[p].at] = None
       THEN /\ claims' = [claims EXCEPT ![proc[p].at] = <<p, FALSE>>]
            /\ Become(p, [proc[p] EXCEPT !.pc = "name"])
       ELSE /\ Become(p, [proc[p] EXCEPT !.at = @ + 1])
            /\ UNCHANGED claims
  /\ UNCHANGED <<plan, claimsDir, parts, tier, tierTorn, run, runs, verdict, aux>>

NameClaim(p) ==
  /\ proc[p].pc = "name"
  /\ claims' = [claims EXCEPT ![proc[p].at] = IF @ = <<p, FALSE>> THEN <<p, TRUE>> ELSE @]
  /\ Become(p, [proc[p] EXCEPT !.pc = "measure"])
  /\ UNCHANGED <<plan, claimsDir, parts, tier, tierTorn, run, runs, verdict, aux>>

\* The stamp of a flush: dirty once the worktree was ever seen dirty.
Stamp(s) == IF MayDirty THEN {TRUE, s.dirty} ELSE {s.dirty}

\* flush: the whole part file, written beside and renamed into place.
Flush(p, s) ==
  parts' = [parts EXCEPT ![<<s.gen, p[2]>>] =
              [rows |-> s.rows, skipped |-> s.skipped, tree |-> s.tree, dirty |-> s.dirty]]

\* The shard after it recorded row r: measured, or skipped.
Recorded(s, r, d, skip) ==
  [s EXCEPT !.pc = "claim", !.at = @ + 1, !.dirty = d,
            !.rows = IF skip THEN @ ELSE @ \cup {r},
            !.skipped = IF skip THEN @ \cup {r} ELSE @]

\* The row is measured, or its toolchain is unavailable: recorded and flushed.
Record(p) ==
  /\ proc[p].pc = "measure" /\ DirExists
  /\ \E d \in Stamp(proc[p]), skip \in BOOLEAN :
       LET s == Recorded(proc[p], RowOf(p), d, skip) IN Flush(p, s) /\ Become(p, s)
  /\ UNCHANGED <<plan, claimsDir, claims, tier, tierTorn, run, runs, verdict, aux>>

\* Its target would not build, or its evaluation threw: no row, and no flush.
NoRow(p) ==
  /\ proc[p].pc = "measure"
  /\ Become(p, [proc[p] EXCEPT !.pc = "claim", !.at = @ + 1, !.bad = TRUE])
  /\ UNCHANGED <<disk, run, runs, verdict, aux>>

\* The queue is spent, or the orchestrator is gone: a last flush, then exit -
\* nonzero if a row came to nothing, or the compile cache disagreed (exit3).
Spent(p) == proc[p].pc = "open" /\ proc[p].at \notin DOMAIN Ids[proc[p].cases]

\* Faulty: an orphan waits for an orchestrator that is gone.
OrphanWaits(p) == FALSE

Orphan(p) == proc[p].pc = "claim" /\ ~OrchAlive(p)

Finish(p) ==
  /\ Spent(p) \/ Orphan(p)
  /\ DirExists
  /\ \E d \in Stamp(proc[p]) : Flush(p, [proc[p] EXCEPT !.dirty = d])
  /\ \E code \in IF proc[p].bad THEN {"exit1"} ELSE {"exit0", "exit3"} : Exit(p, code)
  /\ UNCHANGED <<plan, claimsDir, claims, tier, tierTorn, run, runs, verdict, aux>>

\* ENOENT: the directory went away under the shard.
Enoent(p) ==
  /\ \/ proc[p].pc = "measure" /\ ~DirExists
     \/ (Spent(p) \/ Orphan(p)) /\ ~DirExists
     \/ proc[p].pc = "open" /\ ~Spent(p) /\ ~claimsDir
  /\ Exit(p, "exit1")
  /\ UNCHANGED <<disk, run, runs, verdict, aux>>

ShardStep(p) ==
  \/ Boot(p) \/ ClaimGo(p) \/ OpenClaim(p) \/ NameClaim(p)
  \/ Record(p) \/ NoRow(p) \/ Finish(p) \/ Enoent(p)

-----------------------------------------------------------------------------
(* stitch and the verdict, once every shard child has exited.              *)

Codes == {proc[p].pc : p \in Mine}

\* unaccounted: planned rows neither measured nor skipped.
Unaccounted == Planned(plan) \ (Measured \cup Skipped)

NoParts == \A q \in PartIds : parts[q] = None

\* A filter that measured nothing leaves the tier file alone.
NoRowSelected == run.key \in Filtered /\ Measured \cap Planned(plan) = {}

Keep == Codes # {"exit0"} \/ Unaccounted # {}

\* Faulty: only the rows are looked at, never how the shards exited.
VerdictOfRows ==
  IF NoRowSelected THEN "empty"
  ELSE IF Unaccounted # {} /\ ~NoParts THEN "lost" ELSE "ok"

Verdict ==
  IF Codes # {"exit0"}
    THEN IF Codes \subseteq {"exit0", "exit3"} THEN "mismatch" ELSE "failed"
    ELSE IF NoRowSelected THEN "empty"
    ELSE IF Unaccounted # {} /\ ~NoParts THEN "lost" ELSE "ok"

\* journalRows lets the later part win: generation first, then shard.
Before(q, s) == q[1] < s[1] \/ (q[1] = s[1] /\ q[2] <= s[2])
With(r) == {q \in PartIds : Readable(q) /\ r \in parts[q].rows}
Winner(r) == CHOOSE q \in With(r) : \A s \in With(r) : Before(s, q)

\* Faulty: only the part files of this generation are stitched.
StitchedLast ==
  [r \in Rows |->
     IF r \in Planned(plan) /\ \E q \in With(r) : q[1] = run.gen THEN parts[Winner(r)].tree ELSE None]

Stitched ==
  [r \in Rows |-> IF r \in Measured \cap Planned(plan) THEN parts[Winner(r)].tree ELSE None]

Stitch ==
  /\ run.pc = "wait" /\ \A p \in Mine : proc[p].pc \in Exited
  /\ verdict' = Verdict
  /\ \/ /\ NoParts \/ NoRowSelected
        /\ run' = IF NoParts \/ Keep THEN Idle ELSE [run EXCEPT !.pc = "clean"]
        /\ UNCHANGED tierTorn
     \/ /\ ~NoParts /\ ~NoRowSelected
        /\ run' = [run EXCEPT !.pc = "write", !.out = Stitched, !.keep = Keep]
        /\ tierTorn' = TRUE
  /\ proc' = Reaped
  /\ UNCHANGED <<plan, claimsDir, claims, parts, tier, runs, aux>>

\* <tier>.json is truncated and rewritten in place.
WriteTier ==
  /\ run.pc = "write"
  /\ tier' = run.out /\ tierTorn' = FALSE
  /\ run' = IF run.keep THEN Idle ELSE [run EXCEPT !.pc = "clean", !.out = Idle.out]
  /\ UNCHANGED <<plan, claimsDir, claims, parts, runs, verdict, proc, aux>>

Cleaned ==
  /\ run.pc = "clean" /\ ~DirExists
  /\ run' = Idle
  /\ UNCHANGED <<disk, runs, verdict, proc, aux>>

-----------------------------------------------------------------------------
(* What the environment does to the processes.                             *)

\* Faulty: a child killed by a signal reports its code, which is null.
KillShardNull(p) ==
  /\ Live(p)
  /\ Become(p, Gone("null"))
  /\ UNCHANGED <<disk, run, runs, verdict, aux>>

KillShard(p) ==
  /\ Live(p)
  /\ Exit(p, "exit1")
  /\ UNCHANGED <<disk, run, runs, verdict, aux>>

\* Part files of this run's generation are its own only once it has shards.
Spawned == run.pc \in {"wait", "write", "clean"}

\* Ctrl-C, or one signal to the process group; a power loss may tear parts.
KillRun ==
  /\ run.pc # "idle"
  /\ run' = Idle /\ verdict' = "killed"
  /\ proc' = [p \in Procs |-> IF p[1] = runs /\ Live(p) THEN Gone("absent") ELSE Reaped[p]]
  /\ \E T \in SUBSET {q \in PartIds : MayTear /\ Spawned /\ q[1] = run.gen /\ Readable(q)} :
       parts' = [q \in PartIds |-> IF q \in T THEN Torn ELSE parts[q]]
  /\ UNCHANGED <<plan, claimsDir, claims, tier, tierTorn, runs, aux>>

\* kill -9 of the orchestrator alone: its shards are orphans.
KillOrchestrator ==
  /\ run.pc # "idle"
  /\ run' = Idle /\ verdict' = "killed"
  /\ proc' = Reaped
  /\ UNCHANGED <<disk, runs, aux>>

-----------------------------------------------------------------------------
OrchStep ==
  \/ RemoveEntry \/ MakeClaims \/ WritePlan
  \/ ReadJournal \/ (\E q \in PartIds : DropTorn(q))
  \/ ListClaims \/ (\E i \in Idx : ReleaseClaim(i))
  \/ Fan \/ Stitch \/ WriteTier \/ Cleaned

UserStep ==
  \/ \E key \in Keys, resume \in BOOLEAN :
       \E jobs \in 1..MaxJobs : StartRun(key, resume, jobs)
  \/ \E p \in Procs : KillShard(p)
  \/ KillRun
  \/ KillOrchestrator

Next == UserStep \/ OrchStep \/ \E p \in Procs : ShardStep(p)

Spec == Init /\ [][Next]_vars

\* Every process that can take a step takes one: no row ranks for ever.
Fairness == WF_vars(OrchStep) /\ \A p \in Procs : WF_vars(ShardStep(p))

FairSpec == Spec /\ Fairness
-----------------------------------------------------------------------------
(* Properties.                                                             *)

RunType ==
  [pc : {"idle", "discard", "plan", "journal", "drop", "release", "fan", "wait", "write", "clean"},
   key : Keys \cup {None}, gen : 0..MaxRuns, jobs : 1..MaxJobs,
   done : SUBSET Rows, drop : SUBSET PartIds, free : SUBSET Idx,
   out : [Rows -> Keys \cup {None}], keep : BOOLEAN]

ShardType ==
  [pc : {"absent"} \cup Working \cup Exited, at : Nat,
   cases : Keys \cup {None}, tree : Keys \cup {None}, gen : 0..MaxRuns,
   rows : SUBSET Rows, skipped : SUBSET Rows, bad : BOOLEAN, dirty : BOOLEAN]

\* Every variable has its type.
TypeOK ==
  /\ plan \in Keys \cup {None} /\ claimsDir \in BOOLEAN
  /\ claims \in [Idx -> (Procs \X BOOLEAN) \cup {None}]
  /\ parts \in [PartIds -> Part \cup {None, Torn}]
  /\ tier \in [Rows -> Keys \cup {None}] /\ tierTorn \in BOOLEAN
  /\ run \in RunType
  /\ runs \in 0..MaxRuns
  /\ verdict \in {"none", "ok", "empty", "lost", "failed", "mismatch", "killed"}
  /\ proc \in [Procs -> ShardType]
  /\ strays \subseteq Procs /\ remnant \in BOOLEAN

Measuring(p) == proc[p].pc = "measure"

\* Two shards measure the same row at the same time only when one of them is
\* an orphan that a run was admitted beside.
OneMeasurer ==
  \A p, q \in Procs :
    Measuring(p) /\ Measuring(q) /\ RowOf(p) = RowOf(q) /\ p # q => {p, q} \cap strays # {}

\* A live shard of an earlier run goes on beside a run only if no claim told
\* of it: whoever is measuring in an undisturbed queue keeps every start out.
NoOrphanBesideRun ==
  \A p \in Procs : run.pc # "idle" /\ Live(p) => p[1] = runs \/ p \in strays

\* A row that some part file holds is not measured again: a resumed run
\* re-queues only what its predecessors did not finish. Only a removal cut
\* short, or an orphan beside a run, can separate a row from its claim.
NeverRemeasured ==
  ~remnant /\ strays = {} => \A p \in Procs : Measuring(p) => RowOf(p) \notin Measured

\* `--resume` re-queues exactly the claims no part file finished.
ResumeIsExact == \A p \in Procs : Measuring(p) => RowOf(p) \notin Measured

\* Rows measured on two trees, or for two selections, are never in one
\* journal, nor stitched into one tier file, while no orphan is beside a run.
OneTree ==
  strays = {} =>
    /\ \A q \in PartIds : plan # None /\ Readable(q) => parts[q].tree = plan
    /\ \A r, s \in Rows : tier[r] # None /\ tier[s] # None => tier[r] = tier[s]

\* Between runs an unfinished queue can be resumed: claims/ is there to claim
\* in, and every measured row is still claimed, so only the rest is measured -
\* unless a removal of the queue was cut short.
Resumable ==
  run.pc = "idle" /\ plan # None /\ ~remnant =>
    /\ claimsDir
    /\ strays = {} => \A i \in DOMAIN Ids[plan] : Ids[plan][i] \in Measured => claims[i] # None

\* The part files an orphan beside a run may write.
Strayed(q) == \E p \in strays : p[2] = q[2]

\* No shard adds to a journal in which an earlier generation saw a dirty tree.
CleanPast ==
  run.pc = "wait" =>
    \A q \in PartIds : Readable(q) /\ q[1] < run.gen => ~parts[q].dirty \/ Strayed(q)

\* The tier file of a run that ended well has only rows measured for that
\* run's tree and selection: an earlier run's part is not this run's.
TierIsThisRuns ==
  run.pc = "clean" /\ verdict = "ok" => \A r \in Rows : tier[r] \in {None, run.key}

\* A measured row leaves the journal only once the tier file has it, because
\* the user started afresh, because a power loss tore its part, or because
\* it was in a part file that an orphan beside a run writes too.
JournalKept ==
  [][\A r \in Measured \ Measured' :
       \/ run.pc = "clean" /\ tier[r] # None /\ ~tierTorn
       \/ run.pc = "discard"
       \/ \E q \in PartIds : Readable(q) /\ parts'[q] = Torn
       \/ \E q \in With(r) : Strayed(q)]_vars

\* A run ends well only if each planned row was measured or its own
\* generation skipped it: no row is lost between two processes or two runs.
OkIsComplete ==
  [][run.pc = "wait" /\ verdict' = "ok" =>
       \A r \in Planned(plan) :
         \/ r \in Measured
         \/ \E q \in PartIds : /\ Readable(q) /\ r \in parts[q].skipped
                               /\ q[1] = run.gen \/ strays # {}]_vars

\* Every admitted run ends, however its shards end.
RunEnds == run.pc # "idle" ~> run.pc = "idle"

\* A shard whose orchestrator is gone exits.
OrphansEnd == \A p \in Procs : (Live(p) /\ ~OrchAlive(p)) ~> ~Live(p)

\* The queue implements the ledger: claims, generations and part files are
\* one set of measured rows that only grows, is published whole, and shrinks
\* only when published or given up.
Ledger == INSTANCE RowLedger WITH
  tree <- plan, ledger <- Measured, published <- tier, afresh <- (run.pc = "discard"),
  disturbed <- (strays # {})

ImplementsLedger == Ledger!Spec

-----------------------------------------------------------------------------
(* The inductive invariant. What orphans beside a run may spoil is said of *)
(* the other shards and of a queue without strays; what a removal cut      *)
(* short leaves apart is said of a queue that is no remnant.               *)

PartOf(p) == <<proc[p].gen, p[2]>>

\* A shard of the newest run.
Own(p) == Live(p) /\ p \notin strays

\* Whoever is alive is of the newest run, or a stray; and strays go on by the
\* plan they have read.
StraysOK ==
  /\ \A p \in strays : p[1] < runs
  /\ \A p \in Procs : Live(p) =>
       /\ p \in strays \/ p[1] = runs
       /\ proc[p].gen < p[1] /\ proc[p].tree \in Keys
       /\ proc[p].pc # "boot" => proc[p].cases \in Keys
       /\ proc[p].pc \in {"name", "measure"} => proc[p].at \in DOMAIN Ids[proc[p].cases]

\* The newest run's shards work for the plan on disk; a shard's part file is
\* what it has recorded so far.
LiveOK ==
  \A p \in Procs : Own(p) =>
    /\ proc[p].tree = plan
    /\ proc[p].pc # "boot" => proc[p].cases = plan
    /\ \/ Strayed(PartOf(p))
       \/ parts[PartOf(p)] = None /\ proc[p].rows = {}
       \/ Readable(PartOf(p)) /\ parts[PartOf(p)].rows = proc[p].rows

\* A shard's claim is in claims/, under its name once it measures, and its
\* row is in no part file.
ClaimOK ==
  \A p \in Procs : Own(p) /\ proc[p].pc \in {"name", "measure"} =>
    /\ claims[proc[p].at] = <<p, Measuring(p)>>
    /\ ~remnant /\ strays = {} => Ids[plan][proc[p].at] \notin Measured

\* Outside "wait" an orchestrator has no live shard; it removes the part
\* files that are torn, and the claims that stand for no measured row.
RunOK ==
  run.pc # "idle" =>
    /\ run.key \in Keys /\ run.gen < runs
    /\ \A p \in Procs : Own(p) =>
         run.pc = "wait" /\ p[2] <= run.jobs /\ proc[p].gen = run.gen
    /\ run.pc \in {"journal", "drop", "release", "fan", "wait", "write"} => plan = run.key
    /\ run.pc = "plan" =>
         /\ plan = None /\ claimsDir
         /\ \A q \in PartIds : parts[q] # None => Strayed(q)
         /\ strays = {} => \A i \in Idx : claims[i] = None
    /\ run.pc = "journal" => \A q \in PartIds : parts[q] # None => q[1] + 1 < runs
    /\ run.pc \in {"drop", "release", "fan"} =>
         \A q \in PartIds : parts[q] # None => q[1] < run.gen \/ Strayed(q)
    /\ run.pc = "drop" =>
         /\ \A q \in run.drop : parts[q] = Torn \/ Strayed(q)
         /\ strays = {} => run.done = Measured
    /\ run.pc = "release" /\ strays = {} => \A i \in run.free : ~ClaimDone(i)

\* Part files and claims belong to the plan; every measured row is claimed.
PlanOK ==
  /\ ~claimsDir => \A i \in Idx : claims[i] = None
  /\ plan # None /\ ~remnant => claimsDir
  /\ plan # None /\ ~remnant /\ strays = {} =>
       \A i \in DOMAIN Ids[plan] : Ids[plan][i] \in Measured => claims[i] # None
  /\ \A q \in PartIds : parts[q] # None => q[1] < runs
  /\ \A q \in PartIds : plan # None /\ Readable(q) => parts[q].tree = plan \/ Strayed(q)

\* The tier file, and what is about to be written to it, are of one tree.
TierOK ==
  strays = {} =>
    /\ \A r, s \in Rows : tier[r] # None /\ tier[s] # None => tier[r] = tier[s]
    /\ run.pc = "write" => \A r \in Rows : run.out[r] \in {None, plan}

\* Together they are inductive.
IInv == TypeOK /\ StraysOK /\ LiveOK /\ ClaimOK /\ RunOK /\ PlanOK /\ TierOK

=============================================================================
