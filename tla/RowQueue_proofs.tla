--------------------------- MODULE RowQueue_proofs ---------------------------
(***************************************************************************)
(* Proofs about RowQueue.  IInv is inductive, whatever orphans go on       *)
(* beside a run and wherever a removal of the queue is cut short; the      *)
(* safety invariants the runs check follow from it, for every number of    *)
(* runs, shards, rows and trees.                                           *)
(***************************************************************************)
EXTENDS RowQueue, FiniteSetTheorems, WellFoundedInduction, TLAPS

-----------------------------------------------------------------------------
(* Facts about the constants and the types.                                *)

LEMMA CapNat == Cardinality(Rows) \in Nat
BY FS_CardinalityType, BoundsAssumption

\* A plan names rows, at most as many as there are, each once.
LEMMA PlanFacts ==
  ASSUME NEW k \in Keys
  PROVE  /\ DOMAIN Ids[k] \subseteq Idx
         /\ Planned(k) \subseteq Rows
         /\ \A i \in DOMAIN Ids[k] : Ids[k][i] \in Rows
         /\ \A i, j \in DOMAIN Ids[k] : Ids[k][i] = Ids[k][j] => i = j
BY CapNat, PlanAssumption DEF Idx, Planned

\* A set of naturals has a least element, a bounded one a greatest.
LEMMA LeastExists ==
  ASSUME NEW S \in SUBSET Nat, S # {}
  PROVE  \E g \in S : \A h \in S : g <= h
<1>1. OpToRel(<, Nat) = {ss \in Nat \X Nat : ss[1] < ss[2]}
  BY Zenon DEF OpToRel
<1>2. \E x \in S : \A y \in S : ~ (<<y, x>> \in OpToRel(<, Nat))
  BY NatLessThanWellFounded, WFMin
<1>3. PICK x \in S : \A y \in S : ~ (<<y, x>> \in {ss \in Nat \X Nat : ss[1] < ss[2]})
  BY <1>1, <1>2
<1>4. \A a, b \in Nat : a < b => <<a, b>> \in {ss \in Nat \X Nat : ss[1] < ss[2]}
  OBVIOUS
<1>5. \A y \in S : ~ (y < x)
  BY <1>3, <1>4
<1> QED
  BY <1>5

LEMMA GreatestExists ==
  ASSUME NEW N \in Nat, NEW S \in SUBSET (0..N), S # {}
  PROVE  \E g \in S : \A h \in S : h <= g
<1> DEFINE T == {n \in Nat : \E x \in S : n = N - x}
<1>1. T \in SUBSET Nat /\ T # {}
  <2>1. PICK x \in S : TRUE
    OBVIOUS
  <2>2. N - x \in T
    BY <2>1
  <2> QED
    BY <2>2
<1>2. PICK m \in T : \A t \in T : m <= t
  <2> HIDE DEF T
  <2> QED
  BY <1>1, LeastExists
<1>3. PICK g \in S : m = N - g
  OBVIOUS
<1>4. ASSUME NEW h \in S PROVE h <= g
  <2>1. N - h \in T
    OBVIOUS
  <2> QED
    BY <2>1, <1>2, <1>3
<1> QED
  BY <1>4

\* A named claim is not "no such file".
LEMMA ClaimFacts ==
  ASSUME NEW p \in Procs, NEW b \in BOOLEAN
  PROVE  <<p, b>> # None /\ <<p, b>> \in Procs \X BOOLEAN
<1>1. <<p, b>> \in Procs \X BOOLEAN
  OBVIOUS
<1> QED
  BY <1>1, DistinctAssumption

LEMMA GoneType ==
  ASSUME NEW code \in {"absent"} \cup Exited
  PROVE  Gone(code) \in ShardType /\ Gone(code).pc \notin Working
BY BoundsAssumption DEF Gone, Shard, ShardType, Exited, Working

LEMMA IdleType == Idle \in RunType /\ Idle.pc = "idle"
BY BoundsAssumption DEF Idle, RunType

\* Recording a row keeps the shard's type and adds the row to what it has measured.
LEMMA RecordedFacts ==
  ASSUME NEW s \in ShardType, NEW r \in Rows, NEW d \in BOOLEAN, NEW skip \in BOOLEAN
  PROVE  LET t == Recorded(s, r, d, skip)
         IN  /\ t \in ShardType /\ t.pc = "claim"
             /\ t.tree = s.tree /\ t.cases = s.cases /\ t.gen = s.gen
             /\ t.rows \subseteq s.rows \cup {r} /\ s.rows \subseteq t.rows
<1> DEFINE R == IF skip THEN s.rows ELSE s.rows \cup {r}
           S == IF skip THEN s.skipped \cup {r} ELSE s.skipped
           t == [s EXCEPT !.pc = "claim", !.at = s.at + 1, !.dirty = d, !.rows = R, !.skipped = S]
<1>1. R \in SUBSET Rows /\ S \in SUBSET Rows /\ s.at + 1 \in Nat
  BY DEF ShardType
<1>2. R \subseteq s.rows \cup {r} /\ s.rows \subseteq R
  OBVIOUS
<1>3. Recorded(s, r, d, skip) = t
  BY DEF Recorded
<1> HIDE DEF R, S
<1>4. t \in ShardType
  BY <1>1 DEF ShardType, Working
<1>5. t.pc = "claim" /\ t.tree = s.tree /\ t.cases = s.cases /\ t.gen = s.gen /\ t.rows = R
  BY DEF ShardType
<1> QED
  BY <1>2, <1>3, <1>4, <1>5

-----------------------------------------------------------------------------
(* Consequences of the invariant used by several steps.                    *)

\* An exit leaves a code for the orchestrator that waits, or nothing; so does one nobody waits for.
LEMMA ExitFacts ==
  ASSUME IInv, NEW p \in Procs, NEW code \in Exited, Exit(p, code)
  PROVE  /\ proc' \in [Procs -> ShardType] /\ proc'[p].pc \notin Working
         /\ \A q \in Procs : q # p => proc'[q] = proc[q]
<1> DEFINE c == IF OrchAlive(p) THEN code ELSE "absent"
<1>1. Gone(c) \in ShardType /\ Gone(c).pc \notin Working
  BY GoneType
<1>2. proc' = [proc EXCEPT ![p] = Gone(c)]
  BY DEF Exit, Become
<1> HIDE DEF c
<1> QED
  BY <1>1, <1>2 DEF IInv, TypeOK

LEMMA ReapedFacts ==
  ASSUME IInv
  PROVE  /\ Reaped \in [Procs -> ShardType]
         /\ \A p \in Procs : /\ Live(p) => Reaped[p] = proc[p]
                             /\ ~Live(p) => Reaped[p].pc \notin Working
<1>1. Gone("absent") \in ShardType /\ Gone("absent").pc \notin Working
  BY GoneType
<1> QED
  BY <1>1 DEF Reaped, IInv, TypeOK

\* Only an orchestrator that waits, or none at all, has live shards of its own.
LEMMA NoneOwn ==
  ASSUME IInv, run.pc \notin {"idle", "wait"}
  PROVE  \A p \in Procs : ~Own(p)
BY DEF IInv, RunOK

\* Once every shard the orchestrator spawned has exited, none of its own is live.
LEMMA NoneOwnAtStitch ==
  ASSUME IInv, run.pc = "wait", \A p \in Mine : proc[p].pc \in Exited
  PROVE  \A p \in Procs : ~Own(p)
<1> SUFFICES ASSUME NEW p \in Procs, Own(p) PROVE FALSE
  OBVIOUS
<1>1. p[1] = runs /\ p[2] <= run.jobs
  BY DEF IInv, StraysOK, RunOK, Own
<1>2. p \in Mine
  BY <1>1 DEF Mine, Procs
<1> QED
  BY <1>2 DEF Own, Live, Working, Exited

\* Beside whoever measures in an undisturbed queue there is a claim that tells of it; so
\* where no live claimer is found, whoever is alive is a stray.
LEMMA AliveAtStart ==
  ASSUME IInv, LiveClaimers = {}, NEW p \in Procs, Live(p)
  PROVE  p \in strays \cup Untold
<1> SUFFICES ASSUME strays = {}, ~remnant, proc[p].pc = "measure" PROVE FALSE
  BY DEF Untold
<1>1. Own(p)
  BY DEF Own
<1>2. plan \in Keys /\ proc[p].cases = plan
  BY <1>1 DEF IInv, LiveOK, StraysOK
<1>3. /\ proc[p].at \in DOMAIN Ids[plan]
      /\ claims[proc[p].at] = <<p, TRUE>>
      /\ Ids[plan][proc[p].at] \notin Measured
  BY <1>1, <1>2 DEF IInv, ClaimOK, StraysOK, Measuring
<1>4. proc[p].at \in Idx /\ ~ClaimDone(proc[p].at)
  BY <1>2, <1>3, PlanFacts DEF ClaimDone, ClaimOf
<1> QED
  BY <1>3, <1>4 DEF LiveClaimers

-----------------------------------------------------------------------------
(* The initial states.                                                     *)

LEMMA InitInv == Init => IInv
<1> SUFFICES ASSUME Init PROVE IInv
  OBVIOUS
<1>1. claims \in [Idx -> (Procs \X BOOLEAN) \cup {None}]
  BY DEF Init
<1>2. parts \in [PartIds -> Part \cup {None, Torn}]
  BY DEF Init
<1>3. tier \in [Rows -> Keys \cup {None}]
  BY DEF Init
<1>4. proc \in [Procs -> ShardType] /\ \A p \in Procs : ~Live(p)
  BY GoneType DEF Init, Live
<1>5. runs \in 0..MaxRuns /\ run \in RunType
  BY BoundsAssumption, IdleType DEF Init
<1>6. TypeOK
  BY <1>1, <1>2, <1>3, <1>4, <1>5 DEF Init, TypeOK
<1>7. StraysOK /\ LiveOK /\ ClaimOK
  BY <1>4 DEF Init, StraysOK, LiveOK, ClaimOK, Own
<1>8. RunOK
  BY IdleType DEF Init, RunOK
<1>9. PlanOK /\ TierOK
  BY IdleType DEF Init, PlanOK, TierOK, Readable
<1> QED
  BY <1>6, <1>7, <1>8, <1>9 DEF IInv

-----------------------------------------------------------------------------
(* Steps that leave the disk alone.                                        *)

\* Shards may exit, and the orchestrator may be gone, without a trace on disk.
LEMMA Exits ==
  ASSUME IInv, UNCHANGED <<disk, runs, aux>>, run' = run \/ run' = Idle,
         TypeOK',
         \A p \in Procs : proc'[p] = proc[p] \/ proc'[p].pc \notin Working
  PROVE  IInv'
<1>1. \A p \in Procs : Live(p)' => proc'[p] = proc[p] /\ Live(p)
  BY DEF Live
<1>2. /\ UNCHANGED <<plan, claimsDir, claims, parts, tier, strays, remnant>>
      /\ Measured' = Measured
  BY DEF disk, aux, Measured, Readable
<1>3. \A p \in Procs : Own(p)' => proc'[p] = proc[p] /\ Own(p)
  BY <1>1, <1>2 DEF Own
<1>4. StraysOK'
  BY <1>1, <1>2 DEF IInv, StraysOK
<1>5. LiveOK'
  BY <1>2, <1>3 DEF IInv, LiveOK, PartOf, Readable, Strayed
<1>6. ClaimOK'
  BY <1>2, <1>3 DEF IInv, ClaimOK, Measuring
<1>7. RunOK'
  <2>1. CASE run' = Idle
    BY <2>1, IdleType DEF RunOK
  <2>2. CASE run' = run
    BY <2>2, <1>2, <1>3 DEF IInv, RunOK, Strayed, ClaimDone, ClaimOf
  <2> QED
    BY <2>1, <2>2
<1>8. PlanOK' /\ TierOK'
  BY <1>2, IdleType DEF IInv, PlanOK, TierOK, Readable, Strayed
<1> QED
  BY <1>4, <1>5, <1>6, <1>7, <1>8 DEF IInv

\* A shard that exits without writing.
LEMMA ExitInv ==
  ASSUME IInv, NEW p \in Procs, Exit(p, "exit1"), UNCHANGED <<disk, run, runs, verdict, aux>>
  PROVE  IInv'
<1>1. "exit1" \in Exited
  BY DEF Exited
<1>2. /\ proc' \in [Procs -> ShardType] /\ proc'[p].pc \notin Working
      /\ \A q \in Procs : q # p => proc'[q] = proc[q]
  BY <1>1, ExitFacts
<1>3. TypeOK'
  BY <1>2 DEF IInv, TypeOK, disk, aux
<1> QED
  BY <1>2, <1>3, Exits

LEMMA KillShardInv ==
  ASSUME IInv, NEW p \in Procs, KillShard(p)
  PROVE  IInv'
BY ExitInv DEF KillShard

LEMMA EnoentInv ==
  ASSUME IInv, NEW p \in Procs, Enoent(p)
  PROVE  IInv'
BY ExitInv DEF Enoent

LEMMA KillOrchestratorInv ==
  ASSUME IInv, KillOrchestrator
  PROVE  IInv'
<1>1. proc' \in [Procs -> ShardType] /\ \A p \in Procs : proc'[p] = proc[p] \/ proc'[p].pc \notin Working
  BY ReapedFacts DEF KillOrchestrator
<1>2. TypeOK'
  BY <1>1, IdleType DEF IInv, TypeOK, KillOrchestrator, disk, aux
<1> QED
  BY <1>1, <1>2, Exits DEF KillOrchestrator

LEMMA CleanedInv ==
  ASSUME IInv, Cleaned
  PROVE  IInv'
<1>1. TypeOK'
  BY IdleType DEF IInv, TypeOK, Cleaned, disk, aux
<1> QED
  BY <1>1, Exits DEF Cleaned

-----------------------------------------------------------------------------
(* Steps of the orchestrator while no shard of its own is live.            *)

\* What has to be shown of such a step: the shards, all strays, go on as they are.
LEMMA Quiet ==
  ASSUME IInv, TypeOK', PlanOK', TierOK', RunOK', runs' = runs, strays' = strays,
         \A p \in Procs : ~Own(p)',
         \A p \in Procs : Live(p)' => Live(p) /\ proc'[p] = proc[p]
  PROVE  IInv'
<1>1. StraysOK'
  BY DEF IInv, StraysOK
<1>2. LiveOK' /\ ClaimOK'
  BY DEF LiveOK, ClaimOK
<1> QED
  BY <1>1, <1>2 DEF IInv

\* The newest run's number bounds the generations it finds, so the next one exists.
LEMMA NextGenFacts ==
  ASSUME IInv, run.pc = "journal"
  PROVE  /\ NextGen \in 0..MaxRuns /\ NextGen < runs
         /\ \A q \in PartIds : parts[q] # None => q[1] < NextGen
<1>1. runs \in 1..MaxRuns
  BY BoundsAssumption DEF IInv, TypeOK, RunOK, RunType
<1>2. runs - 1 \in GenBounds
  BY <1>1, BoundsAssumption DEF IInv, RunOK, GenBounds, PartIds
<1>3. GenBounds \in SUBSET Nat
  BY DEF GenBounds
<1>4. \E g \in GenBounds : \A h \in GenBounds : g <= h
  BY <1>2, <1>3, LeastExists
<1>5. NextGen \in GenBounds /\ \A h \in GenBounds : NextGen <= h
  BY <1>4 DEF NextGen
<1> QED
  BY <1>1, <1>2, <1>5 DEF GenBounds

\* A run that starts finds nobody it calls its own.
LEMMA StartRunInv ==
  ASSUME IInv, NEW key \in Keys, NEW resume \in BOOLEAN, NEW jobs \in 1..MaxJobs,
         StartRun(key, resume, jobs)
  PROVE  IInv'
<1>1. LiveClaimers = {} /\ (resume => plan = key) /\ run.pc = "idle"
  BY DEF StartRun, QueueRefusal, ResumeRefusal
<1>2. /\ UNCHANGED <<plan, claimsDir, claims, parts, tier, tierTorn, proc, remnant>>
      /\ Measured' = Measured /\ strays' = strays \cup Untold
      /\ verdict' = "none"
  BY DEF StartRun, disk, Measured, Readable
<1>3. runs \in 0..MaxRuns /\ runs' = runs + 1 /\ runs' \in 0..MaxRuns
  BY BoundsAssumption DEF IInv, TypeOK, StartRun
<1>4. \A p \in Procs : Live(p)' => Live(p) /\ p \in strays' /\ proc'[p] = proc[p]
  BY <1>1, <1>2, AliveAtStart DEF Live
<1>5. /\ run' \in RunType /\ run'.key = key /\ run'.gen = 0
      /\ run'.pc = IF resume THEN "journal" ELSE "discard"
  <2>1. Idle \in RunType /\ Idle.gen = 0
    BY IdleType DEF Idle
  <2>2. run' = [Idle EXCEPT !.pc = IF resume THEN "journal" ELSE "discard", !.key = key, !.jobs = jobs]
    BY DEF StartRun
  <2> QED
    BY <2>1, <2>2 DEF RunType
<1>6. strays' \subseteq Procs /\ \A p \in Untold : Live(p)
  BY <1>2 DEF IInv, TypeOK, Untold
<1>7. TypeOK'
  BY <1>2, <1>3, <1>5, <1>6 DEF IInv, TypeOK
<1>8. StraysOK'
  <2>1. \A p \in Procs : Live(p) => p[1] \in Nat /\ p[1] <= runs
    BY <1>3 DEF IInv, StraysOK, Procs, Runs
  <2>2. \A p \in strays : p \in Procs /\ p[1] \in Nat /\ p[1] < runs
    BY <1>3 DEF IInv, TypeOK, StraysOK, Procs, Runs
  <2>3. \A p \in strays' : p[1] < runs'
    BY <1>2, <1>3, <1>6, <2>1, <2>2 DEF Untold
  <2> QED
    BY <1>4, <2>3 DEF IInv, StraysOK
<1>9. LiveOK' /\ ClaimOK'
  BY <1>4 DEF LiveOK, ClaimOK, Own
<1>10. RunOK'
  <2>1. \A p \in Procs : ~Own(p)'
    BY <1>4 DEF Own
  <2>2. \A q \in PartIds : parts'[q] # None => q[1] + 1 < runs'
    BY <1>2, <1>3 DEF IInv, PlanOK, PartIds
  <2> QED
    BY <1>1, <1>2, <1>3, <1>5, <2>1, <2>2 DEF RunOK
<1>11. PlanOK'
  <2>1. strays' = {} => strays = {}
    BY <1>2
  <2>2. \A q \in PartIds : Strayed(q) => Strayed(q)'
    BY <1>2 DEF Strayed
  <2>3. \A q \in PartIds : parts'[q] # None => q[1] < runs'
    BY <1>2, <1>3 DEF IInv, PlanOK, PartIds
  <2> QED
    BY <1>2, <2>1, <2>2, <2>3 DEF IInv, PlanOK, Readable
<1>12. TierOK'
  BY <1>2, <1>5 DEF IInv, TierOK
<1> QED
  BY <1>7, <1>8, <1>9, <1>10, <1>11, <1>12 DEF IInv

\* One entry of the directory goes; what is left of a queue is a remnant.
LEMMA RemoveEntryInv ==
  ASSUME IInv, RemoveEntry
  PROVE  IInv'
<1>1. /\ UNCHANGED <<tier, tierTorn, run, runs, verdict, proc, strays>>
      /\ run.pc \in {"discard", "clean"} /\ remnant' = DirExists'
  BY DEF RemoveEntry
<1>2. \A p \in Procs : ~Own(p)'
  <2>1. \A p \in Procs : ~Own(p)
    BY <1>1, NoneOwn
  <2> QED
    BY <1>1, <2>1 DEF Own, Live
<1>3. /\ plan' \in {plan, None} /\ claimsDir' \in {claimsDir, FALSE}
      /\ claims' \in [Idx -> (Procs \X BOOLEAN) \cup {None}]
      /\ parts' \in [PartIds -> Part \cup {None, Torn}]
      /\ \A i \in Idx : claims'[i] \in {claims[i], None}
      /\ \A q \in PartIds : parts'[q] \in {parts[q], None}
      /\ ~claimsDir' => \A i \in Idx : claims'[i] = None
  <2>1. /\ claims \in [Idx -> (Procs \X BOOLEAN) \cup {None}]
        /\ parts \in [PartIds -> Part \cup {None, Torn}] /\ claimsDir \in BOOLEAN
        /\ ~claimsDir => \A i \in Idx : claims[i] = None
    BY DEF IInv, TypeOK, PlanOK
  <2>2. CASE plan' = None /\ UNCHANGED <<claimsDir, claims, parts>>
    BY <2>1, <2>2
  <2>3. CASE \E i \in Idx : /\ claims[i] # None
                            /\ claims' = [claims EXCEPT ![i] = None]
                            /\ UNCHANGED <<plan, claimsDir, parts>>
    BY <2>1, <2>3
  <2>4. CASE /\ claimsDir /\ \A i \in Idx : claims[i] = None
             /\ claimsDir' = FALSE /\ UNCHANGED <<plan, claims, parts>>
    BY <2>1, <2>4
  <2>5. CASE \E q \in PartIds : /\ parts[q] # None
                                /\ parts' = [parts EXCEPT ![q] = None]
                                /\ UNCHANGED <<plan, claimsDir, claims>>
    BY <2>1, <2>5
  <2> QED
    BY <2>2, <2>3, <2>4, <2>5 DEF RemoveEntry
<1>4. TypeOK'
  <2>1. remnant' \in BOOLEAN
    BY <1>1 DEF DirExists
  <2> QED
    BY <1>1, <1>3, <2>1 DEF IInv, TypeOK
<1>5. PlanOK'
  <2>1. plan' # None => remnant'
    BY <1>1 DEF DirExists
  <2> QED
    BY <1>1, <1>3, <2>1 DEF IInv, PlanOK, Readable, Strayed
<1>6. TierOK'
  BY <1>1 DEF IInv, TierOK
<1>7. RunOK'
  BY <1>1, <1>2 DEF IInv, RunOK
<1> QED
  BY <1>1, <1>2, <1>4, <1>5, <1>6, <1>7, Quiet DEF Live

LEMMA MakeClaimsInv ==
  ASSUME IInv, MakeClaims
  PROVE  IInv'
<1>1. /\ UNCHANGED <<plan, claims, parts, tier, tierTorn, runs, verdict, proc, strays, remnant>>
      /\ run.pc = "discard" /\ claimsDir'
      /\ plan = None /\ ~claimsDir /\ \A q \in PartIds : parts[q] = None
  BY DEF MakeClaims, DirExists, aux
<1>2. \A p \in Procs : ~Own(p)'
  <2>1. \A p \in Procs : ~Own(p)
    BY <1>1, NoneOwn
  <2> QED
    BY <1>1, <2>1 DEF Own, Live
<1>3. run' \in RunType /\ run'.pc = "plan" /\ run'.key = run.key /\ run'.gen = run.gen
  BY DEF MakeClaims, IInv, TypeOK, RunType
<1>4. TypeOK'
  BY <1>1, <1>3 DEF IInv, TypeOK, MakeClaims
<1>5. PlanOK' /\ TierOK'
  BY <1>1, <1>3 DEF IInv, PlanOK, TierOK
<1>6. RunOK'
  BY <1>1, <1>2, <1>3 DEF IInv, RunOK, PlanOK
<1> QED
  BY <1>1, <1>2, <1>4, <1>5, <1>6, Quiet DEF Live

LEMMA WritePlanInv ==
  ASSUME IInv, WritePlan
  PROVE  IInv'
<1>1. /\ UNCHANGED <<claimsDir, claims, parts, tier, tierTorn, runs, verdict, proc, strays, remnant>>
      /\ run.pc = "plan" /\ plan' = run.key
  BY DEF WritePlan, aux
<1>2. \A p \in Procs : ~Own(p)'
  <2>1. \A p \in Procs : ~Own(p)
    BY <1>1, NoneOwn
  <2> QED
    BY <1>1, <2>1 DEF Own, Live
<1>3. /\ run' \in RunType /\ run'.pc = "fan" /\ run'.key = run.key /\ run'.gen = run.gen
      /\ run.key \in Keys /\ run.gen < runs /\ claimsDir
      /\ \A q \in PartIds : parts[q] # None => Strayed(q)
  BY <1>1 DEF WritePlan, IInv, TypeOK, RunType, RunOK
<1>4. TypeOK'
  BY <1>1, <1>3 DEF IInv, TypeOK
<1>5. PlanOK'
  <2>1. strays = {} => Measured' = {}
    BY <1>1, <1>3 DEF Measured, Readable, Strayed
  <2>2. \A i \in DOMAIN Ids[plan'] : Ids[plan'][i] \in Measured' => Measured' # {}
    OBVIOUS
  <2> QED
    BY <1>1, <1>3, <2>1, <2>2 DEF IInv, PlanOK, Readable, Strayed
<1>6. TierOK'
  BY <1>1, <1>3 DEF IInv, TierOK
<1>7. RunOK'
  BY <1>1, <1>2, <1>3 DEF IInv, RunOK, Strayed
<1> QED
  BY <1>1, <1>2, <1>4, <1>5, <1>6, <1>7, Quiet DEF Live

\* The generation, the rows done and the torn parts are those of one moment.
LEMMA ReadJournalInv ==
  ASSUME IInv, ReadJournal
  PROVE  IInv'
<1>1. /\ UNCHANGED <<plan, claimsDir, claims, parts, tier, tierTorn, runs, verdict, proc, strays, remnant>>
      /\ run.pc = "journal" /\ Measured' = Measured
  BY DEF ReadJournal, aux, disk, Measured, Readable
<1>2. \A p \in Procs : ~Own(p)'
  <2>1. \A p \in Procs : ~Own(p)
    BY <1>1, NoneOwn
  <2> QED
    BY <1>1, <2>1 DEF Own, Live
<1>3. /\ NextGen \in 0..MaxRuns /\ NextGen < runs
      /\ \A q \in PartIds : parts[q] # None => q[1] < NextGen
  BY <1>1, NextGenFacts
<1>4. /\ run' \in RunType /\ run'.pc = "drop" /\ run'.key = run.key /\ run'.gen = NextGen
      /\ run'.done = Measured /\ run'.drop = {q \in PartIds : parts[q] = Torn}
      /\ run.key \in Keys /\ plan = run.key
  <2>1. Measured \subseteq Rows
    BY DEF Measured
  <2> QED
    BY <1>1, <1>3, <2>1 DEF ReadJournal, IInv, TypeOK, RunType, RunOK
<1>5. TypeOK'
  BY <1>1, <1>4 DEF IInv, TypeOK
<1>6. PlanOK' /\ TierOK'
  BY <1>1, <1>4 DEF IInv, PlanOK, TierOK, Readable, Strayed
<1>7. RunOK'
  BY <1>1, <1>2, <1>3, <1>4 DEF RunOK
<1> QED
  BY <1>1, <1>2, <1>5, <1>6, <1>7, Quiet DEF Live

LEMMA DropTornInv ==
  ASSUME IInv, NEW q \in PartIds, DropTorn(q)
  PROVE  IInv'
<1>1. /\ UNCHANGED <<plan, claimsDir, claims, tier, tierTorn, runs, verdict, proc, strays, remnant>>
      /\ run.pc = "drop" /\ q \in run.drop
  BY DEF DropTorn, aux
<1>2. \A p \in Procs : ~Own(p)'
  <2>1. \A p \in Procs : ~Own(p)
    BY <1>1, NoneOwn
  <2> QED
    BY <1>1, <2>1 DEF Own, Live
<1>3. /\ run' \in RunType /\ run'.pc = "drop" /\ run'.key = run.key /\ run'.gen = run.gen
      /\ run'.done = run.done /\ run'.drop \subseteq run.drop
      /\ plan = run.key /\ run.key \in Keys /\ plan # None
  <2>1. run.drop \ {q} \in SUBSET PartIds
    BY DEF IInv, TypeOK, RunType
  <2> QED
    BY <1>1, <2>1, DistinctAssumption DEF DropTorn, IInv, TypeOK, RunType, RunOK
<1>4. /\ parts' \in [PartIds -> Part \cup {None, Torn}] /\ parts'[q] = None
      /\ \A s \in PartIds : s # q => parts'[s] = parts[s]
  BY DEF IInv, TypeOK, DropTorn
<1>5. Measured' \subseteq Measured /\ (strays = {} => Measured' = Measured)
  <2>1. strays = {} => parts[q] = Torn
    BY <1>1 DEF IInv, RunOK, Strayed
  <2> QED
    BY <1>4, <2>1 DEF Measured, Readable
<1>6. TypeOK'
  BY <1>1, <1>3, <1>4 DEF IInv, TypeOK
<1>7. PlanOK' /\ TierOK'
  BY <1>1, <1>3, <1>4, <1>5 DEF IInv, PlanOK, TierOK, Readable, Strayed
<1>8. RunOK'
  <2>1. \A s \in run'.drop : s \in PartIds /\ (parts'[s] = Torn \/ Strayed(s))
    BY <1>1, <1>3, <1>4 DEF DropTorn, IInv, TypeOK, RunType, RunOK
  <2> QED
    BY <1>1, <1>2, <1>3, <1>4, <1>5, <2>1 DEF IInv, RunOK, Strayed
<1> QED
  BY <1>1, <1>2, <1>6, <1>7, <1>8, Quiet DEF Live

LEMMA ListClaimsInv ==
  ASSUME IInv, ListClaims
  PROVE  IInv'
<1>1. /\ UNCHANGED <<plan, claimsDir, claims, parts, tier, tierTorn, runs, verdict, proc, strays, remnant>>
      /\ run.pc = "drop" /\ Measured' = Measured
  BY DEF ListClaims, aux, disk, Measured, Readable
<1>2. \A p \in Procs : ~Own(p)'
  <2>1. \A p \in Procs : ~Own(p)
    BY <1>1, NoneOwn
  <2> QED
    BY <1>1, <2>1 DEF Own, Live
<1>3. /\ run' \in RunType /\ run'.pc = "release" /\ run'.key = run.key /\ run'.gen = run.gen
      /\ run'.free = {i \in Idx : claims[i] # None /\ ~ClaimOf(i, run.done)}
      /\ plan = run.key /\ run.key \in Keys
  BY <1>1 DEF ListClaims, IInv, TypeOK, RunType, RunOK
<1>4. TypeOK'
  BY <1>1, <1>3 DEF IInv, TypeOK
<1>5. PlanOK' /\ TierOK'
  BY <1>1, <1>3 DEF IInv, PlanOK, TierOK, Readable, Strayed
<1>6. RunOK'
  <2>1. strays = {} => \A i \in run'.free : ~ClaimDone(i)
    BY <1>1, <1>3 DEF IInv, RunOK, ClaimDone
  <2>2. \A i : ClaimDone(i)' <=> ClaimDone(i)
    BY <1>1 DEF ClaimDone, ClaimOf
  <2> QED
    BY <1>1, <1>2, <1>3, <2>1, <2>2 DEF IInv, RunOK, Strayed
<1> QED
  BY <1>1, <1>2, <1>4, <1>5, <1>6, Quiet DEF Live

LEMMA ReleaseClaimInv ==
  ASSUME IInv, NEW i \in Idx, ReleaseClaim(i)
  PROVE  IInv'
<1>1. /\ UNCHANGED <<plan, claimsDir, parts, tier, tierTorn, runs, verdict, proc, strays, remnant>>
      /\ run.pc = "release" /\ i \in run.free /\ Measured' = Measured
  BY DEF ReleaseClaim, aux, Measured, Readable
<1>2. \A p \in Procs : ~Own(p)'
  <2>1. \A p \in Procs : ~Own(p)
    BY <1>1, NoneOwn
  <2> QED
    BY <1>1, <2>1 DEF Own, Live
<1>3. /\ run' \in RunType /\ run'.pc = "release" /\ run'.key = run.key /\ run'.gen = run.gen
      /\ run'.free \subseteq run.free
      /\ plan = run.key /\ run.key \in Keys /\ plan # None
  <2>1. run.free \ {i} \in SUBSET Idx
    BY DEF IInv, TypeOK, RunType
  <2> QED
    BY <1>1, <2>1, DistinctAssumption DEF ReleaseClaim, IInv, TypeOK, RunType, RunOK
<1>4. /\ claims' \in [Idx -> (Procs \X BOOLEAN) \cup {None}] /\ claims'[i] = None
      /\ \A j \in Idx : j # i => claims'[j] = claims[j]
  BY DEF IInv, TypeOK, ReleaseClaim
<1>5. TypeOK'
  BY <1>1, <1>3, <1>4 DEF IInv, TypeOK
<1>6. PlanOK' /\ TierOK'
  <2>1. ASSUME strays = {}, ~remnant, NEW j \in DOMAIN Ids[plan], Ids[plan][j] \in Measured
        PROVE  claims'[j] # None
    <3>1. j # i
      BY <1>1, <1>3, <2>1 DEF IInv, RunOK, ClaimDone, ClaimOf
    <3>2. j \in Idx /\ claims[j] # None
      BY <1>3, <2>1, PlanFacts DEF IInv, PlanOK
    <3> QED
      BY <3>1, <3>2, <1>4
  <2> QED
    BY <1>1, <1>3, <1>4, <2>1 DEF IInv, PlanOK, TierOK, Readable, Strayed
<1>7. RunOK'
  <2>1. \A j : ClaimDone(j)' <=> ClaimDone(j)
    BY <1>1 DEF ClaimDone, ClaimOf
  <2> QED
    BY <1>1, <1>2, <1>3, <2>1 DEF IInv, RunOK, Strayed
<1> QED
  BY <1>1, <1>2, <1>5, <1>6, <1>7, Quiet DEF Live

\* A fresh shard works for the run's key in a generation nobody has written in, unless a stray does.
LEMMA FanInv ==
  ASSUME IInv, Fan
  PROVE  IInv'
<1>0. /\ UNCHANGED <<plan, claimsDir, claims, parts, tier, tierTorn, runs, verdict, strays, remnant>>
      /\ run.pc \in {"fan", "release"} /\ Measured' = Measured
  BY DEF Fan, aux, disk, Measured, Readable
<1>1. \A p \in Procs : ~Own(p)
  BY <1>0, NoneOwn
<1>2. /\ run \in RunType /\ run.key \in Keys /\ run.gen < runs /\ plan = run.key
      /\ \A q \in PartIds : parts[q] # None => q[1] < run.gen \/ Strayed(q)
      /\ runs \in 0..MaxRuns
  BY <1>0 DEF IInv, TypeOK, RunOK
<1> DEFINE b == Shard("boot", run.key, run.gen)
<1>3. b \in ShardType /\ b.pc = "boot" /\ b.tree = run.key /\ b.gen = run.gen /\ b.rows = {}
  BY <1>2 DEF Shard, ShardType, RunType, Working
<1> HIDE DEF b
<1>4. /\ proc' \in [Procs -> ShardType]
      /\ \A p \in Procs : p \in Mine => proc'[p] = b
      /\ \A p \in Procs : p \notin Mine => proc'[p] = proc[p]
  BY <1>3 DEF Fan, IInv, TypeOK, b
<1>5. \A p \in Procs : p \in Mine => p[1] = runs /\ p[2] <= run.jobs /\ p \notin strays
  BY <1>2 DEF IInv, StraysOK, Mine
<1>6. \A p \in Procs : Live(p)' => \/ p \in Mine /\ proc'[p] = b
                                   \/ p \notin Mine /\ Live(p) /\ p \in strays /\ proc'[p] = proc[p]
  BY <1>1, <1>4 DEF Live, Own
<1>7. \A p \in Procs : Own(p)' => p \in Mine /\ proc'[p] = b
  BY <1>0, <1>6 DEF Own
<1>8. /\ run' \in RunType /\ run'.pc = "wait" /\ run'.key = run.key
      /\ run'.gen = run.gen /\ run'.jobs = run.jobs
  BY <1>2 DEF Fan, RunType
<1>9. TypeOK'
  BY <1>0, <1>4, <1>8 DEF IInv, TypeOK
<1>10. StraysOK'
  BY <1>0, <1>2, <1>3, <1>5, <1>6 DEF IInv, StraysOK
<1>11. LiveOK'
  <2> SUFFICES ASSUME NEW p \in Procs, Own(p)'
               PROVE  /\ proc'[p].tree = plan'
                      /\ proc'[p].pc # "boot" => proc'[p].cases = plan'
                      /\ \/ \E q \in strays' : q[2] = p[2]
                         \/ parts'[<<proc'[p].gen, p[2]>>] = None /\ proc'[p].rows = {}
    BY DEF LiveOK, PartOf, Strayed
  <2>1. p \in Mine /\ proc'[p] = b
    BY <1>7
  <2>2. <<run.gen, p[2]>> \in PartIds
    BY <2>1, <1>2 DEF PartIds, Procs, RunType
  <2>3. parts[<<run.gen, p[2]>>] = None \/ \E q \in strays : q[2] = p[2]
    BY <2>2, <1>2 DEF RunType, Strayed
  <2> QED
    BY <2>1, <2>3, <1>0, <1>2, <1>3
<1>12. ClaimOK'
  BY <1>3, <1>7 DEF ClaimOK
<1>13. RunOK'
  BY <1>0, <1>2, <1>3, <1>5, <1>7, <1>8 DEF RunOK
<1>14. PlanOK' /\ TierOK'
  BY <1>0, <1>8 DEF IInv, PlanOK, TierOK, Readable, Strayed
<1> QED
  BY <1>9, <1>10, <1>11, <1>12, <1>13, <1>14 DEF IInv

\* The part that wins a measured row is one of those that hold it.
LEMMA WinnerFacts ==
  ASSUME NEW r \in Measured
  PROVE  Winner(r) \in With(r)
<1> DEFINE G == {g \in 0..MaxRuns : \E q \in With(r) : q[1] = g}
           S(g) == {s \in 0..MaxJobs : \E q \in With(r) : q[1] = g /\ q[2] = s}
<1>1. With(r) \in SUBSET PartIds /\ With(r) # {}
  BY DEF Measured, With
<1>2. PICK g \in G : \A h \in G : h <= g
  <2>1. G \in SUBSET (0..MaxRuns) /\ G # {} /\ MaxRuns \in Nat
    BY <1>1, BoundsAssumption DEF PartIds
  <2> HIDE DEF G
  <2> QED
    BY <2>1, GreatestExists
<1>3. PICK s \in S(g) : \A t \in S(g) : t <= s
  <2>1. S(g) \in SUBSET (0..MaxJobs) /\ S(g) # {} /\ MaxJobs \in Nat
    BY <1>1, BoundsAssumption DEF PartIds
  <2> HIDE DEF S
  <2> QED
    BY <2>1, GreatestExists
<1>4. PICK q \in With(r) : q[1] = g /\ q[2] = s
  OBVIOUS
<1>5. ASSUME NEW t \in With(r)
      PROVE  Before(t, q)
  <2>1. t \in PartIds /\ q \in PartIds /\ t[1] \in G
    BY <1>1 DEF PartIds
  <2>2. t[1] <= g
    BY <2>1, <1>2
  <2>3. t[1] = g => t[2] \in S(g)
    BY <2>1 DEF PartIds
  <2>4. t[1] = g => t[2] <= s
    BY <2>3, <1>3
  <2> QED
    BY <2>1, <2>2, <2>4, <1>4 DEF Before, PartIds
<1> QED
  BY <1>5 DEF Winner

\* What is about to be published is of readable parts.
LEMMA StitchedFacts ==
  ASSUME IInv, plan \in Keys
  PROVE  /\ Stitched \in [Rows -> Keys \cup {None}]
         /\ strays = {} => \A r \in Rows : Stitched[r] \in {None, plan}
<1>1. ASSUME NEW r \in Measured
      PROVE  parts[Winner(r)].tree \in Keys /\ (strays = {} => parts[Winner(r)].tree = plan)
  <2>1. Winner(r) \in PartIds /\ Readable(Winner(r))
    BY <1>1, WinnerFacts DEF With
  <2>2. parts[Winner(r)] \in Part
    BY <2>1 DEF IInv, TypeOK, Readable
  <2>3. strays = {} => ~Strayed(Winner(r))
    BY DEF Strayed
  <2> QED
    BY <2>1, <2>2, <2>3, DistinctAssumption DEF IInv, PlanOK, Part
<1> QED
  BY <1>1 DEF Stitched

LEMMA StitchInv ==
  ASSUME IInv, Stitch
  PROVE  IInv'
<1>1. /\ UNCHANGED <<plan, claimsDir, claims, parts, tier, runs, strays, remnant>>
      /\ run.pc = "wait" /\ \A p \in Mine : proc[p].pc \in Exited
      /\ Measured' = Measured /\ proc' = Reaped
  BY DEF Stitch, aux, Measured, Readable
<1>2. /\ proc' \in [Procs -> ShardType]
      /\ \A p \in Procs : Live(p)' => Live(p) /\ proc'[p] = proc[p]
  BY <1>1, ReapedFacts DEF Live
<1>3. \A p \in Procs : ~Own(p)'
  BY <1>1, <1>2, NoneOwnAtStitch DEF Own
<1>4. run.key \in Keys /\ run.gen < runs /\ plan = run.key
  BY <1>1 DEF IInv, RunOK
<1>5. /\ Stitched \in [Rows -> Keys \cup {None}] /\ Keep \in BOOLEAN
      /\ strays = {} => \A r \in Rows : Stitched[r] \in {None, plan}
  BY <1>4, StitchedFacts DEF Keep
<1>6. /\ run' \in RunType /\ run'.pc \in {"idle", "clean", "write"}
      /\ run'.pc # "idle" => run'.key = run.key /\ run'.gen = run.gen
      /\ run'.pc = "write" => run'.out = Stitched
      /\ tierTorn' \in BOOLEAN
  <2>1. CASE /\ run' = IF NoParts \/ Keep THEN Idle ELSE [run EXCEPT !.pc = "clean"]
             /\ UNCHANGED tierTorn
    BY <2>1, IdleType DEF IInv, TypeOK, RunType
  <2>2. CASE /\ run' = [run EXCEPT !.pc = "write", !.out = Stitched, !.keep = Keep]
             /\ tierTorn' = TRUE
    BY <2>2, <1>5 DEF IInv, TypeOK, RunType
  <2> QED
    BY <2>1, <2>2 DEF Stitch
<1>7. verdict' \in {"ok", "empty", "lost", "failed", "mismatch"}
  BY DEF Stitch, Verdict
<1>8. TypeOK'
  BY <1>1, <1>2, <1>6, <1>7 DEF IInv, TypeOK
<1>9. PlanOK' /\ TierOK'
  BY <1>1, <1>5, <1>6 DEF IInv, PlanOK, TierOK, Readable, Strayed
<1>10. RunOK'
  BY <1>1, <1>3, <1>4, <1>6 DEF RunOK
<1> QED
  BY <1>1, <1>2, <1>3, <1>8, <1>9, <1>10, Quiet

LEMMA WriteTierInv ==
  ASSUME IInv, WriteTier
  PROVE  IInv'
<1>1. /\ UNCHANGED <<plan, claimsDir, claims, parts, runs, verdict, proc, strays, remnant>>
      /\ run.pc = "write" /\ tier' = run.out /\ tierTorn' = FALSE /\ Measured' = Measured
  BY DEF WriteTier, aux, Measured, Readable
<1>2. \A p \in Procs : ~Own(p)'
  <2>1. \A p \in Procs : ~Own(p)
    BY <1>1, NoneOwn
  <2> QED
    BY <1>1, <2>1 DEF Own, Live
<1>3. /\ run' \in RunType /\ run'.pc \in {"idle", "clean"} /\ run.out \in [Rows -> Keys \cup {None}]
      /\ run'.pc # "idle" => run'.key = run.key /\ run'.gen = run.gen
      /\ run.key \in Keys /\ run.gen < runs /\ plan = run.key
  BY <1>1, IdleType DEF IInv, TypeOK, RunOK, WriteTier, RunType
<1>4. TypeOK'
  BY <1>1, <1>3 DEF IInv, TypeOK
<1>5. PlanOK' /\ TierOK'
  BY <1>1, <1>3 DEF IInv, PlanOK, TierOK, Readable, Strayed
<1>6. RunOK'
  BY <1>1, <1>2, <1>3 DEF RunOK
<1> QED
  BY <1>1, <1>2, <1>4, <1>5, <1>6, Quiet DEF Live

\* What a signal to the group, or a power loss, does to the shards and the parts.
LEMMA KillRunFacts ==
  ASSUME IInv, KillRun
  PROVE  /\ proc' \in [Procs -> ShardType]
         /\ \A p \in Procs : Live(p)' => Live(p) /\ p[1] # runs /\ proc'[p] = proc[p]
         /\ parts' \in [PartIds -> Part \cup {None, Torn}]
         /\ \A q \in PartIds : \/ parts'[q] = parts[q]
                               \/ MayTear /\ Readable(q) /\ parts'[q] = Torn
<1>1. Gone("absent") \in ShardType /\ Gone("absent").pc \notin Working
  BY GoneType
<1>2. \A p \in Procs : proc'[p] = IF p[1] = runs /\ Live(p) THEN Gone("absent") ELSE Reaped[p]
  BY DEF KillRun
<1>3. proc' \in [Procs -> ShardType]
  BY <1>1, ReapedFacts DEF KillRun
<1>4. \A p \in Procs : Live(p)' => Live(p) /\ p[1] # runs /\ proc'[p] = proc[p]
  BY <1>1, <1>2, ReapedFacts DEF Live
<1>5. PICK T \in SUBSET {q \in PartIds : MayTear /\ Spawned /\ q[1] = run.gen /\ Readable(q)} :
        parts' = [q \in PartIds |-> IF q \in T THEN Torn ELSE parts[q]]
  BY DEF KillRun
<1>6. /\ parts' \in [PartIds -> Part \cup {None, Torn}]
      /\ \A q \in PartIds : \/ parts'[q] = parts[q]
                            \/ MayTear /\ Readable(q) /\ parts'[q] = Torn
  BY <1>5 DEF IInv, TypeOK
<1> QED
  BY <1>3, <1>4, <1>6

\* One signal to the group ends every live shard of the newest run.
LEMMA KillRunInv ==
  ASSUME IInv, KillRun
  PROVE  IInv'
<1>1. /\ UNCHANGED <<plan, claimsDir, claims, tier, tierTorn, runs, strays, remnant>>
      /\ run' = Idle /\ verdict' = "killed"
  BY DEF KillRun, aux
<1>2. /\ proc' \in [Procs -> ShardType]
      /\ \A p \in Procs : Live(p)' => Live(p) /\ p[1] # runs /\ proc'[p] = proc[p]
      /\ parts' \in [PartIds -> Part \cup {None, Torn}]
      /\ \A q \in PartIds : \/ parts'[q] = parts[q]
                            \/ MayTear /\ Readable(q) /\ parts'[q] = Torn
  BY KillRunFacts
<1>3. \A p \in Procs : ~Own(p)'
  BY <1>1, <1>2 DEF Own, IInv, StraysOK
<1>4. TypeOK'
  BY <1>1, <1>2, IdleType DEF IInv, TypeOK
<1>5. PlanOK' /\ TierOK'
  <2>1. \A q \in PartIds : /\ Readable(q)' => Readable(q) /\ parts'[q] = parts[q]
                           /\ parts'[q] # None => parts[q] # None
    BY <1>2 DEF Readable
  <2>2. Measured' \subseteq Measured
    BY <2>1 DEF Measured
  <2> QED
    BY <1>1, <2>1, <2>2, IdleType DEF IInv, PlanOK, TierOK, Strayed
<1>6. RunOK'
  BY <1>1, IdleType DEF RunOK
<1> QED
  BY <1>1, <1>2, <1>3, <1>4, <1>5, <1>6, Quiet
-----------------------------------------------------------------------------
(* Steps of a live shard.                                                  *)

\* Two of the newest run's shards, between claim and record, hold different claims, so different rows.
LEMMA ClaimsDiffer ==
  ASSUME IInv, NEW p \in Procs, NEW q \in Procs, p # q, Own(p), Own(q),
         proc[p].pc \in {"name", "measure"}, proc[q].pc \in {"name", "measure"}
  PROVE  /\ proc[p].at # proc[q].at
         /\ Ids[plan][proc[p].at] # Ids[plan][proc[q].at]
<1>1. plan \in Keys /\ proc[p].cases = plan /\ proc[q].cases = plan
  BY DEF IInv, LiveOK, StraysOK, Own
<1>2. /\ proc[p].at \in DOMAIN Ids[plan] /\ proc[q].at \in DOMAIN Ids[plan]
      /\ claims[proc[p].at] = <<p, Measuring(p)>>
      /\ claims[proc[q].at] = <<q, Measuring(q)>>
  BY <1>1 DEF IInv, ClaimOK, StraysOK, Own
<1>3. proc[p].at # proc[q].at
  BY <1>2
<1> QED
  BY <1>1, <1>2, <1>3, PlanFacts

\* Two of the newest run's shards write different part files.
LEMMA PartsDiffer ==
  ASSUME IInv, NEW p \in Procs, NEW q \in Procs, p # q, Own(p), Own(q)
  PROVE  PartOf(p) # PartOf(q)
<1>1. p[1] = q[1]
  BY DEF IInv, StraysOK, Own
<1> QED
  BY <1>1 DEF PartOf, Procs

\* One shard moves on, by the plan it has read, and nothing on disk changes.
LEMMA Moves ==
  ASSUME IInv, NEW p \in Procs, Live(p), NEW s \in ShardType, Become(p, s),
         s.pc \in Working, s.pc \notin {"name", "measure"},
         s.tree = proc[p].tree, s.gen = proc[p].gen, s.rows = proc[p].rows,
         s.pc # "boot" => s.cases \in Keys /\ (p \notin strays => s.cases = plan),
         UNCHANGED <<disk, run, runs, verdict, aux>>
  PROVE  IInv'
<1>1. /\ proc' \in [Procs -> ShardType] /\ proc'[p] = s
      /\ \A q \in Procs : q # p => proc'[q] = proc[q]
  BY DEF IInv, TypeOK, Become
<1>2. \A q \in Procs : /\ Live(q)' => Live(q)
                       /\ proc'[q].tree = proc[q].tree /\ proc'[q].gen = proc[q].gen
                       /\ proc'[q].rows = proc[q].rows
  BY <1>1 DEF Live
<1>3. /\ UNCHANGED <<plan, claimsDir, claims, parts, tier, strays, remnant>>
      /\ Measured' = Measured
  BY DEF disk, aux, Measured, Readable
<1>4. \A q \in Procs : Own(q)' => Own(q)
  BY <1>2, <1>3 DEF Own
<1>5. TypeOK'
  BY <1>1 DEF IInv, TypeOK, disk, aux
<1>6. StraysOK'
  BY <1>1, <1>2, <1>3 DEF IInv, StraysOK
<1>7. LiveOK'
  <2> SUFFICES ASSUME NEW q \in Procs, Own(q)'
               PROVE  /\ proc'[q].tree = plan
                      /\ proc'[q].pc # "boot" => proc'[q].cases = plan
                      /\ LET o == <<proc'[q].gen, q[2]>>
                         IN  \/ \E x \in strays : x[2] = q[2]
                             \/ parts[o] = None /\ proc'[q].rows = {}
                             \/ parts[o] # None /\ parts[o] # Torn /\ parts[o].rows = proc'[q].rows
    BY <1>3 DEF LiveOK, PartOf, Strayed, Readable
  <2>1. Own(q) /\ (proc[q].pc # "boot" => proc[q].cases = plan) /\ proc[q].tree = plan
    BY <1>4 DEF IInv, LiveOK
  <2>2. proc'[q].pc # "boot" => proc'[q].cases = plan
    BY <1>1, <2>1 DEF Own
  <2>3. LET o == <<proc[q].gen, q[2]>>
        IN  \/ \E x \in strays : x[2] = q[2]
            \/ parts[o] = None /\ proc[q].rows = {}
            \/ parts[o] # None /\ parts[o] # Torn /\ parts[o].rows = proc[q].rows
    BY <2>1 DEF IInv, LiveOK, PartOf, Strayed, Readable
  <2> QED
    BY <1>2, <2>1, <2>2, <2>3
<1>8. ClaimOK'
  BY <1>1, <1>3, <1>4 DEF IInv, ClaimOK, Measuring
<1>9. RunOK'
  BY <1>2, <1>3, <1>4 DEF IInv, RunOK, Strayed, ClaimDone, ClaimOf
<1>10. PlanOK' /\ TierOK'
  BY <1>3 DEF IInv, PlanOK, TierOK, Readable, Strayed
<1> QED
  BY <1>5, <1>6, <1>7, <1>8, <1>9, <1>10 DEF IInv

\* A shard that has read a plan goes on by it.
LEMMA Cases ==
  ASSUME IInv, NEW p \in Procs, Live(p), proc[p].pc # "boot"
  PROVE  /\ proc[p] \in ShardType /\ proc[p].cases \in Keys
         /\ p \notin strays => proc[p].cases = plan
BY DEF IInv, TypeOK, StraysOK, LiveOK, Own

LEMMA BootInv ==
  ASSUME IInv, NEW p \in Procs, Boot(p)
  PROVE  IInv'
<1>1. Live(p) /\ proc[p] \in ShardType
  BY DEF IInv, TypeOK, Boot, Live, Working
<1>2. CASE plan # None /\ Planned(plan) \subseteq Planned(proc[p].tree)
  <2> DEFINE s == [proc[p] EXCEPT !.pc = "claim", !.cases = plan]
  <2>1. /\ s \in ShardType /\ s.pc = "claim" /\ s.cases = plan /\ plan \in Keys
        /\ s.tree = proc[p].tree /\ s.gen = proc[p].gen /\ s.rows = proc[p].rows
    BY <1>1, <1>2 DEF IInv, TypeOK, ShardType, Working
  <2>2. Become(p, s)
    BY <1>2 DEF Boot
  <2> HIDE DEF s
  <2> QED
    BY <1>1, <2>1, <2>2, Moves DEF Boot, Working
<1>3. CASE ~(plan # None /\ Planned(plan) \subseteq Planned(proc[p].tree))
  BY <1>3, ExitInv DEF Boot
<1> QED
  BY <1>2, <1>3

LEMMA ClaimGoInv ==
  ASSUME IInv, NEW p \in Procs, ClaimGo(p)
  PROVE  IInv'
<1> DEFINE s == [proc[p] EXCEPT !.pc = "open"]
<1>1. Live(p) /\ proc[p].pc # "boot"
  BY DEF ClaimGo, Live, Working
<1>2. /\ s \in ShardType /\ s.pc = "open" /\ s.cases = proc[p].cases
      /\ s.tree = proc[p].tree /\ s.gen = proc[p].gen /\ s.rows = proc[p].rows
  BY <1>1, Cases DEF ShardType, Working
<1>3. Become(p, s)
  BY DEF ClaimGo
<1> HIDE DEF s
<1> QED
  BY <1>1, <1>2, <1>3, Cases, Moves DEF ClaimGo, Working

LEMMA NoRowInv ==
  ASSUME IInv, NEW p \in Procs, NoRow(p)
  PROVE  IInv'
<1> DEFINE s == [proc[p] EXCEPT !.pc = "claim", !.at = proc[p].at + 1, !.bad = TRUE]
<1>1. Live(p) /\ proc[p].pc # "boot"
  BY DEF NoRow, Live, Working
<1>2. /\ s \in ShardType /\ s.pc = "claim" /\ s.cases = proc[p].cases
      /\ s.tree = proc[p].tree /\ s.gen = proc[p].gen /\ s.rows = proc[p].rows
  <2>1. proc[p] \in ShardType /\ proc[p].at + 1 \in Nat
    BY <1>1, Cases DEF ShardType
  <2> QED
    BY <2>1 DEF ShardType, Working
<1>3. Become(p, s)
  BY DEF NoRow
<1> HIDE DEF s
<1> QED
  BY <1>1, <1>2, <1>3, Cases, Moves DEF NoRow, Working

\* A claim changes hands only from nobody to the shard that created it; the newest run's
\* shard gets it, and in an undisturbed queue its row is in no part file.
LEMMA Claims ==
  ASSUME IInv, NEW p \in Procs, Live(p), NEW s \in ShardType, Become(p, s),
         s.pc \in {"name", "measure"}, s.at = proc[p].at, s.at \in DOMAIN Ids[s.cases],
         s.tree = proc[p].tree, s.gen = proc[p].gen, s.rows = proc[p].rows,
         s.cases \in Keys, p \notin strays => s.cases = plan,
         claims' \in [Idx -> (Procs \X BOOLEAN) \cup {None}],
         \A i \in Idx : \/ claims'[i] = claims[i]
                        \/ /\ i = s.at /\ claims[i] \in {None, <<p, FALSE>>} /\ claimsDir
                           /\ claims'[i] = <<p, s.pc = "measure">>,
         p \notin strays => claims'[s.at] = <<p, s.pc = "measure">>,
         p \notin strays /\ ~remnant /\ strays = {} => Ids[plan][s.at] \notin Measured,
         UNCHANGED <<plan, claimsDir, parts, tier, tierTorn, run, runs, verdict, aux>>
  PROVE  IInv'
<1>1. /\ proc' \in [Procs -> ShardType] /\ proc'[p] = s
      /\ \A q \in Procs : q # p => proc'[q] = proc[q]
  BY DEF IInv, TypeOK, Become
<1>2. \A q \in Procs : /\ Live(q)' => Live(q)
                       /\ proc'[q].tree = proc[q].tree /\ proc'[q].gen = proc[q].gen
                       /\ proc'[q].rows = proc[q].rows
  BY <1>1 DEF Live
<1>3. /\ UNCHANGED <<strays, remnant>> /\ Measured' = Measured
      /\ \A i : ClaimDone(i)' <=> ClaimDone(i)
  BY DEF aux, Measured, Readable, ClaimDone, ClaimOf
<1>4. \A q \in Procs : Own(q)' => Own(q)
  BY <1>2, <1>3 DEF Own
<1>5. TypeOK'
  BY <1>1, <1>3 DEF IInv, TypeOK
<1>6. StraysOK'
  BY <1>1, <1>2, <1>3 DEF IInv, StraysOK
<1>7. LiveOK'
  <2> SUFFICES ASSUME NEW q \in Procs, Own(q)'
               PROVE  /\ proc'[q].tree = plan
                      /\ proc'[q].pc # "boot" => proc'[q].cases = plan
                      /\ LET o == <<proc'[q].gen, q[2]>>
                         IN  \/ \E x \in strays : x[2] = q[2]
                             \/ parts[o] = None /\ proc'[q].rows = {}
                             \/ parts[o] # None /\ parts[o] # Torn /\ parts[o].rows = proc'[q].rows
    BY <1>3 DEF LiveOK, PartOf, Strayed, Readable
  <2>1. Own(q) /\ (proc[q].pc # "boot" => proc[q].cases = plan) /\ proc[q].tree = plan
    BY <1>4 DEF IInv, LiveOK
  <2>2. proc'[q].pc # "boot" => proc'[q].cases = plan
    BY <1>1, <2>1 DEF Own
  <2>3. LET o == <<proc[q].gen, q[2]>>
        IN  \/ \E x \in strays : x[2] = q[2]
            \/ parts[o] = None /\ proc[q].rows = {}
            \/ parts[o] # None /\ parts[o] # Torn /\ parts[o].rows = proc[q].rows
    BY <2>1 DEF IInv, LiveOK, PartOf, Strayed, Readable
  <2> QED
    BY <1>2, <2>1, <2>2, <2>3
<1>8. ClaimOK'
  <2> SUFFICES ASSUME NEW q \in Procs, Own(q)', proc'[q].pc \in {"name", "measure"}
               PROVE  /\ claims'[proc'[q].at] = <<q, proc'[q].pc = "measure">>
                      /\ ~remnant /\ strays = {} => Ids[plan][proc'[q].at] \notin Measured
    BY <1>3 DEF ClaimOK, Measuring
  <2>1. CASE q = p
    BY <2>1, <1>1, <1>4 DEF Own
  <2>2. CASE q # p
    <3>1. /\ proc'[q] = proc[q] /\ Own(q) /\ proc[q].pc # "boot" /\ proc[q].cases = plan
      BY <2>2, <1>1, <1>4, Cases DEF Own
    <3>2. /\ claims[proc[q].at] = <<q, proc[q].pc = "measure">>
          /\ ~remnant /\ strays = {} => Ids[plan][proc[q].at] \notin Measured
      BY <3>1 DEF IInv, ClaimOK, Measuring
    <3>3. proc[q].at \in Idx
      <4>1. plan \in Keys /\ proc[q].at \in DOMAIN Ids[plan]
        BY <3>1, Cases DEF IInv, StraysOK, Own
      <4> QED
        BY <4>1, PlanFacts
    <3>4. PICK c \in BOOLEAN : claims[proc[q].at] = <<q, c>>
      BY <3>2
    <3>5. claims[proc[q].at] # None /\ claims[proc[q].at] # <<p, FALSE>>
      <4>1. <<q, c>> # None
        BY ClaimFacts, Zenon
      <4>2. <<q, c>> # <<p, FALSE>>
        BY <2>2
      <4> QED
        BY <3>4, <4>1, <4>2, Zenon
    <3>6. claims'[proc[q].at] = claims[proc[q].at]
      BY <3>3, <3>5
    <3> QED
      BY <3>1, <3>2, <3>6
  <2> QED
    BY <2>1, <2>2
<1>9. RunOK'
  <2>1. strays = {} /\ run.pc # "idle" => run.pc = "wait"
    BY DEF IInv, RunOK, Own
  <2> QED
    BY <1>2, <1>3, <1>4, <2>1 DEF IInv, RunOK, Strayed
<1>10. PlanOK' /\ TierOK'
  <2>1. <<p, s.pc = "measure">> # None
    BY ClaimFacts, Zenon
  <2>2. \A i \in Idx : claims[i] # None => claims'[i] # None
    BY <2>1
  <2>3. plan # None => DOMAIN Ids[plan] \subseteq Idx
    BY PlanFacts DEF IInv, TypeOK
  <2>4. ~claimsDir => \A i \in Idx : claims'[i] = claims[i]
    OBVIOUS
  <2> QED
    BY <1>3, <2>2, <2>3, <2>4 DEF IInv, PlanOK, TierOK, Readable, Strayed
<1> QED
  BY <1>5, <1>6, <1>7, <1>8, <1>9, <1>10 DEF IInv

\* O_EXCL: the claim was nobody's, so by PlanOK its row is in no part file.
LEMMA OpenClaimInv ==
  ASSUME IInv, NEW p \in Procs, OpenClaim(p)
  PROVE  IInv'
<1>1. Live(p) /\ proc[p].pc = "open" /\ claimsDir
  BY DEF OpenClaim, Live, Working
<1>2. /\ proc[p] \in ShardType /\ proc[p].cases \in Keys
      /\ p \notin strays => proc[p].cases = plan
  BY <1>1, Cases
<1>3. proc[p].at \in DOMAIN Ids[proc[p].cases] /\ proc[p].at \in Idx
  BY <1>2, PlanFacts DEF OpenClaim
<1>4. CASE claims[proc[p].at] = None
  <2> DEFINE s == [proc[p] EXCEPT !.pc = "name"]
  <2>1. /\ s \in ShardType /\ s.pc = "name" /\ s.cases = proc[p].cases /\ s.at = proc[p].at
        /\ s.tree = proc[p].tree /\ s.gen = proc[p].gen /\ s.rows = proc[p].rows
    BY <1>2 DEF ShardType, Working
  <2>2. Become(p, s) /\ claims' = [claims EXCEPT ![proc[p].at] = <<p, FALSE>>]
    BY <1>4 DEF OpenClaim
  <2>3. p \notin strays /\ ~remnant /\ strays = {} => Ids[plan][proc[p].at] \notin Measured
    BY <1>2, <1>3, <1>4, DistinctAssumption DEF IInv, PlanOK
  <2> HIDE DEF s
  <2>4. (s.pc = "measure") = FALSE
    BY <2>1
  <2>5. /\ claims' \in [Idx -> (Procs \X BOOLEAN) \cup {None}]
        /\ claims'[proc[p].at] = <<p, FALSE>>
        /\ \A i \in Idx : i # proc[p].at => claims'[i] = claims[i]
    BY <1>3, <2>2, ClaimFacts DEF IInv, TypeOK
  <2>6. claims'[proc[p].at] = <<p, s.pc = "measure">>
    BY <2>4, <2>5, Zenon
  <2> QED
    BY ZenonT(40), <1>1, <1>2, <1>3, <1>4, <2>1, <2>2, <2>3, <2>5, <2>6, Claims DEF OpenClaim
<1>5. CASE claims[proc[p].at] # None
  <2> DEFINE s == [proc[p] EXCEPT !.at = proc[p].at + 1]
  <2>1. proc[p].at + 1 \in Nat
    BY <1>2 DEF ShardType
  <2>2. /\ s \in ShardType /\ s.pc = "open" /\ s.cases = proc[p].cases
        /\ s.tree = proc[p].tree /\ s.gen = proc[p].gen /\ s.rows = proc[p].rows
    BY <1>1, <1>2, <2>1 DEF ShardType
  <2>3. Become(p, s) /\ UNCHANGED <<disk, run, runs, verdict, aux>>
    BY <1>5 DEF OpenClaim, disk
  <2> HIDE DEF s
  <2> QED
    BY <1>1, <1>2, <2>2, <2>3, Moves DEF Working
<1> QED
  BY <1>4, <1>5

\* The newest run's shard finds its claim as it left it; a stray's may be gone, or another's.
LEMMA NameClaimInv ==
  ASSUME IInv, NEW p \in Procs, NameClaim(p)
  PROVE  IInv'
<1> DEFINE i == proc[p].at
           s == [proc[p] EXCEPT !.pc = "measure"]
<1>1. Live(p) /\ proc[p].pc = "name"
  BY DEF NameClaim, Live, Working
<1>2. /\ proc[p] \in ShardType /\ proc[p].cases \in Keys
      /\ p \notin strays => proc[p].cases = plan
  BY <1>1, Cases
<1>3. i \in DOMAIN Ids[proc[p].cases] /\ i \in Idx
  BY <1>1, <1>2, PlanFacts DEF IInv, StraysOK
<1>4. p \notin strays => claims[i] = <<p, FALSE>> /\ (~remnant /\ strays = {} => Ids[plan][i] \notin Measured)
  <2>1. Measuring(p) = FALSE /\ (p \notin strays => Own(p))
    BY <1>1 DEF Measuring, Own
  <2>2. p \notin strays => /\ claims[i] = <<p, Measuring(p)>>
                           /\ ~remnant /\ strays = {} => Ids[plan][i] \notin Measured
    BY <1>1, <2>1 DEF IInv, ClaimOK
  <2> QED
    BY <2>1, <2>2, Zenon
<1>5. claims[i] = <<p, FALSE>> => claimsDir
  <2>1. <<p, FALSE>> # None
    BY ClaimFacts, Zenon
  <2> QED
    BY <1>3, <2>1 DEF IInv, PlanOK
<1>6. /\ claims' \in [Idx -> (Procs \X BOOLEAN) \cup {None}]
      /\ claims'[i] = IF claims[i] = <<p, FALSE>> THEN <<p, TRUE>> ELSE claims[i]
      /\ \A j \in Idx : j # i => claims'[j] = claims[j]
  BY <1>3, ClaimFacts DEF NameClaim, IInv, TypeOK
<1>7. /\ s \in ShardType /\ s.pc = "measure" /\ s.cases = proc[p].cases /\ s.at = i
      /\ s.tree = proc[p].tree /\ s.gen = proc[p].gen /\ s.rows = proc[p].rows
  BY <1>2 DEF ShardType, Working
<1>8. Become(p, s)
  BY DEF NameClaim
<1> HIDE DEF s, i
<1>9. (s.pc = "measure") = TRUE
  BY <1>7
<1>10. /\ claims[i] = <<p, FALSE>> => claims'[i] = <<p, s.pc = "measure">>
       /\ claims[i] # <<p, FALSE>> => claims'[i] = claims[i]
  BY <1>6, <1>9, Zenon
<1>11. \A j \in Idx : \/ claims'[j] = claims[j]
                      \/ /\ j = s.at /\ claims[j] \in {None, <<p, FALSE>>} /\ claimsDir
                         /\ claims'[j] = <<p, s.pc = "measure">>
  BY <1>5, <1>6, <1>7, <1>10, Zenon
<1> QED
  BY <1>1, <1>2, <1>3, <1>4, <1>6, <1>7, <1>8, <1>10, <1>11, Claims DEF NameClaim, i

\* Writing a part file adds at most the writer's own claimed row to the journal; a stray
\* writes only what a stray may write.
LEMMA Flushes ==
  ASSUME IInv, NEW p \in Procs, Live(p), NEW s \in ShardType, NEW t \in ShardType,
         Flush(p, t), Become(p, s),
         t.tree = proc[p].tree, t.gen = proc[p].gen, proc[p].rows \subseteq t.rows,
         \/ t.rows = proc[p].rows
         \/ proc[p].pc = "measure" /\ t.rows \subseteq proc[p].rows \cup {RowOf(p)},
         \/ s.pc \notin Working
         \/ s.pc = "claim" /\ s.cases = proc[p].cases /\ proc[p].pc # "boot" /\ s = t,
         UNCHANGED <<plan, claimsDir, claims, tier, tierTorn, run, runs, verdict, aux>>
  PROVE  IInv'
<1> DEFINE part == [rows |-> t.rows, skipped |-> t.skipped, tree |-> t.tree, dirty |-> t.dirty]
           o == PartOf(p)
<1>0. UNCHANGED <<strays, remnant>>
  BY DEF aux
<1>1. /\ o \in PartIds /\ o[1] = proc[p].gen /\ o[2] = p[2] /\ proc[p].tree \in Keys
      /\ proc[p].gen < runs /\ (p \in strays => Strayed(o) /\ proc[p].gen + 1 < runs)
      /\ p \notin strays => proc[p].tree = plan /\ plan # None
  <2>1. /\ o \in PartIds /\ o[1] = proc[p].gen /\ o[2] = p[2] /\ proc[p].gen \in Nat
        /\ p[1] \in Nat /\ runs \in Nat
    BY DEF IInv, TypeOK, PartOf, PartIds, Procs, Runs, ShardType
  <2>2. /\ proc[p].gen < p[1] /\ proc[p].tree \in Keys
        /\ p \in strays => p[1] < runs
        /\ p \notin strays => p[1] = runs /\ proc[p].tree = plan
    BY DEF IInv, StraysOK, LiveOK, Own
  <2> QED
    BY <2>1, <2>2, DistinctAssumption DEF Strayed
<1>2. part \in Part /\ part.rows = t.rows /\ part.tree = proc[p].tree
  BY <1>1 DEF Part, ShardType
<1>3. part # None /\ part # Torn
  BY <1>2, DistinctAssumption
<1>4. parts' = [parts EXCEPT ![o] = part]
  BY DEF Flush, PartOf
<1>5. /\ proc' \in [Procs -> ShardType] /\ proc'[p] = s
      /\ \A q \in Procs : q # p => proc'[q] = proc[q]
  BY DEF IInv, TypeOK, Become
<1>6. /\ parts' \in [PartIds -> Part \cup {None, Torn}]
      /\ parts'[o] = part /\ \A q \in PartIds : q # o => parts'[q] = parts[q]
  BY <1>1, <1>2, <1>4 DEF IInv, TypeOK
<1> HIDE DEF part, o
<1>7. parts'[o] # None /\ parts'[o] # Torn /\ \A q \in PartIds : q # o => (Readable(q)' <=> Readable(q))
  BY <1>3, <1>6 DEF Readable
<1>8. /\ \A q \in Procs : Own(q)' => Own(q)
      /\ \A q \in PartIds : Strayed(q)' <=> Strayed(q)
      /\ p \notin strays => Own(p)
  BY <1>0, <1>5 DEF Own, Live, Strayed
<1>9. strays = {} => proc[p].rows \subseteq Measured
  <2>1. strays = {} => (Readable(o) /\ parts[o].rows = proc[p].rows) \/ proc[p].rows = {}
    BY <1>8 DEF IInv, LiveOK, Strayed, o
  <2> QED
    BY <2>1, <1>1 DEF Measured, IInv, TypeOK, ShardType
<1>10. strays = {} => /\ proc[p].pc = "measure" => Measured' \subseteq Measured \cup {RowOf(p)}
                      /\ t.rows = proc[p].rows => Measured' \subseteq Measured
  <2> SUFFICES ASSUME strays = {}, NEW r \in Measured', r \notin Measured
               PROVE  r \in t.rows
    BY <1>9
  <2>1. PICK q \in PartIds : Readable(q)' /\ r \in parts'[q].rows
    BY DEF Measured
  <2>2. q = o
    BY <2>1, <1>6, <1>7 DEF Measured
  <2> QED
    BY <2>1, <2>2, <1>6, <1>2
<1>11. TypeOK'
  BY <1>0, <1>5, <1>6 DEF IInv, TypeOK
<1>12. StraysOK'
  <2>1. proc[p].pc # "boot" => proc[p].cases \in Keys
    BY DEF IInv, StraysOK
  <2>2. \A q \in Procs : Live(q)' => Live(q) /\ proc'[q].gen = proc[q].gen /\ proc'[q].tree = proc[q].tree
    BY <1>5 DEF Live
  <2> QED
    BY <1>0, <1>5, <2>1, <2>2 DEF IInv, StraysOK, Live
<1>13. LiveOK'
  <2> SUFFICES ASSUME NEW q \in Procs, Own(q)'
               PROVE  /\ proc'[q].tree = plan
                      /\ proc'[q].pc # "boot" => proc'[q].cases = plan
                      /\ LET z == <<proc'[q].gen, q[2]>>
                         IN  \/ \E x \in strays : x[2] = q[2]
                             \/ parts'[z] = None /\ proc'[q].rows = {}
                             \/ parts'[z] # None /\ parts'[z] # Torn /\ parts'[z].rows = proc'[q].rows
    BY <1>0 DEF LiveOK, PartOf, Strayed, Readable
  <2>1. CASE q = p
    <3>1. s = t /\ s.cases = proc[p].cases /\ proc[p].cases = plan /\ proc[p].tree = plan
      BY <2>1, <1>5, <1>8, Cases DEF Own, Live, IInv, LiveOK
    <3>2. <<proc'[q].gen, q[2]>> = o
      BY <2>1, <3>1, <1>5 DEF PartOf, o
    <3> QED
      BY <2>1, <3>1, <3>2, <1>2, <1>5, <1>6, <1>7
  <2>2. CASE q # p
    <3>1. proc'[q] = proc[q] /\ Own(q)
      BY <2>2, <1>5, <1>8
    <3>2. <<proc[q].gen, q[2]>> \in PartIds /\ (p \notin strays => <<proc[q].gen, q[2]>> # o)
      BY <2>2, <3>1, <1>8, PartsDiffer DEF PartOf, PartIds, Procs, IInv, TypeOK, ShardType, o
    <3>3. <<proc[q].gen, q[2]>> = o => \E x \in strays : x[2] = q[2]
      BY <3>2, <1>1
    <3>4. /\ proc[q].tree = plan
          /\ proc[q].pc # "boot" => proc[q].cases = plan
          /\ LET z == <<proc[q].gen, q[2]>>
             IN  \/ \E x \in strays : x[2] = q[2]
                 \/ parts[z] = None /\ proc[q].rows = {}
                 \/ parts[z] # None /\ parts[z] # Torn /\ parts[z].rows = proc[q].rows
      BY <3>1 DEF IInv, LiveOK, PartOf, Strayed, Readable
    <3> QED
      BY <3>1, <3>2, <3>3, <3>4, <1>6
  <2> QED
    BY <2>1, <2>2
<1>14. ClaimOK'
  <2> SUFFICES ASSUME NEW q \in Procs, Own(q)', proc'[q].pc \in {"name", "measure"}
               PROVE  /\ claims[proc'[q].at] = <<q, proc'[q].pc = "measure">>
                      /\ ~remnant /\ strays = {} => Ids[plan][proc'[q].at] \notin Measured'
    BY <1>0 DEF ClaimOK, Measuring
  <2>1. q # p /\ proc'[q] = proc[q] /\ Own(q)
    BY <1>5, <1>8 DEF Working, Own, Live
  <2>2. /\ claims[proc[q].at] = <<q, proc[q].pc = "measure">>
        /\ ~remnant /\ strays = {} => Ids[plan][proc[q].at] \notin Measured
    BY <2>1 DEF IInv, ClaimOK, Measuring
  <2>3. strays = {} /\ proc[p].pc = "measure" => Ids[plan][proc[q].at] # RowOf(p)
    <3>1. strays = {} /\ proc[p].pc = "measure" => proc[p].cases = plan
      BY Cases
    <3> QED
      BY <1>8, <2>1, <3>1, ClaimsDiffer DEF RowOf
  <2> QED
    BY <2>1, <2>2, <2>3, <1>10
<1>15. RunOK'
  <2>1. \A q \in Procs : Own(q)' => Own(q) /\ proc'[q].gen = proc[q].gen
    BY <1>5, <1>8 DEF Own, Live
  <2>2. run.pc \notin {"idle", "wait"} => p \in strays
    BY <1>8, NoneOwn
  <2>3. CASE run.pc \in {"idle", "wait"}
    BY <2>1, <2>3 DEF IInv, RunOK
  <2>4. CASE run.pc \notin {"idle", "wait"}
    <3>1. p \in strays /\ strays' # {} /\ \A q \in PartIds : q # o => parts'[q] = parts[q]
      BY <2>2, <2>4, <1>0, <1>6
    <3>2. /\ \A q \in PartIds : q = o => Strayed(q)' /\ q[1] + 1 < runs
          /\ run.drop \subseteq PartIds
      BY <3>1, <1>1, <1>8 DEF IInv, TypeOK, RunType
    <3>3. /\ run.key \in Keys /\ run.gen < runs
          /\ \A q \in Procs : ~Own(q)'
          /\ run.pc \in {"journal", "drop", "release", "fan", "write"} => plan = run.key
          /\ run.pc = "plan" => plan = None /\ claimsDir
      BY <2>1, <2>4 DEF IInv, RunOK
    <3>4. /\ run.pc = "plan" => \A q \in PartIds : parts'[q] # None => Strayed(q)'
          /\ run.pc = "journal" => \A q \in PartIds : parts'[q] # None => q[1] + 1 < runs
          /\ run.pc \in {"drop", "release", "fan"} =>
               \A q \in PartIds : parts'[q] # None => q[1] < run.gen \/ Strayed(q)'
          /\ run.pc = "drop" => \A q \in run.drop : parts'[q] = Torn \/ Strayed(q)'
      <4>1. /\ run.pc = "plan" => \A q \in PartIds : parts[q] # None => Strayed(q)
            /\ run.pc = "journal" => \A q \in PartIds : parts[q] # None => q[1] + 1 < runs
            /\ run.pc \in {"drop", "release", "fan"} =>
                 \A q \in PartIds : parts[q] # None => q[1] < run.gen \/ Strayed(q)
            /\ run.pc = "drop" => \A q \in run.drop : parts[q] = Torn \/ Strayed(q)
        BY <2>4 DEF IInv, RunOK
      <4> QED
        BY <3>1, <3>2, <4>1, <1>8
    <3> QED
      BY <2>4, <3>1, <3>3, <3>4 DEF RunOK
  <2> QED
    BY <2>3, <2>4
<1>16. PlanOK'
  <2>1. ASSUME ~remnant, strays = {}, NEW i \in DOMAIN Ids[plan], Ids[plan][i] \in Measured'
        PROVE  claims[i] # None
    <3>1. CASE Ids[plan][i] \in Measured
      BY <2>1, <3>1, <1>1 DEF IInv, PlanOK
    <3>2. CASE Ids[plan][i] \notin Measured
      <4>1. proc[p].pc = "measure" /\ Ids[plan][i] = RowOf(p) /\ Own(p)
        BY <2>1, <3>2, <1>8, <1>10
      <4>2. proc[p].cases = plan /\ plan \in Keys /\ proc[p].at \in DOMAIN Ids[plan]
        BY <4>1, Cases DEF IInv, StraysOK, Own
      <4>3. i = proc[p].at
        BY <2>1, <4>1, <4>2, PlanFacts DEF RowOf
      <4>4. PICK b \in BOOLEAN : claims[i] = <<p, b>>
        <5>1. claims[i] = <<p, proc[p].pc = "measure">>
          BY <4>1, <4>3 DEF IInv, ClaimOK, Measuring
        <5> QED
          BY <5>1
      <4>5. <<p, b>> # None
        BY ClaimFacts, Zenon
      <4> QED
        BY <4>4, <4>5, Zenon
    <3> QED
      BY <3>1, <3>2
  <2>2. \A q \in PartIds : parts'[q] # None => q[1] < runs
    BY <1>1, <1>6 DEF IInv, PlanOK
  <2>3. \A q \in PartIds : plan # None /\ Readable(q)' => parts'[q].tree = plan \/ Strayed(q)
    BY <1>1, <1>2, <1>6, <1>7 DEF IInv, PlanOK
  <2> QED
    BY <1>0, <1>8, <2>1, <2>2, <2>3 DEF IInv, PlanOK
<1>17. TierOK'
  BY <1>0 DEF IInv, TierOK
<1> QED
  BY <1>11, <1>12, <1>13, <1>14, <1>15, <1>16, <1>17 DEF IInv

LEMMA RecordInv ==
  ASSUME IInv, NEW p \in Procs, Record(p)
  PROVE  IInv'
<1>1. Live(p) /\ proc[p].pc = "measure" /\ proc[p] \in ShardType /\ proc[p].cases \in Keys
  BY Cases DEF Record, Live, Working
<1>2. RowOf(p) \in Rows
  <2>1. proc[p].at \in DOMAIN Ids[proc[p].cases]
    BY <1>1 DEF IInv, StraysOK
  <2> QED
    BY <1>1, <2>1, PlanFacts DEF RowOf
<1>3. PICK d \in Stamp(proc[p]), skip \in BOOLEAN :
        LET s == Recorded(proc[p], RowOf(p), d, skip) IN Flush(p, s) /\ Become(p, s)
  BY DEF Record
<1>4. d \in BOOLEAN
  BY <1>1 DEF Stamp, ShardType
<1> DEFINE s == Recorded(proc[p], RowOf(p), d, skip)
<1>5. /\ s \in ShardType /\ s.pc = "claim" /\ s.cases = proc[p].cases
      /\ s.tree = proc[p].tree /\ s.gen = proc[p].gen
      /\ s.rows \subseteq proc[p].rows \cup {RowOf(p)} /\ proc[p].rows \subseteq s.rows
  BY <1>1, <1>2, <1>4, RecordedFacts
<1>6. Flush(p, s) /\ Become(p, s)
  BY <1>3
<1> HIDE DEF s
<1> QED
  BY <1>1, <1>5, <1>6, Flushes DEF Record

LEMMA FinishInv ==
  ASSUME IInv, NEW p \in Procs, Finish(p)
  PROVE  IInv'
<1>1. Live(p) /\ proc[p] \in ShardType
  BY DEF IInv, TypeOK, Finish, Spent, Orphan, Live, Working
<1>2. PICK d \in Stamp(proc[p]) : Flush(p, [proc[p] EXCEPT !.dirty = d])
  BY DEF Finish
<1>3. PICK code \in Exited : Exit(p, code)
  BY DEF Finish, Exited
<1> DEFINE s == Gone(IF OrchAlive(p) THEN code ELSE "absent")
           t == [proc[p] EXCEPT !.dirty = d]
<1>4. s \in ShardType /\ s.pc \notin Working
  BY GoneType
<1>5. Become(p, s)
  BY <1>3 DEF Exit
<1>6. d \in BOOLEAN
  BY <1>1 DEF Stamp, ShardType
<1>7. t \in ShardType /\ t.tree = proc[p].tree /\ t.gen = proc[p].gen /\ t.rows = proc[p].rows
  BY <1>1, <1>6 DEF ShardType
<1>8. Flush(p, t)
  BY <1>2
<1> HIDE DEF s, t
<1> QED
  BY <1>1, <1>4, <1>5, <1>7, <1>8, Flushes DEF Finish

-----------------------------------------------------------------------------
(* The invariant is inductive.                                             *)

LEMMA ShardStepInv ==
  ASSUME IInv, NEW p \in Procs, ShardStep(p)
  PROVE  IInv'
<1>1. CASE Boot(p)       BY <1>1, BootInv
<1>2. CASE ClaimGo(p)    BY <1>2, ClaimGoInv
<1>3. CASE OpenClaim(p)  BY <1>3, OpenClaimInv
<1>4. CASE NameClaim(p)  BY <1>4, NameClaimInv
<1>5. CASE Record(p)     BY <1>5, RecordInv
<1>6. CASE NoRow(p)      BY <1>6, NoRowInv
<1>7. CASE Finish(p)     BY <1>7, FinishInv
<1>8. CASE Enoent(p)     BY <1>8, EnoentInv
<1> QED
  BY <1>1, <1>2, <1>3, <1>4, <1>5, <1>6, <1>7, <1>8 DEF ShardStep

LEMMA OrchStepInv ==
  ASSUME IInv, OrchStep
  PROVE  IInv'
<1>1. CASE RemoveEntry                     BY <1>1, RemoveEntryInv
<1>2. CASE MakeClaims                      BY <1>2, MakeClaimsInv
<1>3. CASE WritePlan                       BY <1>3, WritePlanInv
<1>4. CASE ReadJournal                     BY <1>4, ReadJournalInv
<1>5. CASE \E q \in PartIds : DropTorn(q)  BY <1>5, DropTornInv
<1>6. CASE ListClaims                      BY <1>6, ListClaimsInv
<1>7. CASE \E i \in Idx : ReleaseClaim(i)  BY <1>7, ReleaseClaimInv
<1>8. CASE Fan                             BY <1>8, FanInv
<1>9. CASE Stitch                          BY <1>9, StitchInv
<1>10. CASE WriteTier                      BY <1>10, WriteTierInv
<1>11. CASE Cleaned                        BY <1>11, CleanedInv
<1> QED
  BY <1>1, <1>2, <1>3, <1>4, <1>5, <1>6, <1>7, <1>8, <1>9, <1>10, <1>11 DEF OrchStep

LEMMA UserStepInv ==
  ASSUME IInv, UserStep
  PROVE  IInv'
<1>1. CASE \E key \in Keys, resume \in BOOLEAN : \E jobs \in 1..MaxJobs : StartRun(key, resume, jobs)
  BY <1>1, StartRunInv
<1>2. CASE \E p \in Procs : KillShard(p)  BY <1>2, KillShardInv
<1>3. CASE KillRun                        BY <1>3, KillRunInv
<1>4. CASE KillOrchestrator               BY <1>4, KillOrchestratorInv
<1> QED
  BY <1>1, <1>2, <1>3, <1>4 DEF UserStep

LEMMA StutterInv == ASSUME IInv, UNCHANGED vars PROVE IInv'
<1>1. TypeOK'
  BY DEF IInv, TypeOK, vars, disk, aux
<1> QED
  BY <1>1, Exits DEF vars

LEMMA NextInv == ASSUME IInv, [Next]_vars PROVE IInv'
BY ShardStepInv, OrchStepInv, UserStepInv, StutterInv DEF Next

\* Part files, claims, the plan and the live shards agree in every reachable
\* state, for every number of runs, shards, rows and trees.
THEOREM Invariance == Spec => []IInv
<1>1. Init => IInv
  BY InitInv
<1>2. IInv /\ [Next]_vars => IInv'
  BY NextInv
<1> QED
  BY <1>1, <1>2, PTL DEF Spec

-----------------------------------------------------------------------------
(* What the invariant gives.                                               *)

LEMMA OneMeasurerState == IInv => OneMeasurer
<1> SUFFICES ASSUME IInv, NEW p \in Procs, NEW q \in Procs, p # q, Measuring(p), Measuring(q),
                    RowOf(p) = RowOf(q), p \notin strays, q \notin strays
             PROVE  FALSE
  BY DEF OneMeasurer
<1>1. Own(p) /\ Own(q)
  BY DEF Own, Live, Measuring, Working
<1>2. proc[p].cases = plan /\ proc[q].cases = plan
  BY <1>1 DEF IInv, LiveOK, Measuring
<1> QED
  BY <1>1, <1>2, ClaimsDiffer DEF RowOf, Measuring

LEMMA NeverRemeasuredState == IInv => NeverRemeasured
<1> SUFFICES ASSUME IInv, ~remnant, strays = {}, NEW p \in Procs, Measuring(p)
             PROVE  RowOf(p) \notin Measured
  BY DEF NeverRemeasured
<1>1. Own(p)
  BY DEF Own, Live, Measuring, Working
<1>2. proc[p].cases = plan
  BY <1>1 DEF IInv, LiveOK, Measuring
<1> QED
  BY <1>1, <1>2 DEF IInv, ClaimOK, RowOf, Measuring

\* Every variable has its type in every reachable state.
THEOREM TypeCorrect == Spec => []TypeOK
<1>1. IInv => TypeOK
  BY DEF IInv
<1> QED
  BY <1>1, Invariance, PTL

\* Two shards measure the same row at the same time only when one of them is an orphan that a
\* run was admitted beside.
THEOREM Exclusive == Spec => []OneMeasurer
BY OneMeasurerState, Invariance, PTL

\* A row that some part file holds is not measured again, unless a removal of the queue was cut
\* short or an orphan goes on beside a run: wherever a crash falls, and whatever the orphans do.
THEOREM MeasuredOnce == Spec => []NeverRemeasured
BY NeverRemeasuredState, Invariance, PTL

\* A live shard of an earlier run goes on beside a run only if no claim told of it.
THEOREM RunsAlone == Spec => []NoOrphanBesideRun
<1>1. IInv => NoOrphanBesideRun
  BY DEF IInv, StraysOK, NoOrphanBesideRun
<1> QED
  BY <1>1, Invariance, PTL

\* No journal and no tier file mixes rows of two trees or two selections, without an orphan
\* beside a run.
THEOREM TreesApart == Spec => []OneTree
<1>1. IInv => OneTree
  BY DEF IInv, PlanOK, TierOK, OneTree, Strayed
<1> QED
  BY <1>1, Invariance, PTL

\* Between runs an unfinished queue that no removal was cut short in can be resumed.
THEOREM CanResume == Spec => []Resumable
<1>1. IInv => Resumable
  BY DEF IInv, PlanOK, Resumable
<1> QED
  BY <1>1, Invariance, PTL

-----------------------------------------------------------------------------
(***************************************************************************)
(* What happens to the journal.  JInv adds to IInv that the journal is of  *)
(* the plan's rows, that a queue being removed after a run is published,   *)
(* and that a run beside an earlier generation's parts found them clean.   *)
(* From it follow that no measured row is lost, and that the queue         *)
(* implements RowLedger.  KInv adds what becomes of a claim while a run    *)
(* waits for its shards: a run that ends well has every row.               *)
(***************************************************************************)

\* The rows of a part are the plan's, unless a stray may write it; once an orchestrator writes the
\* tier file they are all in it, and once it cleans up they are all published.
JournalOK ==
  \A q \in PartIds : Readable(q) =>
    \/ Strayed(q)
    \/ /\ plan # None => parts[q].rows \subseteq Planned(plan)
       /\ run.pc = "write" => \A r \in parts[q].rows : run.out[r] # None
       /\ run.pc = "clean" => \A r \in parts[q].rows : tier[r] # None /\ ~tierTorn

\* In an undisturbed queue what is published is the journal, measured on the plan's tree.
PublishOK ==
  strays = {} =>
    /\ run.pc = "write" => run.out = [r \in Rows |-> IF r \in Measured THEN plan ELSE None]
    /\ run.pc = "clean" /\ plan # None => \A r \in Measured : tier[r] = plan

\* The parts of earlier generations that a run works beside are clean.
CleanOK ==
  run.pc \in {"journal", "drop", "release", "fan", "wait"} =>
    \A q \in PartIds : Readable(q) /\ (run.pc = "journal" \/ q[1] < run.gen) =>
      ~parts[q].dirty \/ Strayed(q)

JInv == IInv /\ JournalOK /\ PublishOK /\ CleanOK

-----------------------------------------------------------------------------
(* What the steps do to the journal.                                       *)

\* The plan, the parts and the tier file stay as they are, and nobody new is beside a run.
SameQueue == UNCHANGED <<plan, parts, tier, strays>>

LEMMA InitJournal == Init => JInv
<1> SUFFICES ASSUME Init PROVE JInv
  OBVIOUS
<1>1. IInv
  BY InitInv
<1>2. run.pc = "idle" /\ \A q \in PartIds : ~Readable(q)
  BY DEF Init, Idle, Readable
<1> QED
  BY <1>1, <1>2 DEF JInv, JournalOK, PublishOK, CleanOK

\* Steps that leave the plan, the parts and the tier file alone.
LEMMA KeepsJournal ==
  ASSUME JInv, IInv', SameQueue,
         \/ run' = run /\ tierTorn' = tierTorn
         \/ run'.pc \in {"idle", "plan", "discard"}
         \/ run.pc \in {"drop", "release", "fan"} /\ run'.pc \in {"drop", "release", "wait"} /\ run'.gen = run.gen
  PROVE  JInv' /\ Measured' = Measured
<1>1. /\ Measured' = Measured /\ UNCHANGED <<plan, parts, tier, strays>>
      /\ \A q \in PartIds : (Readable(q)' <=> Readable(q)) /\ (Strayed(q)' <=> Strayed(q))
  BY DEF SameQueue, Measured, Readable, Strayed
<1>2. JournalOK' /\ PublishOK'
  BY <1>1 DEF JInv, JournalOK, PublishOK
<1>3. CleanOK'
  BY <1>1 DEF JInv, CleanOK
<1> QED
  BY <1>1, <1>2, <1>3 DEF JInv

\* What a shard of the newest run has measured is in its part, unless a stray may write that.
LEMMA ShardRows ==
  ASSUME IInv, NEW p \in Procs, Own(p), ~Strayed(PartOf(p))
  PROVE  /\ proc[p].rows \subseteq Measured /\ PartOf(p) \in PartIds
         /\ \/ parts[PartOf(p)] = None /\ proc[p].rows = {}
            \/ Readable(PartOf(p)) /\ parts[PartOf(p)].rows = proc[p].rows
<1>1. PartOf(p) \in PartIds
  BY DEF PartOf, PartIds, Procs, IInv, TypeOK, ShardType
<1>2. \/ parts[PartOf(p)] = None /\ proc[p].rows = {}
      \/ Readable(PartOf(p)) /\ parts[PartOf(p)].rows = proc[p].rows
  BY DEF IInv, LiveOK
<1> QED
  BY <1>1, <1>2 DEF Measured, IInv, TypeOK, ShardType

\* A flush adds to the journal what the shard recorded, in its run's own generation; what it
\* takes out of the journal was in a part that a stray may write.
LEMMA FlushJournal ==
  ASSUME JInv, IInv', NEW p \in Procs, Live(p), NEW t \in ShardType, Flush(p, t),
         t.gen = proc[p].gen, t.tree = proc[p].tree, proc[p].rows \subseteq t.rows,
         p \notin strays => t.rows \subseteq proc[p].rows \cup Planned(plan),
         UNCHANGED <<plan, tier, tierTorn, run, strays>>
  PROVE  /\ JInv'
         /\ strays = {} => Measured' = Measured \cup t.rows
         /\ \A r \in Measured \ Measured' : \E q \in With(r) : Strayed(q)
<1> DEFINE part == [rows |-> t.rows, skipped |-> t.skipped, tree |-> t.tree, dirty |-> t.dirty]
           o == PartOf(p)
<1>1. /\ o \in PartIds /\ o[1] = proc[p].gen /\ o[2] = p[2] /\ proc[p].tree \in Keys
      /\ p \notin strays => Own(p) /\ plan \in Keys
      /\ p \in strays => Strayed(o)
  BY DEF JInv, IInv, TypeOK, StraysOK, LiveOK, Own, PartOf, PartIds, Procs, ShardType, Strayed
<1>2. part.rows = t.rows /\ part.dirty = t.dirty /\ part \in Part
  BY <1>1 DEF Part, ShardType
<1>3. parts' = [parts EXCEPT ![o] = part]
  BY DEF Flush, PartOf
<1> HIDE DEF part
<1>4. parts'[o] = part /\ \A q \in PartIds : q # o => parts'[q] = parts[q]
  BY <1>1, <1>3 DEF JInv, IInv, TypeOK
<1>5. /\ parts'[o] # None /\ parts'[o] # Torn
      /\ \A q \in PartIds : q # o => (Readable(q)' <=> Readable(q))
  BY <1>2, <1>4, DistinctAssumption DEF Readable
<1>6. ~Strayed(o) => /\ p \notin strays /\ Own(p)
                     /\ \/ parts[o] = None /\ proc[p].rows = {}
                        \/ Readable(o) /\ parts[o].rows = proc[p].rows
  BY <1>1, ShardRows DEF JInv
<1> HIDE DEF o
<1>7. ASSUME NEW r \in Measured \ Measured' PROVE \E q \in With(r) : Strayed(q)
  <2>1. PICK q \in PartIds : Readable(q) /\ r \in parts[q].rows
    BY DEF Measured
  <2>2. q = o
    BY <2>1, <1>4, <1>5 DEF Measured
  <2>3. r \notin t.rows
    BY <2>2, <1>1, <1>2, <1>4, <1>5 DEF Measured, Readable
  <2>4. Strayed(o)
    BY <2>1, <2>2, <2>3, <1>6 DEF Readable
  <2> QED
    BY <2>1, <2>2, <2>4 DEF With
<1>8. strays = {} => Measured' = Measured \cup t.rows
  <2>1. ASSUME NEW r \in Rows, r \in Measured' PROVE r \in Measured \cup t.rows
    <3>1. PICK q \in PartIds : Readable(q)' /\ r \in parts'[q].rows
      BY <2>1 DEF Measured
    <3> QED
      BY <3>1, <1>2, <1>4, <1>5 DEF Measured
  <2>2. strays = {} => Measured \subseteq Measured'
    BY <1>7 DEF Strayed
  <2>3. ASSUME NEW r \in t.rows PROVE r \in Measured'
    BY <1>1, <1>2, <1>4, <1>5 DEF Measured, Readable, ShardType
  <2>4. Measured \subseteq Rows /\ Measured' \subseteq Rows
    BY DEF Measured
  <2> QED
    BY <2>1, <2>2, <2>3, <2>4
<1>9. /\ \A q \in PartIds : Strayed(q)' <=> Strayed(q)
      /\ ~Strayed(o) => run.pc \in {"idle", "wait"}
      /\ strays = {} => run.pc \in {"idle", "wait"}
  BY <1>1, <1>6, NoneOwn DEF JInv, Strayed
<1>10. JournalOK'
  <2> SUFFICES ASSUME NEW q \in PartIds, Readable(q)', ~Strayed(q)
               PROVE  /\ plan # None => parts'[q].rows \subseteq Planned(plan)
                      /\ run.pc = "write" => \A r \in parts'[q].rows : run.out[r] # None
                      /\ run.pc = "clean" => \A r \in parts'[q].rows : tier[r] # None /\ ~tierTorn
    BY <1>9 DEF JournalOK
  <2>1. CASE q # o
    BY <2>1, <1>4, <1>5 DEF JInv, JournalOK
  <2>2. CASE q = o
    <3>1. plan # None => proc[p].rows \subseteq Planned(plan)
      BY <2>2, <1>1, <1>6 DEF JInv, JournalOK
    <3> QED
      BY <2>2, <3>1, <1>2, <1>4, <1>6, <1>9
  <2> QED
    BY <2>1, <2>2
<1>11. PublishOK'
  BY <1>9 DEF PublishOK
<1>12. CleanOK'
  <2>1. ~Strayed(o) /\ run.pc = "wait" => o[1] = run.gen
    BY <1>1, <1>6 DEF JInv, IInv, RunOK
  <2>2. run.gen \in Int
    BY DEF JInv, IInv, TypeOK, RunType
  <2> QED
    BY <2>1, <2>2, <1>4, <1>5, <1>9 DEF JInv, CleanOK
<1> QED
  BY <1>7, <1>8, <1>10, <1>11, <1>12 DEF JInv

\* Recording a row adds it to what the shard has measured, or leaves that alone.
LEMMA RecordedRows ==
  ASSUME NEW s \in ShardType, NEW r, NEW d, NEW skip \in BOOLEAN
  PROVE  /\ skip => Recorded(s, r, d, skip).rows = s.rows
         /\ ~skip => Recorded(s, r, d, skip).rows = s.rows \cup {r}
BY DEF Recorded, ShardType

LEMMA RecordJournal ==
  ASSUME JInv, IInv', NEW p \in Procs, Record(p)
  PROVE  /\ JInv'
         /\ strays = {} => /\ run.pc \in {"idle", "wait"}
                           /\ \/ Measured' = Measured
                              \/ plan \in Keys /\ \E r \in Planned(plan) : Measured' = Measured \cup {r}
         /\ \A r \in Measured \ Measured' : \E q \in With(r) : Strayed(q)
<1>1. Live(p) /\ proc[p].pc = "measure"
  BY DEF Record, Live, Working
<1>2. /\ proc[p] \in ShardType /\ proc[p].cases \in Keys
      /\ p \notin strays => Own(p) /\ proc[p].cases = plan
  BY <1>1, Cases DEF JInv, Own
<1>3. RowOf(p) \in Planned(proc[p].cases) /\ RowOf(p) \in Rows
  <2>1. proc[p].at \in DOMAIN Ids[proc[p].cases]
    BY <1>1 DEF JInv, IInv, StraysOK
  <2> QED
    BY <1>2, <2>1, PlanFacts DEF RowOf, Planned
<1>4. PICK d \in Stamp(proc[p]), skip \in BOOLEAN :
        LET s == Recorded(proc[p], RowOf(p), d, skip) IN Flush(p, s) /\ Become(p, s)
  BY DEF Record
<1>5. d \in BOOLEAN
  BY <1>2 DEF Stamp, ShardType
<1> DEFINE t == Recorded(proc[p], RowOf(p), d, skip)
<1>6. /\ t \in ShardType /\ t.gen = proc[p].gen /\ t.tree = proc[p].tree
      /\ skip => t.rows = proc[p].rows
      /\ ~skip => t.rows = proc[p].rows \cup {RowOf(p)}
  <2>1. t \in ShardType /\ t.gen = proc[p].gen /\ t.tree = proc[p].tree
    BY <1>2, <1>3, <1>5, RecordedFacts
  <2>2. (skip => t.rows = proc[p].rows) /\ (~skip => t.rows = proc[p].rows \cup {RowOf(p)})
    BY <1>2, RecordedRows
  <2> QED
    BY <2>1, <2>2
<1>7. Flush(p, t)
  BY <1>4
<1> HIDE DEF t
<1>8. /\ JInv'
      /\ strays = {} => Measured' = Measured \cup t.rows
      /\ \A r \in Measured \ Measured' : \E q \in With(r) : Strayed(q)
  BY <1>1, <1>2, <1>3, <1>6, <1>7, FlushJournal DEF Record, aux
<1>9. strays = {} => proc[p].rows \subseteq Measured /\ run.pc \in {"idle", "wait"}
  BY <1>2, ShardRows, NoneOwn DEF JInv, Strayed
<1>10. strays = {} => Measured' = Measured \/ Measured' = Measured \cup {RowOf(p)}
  BY <1>6, <1>8, <1>9
<1> QED
  BY <1>2, <1>3, <1>8, <1>9, <1>10

LEMMA FinishJournal ==
  ASSUME JInv, IInv', NEW p \in Procs, Finish(p)
  PROVE  /\ JInv' /\ (strays = {} => Measured' = Measured)
         /\ \A r \in Measured \ Measured' : \E q \in With(r) : Strayed(q)
<1>1. Live(p) /\ proc[p] \in ShardType
  BY DEF JInv, IInv, TypeOK, Finish, Spent, Orphan, Live, Working
<1>2. PICK d \in Stamp(proc[p]) : Flush(p, [proc[p] EXCEPT !.dirty = d])
  BY DEF Finish
<1> DEFINE t == [proc[p] EXCEPT !.dirty = d]
<1>3. t \in ShardType /\ t.gen = proc[p].gen /\ t.tree = proc[p].tree /\ t.rows = proc[p].rows
  BY <1>1 DEF Stamp, ShardType
<1>4. Flush(p, t)
  BY <1>2
<1> HIDE DEF t
<1>5. strays = {} => proc[p].rows \subseteq Measured
  BY <1>1, ShardRows DEF JInv, Own, Strayed
<1>6. /\ JInv' /\ (strays = {} => Measured' = Measured \cup t.rows)
      /\ \A r \in Measured \ Measured' : \E q \in With(r) : Strayed(q)
  BY <1>1, <1>3, <1>4, FlushJournal DEF Finish, aux
<1> QED
  BY <1>3, <1>5, <1>6

\* A run starts on the journal as it is, and resumes only a clean one.
LEMMA StartRunJournal ==
  ASSUME JInv, IInv', NEW key \in Keys, NEW resume \in BOOLEAN, NEW jobs \in 1..MaxJobs,
         StartRun(key, resume, jobs)
  PROVE  JInv' /\ Measured' = Measured
<1>1. /\ UNCHANGED <<plan, parts, tier, tierTorn>> /\ Measured' = Measured
      /\ \A q \in PartIds : (Readable(q)' <=> Readable(q)) /\ (Strayed(q) => Strayed(q)')
  BY DEF StartRun, disk, Measured, Readable, Strayed
<1>2. run'.pc \in {"journal", "discard"} /\ (run'.pc = "journal" => ~DirtyJournal)
  BY IdleType DEF StartRun, QueueRefusal, RunType
<1>3. JournalOK' /\ PublishOK'
  BY <1>1, <1>2 DEF JInv, JournalOK, PublishOK
<1>4. CleanOK'
  BY <1>1, <1>2 DEF CleanOK, DirtyJournal
<1> QED
  BY <1>1, <1>3, <1>4 DEF JInv

\* A removal takes a queue apart, at whatever entry it may be cut short.
LEMMA RemoveEntryJournal ==
  ASSUME JInv, IInv', RemoveEntry
  PROVE  /\ JInv' /\ Measured' \subseteq Measured /\ plan' \in {plan, None}
         /\ UNCHANGED <<tier, tierTorn, run, strays>> /\ run.pc \in {"discard", "clean"}
<1>1. /\ UNCHANGED <<tier, tierTorn, run, strays>> /\ run.pc \in {"discard", "clean"}
      /\ plan' \in {plan, None} /\ (plan # None /\ plan' # None => plan' = plan)
  BY DEF RemoveEntry
<1>2. \A q \in PartIds : Readable(q)' => Readable(q) /\ parts'[q] = parts[q]
  BY DEF RemoveEntry, Readable, JInv, IInv, TypeOK
<1>3. /\ Measured' \subseteq Measured
      /\ \A q \in PartIds : Strayed(q)' <=> Strayed(q)
  BY <1>1, <1>2 DEF Measured, Strayed
<1>4. JournalOK' /\ PublishOK'
  BY <1>1, <1>2, <1>3 DEF JInv, JournalOK, PublishOK
<1>5. CleanOK'
  BY <1>1 DEF CleanOK
<1> QED
  BY <1>1, <1>3, <1>4, <1>5 DEF JInv, Measured, With

\* A queue is planned where no part is left but those that a stray may write.
LEMMA WritePlanJournal ==
  ASSUME JInv, IInv', WritePlan
  PROVE  /\ JInv' /\ Measured' = Measured /\ UNCHANGED <<tier, strays>>
         /\ plan = None /\ plan' \in Keys /\ (strays = {} => Measured = {})
         /\ run.pc = "plan" /\ run'.pc = "fan"
<1>1. /\ plan = None /\ plan' = run.key /\ run.key \in Keys /\ run.pc = "plan" /\ run'.pc = "fan"
      /\ UNCHANGED <<parts, tier, tierTorn, strays>>
  BY DEF WritePlan, JInv, IInv, TypeOK, RunType, RunOK, aux
<1>2. \A q \in PartIds : Readable(q) => Strayed(q)
  BY <1>1 DEF JInv, IInv, RunOK, Readable
<1>3. /\ Measured' = Measured
      /\ \A q \in PartIds : (Readable(q)' <=> Readable(q)) /\ (Strayed(q)' <=> Strayed(q))
  BY <1>1 DEF Measured, Readable, Strayed
<1>4. JournalOK' /\ PublishOK' /\ CleanOK'
  BY <1>1, <1>2, <1>3 DEF JournalOK, PublishOK, CleanOK
<1>5. strays = {} => Measured = {}
  BY <1>2 DEF Measured, Strayed
<1> QED
  BY <1>1, <1>3, <1>4, <1>5 DEF JInv

\* The journal a run goes by is the one that was found clean.
LEMMA ReadJournalJournal ==
  ASSUME JInv, IInv', ReadJournal
  PROVE  JInv' /\ Measured' = Measured
<1>1. /\ UNCHANGED <<plan, parts, tier, tierTorn, strays>> /\ run'.pc = "drop" /\ run.pc = "journal"
  BY ZenonT(40) DEF ReadJournal, disk, aux, JInv, IInv, TypeOK, RunType
<1>2. /\ Measured' = Measured
      /\ \A q \in PartIds : (Readable(q)' <=> Readable(q)) /\ (Strayed(q)' <=> Strayed(q))
  BY <1>1 DEF Measured, Readable, Strayed
<1>3. JournalOK' /\ PublishOK'
  BY <1>1, <1>2 DEF JInv, JournalOK, PublishOK
<1>4. CleanOK'
  BY <1>1, <1>2 DEF JInv, CleanOK
<1> QED
  BY <1>2, <1>3, <1>4 DEF JInv

\* A part that is dropped was torn, or a stray has written it since.
LEMMA DropTornJournal ==
  ASSUME JInv, IInv', NEW q \in PartIds, DropTorn(q)
  PROVE  /\ JInv' /\ (strays = {} => Measured' = Measured)
         /\ \A r \in Measured \ Measured' : \E s \in With(r) : Strayed(s)
<1>1. /\ UNCHANGED <<plan, tier, tierTorn, strays>> /\ run.pc = "drop" /\ run'.pc = "drop"
      /\ run'.gen = run.gen /\ (parts[q] = Torn \/ Strayed(q))
  BY DEF DropTorn, aux, JInv, IInv, TypeOK, RunType, RunOK
<1>2. /\ parts'[q] = None /\ \A s \in PartIds : s # q => parts'[s] = parts[s]
  BY DEF DropTorn, JInv, IInv, TypeOK
<1>3. /\ \A s \in PartIds : Readable(s)' => Readable(s) /\ parts'[s] = parts[s]
      /\ \A s \in PartIds : Strayed(s)' <=> Strayed(s)
      /\ \A s \in PartIds : Readable(s) /\ ~Readable(s)' => s = q /\ Strayed(s)
  BY <1>1, <1>2 DEF Readable, Strayed
<1>4. \A r \in Measured \ Measured' : \E s \in With(r) : Strayed(s)
  BY <1>3 DEF Measured, With
<1>5. strays = {} => Measured' = Measured
  <2>1. Measured' \subseteq Measured
    BY <1>3 DEF Measured
  <2> QED
    BY <1>4, <2>1 DEF Strayed
<1>6. JournalOK' /\ PublishOK'
  BY <1>1, <1>3 DEF JInv, JournalOK, PublishOK
<1>7. CleanOK'
  BY <1>1, <1>3 DEF JInv, CleanOK
<1> QED
  BY <1>4, <1>5, <1>6, <1>7 DEF JInv

\* Every row that a part holds is in what is stitched; it is measured on the plan's tree.
LEMMA StitchedJournal ==
  ASSUME JInv, run.pc = "wait"
  PROVE  /\ \A q \in PartIds : Readable(q) /\ ~Strayed(q) => \A r \in parts[q].rows : Stitched[r] # None
         /\ strays = {} => Stitched = [r \in Rows |-> IF r \in Measured THEN plan ELSE None]
<1>1. plan \in Keys /\ plan # None /\ Measured \subseteq Rows
  BY DistinctAssumption DEF JInv, IInv, RunOK, Measured
<1>2. \A r \in Measured : Winner(r) \in PartIds /\ Readable(Winner(r))
  BY WinnerFacts DEF With
<1>3. \A r \in Measured : parts[Winner(r)].tree \in Keys
  BY <1>2 DEF JInv, IInv, TypeOK, Readable, Part
<1>4. ASSUME NEW q \in PartIds, Readable(q), ~Strayed(q), NEW r \in parts[q].rows PROVE Stitched[r] # None
  <2>1. r \in Measured /\ r \in Planned(plan)
    BY <1>1, <1>4 DEF JInv, JournalOK, Measured, IInv, TypeOK, Readable, Part
  <2> QED
    BY <1>1, <1>3, <2>1, DistinctAssumption DEF Stitched
<1>5. ASSUME strays = {} PROVE Stitched = [r \in Rows |-> IF r \in Measured THEN plan ELSE None]
  <2>1. \A r \in Measured : parts[Winner(r)].tree = plan
    BY <1>1, <1>2, <1>5 DEF JInv, IInv, PlanOK, Strayed
  <2>2. \A r \in Measured : r \in Planned(plan)
    BY <1>1, <1>5 DEF Measured, JInv, JournalOK, Strayed
  <2> QED
    BY <2>1, <2>2 DEF Stitched
<1> QED
  BY <1>4, <1>5

\* A queue is removed without a tier file only when nothing of the plan in it was measured.
LEMMA StitchJournal ==
  ASSUME JInv, IInv', Stitch
  PROVE  JInv' /\ Measured' = Measured
<1>1. /\ UNCHANGED <<plan, parts, tier, strays>> /\ Measured' = Measured /\ run.pc = "wait"
      /\ \A q \in PartIds : (Readable(q)' <=> Readable(q)) /\ (Strayed(q)' <=> Strayed(q))
  BY DEF Stitch, aux, Measured, Readable, Strayed
<1>2. plan = run.key /\ plan \in Keys /\ plan # None
  BY <1>1, DistinctAssumption DEF JInv, IInv, RunOK
<1>3. /\ run'.pc \in {"idle", "clean", "write"}
      /\ run'.pc = "write" => run'.out = Stitched
      /\ run'.pc = "clean" => NoRowSelected
  <2>1. run \in RunType /\ Idle.pc = "idle"
    BY IdleType DEF JInv, IInv, TypeOK
  <2>2. CASE run' = IF NoParts \/ Keep THEN Idle ELSE [run EXCEPT !.pc = "clean"]
    <3>1. NoParts \/ NoRowSelected
      BY <2>1, <2>2 DEF Stitch, RunType
    <3>2. run'.pc = IF NoParts \/ Keep THEN "idle" ELSE "clean"
      BY <2>1, <2>2 DEF RunType
    <3> QED
      BY <3>1, <3>2
  <2>3. CASE run' = [run EXCEPT !.pc = "write", !.out = Stitched, !.keep = Keep]
    BY <2>1, <2>3 DEF RunType
  <2> QED
    BY <2>2, <2>3 DEF Stitch
<1>4. run'.pc = "clean" => \A q \in PartIds : Readable(q) => Strayed(q) \/ parts[q].rows = {}
  <2> SUFFICES ASSUME NoRowSelected, NEW q \in PartIds, Readable(q), ~Strayed(q)
               PROVE  parts[q].rows = {}
    BY <1>3
  <2>1. parts[q].rows \subseteq Planned(plan) /\ parts[q].rows \subseteq Measured
    BY <1>2 DEF JInv, JournalOK, Measured, IInv, TypeOK, Readable, Part
  <2> QED
    BY <1>2, <2>1 DEF NoRowSelected
<1>5. JournalOK'
  BY <1>1, <1>2, <1>3, <1>4, StitchedJournal DEF JInv, JournalOK
<1>6. PublishOK'
  <2>1. run'.pc = "clean" /\ strays = {} => Measured = {}
    BY <1>4 DEF Measured, Strayed
  <2> QED
    BY <1>1, <1>3, <2>1, StitchedJournal DEF PublishOK
<1>7. CleanOK'
  BY <1>3 DEF CleanOK
<1> QED
  BY <1>1, <1>5, <1>6, <1>7 DEF JInv

\* The tier file gets what was stitched; of an undisturbed queue, the whole journal.
LEMMA WriteTierJournal ==
  ASSUME JInv, IInv', WriteTier
  PROVE  /\ JInv' /\ Measured' = Measured /\ plan' = plan /\ plan # None /\ strays' = strays
         /\ run.pc = "write" /\ run'.pc \in {"idle", "clean"}
         /\ strays = {} => tier' = [r \in Rows |-> IF r \in Measured THEN plan ELSE None]
<1>1. /\ UNCHANGED <<plan, parts, strays>> /\ Measured' = Measured /\ run.pc = "write"
      /\ tier' = run.out /\ tierTorn' = FALSE
      /\ \A q \in PartIds : (Readable(q)' <=> Readable(q)) /\ (Strayed(q)' <=> Strayed(q))
  BY DEF WriteTier, aux, Measured, Readable, Strayed
<1>2. plan = run.key /\ plan # None /\ Measured \subseteq Rows
  BY <1>1, DistinctAssumption DEF JInv, IInv, RunOK, Measured
<1>3. run'.pc \in {"idle", "clean"}
  BY DEF WriteTier, Idle, JInv, IInv, TypeOK, RunType
<1>4. strays = {} => tier' = [r \in Rows |-> IF r \in Measured THEN plan ELSE None]
  BY <1>1 DEF JInv, PublishOK
<1>5. JournalOK'
  BY <1>1, <1>3 DEF JInv, JournalOK
<1>6. PublishOK' /\ CleanOK'
  BY <1>1, <1>2, <1>3, <1>4 DEF PublishOK, CleanOK
<1> QED
  BY <1>1, <1>2, <1>3, <1>4, <1>5, <1>6 DEF JInv

\* A power loss tears parts of the journal, and a signal none.
LEMMA KillRunJournal ==
  ASSUME JInv, IInv', KillRun
  PROVE  /\ JInv' /\ run'.pc = "idle" /\ UNCHANGED <<plan, tier, strays>>
         /\ ~MayTear => Measured' = Measured
         /\ \A r \in Measured \ Measured' : \E q \in PartIds : Readable(q) /\ parts'[q] = Torn
<1>1. PICK T \in SUBSET {q \in PartIds : MayTear /\ Spawned /\ q[1] = run.gen /\ Readable(q)} :
        parts' = [q \in PartIds |-> IF q \in T THEN Torn ELSE parts[q]]
  BY DEF KillRun
<1>2. run'.pc = "idle" /\ UNCHANGED <<plan, tier, strays>>
  BY DEF KillRun, Idle, aux
<1>3. /\ \A q \in PartIds : Readable(q)' => Readable(q) /\ parts'[q] = parts[q]
      /\ \A q \in PartIds : Strayed(q)' <=> Strayed(q)
  BY <1>1, <1>2 DEF Readable, Strayed
<1>4. \A q \in PartIds : Readable(q) => parts'[q] = Torn \/ (Readable(q)' /\ parts'[q] = parts[q])
  BY <1>1 DEF Readable
<1>5. \A r \in Measured \ Measured' : \E q \in PartIds : Readable(q) /\ parts'[q] = Torn
  BY <1>4 DEF Measured
<1>6. ~MayTear => parts' = [q \in PartIds |-> parts[q]]
  BY <1>1
<1>7. ~MayTear => Measured' = Measured
  BY <1>6 DEF Measured, Readable
<1> QED
  BY <1>2, <1>3, <1>5, <1>7 DEF JInv, JournalOK, PublishOK, CleanOK

-----------------------------------------------------------------------------
(* Every step, seen on the journal.                                        *)

\* A step that neither starts a run nor touches the plan, the parts and the tier file.
Elsewhere ==
  \/ MakeClaims \/ ListClaims \/ (\E i \in Idx : ReleaseClaim(i)) \/ Fan \/ Cleaned
  \/ KillOrchestrator \/ UNCHANGED vars
  \/ \E p \in Procs : \/ KillShard(p) \/ Boot(p) \/ ClaimGo(p) \/ OpenClaim(p)
                      \/ NameClaim(p) \/ NoRow(p) \/ Enoent(p)

LEMMA ElsewhereJournal ==
  ASSUME JInv, IInv', Elsewhere
  PROVE  JInv' /\ Measured' = Measured /\ SameQueue
<1>1. SameQueue
  BY DEF Elsewhere, SameQueue, MakeClaims, ListClaims, ReleaseClaim, Fan, Cleaned, KillOrchestrator,
         KillShard, Boot, ClaimGo, OpenClaim, NameClaim, NoRow, Enoent, vars, disk, aux
<1>2. \/ run' = run /\ tierTorn' = tierTorn
      \/ run'.pc \in {"idle", "plan", "discard"}
      \/ run.pc \in {"drop", "release", "fan"} /\ run'.pc \in {"drop", "release", "wait"} /\ run'.gen = run.gen
  <2>1. run \in RunType /\ Idle.pc = "idle"
    BY IdleType DEF JInv, IInv, TypeOK
  <2>2. CASE \/ MakeClaims \/ ListClaims \/ (\E i \in Idx : ReleaseClaim(i)) \/ Fan
    BY <2>1, <2>2 DEF MakeClaims, ListClaims, ReleaseClaim, Fan, RunType
  <2>3. CASE Cleaned \/ KillOrchestrator
    BY <2>1, <2>3 DEF Cleaned, KillOrchestrator
  <2>4. CASE \/ UNCHANGED vars
             \/ \E p \in Procs : \/ KillShard(p) \/ Boot(p) \/ ClaimGo(p) \/ OpenClaim(p)
                                 \/ NameClaim(p) \/ NoRow(p) \/ Enoent(p)
    BY <2>4 DEF KillShard, Boot, ClaimGo, OpenClaim, NameClaim, NoRow, Enoent, vars, disk
  <2> QED
    BY <2>2, <2>3, <2>4 DEF Elsewhere
<1> QED
  BY <1>1, <1>2, KeepsJournal

\* The steps, told apart by what they may do to the journal.
LEMMA StepCases ==
  ASSUME [Next]_vars
  PROVE  \/ RemoveEntry \/ WritePlan \/ ReadJournal \/ (\E q \in PartIds : DropTorn(q))
         \/ Stitch \/ WriteTier \/ KillRun
         \/ \E p \in Procs : Record(p) \/ Finish(p)
         \/ \E key \in Keys, resume \in BOOLEAN : \E jobs \in 1..MaxJobs : StartRun(key, resume, jobs)
         \/ Elsewhere
BY Zenon DEF Next, OrchStep, UserStep, ShardStep, Elsewhere

LEMMA JournalStep == ASSUME JInv, [Next]_vars PROVE JInv'
<1>1. IInv'
  BY NextInv DEF JInv
<1>2. CASE RemoveEntry \/ WritePlan \/ ReadJournal \/ \E q \in PartIds : DropTorn(q)
  BY <1>1, <1>2, RemoveEntryJournal, WritePlanJournal, ReadJournalJournal, DropTornJournal
<1>3. CASE Stitch \/ WriteTier \/ KillRun
  BY <1>1, <1>3, StitchJournal, WriteTierJournal, KillRunJournal
<1>4. CASE \E p \in Procs : Record(p) \/ Finish(p)
  BY <1>1, <1>4, RecordJournal, FinishJournal
<1>5. CASE \E key \in Keys, resume \in BOOLEAN : \E jobs \in 1..MaxJobs : StartRun(key, resume, jobs)
  BY <1>1, <1>5, StartRunJournal
<1>6. CASE Elsewhere
  BY <1>1, <1>6, ElsewhereJournal
<1> QED
  BY <1>2, <1>3, <1>4, <1>5, <1>6, StepCases

-----------------------------------------------------------------------------
(* What follows.                                                           *)

\* The journal is of the plan's rows and what is cleaned up is published, in every reachable state.
THEOREM JournalInvariance == Spec => []JInv
<1>1. Init => JInv
  BY InitJournal
<1>2. JInv /\ [Next]_vars => JInv'
  BY JournalStep
<1> QED
  BY <1>1, <1>2, PTL DEF Spec

\* No shard adds to a journal in which an earlier generation saw a dirty tree, other than in a
\* part that an orphan beside the run may write.
THEOREM StaysClean == Spec => []CleanPast
<1>1. JInv => CleanPast
  BY DEF JInv, CleanOK, CleanPast
<1> QED
  BY <1>1, JournalInvariance, PTL

\* A measured row leaves the journal only once the tier file has it, because the user started
\* afresh, because a power loss tore its part, or because an orphan beside a run writes there too.
THEOREM NothingLost == Spec => JournalKept
<1> DEFINE Kept == \A r \in Measured \ Measured' :
                     \/ run.pc = "clean" /\ tier[r] # None /\ ~tierTorn
                     \/ run.pc = "discard"
                     \/ \E q \in PartIds : Readable(q) /\ parts'[q] = Torn
                     \/ \E q \in With(r) : Strayed(q)
<1>1. ASSUME JInv, [Next]_vars PROVE Kept
  <2>1. IInv' /\ JInv'
    BY <1>1, NextInv, JournalStep DEF JInv
  <2>2. CASE RemoveEntry
    <3> SUFFICES ASSUME run.pc = "clean", NEW r \in Measured
                 PROVE  \/ tier[r] # None /\ ~tierTorn
                        \/ \E q \in With(r) : Strayed(q)
      BY <1>1, <2>1, <2>2, RemoveEntryJournal
    <3>1. PICK q \in PartIds : Readable(q) /\ r \in parts[q].rows
      BY DEF Measured
    <3> QED
      BY <1>1, <3>1 DEF JInv, JournalOK, With
  <2>3. CASE \/ \E q \in PartIds : DropTorn(q)
             \/ \E p \in Procs : Record(p) \/ Finish(p)
    <3>1. \A r \in Measured \ Measured' : \E q \in With(r) : Strayed(q)
      BY <1>1, <2>1, <2>3, DropTornJournal, RecordJournal, FinishJournal
    <3> QED
      BY <3>1
  <2>4. CASE KillRun
    BY <1>1, <2>1, <2>4, KillRunJournal
  <2>5. CASE \/ WritePlan \/ ReadJournal \/ Stitch \/ WriteTier \/ Elsewhere
             \/ \E key \in Keys, resume \in BOOLEAN : \E jobs \in 1..MaxJobs : StartRun(key, resume, jobs)
    <3>1. Measured' = Measured
      BY <1>1, <2>1, <2>5, WritePlanJournal, ReadJournalJournal, StitchJournal, WriteTierJournal,
         ElsewhereJournal, StartRunJournal
    <3> QED
      BY <3>1
  <2> QED
    BY <1>1, <2>2, <2>3, <2>4, <2>5, StepCases
<1>2. JInv /\ [Next]_vars => [Kept]_vars
  BY <1>1
<1> QED
  BY <1>2, JournalInvariance, PTL DEF Spec, JournalKept

\* The asking, entering or leaving alone of a ledger that is neither opened, published nor closed.
LEMMA LedgerLeft ==
  ASSUME UNCHANGED <<plan, Measured, tier, strays>>
  PROVE  [Ledger!Next]_(Ledger!lvars)
<1>1. CASE (run'.pc = "discard") = (run.pc = "discard")
  BY <1>1, Zenon DEF Ledger!lvars
<1>2. CASE (run'.pc = "discard") = ~(run.pc = "discard")
  BY <1>2, Zenon DEF Ledger!Next, Ledger!Ask
<1> QED
  BY <1>1, <1>2

\* The queue implements the ledger: each row is entered once, what is published is the ledger, and
\* it is closed only when published or given up, piece by piece if need be; until an orphan goes on
\* beside a run.  A power loss is more than a ledger may suffer.
THEOREM LedgerImplemented ==
  ASSUME ~MayTear
  PROVE  Spec => ImplementsLedger
<1>1. Init => Ledger!Init
  <2>1. ASSUME Init
        PROVE  /\ Measured = {} /\ plan = None /\ run.pc = "idle" /\ tier = [r \in Rows |-> None]
               /\ strays = {}
    BY <2>1 DEF Init, Measured, Readable, Idle
  <2> QED
    BY <2>1 DEF Ledger!Init
<1>2. ASSUME JInv, [Next]_vars PROVE [Ledger!Next]_(Ledger!lvars)
  <2>1. IInv' /\ JInv'
    BY <1>2, NextInv, JournalStep DEF JInv
  <2>2. CASE strays' # {}
    BY <2>2 DEF Ledger!Next
  <2>3. CASE strays' = {}
    <3>1. strays = {}
      BY <1>2, <2>1, <2>3, StepCases, RemoveEntryJournal, WritePlanJournal, WriteTierJournal, KillRunJournal,
         ElsewhereJournal DEF StartRun, ReadJournal, DropTorn, Stitch, Record, Finish, SameQueue, aux
    <3>2. CASE RemoveEntry
      <4>1. /\ Measured' \in SUBSET Measured /\ plan' \in {plan, None}
            /\ UNCHANGED <<tier, run, strays>>
            /\ run.pc = "discard" \/ plan = None \/ \A r \in Measured : tier[r] = plan
        BY <1>2, <2>1, <3>1, <3>2, RemoveEntryJournal DEF JInv, PublishOK
      <4> QED
        BY <4>1 DEF Ledger!Next, Ledger!Close
    <3>3. CASE WritePlan
      BY <1>2, <2>1, <3>1, <3>3, WritePlanJournal DEF Ledger!Next, Ledger!Open
    <3>4. CASE \E p \in Procs : Record(p)
      <4>1. PICK p \in Procs : Record(p)
        BY <3>4
      <4>2. /\ UNCHANGED <<plan, tier, run, strays>> /\ run.pc # "discard"
            /\ \/ Measured' = Measured
               \/ plan \in Keys /\ \E r \in Planned(plan) : Measured' = Measured \cup {r}
        BY <1>2, <2>1, <3>1, <4>1, RecordJournal DEF Record, aux
      <4>3. CASE Measured' = Measured
        BY <4>2, <4>3, LedgerLeft
      <4>4. CASE plan \in Keys /\ \E r \in Planned(plan) \ Measured : Measured' = Measured \cup {r}
        BY <4>2, <4>4, DistinctAssumption DEF Ledger!Next, Ledger!Enter
      <4> QED
        BY <4>2, <4>3, <4>4
    <3>5. CASE WriteTier
      BY <1>2, <2>1, <3>1, <3>5, WriteTierJournal DEF Ledger!Next, Ledger!Publish, Idle
    <3>6. CASE \/ ReadJournal \/ Stitch \/ KillRun \/ Elsewhere \/ \E q \in PartIds : DropTorn(q)
               \/ \E p \in Procs : Finish(p)
               \/ \E key \in Keys, resume \in BOOLEAN : \E jobs \in 1..MaxJobs : StartRun(key, resume, jobs)
      <4>1. Measured' = Measured
        BY <1>2, <2>1, <3>1, <3>6, ReadJournalJournal, StitchJournal, KillRunJournal, ElsewhereJournal,
           DropTornJournal, FinishJournal, StartRunJournal
      <4>2. UNCHANGED <<plan, tier>>
        BY <1>2, <2>1, <3>6, ElsewhereJournal
        DEF ReadJournal, Stitch, KillRun, DropTorn, Finish, StartRun, SameQueue, disk
      <4> QED
        BY <2>3, <3>1, <4>1, <4>2, LedgerLeft
    <3> QED
      BY <1>2, <3>2, <3>3, <3>4, <3>5, <3>6, StepCases
  <2> QED
    BY <2>2, <2>3
<1> QED
  BY <1>1, <1>2, JournalInvariance, PTL DEF Spec, ImplementsLedger, Ledger!Spec

-----------------------------------------------------------------------------
(* A run that ends well has every row: what becomes of a claim.            *)

\* Shard q has claim i, has skipped its row, or cannot end well any more.
AccountedBy(q, i) ==
  \/ proc[q].pc = "exit1"
  \/ Live(q) /\ proc[q].bad
  \/ proc[q].pc \in {"name", "measure"} /\ proc[q].at = i
  \/ Readable(<<run.gen, q[2]>>) /\ Ids[plan][i] \in parts[<<run.gen, q[2]>>].skipped

Accounted(i) == Ids[plan][i] \in Measured \/ \E q \in Mine : AccountedBy(q, i)

\* A live shard's part holds what it has skipped.
SkippedOK ==
  \A p \in Procs : Live(p) =>
    \/ parts[PartOf(p)] = None /\ proc[p].skipped = {}
    \/ Readable(PartOf(p)) /\ parts[PartOf(p)].skipped = proc[p].skipped

\* The claims a shard has passed are taken; all of them once it exited well.
PassedOK ==
  \A p \in Mine :
    /\ Live(p) => /\ proc[p].at >= 1
                  /\ \A i \in DOMAIN Ids[plan] : i < proc[p].at => claims[i] # None
    /\ proc[p].pc = "exit0" => \A i \in DOMAIN Ids[plan] : claims[i] # None

TakenOK == \A i \in DOMAIN Ids[plan] : claims[i] # None => Accounted(i)

\* In an undisturbed queue what a run plans is unclaimed, what it resumes is claimed only where
\* it was measured, and what is claimed while it waits is accounted for.
WaitOK ==
  strays = {} =>
    /\ run.pc = "fan" => \A i \in Idx : claims[i] = None
    /\ run.pc = "release" => \A i \in Idx : claims[i] # None => i \in run.free \/ ClaimDone(i)
    /\ run.pc = "wait" => SkippedOK /\ PassedOK /\ TakenOK

\* A shard that exited well has left its part file.
EndedOK ==
  run.pc = "wait" => \A p \in Mine : proc[p].pc = "exit0" => parts[<<run.gen, p[2]>>] # None

\* A run has no verdict before it is stitched.
VerdictOK ==
  run.pc \in {"discard", "plan", "journal", "drop", "release", "fan", "wait"} => verdict = "none"

KInv == JInv /\ WaitOK /\ EndedOK /\ VerdictOK

\* A live shard of a waiting run is one it spawned, and writes to that run's generation.
LEMMA WaitLive ==
  ASSUME IInv, strays = {}, run.pc = "wait", NEW p \in Procs, Live(p)
  PROVE  /\ p \in Mine /\ PartOf(p) = <<run.gen, p[2]>> /\ PartOf(p) \in PartIds
         /\ plan \in Keys /\ plan # None /\ plan = run.key /\ proc[p] \in ShardType
         /\ Own(p) /\ OrchAlive(p)
<1>1. Own(p) /\ p[1] = runs /\ p[2] <= run.jobs /\ proc[p].gen = run.gen
  BY DEF IInv, StraysOK, RunOK, Own
<1>2. p \in Mine
  BY <1>1 DEF Mine, Procs
<1> QED
  BY <1>1, <1>2, DistinctAssumption DEF PartOf, PartIds, Procs, IInv, TypeOK, RunType, RunOK, OrchAlive

\* The shards a waiting run spawned are processes, the first one among them.
LEMMA MineProcs ==
  ASSUME IInv, run.pc = "wait"
  PROVE  Mine \subseteq Procs /\ <<runs, 1>> \in Mine
<1>1. runs \in Runs /\ run.jobs \in 1..MaxJobs
  BY BoundsAssumption DEF IInv, TypeOK, RunType, RunOK, Runs
<1>2. 1..run.jobs \subseteq 1..MaxJobs /\ 1 \in 1..run.jobs
  BY <1>1, BoundsAssumption
<1> QED
  BY <1>1, <1>2 DEF Mine, Procs

\* One shard moves on beside an orchestrator that waits for it.
LEMMA ShardMoves ==
  ASSUME KInv, strays = {}, run.pc = "wait", NEW p \in Procs, Live(p), NEW s \in ShardType, Become(p, s),
         UNCHANGED <<plan, run, runs, aux>>, NEW o \in PartIds, o = PartOf(p),
         \A q \in PartIds : q # o => parts'[q] = parts[q],
         parts[o] # None /\ parts[o] # Torn =>
           /\ parts'[o] # None /\ parts'[o] # Torn
           /\ parts[o].skipped \subseteq parts'[o].skipped,
         Measured \subseteq Measured',
         \A i \in DOMAIN Ids[plan] : claims[i] # None => claims'[i] # None,
         \A i \in DOMAIN Ids[plan] :
           claims'[i] # None => claims[i] # None \/ (s.pc = "name" /\ s.at = i),
         s.pc \in Working =>
           /\ s.gen = proc[p].gen /\ s.at >= 1 /\ (proc[p].bad => s.bad)
           /\ \A i \in DOMAIN Ids[plan] : i < s.at => claims'[i] # None
           /\ \/ parts'[o] = None /\ s.skipped = {}
              \/ parts'[o] # None /\ parts'[o] # Torn /\ parts'[o].skipped = s.skipped,
         s.pc = "exit0" => \A i \in DOMAIN Ids[plan] : claims'[i] # None,
         s.pc \notin Working /\ proc[p].bad => s.pc = "exit1",
         proc[p].pc \in {"name", "measure"} =>
           \/ s.pc = "exit1"
           \/ s.pc \in Working /\ s.bad
           \/ s.pc \in {"name", "measure"} /\ s.at = proc[p].at
           \/ Ids[plan][proc[p].at] \in Measured'
           \/ /\ parts'[o] # None /\ parts'[o] # Torn
              /\ Ids[plan][proc[p].at] \in parts'[o].skipped
  PROVE  WaitOK'
<1>1. p \in Mine /\ o = <<run.gen, p[2]>> /\ run' = run /\ Mine' = Mine
  BY WaitLive DEF KInv, JInv, Mine
<1>2. proc'[p] = s /\ \A q \in Procs : q # p => proc'[q] = proc[q]
  BY DEF KInv, JInv, IInv, TypeOK, Become
<1>3. \A q \in Mine : q \in Procs /\ (q # p => <<run.gen, q[2]>> # o)
  BY <1>1, MineProcs DEF KInv, JInv, Mine
<1>4. \A q \in Mine : <<run.gen, q[2]>> \in PartIds
  BY <1>3 DEF KInv, JInv, IInv, TypeOK, RunType, PartIds, Procs
<1>5. (Live(p)' <=> s.pc \in Working) /\ \A q \in Procs : q # p => (Live(q)' <=> Live(q))
  BY <1>2 DEF Live
<1>6. SkippedOK'
  <2> SUFFICES ASSUME NEW q \in Procs, Live(q)'
               PROVE  \/ parts'[PartOf(q)'] = None /\ proc'[q].skipped = {}
                      \/ /\ parts'[PartOf(q)'] # None /\ parts'[PartOf(q)'] # Torn
                         /\ parts'[PartOf(q)'].skipped = proc'[q].skipped
    BY DEF SkippedOK, Readable
  <2>1. CASE q = p
    <3>1. PartOf(q)' = o
      BY <2>1, <1>2, <1>5 DEF PartOf
    <3> QED
      BY <2>1, <3>1, <1>2, <1>5
  <2>2. CASE q # p
    <3>1. Live(q) /\ PartOf(q)' = PartOf(q) /\ PartOf(q) \in PartIds /\ PartOf(q) # o
      BY <2>2, <1>2, <1>3, <1>5, WaitLive DEF PartOf, KInv, JInv
    <3>2. \/ parts[PartOf(q)] = None /\ proc[q].skipped = {}
          \/ Readable(PartOf(q)) /\ parts[PartOf(q)].skipped = proc[q].skipped
      BY <3>1 DEF KInv, JInv, WaitOK, SkippedOK
    <3> QED
      BY <2>2, <3>1, <3>2, <1>2 DEF Readable
  <2> QED
    BY <2>1, <2>2
<1>7. PassedOK'
  <2>1. PassedOK
    BY DEF KInv, JInv, WaitOK
  <2>2. ASSUME NEW q \in Mine, q # p
        PROVE  /\ Live(q)' => /\ proc'[q].at >= 1
                              /\ \A i \in DOMAIN Ids[plan] : i < proc'[q].at => claims'[i] # None
               /\ proc'[q].pc = "exit0" => \A i \in DOMAIN Ids[plan] : claims'[i] # None
    BY <2>1, <2>2, <1>2, <1>3, <1>5 DEF PassedOK
  <2> QED
    BY <2>2, <1>1, <1>2, <1>5 DEF PassedOK
<1>8. TakenOK'
  <2> SUFFICES ASSUME NEW i \in DOMAIN Ids[plan], claims'[i] # None PROVE Accounted(i)'
    BY DEF TakenOK
  <2>1. CASE claims[i] = None
    <3>1. s.pc = "name" /\ s.at = i
      BY <2>1
    <3> QED
      BY <3>1, <1>1, <1>2 DEF Accounted, AccountedBy
  <2>2. CASE claims[i] # None
    <3>1. Accounted(i)
      BY <2>2 DEF KInv, JInv, WaitOK, TakenOK
    <3>2. CASE Ids[plan][i] \in Measured
      BY <3>2 DEF Accounted
    <3>3. ASSUME NEW q \in Mine, AccountedBy(q, i) PROVE Accounted(i)'
      <4>1. CASE q # p
        <5>1. /\ proc'[q] = proc[q] /\ (Live(q)' <=> Live(q))
              /\ parts'[<<run.gen, q[2]>>] = parts[<<run.gen, q[2]>>]
          BY <4>1, <1>2, <1>3, <1>4, <1>5
        <5>2. AccountedBy(q, i)'
          BY <3>3, <5>1, <1>1 DEF AccountedBy, Readable
        <5> QED
          BY <5>2, <1>1 DEF Accounted
      <4>2. CASE q = p
        <5>1. proc[p].pc # "exit1"
          BY DEF Live, Working
        <5>2. Ids[plan][i] \in Measured' \/ AccountedBy(p, i)'
          <6>1. CASE proc[p].bad
            BY <6>1, <1>2, <1>5 DEF AccountedBy
          <6>2. CASE proc[p].pc \in {"name", "measure"} /\ proc[p].at = i
            BY <6>2, <1>1, <1>2, <1>5 DEF AccountedBy, Readable
          <6>3. CASE Readable(o) /\ Ids[plan][i] \in parts[o].skipped
            BY <6>3, <1>1 DEF AccountedBy, Readable
          <6> QED
            BY <3>3, <4>2, <5>1, <6>1, <6>2, <6>3, <1>1 DEF AccountedBy
        <5> QED
          BY <5>2, <1>1 DEF Accounted
      <4> QED
        BY <4>1, <4>2
    <3> QED
      BY <3>1, <3>2, <3>3 DEF Accounted
  <2> QED
    BY <2>1, <2>2
<1> QED
  BY <1>1, <1>6, <1>7, <1>8 DEF KInv, JInv, WaitOK

\* A shard moves on without writing to disk anything but a claim.
LEMMA KeepsShard ==
  ASSUME KInv, strays = {}, run.pc = "wait", NEW p \in Procs, Live(p), NEW s \in ShardType, Become(p, s),
         UNCHANGED <<plan, parts, run, runs, aux>>,
         s.pc \in Working, s.gen = proc[p].gen, s.skipped = proc[p].skipped,
         proc[p].bad => s.bad,
         \A i \in DOMAIN Ids[plan] : claims[i] # None => claims'[i] # None,
         \A i \in DOMAIN Ids[plan] :
           claims'[i] # None => claims[i] # None \/ (s.pc = "name" /\ s.at = i),
         \/ s.at = proc[p].at
         \/ s.at = proc[p].at + 1 /\ (proc[p].at \in DOMAIN Ids[plan] => claims'[proc[p].at] # None),
         proc[p].pc \in {"name", "measure"} =>
           s.bad \/ (s.pc \in {"name", "measure"} /\ s.at = proc[p].at)
  PROVE  WaitOK'
<1>1. p \in Mine /\ PartOf(p) \in PartIds /\ proc[p] \in ShardType /\ plan \in Keys
  BY WaitLive DEF KInv, JInv
<1>2. Measured' = Measured
  BY DEF Measured, Readable
<1>3. \/ parts'[PartOf(p)] = None /\ s.skipped = {}
      \/ /\ parts'[PartOf(p)] # None /\ parts'[PartOf(p)] # Torn
         /\ parts'[PartOf(p)].skipped = s.skipped
  BY DEF KInv, JInv, WaitOK, SkippedOK, Readable
<1>4. s.at >= 1 /\ \A i \in DOMAIN Ids[plan] : i < s.at => claims'[i] # None
  <2>1. proc[p].at >= 1 /\ \A i \in DOMAIN Ids[plan] : i < proc[p].at => claims[i] # None
    BY <1>1 DEF KInv, JInv, WaitOK, PassedOK
  <2>2. proc[p].at \in Nat /\ DOMAIN Ids[plan] \subseteq Nat
    BY <1>1, PlanAssumption DEF ShardType
  <2> QED
    BY <2>1, <2>2
<1>5. s.pc # "exit0"
  BY DEF Working
<1> QED
  BY <1>1, <1>2, <1>3, <1>4, <1>5, ShardMoves

\* A shard exits, failed.
LEMMA ExitWait ==
  ASSUME KInv, strays = {}, run.pc = "wait", NEW p \in Procs, Live(p), Exit(p, "exit1"),
         UNCHANGED <<disk, run, runs, aux>>
  PROVE  WaitOK'
<1>0. Become(p, Gone("exit1"))
  BY WaitLive DEF KInv, JInv, Exit
<1>1. Gone("exit1") \in ShardType /\ Gone("exit1").pc = "exit1" /\ "exit1" \notin Working
  BY GoneType DEF Exited, Gone, Shard, Working
<1>2. Measured' = Measured
  BY DEF disk, Measured, Readable
<1> QED
  BY <1>0, <1>1, <1>2, WaitLive, ShardMoves DEF KInv, JInv, disk

LEMMA BootWait ==
  ASSUME KInv, strays = {}, run.pc = "wait", NEW p \in Procs, Boot(p)
  PROVE  WaitOK'
<1>1. Live(p) /\ proc[p].pc = "boot"
  BY DEF Boot, Live, Working
<1>2. CASE Exit(p, "exit1")
  BY <1>1, <1>2, ExitWait DEF Boot
<1>3. CASE Become(p, [proc[p] EXCEPT !.pc = "claim", !.cases = plan])
  <2> DEFINE s == [proc[p] EXCEPT !.pc = "claim", !.cases = plan]
  <2>1. /\ s \in ShardType /\ s.pc = "claim" /\ s.at = proc[p].at /\ s.gen = proc[p].gen
        /\ s.skipped = proc[p].skipped /\ s.bad = proc[p].bad /\ Become(p, s)
    BY WaitLive, <1>1, <1>3 DEF KInv, JInv, ShardType, Working
  <2> HIDE DEF s
  <2>2. s.pc \in Working /\ proc[p].pc \notin {"name", "measure"}
    BY <1>1, <2>1 DEF Working
  <2> QED
    BY <1>1, <2>1, <2>2, KeepsShard DEF Boot, disk
<1> QED
  BY <1>2, <1>3 DEF Boot

LEMMA ClaimGoWait ==
  ASSUME KInv, strays = {}, run.pc = "wait", NEW p \in Procs, ClaimGo(p)
  PROVE  WaitOK'
<1> DEFINE s == [proc[p] EXCEPT !.pc = "open"]
<1>1. Live(p) /\ proc[p].pc = "claim"
  BY DEF ClaimGo, Live, Working
<1>2. /\ s \in ShardType /\ s.pc = "open" /\ s.at = proc[p].at /\ s.gen = proc[p].gen
      /\ s.skipped = proc[p].skipped /\ s.bad = proc[p].bad /\ Become(p, s)
  BY WaitLive, <1>1 DEF KInv, JInv, ShardType, Working, ClaimGo
<1> HIDE DEF s
<1>3. s.pc \in Working /\ proc[p].pc \notin {"name", "measure"}
  BY <1>1, <1>2 DEF Working
<1> QED
  BY <1>1, <1>2, <1>3, KeepsShard DEF ClaimGo, disk

\* A claim is taken by the shard that opens it; one that is taken is passed.
LEMMA OpenClaimWait ==
  ASSUME KInv, strays = {}, run.pc = "wait", NEW p \in Procs, OpenClaim(p)
  PROVE  WaitOK'
<1>1. Live(p) /\ proc[p].pc = "open" /\ proc[p].cases = plan
  BY Cases DEF OpenClaim, Live, Working, KInv, JInv
<1>2. /\ proc[p] \in ShardType /\ plan \in Keys /\ proc[p].at \in DOMAIN Ids[plan]
      /\ DOMAIN Ids[plan] \subseteq Idx /\ proc[p].at \in Nat
  BY WaitLive, PlanFacts, <1>1 DEF KInv, JInv, OpenClaim, ShardType
<1>3. CASE claims[proc[p].at] = None
  <2> DEFINE s == [proc[p] EXCEPT !.pc = "name"]
  <2>1. /\ s \in ShardType /\ s.pc = "name" /\ s.at = proc[p].at /\ s.gen = proc[p].gen
        /\ s.skipped = proc[p].skipped /\ s.bad = proc[p].bad /\ Become(p, s)
    BY <1>2, <1>3 DEF ShardType, Working, OpenClaim
  <2> HIDE DEF s
  <2>2. s.pc \in Working /\ proc[p].pc \notin {"name", "measure"}
    BY <1>1, <2>1 DEF Working
  <2>3. \A i \in DOMAIN Ids[plan] : claims'[i] = IF i = proc[p].at THEN <<p, FALSE>> ELSE claims[i]
    BY <1>2, <1>3 DEF OpenClaim, KInv, JInv, IInv, TypeOK
  <2>4. <<p, FALSE>> # None
    BY ClaimFacts
  <2> QED
    BY <1>1, <2>1, <2>2, <2>3, <2>4, KeepsShard DEF OpenClaim
<1>4. CASE claims[proc[p].at] # None
  <2> DEFINE s == [proc[p] EXCEPT !.at = @ + 1]
  <2>1. /\ s \in ShardType /\ s.pc = "open" /\ s.at = proc[p].at + 1 /\ s.gen = proc[p].gen
        /\ s.skipped = proc[p].skipped /\ s.bad = proc[p].bad /\ Become(p, s)
    BY <1>1, <1>2, <1>4 DEF ShardType, OpenClaim
  <2> HIDE DEF s
  <2>2. s.pc \in Working /\ proc[p].pc \notin {"name", "measure"}
    BY <1>1, <2>1 DEF Working
  <2>3. claims' = claims
    BY <1>4 DEF OpenClaim
  <2> QED
    BY <1>1, <1>4, <2>1, <2>2, <2>3, KeepsShard DEF OpenClaim
<1> QED
  BY <1>3, <1>4

LEMMA NameClaimWait ==
  ASSUME KInv, strays = {}, run.pc = "wait", NEW p \in Procs, NameClaim(p)
  PROVE  WaitOK'
<1> DEFINE s == [proc[p] EXCEPT !.pc = "measure"]
<1>1. Live(p) /\ proc[p].pc = "name"
  BY DEF NameClaim, Live, Working
<1>2. /\ s \in ShardType /\ s.pc = "measure" /\ s.at = proc[p].at /\ s.gen = proc[p].gen
      /\ s.skipped = proc[p].skipped /\ s.bad = proc[p].bad /\ Become(p, s)
  BY WaitLive, <1>1 DEF KInv, JInv, ShardType, Working, NameClaim
<1> HIDE DEF s
<1>3. s.pc \in Working
  BY <1>2 DEF Working
<1>4. \A i \in DOMAIN Ids[plan] : claims'[i] # None <=> claims[i] # None
  <2>1. DOMAIN Ids[plan] \subseteq Idx /\ claims \in [Idx -> (Procs \X BOOLEAN) \cup {None}]
    BY <1>1, WaitLive, PlanFacts DEF KInv, JInv, IInv, TypeOK
  <2>2. <<p, FALSE>> # None /\ <<p, TRUE>> # None
    BY ClaimFacts
  <2> QED
    BY <2>1, <2>2 DEF NameClaim
<1> QED
  BY <1>1, <1>2, <1>3, <1>4, KeepsShard DEF NameClaim

LEMMA NoRowWait ==
  ASSUME KInv, strays = {}, run.pc = "wait", NEW p \in Procs, NoRow(p)
  PROVE  WaitOK'
<1> DEFINE s == [proc[p] EXCEPT !.pc = "claim", !.at = @ + 1, !.bad = TRUE]
<1>1. Live(p) /\ proc[p].pc = "measure"
  BY DEF NoRow, Live, Working
<1>2. /\ s \in ShardType /\ s.pc = "claim" /\ s.at = proc[p].at + 1 /\ s.gen = proc[p].gen
      /\ s.skipped = proc[p].skipped /\ s.bad = TRUE
  <2>1. proc[p] \in ShardType /\ proc[p].at + 1 \in Nat
    BY WaitLive, <1>1 DEF KInv, JInv, ShardType
  <2> QED
    BY <2>1 DEF ShardType, Working
<1>5. Become(p, s)
  BY DEF NoRow
<1> HIDE DEF s
<1>3. s.pc \in Working
  BY <1>2 DEF Working
<1>4. claims[proc[p].at] # None
  BY <1>1, WaitLive, ClaimFacts DEF KInv, JInv, IInv, ClaimOK, Measuring
<1> QED
  BY <1>1, <1>2, <1>3, <1>4, <1>5, KeepsShard DEF NoRow, disk

\* What a flush of shard state t does to the parts.
LEMMA FlushWait ==
  ASSUME KInv, strays = {}, run.pc = "wait", NEW p \in Procs, Live(p), NEW t \in ShardType, Flush(p, t),
         t.gen = proc[p].gen, t.tree = proc[p].tree, proc[p].skipped \subseteq t.skipped
  PROVE  LET o == PartOf(p)
         IN  /\ o \in PartIds /\ \A q \in PartIds : q # o => parts'[q] = parts[q]
             /\ parts'[o] # None /\ parts'[o] # Torn /\ parts'[o].skipped = t.skipped
             /\ parts'[o].rows = t.rows
             /\ parts[o] # None /\ parts[o] # Torn => parts[o].skipped \subseteq parts'[o].skipped
<1> DEFINE part == [rows |-> t.rows, skipped |-> t.skipped, tree |-> t.tree, dirty |-> t.dirty]
           o == PartOf(p)
<1>1. /\ o \in PartIds /\ plan \in Keys /\ proc[p].tree = plan
  BY WaitLive DEF KInv, JInv, IInv, LiveOK
<1>2. part.rows = t.rows /\ part.skipped = t.skipped /\ part \in Part
  BY <1>1 DEF Part, ShardType
<1>3. parts' = [parts EXCEPT ![o] = part]
  BY DEF Flush, PartOf
<1>4. \/ parts[o] = None
      \/ Readable(o) /\ parts[o].skipped = proc[p].skipped
  BY DEF KInv, WaitOK, SkippedOK
<1> HIDE DEF part
<1>5. parts'[o] = part /\ \A q \in PartIds : q # o => parts'[q] = parts[q]
  BY <1>1, <1>3 DEF KInv, JInv, IInv, TypeOK
<1>6. part # None /\ part # Torn
  BY <1>2, DistinctAssumption
<1> QED
  BY <1>1, <1>2, <1>4, <1>5, <1>6

\* What a shard records of its row.
LEMMA RecordedSkipped ==
  ASSUME NEW s \in ShardType, NEW r, NEW d, NEW skip \in BOOLEAN
  PROVE  LET t == Recorded(s, r, d, skip)
         IN  /\ t.at = s.at + 1 /\ t.bad = s.bad /\ s.skipped \subseteq t.skipped
             /\ skip => r \in t.skipped
             /\ ~skip => r \in t.rows
BY DEF Recorded, ShardType

LEMMA RecordWait ==
  ASSUME KInv, IInv', strays = {}, run.pc = "wait", NEW p \in Procs, Record(p)
  PROVE  WaitOK'
<1>1. /\ Live(p) /\ proc[p].pc = "measure" /\ proc[p].cases = plan /\ plan \in Keys
      /\ proc[p] \in ShardType /\ p \in Mine
  BY WaitLive, Cases DEF KInv, JInv, Record, Live, Working
<1>2. /\ proc[p].at \in DOMAIN Ids[plan] /\ claims[proc[p].at] # None
      /\ RowOf(p) = Ids[plan][proc[p].at] /\ RowOf(p) \in Rows
  BY ZenonT(40), <1>1, WaitLive, ClaimFacts, PlanFacts DEF KInv, JInv, IInv, StraysOK, ClaimOK, Measuring, RowOf
<1>3. PICK d \in Stamp(proc[p]), skip \in BOOLEAN :
        LET s == Recorded(proc[p], RowOf(p), d, skip) IN Flush(p, s) /\ Become(p, s)
  BY DEF Record
<1>4. d \in BOOLEAN
  BY <1>1 DEF Stamp, ShardType
<1> DEFINE t == Recorded(proc[p], RowOf(p), d, skip)
           o == PartOf(p)
<1>5. t \in ShardType /\ t.pc = "claim" /\ t.gen = proc[p].gen /\ t.tree = proc[p].tree
  BY <1>1, <1>2, <1>4, RecordedFacts
<1>6. /\ t.at = proc[p].at + 1 /\ t.bad = proc[p].bad /\ proc[p].skipped \subseteq t.skipped
      /\ RowOf(p) \in t.skipped \/ RowOf(p) \in t.rows
  BY <1>1, RecordedSkipped
<1>7. Flush(p, t) /\ Become(p, t)
  BY <1>3
<1> HIDE DEF t
<1>8. /\ o \in PartIds /\ \A q \in PartIds : q # o => parts'[q] = parts[q]
      /\ parts'[o] # None /\ parts'[o] # Torn /\ parts'[o].skipped = t.skipped
      /\ parts'[o].rows = t.rows
      /\ parts[o] # None /\ parts[o] # Torn => parts[o].skipped \subseteq parts'[o].skipped
  BY <1>1, <1>5, <1>6, <1>7, FlushWait
<1>9. Measured \subseteq Measured'
  BY RecordJournal DEF KInv
<1>10. RowOf(p) \in t.rows => RowOf(p) \in Measured'
  BY <1>2, <1>8 DEF Measured, Readable
<1>11. t.at >= 1 /\ \A i \in DOMAIN Ids[plan] : i < t.at => claims[i] # None
  <2>1. proc[p].at >= 1 /\ \A i \in DOMAIN Ids[plan] : i < proc[p].at => claims[i] # None
    BY <1>1 DEF KInv, WaitOK, PassedOK
  <2>2. proc[p].at \in Nat /\ DOMAIN Ids[plan] \subseteq Nat
    BY <1>1, PlanAssumption DEF ShardType
  <2> QED
    BY <1>2, <1>6, <2>1, <2>2
<1>12. t.pc \in Working /\ t.pc # "exit0"
  BY <1>5 DEF Working
<1>13. /\ UNCHANGED <<plan, run, runs, aux>> /\ claims' = claims
  BY DEF Record
<1> HIDE DEF o
<1>14. o = PartOf(p)
  BY DEF o
<1> QED
  BY <1>1, <1>2, <1>5, <1>6, <1>7, <1>8, <1>9, <1>10, <1>11, <1>12, <1>13, <1>14, ShardMoves

\* A shard that a waiting orchestrator spawned exits only when the queue is spent.
LEMMA FinishWait ==
  ASSUME KInv, IInv', strays = {}, run.pc = "wait", NEW p \in Procs, Finish(p)
  PROVE  WaitOK'
<1>1. /\ Live(p) /\ proc[p] \in ShardType /\ p \in Mine /\ plan \in Keys
      /\ proc[p].pc \notin {"boot", "name", "measure"}
  BY WaitLive DEF KInv, JInv, Finish, Spent, Orphan, Live, Working
<1>2. proc[p].cases = plan /\ p[1] = runs /\ OrchAlive(p)
  BY <1>1, Cases, WaitLive DEF KInv, JInv, OrchAlive
<1>3. proc[p].at \notin DOMAIN Ids[plan]
  BY <1>2 DEF Finish, Spent, Orphan
<1>4. \A i \in DOMAIN Ids[plan] : claims[i] # None
  <2>1. proc[p].at >= 1 /\ \A i \in DOMAIN Ids[plan] : i < proc[p].at => claims[i] # None
    BY <1>1 DEF KInv, WaitOK, PassedOK
  <2>2. DOMAIN Ids[plan] = 1..Len(Ids[plan]) /\ Len(Ids[plan]) \in Nat /\ proc[p].at \in Nat
    BY <1>1, PlanAssumption DEF ShardType
  <2> QED
    BY <1>3, <2>1, <2>2
<1>5. PICK d \in Stamp(proc[p]) : Flush(p, [proc[p] EXCEPT !.dirty = d])
  BY DEF Finish
<1> DEFINE t == [proc[p] EXCEPT !.dirty = d]
           o == PartOf(p)
<1>6. /\ t \in ShardType /\ t.gen = proc[p].gen /\ t.tree = proc[p].tree
      /\ t.skipped = proc[p].skipped
  BY <1>1 DEF Stamp, ShardType
<1>7. Flush(p, t)
  BY <1>5
<1> HIDE DEF t
<1>8. /\ o \in PartIds /\ \A q \in PartIds : q # o => parts'[q] = parts[q]
      /\ parts'[o] # None /\ parts'[o] # Torn /\ parts'[o].skipped = t.skipped
      /\ parts'[o].rows = t.rows
      /\ parts[o] # None /\ parts[o] # Torn => parts[o].skipped \subseteq parts'[o].skipped
  BY <1>1, <1>6, <1>7, FlushWait
<1>9. Measured \subseteq Measured'
  BY FinishJournal DEF KInv
<1>10. PICK code \in Exited : Become(p, Gone(code)) /\ (proc[p].bad => code = "exit1")
  BY <1>2 DEF Finish, Exit, Exited
<1>11. Gone(code) \in ShardType /\ Gone(code).pc = code /\ code \notin Working
  BY <1>10, GoneType DEF Gone, Shard, Exited, Working
<1>12. UNCHANGED <<plan, run, runs, aux>> /\ claims' = claims
  BY DEF Finish
<1> HIDE DEF o
<1>13. o = PartOf(p)
  BY DEF o
<1> QED
  BY <1>1, <1>4, <1>8, <1>9, <1>10, <1>11, <1>12, <1>13, ShardMoves

\* A run that starts to wait has its shards at the first claim, and what is claimed is measured.
LEMMA FanWait ==
  ASSUME KInv, IInv', Fan, strays = {}
  PROVE  WaitOK'
<1>1. /\ run'.pc = "wait" /\ run'.gen = run.gen /\ run'.jobs = run.jobs /\ run.gen \in 0..MaxRuns
      /\ run.pc \in {"fan", "release"}
  BY DEF Fan, KInv, JInv, IInv, TypeOK, RunType
<1>2. /\ UNCHANGED <<plan, parts, claims, runs, strays>> /\ Mine' = Mine /\ plan \in Keys
  BY <1>1 DEF Fan, disk, aux, Mine, KInv, JInv, IInv, RunOK
<1>3. \A p \in Procs : ~Live(p)
  BY NoneOwn, <1>1 DEF KInv, JInv, Own
<1>4. \A p \in Procs : proc'[p] = IF p \in Mine THEN Shard("boot", run.key, run.gen) ELSE proc[p]
  BY DEF Fan
<1>5. \A p \in Procs : Live(p)' => /\ p \in Mine /\ proc'[p].at = 1 /\ proc'[p].skipped = {}
                                   /\ proc'[p].gen = run.gen
  BY <1>3, <1>4 DEF Live, Shard
<1>6. SkippedOK'
  <2> SUFFICES ASSUME NEW p \in Procs, Live(p)' PROVE parts'[PartOf(p)'] = None /\ proc'[p].skipped = {}
    BY DEF SkippedOK
  <2>1. PartOf(p)' = <<run.gen, p[2]>> /\ <<run.gen, p[2]>> \in PartIds
    BY <1>1, <1>5 DEF PartOf, PartIds, Procs
  <2>2. parts[<<run.gen, p[2]>>] = None
    BY <1>1, <2>1 DEF KInv, JInv, IInv, RunOK, Strayed
  <2> QED
    BY <1>2, <1>5, <2>1, <2>2
<1>7. Mine \subseteq Procs
  <2>1. runs \in Runs /\ 1..run.jobs \subseteq 1..MaxJobs
    BY <1>1, BoundsAssumption DEF KInv, JInv, IInv, TypeOK, RunType, RunOK, Runs
  <2> QED
    BY <2>1 DEF Mine, Procs
<1>8. PassedOK'
  <2>1. DOMAIN Ids[plan] = 1..Len(Ids[plan])
    BY <1>2, PlanAssumption
  <2>2. \A p \in Mine : proc'[p].pc # "exit0" /\ proc'[p].at = 1
    BY <1>4, <1>7 DEF Shard
  <2> QED
    BY <1>2, <2>1, <2>2 DEF PassedOK
<1>9. TakenOK'
  <2>1. DOMAIN Ids[plan] \subseteq Idx
    BY <1>2, PlanFacts
  <2>2. \A i \in DOMAIN Ids[plan] : claims[i] # None => Ids[plan][i] \in Measured
    BY <1>1, <2>1 DEF Fan, ClaimDone, ClaimOf, KInv, WaitOK
  <2>3. Measured' = Measured
    BY <1>2 DEF Measured, Readable
  <2> QED
    BY <1>2, <2>2, <2>3 DEF TakenOK, Accounted
<1> QED
  BY <1>1, <1>2, <1>6, <1>8, <1>9 DEF WaitOK

\* A freshly planned queue is unclaimed.
LEMMA WritePlanWait ==
  ASSUME KInv, WritePlan
  PROVE  WaitOK'
<1>1. run.pc = "plan" /\ run'.pc = "fan" /\ UNCHANGED <<claims, strays>>
  BY DEF WritePlan, aux, KInv, JInv, IInv, TypeOK, RunType
<1>2. strays = {} => \A i \in Idx : claims[i] = None
  BY <1>1 DEF KInv, JInv, IInv, RunOK
<1> QED
  BY <1>1, <1>2 DEF WaitOK

\* The claims to free are all but those of measured rows, and what is freed is claimed no more.
LEMMA ReleaseWait ==
  ASSUME KInv, ListClaims \/ \E i \in Idx : ReleaseClaim(i)
  PROVE  WaitOK'
<1>1. /\ UNCHANGED <<plan, parts, strays>> /\ run'.pc = "release" /\ run \in RunType
      /\ \A i : ClaimDone(i)' <=> ClaimDone(i)
  BY DEF ListClaims, ReleaseClaim, disk, aux, KInv, JInv, IInv, TypeOK, RunType, ClaimDone, ClaimOf,
         Measured, Readable
<1>2. ASSUME ListClaims, strays = {}, NEW i \in Idx, claims'[i] # None
      PROVE  i \in run'.free \/ ClaimDone(i)
  <2>1. claims' = claims /\ run'.free = {j \in Idx : claims[j] # None /\ ~ClaimOf(j, run.done)}
    BY <1>1, <1>2 DEF ListClaims, disk, RunType
  <2>2. run.done = Measured
    BY <1>2 DEF ListClaims, KInv, JInv, IInv, RunOK
  <2> QED
    BY <1>2, <2>1, <2>2 DEF ClaimDone
<1>3. ASSUME NEW j \in Idx, ReleaseClaim(j), strays = {}, NEW i \in Idx, claims'[i] # None
      PROVE  i \in run'.free \/ ClaimDone(i)
  <2>1. i # j /\ claims'[i] = claims[i] /\ run'.free = run.free \ {j} /\ run.pc = "release"
    BY <1>1, <1>3 DEF ReleaseClaim, KInv, JInv, IInv, TypeOK, RunType
  <2> QED
    BY <1>3, <2>1 DEF KInv, WaitOK
<1> QED
  BY <1>1, <1>2, <1>3 DEF WaitOK

\* A step of a shard, or its death.
LEMMA ShardWait ==
  ASSUME KInv, IInv', NEW p \in Procs, ShardStep(p) \/ KillShard(p)
  PROVE  WaitOK'
<1>1. Live(p)
  BY DEF ShardStep, KillShard, Boot, ClaimGo, OpenClaim, NameClaim, Record, NoRow, Finish, Enoent,
         Spent, Orphan, Live, Working
<1>2. UNCHANGED <<run, runs, strays, remnant>>
  BY DEF ShardStep, KillShard, Boot, ClaimGo, OpenClaim, NameClaim, Record, NoRow, Finish, Enoent, aux
<1>3. CASE strays = {} /\ run.pc # "wait"
  <2>1. run.pc = "idle"
    BY <1>1, <1>3, NoneOwn DEF KInv, JInv, Own
  <2> QED
    BY <1>2, <2>1 DEF WaitOK
<1>4. CASE strays = {} /\ run.pc = "wait"
  <2>1. CASE Boot(p) \/ ClaimGo(p) \/ OpenClaim(p) \/ NameClaim(p) \/ NoRow(p)
    BY <1>4, <2>1, BootWait, ClaimGoWait, OpenClaimWait, NameClaimWait, NoRowWait
  <2>2. CASE Record(p) \/ Finish(p)
    BY <1>4, <2>2, RecordWait, FinishWait
  <2>3. CASE Enoent(p) \/ KillShard(p)
    BY <1>1, <1>4, <2>3, ExitWait DEF Enoent, KillShard
  <2> QED
    BY <2>1, <2>2, <2>3 DEF ShardStep
<1>5. CASE strays # {}
  BY <1>2, <1>5 DEF WaitOK
<1> QED
  BY <1>3, <1>4, <1>5

\* A stutter leaves every claim accounted for.
LEMMA StutterWait ==
  ASSUME KInv, UNCHANGED vars
  PROVE  WaitOK'
<1>1. UNCHANGED <<plan, claims, parts, run, runs, verdict, proc, strays>>
  BY DEF vars, disk, aux
<1>2. Measured' = Measured /\ Mine' = Mine /\ \A i : ClaimDone(i)' <=> ClaimDone(i)
  BY <1>1 DEF Measured, Readable, Mine, ClaimDone, ClaimOf
<1>3. SkippedOK' = SkippedOK
  BY <1>1 DEF SkippedOK, Live, PartOf, Readable
<1>4. PassedOK' = PassedOK
  BY <1>1, <1>2 DEF PassedOK, Live
<1>5. TakenOK => TakenOK'
  <2>1. \A q \in Mine, i \in DOMAIN Ids[plan] : AccountedBy(q, i) => AccountedBy(q, i)'
    BY <1>1 DEF AccountedBy, Live, Readable
  <2>2. \A i \in DOMAIN Ids[plan] : Accounted(i) => Accounted(i)'
    BY <1>1, <1>2, <2>1 DEF Accounted
  <2> QED
    BY <1>1, <2>2 DEF TakenOK
<1> QED
  BY <1>1, <1>2, <1>3, <1>4, <1>5 DEF KInv, WaitOK

LEMMA WaitStep ==
  ASSUME KInv, IInv', [Next]_vars
  PROVE  WaitOK'
<1>1. run \in RunType /\ Idle.pc = "idle"
  BY IdleType DEF KInv, JInv, IInv, TypeOK
<1>2. CASE \E p \in Procs : ShardStep(p) \/ KillShard(p)
  BY <1>2, ShardWait
<1>3. CASE Fan
  <2>1. strays' = strays
    BY <1>3 DEF Fan, aux
  <2> QED
    BY <1>3, <2>1, FanWait DEF WaitOK
<1>4. CASE WritePlan \/ ListClaims \/ \E i \in Idx : ReleaseClaim(i)
  BY <1>4, WritePlanWait, ReleaseWait
<1>5. CASE UNCHANGED vars
  BY <1>5, StutterWait
<1>6. CASE \/ KillRun \/ KillOrchestrator \/ Cleaned \/ WriteTier \/ Stitch \/ RemoveEntry \/ MakeClaims
           \/ ReadJournal \/ (\E q \in PartIds : DropTorn(q))
           \/ \E key \in Keys, resume \in BOOLEAN : \E jobs \in 1..MaxJobs : StartRun(key, resume, jobs)
  <2>1. run'.pc \notin {"fan", "release", "wait"}
    BY ZenonT(40), <1>1, <1>6 DEF KillRun, KillOrchestrator, Cleaned, WriteTier, Stitch, RemoveEntry, MakeClaims,
                      ReadJournal, DropTorn, StartRun, Idle, RunType
  <2> QED
    BY <2>1 DEF WaitOK
<1> QED
  BY <1>2, <1>3, <1>4, <1>5, <1>6 DEF Next, OrchStep, UserStep

\* A shard that records a row, or finishes, leaves its part file.
LEMMA FlushedPart ==
  ASSUME IInv, NEW p \in Procs, Record(p) \/ Finish(p)
  PROVE  /\ \A q \in PartIds : q # PartOf(p) => parts'[q] = parts[q]
         /\ parts'[PartOf(p)] # None
<1>1. Live(p) /\ proc[p] \in ShardType /\ proc[p].tree \in Keys
  <2>1. Live(p)
    BY DEF Record, Finish, Spent, Orphan, Live, Working
  <2> QED
    BY <2>1 DEF IInv, TypeOK, StraysOK
<1>2. PICK t \in ShardType : Flush(p, t) /\ t.gen = proc[p].gen /\ t.tree = proc[p].tree
  <2>1. CASE Record(p)
    <3>1. PICK d \in Stamp(proc[p]), skip \in BOOLEAN :
            LET s == Recorded(proc[p], RowOf(p), d, skip) IN Flush(p, s) /\ Become(p, s)
      BY <2>1 DEF Record
    <3>2. d \in BOOLEAN
      BY <1>1 DEF Stamp, ShardType
    <3>3. RowOf(p) \in Rows
      <4>1. proc[p].cases \in Keys /\ proc[p].at \in DOMAIN Ids[proc[p].cases]
        BY <1>1, <2>1 DEF Record, IInv, StraysOK
      <4> QED
        BY <4>1, PlanFacts DEF RowOf
    <3> QED
      BY <1>1, <3>1, <3>2, <3>3, RecordedFacts
  <2>2. CASE Finish(p)
    <3>1. PICK d \in Stamp(proc[p]) : Flush(p, [proc[p] EXCEPT !.dirty = d])
      BY <2>2 DEF Finish
    <3>2. [proc[p] EXCEPT !.dirty = d] \in ShardType
      BY <1>1 DEF Stamp, ShardType
    <3> QED
      BY <1>1, <3>1, <3>2 DEF ShardType
  <2> QED
    BY <2>1, <2>2
<1> DEFINE part == [rows |-> t.rows, skipped |-> t.skipped, tree |-> t.tree, dirty |-> t.dirty]
<1>3. part \in Part
  BY <1>1, <1>2 DEF Part, ShardType
<1>4. parts' = [parts EXCEPT ![PartOf(p)] = part]
  BY <1>2 DEF Flush, PartOf
<1> HIDE DEF part
<1>5. part # None
  BY <1>3, DistinctAssumption
<1>6. PartOf(p) \in PartIds
  BY <1>1 DEF PartOf, PartIds, Procs, ShardType
<1> QED
  BY <1>4, <1>5, <1>6 DEF IInv, TypeOK

\* While a run waits no part file goes away, and a shard of it exits well only with one.
LEMMA EndedShard ==
  ASSUME KInv, NEW p \in Procs, ShardStep(p) \/ KillShard(p)
  PROVE  EndedOK'
<1>1. UNCHANGED <<run, runs>> /\ Mine' = Mine
  BY DEF ShardStep, KillShard, Boot, ClaimGo, OpenClaim, NameClaim, Record, NoRow, Finish, Enoent, Mine
<1>2. \A q \in PartIds : parts'[q] = parts[q] \/ (q = PartOf(p) /\ parts'[q] # None)
  <2>1. CASE Record(p) \/ Finish(p)
    BY <2>1, FlushedPart DEF KInv, JInv
  <2>2. CASE ~(Record(p) \/ Finish(p))
    BY <2>2 DEF ShardStep, KillShard, Boot, ClaimGo, OpenClaim, NameClaim, NoRow, Enoent, disk
  <2> QED
    BY <2>1, <2>2
<1>3. \A q \in Procs : q # p => proc'[q] = proc[q]
  BY DEF ShardStep, KillShard, Boot, ClaimGo, OpenClaim, NameClaim, Record, NoRow, Finish, Enoent,
         Become, Exit, KInv, JInv, IInv, TypeOK
<1> SUFFICES ASSUME run.pc = "wait", NEW q \in Mine, proc'[q].pc = "exit0"
             PROVE  parts'[<<run.gen, q[2]>>] # None
  BY <1>1 DEF EndedOK
<1>4. q \in Procs /\ <<run.gen, q[2]>> \in PartIds
  BY MineProcs DEF KInv, JInv, IInv, TypeOK, RunType, PartIds, Procs
<1>5. CASE proc[q].pc = "exit0"
  BY <1>2, <1>4, <1>5 DEF KInv, EndedOK
<1>6. CASE proc[q].pc # "exit0"
  <2>1. q = p /\ proc'[p].pc = "exit0"
    BY <1>3, <1>4, <1>6
  <2>2. Finish(p)
    <3>1. proc \in [Procs -> ShardType]
      BY DEF KInv, JInv, IInv, TypeOK
    <3>2. ~(Exit(p, "exit1"))
      BY <2>1, <3>1 DEF Exit, Become, Gone, Shard
    <3>3. ~(Boot(p) \/ Enoent(p) \/ KillShard(p))
      BY <2>1, <3>1, <3>2 DEF Boot, Enoent, KillShard, Become, ShardType
    <3>4. ~(ClaimGo(p) \/ NameClaim(p) \/ NoRow(p))
      BY ZenonT(40), <2>1, <3>1 DEF ClaimGo, NameClaim, NoRow, Become, ShardType
    <3>5. ~OpenClaim(p)
      <4> SUFFICES ASSUME OpenClaim(p) PROVE proc'[p].pc \in {"name", "open"}
        BY <2>1
      <4>1. CASE Become(p, [proc[p] EXCEPT !.pc = "name"])
        BY <4>1, <3>1 DEF Become, ShardType
      <4>2. CASE Become(p, [proc[p] EXCEPT !.at = @ + 1])
        BY <4>2, <3>1 DEF OpenClaim, Become, ShardType
      <4> QED
        BY <4>1, <4>2 DEF OpenClaim
    <3>6. ~Record(p)
      BY <2>1, <3>1 DEF Record, Recorded, Become, ShardType
    <3> QED
      BY <3>3, <3>4, <3>5, <3>6 DEF ShardStep
  <2>3. Live(p) /\ p[1] = runs /\ p \notin strays
    BY <2>1, <2>2 DEF Finish, Spent, Orphan, Live, Working, Mine, KInv, JInv, IInv, TypeOK, StraysOK
  <2>4. PartOf(p) = <<run.gen, p[2]>>
    BY <2>3 DEF KInv, JInv, IInv, RunOK, Own, PartOf
  <2> QED
    BY <2>1, <2>2, <2>4, FlushedPart DEF KInv, JInv
<1> QED
  BY <1>5, <1>6

LEMMA EndedStep ==
  ASSUME KInv, [Next]_vars
  PROVE  EndedOK'
<1>1. run \in RunType /\ Idle.pc = "idle"
  BY IdleType DEF KInv, JInv, IInv, TypeOK
<1>2. CASE \E p \in Procs : ShardStep(p) \/ KillShard(p)
  BY <1>2, EndedShard
<1>3. CASE Fan
  <2>1. /\ run'.jobs = run.jobs /\ runs' = runs /\ run.jobs \in 1..MaxJobs
        /\ \A p \in Procs : p \in Mine => proc'[p] = Shard("boot", run.key, run.gen)
    BY <1>1, <1>3 DEF Fan, RunType
  <2>2. runs \in Runs /\ 1..run.jobs \subseteq 1..MaxJobs
    BY <1>1, <2>1, <1>3, BoundsAssumption DEF Fan, KInv, JInv, IInv, TypeOK, RunType, RunOK, Runs
  <2>3. Mine' = Mine /\ Mine \subseteq Procs
    BY <2>1, <2>2 DEF Mine, Procs
  <2>4. \A p \in Mine : proc'[p].pc # "exit0"
    BY <2>1, <2>3 DEF Shard
  <2> QED
    BY <2>3, <2>4 DEF EndedOK
<1>4. CASE UNCHANGED vars
  BY <1>4 DEF vars, disk, KInv, EndedOK, Mine
<1>5. CASE \/ KillRun \/ KillOrchestrator \/ Cleaned \/ WriteTier \/ Stitch \/ RemoveEntry \/ MakeClaims
           \/ WritePlan \/ ReadJournal \/ (\E q \in PartIds : DropTorn(q))
           \/ ListClaims \/ (\E i \in Idx : ReleaseClaim(i))
           \/ \E key \in Keys, resume \in BOOLEAN : \E jobs \in 1..MaxJobs : StartRun(key, resume, jobs)
  <2>1. run'.pc # "wait"
    BY ZenonT(40), <1>1, <1>5 DEF KillRun, KillOrchestrator, Cleaned, WriteTier, Stitch, RemoveEntry, MakeClaims,
                      WritePlan, ReadJournal, DropTorn, ListClaims, ReleaseClaim, StartRun, Idle, RunType
  <2> QED
    BY <2>1 DEF EndedOK
<1> QED
  BY <1>2, <1>3, <1>4, <1>5 DEF Next, OrchStep, UserStep

LEMMA VerdictStep ==
  ASSUME KInv, [Next]_vars
  PROVE  VerdictOK'
<1>1. run \in RunType /\ Idle.pc = "idle"
  BY IdleType DEF KInv, JInv, IInv, TypeOK
<1>2. CASE UNCHANGED vars \/ \E p \in Procs : ShardStep(p) \/ KillShard(p)
  BY <1>2 DEF vars, ShardStep, KillShard, Boot, ClaimGo, OpenClaim, NameClaim, Record, NoRow, Finish,
              Enoent, KInv, VerdictOK
<1>3. CASE \/ RemoveEntry \/ MakeClaims \/ WritePlan \/ ReadJournal \/ (\E q \in PartIds : DropTorn(q))
           \/ ListClaims \/ (\E i \in Idx : ReleaseClaim(i)) \/ Fan
  <2>1. /\ verdict' = verdict
        /\ run'.pc # "clean" =>
             run.pc \in {"discard", "plan", "journal", "drop", "release", "fan", "wait"}
    BY <1>1, <1>3 DEF RemoveEntry, MakeClaims, WritePlan, ReadJournal, DropTorn, ListClaims, ReleaseClaim,
                      Fan, RunType
  <2> QED
    BY <2>1 DEF KInv, VerdictOK
<1>4. CASE KillRun \/ KillOrchestrator \/ Cleaned \/ WriteTier \/ Stitch
  <2>1. run'.pc \in {"idle", "clean", "write"}
    BY <1>1, <1>4 DEF KillRun, KillOrchestrator, Cleaned, WriteTier, Stitch, Idle, RunType
  <2> QED
    BY <2>1 DEF VerdictOK
<1>5. CASE \E key \in Keys, resume \in BOOLEAN : \E jobs \in 1..MaxJobs : StartRun(key, resume, jobs)
  BY <1>5 DEF StartRun, VerdictOK
<1> QED
  BY <1>2, <1>3, <1>4, <1>5 DEF Next, OrchStep, UserStep

LEMMA WellEndedStep == ASSUME KInv, [Next]_vars PROVE KInv'
<1>1. JInv' /\ IInv'
  BY JournalStep DEF KInv, JInv
<1> QED
  BY <1>1, WaitStep, EndedStep, VerdictStep DEF KInv

\* Only stitching gives a verdict "ok".
LEMMA OkAtStitch ==
  ASSUME KInv, [Next]_vars, run.pc = "wait", verdict' = "ok"
  PROVE  Stitch
<1>1. verdict = "none"
  BY DEF KInv, VerdictOK
<1> QED
  BY <1>1 DEF Next, UserStep, OrchStep, ShardStep, vars, StartRun, KillShard, KillRun, KillOrchestrator,
     RemoveEntry, MakeClaims, WritePlan, ReadJournal, DropTorn, ListClaims, ReleaseClaim, Fan, WriteTier,
     Cleaned, Boot, ClaimGo, OpenClaim, NameClaim, Record, NoRow, Finish, Enoent

\* A run ends well only with each planned row measured, or skipped by its own generation, or by
\* some generation when an orphan goes on beside a run.
THEOREM WellEnded == Spec => OkIsComplete
<1> DEFINE Complete == run.pc = "wait" /\ verdict' = "ok" =>
             \A r \in Planned(plan) :
               \/ r \in Measured
               \/ \E q \in PartIds : /\ Readable(q) /\ r \in parts[q].skipped
                                     /\ q[1] = run.gen \/ strays # {}
<1>1. Init => KInv
  <2>1. ASSUME Init PROVE run.pc = "idle"
    BY <2>1 DEF Init, Idle
  <2> QED
    BY <2>1, InitJournal DEF KInv, WaitOK, EndedOK, VerdictOK
<1>2. KInv /\ [Next]_vars => KInv'
  BY WellEndedStep
<1>3. ASSUME KInv, [Next]_vars PROVE Complete
  <2> SUFFICES ASSUME run.pc = "wait", verdict' = "ok", NEW r \in Planned(plan), r \notin Measured
               PROVE  \E q \in PartIds : /\ Readable(q) /\ r \in parts[q].skipped
                                         /\ q[1] = run.gen \/ strays # {}
    OBVIOUS
  <2>1. Stitch
    BY <1>3, OkAtStitch
  <2>2. (\A p \in Mine : proc[p].pc = "exit0") /\ (Unaccounted = {} \/ NoParts)
    <3>1. Codes = {"exit0"} /\ (Unaccounted = {} \/ NoParts)
      BY <2>1 DEF Stitch, Verdict
    <3> QED
      BY <3>1 DEF Codes
  <2>3. Mine \subseteq Procs /\ <<runs, 1>> \in Mine
    BY <1>3, MineProcs DEF KInv, JInv
  <2>4. \A q \in Mine : <<run.gen, q[2]>> \in PartIds
    BY <1>3, <2>3 DEF KInv, JInv, IInv, TypeOK, RunType, PartIds, Procs
  <2>5. CASE strays = {}
    <3>1. \A i \in DOMAIN Ids[plan] : Accounted(i)
      BY <1>3, <2>2, <2>3, <2>5 DEF KInv, WaitOK, PassedOK, TakenOK
    <3>2. PICK i \in DOMAIN Ids[plan] : r = Ids[plan][i]
      BY DEF Planned
    <3>3. PICK q \in Mine : AccountedBy(q, i)
      BY <3>1, <3>2 DEF Accounted
    <3>4. Readable(<<run.gen, q[2]>>) /\ r \in parts[<<run.gen, q[2]>>].skipped
      BY <2>2, <3>2, <3>3 DEF AccountedBy, Live, Working
    <3> QED
      BY <2>4, <3>4
  <2>6. CASE strays # {}
    <3>1. ~NoParts
      BY <1>3, <2>2, <2>3, <2>4 DEF NoParts, KInv, EndedOK
    <3>2. r \in Skipped
      BY <2>2, <3>1 DEF Unaccounted
    <3> QED
      BY <2>6, <3>2 DEF Skipped
  <2> QED
    BY <2>5, <2>6
<1>4. KInv /\ [Next]_vars => [Complete]_vars
  BY <1>3
<1> QED
  BY <1>1, <1>2, <1>4, PTL DEF Spec, OkIsComplete

=============================================================================
