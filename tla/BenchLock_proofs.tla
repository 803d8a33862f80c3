--------------------------- MODULE BenchLock_proofs ---------------------------
(***************************************************************************)
(* Proofs about BenchLock, for any pids, jobs, memory and number of starts.*)
(***************************************************************************)
EXTENDS BenchLock, Totals_proofs

\* A record that was not written under a removal is the one its job wrote, and nobody will remove it.
RecordOK ==
  \A p \in Pids : pc[p] = "run" /\ job[p].lock /\ ~raced[p] =>
    file[p] = job[p] /\ \A q \in Pids : p \notin dead[q]

\* Who looks may be refused; what it saw is still registered, and collides with it only if raced.
Started(p) == pc[p] \notin {"idle", "other"}
LookOK ==
  \A p \in Pids :
    /\ pc[p] = "look" => job[p].kind # "job"
    /\ saw[p] \subseteq Registered
    /\ Started(p) => \A q \in saw[p] : Collide(job[q], job[p]) => raced[q]

\* What the register needs of TypeOK.
Types ==
  /\ pc \in [Pids -> {"idle", "look", "read", "admit", "scan", "clear", "fill", "run", "other"}]
  /\ job \in [Pids -> Jobs \cup {None}] /\ \A p \in Pids : Started(p) => job[p] \in Jobs
  /\ file \in [Pids -> Jobs \cup {None, Torn}]
  /\ dead \in [Pids -> SUBSET Pids]
  /\ saw \in [Pids -> SUBSET Pids] /\ raced \in [Pids -> BOOLEAN]

IInv == Types /\ RecordOK /\ LookOK

-----------------------------------------------------------------------------
(* What most steps leave alone.                                            *)

\* p goes on with what it has seen and done; the register is the same but for p's list of dead ones.
LEMMA GoesOnKeeps ==
  ASSUME IInv, NEW p \in Pids, NEW to \in {"read", "admit", "scan", "clear", "fill", "run"},
         Goes(p, to), Started(p), UNCHANGED <<job, file, saw, raced>>,
         pc[p] # "run",
         to = "run" => ~job[p].lock,
         NEW d \in SUBSET Pids, dead' = [dead EXCEPT ![p] = d],
         \A q \in d : q \in Stale \/ q \in dead[p]
  PROVE  IInv'
<1>1. \A q \in Pids : /\ q # p => pc'[q] = pc[q] /\ dead'[q] = dead[q]
                      /\ q = p => pc'[q] = to /\ dead'[q] = d
  BY DEF IInv, Types, Goes
<1>2. Types'
  BY DEF IInv, Types, Goes, Started
<1>3. \A q \in Pids : pc[q] = "run" /\ job[q].lock /\ ~raced[q] => q \notin Stale
  <2>1. None \notin Jobs /\ Torn \notin Jobs
    BY LockAssumption
  <2> QED BY <2>1 DEF IInv, Types, Started, RecordOK, Stale, Live, Alive
<1>4. RecordOK'
  BY <1>1, <1>3 DEF IInv, RecordOK
<1>5. Registered' = Registered
  BY <1>1 DEF Registered
<1>6. LookOK'
  BY <1>1, <1>5 DEF IInv, LookOK, Started, Collide
<1> QED BY <1>2, <1>4, <1>6 DEF IInv

\* p's process is gone, with or without its record.
LEMMA EndsKeeps ==
  ASSUME IInv, NEW p \in Pids, NEW f, Ends(p, f),
         f = file \/ f = [file EXCEPT ![p] = None]
  PROVE  IInv'
<1>1. \A q \in Pids : /\ q # p => pc'[q] = pc[q] /\ job'[q] = job[q] /\ dead'[q] = dead[q] /\ file'[q] = file[q]
                      /\ q = p => pc'[q] = "idle" /\ dead'[q] = {}
                      /\ saw'[q] = saw[q] \ {p}
  BY DEF IInv, Types, Goes, Ends
<1>2. UNCHANGED raced
  BY DEF Ends
<1>3. Types'
  <2>1. saw' \in [Pids -> SUBSET Pids]
    BY DEF IInv, Types, Ends
  <2>2. file' \in [Pids -> Jobs \cup {None, Torn}]
    BY DEF IInv, Types, Ends
  <2> QED BY <2>1, <2>2 DEF IInv, Types, Goes, Ends, Started
<1>4. RecordOK'
  BY <1>1, <1>2 DEF IInv, RecordOK
<1>5. Registered' = Registered \ {p}
  BY <1>1 DEF Registered
<1>6. \A q \in Pids : Started(q)' => q # p /\ Started(q)
  BY <1>1 DEF Started
<1>7. LookOK'
  <2>1. \A q \in Pids : \A r \in saw'[q] : r \in saw[q] /\ r \in Pids /\ r # p /\ job'[r] = job[r]
    BY <1>1 DEF IInv, Types
  <2> QED BY <1>1, <1>2, <1>5, <1>6, <2>1 DEF IInv, LookOK, Collide
<1> QED BY <1>3, <1>4, <1>7 DEF IInv

\* The register loses records p found dead, or gains p's own, before p runs.
LEMMA WriteKeeps ==
  ASSUME IInv, NEW p \in Pids, NEW q \in Pids, NEW f \in Jobs \cup {None, Torn},
         file' = [file EXCEPT ![q] = f], q = p \/ q \in dead[p], pc[p] \in {"clear", "fill"},
         NEW to \in {"clear", "fill"}, Goes(p, to),
         NEW d \in SUBSET Pids, d \subseteq dead[p], dead' = [dead EXCEPT ![p] = d],
         UNCHANGED <<job, saw, raced>>
  PROVE  IInv'
<1>1. \A r \in Pids : /\ r # p => pc'[r] = pc[r] /\ dead'[r] = dead[r]
                      /\ r = p => pc'[r] = to /\ dead'[r] \subseteq dead[r]
                      /\ r # q => file'[r] = file[r]
  BY DEF IInv, Types, Goes
<1>2. Types'
  BY DEF IInv, Types, Goes, Started
<1>3. RecordOK'
  BY <1>1 DEF IInv, RecordOK
<1>4. Registered' = Registered
  BY <1>1 DEF Registered
<1>5. LookOK'
  BY <1>1, <1>4 DEF IInv, LookOK, Started, Collide
<1> QED BY <1>2, <1>3, <1>5 DEF IInv

-----------------------------------------------------------------------------
(* The steps that look, start, fill and move memory.                       *)

LEMMA InitOK == Init => IInv
BY DEF Init, IInv, Types, RecordOK, LookOK, Started

LEMMA StartOK ==
  ASSUME IInv, NEW p \in Pids, NEW j \in Jobs, Start(p, j)
  PROVE  IInv'
<1> DEFINE to == IF j.kind = "edit" \/ (j.lock /\ j.kind # "job") THEN "look" ELSE "read"
<1>1. to \in {"look", "read"} /\ (to = "look" => j.kind # "job")
  OBVIOUS
<1> HIDE DEF to
<1>2. pc[p] = "idle" /\ pc' = [pc EXCEPT ![p] = to] /\ job' = [job EXCEPT ![p] = j]
      /\ saw' = [saw EXCEPT ![p] = {}] /\ raced' = [raced EXCEPT ![p] = FALSE] /\ UNCHANGED <<file, dead>>
  BY DEF Start, Goes, registry, to
<1>3. \A q \in Pids : /\ q # p => pc'[q] = pc[q] /\ job'[q] = job[q] /\ saw'[q] = saw[q] /\ raced'[q] = raced[q]
                      /\ q = p => pc'[q] = to /\ job'[q] = j /\ saw'[q] = {}
  BY <1>2 DEF IInv, Types
<1>4. Types'
  BY <1>1, <1>2 DEF IInv, Types, Started
<1>5. RecordOK'
  BY <1>1, <1>2, <1>3 DEF IInv, RecordOK
<1>6. Registered' = Registered /\ p \notin Registered
  BY <1>1, <1>2, <1>3 DEF Registered
<1>7. LookOK'
  <2>1. \A q \in Pids : q # p => \A r \in saw[q] : r \in Pids /\ r # p
    BY <1>6 DEF IInv, LookOK, Registered
  <2> QED BY <1>1, <1>3, <1>6, <2>1 DEF IInv, LookOK, Started, Collide
<1> QED BY <1>4, <1>5, <1>7 DEF IInv

\* Who is not refused collides with nobody whose record stands.
LEMMA NotRefused ==
  ASSUME IInv, NEW p \in Pids, pc[p] = "look", ~Refused(job[p]),
         NEW q \in Registered, Collide(job[q], job[p])
  PROVE  raced[q]
<1> SUFFICES ASSUME ~raced[q] PROVE FALSE
  BY DEF IInv, Types, Registered
<1>1. q \in Pids /\ pc[q] = "run" /\ job[q].lock /\ file[q] = job[q] /\ job[q] \in Jobs /\ job[p] \in Jobs
  BY DEF IInv, Types, RecordOK, Registered, Started
<1>2. q \in Live
  BY <1>1, LockAssumption DEF Live, Alive
<1>3. job[p].kind \in {"run", "sweep", "edit"} /\ (job[p].kind = "edit" => ~job[p].whole)
  BY <1>1, LockAssumption DEF IInv, LookOK
<1>4. CASE job[p].kind = "run"
  <2>1. ~concurrentRunRefusal(job[p])
    BY <1>4 DEF Refused
  <2> QED BY <1>1, <1>2, <1>4, <2>1 DEF concurrentRunRefusal, measures, Collide
<1>5. CASE job[p].kind = "sweep"
  <2>1. ~concurrentSweepRefusal
    BY <1>5 DEF Refused
  <2> QED BY <1>1, <1>2, <1>5, <2>1 DEF concurrentSweepRefusal, Collide
<1>6. CASE job[p].kind = "edit"
  <2>1. ~benchInFlightRefusal(job[p])
    BY <1>6 DEF Refused
  <2> QED BY <1>1, <1>2, <1>3, <1>6, <2>1 DEF benchInFlightRefusal, measures, Collide
<1> QED BY <1>3, <1>4, <1>5, <1>6

LEMMA LookKeeps ==
  ASSUME IInv, NEW p \in Pids, Look(p)
  PROVE  IInv'
<1>1. CASE Refused(job[p])
  BY <1>1, EndsKeeps DEF Look
<1>2. CASE ~Refused(job[p])
  <2> DEFINE to == IF job[p].kind = "edit" THEN "run" ELSE "read"
  <2>1. /\ pc[p] = "look" /\ pc' = [pc EXCEPT ![p] = to] /\ saw' = [saw EXCEPT ![p] = Registered]
        /\ UNCHANGED <<job, file, dead, raced>> /\ job[p] \in Jobs
    BY <1>2 DEF Look, Goes, registry, IInv, Types, Started
  <2>2. to \in {"run", "read"} /\ (to = "run" => ~job[p].lock)
    BY <2>1, LockAssumption
  <2> HIDE DEF to
  <2>3. \A q \in Pids : /\ q # p => pc'[q] = pc[q] /\ saw'[q] = saw[q]
                        /\ q = p => pc'[q] = to /\ saw'[q] = Registered
    BY <2>1 DEF IInv, Types
  <2>4. Types'
    <3>1. Registered \in SUBSET Pids
      BY DEF Registered
    <3> QED BY <2>1, <2>2, <3>1 DEF IInv, Types, Started
  <2>5. RecordOK'
    BY <2>1, <2>2, <2>3 DEF IInv, RecordOK
  <2>6. Registered' = Registered
    BY <2>1, <2>2, <2>3 DEF Registered
  <2>7. LookOK'
    <3>1. \A q \in Registered : Collide(job[q], job[p]) => raced[q]
      BY <1>2, <2>1, NotRefused
    <3> QED BY <2>1, <2>2, <2>3, <2>6, <3>1 DEF IInv, LookOK, Started, Collide
  <2> QED BY <2>4, <2>5, <2>7 DEF IInv
<1> QED BY <1>1, <1>2

LEMMA FillOK ==
  ASSUME IInv, NEW p \in Pids, Fill(p)
  PROVE  IInv'
<1> DEFINE late == file[p] # Torn \/ \E q \in Pids : p \in dead[q]
           f == IF file[p] = Torn THEN job[p] ELSE file[p]
<1>1. /\ pc[p] = "fill" /\ pc' = [pc EXCEPT ![p] = "run"] /\ file' = [file EXCEPT ![p] = f]
      /\ raced' = [raced EXCEPT ![p] = late] /\ UNCHANGED <<job, dead, saw>>
  BY DEF Fill, Goes, IInv, Types
<1>2. late \in BOOLEAN /\ f \in Jobs \cup {None, Torn} /\ (~late => f = job[p] /\ \A q \in Pids : p \notin dead[q])
  BY <1>1 DEF IInv, Types, Started
<1> HIDE DEF late, f
<1>3. \A q \in Pids : /\ q # p => pc'[q] = pc[q] /\ file'[q] = file[q] /\ raced'[q] = raced[q]
                      /\ q = p => pc'[q] = "run" /\ file'[q] = f
  BY <1>1, <1>2 DEF IInv, Types
<1>4. raced'[p] = late /\ raced' \in [Pids -> BOOLEAN]
  BY <1>1, <1>2 DEF IInv, Types
<1>5. Types'
  BY <1>1, <1>2, <1>4 DEF IInv, Types, Started
<1>6. RecordOK'
  BY <1>1, <1>2, <1>3, <1>4 DEF IInv, RecordOK
<1>7. p \notin Registered /\ Registered \subseteq Registered'
  BY <1>1, <1>3 DEF Registered
<1>8. LookOK'
  <2>1. \A q \in Pids : \A r \in saw[q] : r \in Pids /\ r # p
    BY <1>7 DEF IInv, LookOK, Registered
  <2> QED BY <1>1, <1>3, <1>7, <2>1 DEF IInv, LookOK, Started, Collide
<1> QED BY <1>5, <1>6, <1>8 DEF IInv

\* Memory, counters and history nobody looks at.
LEMMA CalmOK ==
  ASSUME IInv, UNCHANGED <<pc, job, file, dead, saw, raced>>
  PROVE  IInv'
<1>1. Types' /\ RecordOK'
  BY DEF IInv, Types, RecordOK, Started
<1>2. LookOK'
  BY DEF IInv, LookOK, Started, Registered, Collide
<1> QED BY <1>1, <1>2 DEF IInv

\* The pid goes to a process that is no job.
LEMMA RecycledOK ==
  ASSUME IInv, NEW p \in Pids, Recycled(p)
  PROVE  IInv'
<1>1. pc[p] = "idle" /\ pc' = [pc EXCEPT ![p] = "other"] /\ UNCHANGED <<job, file, dead, saw, raced>>
  BY DEF Recycled, Goes, registry, history
<1>2. \A q \in Pids : (q # p => pc'[q] = pc[q]) /\ (q = p => pc'[q] = "other")
  BY <1>1 DEF IInv, Types
<1>3. Types' /\ RecordOK'
  BY <1>1, <1>2 DEF IInv, Types, RecordOK, Started
<1>4. Registered' = Registered
  BY <1>1, <1>2 DEF Registered
<1>5. LookOK'
  BY <1>1, <1>2, <1>4 DEF IInv, LookOK, Started, Collide
<1> QED BY <1>3, <1>5 DEF IInv

LEMMA StepOK ==
  ASSUME IInv, NEW p \in Pids, Step(p)
  PROVE  IInv'
<1>1. CASE \E j \in Jobs : Start(p, j)
  BY <1>1, StartOK
<1>2. CASE Look(p)
  BY <1>2, LookKeeps
<1>3. CASE Read(p) \/ Admit(p) \/ Scan(p)
  <2>1. CASE Admit(p) /\ Ends(p, file)
    BY <2>1, EndsKeeps
  <2>2. CASE Read(p) \/ (Admit(p) /\ ~Ends(p, file))
    <3>1. PICK to \in {"admit", "scan", "run"} : Goes(p, to) /\ (to = "run" => ~job[p].lock)
      BY <2>2 DEF Read, Admit
    <3>2. pc[p] \in {"read", "admit"} /\ UNCHANGED <<job, file, dead, saw, raced>>
      BY <2>2 DEF Read, Admit, registry, history
    <3>3. dead' = [dead EXCEPT ![p] = dead[p]] /\ dead[p] \in SUBSET Pids
      BY <3>2 DEF IInv, Types
    <3> QED BY <3>1, <3>2, <3>3, GoesOnKeeps DEF Started
  <2>3. CASE Scan(p)
    <3>1. Stale \in SUBSET Pids
      BY DEF Stale
    <3> QED BY <2>3, <3>1, GoesOnKeeps DEF Scan, Started, history
  <2> QED BY <1>3, <2>1, <2>2, <2>3
<1>4. CASE Clear(p)
  <2>1. PICK q \in dead[p] : file' = [file EXCEPT ![q] = None] /\ dead' = [dead EXCEPT ![p] = dead[p] \ {q}]
    BY <1>4 DEF Clear, IInv, Types
  <2>2. q \in Pids /\ dead[p] \ {q} \in SUBSET Pids /\ pc[p] = "clear" /\ pc' = [pc EXCEPT ![p] = "clear"]
        /\ UNCHANGED <<job, saw, raced>>
    BY <1>4 DEF Clear, IInv, Types, history
  <2> QED BY <2>1, <2>2, WriteKeeps DEF Goes
<1>5. CASE Open(p)
  <2>1. file' = [file EXCEPT ![p] = Torn] /\ pc[p] = "clear" /\ Goes(p, "fill") /\ UNCHANGED <<job, dead, saw, raced>>
    BY <1>5 DEF Open, history
  <2>2. dead' = [dead EXCEPT ![p] = dead[p]] /\ dead[p] \in SUBSET Pids
    BY <2>1 DEF IInv, Types
  <2> QED BY <2>1, <2>2, WriteKeeps
<1>6. CASE Fill(p)
  BY <1>6, FillOK
<1>7. CASE Take(p)
  BY <1>7, CalmOK DEF Take, registry
<1>8. CASE Exit(p) \/ Kill(p) \/ OtherEnds(p)
  BY <1>8, EndsKeeps DEF Exit, Kill, OtherEnds
<1>9. CASE Recycled(p)
  BY <1>9, RecycledOK
<1> QED BY <1>1, <1>2, <1>3, <1>4, <1>5, <1>6, <1>7, <1>8, <1>9 DEF Step

-----------------------------------------------------------------------------
(* Of the specification.                                                   *)

\* IInv holds of every state: records stand until their job ends, and looks are not outdated.
THEOREM Invariance == Spec => []IInv
<1>1. IInv /\ [Next]_vars => IInv'
  <2>1. CASE Next
    BY <2>1, StepOK DEF Next
  <2>2. CASE UNCHANGED vars
    BY <2>2, CalmOK DEF vars, registry, history
  <2> QED BY <2>1, <2>2
<1> QED BY <1>1, InitOK, PTL DEF Spec

\* A job that is running keeps its record.
THEOREM RecordsAreKept == Spec => []RecordKept
<1>1. IInv => RecordKept
  BY DEF IInv, RecordOK, RecordKept, Registered
<1> QED BY <1>1, Invariance, PTL

\* Two jobs that may not be at work together are not, when the second looked after the first registered.
THEOREM JobsAreKeptApart == Spec => []KeptApart
<1>1. IInv => KeptApart
  BY DEF IInv, LookOK, KeptApart, Started
<1> QED BY <1>1, Invariance, PTL

-----------------------------------------------------------------------------
(* Types, those of the memory among them.                                  *)

LEMMA HoldingInt ==
  ASSUME NEW h \in [Pids -> Nat]
  PROVE  Total(h, Pids) \in Nat
BY TotalType, LockAssumption

LEMMA UnspentInt == TypeOK => unspentBudgets \in Nat
<1> SUFFICES ASSUME TypeOK PROVE unspentBudgets \in Nat
  OBVIOUS
<1> DEFINE left == [p \in Live |-> Left(p)]
<1>1. IsFiniteSet(Live)
  BY LockAssumption, FS_Subset DEF Live
<1>2. \A p \in Live : left[p] \in Int
  BY LockAssumption DEF TypeOK, Live, Left
<1> HIDE DEF left
<1>3. Total(left, Live) \in Nat
  BY <1>1, <1>2, TotalType
<1> QED BY <1>3 DEF unspentBudgets, left

LEMMA EndsType ==
  ASSUME TypeOK, NEW p \in Pids, NEW f, Ends(p, f), f = file \/ f = [file EXCEPT ![p] = None]
  PROVE  TypeOK'
<1>1. pc' \in [Pids -> {"idle", "look", "read", "admit", "scan", "clear", "fill", "run", "other"}]
  BY DEF TypeOK, Ends, Goes
<1>2. /\ job' \in [Pids -> Jobs \cup {None}]
      /\ \A q \in Pids : job'[q] = None <=> pc'[q] \in {"idle", "other"}
  BY DEF TypeOK, Ends, Goes
<1>3. file' \in [Pids -> Jobs \cup {None, Torn}]
  BY DEF TypeOK, Ends
<1>4. dead' \in [Pids -> SUBSET Pids] /\ \A q \in Pids : dead'[q] # {} => pc'[q] = "clear"
  BY DEF TypeOK, Ends, Goes
<1>5. avail' \in [Pids -> Int] /\ hold' \in [Pids -> Nat] /\ starts' \in 0..MaxStarts
  BY DEF TypeOK, Ends
<1>6. saw' \in [Pids -> SUBSET Pids] /\ counted' \in [Pids -> SUBSET Pids]
  BY DEF TypeOK, Ends
<1>7. moved' \in [Pids -> BOOLEAN] /\ raced' \in [Pids -> BOOLEAN]
  BY DEF TypeOK, Ends
<1> QED BY <1>1, <1>2, <1>3, <1>4, <1>5, <1>6, <1>7 DEF TypeOK

\* A step of a job that neither starts nor ends it.
LEMMA MovesType ==
  ASSUME TypeOK, NEW p \in Pids, pc[p] \notin {"idle", "other"},
         NEW to \in {"look", "read", "admit", "scan", "clear", "fill", "run"}, Goes(p, to), UNCHANGED <<job, starts>>,
         file' \in [Pids -> Jobs \cup {None, Torn}],
         NEW d \in SUBSET Pids, dead' = [dead EXCEPT ![p] = d], d # {} => to = "clear",
         avail' \in [Pids -> Int], hold' \in [Pids -> Nat],
         saw' \in [Pids -> SUBSET Pids], counted' \in [Pids -> SUBSET Pids],
         moved' \in [Pids -> BOOLEAN], raced' \in [Pids -> BOOLEAN]
  PROVE  TypeOK'
BY DEF TypeOK, Goes

LEMMA TypeStep ==
  ASSUME TypeOK, NEW p \in Pids, Step(p)
  PROVE  TypeOK'
<1>0. Registered \in SUBSET Pids /\ Stale \in SUBSET Pids
  BY DEF Registered, Stale
<1>d. dead = [dead EXCEPT ![p] = dead[p]] /\ dead[p] \in SUBSET Pids
      /\ (pc[p] # "clear" => dead[p] = {})
  BY DEF TypeOK
<1>1. CASE \E j \in Jobs : Start(p, j)
  <2>1. PICK j \in Jobs : Start(p, j)
    BY <1>1
  <2>2. PICK to \in {"look", "read"} : Goes(p, to)
    BY <2>1 DEF Start
  <2>3. j # None /\ starts + 1 \in 0..MaxStarts
    BY <2>1, LockAssumption DEF Start, TypeOK
  <2>4. pc' = [pc EXCEPT ![p] = to] /\ job' = [job EXCEPT ![p] = j] /\ j \in Jobs /\ pc[p] = "idle"
        /\ UNCHANGED <<file, dead, avail, hold>>
    BY <2>1, <2>2 DEF Start, Goes, registry, memory
  <2>5. /\ pc' \in [Pids -> {"idle", "look", "read", "admit", "scan", "clear", "fill", "run", "other"}]
        /\ job' \in [Pids -> Jobs \cup {None}]
        /\ \A q \in Pids : job'[q] = None <=> pc'[q] \in {"idle", "other"}
    BY <2>3, <2>4 DEF TypeOK
  <2>6. \A q \in Pids : dead[q] # {} => pc'[q] = "clear"
    BY <2>4 DEF TypeOK
  <2>7. /\ saw' \in [Pids -> SUBSET Pids] /\ counted' \in [Pids -> SUBSET Pids]
        /\ moved' \in [Pids -> BOOLEAN] /\ raced' \in [Pids -> BOOLEAN]
    BY <2>1 DEF Start, TypeOK
  <2>8. starts' \in 0..MaxStarts
    BY <2>1, <2>3 DEF Start
  <2> QED BY <2>4, <2>5, <2>6, <2>7, <2>8 DEF TypeOK
<1>2. CASE Look(p)
  <2>1. CASE Refused(job[p])
    BY <1>2, <2>1, EndsType DEF Look
  <2>2. CASE ~Refused(job[p])
    <3>1. PICK to \in {"run", "read"} : Goes(p, to)
      BY <1>2, <2>2 DEF Look
    <3>2. saw' \in [Pids -> SUBSET Pids] /\ pc[p] = "look"
          /\ UNCHANGED <<job, file, dead, avail, hold, starts, counted, moved, raced>>
      BY <1>0, <1>2, <2>2 DEF Look, TypeOK, registry, memory
    <3> QED BY <1>d, <3>1, <3>2, MovesType DEF TypeOK
  <2> QED BY <2>1, <2>2
<1>3. CASE Read(p)
  <2>1. Capacity - Holding \in Int
    BY HoldingInt, LockAssumption DEF TypeOK, Holding
  <2>2. avail' \in [Pids -> Int] /\ pc[p] = "read" /\ Goes(p, "admit")
        /\ UNCHANGED <<job, file, dead, hold, starts, saw, counted, moved, raced>>
    BY <1>3, <2>1 DEF Read, TypeOK, registry, history
  <2> QED BY <1>d, <2>2, MovesType DEF TypeOK
<1>4. CASE Admit(p)
  <2>1. CASE Ends(p, file)
    BY <2>1, EndsType
  <2>2. CASE ~Ends(p, file)
    <3>1. PICK to \in {"run", "scan"} : Goes(p, to)
      BY <1>4, <2>2 DEF Admit
    <3>2. counted' \in [Pids -> SUBSET Pids] /\ avail' \in [Pids -> Int] /\ pc[p] = "admit"
          /\ UNCHANGED <<job, file, dead, hold, starts, saw, moved, raced>>
      BY <1>0, <1>4, <2>2 DEF Admit, TypeOK, registry
    <3> QED BY <1>d, <3>1, <3>2, MovesType DEF TypeOK
  <2> QED BY <2>1, <2>2
<1>5. CASE Scan(p)
  BY <1>0, <1>5, MovesType DEF Scan, TypeOK, memory, history
<1>6. CASE Clear(p)
  <2>1. PICK q \in dead[p] : file' = [file EXCEPT ![q] = None] /\ dead' = [dead EXCEPT ![p] = dead[p] \ {q}]
    BY <1>6 DEF Clear, TypeOK
  <2>2. file' \in [Pids -> Jobs \cup {None, Torn}] /\ dead[p] \ {q} \in SUBSET Pids /\ pc[p] = "clear"
        /\ Goes(p, "clear") /\ UNCHANGED <<job, avail, hold, starts, saw, counted, moved, raced>>
    BY <1>6, <2>1 DEF Clear, TypeOK, memory, history, Goes
  <2>3. /\ avail \in [Pids -> Int] /\ hold \in [Pids -> Nat]
        /\ saw \in [Pids -> SUBSET Pids] /\ counted \in [Pids -> SUBSET Pids]
        /\ moved \in [Pids -> BOOLEAN] /\ raced \in [Pids -> BOOLEAN]
    BY DEF TypeOK
  <2> DEFINE d == dead[p] \ {q}
  <2>4. d \in SUBSET Pids /\ dead' = [dead EXCEPT ![p] = d] /\ pc[p] \notin {"idle", "other"} /\ UNCHANGED <<job, starts>>
    BY <2>1, <2>2
  <2>5. /\ avail' \in [Pids -> Int] /\ hold' \in [Pids -> Nat]
        /\ saw' \in [Pids -> SUBSET Pids] /\ counted' \in [Pids -> SUBSET Pids]
        /\ moved' \in [Pids -> BOOLEAN] /\ raced' \in [Pids -> BOOLEAN]
    BY <2>2, <2>3
  <2> HIDE DEF d
  <2> QED BY <2>2, <2>4, <2>5, MovesType
<1>7. CASE Open(p)
  <2>1. file' \in [Pids -> Jobs \cup {None, Torn}] /\ pc[p] = "clear" /\ dead[p] = {} /\ Goes(p, "fill")
        /\ UNCHANGED <<job, dead, avail, hold, starts, saw, counted, moved, raced>>
    BY <1>7 DEF Open, TypeOK, memory, history
  <2> QED BY <1>d, <2>1, MovesType DEF TypeOK
<1>8. CASE Fill(p)
  <2>1. job[p] \in Jobs
    BY <1>8 DEF Fill, TypeOK
  <2>2. file' \in [Pids -> Jobs \cup {None, Torn}]
    BY <1>8, <2>1 DEF Fill, TypeOK
  <2>3. raced' \in [Pids -> BOOLEAN]
    <3> DEFINE late == file[p] # Torn \/ \E q \in Pids : p \in dead[q]
    <3>1. late \in BOOLEAN
      OBVIOUS
    <3>2. raced' = [raced EXCEPT ![p] = late]
      BY <1>8 DEF Fill
    <3> HIDE DEF late
    <3> QED BY <3>1, <3>2 DEF TypeOK
  <2>4. pc[p] = "fill" /\ Goes(p, "run") /\ UNCHANGED <<job, dead, avail, hold, starts, saw, counted, moved>>
    BY <1>8 DEF Fill, memory
  <2> QED BY <1>d, <2>2, <2>3, <2>4, MovesType DEF TypeOK
<1>9. CASE Take(p)
  <2>1. job[p] \in Jobs /\ pc[p] = "run" /\ Goes(p, "run")
    BY <1>9 DEF Take, TypeOK, Goes
  <2>2. hold' \in [Pids -> Nat]
    BY <1>9, <2>1, LockAssumption DEF Take, TypeOK
  <2>3. moved' \in [Pids -> BOOLEAN]
    BY <1>9 DEF Take, TypeOK
  <2>4. UNCHANGED <<job, file, dead, avail, starts, saw, counted, raced>>
    BY <1>9 DEF Take, registry
  <2> QED BY <1>d, <2>1, <2>2, <2>3, <2>4, MovesType DEF TypeOK
<1>10. CASE Exit(p) \/ Kill(p) \/ OtherEnds(p)
  BY <1>10, EndsType DEF Exit, Kill, OtherEnds
<1>11. CASE Recycled(p)
  BY <1>11 DEF Recycled, Goes, TypeOK, registry, memory, history
<1> QED BY <1>1, <1>2, <1>3, <1>4, <1>5, <1>6, <1>7, <1>8, <1>9, <1>10, <1>11 DEF Step

\* Every variable keeps its type; only a process that is removing dead records has some to remove.
THEOREM TypeCorrect == Spec => []TypeOK
<1>1. Init => TypeOK
  BY LockAssumption DEF Init, TypeOK
<1>2. TypeOK /\ [Next]_vars => TypeOK'
  <2>1. CASE Next
    BY <2>1, TypeStep DEF Next
  <2>2. CASE UNCHANGED vars
    BY <2>2 DEF vars, registry, memory, history, TypeOK
  <2> QED BY <2>1, <2>2
<1> QED BY <1>1, <1>2, PTL DEF Spec

-----------------------------------------------------------------------------
(* The memory.  What p was admitted beside is what it counted and still    *)
(* stands; the promise p was admitted under bounds those and itself.       *)

Beside(p)   == {q \in counted[p] : ~raced[q]}
Admitted(p) == pc[p] \in {"scan", "clear", "fill", "run"} /\ job[p].lock

HoldOK    == \A p \in Pids : hold[p] # 0 => pc[p] = "run" /\ hold[p] <= job[p].need
ReadingOK == \A p \in Pids : pc[p] = "admit" /\ ~moved[p] => avail[p] <= Capacity - Holding
PromiseOK ==
  \A p \in Pids : /\ counted[p] \subseteq Registered
                  /\ Admitted(p) /\ ~moved[p] => PeakOf(Beside(p)) + job[p].need <= Capacity

MInv == IInv /\ TypeOK /\ HoldOK /\ ReadingOK /\ PromiseOK /\ MemoryFits

\* What a set of jobs may come to need is a matter of what they were started as.
LEMMA PeakFacts ==
  ASSUME NEW j, NEW S, IsFiniteSet(S), \A q \in S : j[q] \in Jobs
  PROVE  /\ Total([q \in S |-> j[q].need], S) \in Nat
         /\ \A q \in S : j[q].need \in Nat
<1> DEFINE f == [q \in S |-> j[q].need]
<1>1. \A q \in S : f[q] \in Int /\ j[q].need \in Nat
  BY LockAssumption
<1> HIDE DEF f
<1>2. Total(f, S) \in Nat
  BY <1>1, TotalType
<1> QED BY <1>1, <1>2 DEF f

LEMMA PeakWithin ==
  ASSUME NEW j, NEW k, NEW S, IsFiniteSet(S), NEW T \in SUBSET S,
         \A q \in S : j[q] \in Jobs, \A q \in T : k[q] = j[q]
  PROVE  Total([q \in T |-> k[q].need], T) <= Total([q \in S |-> j[q].need], S)
<1> DEFINE f == [q \in T |-> k[q].need]
           g == [q \in S |-> j[q].need]
<1>1. (\A q \in S : g[q] \in Int) /\ (\A q \in T : f[q] \in Int /\ f[q] <= g[q])
  BY LockAssumption
<1> HIDE DEF f, g
<1>2. Total(f, T) <= Total(g, S)
  BY <1>1, TotalGrows
<1> QED BY <1>2 DEF f, g

\* One more job needs its need more.
LEMMA PeakAdd ==
  ASSUME NEW j, NEW S, IsFiniteSet(S), NEW p \in S, \A q \in S : j[q] \in Jobs
  PROVE  Total([q \in S |-> j[q].need], S) = Total([q \in S \ {p} |-> j[q].need], S \ {p}) + j[p].need
<1> DEFINE f == [q \in S |-> j[q].need]
           T == S \ {p}
           g == [q \in T |-> j[q].need]
<1>1. \A q \in S : f[q] \in Nat
  BY LockAssumption
<1>2. \A q \in T : f[q] = g[q]
  OBVIOUS
<1>3. IsFiniteSet(T) /\ p \notin T /\ S = T \cup {p} /\ T \subseteq S /\ f[p] = j[p].need
  BY FS_RemoveElement
<1> HIDE DEF f, g, T
<1>4. Total(f, T) = Total(g, T)
  BY <1>2, TotalSame
<1>5. Total(f, T \cup {p}) = Total(f, T) + f[p]
  BY <1>1, <1>3, TotalAdd
<1> QED BY <1>3, <1>4, <1>5 DEF f, g, T

\* Sets of pids are finite, and the jobs in the register are jobs.
LEMMA Finite ==
  ASSUME NEW S \in SUBSET Pids
  PROVE  IsFiniteSet(S)
BY LockAssumption, FS_Subset

-----------------------------------------------------------------------------
(* A promise is as good as the readings it was made from.                  *)

\* What the registered jobs may come to need is what is held and what is promised.
LEMMA PromisesCounted ==
  ASSUME MInv
  PROVE  PeakOf({q \in Registered : ~raced[q]}) <= Holding + unspentBudgets
<1> DEFINE R == {q \in Registered : ~raced[q]}
           need == [q \in R |-> job[q].need]
           left == [q \in Live |-> Left(q)]
<1>1. \A q \in R : /\ q \in Pids /\ q \in Live /\ job[q] \in Jobs /\ file[q] = job[q]
                   /\ hold[q] \in Nat /\ hold[q] <= job[q].need
  <2> SUFFICES ASSUME NEW q \in R
               PROVE /\ q \in Pids /\ q \in Live /\ job[q] \in Jobs /\ file[q] = job[q]
                     /\ hold[q] \in Nat /\ hold[q] <= job[q].need
    OBVIOUS
  <2>1. q \in Pids /\ pc[q] = "run" /\ file[q] = job[q] /\ job[q] \in Jobs
    BY DEF MInv, IInv, RecordOK, Registered, TypeOK
  <2>2. q \in Live
    BY <2>1, LockAssumption DEF Live, Alive
  <2>3. hold[q] \in Nat /\ job[q].need \in Nat
    BY <2>1, LockAssumption DEF MInv, TypeOK
  <2> QED BY <2>1, <2>2, <2>3 DEF MInv, HoldOK
<1>2. IsFiniteSet(R) /\ R \subseteq Pids /\ R \subseteq Live /\ IsFiniteSet(Live)
  BY <1>1, Finite DEF Live
<1>3. \A q \in R : need[q] \in Nat /\ hold[q] \in Nat /\ left[q] \in Nat /\ need[q] <= hold[q] + left[q]
  BY <1>1, LockAssumption DEF Left
<1>4. (\A q \in Live : left[q] \in Int) /\ \A q \in Pids : hold[q] \in Int
  BY LockAssumption DEF MInv, TypeOK, Live, Left
<1> HIDE DEF R, need, left
<1>5. Total(need, R) <= Total(hold, R) + Total(left, R)
  BY <1>2, <1>3, TotalSplit
<1>6. Total(hold, R) <= Total(hold, Pids)
  BY <1>2, <1>3, <1>4, LockAssumption, TotalGrows
<1>7. Total(left, R) <= Total(left, Live)
  BY <1>2, <1>3, <1>4, TotalGrows
<1>8. /\ Total(hold, R) \in Nat /\ Total(hold, Pids) \in Nat /\ Total(left, R) \in Nat /\ Total(left, Live) \in Nat
      /\ Total(need, R) \in Nat
  <2>1. \A q \in R : hold[q] \in Int /\ left[q] \in Int /\ need[q] \in Int
    BY <1>3
  <2> QED BY <1>2, <1>4, <2>1, TotalType, LockAssumption
<1>9. Total(need, R) <= Total(hold, Pids) + Total(left, Live)
  BY <1>5, <1>6, <1>7, <1>8
<1> QED BY <1>9 DEF PeakOf, Holding, unspentBudgets, R, need, left

\* p is admitted beside what is registered.
LEMMA AdmitPromise ==
  ASSUME MInv, NEW p \in Pids, Admit(p), job[p].need <= avail[p] - unspentBudgets, ~moved[p]
  PROVE  PeakOf({q \in Registered : ~raced[q]}) + job[p].need <= Capacity
<1> DEFINE peak == PeakOf({q \in Registered : ~raced[q]})
<1>1. peak <= Holding + unspentBudgets
  BY PromisesCounted
<1>2. avail[p] <= Capacity - Holding
  BY DEF MInv, ReadingOK, Admit
<1>3. peak \in Nat
  <2>1. \A q \in {r \in Registered : ~raced[r]} : job[q] \in Jobs
    BY DEF MInv, TypeOK, Registered
  <2>2. IsFiniteSet({q \in Registered : ~raced[q]})
    BY Finite DEF Registered
  <2> QED BY <2>1, <2>2, PeakFacts DEF PeakOf
<1>4. Holding \in Nat /\ unspentBudgets \in Nat /\ avail[p] \in Int /\ Capacity \in Nat
  BY HoldingInt, UnspentInt, LockAssumption DEF MInv, TypeOK, Holding
<1>5. job[p].need \in Nat
  BY LockAssumption DEF MInv, TypeOK, Admit
<1> HIDE DEF peak
<1>6. peak + job[p].need <= Capacity
  BY <1>1, <1>2, <1>3, <1>4, <1>5
<1> QED BY <1>6 DEF peak

-----------------------------------------------------------------------------
(* What the steps do to the promises.                                      *)

\* The memory held is no more when nobody holds more.
LEMMA HoldingFalls ==
  ASSUME MInv, TypeOK', \A q \in Pids : hold'[q] <= hold[q]
  PROVE  Holding' <= Holding
<1>1. \A q \in Pids : hold[q] \in Int /\ hold'[q] \in Int
  BY DEF MInv, TypeOK
<1>2. Total(hold', Pids) <= Total(hold, Pids)
  BY <1>1, LockAssumption, TotalGrows
<1> QED BY <1>2 DEF Holding

\* Those a job was admitted beside are registered, and stand for jobs.
LEMMA BesideFacts ==
  ASSUME MInv, NEW q \in Pids
  PROVE  /\ Beside(q) \subseteq Registered /\ Beside(q) \subseteq counted[q]
         /\ IsFiniteSet(Beside(q)) /\ \A r \in Beside(q) : r \in Pids /\ job[r] \in Jobs
<1>1. Beside(q) \subseteq Registered /\ Beside(q) \subseteq counted[q]
  BY DEF MInv, PromiseOK, Beside
<1>2. \A r \in Registered : r \in Pids /\ job[r] \in Jobs
  BY DEF MInv, TypeOK, Registered
<1> QED BY <1>1, <1>2, Finite

\* A promise stands while no more jobs stand beside it.
LEMMA PromiseStands ==
  ASSUME MInv, TypeOK', NEW q \in Pids, counted'[q] \subseteq counted[q],
         \A r \in counted'[q] : job'[r] = job[r] /\ raced'[r] = raced[r],
         Admitted(q), ~moved[q], job'[q] = job[q]
  PROVE  PeakOf(Beside(q))' + job'[q].need <= Capacity
<1>1. Beside(q)' \subseteq Beside(q) /\ \A r \in Beside(q)' : job'[r] = job[r]
  BY DEF Beside
<1>2. PeakOf(Beside(q))' <= PeakOf(Beside(q))
  BY <1>1, BesideFacts, PeakWithin DEF PeakOf
<1>3. PeakOf(Beside(q)) + job[q].need <= Capacity /\ job[q].need \in Nat
  BY LockAssumption DEF MInv, PromiseOK, TypeOK, Admitted
<1>4. PeakOf(Beside(q))' \in Nat
  <2>1. IsFiniteSet(Beside(q)') /\ \A r \in Beside(q)' : job'[r] \in Jobs
    BY <1>1, BesideFacts, FS_Subset
  <2> QED BY <2>1, PeakFacts DEF PeakOf
<1>5. PeakOf(Beside(q)) \in Nat
  <2>1. IsFiniteSet(Beside(q)) /\ \A r \in Beside(q) : job[r] \in Jobs
    BY BesideFacts
  <2> QED BY <2>1, PeakFacts DEF PeakOf
<1> QED BY <1>2, <1>3, <1>4, <1>5, LockAssumption

\* Jobs that were registered before fit as they did.
LEMMA FitsStands ==
  ASSUME MInv, NEW S \in SUBSET Registered,
         \A q \in S : job'[q] = job[q] /\ raced'[q] = raced[q] /\ moved'[q] = moved[q]
                      /\ counted'[q] \cap S = counted[q] \cap S,
         \A q \in S : Sound(q)', InTurn(S)'
  PROVE  Total([q \in S |-> job'[q].need], S) <= Capacity
<1>1. S \in SUBSET {q \in Registered : Sound(q)}
  BY DEF Sound
<1>2. InTurn(S)
  BY <1>1 DEF InTurn
<1>3. Total([q \in S |-> job[q].need], S) <= Capacity
  BY <1>1, <1>2 DEF MInv, MemoryFits, PeakOf
<1>4. \A q \in S : [r \in S |-> job'[r].need][q] = [r \in S |-> job[r].need][q]
  OBVIOUS
<1>5. Total([q \in S |-> job'[q].need], S) = Total([q \in S |-> job[q].need], S)
  BY <1>4, TotalSame
<1> QED BY <1>3, <1>5

\* Fewer registered jobs, of those each counted as well, and the same promises: nothing grows.
LEMMA PromisesFall ==
  ASSUME MInv, TypeOK', Registered' \subseteq Registered,
         \A q \in Pids : counted'[q] \subseteq counted[q] \cap Registered',
         \A q \in Registered' : counted'[q] = counted[q] \cap Registered',
         \A q \in Registered' : job'[q] = job[q] /\ raced'[q] = raced[q] /\ moved'[q] = moved[q],
         \A q \in Pids : Admitted(q)' /\ ~moved'[q] => Admitted(q) /\ ~moved[q] /\ job'[q] = job[q]
  PROVE  PromiseOK' /\ MemoryFits'
<1>1. PromiseOK'
  <2> SUFFICES ASSUME NEW q \in Pids, Admitted(q)', ~moved'[q]
               PROVE  PeakOf(Beside(q))' + job'[q].need <= Capacity
    BY DEF PromiseOK
  <2> QED BY PromiseStands
<1>2. MemoryFits'
  <2> SUFFICES ASSUME NEW S \in SUBSET {q \in Registered' : Sound(q)'}, InTurn(S)'
               PROVE  Total([q \in S |-> job'[q].need], S) <= Capacity
    BY DEF MemoryFits, PeakOf
  <2> QED BY FitsStands
<1> QED BY <1>1, <1>2

\* p's process is gone, and what it held with it.
LEMMA EndsMemory ==
  ASSUME MInv, TypeOK', NEW p \in Pids, NEW f, Ends(p, f)
  PROVE  HoldOK' /\ ReadingOK' /\ PromiseOK' /\ MemoryFits'
<1>1. \A q \in Pids : /\ q # p => pc'[q] = pc[q] /\ job'[q] = job[q] /\ hold'[q] = hold[q]
                      /\ q = p => pc'[q] = "idle" /\ hold'[q] = 0
                      /\ counted'[q] = counted[q] \ {p}
                      /\ avail'[q] = avail[q] /\ moved'[q] = moved[q] /\ raced'[q] = raced[q]
                      /\ hold[q] \in Nat /\ avail[q] \in Int
  BY DEF MInv, TypeOK, Goes, Ends
<1>2. Registered' = Registered \ {p}
  BY <1>1 DEF Registered
<1>3. HoldOK'
  BY <1>1 DEF MInv, HoldOK
<1>4. ReadingOK'
  <2>1. Holding' <= Holding
    BY <1>1, HoldingFalls
  <2>2. Holding \in Nat /\ Holding' \in Nat
    BY HoldingInt DEF MInv, TypeOK, Holding
  <2> QED BY <1>1, <2>1, <2>2, LockAssumption DEF MInv, ReadingOK
<1>5. \A q \in Pids : counted[q] \subseteq Registered
  BY DEF MInv, PromiseOK
<1>6. /\ \A q \in Pids : counted'[q] \subseteq counted[q] \cap Registered'
      /\ \A q \in Registered' : counted'[q] = counted[q] \cap Registered'
  BY <1>1, <1>2, <1>5 DEF Registered
<1>7. \A q \in Pids : Admitted(q)' /\ ~moved'[q] => Admitted(q) /\ ~moved[q] /\ job'[q] = job[q]
  BY <1>1 DEF Admitted
<1>8. \A q \in Registered' : job'[q] = job[q] /\ raced'[q] = raced[q] /\ moved'[q] = moved[q]
  BY <1>1, <1>2 DEF Registered
<1> QED BY <1>2, <1>3, <1>4, <1>6, <1>7, <1>8, PromisesFall

\* p goes on with what it was admitted with; who is registered and what is held stay.
LEMMA GoesOnMemory ==
  ASSUME MInv, TypeOK', NEW p \in Pids, NEW to \in {"read", "admit", "clear", "fill", "run", "other"}, Goes(p, to),
         pc[p] # "run", to = "run" => ~job[p].lock,
         to \in {"clear", "fill"} => pc[p] \in {"scan", "clear"},
         to = "admit" => avail'[p] <= Capacity - Holding,
         \A q \in Pids : q # p => avail'[q] = avail[q],
         UNCHANGED <<job, hold, counted, moved, raced>>
  PROVE  HoldOK' /\ ReadingOK' /\ PromiseOK' /\ MemoryFits'
<1>1. \A q \in Pids : /\ q # p => pc'[q] = pc[q]
                      /\ q = p => pc'[q] = to
  BY DEF MInv, TypeOK, Goes
<1>2. Registered' = Registered
  BY <1>1 DEF Registered
<1>3. HoldOK'
  BY <1>1 DEF MInv, HoldOK
<1>4. ReadingOK'
  BY <1>1 DEF MInv, ReadingOK, Holding
<1>5. /\ \A q \in Pids : counted'[q] \subseteq counted[q] \cap Registered'
      /\ \A q \in Registered' : counted'[q] = counted[q] \cap Registered'
  BY <1>2 DEF MInv, PromiseOK, Registered
<1>6. \A q \in Pids : Admitted(q)' /\ ~moved'[q] => Admitted(q) /\ ~moved[q] /\ job'[q] = job[q]
  BY <1>1 DEF Admitted
<1> QED BY <1>2, <1>3, <1>4, <1>5, <1>6, PromisesFall

LEMMA StartMemory ==
  ASSUME MInv, TypeOK', NEW p \in Pids, NEW j \in Jobs, Start(p, j)
  PROVE  HoldOK' /\ ReadingOK' /\ PromiseOK' /\ MemoryFits'
<1>0. PICK to \in {"look", "read"} : Goes(p, to)
  BY DEF Start
<1>1. /\ pc[p] = "idle"
      /\ \A q \in Pids : /\ q # p => /\ pc'[q] = pc[q] /\ job'[q] = job[q] /\ counted'[q] = counted[q]
                                     /\ moved'[q] = moved[q] /\ raced'[q] = raced[q]
                         /\ q = p => pc'[q] = to /\ counted'[q] = {}
      /\ UNCHANGED <<hold, avail>>
  <2>1. /\ pc[p] = "idle" /\ pc' = [pc EXCEPT ![p] = to] /\ UNCHANGED <<hold, avail>>
        /\ job' = [job EXCEPT ![p] = j] /\ counted' = [counted EXCEPT ![p] = {}]
        /\ moved' = [moved EXCEPT ![p] = FALSE] /\ raced' = [raced EXCEPT ![p] = FALSE]
    BY <1>0 DEF Start, Goes, memory
  <2>2. /\ DOMAIN pc = Pids /\ DOMAIN job = Pids /\ DOMAIN counted = Pids
        /\ DOMAIN moved = Pids /\ DOMAIN raced = Pids
    BY DEF MInv, TypeOK
  <2> QED BY <2>1, <2>2
<1>2. Registered' = Registered /\ p \notin Registered
  BY <1>1 DEF Registered
<1>3. HoldOK'
  BY <1>1 DEF MInv, HoldOK
<1>4. ReadingOK'
  BY <1>1 DEF MInv, ReadingOK, Holding
<1>5. /\ \A q \in Pids : counted'[q] \subseteq counted[q] \cap Registered'
      /\ \A q \in Registered' : counted'[q] = counted[q] \cap Registered'
  BY <1>1, <1>2 DEF MInv, PromiseOK, Registered
<1>6. \A q \in Pids : Admitted(q)' /\ ~moved'[q] => Admitted(q) /\ ~moved[q] /\ job'[q] = job[q]
  BY <1>1 DEF Admitted
<1>7. \A q \in Registered' : job'[q] = job[q] /\ raced'[q] = raced[q] /\ moved'[q] = moved[q]
  BY <1>1, <1>2 DEF Registered
<1> QED BY <1>2, <1>3, <1>4, <1>5, <1>6, <1>7, PromisesFall

LEMMA AdmitMemory ==
  ASSUME MInv, TypeOK', NEW p \in Pids, Admit(p)
  PROVE  HoldOK' /\ ReadingOK' /\ PromiseOK' /\ MemoryFits'
<1>1. CASE job[p].need > avail[p] - unspentBudgets
  BY <1>1, EndsMemory DEF Admit
<1>2. CASE ~(job[p].need > avail[p] - unspentBudgets)
  <2>1. PICK to \in {"scan", "run"} : Goes(p, to) /\ (to = "run" => ~job[p].lock)
    BY <1>2 DEF Admit
  <2>2. /\ pc[p] = "admit" /\ counted' = [counted EXCEPT ![p] = Registered]
        /\ avail' = [avail EXCEPT ![p] = 0] /\ UNCHANGED <<job, hold, moved, raced>>
    BY <1>2 DEF Admit
  <2>3. \A q \in Pids : /\ q # p => pc'[q] = pc[q] /\ counted'[q] = counted[q] /\ avail'[q] = avail[q]
                        /\ q = p => pc'[q] = to /\ counted'[q] = Registered
    BY <2>1, <2>2 DEF MInv, TypeOK, Goes
  <2>4. Registered' = Registered /\ p \notin Registered
    BY <2>1, <2>2, <2>3 DEF Registered
  <2>5. HoldOK'
    BY <2>2, <2>3 DEF MInv, HoldOK
  <2>6. ReadingOK'
    BY <2>2, <2>3, <2>1 DEF MInv, ReadingOK, Holding
  <2>7. PromiseOK'
    <3>1. \A q \in Pids : counted'[q] \subseteq Registered'
      BY <2>3, <2>4 DEF MInv, PromiseOK
    <3>2. ASSUME NEW q \in Pids, Admitted(q)', ~moved'[q], q # p
          PROVE  PeakOf(Beside(q))' + job'[q].need <= Capacity
      BY <2>2, <2>3, <3>2, PromiseStands DEF Admitted
    <3>3. ASSUME ~moved[p]
          PROVE  PeakOf(Beside(p))' + job'[p].need <= Capacity
      <4>1. job[p].need <= avail[p] - unspentBudgets
        <5>1. job[p].need \in Nat /\ avail[p] \in Int /\ unspentBudgets \in Nat
          BY <2>2, UnspentInt, LockAssumption DEF MInv, TypeOK
        <5> QED BY <1>2, <5>1
      <4>2. Beside(p)' = {q \in Registered : ~raced[q]}
        BY <2>2, <2>3 DEF Beside
      <4> QED BY <2>2, <3>3, <4>1, <4>2, AdmitPromise DEF PeakOf
    <3> QED BY <2>2, <3>1, <3>2, <3>3 DEF PromiseOK
  <2>8. MemoryFits'
    <3> SUFFICES ASSUME NEW S \in SUBSET {q \in Registered' : Sound(q)'}, InTurn(S)'
                 PROVE  Total([q \in S |-> job'[q].need], S) <= Capacity
      BY DEF MemoryFits, PeakOf
    <3>1. \A q \in S : q \in Registered /\ q \in Pids /\ q # p
      BY <2>4 DEF Registered
    <3> QED BY <2>2, <2>3, <3>1, FitsStands
  <2> QED BY <2>5, <2>6, <2>7, <2>8
<1> QED BY <1>1, <1>2

\* p is registered: with all it was admitted beside, and with no other that was admitted beside it.
LEMMA FillMemory ==
  ASSUME MInv, TypeOK', NEW p \in Pids, Fill(p)
  PROVE  HoldOK' /\ ReadingOK' /\ PromiseOK' /\ MemoryFits'
<1>1. /\ pc[p] = "fill" /\ Goes(p, "run") /\ UNCHANGED <<job, avail, hold, counted, moved>>
      /\ \A q \in Pids : q # p => raced'[q] = raced[q] /\ pc'[q] = pc[q]
      /\ pc'[p] = "run"
  BY DEF Fill, Goes, memory, MInv, TypeOK
<1>2. /\ Registered \subseteq Registered' /\ Registered' \subseteq Registered \cup {p} /\ p \notin Registered
      /\ p \in Registered' => job[p].lock
  BY <1>1 DEF Registered
<1>3. HoldOK'
  BY <1>1 DEF MInv, HoldOK
<1>4. ReadingOK'
  BY <1>1 DEF MInv, ReadingOK, Holding
<1>5. \A q \in Pids : counted[q] \subseteq Registered /\ p \notin counted[q]
  BY <1>2 DEF MInv, PromiseOK
<1>6. \A q \in Pids : \A r \in counted[q] : r \in Pids /\ raced'[r] = raced[r]
  BY <1>1, <1>5 DEF Registered
<1>7. PromiseOK'
  <2> SUFFICES ASSUME NEW q \in Pids, Admitted(q)', ~moved'[q]
               PROVE  PeakOf(Beside(q))' + job'[q].need <= Capacity
    BY <1>1, <1>2, <1>5 DEF PromiseOK
  <2>1. Admitted(q)
    BY <1>1 DEF Admitted
  <2> QED BY <1>1, <1>6, <2>1, PromiseStands
<1>8. MemoryFits'
  <2> SUFFICES ASSUME NEW S \in SUBSET {q \in Registered' : Sound(q)'}, InTurn(S)'
               PROVE  Total([q \in S |-> job'[q].need], S) <= Capacity
    BY DEF MemoryFits, PeakOf
  <2>1. \A q \in S : q \in Pids /\ ~moved[q] /\ ~raced'[q] /\ (q # p => q \in Registered)
    BY <1>1, <1>2 DEF Sound, Registered
  <2>2. CASE p \notin S
    <3>1. S \in SUBSET Registered
      BY <2>1, <2>2
    <3> QED BY <1>1, <2>1, <2>2, <3>1, FitsStands
  <2>3. CASE p \in S
    <3> DEFINE T == S \ {p}
    <3>1. T \subseteq Beside(p)
      BY <1>1, <1>5, <2>1, <2>3 DEF InTurn, Beside
    <3>2. Admitted(p) /\ ~moved[p]
      BY <1>1, <1>2, <2>1, <2>3 DEF Admitted
    <3>3. PeakOf(Beside(p)) + job[p].need <= Capacity
      BY <3>2 DEF MInv, PromiseOK
    <3>4. IsFiniteSet(S) /\ IsFiniteSet(T) /\ \A q \in S : job[q] \in Jobs
      <4>1. S \subseteq Pids /\ T \subseteq Pids /\ \A q \in S : q = p \/ q \in Registered
        BY <2>1
      <4>2. \A q \in S : job[q] # None
        BY <1>1, <4>1 DEF MInv, TypeOK, Registered
      <4> QED BY <4>1, <4>2, Finite DEF MInv, TypeOK
    <3>5. Total([q \in S |-> job[q].need], S) = Total([q \in T |-> job[q].need], T) + job[p].need
      BY <2>3, <3>4, PeakAdd
    <3>6. Total([q \in T |-> job[q].need], T) <= PeakOf(Beside(p))
      <4> HIDE DEF T
      <4> QED BY <3>1, BesideFacts, PeakWithin DEF PeakOf
    <3>7. Total([q \in T |-> job[q].need], T) \in Nat /\ PeakOf(Beside(p)) \in Nat /\ job[p].need \in Nat
      <4>1. IsFiniteSet(Beside(p)) /\ \A r \in Beside(p) : job[r] \in Jobs
        BY BesideFacts
      <4>2. PeakOf(Beside(p)) \in Nat
        BY <4>1, PeakFacts DEF PeakOf
      <4>3. \A q \in T : job[q] \in Jobs
        BY <3>4
      <4>4. job[p].need \in Nat
        BY <2>3, <3>4, LockAssumption
      <4> HIDE DEF T
      <4> QED BY <3>4, <4>2, <4>3, <4>4, PeakFacts
    <3>8. Total([q \in S |-> job[q].need], S) <= Capacity
      <4> HIDE DEF T
      <4> QED BY <3>3, <3>5, <3>6, <3>7, LockAssumption
    <3> QED BY <1>1, <3>8
  <2> QED BY <2>2, <2>3
<1> QED BY <1>3, <1>4, <1>7, <1>8

\* Memory a job takes shows in the next reading, and spoils the readings others are between.
LEMMA TakeMemory ==
  ASSUME MInv, TypeOK', NEW p \in Pids, Take(p)
  PROVE  HoldOK' /\ ReadingOK' /\ PromiseOK' /\ MemoryFits'
<1>1. /\ pc[p] = "run" /\ job[p].need \in Nat /\ UNCHANGED <<pc, job, avail, counted, raced>>
      /\ moved' = [q \in Pids |-> moved[q] \/ (pc[q] = "admit" /\ hold'[p] > hold[p])]
  BY LockAssumption DEF Take, MInv, TypeOK
<1>2. PICK n \in 0..job[p].need : hold' = [hold EXCEPT ![p] = n]
  BY DEF Take
<1>3. \A q \in Pids : /\ q # p => hold'[q] = hold[q]
                      /\ q = p => hold'[q] = n
                      /\ hold[q] \in Nat
  BY <1>2 DEF MInv, TypeOK
<1>4. HoldOK'
  BY <1>1, <1>2, <1>3 DEF MInv, HoldOK
<1>5. ReadingOK'
  <2> SUFFICES ASSUME NEW q \in Pids, pc[q] = "admit", ~moved'[q]
               PROVE  avail[q] <= Capacity - Holding'
    BY <1>1 DEF ReadingOK
  <2>1. ~moved[q] /\ ~(hold'[p] > hold[p])
    BY <1>1
  <2>2. \A r \in Pids : hold'[r] <= hold[r]
    BY <1>1, <1>2, <1>3, <2>1
  <2>3. Holding' <= Holding
    BY <2>2, HoldingFalls
  <2>4. Holding \in Nat /\ Holding' \in Nat /\ avail[q] \in Int
    BY HoldingInt DEF MInv, TypeOK, Holding
  <2>5. avail[q] <= Capacity - Holding
    BY <2>1 DEF MInv, ReadingOK
  <2> QED BY <2>3, <2>4, <2>5, LockAssumption
<1>6. Registered' = Registered
  BY <1>1 DEF Registered
<1>7. \A q \in Registered : q \in Pids /\ pc[q] = "run" /\ moved'[q] = moved[q]
  BY <1>1 DEF Registered, MInv, TypeOK
<1>8. \A q \in Pids : Admitted(q)' /\ ~moved'[q] => Admitted(q) /\ ~moved[q]
  BY <1>1 DEF Admitted
<1>9. \A q \in Pids : counted'[q] = counted[q] \cap Registered'
  BY <1>1, <1>6 DEF MInv, PromiseOK
<1> QED BY <1>1, <1>4, <1>5, <1>6, <1>7, <1>8, <1>9, PromisesFall

LEMMA MemoryStep ==
  ASSUME MInv, TypeOK', NEW p \in Pids, Step(p)
  PROVE  HoldOK' /\ ReadingOK' /\ PromiseOK' /\ MemoryFits'
<1>1. CASE \E j \in Jobs : Start(p, j)
  BY <1>1, StartMemory
<1>2. CASE Look(p)
  <2>1. CASE Refused(job[p])
    BY <1>2, <2>1, EndsMemory DEF Look
  <2>2. CASE ~Refused(job[p])
    <3>1. pc[p] = "look" /\ job[p] \in Jobs /\ UNCHANGED <<job, avail, hold, counted, moved, raced>>
      BY <1>2, <2>2 DEF Look, memory, MInv, TypeOK
    <3>2. PICK to \in {"run", "read"} : Goes(p, to) /\ (to = "run" => ~job[p].lock)
      BY <1>2, <2>2, <3>1, LockAssumption DEF Look
    <3> QED BY <3>1, <3>2, GoesOnMemory
  <2> QED BY <2>1, <2>2
<1>3. CASE Read(p)
  <2>1. /\ pc[p] = "read" /\ Goes(p, "admit") /\ avail' = [avail EXCEPT ![p] = Capacity - Holding]
        /\ UNCHANGED <<job, hold, counted, moved, raced>>
    BY <1>3 DEF Read, history
  <2>2. Holding \in Nat /\ Capacity \in Nat
    BY HoldingInt, LockAssumption DEF MInv, TypeOK, Holding
  <2>3. avail'[p] <= Capacity - Holding /\ \A q \in Pids : q # p => avail'[q] = avail[q]
    BY <2>1, <2>2 DEF MInv, TypeOK
  <2> QED BY <2>1, <2>3, GoesOnMemory
<1>4. CASE Admit(p)
  BY <1>4, AdmitMemory
<1>5. CASE Scan(p) \/ Clear(p) \/ Open(p)
  <2>1. PICK to \in {"clear", "fill"} : Goes(p, to)
    BY <1>5 DEF Scan, Clear, Open, Goes, MInv, TypeOK
  <2>2. pc[p] \in {"scan", "clear"} /\ UNCHANGED <<job, avail, hold, counted, moved, raced>>
    BY <1>5 DEF Scan, Clear, Open, memory, history
  <2> QED BY <2>1, <2>2, GoesOnMemory
<1>6. CASE Fill(p)
  BY <1>6, FillMemory
<1>7. CASE Take(p)
  BY <1>7, TakeMemory
<1>8. CASE Exit(p) \/ Kill(p) \/ OtherEnds(p)
  BY <1>8, EndsMemory DEF Exit, Kill, OtherEnds
<1>9. CASE Recycled(p)
  <2>1. pc[p] = "idle" /\ Goes(p, "other") /\ UNCHANGED <<job, avail, hold, counted, moved, raced>>
    BY <1>9 DEF Recycled, memory, history
  <2> QED BY <2>1, GoesOnMemory
<1> QED BY <1>1, <1>2, <1>3, <1>4, <1>5, <1>6, <1>7, <1>8, <1>9 DEF Step

-----------------------------------------------------------------------------
(* The memory of the specification.                                        *)

\* MInv holds of every state: readings are good but for memory taken since, and promises for their jobs.
THEOREM MemoryInvariance == Spec => []MInv
<1>1. Init => MInv
  <2> SUFFICES ASSUME Init PROVE MInv
    OBVIOUS
  <2>1. TypeOK
    BY LockAssumption DEF Init, TypeOK
  <2>2. Registered = {}
    BY DEF Init, Registered
  <2>3. HoldOK /\ ReadingOK /\ PromiseOK
    BY DEF Init, HoldOK, ReadingOK, PromiseOK, Admitted
  <2>4. MemoryFits
    <3> SUFFICES ASSUME NEW S \in SUBSET {p \in Registered : Sound(p)}
                 PROVE  PeakOf(S) <= Capacity
      BY DEF MemoryFits
    <3>1. S = {}
      BY <2>2
    <3>2. Total([p \in S |-> job[p].need], {}) = 0
      BY TotalEmpty
    <3> QED BY <3>1, <3>2, LockAssumption DEF PeakOf
  <2> QED BY <2>1, <2>3, <2>4, InitOK DEF MInv
<1>2. MInv /\ [Next]_vars => MInv'
  <2> SUFFICES ASSUME MInv, [Next]_vars PROVE MInv'
    OBVIOUS
  <2>1. CASE Next
    <3>1. PICK p \in Pids : Step(p)
      BY <2>1 DEF Next
    <3>2. IInv' /\ TypeOK'
      BY <3>1, StepOK, TypeStep DEF MInv
    <3> QED BY <3>1, <3>2, MemoryStep DEF MInv
  <2>2. CASE UNCHANGED vars
    <3>1. IInv' /\ TypeOK'
      BY <2>2, CalmOK DEF MInv, vars, registry, memory, history, TypeOK
    <3>2. HoldOK' /\ ReadingOK'
      BY <2>2 DEF MInv, vars, memory, history, HoldOK, ReadingOK, Holding
    <3>3. PromiseOK' /\ MemoryFits'
      BY <2>2 DEF MInv, vars, registry, memory, history, PromiseOK, MemoryFits, Registered, Admitted, Beside,
                  PeakOf, Sound, InTurn
    <3> QED BY <3>1, <3>2, <3>3 DEF MInv
  <2> QED BY <2>1, <2>2
<1> QED BY <1>1, <1>2, PTL DEF Spec

\* Jobs admitted in turn fit: all of them may reach their peaks together.
THEOREM PeaksFit == Spec => []MemoryFits
<1>1. MInv => MemoryFits
  BY DEF MInv
<1> QED BY <1>1, MemoryInvariance, PTL
=============================================================================
