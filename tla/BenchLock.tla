------------------------------- MODULE BenchLock -------------------------------
(***************************************************************************)
(* The machine-wide register of heavy jobs (apps/benchmark/src/run/lock.ts)*)
(* and the memory admission that reads it (admission.ts), as the commands  *)
(* of cli.ts use them: look at the register and refuse, read the memory,   *)
(* read what registered jobs have still to take, and then write a record   *)
(* of one's own, with no lock around any of it.  A job may be killed at    *)
(* any step and leaves its record; its pid may go to another process, or   *)
(* to another job.  An edit of a worktree looks and takes no record.       *)
(*                                                                         *)
(* A reader's scan of the directory is one step.  writeFileSync creates or *)
(* truncates the record and then fills it: between the two it is Torn.     *)
(***************************************************************************)
EXTENDS Integers, FiniteSets, Totals

CONSTANTS Pids,
          Jobs,        \* [kind, root, tiers, whole, need, lock]; lock is FALSE under --no-lock
          Capacity,    \* memory the machine has for jobs, the reserve taken off
          MaxStarts,   \* bound: processes started
          Recycle,     \* an ended process's pid may be given to one that is no job
          Torn, None

ASSUME LockAssumption ==
  /\ IsFiniteSet(Pids)
  /\ None \notin Jobs /\ Torn \notin Jobs /\ Torn # None /\ None \notin Pids
  /\ Capacity \in Nat /\ MaxStarts \in Nat /\ Recycle \in BOOLEAN
  /\ \A j \in Jobs : /\ j.kind \in {"run", "sweep", "job", "edit"} /\ j.need \in Nat
                     /\ j.whole \in BOOLEAN /\ j.lock \in BOOLEAN
                     /\ j.kind = "edit" => j.need = 0 /\ ~j.lock /\ ~j.whole

VARIABLES
  pc,       \* where a pid's process is; "idle": there is none; "other": one that is no job
  job,      \* what it was started as
  file,     \* the register: None, Torn, or what a record says
  dead,     \* the records its scan found dead, and it has still to remove
  avail,    \* the memory it read as available
  hold,     \* the memory it holds
  starts,
  saw, counted,   \* history: the registered jobs it looked at, and whose promises it counted
  moved,    \* history: a job took memory between its two readings
  raced     \* history: it wrote its record under another's removal of dead ones

registry == <<file, dead>>
memory   == <<avail, hold>>
history  == <<saw, counted, moved, raced>>
vars     == <<pc, job, registry, memory, starts, history>>

-----------------------------------------------------------------------------
Alive(p) == pc[p] # "idle"

\* scan: a record that names a live process is live; anything else in the directory is dead.
Live  == {p \in Pids : file[p] \notin {None, Torn} /\ Alive(p)}
Stale == {p \in Pids : file[p] # None /\ p \notin Live}

measures(r, root) == r.kind = "run" /\ r.root = root

concurrentRunRefusal(j) ==
  \E p \in Live : \/ measures(file[p], j.root) /\ file[p].tiers \cap j.tiers # {}
                  \/ j.whole /\ file[p].whole
concurrentSweepRefusal == \E p \in Live : file[p].whole
benchInFlightRefusal(j) == \E p \in Live : measures(file[p], j.root)

Refused(j) == CASE j.kind = "run"   -> concurrentRunRefusal(j)
                [] j.kind = "sweep" -> concurrentSweepRefusal
                [] j.kind = "edit"  -> benchInFlightRefusal(j)
                [] j.kind = "job"   -> FALSE

Holding == Total(hold, Pids)
\* Faulty: a job that has taken some of its memory counts as having taken all of it.
AllNeeds == Total([p \in Live |-> IF hold[p] = 0 THEN file[p].need ELSE 0], Live)
\* What they were admitted with and have not taken yet: a process that holds more than its
\* record promised has nothing left to take.
Left(p) == IF hold[p] < file[p].need THEN file[p].need - hold[p] ELSE 0
unspentBudgets == Total([p \in Live |-> Left(p)], Live)

-----------------------------------------------------------------------------
Init ==
  /\ pc = [p \in Pids |-> "idle"] /\ job = [p \in Pids |-> None]
  /\ file = [p \in Pids |-> None] /\ dead = [p \in Pids |-> {}]
  /\ avail = [p \in Pids |-> 0] /\ hold = [p \in Pids |-> 0]
  /\ starts = 0
  /\ saw = [p \in Pids |-> {}] /\ counted = [p \in Pids |-> {}]
  /\ moved = [p \in Pids |-> FALSE] /\ raced = [p \in Pids |-> FALSE]

\* A job that is running, and is in the register unless it runs under --no-lock.
Registered == {p \in Pids : pc[p] = "run" /\ job[p].lock}

Goes(p, to) == pc' = [pc EXCEPT ![p] = to]

\* Which step comes first: the look at the register, or the admission.
Start(p, j) ==
  /\ pc[p] = "idle" /\ starts < MaxStarts
  /\ starts' = starts + 1
  /\ job' = [job EXCEPT ![p] = j]
  /\ Goes(p, IF j.kind = "edit" \/ (j.lock /\ j.kind # "job") THEN "look" ELSE "read")
  /\ saw' = [saw EXCEPT ![p] = {}] /\ counted' = [counted EXCEPT ![p] = {}]
  /\ moved' = [moved EXCEPT ![p] = FALSE] /\ raced' = [raced EXCEPT ![p] = FALSE]
  /\ UNCHANGED <<registry, memory>>

\* The process is gone, and with it what it held; its record f is what is left of it.
Ends(p, f) ==
  /\ Goes(p, "idle") /\ job' = [job EXCEPT ![p] = None]
  /\ hold' = [hold EXCEPT ![p] = 0] /\ dead' = [dead EXCEPT ![p] = {}]
  /\ file' = f
  /\ saw' = [q \in Pids |-> saw[q] \ {p}] /\ counted' = [q \in Pids |-> counted[q] \ {p}]
  /\ UNCHANGED <<avail, starts, moved, raced>>

\* Faulty: the look asks for whole jobs only.
LookWhole(p) ==
  /\ pc[p] = "look"
  /\ IF job[p].kind # "job" /\ \E q \in Live : job[p].whole /\ file[q].whole THEN Ends(p, file)
     ELSE /\ saw' = [saw EXCEPT ![p] = Registered]
          /\ Goes(p, IF job[p].kind = "edit" THEN "run" ELSE "read")
          /\ UNCHANGED <<job, registry, memory, starts, counted, moved, raced>>

\* The refusal: the process exits, or goes on.
Look(p) ==
  /\ pc[p] = "look"
  /\ IF Refused(job[p]) THEN Ends(p, file)
     ELSE /\ saw' = [saw EXCEPT ![p] = Registered]
          /\ Goes(p, IF job[p].kind = "edit" THEN "run" ELSE "read")
          /\ UNCHANGED <<job, registry, memory, starts, counted, moved, raced>>

\* readAdmissibleMemory reads the memory before the register.
Read(p) ==
  /\ pc[p] = "read" /\ Goes(p, "admit")
  /\ avail' = [avail EXCEPT ![p] = Capacity - Holding]
  /\ UNCHANGED <<job, registry, hold, starts, history>>

Admit(p) ==
  /\ pc[p] = "admit"
  /\ IF job[p].need > avail[p] - unspentBudgets THEN Ends(p, file)
     ELSE /\ counted' = [counted EXCEPT ![p] = Registered]
          /\ Goes(p, IF job[p].lock THEN "scan" ELSE "run")
          /\ avail' = [avail EXCEPT ![p] = 0]
          /\ UNCHANGED <<job, registry, hold, starts, saw, moved, raced>>

\* writeRecord: scan, remove what was found dead one by one, create the record, fill it.
Scan(p) ==
  /\ pc[p] = "scan" /\ Goes(p, "clear")
  /\ dead' = [dead EXCEPT ![p] = Stale]
  /\ UNCHANGED <<job, file, memory, starts, history>>

\* Faulty: every other record is removed.
ClearAll(p) ==
  /\ pc[p] = "clear"
  /\ \E q \in Pids \ {p} : file' = [file EXCEPT ![q] = None] /\ dead' = [dead EXCEPT ![p] = @ \ {q}]
  /\ UNCHANGED <<pc, job, memory, starts, history>>
\* Faulty: the record is created before the removals are done.
OpenEarly(p) ==
  /\ pc[p] = "clear" /\ Goes(p, "fill")
  /\ file' = [file EXCEPT ![p] = Torn]
  /\ UNCHANGED <<job, dead, memory, starts, history>>

Clear(p) ==
  /\ pc[p] = "clear"
  /\ \E q \in dead[p] : file' = [file EXCEPT ![q] = None] /\ dead' = [dead EXCEPT ![p] = @ \ {q}]
  /\ UNCHANGED <<pc, job, memory, starts, history>>

Open(p) ==
  /\ pc[p] = "clear" /\ dead[p] = {} /\ Goes(p, "fill")
  /\ file' = [file EXCEPT ![p] = Torn]
  /\ UNCHANGED <<job, dead, memory, starts, history>>

\* A record removed since it was created is filled nowhere.
Fill(p) ==
  /\ pc[p] = "fill" /\ Goes(p, "run")
  /\ file' = [file EXCEPT ![p] = IF @ = Torn THEN job[p] ELSE @]
  /\ raced' = [raced EXCEPT ![p] = file[p] # Torn \/ \E q \in Pids : p \in dead[q]]
  /\ UNCHANGED <<job, dead, memory, starts, saw, counted, moved>>

\* A job takes or gives back memory, within what it was admitted with.
Take(p) ==
  /\ pc[p] = "run"
  /\ \E n \in (0..job[p].need) \ {hold[p]} : hold' = [hold EXCEPT ![p] = n]
  /\ moved' = [q \in Pids |-> moved[q] \/ (pc[q] = "admit" /\ hold'[p] > hold[p])]
  /\ UNCHANGED <<pc, job, registry, avail, starts, saw, counted, raced>>

\* exit: the record goes with the process that wrote it.
Exit(p) == pc[p] = "run" /\ Ends(p, IF job[p].lock THEN [file EXCEPT ![p] = None] ELSE file)
Kill(p) == pc[p] \notin {"idle", "other"} /\ Ends(p, file)

\* The pid goes to a process that is no job, and that ends.
Recycled(p) ==
  /\ Recycle /\ pc[p] = "idle" /\ file[p] # None /\ Goes(p, "other")
  /\ UNCHANGED <<job, registry, memory, starts, history>>
OtherEnds(p) == pc[p] = "other" /\ Ends(p, file)

Step(p) ==
  \/ \E j \in Jobs : Start(p, j)
  \/ Look(p) \/ Read(p) \/ Admit(p) \/ Scan(p) \/ Clear(p) \/ Open(p) \/ Fill(p)
  \/ Take(p) \/ Exit(p) \/ Kill(p) \/ Recycled(p) \/ OtherEnds(p)
Next == \E p \in Pids : Step(p)
Spec == Init /\ [][Next]_vars

-----------------------------------------------------------------------------
TypeOK ==
  /\ pc \in [Pids -> {"idle", "look", "read", "admit", "scan", "clear", "fill", "run", "other"}]
  /\ job \in [Pids -> Jobs \cup {None}] /\ \A p \in Pids : job[p] = None <=> pc[p] \in {"idle", "other"}
  /\ file \in [Pids -> Jobs \cup {None, Torn}]
  /\ dead \in [Pids -> SUBSET Pids] /\ \A p \in Pids : dead[p] # {} => pc[p] = "clear"
  /\ avail \in [Pids -> Int] /\ hold \in [Pids -> Nat] /\ starts \in 0..MaxStarts
  /\ saw \in [Pids -> SUBSET Pids] /\ counted \in [Pids -> SUBSET Pids]
  /\ moved \in [Pids -> BOOLEAN] /\ raced \in [Pids -> BOOLEAN]

(***************************************************************************)
(* lock.ts:47-50, 391, 454-455.  A run that is measuring keeps its record: *)
(* no other job's start, exit or death takes it away, unless that other    *)
(* was already removing what it had found dead while this one wrote.       *)
(***************************************************************************)
RecordKept == \A p \in Registered : ~raced[p] => file[p] = job[p]

(***************************************************************************)
(* lock.ts:7-21, 251-255, 293-306, 358-361.  Two whole jobs, two runs that *)
(* write one tier file of one worktree, or an edit and a run that measures *)
(* that worktree, are never at work together when the second looked after  *)
(* the first had registered; whatever died, was recycled or restarted      *)
(* meanwhile.                                                              *)
(***************************************************************************)
Collide(i, j) ==
  \/ i.whole /\ j.whole
  \/ i.kind = "run" /\ j.kind = "run" /\ i.root = j.root /\ i.tiers \cap j.tiers # {}
  \/ i.kind = "run" /\ j.kind = "edit" /\ i.root = j.root
KeptApart ==
  \A p, q \in Pids : pc[p] = "run" /\ q \in Registered \cap saw[p] /\ Collide(job[q], job[p]) => raced[q]

(***************************************************************************)
(* lock.ts:37-42, admission.ts:437-459.  Jobs of which, in every pair, the *)
(* later was admitted after the earlier had registered can all reach their *)
(* peaks together; a job that takes memory between another's two readings  *)
(* is counted nowhere, and is the one exception.                           *)
(***************************************************************************)
PeakOf(S) == Total([p \in S |-> job[p].need], S)
InTurn(S) == \A p, q \in S : p # q => q \in counted[p] \/ p \in counted[q]
Sound(p)  == ~raced[p] /\ ~moved[p]
MemoryFits ==
  \A S \in SUBSET {p \in Registered : Sound(p)} :
    InTurn(S) => PeakOf(S) <= Capacity

(***************************************************************************)
(* lock.ts:40-41.  "so a heavy job started after it subtracts what it has  *)
(* not taken yet - whichever of two jobs starts first, the second sees the *)
(* first".                                                                 *)
(***************************************************************************)
SecondSeesFirst ==
  \A p, q \in Registered :
    p # q /\ ~raced[p] /\ ~raced[q] /\ q \in counted[p] => job[p].need + job[q].need <= Capacity
=============================================================================
