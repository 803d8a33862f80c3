-------------------------- MODULE CandLease_proofs --------------------------
(***************************************************************************)
(* Proofs about CandLease, for any number of processes, namespaces, keys.  *)
(***************************************************************************)
EXTENDS CandLease, TLAPS

\* Who resolves, or removes, does so to a namespace.
PlaceOK ==
  \A p \in Procs : /\ proc[p].pc # "ready" => proc[p].ns \in Spaces
                   /\ proc[p].pc = "remove" => proc[p].cur \in Spaces

\* Everybody with a lease where q deletes wrote it after q looked there.
LateOK ==
  \A q \in Procs, n \in Spaces, p \in Procs :
    Target(q) = n /\ p \in alive /\ p \in leases[n] => p \in proc[q].late

\* A namespace under way is young, or gone (and so on no list).
YoungOK ==
  \A p \in Procs, n \in Spaces : Resolving(p, n) => n \in young \/ n \notin dir

\* What a pruner has chosen to remove, or may still choose.
Doomed(q, n) ==
  (At(q, "list") /\ n \in proc[q].todo)
    \/ (At(q, "remove") /\ (n \in proc[q].todo \/ n = proc[q].cur))

\* Whoever resolves a doomed namespace touched it after the survey; and a
\* pruner never dooms the namespace it resolves itself.
EarlyOK ==
  \A q \in Procs, n \in Spaces : Doomed(q, n) =>
    /\ n # proc[q].ns
    /\ \A p \in Procs : Resolving(p, n) => p \in proc[q].early

\* Who has not pruned yet has nothing; who is under way will not prune again.
PrunedOK ==
  \A p \in Procs :
    /\ proc[p].pc # "ready" => pruned[p]
    /\ ~pruned[p] \/ proc[p].pc \in Pruning => using[p] = {} /\ held[p] = {}

IInv == TypeOK /\ PlaceOK /\ LateOK /\ YoungOK /\ EarlyOK /\ PrunedOK

-----------------------------------------------------------------------------
(* The edits of a process's record, and what they leave alone.             *)

LEMMA ReadyType == Ready \in Call
BY DEF Ready, Call, Pcs

\* Only p's record changes, and to these fields.
Edited(p, pc, ns, todo, cur, keys, early, late) ==
  /\ proc' \in [Procs -> Call]
  /\ proc'[p].pc = pc /\ proc'[p].ns = ns /\ proc'[p].todo = todo /\ proc'[p].cur = cur
  /\ proc'[p].keys = keys /\ proc'[p].early = early /\ proc'[p].late = late
  /\ \A q \in Procs : q # p => proc'[q] = proc[q]

LEMMA EditOf ==
  ASSUME TypeOK, NEW p \in Procs, NEW e \in Call, Become(p, e)
  PROVE  Edited(p, e.pc, e.ns, e.todo, e.cur, e.keys, e.early, e.late)
BY DEF TypeOK, Become, Edited

LEMMA GoEdit ==
  ASSUME TypeOK, NEW p \in Procs, NEW pc \in Pcs, Go(p, pc)
  PROVE  Edited(p, pc, proc[p].ns, proc[p].todo, proc[p].cur, proc[p].keys,
                proc[p].early, proc[p].late)
<1> DEFINE r == proc[p]
           e == [r EXCEPT !.pc = pc]
<1>1. r \in Call BY DEF TypeOK
<1>2. Become(p, e) BY DEF Go
<1> HIDE DEF r
<1>3. e \in Call /\ e.pc = pc /\ e.ns = r.ns /\ e.todo = r.todo /\ e.cur = r.cur
        /\ e.keys = r.keys /\ e.early = r.early /\ e.late = r.late
  BY <1>1 DEF Call
<1> HIDE DEF e
<1> QED BY <1>2, <1>3, EditOf DEF r

LEMMA GatherEdit ==
  ASSUME TypeOK, NEW p \in Procs, NEW N \in SUBSET Spaces, Gather(p, N)
  PROVE  Edited(p, "list", proc[p].ns, {n \in N : ~Live(n)}, proc[p].cur, proc[p].keys,
                {}, proc[p].late)
<1> DEFINE r == proc[p]
           T == {n \in N : ~Live(n)}
           e == [r EXCEPT !.pc = "list", !.todo = T, !.early = {}]
<1>1. r \in Call /\ T \in SUBSET Spaces BY DEF TypeOK
<1>2. Become(p, e) BY DEF Gather
<1> HIDE DEF r, T
<1>3. e \in Call /\ e.pc = "list" /\ e.ns = r.ns /\ e.todo = T /\ e.cur = r.cur
        /\ e.keys = r.keys /\ e.early = {} /\ e.late = r.late
  BY <1>1 DEF Call, Pcs, Pruning
<1> HIDE DEF e
<1> QED BY <1>2, <1>3, EditOf DEF r, T

LEMMA ChosenEdit ==
  ASSUME TypeOK, NEW p \in Procs, NEW n \in Spaces, Chosen(p, n)
  PROVE  Edited(p, "remove", proc[p].ns, proc[p].todo \ {n}, n, proc[p].keys,
                proc[p].early, {})
<1> DEFINE r == proc[p]
           e == [r EXCEPT !.pc = "remove", !.cur = n, !.todo = @ \ {n}, !.late = {}]
<1>1. r \in Call BY DEF TypeOK
<1>2. Become(p, e) BY DEF Chosen
<1> HIDE DEF r
<1>3. e \in Call /\ e.pc = "remove" /\ e.ns = r.ns /\ e.todo = r.todo \ {n} /\ e.cur = n
        /\ e.keys = r.keys /\ e.early = r.early /\ e.late = {}
  BY <1>1 DEF Call, Pcs, Pruning
<1> HIDE DEF e
<1> QED BY <1>2, <1>3, EditOf DEF r

LEMMA DropEdit ==
  ASSUME TypeOK, NEW p \in Procs, NEW n \in Spaces, Become(p, [proc[p] EXCEPT !.todo = @ \ {n}])
  PROVE  Edited(p, proc[p].pc, proc[p].ns, proc[p].todo \ {n}, proc[p].cur, proc[p].keys,
                proc[p].early, proc[p].late)
<1> DEFINE r == proc[p]
           e == [r EXCEPT !.todo = @ \ {n}]
<1>1. r \in Call BY DEF TypeOK
<1>2. Become(p, e) OBVIOUS
<1> HIDE DEF r
<1>3. e \in Call /\ e.pc = r.pc /\ e.ns = r.ns /\ e.todo = r.todo \ {n} /\ e.cur = r.cur
        /\ e.keys = r.keys /\ e.early = r.early /\ e.late = r.late
  BY <1>1 DEF Call
<1> HIDE DEF e
<1> QED BY <1>2, <1>3, EditOf DEF r

LEMMA ListedEdit ==
  ASSUME TypeOK, NEW p \in Procs, proc[p].ns \in Spaces, Listed(p)
  PROVE  Edited(p, "evict", proc[p].ns, proc[p].todo, proc[p].cur, files[proc[p].ns],
                proc[p].early, {})
<1> DEFINE r == proc[p]
           K == files[proc[p].ns]
           e == [r EXCEPT !.pc = "evict", !.keys = K, !.late = {}]
<1>1. r \in Call /\ K \in SUBSET Keys BY DEF TypeOK
<1>2. Become(p, e) BY DEF Listed
<1> HIDE DEF r, K
<1>3. e \in Call /\ e.pc = "evict" /\ e.ns = r.ns /\ e.todo = r.todo /\ e.cur = r.cur
        /\ e.keys = K /\ e.early = r.early /\ e.late = {}
  BY <1>1 DEF Call, Pcs, Pruning
<1> HIDE DEF e
<1> QED BY <1>2, <1>3, EditOf DEF r, K

LEMMA KeysEdit ==
  ASSUME TypeOK, NEW p \in Procs, NEW k, Become(p, [proc[p] EXCEPT !.keys = @ \ {k}])
  PROVE  Edited(p, proc[p].pc, proc[p].ns, proc[p].todo, proc[p].cur, proc[p].keys \ {k},
                proc[p].early, proc[p].late)
<1> DEFINE r == proc[p]
           e == [r EXCEPT !.keys = @ \ {k}]
<1>1. r \in Call BY DEF TypeOK
<1>2. Become(p, e) OBVIOUS
<1> HIDE DEF r
<1>3. e \in Call /\ e.pc = r.pc /\ e.ns = r.ns /\ e.todo = r.todo /\ e.cur = r.cur
        /\ e.keys = r.keys \ {k} /\ e.early = r.early /\ e.late = r.late
  BY <1>1 DEF Call
<1> HIDE DEF e
<1> QED BY <1>2, <1>3, EditOf DEF r

LEMMA ReadyEdit ==
  ASSUME TypeOK, NEW p \in Procs, Become(p, Ready)
  PROVE  Edited(p, "ready", None, {}, None, {}, {}, {})
<1> USE ReadyType, EditOf
<1>1. Ready.pc = "ready" /\ Ready.ns = None /\ Ready.todo = {} /\ Ready.cur = None
        /\ Ready.keys = {} /\ Ready.early = {} /\ Ready.late = {}
  BY DEF Ready
<1> QED BY <1>1

-----------------------------------------------------------------------------
(* The initial states.                                                     *)

LEMMA InitInv == ASSUME Init PROVE IInv
<1> USE PrunersAssumption, NoneAssumption DEF Init
<1>1. TypeOK BY DEF TypeOK, Call, Pcs, Pruning, Ready
<1>6. PlaceOK BY DEF PlaceOK, Ready
<1>2. LateOK BY DEF LateOK, Target, At, Ready
<1>3. YoungOK BY DEF YoungOK, Resolving, Ready
<1>4. EarlyOK BY DEF EarlyOK, Doomed, At, Ready
<1>5. PrunedOK BY DEF PrunedOK, Ready, Pruning
<1> QED BY <1>1, <1>2, <1>3, <1>4, <1>5, <1>6 DEF IInv

-----------------------------------------------------------------------------
(* Steps that claim nothing, resolve nothing and choose nothing new.       *)

LEMMA Fields ==
  ASSUME TypeOK, NEW p \in Procs
  PROVE  proc[p] \in Call
BY DEF TypeOK

LEMMA Calm ==
  ASSUME IInv, TypeOK', PlaceOK', YoungOK', PrunedOK',
         \A q \in Procs, n \in Spaces :
           Doomed(q, n)' => Doomed(q, n) /\ proc'[q].ns = proc[q].ns
                              /\ proc[q].early \subseteq proc'[q].early,
         \A q \in Procs, n \in Spaces : Resolving(q, n)' => Resolving(q, n),
         \A q \in Procs, n \in Spaces :
           Target(q)' = n => \/ Target(q) = n /\ proc[q].late \subseteq proc'[q].late
                             \/ leases'[n] \cap alive' = {},
         \A n \in Spaces : leases'[n] \subseteq leases[n],
         alive' \subseteq alive
  PROVE  IInv'
<1>1. LateOK' BY DEF IInv, LateOK
<1>2. EarlyOK' BY DEF IInv, EarlyOK
<1> QED BY <1>1, <1>2 DEF IInv

LEMMA RefuseInv == ASSUME IInv, NEW p \in Procs, NEW n \in Spaces, Refuse(p, n) PROVE IInv'
<1> USE DEF IInv, disk
<1>1. Edited(p, "ready", None, {}, None, {}, {}, {}) BY ReadyEdit DEF Refuse
<1>2. UNCHANGED <<dir, liveDir, files, leases, young, alive, using, pruned, held>>
  BY DEF Refuse
<1>3. TypeOK' BY <1>1, <1>2 DEF TypeOK, Refuse, Edited
<1>4. PlaceOK' BY <1>1 DEF PlaceOK, Edited
<1>5. YoungOK' BY <1>1, <1>2 DEF YoungOK, Resolving, Edited
<1>6. PrunedOK'
  BY <1>1, <1>2 DEF PrunedOK, Pruning, TypeOK, Edited
<1>7. \A q \in Procs, m \in Spaces :
         /\ Doomed(q, m)' => Doomed(q, m) /\ proc'[q] = proc[q]
         /\ Resolving(q, m)' => Resolving(q, m)
         /\ Target(q)' = m => Target(q) = m /\ proc'[q] = proc[q]
  BY <1>1, <1>2, NoneAssumption DEF Doomed, Resolving, Target, At, Edited
<1> QED BY <1>2, <1>3, <1>4, <1>5, <1>6, <1>7, Calm

LEMMA LeaveListInv == ASSUME IInv, NEW p \in Procs, LeaveList(p) PROVE IInv'
<1> USE DEF IInv, disk, mine
<1>1. Edited(p, "own", proc[p].ns, proc[p].todo, proc[p].cur, proc[p].keys, proc[p].early, proc[p].late)
  BY GoEdit DEF LeaveList, Pcs, Pruning
<1>2. At(p, "list") /\ UNCHANGED <<dir, liveDir, files, leases, young, alive, using, refused, pruned, held>>
  BY DEF LeaveList
<1>3. TypeOK' BY <1>1, <1>2 DEF TypeOK, Edited
<1>4. PlaceOK' BY <1>1, <1>2 DEF PlaceOK, Edited, At
<1>5. YoungOK' BY <1>1, <1>2 DEF YoungOK, Resolving, Edited, At
<1>6. PrunedOK'
  BY <1>1, <1>2 DEF PrunedOK, Pruning, TypeOK, Edited, At
<1>7. \A q \in Procs, m \in Spaces :
         /\ Doomed(q, m)' => Doomed(q, m) /\ proc'[q].ns = proc[q].ns /\ proc'[q].early = proc[q].early
         /\ Resolving(q, m)' => Resolving(q, m)
         /\ Target(q)' = m => Target(q) = m /\ proc'[q].late = proc[q].late
  BY <1>1, <1>2, NoneAssumption DEF Doomed, Resolving, Target, At, Edited
<1> QED BY <1>2, <1>3, <1>4, <1>5, <1>6, <1>7, Calm

LEMMA EndPruneInv == ASSUME IInv, NEW p \in Procs, EndPrune(p) PROVE IInv'
<1> USE DEF IInv, disk, mine
<1>1. Edited(p, "claim", proc[p].ns, proc[p].todo, proc[p].cur, proc[p].keys, proc[p].early, proc[p].late)
  BY GoEdit DEF EndPrune, Pcs
<1>2. p \in alive /\ proc[p].pc \in Pruning /\ UNCHANGED <<dir, liveDir, files, leases, young, alive, using, refused, pruned, held>>
  BY DEF EndPrune
<1>3. TypeOK' BY <1>1, <1>2 DEF TypeOK, Edited
<1>4. PlaceOK' BY <1>1, <1>2 DEF PlaceOK, Edited, At, Pruning
<1>5. YoungOK' BY <1>1, <1>2 DEF YoungOK, Resolving, Edited, At, Pruning
<1>6. PrunedOK' BY <1>1, <1>2 DEF PrunedOK, Pruning, TypeOK, Edited, At
<1>7. \A q \in Procs, m \in Spaces :
         /\ Doomed(q, m)' => Doomed(q, m) /\ proc'[q].ns = proc[q].ns /\ proc'[q].early = proc[q].early
         /\ Resolving(q, m)' => Resolving(q, m)
         /\ Target(q)' = m => Target(q) = m /\ proc'[q].late = proc[q].late
  BY <1>1, <1>2, NoneAssumption DEF Doomed, Resolving, Target, At, Edited, Pruning
<1> QED BY <1>2, <1>3, <1>4, <1>5, <1>6, <1>7, Calm

LEMMA EvictInv == ASSUME IInv, NEW p \in Procs, Evict(p) PROVE IInv'
<1> USE DEF IInv, disk, mine
<1> PICK k \in proc[p].keys :
         /\ files' = [files EXCEPT ![proc[p].ns] = @ \ {k}]
         /\ Become(p, [proc[p] EXCEPT !.keys = @ \ {k}])
  BY DEF Evict
<1>1. Edited(p, "evict", proc[p].ns, proc[p].todo, proc[p].cur, proc[p].keys \ {k}, proc[p].early, proc[p].late)
  BY KeysEdit DEF At, Evict
<1>2. At(p, "evict") /\ UNCHANGED <<dir, liveDir, leases, young, alive, using, refused, pruned, held>>
  BY DEF Evict
<1>3. TypeOK' BY <1>1, <1>2 DEF TypeOK, Edited, PlaceOK, At
<1>4. PlaceOK' BY <1>1, <1>2 DEF PlaceOK, Edited, At
<1>5. YoungOK' BY <1>1, <1>2 DEF YoungOK, Resolving, Edited, At
<1>6. PrunedOK' BY <1>1, <1>2 DEF PrunedOK, Pruning, TypeOK, Edited, At
<1>7. \A q \in Procs, m \in Spaces :
         /\ Doomed(q, m)' => Doomed(q, m) /\ proc'[q].ns = proc[q].ns /\ proc'[q].early = proc[q].early
         /\ Resolving(q, m)' => Resolving(q, m)
         /\ Target(q)' = m => Target(q) = m /\ proc'[q].late = proc[q].late
  BY <1>1, <1>2, NoneAssumption DEF Doomed, Resolving, Target, At, Edited
<1> QED BY <1>2, <1>3, <1>4, <1>5, <1>6, <1>7, Calm

LEMMA LookAtOwnInv == ASSUME IInv, NEW p \in Procs, LookAtOwn(p) PROVE IInv'
<1> USE DEF IInv, disk, mine
<1>1. Edited(p, "evict", proc[p].ns, proc[p].todo, proc[p].cur, files[proc[p].ns], proc[p].early, {})
  BY ListedEdit DEF LookAtOwn, PlaceOK, At
<1>2. /\ At(p, "own") /\ proc[p].ns \in Spaces /\ ~Live(proc[p].ns)
      /\ leases' \in [Spaces -> SUBSET Procs] /\ leases'[proc[p].ns] = leases[proc[p].ns] \cap alive
      /\ \A m \in Spaces : leases'[m] \subseteq leases[m]
      /\ UNCHANGED <<dir, liveDir, files, young, alive, using, refused, pruned, held>>
  BY DEF LookAtOwn, PlaceOK, At, Swept, TypeOK
<1>3. TypeOK' BY <1>1, <1>2 DEF TypeOK, Edited
<1>4. PlaceOK' BY <1>1, <1>2 DEF PlaceOK, Edited, At
<1>5. YoungOK' BY <1>1, <1>2 DEF YoungOK, Resolving, Edited, At
<1>6. PrunedOK' BY <1>1, <1>2 DEF PrunedOK, Pruning, TypeOK, Edited, At
<1>7. \A q \in Procs, m \in Spaces :
         /\ Doomed(q, m)' => Doomed(q, m) /\ proc'[q].ns = proc[q].ns /\ proc'[q].early = proc[q].early
         /\ Resolving(q, m)' => Resolving(q, m)
         /\ Target(q)' = m => \/ Target(q) = m /\ proc'[q].late = proc[q].late
                           \/ leases'[m] \cap alive' = {}
  BY <1>1, <1>2, NoneAssumption DEF Doomed, Resolving, Target, At, Edited, Live
<1> QED BY <1>2, <1>3, <1>4, <1>5, <1>6, <1>7, Calm

LEMMA LookAgainInv == ASSUME IInv, NEW p \in Procs, NEW n \in Spaces, LookAgain(p, n) PROVE IInv'
<1> USE DEF IInv, disk, mine
<1>1. /\ At(p, "list") /\ n \in proc[p].todo
      /\ leases' \in [Spaces -> SUBSET Procs] /\ leases'[n] = leases[n] \cap alive
      /\ \A m \in Spaces : leases'[m] \subseteq leases[m]
      /\ UNCHANGED <<dir, liveDir, files, young, alive, using, refused, pruned, held>>
  BY DEF LookAgain, Swept, TypeOK
<1>2. CASE Live(n)
  <2>1. Edited(p, "list", proc[p].ns, proc[p].todo \ {n}, proc[p].cur, proc[p].keys, proc[p].early, proc[p].late)
    BY <1>1, <1>2, DropEdit DEF LookAgain, At
  <2>2. TypeOK' BY <1>1, <2>1 DEF TypeOK, Edited
  <2>3. PlaceOK' BY <1>1, <2>1 DEF PlaceOK, Edited, At
  <2>4. YoungOK' BY <1>1, <2>1 DEF YoungOK, Resolving, Edited, At
  <2>5. PrunedOK' BY <1>1, <2>1 DEF PrunedOK, Pruning, TypeOK, Edited, At
  <2>6. \A q \in Procs, m \in Spaces :
         /\ Doomed(q, m)' => Doomed(q, m) /\ proc'[q].ns = proc[q].ns /\ proc'[q].early = proc[q].early
         /\ Resolving(q, m)' => Resolving(q, m)
         /\ Target(q)' = m => Target(q) = m /\ proc'[q].late = proc[q].late
    BY <1>1, <1>2, <2>1, NoneAssumption DEF Doomed, Resolving, Target, At, Edited
  <2> QED BY <1>1, <2>2, <2>3, <2>4, <2>5, <2>6, Calm
<1>3. CASE ~Live(n)
  <2>1. Edited(p, "remove", proc[p].ns, proc[p].todo \ {n}, n, proc[p].keys, proc[p].early, {})
    BY <1>3, ChosenEdit DEF LookAgain
  <2>2. TypeOK' BY <1>1, <2>1 DEF TypeOK, Edited
  <2>3. PlaceOK' BY <1>1, <2>1 DEF PlaceOK, Edited, At
  <2>4. YoungOK' BY <1>1, <2>1 DEF YoungOK, Resolving, Edited, At
  <2>5. PrunedOK' BY <1>1, <2>1 DEF PrunedOK, Pruning, TypeOK, Edited, At
  <2>6. \A q \in Procs, m \in Spaces :
         /\ Doomed(q, m)' => Doomed(q, m) /\ proc'[q].ns = proc[q].ns /\ proc'[q].early = proc[q].early
         /\ Resolving(q, m)' => Resolving(q, m)
         /\ Target(q)' = m => \/ Target(q) = m /\ proc'[q].late = proc[q].late
                           \/ leases'[m] \cap alive' = {}
    BY <1>1, <1>3, <2>1, NoneAssumption DEF Doomed, Resolving, Target, At, Edited, Live
  <2> QED BY <1>1, <2>2, <2>3, <2>4, <2>5, <2>6, Calm
<1> QED BY <1>2, <1>3

LEMMA GetInv == ASSUME IInv, NEW p \in Procs, NEW n \in Spaces, NEW k \in Keys, Get(p, n, k) PROVE IInv'
<1> USE DEF IInv, disk, mine
<1>1. UNCHANGED <<dir, young, leases, alive, proc, pruned>> BY DEF Get
<1>2. TypeOK' BY DEF TypeOK, Get
<1>3. YoungOK' BY <1>1 DEF YoungOK, Resolving, Get
<1>4. PlaceOK' /\ PrunedOK' BY <1>1 DEF PlaceOK, PrunedOK, Get, At, TypeOK, Pruning
<1>5. \A q \in Procs, m \in Spaces :
         /\ Doomed(q, m)' => Doomed(q, m)
         /\ Resolving(q, m)' => Resolving(q, m)
         /\ Target(q)' = m => Target(q) = m
  BY <1>1 DEF Doomed, Resolving, Target, At
<1> QED BY <1>1, <1>2, <1>3, <1>4, <1>5, Calm

LEMMA PutInv == ASSUME IInv, NEW p \in Procs, NEW n \in Spaces, NEW k \in Keys, Put(p, n, k) PROVE IInv'
<1> USE DEF IInv, disk, mine
<1>1. UNCHANGED <<leases, alive, proc, pruned>> BY DEF Put
<1>2. TypeOK' BY DEF TypeOK, Put
<1>3. YoungOK' BY <1>1 DEF YoungOK, Resolving, Put
<1>4. PlaceOK' /\ PrunedOK' BY <1>1 DEF PlaceOK, PrunedOK, Put, At, TypeOK, Pruning
<1>5. \A q \in Procs, m \in Spaces :
         /\ Doomed(q, m)' => Doomed(q, m)
         /\ Resolving(q, m)' => Resolving(q, m)
         /\ Target(q)' = m => Target(q) = m
  BY <1>1 DEF Doomed, Resolving, Target, At
<1> QED BY <1>1, <1>2, <1>3, <1>4, <1>5, Calm

LEMMA ScoreInv == ASSUME IInv, NEW p \in Procs, Score(p) PROVE IInv'
<1> USE DEF IInv, disk, mine
<1>1. UNCHANGED <<dir, young, leases, alive, proc, pruned>> BY DEF Score
<1>2. TypeOK' BY DEF TypeOK, Score
<1>3. YoungOK' BY <1>1 DEF YoungOK, Resolving, Score
<1>4. PlaceOK' /\ PrunedOK' BY <1>1 DEF PlaceOK, PrunedOK, Score, At, TypeOK, Pruning
<1>5. \A q \in Procs, m \in Spaces :
         /\ Doomed(q, m)' => Doomed(q, m)
         /\ Resolving(q, m)' => Resolving(q, m)
         /\ Target(q)' = m => Target(q) = m
  BY <1>1 DEF Doomed, Resolving, Target, At
<1> QED BY <1>1, <1>2, <1>3, <1>4, <1>5, Calm

LEMMA AgeInv == ASSUME IInv, NEW n \in Spaces, Age(n) PROVE IInv'
<1> USE DEF IInv, disk, mine
<1>1. UNCHANGED <<dir, leases, alive, proc, pruned>> BY DEF Age
<1>2. TypeOK' BY DEF TypeOK, Age
<1>3. YoungOK' BY <1>1 DEF YoungOK, Resolving, Age
<1>4. PlaceOK' /\ PrunedOK' BY <1>1 DEF PlaceOK, PrunedOK, Age, At, TypeOK, Pruning
<1>5. \A q \in Procs, m \in Spaces :
         /\ Doomed(q, m)' => Doomed(q, m)
         /\ Resolving(q, m)' => Resolving(q, m)
         /\ Target(q)' = m => Target(q) = m
  BY <1>1 DEF Doomed, Resolving, Target, At
<1> QED BY <1>1, <1>2, <1>3, <1>4, <1>5, Calm

LEMMA DieInv == ASSUME IInv, NEW p \in Procs, Die(p) PROVE IInv'
<1> USE DEF IInv, disk, mine
<1>1. Edited(p, "ready", None, {}, None, {}, {}, {})
  BY ReadyEdit DEF Die
<1>2. p \in alive /\ alive' = alive \ {p} /\ UNCHANGED <<dir, liveDir, files, leases, young, refused, pruned>>
  BY DEF Die
<1>3. TypeOK' BY <1>1, <1>2 DEF TypeOK, Edited, Die
<1>4. PlaceOK' BY <1>1, <1>2 DEF PlaceOK, Edited, At
<1>5. YoungOK' BY <1>1, <1>2 DEF YoungOK, Resolving, Edited, At
<1>6. PrunedOK' BY <1>1, <1>2 DEF PrunedOK, Pruning, TypeOK, Edited, At, Die
<1>7. \A q \in Procs, m \in Spaces :
         /\ Doomed(q, m)' => Doomed(q, m) /\ proc'[q].ns = proc[q].ns /\ proc'[q].early = proc[q].early
         /\ Resolving(q, m)' => Resolving(q, m)
         /\ Target(q)' = m => Target(q) = m /\ proc'[q].late = proc[q].late
  BY <1>1, <1>2, NoneAssumption DEF Doomed, Resolving, Target, At, Edited
<1> QED BY <1>2, <1>3, <1>4, <1>5, <1>6, <1>7, Calm

LEMMA ClaimInv == ASSUME IInv, NEW p \in Procs, Claim(p) PROVE IInv'
<1> USE DEF IInv, disk, mine
<1>1. Edited(p, "lease", proc[p].ns, proc[p].todo, proc[p].cur, proc[p].keys, proc[p].early, proc[p].late)
  BY GoEdit DEF Claim, Pcs
<1>2. /\ At(p, "claim") /\ proc[p].ns \in Spaces
      /\ dir' = dir \cup {proc[p].ns} /\ liveDir' = liveDir \cup {proc[p].ns}
      /\ young' = young \cup {proc[p].ns}
      /\ leases' \in [Spaces -> SUBSET Procs]
      /\ \A m \in Spaces : leases'[m] \subseteq leases[m]
      /\ UNCHANGED <<files, alive, using, refused, pruned, held>>
  BY DEF Claim, PlaceOK, At, Swept, TypeOK
<1>3. TypeOK' BY <1>1, <1>2 DEF TypeOK, Edited
<1>4. PlaceOK' BY <1>1, <1>2 DEF PlaceOK, Edited, At
<1>5. YoungOK' BY <1>1, <1>2 DEF YoungOK, Resolving, Edited, At
<1>6. PrunedOK' BY <1>1, <1>2 DEF PrunedOK, Pruning, TypeOK, Edited, At
<1>7. \A q \in Procs, m \in Spaces :
         /\ Doomed(q, m)' => Doomed(q, m) /\ proc'[q].ns = proc[q].ns /\ proc'[q].early = proc[q].early
         /\ Resolving(q, m)' => Resolving(q, m)
         /\ Target(q)' = m => Target(q) = m /\ proc'[q].late = proc[q].late
  BY <1>1, <1>2, NoneAssumption DEF Doomed, Resolving, Target, At, Edited
<1> QED BY <1>2, <1>3, <1>4, <1>5, <1>6, <1>7, Calm

LEMMA RemoveInv == ASSUME IInv, NEW p \in Procs, Remove(p) PROVE IInv'
<1> USE DEF IInv, disk, mine
<1> DEFINE n == proc[p].cur
<1>1. At(p, "remove") /\ n \in Spaces /\ UNCHANGED <<alive, using, refused, pruned, held>>
  BY DEF Remove, PlaceOK, At
<1>2. CASE UNCHANGED proc
  <2>1. /\ UNCHANGED dir /\ young \subseteq young' /\ leases' \in [Spaces -> SUBSET Procs]
        /\ \A m \in Spaces : leases'[m] \subseteq leases[m]
    <3>1. CASE UNCHANGED <<dir, leases>> /\ young' \in {young, young \cup {n}}
      BY <3>1 DEF TypeOK
    <3>2. CASE UNCHANGED <<dir, young>> /\ \E l \in leases[n] : leases' = [leases EXCEPT ![n] = @ \ {l}]
      BY <1>1, <3>2 DEF TypeOK
    <3>3. ~Go(p, "list")
      BY <1>1, <1>2 DEF Go, Become, TypeOK, At, Call
    <3> QED BY <3>1, <3>2, <3>3 DEF Remove
  <2>2. TypeOK' BY <1>1, <1>2 DEF TypeOK, Remove, Go, Become
  <2>3. PlaceOK' BY <1>2 DEF PlaceOK
  <2>4. YoungOK' BY <1>1, <1>2, <2>1 DEF YoungOK, Resolving
  <2>5. PrunedOK' BY <1>1, <1>2 DEF PrunedOK
  <2>6. \A q \in Procs, m \in Spaces :
         /\ Doomed(q, m)' => Doomed(q, m)
         /\ Resolving(q, m)' => Resolving(q, m)
         /\ Target(q)' = m => Target(q) = m
    BY <1>1, <1>2 DEF Doomed, Resolving, Target, At
  <2> QED BY <1>1, <1>2, <2>1, <2>2, <2>3, <2>4, <2>5, <2>6, Calm
<1>3. CASE /\ files[n] = {} /\ n \notin liveDir
           /\ dir' = dir \ {n} /\ young' = young \ {n}
           /\ Go(p, "list")
           /\ UNCHANGED <<liveDir, files, leases>>
  <2>1. Edited(p, "list", proc[p].ns, proc[p].todo, proc[p].cur, proc[p].keys, proc[p].early, proc[p].late)
    BY <1>3, GoEdit DEF Pcs, Pruning
  <2>2. TypeOK' BY <1>1, <1>3, <2>1 DEF TypeOK, Edited
  <2>3. PlaceOK' BY <1>1, <2>1 DEF PlaceOK, Edited, At
  <2>4. YoungOK' BY <1>1, <1>3, <2>1 DEF YoungOK, Resolving, Edited, At
  <2>5. PrunedOK' BY <1>1, <2>1 DEF PrunedOK, Pruning, TypeOK, Edited, At
  <2>6. \A q \in Procs, m \in Spaces :
         /\ Doomed(q, m)' => Doomed(q, m) /\ proc'[q].ns = proc[q].ns /\ proc'[q].early = proc[q].early
         /\ Resolving(q, m)' => Resolving(q, m)
         /\ Target(q)' = m => Target(q) = m /\ proc'[q].late = proc[q].late
    BY <1>1, <2>1, NoneAssumption DEF Doomed, Resolving, Target, At, Edited
  <2> QED BY <1>1, <1>3, <2>2, <2>3, <2>4, <2>5, <2>6, Calm
<1> QED BY <1>2, <1>3 DEF Remove

-----------------------------------------------------------------------------
(* The three steps that are not calm.                                      *)

\* A survey chooses no young namespace, so nobody is about to claim one of its.
LEMMA SurveyInv == ASSUME IInv, NEW p \in Procs, Survey(p) PROVE IInv'
<1> USE DEF IInv, disk, mine
<1> DEFINE old == dir \ ({proc[p].ns} \cup young)
           T   == {n \in old : ~Live(n)}
<1>1. old \in SUBSET Spaces BY DEF TypeOK
<1>2. Edited(p, "list", proc[p].ns, T, proc[p].cur, proc[p].keys, {}, proc[p].late)
  BY <1>1, GatherEdit DEF Survey
<1>3. /\ At(p, "prune")
      /\ leases' \in [Spaces -> SUBSET Procs]
      /\ \A m \in Spaces : leases'[m] \subseteq leases[m]
      /\ UNCHANGED <<dir, liveDir, files, young, alive, using, refused, pruned, held>>
  BY DEF Survey, Swept, TypeOK
<1>4. /\ T \subseteq Spaces /\ proc[p].ns \notin T
      /\ \A n \in T : n \in dir /\ n \notin young
  BY <1>1
<1> HIDE DEF old, T
<1>5. TypeOK' BY <1>2, <1>3 DEF TypeOK, Edited
<1>6. PlaceOK' BY <1>2, <1>3 DEF PlaceOK, Edited, At
<1>7. YoungOK' BY <1>2, <1>3 DEF YoungOK, Resolving, Edited, At
<1>8. PrunedOK' BY <1>2, <1>3 DEF PrunedOK, Pruning, TypeOK, Edited, At
<1>9. \A q \in Procs, n \in Spaces :
        /\ Resolving(q, n)' => Resolving(q, n)
        /\ Target(q)' = n => Target(q) = n /\ proc'[q].late = proc[q].late
  BY <1>2, <1>3, NoneAssumption DEF Resolving, Target, At, Edited
<1>10. LateOK' BY <1>3, <1>9 DEF LateOK
<1>11. EarlyOK'
  <2> SUFFICES ASSUME NEW q \in Procs, NEW n \in Spaces, Doomed(q, n)'
               PROVE  (/\ n # proc[q].ns
                       /\ \A r \in Procs : Resolving(r, n) => r \in proc[q].early)'
    BY DEF EarlyOK
  <2>1. CASE q = p
    <3>1. n \in T /\ proc'[q].ns = proc[p].ns
      BY <1>2, <2>1 DEF Doomed, At, Edited
    <3>2. \A r \in Procs : ~Resolving(r, n)
      BY <1>4, <3>1 DEF YoungOK
    <3> QED BY <1>4, <1>9, <3>1, <3>2
  <2>2. CASE q # p
    BY <1>2, <1>3, <1>9, <2>2 DEF EarlyOK, Doomed, At, Edited
  <2> QED BY <2>1, <2>2
<1> QED BY <1>5, <1>6, <1>7, <1>8, <1>10, <1>11

\* Everybody learns who touched a namespace, whichever pruner it concerns.
LEMMA ResolveInv == ASSUME IInv, NEW p \in Procs, NEW n \in Spaces, Resolve(p, n) PROVE IInv'
<1> USE DEF IInv, disk, mine
<1> DEFINE pc == IF pruned[p] THEN "claim" ELSE "prune"
<1>1. /\ proc' \in [Procs -> Call]
      /\ proc'[p].pc = pc /\ proc'[p].ns = n
      /\ \A q \in Procs : q # p =>
           /\ proc'[q].pc = proc[q].pc /\ proc'[q].ns = proc[q].ns
           /\ proc'[q].todo = proc[q].todo /\ proc'[q].cur = proc[q].cur
           /\ proc'[q].early = proc[q].early \cup {p} /\ proc'[q].late = proc[q].late
  <2>1. proc' = Touched(p, n) BY DEF Resolve
  <2>2. ASSUME NEW q \in Procs, q # p
        PROVE  /\ proc'[q] \in Call
               /\ proc'[q].pc = proc[q].pc /\ proc'[q].ns = proc[q].ns
               /\ proc'[q].todo = proc[q].todo /\ proc'[q].cur = proc[q].cur
               /\ proc'[q].early = proc[q].early \cup {p} /\ proc'[q].late = proc[q].late
    <3> DEFINE r == proc[q]
               e == [r EXCEPT !.early = @ \cup {p}]
    <3>1. r \in Call BY Fields
    <3>2. proc'[q] = e BY <2>1, <2>2 DEF Touched
    <3> HIDE DEF r
    <3>3. /\ e \in Call /\ e.pc = r.pc /\ e.ns = r.ns /\ e.todo = r.todo
          /\ e.cur = r.cur /\ e.early = r.early \cup {p} /\ e.late = r.late
      BY <3>1 DEF Call
    <3> HIDE DEF e
    <3> QED BY <3>2, <3>3 DEF r
  <2>3. proc'[p] \in Call /\ proc'[p].pc = pc /\ proc'[p].ns = n
    BY <2>1, ReadyType DEF Touched, Ready, Call, Pcs, Pruning
  <2>4. proc' = [q \in Procs |-> proc'[q]] BY <2>1 DEF Touched
  <2> QED BY <2>2, <2>3, <2>4
<1>2. /\ At(p, "ready") /\ pc \in {"claim", "prune"} /\ (pc = "prune" => ~pruned[p])
      /\ dir' = dir \cup {n} /\ young' = young \cup {n}
      /\ pruned' = [pruned EXCEPT ![p] = TRUE]
      /\ UNCHANGED <<liveDir, files, leases, alive, using, refused, held>>
  BY DEF Resolve, CanResolve
<1> HIDE DEF pc
<1>3. TypeOK' BY <1>1, <1>2 DEF TypeOK
<1>4. PlaceOK'
  <2> SUFFICES ASSUME NEW q \in Procs
               PROVE  (/\ proc[q].pc # "ready" => proc[q].ns \in Spaces
                       /\ proc[q].pc = "remove" => proc[q].cur \in Spaces)'
    BY DEF PlaceOK
  <2>1. CASE q = p BY <1>1, <1>2, <2>1
  <2>2. CASE q # p BY <1>1, <2>2 DEF PlaceOK
  <2> QED BY <2>1, <2>2
<1>5. \A q \in Procs, m \in Spaces : Target(q)' = m => Target(q) = m /\ q # p
  BY <1>1, <1>2, NoneAssumption DEF Target, At
<1>6. LateOK' BY <1>1, <1>2, <1>5 DEF LateOK
<1>7. YoungOK' BY <1>1, <1>2 DEF YoungOK, Resolving
<1>8. EarlyOK'
  <2> SUFFICES ASSUME NEW q \in Procs, NEW m \in Spaces, Doomed(q, m)'
               PROVE  (/\ m # proc[q].ns
                       /\ \A r \in Procs : Resolving(r, m) => r \in proc[q].early)'
    BY DEF EarlyOK
  <2>1. q # p /\ Doomed(q, m) BY <1>1, <1>2 DEF Doomed, At
  <2>2. \A r \in Procs : r # p /\ Resolving(r, m)' => Resolving(r, m)
    BY <1>1, <1>2 DEF Resolving
  <2> QED BY <1>1, <2>1, <2>2 DEF EarlyOK
<1>9. PrunedOK'
  <2> SUFFICES ASSUME NEW q \in Procs
               PROVE  (/\ proc[q].pc # "ready" => pruned[q]
                       /\ ~pruned[q] \/ proc[q].pc \in Pruning => using[q] = {} /\ held[q] = {})'
    BY DEF PrunedOK
  <2>1. CASE q = p BY <1>1, <1>2, <2>1 DEF PrunedOK, Pruning, TypeOK
  <2>2. CASE q # p BY <1>1, <1>2, <2>2 DEF PrunedOK, TypeOK
  <2> QED BY <2>1, <2>2
<1> QED BY <1>3, <1>4, <1>6, <1>7, <1>8, <1>9

\* A lease written where somebody deletes is one that pruner did not see.
LEMMA LeaseInv == ASSUME IInv, NEW p \in Procs, Lease(p) PROVE IInv'
<1> USE DEF IInv, disk, mine
<1> DEFINE n == proc[p].ns
<1>1. /\ proc' \in [Procs -> Call]
      /\ proc'[p].pc = "ready" /\ proc'[p].ns = None
      /\ \A q \in Procs : q # p =>
           /\ proc'[q].pc = proc[q].pc /\ proc'[q].ns = proc[q].ns
           /\ proc'[q].todo = proc[q].todo /\ proc'[q].cur = proc[q].cur
           /\ proc'[q].early = proc[q].early /\ proc[q].late \subseteq proc'[q].late
           /\ Target(q) = n => p \in proc'[q].late
  <2> DEFINE L(q) == IF Target(q) = n THEN proc[q].late \cup {p} ELSE proc[q].late
  <2>1. proc' = [q \in Procs |->
          IF q = p THEN Ready
          ELSE [proc[q] EXCEPT !.late = IF Target(q) = n THEN @ \cup {p} ELSE @]]
    BY DEF Lease
  <2>2. ASSUME NEW q \in Procs, q # p
        PROVE  /\ proc'[q] \in Call
               /\ proc'[q].pc = proc[q].pc /\ proc'[q].ns = proc[q].ns
               /\ proc'[q].todo = proc[q].todo /\ proc'[q].cur = proc[q].cur
               /\ proc'[q].early = proc[q].early /\ proc'[q].late = L(q)
    <3> DEFINE r == proc[q]
               l == L(q)
               e == [r EXCEPT !.late = l]
    <3>1. r \in Call BY Fields
    <3>2. proc'[q] = e BY <2>1, <2>2
    <3>3. l \in SUBSET Procs BY <3>1 DEF Call
    <3> HIDE DEF r, l
    <3>4. /\ e \in Call /\ e.pc = r.pc /\ e.ns = r.ns /\ e.todo = r.todo
          /\ e.cur = r.cur /\ e.early = r.early /\ e.late = l
      BY <3>1, <3>3 DEF Call
    <3> HIDE DEF e
    <3> QED BY <3>2, <3>4 DEF r, l
  <2>3. proc'[p] = Ready BY <2>1
  <2>4. proc' = [q \in Procs |-> proc'[q]] BY <2>1
  <2> HIDE DEF n
  <2>5. \A q \in Procs : q # p => proc[q].late \subseteq L(q) /\ (Target(q) = n => p \in L(q))
    OBVIOUS
  <2> HIDE DEF L
  <2>6. proc' \in [Procs -> Call]
    <3>1. \A q \in Procs : proc'[q] \in Call BY <2>2, <2>3, ReadyType
    <3> QED BY <2>4, <3>1
  <2>7. proc'[p].pc = "ready" /\ proc'[p].ns = None BY <2>3 DEF Ready
  <2> QED BY <2>2, <2>5, <2>6, <2>7
<1>2. /\ At(p, "lease") /\ n \in Spaces /\ n \in liveDir
      /\ leases' = [leases EXCEPT ![n] = @ \cup {p}]
      /\ using' = [using EXCEPT ![p] = @ \cup {n}]
      /\ UNCHANGED <<dir, liveDir, files, young, alive, refused, pruned, held>>
  BY DEF Lease, PlaceOK, At
<1> HIDE DEF n
<1>3. TypeOK' BY <1>1, <1>2 DEF TypeOK
<1>4. \A q \in Procs, m \in Spaces :
        /\ Target(q)' = m => Target(q) = m /\ q # p
        /\ Resolving(q, m)' => Resolving(q, m)
        /\ Doomed(q, m)' => Doomed(q, m) /\ q # p
  BY <1>1, <1>2, NoneAssumption DEF Target, Resolving, Doomed, At
<1>5. PlaceOK' BY <1>1 DEF PlaceOK
<1>6. LateOK'
  <2> SUFFICES ASSUME NEW q \in Procs, NEW m \in Spaces, NEW r \in Procs,
                      Target(q)' = m, r \in alive, r \in leases'[m]
               PROVE  r \in proc'[q].late
    BY <1>2 DEF LateOK
  <2>1. Target(q) = m /\ q # p BY <1>4
  <2>2. CASE r = p /\ m = n BY <1>1, <2>1, <2>2
  <2>3. CASE ~(r = p /\ m = n)
    <3>1. r \in leases[m] BY <1>2, <2>3 DEF TypeOK
    <3> QED BY <1>1, <2>1, <3>1 DEF LateOK
  <2> QED BY <2>2, <2>3
<1>7. YoungOK' BY <1>2, <1>4 DEF YoungOK
<1>8. EarlyOK' BY <1>1, <1>4 DEF EarlyOK
<1>9. PrunedOK'
  <2> SUFFICES ASSUME NEW q \in Procs
               PROVE  (/\ proc[q].pc # "ready" => pruned[q]
                       /\ ~pruned[q] \/ proc[q].pc \in Pruning => using[q] = {} /\ held[q] = {})'
    BY DEF PrunedOK
  <2>1. CASE q = p BY <1>1, <1>2, <2>1 DEF PrunedOK, Pruning, TypeOK, At
  <2>2. CASE q # p BY <1>1, <1>2, <2>2 DEF PrunedOK, TypeOK
  <2> QED BY <2>1, <2>2
<1> QED BY <1>3, <1>5, <1>6, <1>7, <1>8, <1>9

-----------------------------------------------------------------------------
(* The invariant, and what follows from it.                                *)

LEMMA StutterInv == ASSUME IInv, UNCHANGED vars PROVE IInv'
<1> USE DEF IInv, vars, disk, mine
<1>1. TypeOK' BY DEF TypeOK
<1>2. PlaceOK' /\ PrunedOK' BY DEF PlaceOK, PrunedOK
<1>3. LateOK' BY DEF LateOK, Target, At
<1>4. YoungOK' BY DEF YoungOK, Resolving
<1>5. EarlyOK' BY DEF EarlyOK, Doomed, Resolving, At
<1> QED BY <1>1, <1>2, <1>3, <1>4, <1>5

LEMMA NextInv == ASSUME IInv, [Next]_vars PROVE IInv'
<1>1. ASSUME NEW p \in Procs, Step(p) PROVE IInv'
  BY <1>1, ResolveInv, RefuseInv, LookAgainInv, SurveyInv, RemoveInv, LeaveListInv,
     LookAtOwnInv, EvictInv, EndPruneInv, ClaimInv, LeaseInv, GetInv, PutInv, ScoreInv,
     DieInv
  DEF Step
<1>2. ASSUME NEW n \in Spaces, Age(n) PROVE IInv' BY <1>2, AgeInv
<1> QED BY <1>1, <1>2, StutterInv DEF Next

\* Everything above holds of every reachable state.
THEOREM Invariance == Spec => []IInv
<1>1. Init => IInv BY InitInv
<1>2. IInv /\ [Next]_vars => IInv' BY NextInv
<1> QED BY <1>1, <1>2, PTL DEF Spec

\* The state of the store and of its processes is well formed: what is left of
\* a namespace is inside its directory, whatever removals and claims did.
THEOREM TypeCorrect == Spec => []TypeOK
<1>1. IInv => TypeOK BY DEF IInv
<1> QED BY <1>1, Invariance, PTL

\* No process prunes once it has claimed a namespace or handed out a path.
THEOREM PruneIsFirst == Spec => []PruneComesFirst
<1>1. IInv => PruneComesFirst BY DEF IInv, PrunedOK, PruneComesFirst
<1> QED BY <1>1, Invariance, PTL

\* Keys and live leases go only where a pruner deletes.
LEMMA DeletersOnly ==
  ASSUME IInv, NEW p \in Procs, Step(p), NEW n \in Spaces, NEW r \in alive,
         r \in leases[n], files[n] \ files'[n] # {} \/ r \notin leases'[n]
  PROVE  Target(p) = n
<1> USE DEF IInv, disk
<1>1. ASSUME UNCHANGED <<files, leases>> PROVE FALSE BY <1>1
<1>2. ASSUME NEW N, Swept(N), UNCHANGED files PROVE FALSE BY <1>2 DEF Swept
<1>3. CASE Remove(p)
  <2>1. At(p, "remove") BY <1>3 DEF Remove
  <2>2. n = proc[p].cur BY <1>3 DEF Remove, TypeOK
  <2> QED BY <2>1, <2>2 DEF Target, At
<1>4. CASE Evict(p)
  <2>1. At(p, "evict") BY <1>4 DEF Evict
  <2>2. n = proc[p].ns BY <1>4 DEF Evict, TypeOK
  <2> QED BY <2>1, <2>2 DEF Target, At
<1>5. CASE Lease(p)
  <2>1. UNCHANGED files BY <1>5 DEF Lease
  <2>2. leases' = [leases EXCEPT ![proc[p].ns] = @ \cup {p}] BY <1>5 DEF Lease
  <2> QED BY <2>1, <2>2 DEF TypeOK
<1>6. ~(\E m \in Spaces, k \in Keys : Put(p, m, k)) BY DEF Put, TypeOK
<1>7. ~(\E m \in Spaces : Resolve(p, m) \/ Refuse(p, m) \/ LookAgain(p, m))
  BY <1>1, <1>2 DEF Resolve, Refuse, LookAgain
<1>8. ~(Survey(p) \/ LeaveList(p) \/ LookAtOwn(p) \/ EndPrune(p) \/ Claim(p))
  BY <1>1, <1>2 DEF Survey, LeaveList, LookAtOwn, EndPrune, Claim
<1>9. ~((\E m \in Spaces, k \in Keys : Get(p, m, k)) \/ Score(p) \/ Die(p))
  BY <1>1 DEF Get, Score, Die
<1> QED BY <1>3, <1>4, <1>5, <1>6, <1>7, <1>8, <1>9 DEF Step

\* A namespace that a living process holds loses a key or that lease only to a
\* pruner that looked at its leases before this one was written.
THEOREM HeldIsUntouchable == Spec => Untouchable
<1> DEFINE U == \A n \in Spaces, p \in alive :
                  p \in leases[n] /\ (files[n] \ files'[n] # {} \/ p \notin leases'[n])
                    => \E q \in Procs : Target(q) = n /\ p \in proc[q].late
<1>1. IInv /\ [Next]_vars => [U]_vars
  <2> SUFFICES ASSUME IInv, [Next]_vars, NEW n \in Spaces, NEW p \in alive, p \in leases[n],
                      files[n] \ files'[n] # {} \/ p \notin leases'[n]
               PROVE  \E q \in Procs : Target(q) = n /\ p \in proc[q].late
    OBVIOUS
  <2>1. PICK q \in Procs : Step(q) BY DEF Next, Age, vars, disk
  <2>2. Target(q) = n BY <2>1, DeletersOnly
  <2>3. p \in proc[q].late BY <2>2 DEF IInv, LateOK, TypeOK
  <2> QED BY <2>2, <2>3
<1> QED BY <1>1, Invariance, PTL DEF Spec, Untouchable

\* A namespace somebody is about to claim loses nothing to a removal that was
\* decided after it was touched: the grace window stands in for the lease.
THEOREM GraceIsEnough == Spec => GraceCovers
<1> DEFINE G == \A n \in Spaces, p, q \in Procs :
                  /\ Resolving(p, n) /\ At(q, "remove") /\ proc[q].cur = n
                  /\ files[n] \ files'[n] # {} \/ n \in (dir \ dir') \cup (liveDir \ liveDir')
                  => p \in proc[q].early
<1>1. IInv /\ [Next]_vars => [G]_vars BY DEF IInv, EarlyOK, Doomed
<1> QED BY <1>1, Invariance, PTL DEF Spec, GraceCovers

=============================================================================
