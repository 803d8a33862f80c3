----------------------------- MODULE CandLease ------------------------------
(***************************************************************************)
(* Leases and the prune of the candidate cache: claimNamespace,            *)
(* namespaceIsLive, pruneOnce and namespace() in                           *)
(* packages/cli/src/candcache.ts.                                          *)
(*                                                                         *)
(* A namespace is a directory ns/<n> of key files, one per toolchain.  A   *)
(* process that resolves one touches it, prunes the store (once in its     *)
(* life), and claims it by writing a lease into ns/<n>/.live.  From then   *)
(* on its callers are handed PATHS into ns/<n> that they open later, and   *)
(* only the lease tells a pruner in another process to keep away.          *)
(*                                                                         *)
(* A process resolves without an await, so it is a sequence of steps on    *)
(* disk with which only other processes interleave.                        *)
(***************************************************************************)
EXTENDS FiniteSets

CONSTANTS
  Procs,     \* processes, each with a pid of its own
  Spaces,    \* namespaces
  Keys,      \* key files of a namespace
  Pruners,   \* the processes that may prune; the others are compile workers
  None

ASSUME PrunersAssumption == Pruners \subseteq Procs
ASSUME NoneAssumption == None \notin Spaces

VARIABLES
  dir,       \* the namespaces whose directory exists
  liveDir,   \* the namespaces whose .live directory exists
  files,     \* files[n]: the key files in ns/<n>
  leases,    \* leases[n]: the processes with a lease file in ns/<n>/.live
  young,     \* the namespaces touched within PRUNE_GRACE_MS
  alive,     \* the processes whose pid answers
  using,     \* using[p]: the namespaces p has claimed
  refused,   \* refused[p]: the namespaces p gave up on (a cold store)
  pruned,    \* has p pruned, or will it never?
  held,      \* held[p]: the paths p's callers were handed and have not read yet
  proc       \* proc[p]: where p is in namespace()

disk == <<dir, liveDir, files, leases, young>>
mine == <<using, refused, pruned, held>>
vars == <<disk, alive, mine, proc>>

\* `todo` are the namespaces the survey chose, `cur` the one being removed,
\* `keys` those being evicted.  Two ghosts say what a pruner cannot know:
\* `early` touched their namespace since its survey, and `late` claimed the
\* one it deletes from since it last looked at the leases there.
Ready == [pc |-> "ready", ns |-> None, todo |-> {}, cur |-> None,
          keys |-> {}, early |-> {}, late |-> {}]

Init ==
  /\ files \in [Spaces -> SUBSET Keys]
  /\ dir = {n \in Spaces : files[n] # {}}
  /\ liveDir = {} /\ young = {}
  /\ leases = [n \in Spaces |-> {}]
  /\ alive = Procs
  /\ using = [p \in Procs |-> {}] /\ refused = [p \in Procs |-> {}]
  /\ pruned = [p \in Procs |-> p \notin Pruners]
  /\ held = [p \in Procs |-> {}]
  /\ proc = [p \in Procs |-> Ready]

At(p, pc) == p \in alive /\ proc[p].pc = pc

\* Is the namespace p resolves under way?
Resolving(p, n) == p \in alive /\ proc[p].pc # "ready" /\ proc[p].ns = n

\* namespaceIsLive, and the leases it sweeps: a lease counts while its pid answers.
Live(n)  == leases[n] \cap alive # {}
Swept(N) == leases' = [n \in Spaces |-> IF n \in N THEN leases[n] \cap alive ELSE leases[n]]

Become(p, r) == proc' = [proc EXCEPT ![p] = r]
Go(p, pc)    == Become(p, [proc[p] EXCEPT !.pc = pc])

\* The namespace q is deleting from, if it is.
Target(q) ==
  CASE At(q, "remove") -> proc[q].cur
    [] At(q, "evict")  -> proc[q].ns
    [] OTHER           -> None

-----------------------------------------------------------------------------
(* namespace(): touch, prune once, claim.                                  *)

Touched(p, n) ==
  [q \in Procs |->
     IF q = p THEN [Ready EXCEPT !.pc = IF pruned[p] THEN "claim" ELSE "prune", !.ns = n]
     ELSE [proc[q] EXCEPT !.early = @ \cup {p}]]

CanResolve(p, n) == At(p, "ready") /\ n \notin using[p] \cup refused[p]

\* Faulty: only a prune that finds the store over its cap is remembered.
ResolveForgets(p, n) ==
  /\ CanResolve(p, n)
  /\ dir' = dir \cup {n} /\ young' = young \cup {n}
  /\ proc' = Touched(p, n)
  /\ UNCHANGED <<liveDir, files, leases, alive, mine>>

\* mkdir, utimes, and the check that this process has not pruned yet.
Resolve(p, n) ==
  /\ CanResolve(p, n)
  /\ dir' = dir \cup {n} /\ young' = young \cup {n}
  /\ proc' = Touched(p, n)
  /\ pruned' = [pruned EXCEPT ![p] = TRUE]
  /\ UNCHANGED <<liveDir, files, leases, alive, using, refused, held>>

\* mkdir -p ns/<n>/.live, and the sweep of the leases whose process is gone.
Claim(p) ==
  /\ At(p, "claim")
  /\ LET n == proc[p].ns IN
     /\ dir' = dir \cup {n} /\ liveDir' = liveDir \cup {n} /\ young' = young \cup {n}
     /\ Swept({n})
  /\ Go(p, "lease")
  /\ UNCHANGED <<files, alive, mine>>

\* The lease file is written: the namespace is this process's until it dies.
Lease(p) ==
  /\ At(p, "lease") /\ proc[p].ns \in liveDir
  /\ leases' = [leases EXCEPT ![proc[p].ns] = @ \cup {p}]
  /\ using' = [using EXCEPT ![p] = @ \cup {proc[p].ns}]
  /\ proc' = [q \in Procs |->
       IF q = p THEN Ready
       ELSE [proc[q] EXCEPT !.late = IF Target(q) = proc[p].ns THEN @ \cup {p} ELSE @]]
  /\ UNCHANGED <<dir, liveDir, files, young, alive, refused, pruned, held>>

\* A store this process cannot prepare is a cold store: whatever throws (a
\* directory that cannot be made, a .live removed under the lease) refuses it.
Refuse(p, n) ==
  /\ \/ CanResolve(p, n)
     \/ (At(p, "claim") \/ At(p, "lease")) /\ proc[p].ns = n
  /\ refused' = [refused EXCEPT ![p] = @ \cup {n}]
  /\ Become(p, Ready)
  /\ UNCHANGED <<disk, alive, using, pruned, held>>

-----------------------------------------------------------------------------
(* pruneOnce: other namespaces first, whole; then its own, key by key.     *)

Gather(p, N) ==
  Become(p, [proc[p] EXCEPT !.pc = "list", !.todo = {n \in N : ~Live(n)}, !.early = {}])

\* Faulty: the grace window is not looked at.
SurveyAll(p) ==
  /\ At(p, "prune")
  /\ LET old == dir \ {proc[p].ns} IN Swept(old) /\ Gather(p, old)
  /\ UNCHANGED <<dir, liveDir, files, young, alive, mine>>

\* Over the cap: the other namespaces that nobody touched lately or holds.
Survey(p) ==
  /\ At(p, "prune")
  /\ LET old == dir \ ({proc[p].ns} \cup young) IN Swept(old) /\ Gather(p, old)
  /\ UNCHANGED <<dir, liveDir, files, young, alive, mine>>

Chosen(p, n) ==
  Become(p, [proc[p] EXCEPT !.pc = "remove", !.cur = n, !.todo = @ \ {n}, !.late = {}])

\* Faulty: the survey's answer is taken for the present one.
LookOnce(p, n) ==
  /\ At(p, "list") /\ n \in proc[p].todo
  /\ Chosen(p, n)
  /\ UNCHANGED <<disk, alive, mine>>

\* The leases are asked again, immediately before the removal starts.
LookAgain(p, n) ==
  /\ At(p, "list") /\ n \in proc[p].todo
  /\ Swept({n})
  /\ IF Live(n) THEN Become(p, [proc[p] EXCEPT !.todo = @ \ {n}]) ELSE Chosen(p, n)
  /\ UNCHANGED <<dir, liveDir, files, young, alive, mine>>

\* Faulty: the directory goes although it is not empty yet.
RemoveHasty(p) ==
  /\ At(p, "remove")
  /\ dir' = dir \ {proc[p].cur} /\ young' = young \ {proc[p].cur}
  /\ Go(p, "list")
  /\ UNCHANGED <<liveDir, files, leases, alive, mine>>

\* rmSync of a directory: its entries, one by one, and then itself.  Removing an
\* entry of ns/<n> itself, as .live is, renews its mtime (a key file may be the
\* last of its subdirectory).
Remove(p) ==
  /\ At(p, "remove")
  /\ LET n == proc[p].cur IN
     \/ /\ \E k \in files[n] : files' = [files EXCEPT ![n] = @ \ {k}]
        /\ young' \in {young, young \cup {n}}
        /\ UNCHANGED <<dir, liveDir, leases, proc>>
     \/ /\ \E l \in leases[n] : leases' = [leases EXCEPT ![n] = @ \ {l}]
        /\ UNCHANGED <<dir, liveDir, files, young, proc>>
     \/ /\ n \in liveDir /\ leases[n] = {}
        /\ liveDir' = liveDir \ {n} /\ young' = young \cup {n}
        /\ UNCHANGED <<dir, files, leases, proc>>
     \/ /\ files[n] = {} /\ n \notin liveDir
        /\ dir' = dir \ {n} /\ young' = young \ {n}
        /\ Go(p, "list")
        /\ UNCHANGED <<liveDir, files, leases>>
  /\ UNCHANGED <<alive, mine>>

\* No namespace is left, the cost is low enough, or the budget is spent.
LeaveList(p) ==
  /\ At(p, "list")
  /\ Go(p, "own")
  /\ UNCHANGED <<disk, alive, mine>>

Listed(p) ==
  Become(p, [proc[p] EXCEPT !.pc = "evict", !.keys = files[proc[p].ns], !.late = {}])

\* Faulty: whoever else holds the namespace is not asked.
LookAtNone(p) ==
  /\ At(p, "own") /\ proc[p].ns \in dir
  /\ Listed(p)
  /\ UNCHANGED <<disk, alive, mine>>

\* Its own namespace, if no other process holds it (p has no lease there yet).
LookAtOwn(p) ==
  /\ At(p, "own") /\ proc[p].ns \in dir
  /\ ~Live(proc[p].ns)
  /\ Swept({proc[p].ns})
  /\ Listed(p)
  /\ UNCHANGED <<dir, liveDir, files, young, alive, mine>>

Evict(p) ==
  /\ At(p, "evict")
  /\ \E k \in proc[p].keys :
       /\ files' = [files EXCEPT ![proc[p].ns] = @ \ {k}]
       /\ Become(p, [proc[p] EXCEPT !.keys = @ \ {k}])
  /\ UNCHANGED <<dir, liveDir, leases, young, alive, mine>>

Pruning == {"prune", "list", "remove", "own", "evict"}

\* Under the cap, out of keys or of budget, held back, or cut short by a throw
\* that pruneOnce swallows.
EndPrune(p) ==
  /\ p \in alive /\ proc[p].pc \in Pruning
  /\ Go(p, "claim")
  /\ UNCHANGED <<disk, alive, mine>>

-----------------------------------------------------------------------------
(* get and put: a caller is handed a path, and reads it a moment later.    *)

Get(p, n, k) ==
  /\ At(p, "ready") /\ n \in using[p] /\ k \in files[n]
  /\ held' = [held EXCEPT ![p] = @ \cup {<<n, k>>}]
  /\ UNCHANGED <<disk, alive, using, refused, pruned, proc>>

\* A put makes the directory anew if it must, or a subdirectory if it must.
Put(p, n, k) ==
  /\ At(p, "ready") /\ n \in using[p]
  /\ dir' = dir \cup {n}
  /\ \/ young' = young \cup {n}
     \/ n \in dir /\ young' = young
  /\ files' = [files EXCEPT ![n] = @ \cup {k}]
  /\ held' = [held EXCEPT ![p] = @ \cup {<<n, k>>}]
  /\ UNCHANGED <<liveDir, leases, alive, using, refused, pruned, proc>>

Score(p) ==
  /\ At(p, "ready") /\ held[p] # {}
  /\ held' = [held EXCEPT ![p] = {}]
  /\ UNCHANGED <<disk, alive, using, refused, pruned, proc>>

-----------------------------------------------------------------------------
(* Time and death.                                                         *)

\* An hour goes by.  Between its touch and its lease a process takes seconds
\* (PRUNE_BUDGET_MS is 30 s), so it is never caught there.
Age(n) ==
  /\ n \in young /\ \A p \in Procs : ~Resolving(p, n)
  /\ young' = young \ {n}
  /\ UNCHANGED <<dir, liveDir, files, leases, alive, mine, proc>>

\* A process ends, well or not: no handler removes its leases.
Die(p) ==
  /\ p \in alive
  /\ alive' = alive \ {p}
  /\ held' = [held EXCEPT ![p] = {}]
  /\ using' = [using EXCEPT ![p] = {}]
  /\ Become(p, Ready)
  /\ UNCHANGED <<disk, refused, pruned>>

Step(p) ==
  \/ \E n \in Spaces : Resolve(p, n) \/ Refuse(p, n) \/ LookAgain(p, n)
  \/ Survey(p) \/ Remove(p) \/ LeaveList(p) \/ LookAtOwn(p) \/ Evict(p) \/ EndPrune(p)
  \/ Claim(p) \/ Lease(p)
  \/ \E n \in Spaces, k \in Keys : Get(p, n, k) \/ Put(p, n, k)
  \/ Score(p)
  \/ Die(p)

Next == (\E p \in Procs : Step(p)) \/ (\E n \in Spaces : Age(n))

Spec == Init /\ [][Next]_vars

-----------------------------------------------------------------------------
(* Properties.                                                             *)

Pcs == Pruning \cup {"ready", "claim", "lease"}

Call == [pc : Pcs, ns : Spaces \cup {None}, todo : SUBSET Spaces,
         cur : Spaces \cup {None}, keys : SUBSET Keys,
         early : SUBSET Procs, late : SUBSET Procs]

\* Every variable has its type, and what is in a directory has that directory.
TypeOK ==
  /\ dir \subseteq Spaces /\ liveDir \subseteq dir /\ young \subseteq dir
  /\ files \in [Spaces -> SUBSET Keys]
  /\ leases \in [Spaces -> SUBSET Procs]
  /\ \A n \in Spaces : (files[n] # {} => n \in dir) /\ (leases[n] # {} => n \in liveDir)
  /\ alive \subseteq Procs
  /\ using \in [Procs -> SUBSET Spaces]
  /\ refused \in [Procs -> SUBSET Spaces]
  /\ pruned \in [Procs -> BOOLEAN]
  /\ held \in [Procs -> SUBSET (Spaces \X Keys)]
  /\ proc \in [Procs -> Call]

\* "A pruner treats a namespace with a live lease as untouchable", up to the
\* race the code leaves: a key or a live lease goes from a namespace that a
\* living process holds only at the hand of a pruner that had looked at the
\* leases there before that one was written.
Untouchable ==
  [][\A n \in Spaces, p \in alive :
       p \in leases[n] /\ (files[n] \ files'[n] # {} \/ p \notin leases'[n])
         => \E q \in Procs : Target(q) = n /\ p \in proc[q].late]_vars

\* The grace window covers "a shard that has not claimed its lease yet": a
\* namespace somebody is about to claim loses nothing to a removal, unless the
\* remover had chosen it before it was touched.
GraceCovers ==
  [][\A n \in Spaces, p, q \in Procs :
       /\ Resolving(p, n) /\ At(q, "remove") /\ proc[q].cur = n
       /\ files[n] \ files'[n] # {} \/ n \in (dir \ dir') \cup (liveDir \ liveDir')
       => p \in proc[q].early]_vars

\* A process prunes "NEVER while candidates are in flight": its one prune comes
\* before the first namespace it claims, however many it resolves later.
PruneComesFirst == \A p \in Procs : proc[p].pc \in Pruning => using[p] = {} /\ held[p] = {}

\* "Claim this namespace for the life of the process": who uses a namespace
\* has its lease in it.
ClaimedForLife == \A p \in Procs, n \in Spaces : n \in using[p] => p \in leases[n]

\* "What makes eviction safe [...] is that no OTHER process holds this
\* namespace": a path a caller was handed stays until it is read.
ServedStays == \A p \in Procs : \A path \in held[p] : path[2] \in files[path[1]]

=============================================================================
