----------------------------- MODULE CandStore ------------------------------
(***************************************************************************)
(* The candidate cache's store: linkInto, the audits and the store's       *)
(* answers in packages/cli/src/candcache.ts, driven by executeCached in    *)
(* compile-command.ts.                                                     *)
(*                                                                         *)
(* Several processes compile candidates over one namespace on disk:        *)
(*   objects/<sha>   the bytes of an object, named for their own hash;     *)
(*   <key>.o         a hardlink to one of those files;                     *)
(*   <key>.fail      "the compiler rejects this candidate".                *)
(* Nothing locks the store.  A file may hold bytes it is not named for     *)
(* (Stores): the SAMPLED AUDIT withholds an answer, compares it with a     *)
(* fresh compile and repairs the store; verify mode audits every key.      *)
(*                                                                         *)
(* Between two awaits a process runs alone in its own thread, so what it   *)
(* does to its own counters is one step; what it does on disk is one step  *)
(* per file, because the other processes are not stopped.                  *)
(***************************************************************************)
EXTENDS Integers, FiniteSets

CONSTANTS
  Procs,      \* processes, each compiling one candidate at a time
  Keys,       \* candidates (translation unit, symbol, toolchain)
  Objs,       \* object contents; objects/<o> is the file named for o
  Rej,        \* the compiler's rejection
  Bad,        \* bytes no compile produces
  Empty,      \* a file cut to nothing
  None,
  Truth,      \* Truth[k]: what a compile of k gives, an object or Rej
  Stores,     \* what the directory may hold when the processes start
  Verifiers,  \* the processes in `verify` mode; the others are `on`
  MaxInodes,  \* bound: files with object bytes that exist at once
  MaxAsks,    \* bound: MaxAsks[p] is how often p is asked
  MayFail,    \* may a write to the store fail?
  MayEvict    \* may a prune in another process delete entries?

Inodes == 1..MaxInodes
Bytes  == Objs \cup {Bad, Empty}

Store == [objects : [Objs -> Inodes \cup {None}],   \* objects/<o>
          bytes   : [Inodes -> Bytes],              \* a file's contents
          keyO    : [Keys -> Inodes \cup {None}],   \* <k>.o
          fails   : SUBSET Keys]                    \* <k>.fail

ASSUME TruthAssumption == Truth \in [Keys -> Objs \cup {Rej}]

\* No file has two names under objects/, and a key that links to its own bytes
\* links to a file of that name (or of no name any more).
ASSUME StoresAssumption ==
  \A s \in Stores :
    /\ s \in Store
    /\ \A a, b \in Objs : s.objects[a] = s.objects[b] /\ s.objects[a] # None => a = b
    /\ \A k \in Keys, o \in Objs :
         s.keyO[k] # None /\ s.keyO[k] = s.objects[o] /\ s.bytes[s.keyO[k]] = Truth[k]
           => o = Truth[k]

ASSUME ModesAssumption ==
  /\ Keys # {}
  /\ Verifiers \subseteq Procs
  /\ MayFail \in BOOLEAN
  /\ MayEvict \in BOOLEAN

ASSUME BoundsAssumption == MaxInodes \in Nat \ {0} /\ MaxAsks \in [Procs -> Nat]

ASSUME DistinctAssumption ==
  /\ None \notin Nat /\ None \notin Bytes /\ None # Rej
  /\ Rej \notin Bytes
  /\ Bad \notin Objs /\ Empty \notin Objs /\ Bad # Empty

VARIABLES
  objects, bytes, keyO, fails,   \* the store (see Store)
  log,        \* the keys and objects MISMATCHES.log names
  sample,     \* sample[p]: the keys p's seed selects for an audit
  auditing,   \* auditing[p]: withheld, and not compared yet
  audited,    \* audited[p]: never to be withheld again
  stats,      \* stats[p]: the counters of p's [candcache] line
  proc        \* proc[p]: where p is in executeCached

disk == <<objects, bytes, keyO, fails>>
mine == <<sample, auditing, audited, stats>>
vars == <<disk, log, mine, proc>>

Counters == {"sampled", "verified", "verifiedFail", "mismatch",
             "sampledStale", "sampledAbandoned", "objectCorrupt"}

-----------------------------------------------------------------------------
(* What the store holds.                                                   *)

\* lookup: a non-empty object first, then a rejection, otherwise nothing.
Lookup(k) ==
  CASE keyO[k] # None /\ bytes[keyO[k]] # Empty -> bytes[keyO[k]]
    [] ~(keyO[k] # None /\ bytes[keyO[k]] # Empty) /\ k \in fails -> Rej
    [] OTHER -> None

Named  == {objects[o] : o \in Objs}
Linked == {keyO[k] : k \in Keys}
Free   == Inodes \ (Named \cup Linked \cup {proc[p].fd : p \in Procs})

-----------------------------------------------------------------------------
(* A process.                                                              *)

At(p, pc) == proc[p].pc = pc
KeyOf(p)  == proc[p].key
Fresh(p)  == Truth[KeyOf(p)]      \* what p's compile gave, when it ended

Go(p, pc) == proc' = [proc EXCEPT ![p].pc = pc]

\* `why` says whose store or repair p is in, `fd` is the file it has open.
Moved(p, pc, why, fd) ==
  [proc EXCEPT ![p] = [@ EXCEPT !.pc = pc, !.why = why, !.fd = fd]]

\* The call returns; `answer` says what the caller was handed:
\*   "hit"       what the store held, without a compile
\*   "stored"    the store's path, after p compiled
\*   "own"       p's own object
\*   "rejected"  p's own rejection
\*   "failed"    no answer: the spelling is dropped
Answers == {"none", "hit", "stored", "own", "rejected", "failed"}
Replied(p, answer) ==
  [proc EXCEPT ![p] = [@ EXCEPT !.pc = "idle", !.fd = None, !.answer = answer]]
Reply(p, answer) == proc' = Replied(p, answer)

Bump(p, c) == stats' = [stats EXCEPT ![p][c] = @ + 1]

\* Does p compare the fresh answer with the stored one before storing it?
Audits(p) == p \in Verifiers \/ KeyOf(p) \in auditing[p]

\* claimAudit
Claim(p) ==
  /\ auditing' = [auditing EXCEPT ![p] = @ \ {KeyOf(p)}]
  /\ audited' = [audited EXCEPT ![p] = @ \cup (auditing[p] \cap {KeyOf(p)})]
  /\ UNCHANGED sample

\* An audit is over.  In `on` mode that ends the call; `verify` goes on to a plain store.
AuditOver(p, answer) ==
  proc' = IF p \in Verifiers
          THEN Moved(p, IF Fresh(p) = Rej THEN "fail" ELSE "link", "put", None)
          ELSE Replied(p, answer)

Zero == [c \in Counters |-> 0]
Starting == [pc |-> "idle", key |-> CHOOSE k \in Keys : TRUE, had |-> FALSE,
             why |-> "put", fd |-> None, answer |-> "none", asks |-> 0]

Init ==
  /\ \E s \in Stores : /\ objects = s.objects /\ bytes = s.bytes
                       /\ keyO = s.keyO /\ fails = s.fails
  /\ log = {}
  /\ sample \in [Procs -> SUBSET Keys]
  /\ auditing = [p \in Procs |-> {}]
  /\ audited = [p \in Procs |-> {}]
  /\ stats = [p \in Procs |-> Zero]
  /\ proc = [p \in Procs |-> Starting]

-----------------------------------------------------------------------------
(* servedAnswer and get: the answer comes from the store, or a compile     *)
(* starts.  `had` remembers whether the store could answer when asked.     *)

Began(p, k, pc, answer) ==
  [proc[p] EXCEPT !.pc = pc, !.key = k, !.answer = answer, !.asks = proc[p].asks + 1,
                  !.why = "put", !.had = (Lookup(k) # None)]

Asked(p, k, pc, answer) ==
  /\ At(p, "idle") /\ proc[p].asks < MaxAsks[p]
  /\ proc' = [proc EXCEPT ![p] = Began(p, k, pc, answer)]
  /\ UNCHANGED <<disk, log, sample, audited>>

\* `verify` mode asks the store nothing before it compiles.
Bypass(p, k) ==
  /\ p \in Verifiers
  /\ Asked(p, k, "compile", "none")
  /\ UNCHANGED <<auditing, stats>>

Miss(p, k) ==
  /\ p \notin Verifiers /\ Lookup(k) = None
  /\ Asked(p, k, "compile", "none")
  /\ UNCHANGED <<auditing, stats>>

\* Faulty: a finished audit is forgotten.
SampledAgain(p, k) == k \in sample[p] /\ k \notin auditing[p]

Sampled(p, k) == k \in sample[p] /\ k \notin auditing[p] /\ k \notin audited[p]

\* The key the sample selects is compiled although the store has it.
Withhold(p, k) ==
  /\ p \notin Verifiers /\ Lookup(k) # None /\ Sampled(p, k)
  /\ Asked(p, k, "compile", "none")
  /\ auditing' = [auditing EXCEPT ![p] = @ \cup {k}]
  /\ Bump(p, "sampled")

Serve(p, k) ==
  /\ p \notin Verifiers /\ Lookup(k) # None /\ ~Sampled(p, k)
  /\ Asked(p, k, "idle", "hit")
  /\ UNCHANGED <<auditing, stats>>

-----------------------------------------------------------------------------
(* recordAnswer: what the store makes of a compile that just ended.        *)

\* put and putFail of a key that is not audited: a plain store (see linkInto).
PutsNow(p) == At(p, "compile") /\ Fresh(p) # Rej /\ ~Audits(p)
FailsNow(p) == At(p, "compile") /\ Fresh(p) = Rej /\ ~Audits(p)

\* auditObject and auditRejection claim, look up, compare and report together.
Compares(p) == At(p, "compile") /\ Audits(p) /\ Claim(p) /\ UNCHANGED disk

\* Nothing is left to compare with: the fresh answer is stored normally.
AuditStale(p) ==
  /\ Compares(p) /\ Lookup(KeyOf(p)) = None
  /\ IF p \in Verifiers THEN UNCHANGED stats ELSE Bump(p, "sampledStale")
  /\ Go(p, IF Fresh(p) = Rej THEN "fail" ELSE "link")
  /\ UNCHANGED log

AuditAgrees(p) ==
  /\ Compares(p) /\ Lookup(KeyOf(p)) = Fresh(p)
  /\ Bump(p, IF Fresh(p) = Rej THEN "verifiedFail" ELSE "verified")
  /\ AuditOver(p, IF Fresh(p) = Rej THEN "rejected" ELSE "stored")
  /\ UNCHANGED log

\* report, then the repair: remove what is wrong, then store what is right.
AuditDiffers(p) ==
  /\ Compares(p) /\ Lookup(KeyOf(p)) \notin {None, Fresh(p)}
  /\ Bump(p, "mismatch")
  /\ log' = log \cup {KeyOf(p)}
  /\ \/ Fresh(p) = Rej /\ proc' = Moved(p, "unobj", "audit", None)
     \/ Fresh(p) # Rej /\ Lookup(KeyOf(p)) = Rej /\ proc' = Moved(p, "unfail", "audit", None)
     \/ Fresh(p) # Rej /\ Lookup(KeyOf(p)) # Rej /\ proc' = Moved(p, "link", "audit", None)

\* Faulty: the withheld answer is not taken back.
TransientDrops(p) ==
  /\ At(p, "compile") /\ Claim(p)
  /\ IF KeyOf(p) \in auditing[p] THEN Bump(p, "sampledAbandoned") ELSE UNCHANGED stats
  /\ Reply(p, "failed")
  /\ UNCHANGED <<disk, log>>

\* A spawn failure, a time-out or a signal: abandonAudit takes the withheld answer back.
Transient(p) ==
  /\ At(p, "compile") /\ Claim(p)
  /\ IF KeyOf(p) \in auditing[p]
     THEN /\ Bump(p, "sampledAbandoned")
          /\ Reply(p, IF Lookup(KeyOf(p)) = None THEN "failed" ELSE "hit")
     ELSE UNCHANGED stats /\ Reply(p, "failed")
  /\ UNCHANGED <<disk, log>>

-----------------------------------------------------------------------------
(* linkInto: the object under its own name, then a hardlink for the key.   *)

Unfail(p) ==
  /\ At(p, "unfail")
  /\ fails' = fails \ {KeyOf(p)}
  /\ Go(p, "link")
  /\ UNCHANGED <<objects, bytes, keyO, log, mine>>

\* Faulty: a file under the object's name is taken to hold the object.
LinkReadTrusting(p) ==
  /\ At(p, "link") \/ PutsNow(p)
  /\ Go(p, IF objects[Fresh(p)] = None THEN "create" ELSE "join")
  /\ UNCHANGED <<disk, log, mine>>

\* Faulty: a corrupt object is repaired without a word.
LinkReadQuiet(p) ==
  /\ At(p, "link") \/ PutsNow(p)
  /\ Go(p, CASE objects[Fresh(p)] = None -> "create"
             [] objects[Fresh(p)] # None /\ bytes[objects[Fresh(p)]] = Fresh(p) -> "join"
             [] OTHER -> "cut")
  /\ UNCHANGED <<disk, log, mine>>

\* Faulty: a corrupt object counts as an audit that disagreed.
LinkReadCounted(p) ==
  /\ At(p, "link") \/ PutsNow(p)
  /\ LET i == objects[Fresh(p)] IN
     \/ /\ i = None
        /\ Go(p, "create") /\ UNCHANGED <<log, stats>>
     \/ /\ i # None /\ bytes[i] = Fresh(p)
        /\ Go(p, "join") /\ UNCHANGED <<log, stats>>
     \/ /\ i # None /\ bytes[i] # Fresh(p)
        /\ Bump(p, "mismatch")
        /\ log' = log \cup {Fresh(p)}
        /\ Go(p, "cut")
  /\ UNCHANGED <<disk, sample, auditing, audited>>

\* Existence is not content: the file under the object's name is read and compared.
LinkRead(p) ==
  /\ At(p, "link") \/ PutsNow(p)
  /\ LET i == objects[Fresh(p)] IN
     \/ /\ i = None
        /\ Go(p, "create") /\ UNCHANGED <<log, stats>>
     \/ /\ i # None /\ bytes[i] = Fresh(p)
        /\ Go(p, "join") /\ UNCHANGED <<log, stats>>
     \/ /\ i # None /\ bytes[i] # Fresh(p)
        /\ Bump(p, "objectCorrupt")
        /\ log' = log \cup {Fresh(p)}
        /\ Go(p, "cut")
  /\ UNCHANGED <<disk, sample, auditing, audited>>

\* writeAtomic: a new file renamed over the name.
Create(p) ==
  /\ At(p, "create") /\ Free # {}
  /\ \E i \in {CHOOSE j \in Free : TRUE} :
       /\ objects' = [objects EXCEPT ![Fresh(p)] = i]
       /\ bytes' = [bytes EXCEPT ![i] = Fresh(p)]
  /\ Go(p, "join")
  /\ UNCHANGED <<keyO, fails, log, mine>>

\* The in-place repair opens the name, which cuts the file (or makes a new one)...
Cut(p) ==
  /\ At(p, "cut")
  /\ \E i \in IF objects[Fresh(p)] # None THEN {objects[Fresh(p)]}
              ELSE {j \in Free : j = CHOOSE l \in Free : TRUE} :
       /\ objects' = [objects EXCEPT ![Fresh(p)] = i]
       /\ bytes' = [bytes EXCEPT ![i] = Empty]
       /\ proc' = Moved(p, "write", proc[p].why, i)
  /\ UNCHANGED <<keyO, fails, log, mine>>

\* Faulty: the file stays open.
WriteOpen(p) ==
  /\ At(p, "write")
  /\ bytes' = [bytes EXCEPT ![proc[p].fd] = Fresh(p)]
  /\ Go(p, "join")
  /\ UNCHANGED <<objects, keyO, fails, log, mine>>

\* ...and then writes the bytes, through whatever still links to it.
Write(p) ==
  /\ At(p, "write")
  /\ bytes' = [bytes EXCEPT ![proc[p].fd] = Fresh(p)]
  /\ proc' = Moved(p, "join", proc[p].why, None)
  /\ UNCHANGED <<objects, keyO, fails, log, mine>>

\* linkSync to a temporary name and rename over the key's.
Join(p) ==
  /\ At(p, "join") /\ objects[Fresh(p)] # None
  /\ keyO' = [keyO EXCEPT ![KeyOf(p)] = objects[Fresh(p)]]
  /\ IF proc[p].why = "audit" THEN Go(p, "return") ELSE Reply(p, "stored")
  /\ UNCHANGED <<objects, bytes, fails, log, mine>>

\* An audited put hands out the store's path only if it is still there.
Return(p) ==
  /\ At(p, "return")
  /\ AuditOver(p, IF keyO[KeyOf(p)] # None THEN "stored" ELSE "own")
  /\ UNCHANGED <<disk, log, mine>>

-----------------------------------------------------------------------------
(* The negative half, and what happens when the store cannot be written.   *)

Unobj(p) ==
  /\ At(p, "unobj")
  /\ keyO' = [keyO EXCEPT ![KeyOf(p)] = None]
  /\ Go(p, "fail")
  /\ UNCHANGED <<objects, bytes, fails, log, mine>>

WriteFail(p) ==
  /\ At(p, "fail") \/ FailsNow(p)
  /\ fails' = fails \cup {KeyOf(p)}
  /\ IF proc[p].why = "audit" THEN AuditOver(p, "rejected") ELSE Reply(p, "rejected")
  /\ UNCHANGED <<objects, bytes, keyO, log, mine>>

\* linkSync finds the object gone, and so does the copy that stands in for it.
JoinLost(p) == At(p, "join") /\ objects[Fresh(p)] = None

Writes == {"unfail", "link", "create", "cut", "write", "join", "unobj", "fail"}

\* A write throws.  A plain store gives up; a repair leaves the entry to be discarded.
StoreFails(p) ==
  /\ JoinLost(p) \/ (MayFail /\ (proc[p].pc \in Writes \/ PutsNow(p) \/ FailsNow(p)))
  /\ IF proc[p].why = "audit"
     THEN proc' = Moved(p, "discard", "audit", None)
     ELSE Reply(p, IF Fresh(p) = Rej THEN "rejected" ELSE "own")
  /\ UNCHANGED <<disk, log, mine>>

\* Faulty: the store's path is served although the repair did not land.
DiscardServes(p) ==
  /\ At(p, "discard")
  /\ \E object, rejection \in IF MayFail THEN BOOLEAN ELSE {TRUE} :
       /\ keyO' = IF object THEN [keyO EXCEPT ![KeyOf(p)] = None] ELSE keyO
       /\ fails' = IF rejection THEN fails \ {KeyOf(p)} ELSE fails
  /\ AuditOver(p, IF Fresh(p) = Rej THEN "rejected" ELSE "stored")
  /\ UNCHANGED <<objects, bytes, log, mine>>

\* discard: best effort, so where writes may fail either removal may.
Discard(p) ==
  /\ At(p, "discard")
  /\ \E object, rejection \in IF MayFail THEN BOOLEAN ELSE {TRUE} :
       /\ keyO' = IF object THEN [keyO EXCEPT ![KeyOf(p)] = None] ELSE keyO
       /\ fails' = IF rejection THEN fails \ {KeyOf(p)} ELSE fails
  /\ AuditOver(p, IF Fresh(p) = Rej THEN "rejected" ELSE "own")
  /\ UNCHANGED <<objects, bytes, log, mine>>

-----------------------------------------------------------------------------
(* Kills, and the prune of a process that is not modelled.                 *)

\* A process killed inside a call loses what it had in memory.
Kill(p) ==
  /\ proc[p].pc \notin {"idle", "dead"}
  /\ proc' = [proc EXCEPT ![p] = [Starting EXCEPT !.pc = "dead"]]
  /\ sample' = [sample EXCEPT ![p] = {}]
  /\ auditing' = [auditing EXCEPT ![p] = {}]
  /\ audited' = [audited EXCEPT ![p] = {}]
  /\ stats' = [stats EXCEPT ![p] = Zero]
  /\ UNCHANGED <<disk, log>>

Evict(k) ==
  /\ MayEvict
  /\ \/ keyO[k] # None /\ keyO' = [keyO EXCEPT ![k] = None] /\ UNCHANGED fails
     \/ k \in fails /\ fails' = fails \ {k} /\ UNCHANGED keyO
  /\ UNCHANGED <<objects, bytes, log, mine, proc>>

\* reapUnlinked: an object no key links to.
Reap(o) ==
  /\ MayEvict
  /\ objects[o] # None /\ objects[o] \notin Linked
  /\ objects' = [objects EXCEPT ![o] = None]
  /\ UNCHANGED <<bytes, keyO, fails, log, mine, proc>>

Step(p) ==
  \/ \E k \in Keys : Bypass(p, k) \/ Miss(p, k) \/ Withhold(p, k) \/ Serve(p, k)
  \/ AuditStale(p) \/ AuditAgrees(p) \/ AuditDiffers(p)
  \/ Transient(p)
  \/ Unfail(p) \/ LinkRead(p) \/ Create(p) \/ Cut(p) \/ Write(p) \/ Join(p)
  \/ Return(p) \/ Unobj(p) \/ WriteFail(p) \/ StoreFails(p) \/ Discard(p)

Prune == (\E k \in Keys : Evict(k)) \/ (\E o \in Objs : Reap(o))

Next == (\E p \in Procs : Step(p) \/ Kill(p)) \/ Prune

Spec == Init /\ [][Next]_vars

-----------------------------------------------------------------------------
(* Properties.                                                             *)

Pcs == Writes \cup {"idle", "compile", "return", "discard", "dead"}
Call == [pc : Pcs, key : Keys, had : BOOLEAN, why : {"put", "audit"},
         fd : Inodes \cup {None}, answer : Answers, asks : Nat]

\* Every variable has its type, and a file being written is held by its writer alone.
TypeOK ==
  /\ objects \in [Objs -> Inodes \cup {None}]
  /\ bytes \in [Inodes -> Bytes]
  /\ keyO \in [Keys -> Inodes \cup {None}]
  /\ fails \subseteq Keys
  /\ log \subseteq Keys \cup Objs
  /\ sample \in [Procs -> SUBSET Keys]
  /\ auditing \in [Procs -> SUBSET Keys]
  /\ audited \in [Procs -> SUBSET Keys]
  /\ stats \in [Procs -> [Counters -> Nat]]
  /\ proc \in [Procs -> Call]
  /\ \A p \in Procs : proc[p].fd # None <=> proc[p].pc = "write"

\* cacheStats: "sampled = verified + verifiedFail + mismatch + sampledStale +
\* sampledAbandoned + sampledPending", whatever the order of asks, time-outs,
\* repairs, failures and kills: every withheld key is accounted for exactly once.
Reconciles ==
  \A p \in Procs \ Verifiers :
    stats[p]["sampled"] = stats[p]["verified"] + stats[p]["verifiedFail"]
                        + stats[p]["mismatch"] + stats[p]["sampledStale"]
                        + stats[p]["sampledAbandoned"] + Cardinality(auditing[p])

\* Whoever compiled is handed the truth: the path a put returns holds the fresh
\* bytes, is gone, or is being rewritten in place by somebody (`Empty`), and
\* never the bytes an audit has just reported as wrong.
StoredIsTruth ==
  \A p \in Procs :
    At(p, "idle") /\ proc[p].answer = "stored" /\ keyO[KeyOf(p)] # None
      => bytes[keyO[KeyOf(p)]] \in {Fresh(p), Empty}

\* Wrong bytes never spread.  An entry a process installs holds what its key
\* compiles to (or is mid-repair), even when it dedups onto a file that existed:
\* the file under the object's name is compared, not trusted.
NeverSpreads ==
  [][/\ \A k \in Keys : keyO'[k] \notin {keyO[k], None}
                          => bytes'[keyO'[k]] \in {Truth[k], Empty}
     /\ \A k \in fails' \ fails : Truth[k] = Rej]_vars

\* A wrong answer is never put right in silence: when a key the store answered
\* wrongly is answered rightly, MISMATCHES.log names the key, its object or the
\* object it was answered with, so the gate that reads the log fails the run.
NoSilentRepair ==
  [][\A k \in Keys : Lookup(k) \notin {None, Truth[k]} /\ Lookup(k)' = Truth[k]
       => {k, Truth[k], Lookup(k)} \cap log' # {}]_vars

\* "Withheld at most once": each selected key costs a process one compile, even
\* when that compile timed out, the audit found nothing or the repair failed.
WithheldOnce ==
  \A p \in Procs : stats[p]["sampled"] <= Cardinality(sample[p])

\* Sampling is never worse than not sampling: a call fails for want of a compile
\* only if the store could not answer when it was asked, or no longer can.
NeverWorse ==
  [][\A p \in Procs \ Verifiers :
       At(p, "compile") /\ proc'[p].answer = "failed" /\ proc[p].had
         => Lookup(KeyOf(p)) = None]_vars

\* The layout comment: <key>.o is "a HARDLINK to the object above", so that a
\* repair through the object's file reaches every key that holds those bytes.
KeysAreHardlinks ==
  \A k \in Keys, o \in Objs :
    keyO[k] # None /\ bytes[keyO[k]] = o /\ objects[o] # None => keyO[k] = objects[o]

=============================================================================
