------------------------------ MODULE RankDriver ------------------------------
(***************************************************************************)
(* The ranked driver of one row (packages/cli/src/rank.ts,                 *)
(* decompileRankedParallel) over a pool of compile worker processes        *)
(* (apps/benchmark/src/eval/compile-pool.ts), as rankRow composes them:    *)
(* the default candidate alone, then the probes of the stillborn rule      *)
(* (packages/core/src/stillborn.ts), then the rest, each phase spread over *)
(* the workers, and rankBy (packages/core/src/rank.ts) over what they      *)
(* answered.  A worker may die at any moment; an answer and the death of   *)
(* the process that sent it reach the parent in either order.              *)
(*                                                                         *)
(* A candidate is its place in the enumeration; 1 is the default.  What a  *)
(* compile comes to is a fact of the candidate (truth), and a refusal      *)
(* counts, per attempt of the compile ladder, how often each message was   *)
(* printed.  A compile marked "attempts unread" keeps its refusal but may  *)
(* lose attempts of it (apps/benchmark/src/compile/real.ts, deadRung).     *)
(***************************************************************************)
EXTENDS Integers, FiniteSets, FiniteSetsExt, SequencesExt, Totals

CONSTANTS N,            \* the fan's size
          Workers,      \* the compile worker processes
          Signedness,   \* the names of variations that choose a signedness half
          Rows,         \* the rows: a fan [names, pref, matchOnly] and each candidate's truth
          None

ASSUME RankAssumption ==
  /\ N \in Nat \ {0}
  /\ Workers # {} /\ IsFiniteSet(Workers) /\ None \notin 1..N
  /\ \A r \in Rows : r = [fan |-> r.fan, truth |-> r.truth]
  /\ \A r \in Rows, c \in 1..N :
       /\ IsFiniteSet(r.fan.names[c])
       /\ \E k \in {"scored", "refused", "thrown"} :
            r.truth[c] = [kind |-> k, score |-> r.truth[c].score, errors |-> r.truth[c].errors]

Cands == 1..N

VARIABLES
  fan, truth,   \* the row, chosen once
  phase,        \* "default", "probes", "rest": pooling; "collect", "stop": close(); "over"
  queue,        \* the indices of this phase nobody has taken
  busy,         \* the candidate each worker's compile holds, None while it holds none
  scored,       \* what the driver has memoized
  engine,       \* the scoring engine failed
  answer,       \* what the driver returns to rankRow, before close()
  process,      \* a worker process: "up", "dead", and "gone" once its exit was delivered
  mail,         \* its reply on the way: "none", "object", "stats"
  died, failure, \* what the pool has noticed, of one worker and of any
  stats,        \* "unasked", "asked", "absorbed", "lost"
  did,          \* compiles a worker process has answered: its own counters
  absorbed,     \* the counters this process has taken over
  row           \* what rankRow settles to

driverVars == <<phase, queue, busy, scored, engine, answer>>
poolVars   == <<process, mail, died, failure, stats, did, absorbed>>
vars       == <<fan, truth, driverVars, poolVars, row>>

-----------------------------------------------------------------------------
(* The stillborn rule and rankBy: functions of a fan f and of the outcomes  *)
(* out.                                                                     *)

HalfOf(f, c) == {d \in Cands : f.names[d] \cap Signedness = f.names[c] \cap Signedness}
Halves(f)    == {HalfOf(f, c) : c \in Cands}
Opener(h)    == CHOOSE c \in h : \A d \in h : c <= d

Carries(f, h, v) == {c \in h : v \in f.names[c]}
Simplest(f, h, v) ==
  CHOOSE c \in Carries(f, h, v) : \A d \in Carries(f, h, v) :
    \/ Cardinality(f.names[c]) < Cardinality(f.names[d])
    \/ Cardinality(f.names[c]) = Cardinality(f.names[d]) /\ c <= d

ProbesOf(f, h) == {Simplest(f, h, v) : v \in UNION {f.names[c] : c \in h}} \ {Opener(h)}
Tried(f)       == UNION {{Opener(h)} \cup ProbesOf(f, h) : h \in Halves(f)}

Readable(o) == o.kind = "refused"

\* A message survives an attempt when every probe prints it exactly as often as the default does.
Survives(f, out, h) ==
  LET d == Opener(h) IN
  /\ Readable(out[d])
  /\ \A p \in ProbesOf(f, h) : Readable(out[p]) /\ DOMAIN out[p].errors = DOMAIN out[d].errors
  /\ \A l \in DOMAIN out[d].errors : \E m \in DOMAIN out[d].errors[l] :
       /\ out[d].errors[l][m] > 0
       /\ \A p \in ProbesOf(f, h) : out[p].errors[l][m] = out[d].errors[l][m]

Stillborn(f, out) == \A h \in Halves(f) : Survives(f, out, h)

\* What rankBy reads of an outcome past the verdict.
Shown(out) == [c \in Cands |-> [kind |-> out[c].kind, score |-> out[c].score]]

Withheld(f, sh, c) == c \in f.matchOnly /\ sh[c].score # 0
Published(f, sh)   == {c \in Cands : sh[c].kind = "scored" /\ ~Withheld(f, sh, c)}

\* compareScored: the score, then what the text says of itself, then the place in the enumeration.
Better(f, sh, c, d) ==
  \/ sh[c].score < sh[d].score
  \/ /\ sh[c].score = sh[d].score
     /\ f.pref[c] < f.pref[d] \/ (f.pref[c] = f.pref[d] /\ c < d)

Ranked(f, sh) ==
  [kind    |-> IF Published(f, sh) = {} THEN "unscorable" ELSE "ranked",
   list    |-> SetToSortSeq(Published(f, sh), LAMBDA c, d : Better(f, sh, c, d)),
   dropped |-> {c \in Cands : sh[c].kind # "scored"}]

rankBy(f, out) ==
  IF Stillborn(f, out) THEN [kind |-> "stillborn", list |-> <<>>, dropped |-> Tried(f)]
                       ELSE Ranked(f, Shown(out))

-----------------------------------------------------------------------------
Outcome(k) == [kind |-> k, score |-> 0, errors |-> <<>>]
Unscored   == Outcome("unscored")
Dead       == Outcome("died")
Verdict(k) == [kind |-> k, list |-> <<>>, dropped |-> {}]
Failed     == Verdict("failed")

Pooling == phase \in {"default", "probes", "rest"}
Idle    == \A w \in Workers : busy[w] = None

Init ==
  /\ \E r \in Rows : fan = r.fan /\ truth = r.truth
  /\ phase = "default" /\ queue = {1}
  /\ busy = [w \in Workers |-> None]
  /\ scored = [c \in Cands |-> Unscored]
  /\ engine = FALSE /\ answer = None
  /\ process = [w \in Workers |-> "up"]
  /\ mail = [w \in Workers |-> "none"]
  /\ died = [w \in Workers |-> FALSE] /\ failure = FALSE
  /\ stats = [w \in Workers |-> "unasked"]
  /\ did = [w \in Workers |-> 0] /\ absorbed = 0
  /\ row = None

\* Faulty: a loop goes on past the end of the queue.
ClaimPast(w) ==
  /\ Pooling /\ busy[w] = None /\ ~engine
  /\ busy' = [busy EXCEPT ![w] = IF queue = {} THEN N + 1 ELSE Min(queue)]
  /\ queue' = IF queue = {} THEN {} ELSE queue \ {Min(queue)}
  /\ UNCHANGED <<fan, truth, phase, scored, engine, answer, poolVars, row>>

\* A worker's loop takes the next unclaimed index; a compiler whose process died refuses at once.
Claim(w) ==
  /\ Pooling /\ busy[w] = None /\ ~engine /\ queue # {}
  /\ LET c == Min(queue) IN
     /\ queue' = queue \ {c}
     /\ IF died[w] THEN scored' = [scored EXCEPT ![c] = Dead] /\ UNCHANGED busy
                   ELSE busy' = [busy EXCEPT ![w] = c] /\ UNCHANGED scored
  /\ UNCHANGED <<fan, truth, phase, engine, answer, poolVars, row>>

\* The process answers the request it holds: an object or an error, or its counters.
Reply(w) ==
  /\ process[w] = "up" /\ mail[w] = "none"
  /\ \/ /\ busy[w] # None
        /\ mail' = [mail EXCEPT ![w] = "object"]
        /\ did' = [did EXCEPT ![w] = @ + 1]
     \/ /\ stats[w] = "asked"
        /\ mail' = [mail EXCEPT ![w] = "stats"] /\ UNCHANGED did
  /\ UNCHANGED <<fan, truth, driverVars, process, died, failure, stats, absorbed, row>>

\* Faulty: an attempt may go unread before the verdict, too.
CompiledUnread(c) ==
  IF phase # "default" /\ Readable(truth[c])
  THEN {[truth[c] EXCEPT !.errors = [l \in {m} |-> truth[c].errors[l]]] : m \in DOMAIN truth[c].errors}
  ELSE {truth[c]}

\* What a compile comes to: past the verdict nothing reads a refusal's attempts, and some may be
\* skipped.  A rung that is skipped keeps whether running it would have refused (deadRung), so
\* the kind is the truth's.
Compiled(c) ==
  IF phase = "rest" /\ Readable(truth[c])
  THEN {[truth[c] EXCEPT !.errors = [l \in L |-> truth[c].errors[l]]]
          : L \in (SUBSET DOMAIN truth[c].errors) \ {{}}}
  ELSE {truth[c]}

\* An object is scored the moment it lands; an engine that fails once fails every later score.
Score(w) ==
  LET c == busy[w] IN
  \/ /\ truth[c].kind = "scored"
     /\ engine' = TRUE /\ UNCHANGED scored
  \/ /\ ~(engine /\ truth[c].kind = "scored")
     /\ \E o \in Compiled(c) : scored' = [scored EXCEPT ![c] = o]
     /\ UNCHANGED engine

\* A reply reaches the parent.  One of a request nobody waits for any more is dropped.
Deliver(w) ==
  /\ mail[w] # "none"
  /\ mail' = [mail EXCEPT ![w] = "none"]
  /\ IF mail[w] = "object" /\ busy[w] # None
       THEN Score(w) /\ busy' = [busy EXCEPT ![w] = None]
       ELSE UNCHANGED <<scored, engine, busy>>
  /\ IF mail[w] = "stats" /\ stats[w] = "asked"
       THEN stats' = [stats EXCEPT ![w] = "absorbed"] /\ absorbed' = absorbed + did[w]
       ELSE UNCHANGED <<stats, absorbed>>
  /\ UNCHANGED <<fan, truth, phase, queue, answer, process, died, failure, did, row>>

Die(w) ==
  /\ process[w] = "up" /\ phase # "over"
  /\ process' = [process EXCEPT ![w] = "dead"]
  /\ UNCHANGED <<fan, truth, driverVars, mail, died, failure, stats, did, absorbed, row>>

Rejected(w) ==
  IF Pooling /\ busy[w] # None
  THEN scored' = [scored EXCEPT ![busy[w]] = Dead] /\ busy' = [busy EXCEPT ![w] = None]
  ELSE UNCHANGED <<scored, busy>>

\* Faulty: a worker that is lost with its counters fails nothing.
ExitQuiet(w) ==
  /\ process[w] = "dead"
  /\ process' = [process EXCEPT ![w] = "gone"]
  /\ failure' = (failure \/ Pooling)
  /\ died' = [died EXCEPT ![w] = @ \/ Pooling]
  /\ stats' = [stats EXCEPT ![w] = IF @ = "asked" THEN "lost" ELSE @]
  /\ Rejected(w)
  /\ UNCHANGED <<fan, truth, phase, queue, engine, answer, mail, did, absorbed, row>>

\* Faulty: the counters of a worker that left are still waited for.
ExitOpen(w) ==
  /\ process[w] = "dead"
  /\ process' = [process EXCEPT ![w] = "gone"]
  /\ failure' = (failure \/ Pooling)
  /\ died' = [died EXCEPT ![w] = @ \/ Pooling]
  /\ Rejected(w)
  /\ UNCHANGED <<fan, truth, phase, queue, engine, answer, mail, stats, did, absorbed, row>>

\* `exit` reaches the parent: the compile it held rejects, or its counters are lost.
Exit(w) ==
  /\ process[w] = "dead"
  /\ process' = [process EXCEPT ![w] = "gone"]
  /\ failure' = (failure \/ Pooling \/ stats[w] = "asked")
  /\ died' = [died EXCEPT ![w] = @ \/ Pooling]
  /\ stats' = [stats EXCEPT ![w] = IF @ = "asked" THEN "lost" ELSE @]
  /\ Rejected(w)
  /\ UNCHANGED <<fan, truth, phase, queue, engine, answer, mail, did, absorbed, row>>

\* close(): a failure already noticed stops the pool, else every worker is asked for its counters.
Close(a) ==
  /\ answer' = a /\ queue' = {}
  /\ phase' = IF failure THEN "stop" ELSE "collect"
  /\ stats' = IF failure THEN stats ELSE [w \in Workers |-> "asked"]

Scheduled(p, q) == phase' = p /\ queue' = q /\ UNCHANGED <<answer, stats>>

\* The verdict is asked over the default and the probes, and rankBy over every candidate, unless
\* stillborn; one that was never scored it would list as dropped.
Finish ==
  /\ Pooling /\ Idle /\ (queue = {} \/ engine)
  /\ CASE engine -> Close(Verdict("engine"))
       [] ~engine /\ phase = "default" ->
            IF Readable(scored[1]) THEN Scheduled("probes", Tried(fan) \ {1})
                                   ELSE Scheduled("rest", Cands \ {1})
       [] ~engine /\ phase = "probes" ->
            IF \E c \in Tried(fan) : scored[c] = Unscored THEN Close(Verdict("internal"))
            ELSE Scheduled("rest", IF Stillborn(fan, scored) THEN {} ELSE Cands \ Tried(fan))
       [] ~engine /\ phase = "rest" -> Close(rankBy(fan, scored))
  /\ UNCHANGED <<fan, truth, busy, scored, engine, process, mail, died, failure, did, absorbed, row>>

Collected ==
  /\ phase = "collect" /\ \A w \in Workers : stats[w] \in {"absorbed", "lost"}
  /\ phase' = "stop"
  /\ UNCHANGED <<fan, truth, queue, busy, scored, engine, answer, poolVars, row>>

\* Every worker was disconnected or killed, and is gone: close() throws or rankRow returns.
Stopped ==
  /\ phase = "stop" /\ \A w \in Workers : process[w] = "gone"
  /\ phase' = "over"
  /\ row' = IF failure THEN Failed ELSE answer
  /\ UNCHANGED <<fan, truth, queue, busy, scored, engine, answer, poolVars>>

Worker(w) == Claim(w) \/ Reply(w) \/ Deliver(w) \/ Exit(w)
Next == (\E w \in Workers : Worker(w) \/ Die(w)) \/ Finish \/ Collected \/ Stopped
Spec == Init /\ [][Next]_vars

\* Every compile is answered or its process dies, every message and exit is delivered, and stop()
\* kills a worker that has not left by itself.
FairSpec ==
  /\ Spec
  /\ \A w \in Workers : WF_vars(Worker(w)) /\ WF_vars(phase = "stop" /\ Die(w))
  /\ WF_vars(Finish) /\ WF_vars(Collected) /\ WF_vars(Stopped)

-----------------------------------------------------------------------------
TypeOK ==
  /\ [fan |-> fan, truth |-> truth] \in Rows
  /\ phase \in {"default", "probes", "rest", "collect", "stop", "over"}
  /\ queue \subseteq Cands
  /\ busy \in [Workers -> Cands \cup {None}]
  /\ DOMAIN scored = Cands
  /\ engine \in BOOLEAN /\ failure \in BOOLEAN
  /\ process \in [Workers -> {"up", "dead", "gone"}]
  /\ mail \in [Workers -> {"none", "object", "stats"}]
  /\ died \in [Workers -> BOOLEAN]
  /\ stats \in [Workers -> {"unasked", "asked", "absorbed", "lost"}]
  /\ did \in [Workers -> Nat] /\ absorbed \in Nat

(***************************************************************************)
(* rank.ts:150-162, compile-pool.ts:1-5.  Whatever the number of workers,  *)
(* the order their answers land in and the deaths among them, a row is     *)
(* ranked as a serial rankBy over what the candidates really come to would *)
(* rank it, or the row fails; never is a refusal invented by a crash, a    *)
(* verdict taken over half-read refusals, or a candidate reached unscored, *)
(* part of a published ranking.                                            *)
(***************************************************************************)
SameAsSerial == row # None => row \in {rankBy(fan, truth), Failed, Verdict("engine")}

(***************************************************************************)
(* compile-pool.ts:60-66, 138-176.  A row that does not fail has taken     *)
(* over every worker's counters, each once: as many compiles as were       *)
(* answered in its workers, and no more than the fan holds.                *)
(***************************************************************************)
Answered == Total(did, Workers)
CountersWhole == row \notin {None, Failed} => absorbed = Answered /\ absorbed <= N

(***************************************************************************)
(* compile-pool.ts:60-187.  A row settles: no request, counter or exit is  *)
(* waited for forever, whichever workers die and when.                     *)
(***************************************************************************)
RowSettles == <>(row # None)
=============================================================================
