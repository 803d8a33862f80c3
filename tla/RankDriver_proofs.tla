-------------------------- MODULE RankDriver_proofs --------------------------
(***************************************************************************)
(* Proofs about RankDriver, for any fan, workers and rows.                 *)
(***************************************************************************)
EXTENDS RankDriver, Totals_proofs, WellFoundedInduction

Types ==
  /\ \E r \in Rows : fan = r.fan /\ truth = r.truth
  /\ phase \in {"default", "probes", "rest", "collect", "stop", "over"}
  /\ queue \subseteq Cands
  /\ busy \in [Workers -> Cands \cup {None}]
  /\ DOMAIN scored = Cands /\ scored = [c \in Cands |-> scored[c]]
  /\ engine \in BOOLEAN /\ failure \in BOOLEAN /\ died \in [Workers -> BOOLEAN]

\* A worker known to be dead has failed the pool; and nothing is under way once it is closed.
CalmOK ==
  /\ \A w \in Workers : died[w] => failure
  /\ ~Pooling => Idle /\ queue = {}

\* Past the verdict a candidate it was not taken over keeps its kind and its score, if not its refusal.
Untried(c) == Readable(truth[1]) => c \notin Tried(fan)
Late(c) ==
  /\ phase \notin {"default", "probes"} /\ Untried(c)
  /\ scored[c].kind = truth[c].kind /\ scored[c].score = truth[c].score
ScoredOK == \A c \in Cands : scored[c] = Unscored \/ scored[c] = truth[c] \/ Late(c)

UnderWay == queue \cup {c \in Cands : \E w \in Workers : busy[w] = c}
PlaceOK ==
  \A c \in UnderWay : /\ phase = "default" => c = 1
                      /\ phase = "probes" => c \in Tried(fan)
                      /\ phase = "rest" => Untried(c)

\* What has to be scored before a phase ends.
Due == CASE phase = "default" -> {1}
         [] phase = "probes"  -> Tried(fan)
         [] OTHER -> IF Stillborn(fan, truth) THEN Tried(fan) ELSE Cands
DueOK == Pooling /\ ~engine => \A c \in Due : c \in UnderWay \/ scored[c] # Unscored

Serial == {rankBy(fan, truth), Verdict("engine")}
AnswerOK == ~Pooling => answer \in Serial

Sound == ScoredOK /\ PlaceOK /\ DueOK /\ AnswerOK
RowOK == row # None => row \in Serial \cup {Failed}

IInv == Types /\ CalmOK /\ (~failure => Sound) /\ RowOK

-----------------------------------------------------------------------------
(* The fan: openers and probes exist, and decide the verdict.              *)

\* A set of naturals that is not empty has a least element.
LEMMA LeastExists ==
  ASSUME NEW S \in SUBSET Nat, S # {}
  PROVE  \E least \in S : \A x \in S : least <= x
<1> DEFINE less == {ss \in Nat \X Nat : ss[1] < ss[2]}
<1>1. OpToRel(<, Nat) = less
  BY Zenon DEF OpToRel
<1>2. PICK x \in S : \A y \in S : ~ (<<y, x>> \in less)
  BY ZenonT(40), <1>1, NatLessThanWellFounded, WFMin
<1>3. \A y \in S : ~ (y < x)
  BY <1>2
<1> QED BY <1>3

LEMMA MinOfQueue ==
  ASSUME NEW S \in SUBSET Cands, S # {}
  PROVE  Min(S) \in S
<1>1. S \in SUBSET Nat
  BY RankAssumption DEF Cands
<1> QED BY <1>1, LeastExists DEF Min

LEMMA OpenerOf ==
  ASSUME NEW h \in SUBSET Cands, h # {}
  PROVE  /\ Opener(h) \in h
         /\ 1 \in h => Opener(h) = 1
<1>1. h \in SUBSET Nat /\ \A c \in h : c >= 1
  BY RankAssumption DEF Cands
<1>2. \E c \in h : \A d \in h : c <= d
  BY <1>1, LeastExists
<1>3. Opener(h) \in h /\ \A d \in h : Opener(h) <= d
  BY <1>2 DEF Opener
<1>4. ASSUME 1 \in h PROVE Opener(h) = 1
  <2>1. Opener(h) \in Nat /\ Opener(h) >= 1 /\ Opener(h) <= 1
    BY <1>1, <1>3, <1>4
  <2> QED BY <2>1
<1> QED BY <1>3, <1>4

LEMMA HalfShape ==
  ASSUME NEW f, NEW h \in Halves(f)
  PROVE  h \in SUBSET Cands /\ h # {}
BY DEF Halves, HalfOf

LEMMA FirstHalf ==
  ASSUME NEW f
  PROVE  HalfOf(f, 1) \in Halves(f) /\ Opener(HalfOf(f, 1)) = 1
<1>1. 1 \in Cands
  BY RankAssumption DEF Cands
<1>2. 1 \in HalfOf(f, 1) /\ HalfOf(f, 1) \in Halves(f)
  BY <1>1 DEF Halves, HalfOf
<1>3. HalfOf(f, 1) \in SUBSET Cands /\ HalfOf(f, 1) # {}
  BY <1>2 DEF HalfOf
<1> QED BY <1>2, <1>3, OpenerOf

LEMMA SimplestOf ==
  ASSUME NEW f, \A c \in Cands : IsFiniteSet(f.names[c]),
         NEW h \in SUBSET Cands, NEW v, Carries(f, h, v) # {}
  PROVE  Simplest(f, h, v) \in h
<1> DEFINE C == Carries(f, h, v)
           sizes == {Cardinality(f.names[c]) : c \in C}
<1>1. C \in SUBSET h /\ C # {} /\ C \in SUBSET Cands
  BY DEF Carries
<1> HIDE DEF C
<1>2. \A c \in C : Cardinality(f.names[c]) \in Nat
  BY <1>1, FS_CardinalityType
<1>3. sizes \in SUBSET Nat /\ sizes # {}
  BY <1>1, <1>2
<1>4. PICK size \in sizes : \A x \in sizes : size <= x
  BY <1>3, LeastExists
<1> DEFINE small == {c \in C : Cardinality(f.names[c]) = size}
<1>5. small \in SUBSET Nat /\ small # {}
  BY <1>1, <1>4, RankAssumption DEF Cands
<1>6. PICK c \in small : \A d \in small : c <= d
  <2> HIDE DEF small
  <2> QED BY <1>5, LeastExists
<1>7. \A d \in C : \/ Cardinality(f.names[c]) < Cardinality(f.names[d])
                   \/ Cardinality(f.names[c]) = Cardinality(f.names[d]) /\ c <= d
  BY <1>2, <1>3, <1>4, <1>6
<1>8. Simplest(f, h, v) \in C
  BY <1>6, <1>7 DEF Simplest, C
<1> QED BY <1>1, <1>8

LEMMA TriedShape ==
  ASSUME NEW f, \A c \in Cands : IsFiniteSet(f.names[c])
  PROVE  Tried(f) \subseteq Cands /\ 1 \in Tried(f)
<1>1. ASSUME NEW h \in Halves(f) PROVE Opener(h) \in Cands
  <2>1. h \in SUBSET Cands /\ h # {}
    BY HalfShape
  <2> QED BY <2>1, OpenerOf
<1>2. ASSUME NEW h \in Halves(f), NEW v \in UNION {f.names[c] : c \in h}
      PROVE  Simplest(f, h, v) \in Cands
  <2>1. Carries(f, h, v) # {} /\ h \in SUBSET Cands
    BY HalfShape DEF Carries
  <2> QED BY <2>1, SimplestOf
<1>3. \A h \in Halves(f) : ProbesOf(f, h) \subseteq Cands
  BY <1>2 DEF ProbesOf
<1> QED BY <1>1, <1>3, FirstHalf DEF Tried

LEMMA TriedOf ==
  ASSUME NEW f, NEW h \in Halves(f)
  PROVE  Opener(h) \in Tried(f) /\ ProbesOf(f, h) \subseteq Tried(f)
BY DEF Tried

\* The verdict is taken over what was tried, and nothing else.
LEMMA TriedDecides ==
  ASSUME NEW f, NEW o1, NEW o2, \A c \in Tried(f) : o1[c] = o2[c]
  PROVE  Stillborn(f, o1) <=> Stillborn(f, o2)
<1>1. \A h \in Halves(f) : o1[Opener(h)] = o2[Opener(h)] /\ \A p \in ProbesOf(f, h) : o1[p] = o2[p]
  BY TriedOf
<1>2. ASSUME NEW h \in Halves(f)
      PROVE  Survives(f, o1, h) <=> Survives(f, o2, h)
  <2>1. o1[Opener(h)] = o2[Opener(h)] /\ \A p \in ProbesOf(f, h) : o1[p] = o2[p]
    BY <1>1
  <2> QED BY <2>1 DEF Survives
<1> QED BY <1>2 DEF Stillborn

\* A default whose refusal cannot be read is no stillborn fan's.
LEMMA DefaultDecides ==
  ASSUME NEW f, NEW out, ~Readable(out[1])
  PROVE  ~Stillborn(f, out)
BY FirstHalf DEF Stillborn, Survives

LEMMA TruthShape ==
  ASSUME Types
  PROVE  /\ \A c \in Cands : /\ truth[c].kind \in {"scored", "refused", "thrown"}
                             /\ truth[c] = [kind |-> truth[c].kind, score |-> truth[c].score, errors |-> truth[c].errors]
                             /\ truth[c] # Unscored
         /\ Tried(fan) \subseteq Cands /\ 1 \in Tried(fan) /\ 1 \in Cands
<1>1. PICK r \in Rows : fan = r.fan /\ truth = r.truth
  BY DEF Types
<1>2. \A c \in Cands : /\ IsFiniteSet(fan.names[c])
                       /\ \E k \in {"scored", "refused", "thrown"} :
                            truth[c] = [kind |-> k, score |-> truth[c].score, errors |-> truth[c].errors]
  BY <1>1, RankAssumption DEF Cands
<1>3. \A c \in Cands : /\ truth[c].kind \in {"scored", "refused", "thrown"}
                       /\ truth[c] = [kind |-> truth[c].kind, score |-> truth[c].score, errors |-> truth[c].errors]
  <2> SUFFICES ASSUME NEW c \in Cands
               PROVE  /\ truth[c].kind \in {"scored", "refused", "thrown"}
                      /\ truth[c] = [kind |-> truth[c].kind, score |-> truth[c].score, errors |-> truth[c].errors]
    OBVIOUS
  <2>1. PICK k \in {"scored", "refused", "thrown"} :
          truth[c] = [kind |-> k, score |-> truth[c].score, errors |-> truth[c].errors]
    BY <1>2
  <2>2. truth[c].kind = k
    BY <2>1
  <2> QED BY <2>1, <2>2
<1>4. Unscored.kind = "unscored"
  BY DEF Unscored, Outcome
<1> QED BY <1>2, <1>3, <1>4, TriedShape

LEMMA CompiledShape ==
  ASSUME Types, NEW c \in Cands, NEW o \in Compiled(c)
  PROVE  /\ o # Unscored /\ o.kind = truth[c].kind /\ o.score = truth[c].score
         /\ o = truth[c] \/ phase = "rest"
<1>1. /\ truth[c].kind # "unscored"
      /\ truth[c] = [kind |-> truth[c].kind, score |-> truth[c].score, errors |-> truth[c].errors]
  BY TruthShape
<1>2. o.kind = truth[c].kind /\ o.score = truth[c].score /\ (o = truth[c] \/ phase = "rest")
  <2>1. CASE phase = "rest" /\ Readable(truth[c])
    <3>1. PICK e : o = [truth[c] EXCEPT !.errors = e]
      BY <2>1 DEF Compiled
    <3> QED BY <1>1, <2>1, <3>1
  <2>2. CASE ~(phase = "rest" /\ Readable(truth[c]))
    BY <2>2 DEF Compiled
  <2> QED BY <2>1, <2>2
<1>3. Unscored.kind = "unscored"
  BY DEF Unscored, Outcome
<1> QED BY <1>1, <1>2, <1>3

\* What rankBy reads of an outcome past the verdict is its kind and its score.
LEMMA ShownDecides ==
  ASSUME NEW o1, NEW o2, \A c \in Cands : o1[c].kind = o2[c].kind /\ o1[c].score = o2[c].score
  PROVE  Shown(o1) = Shown(o2)
BY DEF Shown

\* Once all that was due is scored, the driver's own outcomes give the verdict and the ranking.
LEMMA SameVerdict ==
  ASSUME Types, ScoredOK, \A c \in Tried(fan) : scored[c] # Unscored
  PROVE  Stillborn(fan, scored) <=> Stillborn(fan, truth)
<1>1. Tried(fan) \subseteq Cands /\ 1 \in Tried(fan) /\ 1 \in Cands
  BY TruthShape
<1>2. CASE Readable(truth[1])
  <2>1. \A c \in Tried(fan) : scored[c] = truth[c]
    BY <1>1, <1>2 DEF ScoredOK, Late, Untried
  <2> QED BY <2>1, TriedDecides
<1>3. CASE ~Readable(truth[1])
  <2>1. ~Readable(scored[1])
    BY <1>1, <1>3 DEF ScoredOK, Late, Readable
  <2> QED BY <1>3, <2>1, DefaultDecides
<1> QED BY <1>2, <1>3

LEMMA SameRanking ==
  ASSUME Types, ScoredOK, \A c \in Tried(fan) : scored[c] # Unscored,
         ~Stillborn(fan, truth) => \A c \in Cands : scored[c] # Unscored
  PROVE  rankBy(fan, scored) = rankBy(fan, truth)
<1>1. Stillborn(fan, scored) <=> Stillborn(fan, truth)
  BY SameVerdict
<1>2. ~Stillborn(fan, truth) => Shown(scored) = Shown(truth)
  <2>1. ~Stillborn(fan, truth) =>
          \A c \in Cands : scored[c].kind = truth[c].kind /\ scored[c].score = truth[c].score
    BY DEF ScoredOK, Late
  <2> QED BY <2>1, ShownDecides
<1> QED BY <1>1, <1>2 DEF rankBy

-----------------------------------------------------------------------------
(* A step inside a phase.                                                  *)

\* Somebody scores what was under way, and nothing else changes hands.
LEMMA PhaseKeepsSound ==
  ASSUME Types, CalmOK, Sound, UNCHANGED <<fan, truth, phase, answer>>,
         UnderWay' \subseteq UnderWay,
         \A c \in Cands : \/ scored'[c] = scored[c]
                          \/ c \in UnderWay /\ scored'[c] \in Compiled(c),
         \A c \in UnderWay \ UnderWay' : engine' \/ scored'[c] # Unscored,
         engine => engine'
  PROVE  Sound'
<1>1. Pooling' = Pooling /\ Due' = Due
  BY DEF Pooling, Due
<1>2. ScoredOK'
  <2> SUFFICES ASSUME NEW c \in Cands
               PROVE  scored'[c] = Unscored \/ scored'[c] = truth[c] \/ Late(c)'
    BY DEF ScoredOK
  <2>1. CASE scored'[c] = scored[c]
    BY <2>1 DEF Sound, ScoredOK, Late, Untried
  <2>2. CASE c \in UnderWay /\ scored'[c] \in Compiled(c)
    <3>1. /\ scored'[c].kind = truth[c].kind /\ scored'[c].score = truth[c].score
          /\ scored'[c] = truth[c] \/ phase = "rest"
      BY <2>2, CompiledShape
    <3>2. phase = "rest" => Untried(c)
      BY <2>2 DEF Sound, PlaceOK
    <3> QED BY <3>1, <3>2 DEF Late, Untried
  <2> QED BY <2>1, <2>2
<1>3. PlaceOK'
  BY DEF Sound, PlaceOK, Untried
<1>4. DueOK'
  <2> SUFFICES ASSUME Pooling, ~engine', NEW c \in Due
               PROVE  c \in UnderWay' \/ scored'[c] # Unscored
    BY <1>1 DEF DueOK
  <2>1. c \in Cands
    BY TruthShape DEF Due
  <2>2. c \in UnderWay \/ scored[c] # Unscored
    BY DEF Sound, DueOK
  <2>3. scored'[c] \in Compiled(c) => scored'[c] # Unscored
    BY <2>1, CompiledShape
  <2> QED BY <2>1, <2>2, <2>3
<1>5. AnswerOK'
  BY <1>1 DEF Sound, AnswerOK, Serial
<1> QED BY <1>2, <1>3, <1>4, <1>5 DEF Sound

LEMMA NoneIsNoCandidate == None \notin Cands
BY RankAssumption DEF Cands

LEMMA ClaimOK ==
  ASSUME IInv, NEW w \in Workers, Claim(w)
  PROVE  IInv'
<1> DEFINE c == Min(queue)
<1>1. c \in queue /\ c \in Cands
  <2>1. queue \in SUBSET Cands /\ queue # {}
    BY DEF IInv, Types, Claim
  <2>2. c \in queue
    BY <2>1, MinOfQueue
  <2> QED BY <2>1, <2>2
<1>2. /\ Pooling /\ busy[w] = None /\ queue' = queue \ {c}
      /\ UNCHANGED <<fan, truth, phase, engine, answer, died, failure, row>>
      /\ IF died[w] THEN scored' = [scored EXCEPT ![c] = Dead] /\ UNCHANGED busy
                    ELSE busy' = [busy EXCEPT ![w] = c] /\ UNCHANGED scored
  BY DEF Claim, poolVars
<1> HIDE DEF c
<1>3. Types'
  <2>1. scored' = [d \in Cands |-> scored'[d]] /\ DOMAIN scored' = Cands
    BY <1>1, <1>2 DEF IInv, Types
  <2>2. busy' \in [Workers -> Cands \cup {None}]
    BY <1>1, <1>2 DEF IInv, Types
  <2> QED BY <1>2, <2>1, <2>2 DEF IInv, Types
<1>4. CalmOK' /\ RowOK'
  BY <1>2 DEF IInv, CalmOK, RowOK, Pooling, Serial
<1>5. ASSUME ~failure PROVE Sound'
  <2>1. busy' = [busy EXCEPT ![w] = c] /\ UNCHANGED scored
    BY <1>2, <1>5 DEF IInv, CalmOK
  <2>2. \A v \in Workers : busy'[v] = IF v = w THEN c ELSE busy[v]
    BY <2>1 DEF IInv, Types
  <2>3. UnderWay' = UnderWay
    <3>1. \A d \in Cands : (\E v \in Workers : busy'[v] = d) <=> (d = c \/ \E v \in Workers : busy[v] = d)
      BY <1>2, <2>2, NoneIsNoCandidate
    <3> QED BY <1>1, <1>2, <3>1 DEF UnderWay
  <2> QED BY <1>2, <1>5, <2>1, <2>3, PhaseKeepsSound DEF IInv
<1> QED BY <1>2, <1>3, <1>4, <1>5 DEF IInv

\* Nothing the ranking reads.
LEMMA AsideOK ==
  ASSUME IInv, UNCHANGED <<fan, truth, phase, queue, busy, scored, engine, answer, died, failure, row>>
  PROVE  IInv'
<1>1. Types' /\ CalmOK' /\ RowOK'
  BY DEF IInv, Types, CalmOK, RowOK, Pooling, Idle, Serial
<1>2. ~failure => Sound'
  BY DEF IInv, Sound, ScoredOK, Late, Untried, PlaceOK, UnderWay, DueOK, Due, Pooling, AnswerOK, Serial
<1> QED BY <1>1, <1>2 DEF IInv

LEMMA DeliverOK ==
  ASSUME IInv, NEW w \in Workers, Deliver(w)
  PROVE  IInv'
<1>1. UNCHANGED <<fan, truth, phase, queue, answer, died, failure, row>>
  BY DEF Deliver
<1>2. CASE ~(mail[w] = "object" /\ busy[w] # None)
  BY <1>1, <1>2, AsideOK DEF Deliver
<1>3. CASE mail[w] = "object" /\ busy[w] # None
  <2> DEFINE c == busy[w]
  <2>1. c \in Cands /\ c \in UnderWay /\ Pooling
    BY <1>3 DEF IInv, Types, UnderWay, CalmOK, Idle
  <2>2. busy' = [busy EXCEPT ![w] = None]
    BY <1>3 DEF Deliver
  <2>3. \/ engine' = TRUE /\ scored' = scored
        \/ engine' = engine /\ \E o \in Compiled(c) : scored' = [scored EXCEPT ![c] = o]
    BY <1>3 DEF Deliver, Score
  <2> HIDE DEF c
  <2>4. \A v \in Workers : busy'[v] = IF v = w THEN None ELSE busy[v]
    BY <2>2 DEF IInv, Types
  <2>5. \A d \in Cands : \/ scored'[d] = scored[d]
                         \/ d = c /\ scored'[d] \in Compiled(d)
    BY <2>1, <2>3 DEF IInv, Types
  <2>6. Types'
    <3>1. scored' = [d \in Cands |-> scored'[d]] /\ DOMAIN scored' = Cands
      BY <2>1, <2>3 DEF IInv, Types
    <3>2. busy' \in [Workers -> Cands \cup {None}] /\ engine' \in BOOLEAN
      BY <2>2, <2>3 DEF IInv, Types
    <3> QED BY <1>1, <3>1, <3>2 DEF IInv, Types
  <2>7. CalmOK' /\ RowOK'
    BY <1>1, <2>1 DEF IInv, CalmOK, RowOK, Pooling, Serial
  <2>8. ASSUME ~failure PROVE Sound'
    <3>1. UnderWay' \subseteq UnderWay
      BY <1>1, <2>4, NoneIsNoCandidate DEF UnderWay
    <3>2. \A d \in UnderWay \ UnderWay' : d \in Cands /\ d = c
      BY <1>1, <2>4 DEF UnderWay, c, IInv, Types
    <3>3. engine' \/ scored'[c] # Unscored
      BY <2>1, <2>3, CompiledShape DEF IInv, Types
    <3> QED BY <1>1, <2>1, <2>3, <2>5, <2>8, <3>1, <3>2, <3>3, PhaseKeepsSound DEF IInv
  <2> QED BY <1>1, <2>6, <2>7, <2>8 DEF IInv
<1> QED BY <1>2, <1>3

LEMMA ExitOK ==
  ASSUME IInv, NEW w \in Workers, Exit(w)
  PROVE  IInv'
<1>1. /\ UNCHANGED <<fan, truth, phase, queue, engine, answer, row>>
      /\ failure' = (failure \/ Pooling \/ stats[w] = "asked")
      /\ died' = [died EXCEPT ![w] = died[w] \/ Pooling]
      /\ Rejected(w)
  BY DEF Exit, IInv, Types
<1>2. \/ UNCHANGED <<scored, busy>>
      \/ Pooling /\ busy[w] \in Cands
           /\ scored' = [scored EXCEPT ![busy[w]] = Dead] /\ busy' = [busy EXCEPT ![w] = None]
  BY <1>1 DEF Rejected, IInv, Types
<1>3. Types'
  <2>1. scored' = [d \in Cands |-> scored'[d]] /\ DOMAIN scored' = Cands
    BY <1>2 DEF IInv, Types
  <2>2. busy' \in [Workers -> Cands \cup {None}]
    BY <1>2 DEF IInv, Types
  <2>3. failure' \in BOOLEAN
    BY <1>1 DEF IInv, Types
  <2>4. died' \in [Workers -> BOOLEAN]
    <3>1. (died[w] \/ Pooling) \in BOOLEAN
      OBVIOUS
    <3> QED BY <1>1, <3>1 DEF IInv, Types
  <2> QED BY <1>1, <2>1, <2>2, <2>3, <2>4 DEF IInv, Types
<1>4. CalmOK'
  <2>1. \A v \in Workers : died'[v] => failure'
    BY <1>1 DEF IInv, CalmOK, Types
  <2>2. Pooling' = Pooling
    BY <1>1 DEF Pooling
  <2>3. ~Pooling => Idle' /\ queue' = {}
    BY <1>1, <1>2 DEF IInv, CalmOK, Idle
  <2> QED BY <2>1, <2>2, <2>3 DEF CalmOK
<1>5. RowOK'
  BY <1>1 DEF IInv, RowOK, Serial
<1>6. ASSUME ~failure' PROVE Sound'
  <2>1. ~failure /\ ~Pooling /\ UNCHANGED <<scored, busy>>
    BY <1>1, <1>2, <1>6
  <2> QED BY <1>1, <2>1 DEF IInv, Sound, ScoredOK, Late, Untried, PlaceOK, UnderWay, DueOK, Due, Pooling, AnswerOK, Serial
<1> QED BY <1>3, <1>4, <1>5, <1>6 DEF IInv

-----------------------------------------------------------------------------
(* From phase to phase.                                                    *)

LEMMA InitOK == Init => IInv
<1> SUFFICES ASSUME Init PROVE IInv
  OBVIOUS
<1>1. 1 \in Cands
  BY RankAssumption DEF Cands
<1>2. Types
  <2>1. scored = [c \in Cands |-> Unscored]
    BY DEF Init
  <2>2. DOMAIN scored = Cands /\ scored = [c \in Cands |-> scored[c]]
    BY <2>1
  <2> QED BY <1>1, <2>2 DEF Init, Types
<1>3. CalmOK /\ RowOK
  BY DEF Init, CalmOK, RowOK, Pooling
<1>4. ScoredOK
  BY DEF Init, ScoredOK
<1>5. PlaceOK
  <2>1. UnderWay \subseteq {1}
    BY NoneIsNoCandidate DEF Init, UnderWay
  <2> QED BY <2>1 DEF Init, PlaceOK
<1>6. DueOK /\ AnswerOK
  BY DEF Init, DueOK, Due, AnswerOK, Pooling, UnderWay
<1> QED BY <1>2, <1>3, <1>4, <1>5, <1>6 DEF IInv, Sound

\* A phase that is over leaves nothing due that is not scored.
LEMMA AllScored ==
  ASSUME Types, Sound, Pooling, Idle, queue = {}, ~engine
  PROVE  UnderWay = {} /\ \A c \in Due : scored[c] # Unscored
<1>1. UnderWay = {}
  BY NoneIsNoCandidate DEF UnderWay, Idle
<1> QED BY <1>1 DEF Sound, DueOK

LEMMA CloseKeeps ==
  ASSUME IInv, Idle, NEW a, Close(a), ~failure => a \in Serial,
         UNCHANGED <<fan, truth, busy, scored, engine, died, failure, row>>
  PROVE  IInv'
<1>1. queue' = {} /\ answer' = a /\ phase' \in {"collect", "stop"} /\ ~Pooling'
  BY DEF Close, Pooling
<1>2. Types' /\ CalmOK' /\ RowOK'
  BY <1>1 DEF IInv, Types, CalmOK, RowOK, Idle, Serial
<1>3. ASSUME ~failure PROVE Sound'
  <2>1. ScoredOK'
    BY <1>1, <1>3 DEF IInv, Sound, ScoredOK, Late, Untried
  <2>2. UnderWay' = {}
    BY <1>1, NoneIsNoCandidate DEF UnderWay, Idle
  <2>3. PlaceOK' /\ DueOK'
    BY <1>1, <2>2 DEF PlaceOK, DueOK
  <2>4. AnswerOK'
    BY <1>1, <1>3 DEF AnswerOK, Serial
  <2> QED BY <2>1, <2>3, <2>4 DEF Sound
<1> QED BY <1>2, <1>3 DEF IInv

LEMMA ScheduleKeeps ==
  ASSUME IInv, Pooling, Idle, NEW q \in SUBSET Cands, NEW p \in {"probes", "rest"},
         phase' = p, queue' = q,
         UNCHANGED <<fan, truth, busy, scored, engine, answer, died, failure, row>>,
         ~failure => /\ \A c \in Cands : scored[c] = Unscored \/ scored[c] = truth[c]
                     /\ \A c \in q : IF p = "probes" THEN c \in Tried(fan) ELSE Untried(c)
                     /\ \A c \in Due' : c \in q \/ scored[c] # Unscored
  PROVE  IInv'
<1>1. Pooling'
  BY DEF Pooling
<1>2. Types' /\ CalmOK' /\ RowOK'
  BY <1>1 DEF IInv, Types, CalmOK, RowOK, Serial
<1>3. ASSUME ~failure PROVE Sound'
  <2>1. UnderWay' = q
    BY NoneIsNoCandidate DEF UnderWay, Idle
  <2>2. ScoredOK'
    BY <1>3 DEF ScoredOK
  <2>3. PlaceOK'
    BY <1>3, <2>1 DEF PlaceOK, Untried
  <2>4. DueOK' /\ AnswerOK'
    BY <1>1, <1>3, <2>1 DEF DueOK, AnswerOK
  <2> QED BY <2>2, <2>3, <2>4 DEF Sound
<1> QED BY <1>2, <1>3 DEF IInv

LEMMA FinishOK ==
  ASSUME IInv, Finish
  PROVE  IInv'
<1>1. /\ Pooling /\ Idle /\ (queue = {} \/ engine)
      /\ UNCHANGED <<fan, truth, busy, scored, engine, died, failure, row>>
  BY DEF Finish
<1>2. Types /\ Tried(fan) \subseteq Cands /\ 1 \in Tried(fan) /\ 1 \in Cands
  BY TruthShape DEF IInv
<1>3. ~failure /\ ~engine => (\A c \in Due : scored[c] # Unscored) /\ ScoredOK
  BY <1>1, AllScored DEF IInv, Sound
<1>4. CASE engine
  <2>1. Close(Verdict("engine"))
    BY <1>4 DEF Finish
  <2> QED BY <1>1, <2>1, CloseKeeps DEF Serial
<1>5. CASE ~engine /\ phase = "default"
  <2>1. \/ Readable(scored[1]) /\ Scheduled("probes", Tried(fan) \ {1})
        \/ ~Readable(scored[1]) /\ Scheduled("rest", Cands \ {1})
    BY <1>5 DEF Finish
  <2>2. ~failure => /\ \A c \in Cands : scored[c] = Unscored \/ scored[c] = truth[c]
                    /\ scored[1] # Unscored /\ scored[1] = truth[1]
    BY <1>2, <1>3, <1>5 DEF ScoredOK, Late, Due
  <2>3. CASE Readable(scored[1]) /\ Scheduled("probes", Tried(fan) \ {1})
    <3>1. phase' = "probes" /\ queue' = Tried(fan) \ {1} /\ UNCHANGED answer /\ Tried(fan) \ {1} \in SUBSET Cands
      BY <1>2, <2>3 DEF Scheduled
    <3>2. Due' = Tried(fan)
      BY <1>1, <3>1 DEF Due
    <3> QED BY <1>1, <2>2, <3>1, <3>2, ScheduleKeeps
  <2>4. CASE ~Readable(scored[1]) /\ Scheduled("rest", Cands \ {1})
    <3>1. phase' = "rest" /\ queue' = Cands \ {1} /\ UNCHANGED answer /\ Cands \ {1} \in SUBSET Cands
      BY <2>4 DEF Scheduled
    <3>2. Due' \subseteq Cands
      BY <1>1, <1>2, <3>1 DEF Due
    <3>3. ~failure => \A c \in Cands \ {1} : Untried(c)
      BY <2>2, <2>4 DEF Untried
    <3> QED BY <1>1, <2>2, <3>1, <3>2, <3>3, ScheduleKeeps
  <2> QED BY <2>1, <2>3, <2>4
<1>6. CASE ~engine /\ phase = "probes"
  <2> DEFINE q == IF Stillborn(fan, scored) THEN {} ELSE Cands \ Tried(fan)
  <2>1. \/ (\E c \in Tried(fan) : scored[c] = Unscored) /\ Close(Verdict("internal"))
        \/ (\A c \in Tried(fan) : scored[c] # Unscored) /\ Scheduled("rest", q)
    BY <1>6 DEF Finish
  <2>2. ~failure => /\ \A c \in Cands : scored[c] = Unscored \/ scored[c] = truth[c]
                    /\ \A c \in Tried(fan) : scored[c] # Unscored
    BY <1>3, <1>6 DEF ScoredOK, Late, Due
  <2>3. CASE (\E c \in Tried(fan) : scored[c] = Unscored) /\ Close(Verdict("internal"))
    BY <1>1, <2>2, <2>3, CloseKeeps
  <2>4. CASE (\A c \in Tried(fan) : scored[c] # Unscored) /\ Scheduled("rest", q)
    <3>1. phase' = "rest" /\ queue' = q /\ UNCHANGED answer /\ q \in SUBSET Cands
      BY <2>4 DEF Scheduled
    <3>2. ~failure => (Stillborn(fan, scored) <=> Stillborn(fan, truth))
      BY <1>2, <1>3, <1>6, <2>2, SameVerdict
    <3>3. Due' = IF Stillborn(fan, truth) THEN Tried(fan) ELSE Cands
      BY <1>1, <3>1 DEF Due
    <3>4. \A c \in q : Untried(c)
      BY DEF Untried
    <3>5. ~failure => \A c \in Due' : c \in q \/ scored[c] # Unscored
      BY <2>2, <3>2, <3>3
    <3> HIDE DEF q
    <3> QED BY <1>1, <2>2, <3>1, <3>4, <3>5, ScheduleKeeps
  <2> QED BY <2>1, <2>3, <2>4
<1>7. CASE ~engine /\ phase = "rest"
  <2>1. Close(rankBy(fan, scored))
    BY <1>7 DEF Finish
  <2>2. ~failure => /\ \A c \in Tried(fan) : scored[c] # Unscored
                    /\ ~Stillborn(fan, truth) => \A c \in Cands : scored[c] # Unscored
    BY <1>2, <1>3, <1>7 DEF Due
  <2>3. ~failure => rankBy(fan, scored) = rankBy(fan, truth)
    BY <1>2, <1>3, <1>7, <2>2, SameRanking
  <2> QED BY <1>1, <2>1, <2>3, CloseKeeps DEF Serial
<1> QED BY <1>1, <1>4, <1>5, <1>6, <1>7 DEF Pooling

LEMMA EndOK ==
  ASSUME IInv, Collected \/ Stopped
  PROVE  IInv'
<1>1. /\ UNCHANGED <<fan, truth, queue, busy, scored, engine, answer, died, failure>>
      /\ phase \in {"collect", "stop"} /\ phase' \in {"stop", "over"}
      /\ row' = row \/ row' = IF failure THEN Failed ELSE answer
  BY DEF Collected, Stopped, poolVars
<1>2. ~Pooling /\ ~Pooling'
  BY <1>1 DEF Pooling
<1>3. Types' /\ CalmOK'
  BY <1>1, <1>2 DEF IInv, Types, CalmOK, Idle
<1>4. RowOK'
  <2>1. ~failure => answer \in Serial
    BY <1>2 DEF IInv, Sound, AnswerOK
  <2> QED BY <1>1, <2>1 DEF IInv, RowOK, Serial
<1>5. ASSUME ~failure PROVE Sound'
  BY <1>1, <1>2, <1>5 DEF IInv, Sound, ScoredOK, Late, Untried, PlaceOK, UnderWay, DueOK, AnswerOK, Serial
<1> QED BY <1>1, <1>3, <1>4, <1>5 DEF IInv

-----------------------------------------------------------------------------
(* Of the specification.                                                   *)

\* IInv holds of every state: as long as no worker has failed the pool, what is memoized is what a
\* serial ranking would read.
THEOREM Invariance == Spec => []IInv
<1>1. IInv /\ [Next]_vars => IInv'
  <2> SUFFICES ASSUME IInv, [Next]_vars PROVE IInv'
    OBVIOUS
  <2>1. CASE \E w \in Workers : Claim(w)
    BY <2>1, ClaimOK
  <2>2. CASE \E w \in Workers : Deliver(w)
    BY <2>2, DeliverOK
  <2>3. CASE \E w \in Workers : Exit(w)
    BY <2>3, ExitOK
  <2>4. CASE (\E w \in Workers : Reply(w) \/ Die(w)) \/ UNCHANGED vars
    BY <2>4, AsideOK DEF Reply, Die, vars, driverVars, poolVars
  <2>5. CASE Finish
    BY <2>5, FinishOK
  <2>6. CASE Collected \/ Stopped
    BY <2>6, EndOK
  <2> QED BY <2>1, <2>2, <2>3, <2>4, <2>5, <2>6 DEF Next, Worker
<1> QED BY <1>1, InitOK, PTL DEF Spec

\* Whatever the number of workers, the order of answers and the deaths, a row is ranked as a serial
\* ranking would rank it, or it fails.
THEOREM RankedAsSerial == Spec => []SameAsSerial
<1>1. IInv => SameAsSerial
  BY DEF IInv, RowOK, Serial, SameAsSerial
<1> QED BY <1>1, Invariance, PTL

-----------------------------------------------------------------------------
(* The counters.  While a row is pooled nobody is asked for counters; once *)
(* it is not, no compile is under way, and what was absorbed is what the   *)
(* absorbed workers have answered.  A worker is charged with what it       *)
(* answered and with the compile it holds; what is charged, and what is    *)
(* left to claim, is together no more than the fan.                        *)

\* The counters the driver keeps: what a worker has answered, and who was asked.
PoolTypes ==
  /\ process \in [Workers -> {"up", "dead", "gone"}]
  /\ mail \in [Workers -> {"none", "object", "stats"}]
  /\ stats \in [Workers -> {"unasked", "asked", "absorbed", "lost"}]
  /\ did \in [Workers -> Nat] /\ absorbed \in Nat

Taken(w)   == IF stats[w] = "absorbed" THEN did[w] ELSE 0
Charged(w) == did[w] + (IF busy[w] # None /\ mail[w] # "object" THEN 1 ELSE 0)

\* What this phase has not claimed and later ones may schedule.
Left == queue \cup (CASE phase = "default" -> Cands \ {1}
                      [] phase = "probes"  -> Cands \ Tried(fan)
                      [] OTHER -> {})

AskedOK ==
  /\ Pooling => \A w \in Workers : stats[w] = "unasked"
  /\ ~failure => \A w \in Workers : stats[w] # "lost"
  /\ ~failure /\ phase \in {"stop", "over"} => \A w \in Workers : stats[w] = "absorbed"
  /\ row \notin {None, Failed} => ~Pooling /\ \A w \in Workers : stats[w] = "absorbed"
AbsorbedOK == absorbed = Total([w \in Workers |-> Taken(w)], Workers)
FanOK ==
  /\ ~failure => Total([w \in Workers |-> Charged(w)], Workers) + Cardinality(Left) <= N
  /\ row \notin {None, Failed} => Answered <= N

CInv == IInv /\ PoolTypes /\ AskedOK /\ AbsorbedOK /\ FanOK

LEMMA TypesHold ==
  ASSUME IInv, PoolTypes
  PROVE  TypeOK
<1>1. PICK r \in Rows : fan = r.fan /\ truth = r.truth
  BY DEF IInv, Types
<1>2. [fan |-> fan, truth |-> truth] \in Rows
  BY <1>1, RankAssumption
<1> QED BY <1>2 DEF IInv, Types, PoolTypes, TypeOK

LEMMA LeftShape == IInv => Left \in SUBSET Cands
BY DEF IInv, Types, Left

LEMMA CandsFinite == IsFiniteSet(Cands) /\ Cardinality(Cands) = N
<1>1. 1 \in Int /\ N \in Int /\ N - 1 + 1 = N /\ ~(1 > N)
  BY RankAssumption
<1> QED BY <1>1, FS_Interval DEF Cands

LEMMA SizeFacts ==
  ASSUME NEW S \in SUBSET Cands
  PROVE  IsFiniteSet(S) /\ Cardinality(S) \in Nat
BY CandsFinite, FS_Subset, FS_CardinalityType

LEMMA ChargedFacts ==
  ASSUME PoolTypes
  PROVE  /\ \A w \in Workers : Charged(w) \in Nat /\ did[w] \in Nat /\ did[w] <= Charged(w) /\ Taken(w) \in Nat
         /\ Total([w \in Workers |-> Charged(w)], Workers) \in Nat
<1>1. \A w \in Workers : Charged(w) \in Nat /\ did[w] \in Nat /\ did[w] <= Charged(w) /\ Taken(w) \in Nat
  BY DEF PoolTypes, Charged, Taken
<1> DEFINE f == [w \in Workers |-> Charged(w)]
<1>2. \A w \in Workers : f[w] \in Int
  BY <1>1
<1> HIDE DEF f
<1>3. Total(f, Workers) \in Nat
  BY <1>2, TotalType, RankAssumption
<1> QED BY <1>1, <1>3 DEF f

\* Nobody owes more, and no more is left.
LEMMA FanStands ==
  ASSUME CInv, IInv', PoolTypes', ~failure,
         \A w \in Workers : Charged(w)' <= Charged(w), Left' \subseteq Left
  PROVE  Total([w \in Workers |-> Charged(w)'], Workers) + Cardinality(Left') <= N
<1> DEFINE f == [w \in Workers |-> Charged(w)']
           g == [w \in Workers |-> Charged(w)]
<1>1. \A w \in Workers : f[w] \in Int /\ g[w] \in Int /\ f[w] <= g[w]
  BY ChargedFacts DEF CInv, PoolTypes, Charged
<1>2. Total(g, Workers) + Cardinality(Left) <= N
  BY DEF CInv, FanOK
<1> HIDE DEF f, g
<1>3. Total(f, Workers) <= Total(g, Workers) /\ Total(f, Workers) \in Nat /\ Total(g, Workers) \in Nat
  BY <1>1, TotalGrows, TotalType, RankAssumption
<1>4. Left \in SUBSET Cands
  BY LeftShape DEF CInv
<1>5. IsFiniteSet(Left) /\ Cardinality(Left) \in Nat /\ Cardinality(Left') \in Nat /\ Cardinality(Left') <= Cardinality(Left)
  BY <1>4, SizeFacts, FS_Subset, FS_CardinalityType
<1>6. Total(f, Workers) + Cardinality(Left') <= N
  BY <1>2, <1>3, <1>5, RankAssumption
<1> QED BY <1>6 DEF f

\* What was taken over is what it was.
LEMMA AbsorbedStands ==
  ASSUME CInv, absorbed' = absorbed, \A w \in Workers : Taken(w)' = Taken(w)
  PROVE  AbsorbedOK'
<1>1. \A w \in Workers : [v \in Workers |-> Taken(v)'][w] = [v \in Workers |-> Taken(v)][w]
  OBVIOUS
<1>2. Total([v \in Workers |-> Taken(v)'], Workers) = Total([v \in Workers |-> Taken(v)], Workers)
  BY <1>1, TotalSame
<1> QED BY <1>2 DEF CInv, AbsorbedOK

\* While compiles are under way the row is not settled, and nobody was asked.
LEMMA PoolingFacts ==
  ASSUME CInv, Pooling
  PROVE  row \in {None, Failed} /\ \A w \in Workers : stats[w] = "unasked" /\ Taken(w) = 0
BY DEF CInv, AskedOK, Taken

LEMMA ClaimCounts ==
  ASSUME CInv, IInv', NEW w \in Workers, Claim(w)
  PROVE  CInv'
<1> DEFINE c == Min(queue)
<1>1. c \in queue /\ c \in Cands
  <2>1. queue \in SUBSET Cands /\ queue # {}
    BY DEF CInv, IInv, Types, Claim
  <2> QED BY <2>1, MinOfQueue
<1>2. /\ Pooling /\ busy[w] = None /\ queue' = queue \ {c}
      /\ UNCHANGED <<fan, truth, phase, died, failure, row, process, mail, stats, did, absorbed>>
      /\ ~died[w] => busy' = [busy EXCEPT ![w] = c]
  BY DEF Claim, poolVars
<1> HIDE DEF c
<1>3. PoolTypes' /\ AskedOK'
  BY <1>2 DEF CInv, PoolTypes, AskedOK, Pooling
<1>4. AbsorbedOK'
  BY <1>2, AbsorbedStands DEF Taken
<1>5. row' \in {None, Failed}
  BY <1>2, PoolingFacts
<1>6. ASSUME ~failure PROVE Total([v \in Workers |-> Charged(v)'], Workers) + Cardinality(Left') <= N
  <2>1. busy' = [busy EXCEPT ![w] = c]
    BY <1>2, <1>6 DEF CInv, IInv, CalmOK
  <2> DEFINE f == [v \in Workers |-> Charged(v)']
             g == [v \in Workers |-> Charged(v)]
             h == [v \in Workers |-> IF v = w THEN Charged(w) + 1 ELSE Charged(v)]
  <2>2. \A v \in Workers : busy'[v] = IF v = w THEN c ELSE busy[v]
    BY <2>1 DEF CInv, IInv, Types
  <2>3. \A v \in Workers : f[v] \in Nat /\ g[v] \in Nat /\ h[v] \in Nat /\ f[v] <= h[v]
    BY <1>2, <2>2, ChargedFacts DEF CInv, PoolTypes, Charged
  <2>4. (\A v \in Workers : v # w => h[v] = g[v]) /\ h[w] = g[w] + 1
    OBVIOUS
  <2>5. Total(g, Workers) + Cardinality(Left) <= N
    BY <1>6 DEF CInv, FanOK
  <2> HIDE DEF f, g, h
  <2>6. Total(f, Workers) <= Total(h, Workers)
    <3>1. \A v \in Workers : f[v] \in Int /\ h[v] \in Int /\ f[v] <= h[v]
      BY <2>3
    <3> QED BY <3>1, TotalGrows, RankAssumption
  <2>7. Total(h, Workers) = Total(g, Workers) - g[w] + h[w]
    BY <2>3, <2>4, TotalExcept, RankAssumption
  <2>8. Total(f, Workers) \in Nat /\ Total(g, Workers) \in Nat /\ Total(h, Workers) \in Nat
    <3>1. \A v \in Workers : f[v] \in Int /\ h[v] \in Int /\ g[v] \in Int
      BY <2>3
    <3> QED BY <3>1, TotalType, RankAssumption
  <2>9. Left' = Left \ {c} /\ c \in Left
    <3>1. c \in UnderWay /\ PlaceOK
      BY <1>1, <1>6 DEF CInv, IInv, Sound, UnderWay
    <3>2. (phase = "default" => c = 1) /\ (phase = "probes" => c \in Tried(fan))
      BY <3>1 DEF PlaceOK
    <3> QED BY <1>1, <1>2, <3>2 DEF Left
  <2>10. Cardinality(Left') = Cardinality(Left) - 1 /\ Cardinality(Left) \in Nat
    <3>1. Left \in SUBSET Cands
      BY LeftShape DEF CInv
    <3>2. IsFiniteSet(Left) /\ Cardinality(Left) \in Nat
      BY <3>1, SizeFacts
    <3> QED BY <2>9, <3>2, FS_RemoveElement
  <2>11. g[w] \in Nat /\ h[w] \in Nat
    BY <2>3
  <2>12. Total(f, Workers) + Cardinality(Left') <= N
    BY <2>4, <2>5, <2>6, <2>7, <2>8, <2>10, <2>11, RankAssumption
  <2> QED BY <2>12 DEF f
<1> QED BY <1>2, <1>3, <1>4, <1>5, <1>6 DEF CInv, FanOK

LEMMA ReplyCounts ==
  ASSUME CInv, IInv', NEW w \in Workers, Reply(w)
  PROVE  CInv'
<1>1. /\ mail[w] = "none" /\ UNCHANGED <<fan, phase, queue, busy, failure, row, process, stats, absorbed>>
      /\ \/ busy[w] # None /\ mail' = [mail EXCEPT ![w] = "object"] /\ did' = [did EXCEPT ![w] = did[w] + 1]
         \/ mail' = [mail EXCEPT ![w] = "stats"] /\ did' = did
  BY DEF Reply, driverVars, CInv, PoolTypes
<1>2. PoolTypes' /\ AskedOK'
  BY <1>1 DEF CInv, PoolTypes, AskedOK, Pooling
<1>3. \A v \in Workers : Charged(v)' <= Charged(v)
  BY <1>1 DEF CInv, PoolTypes, Charged
<1>4. Left' = Left
  BY <1>1 DEF Left
<1>5. busy[w] # None => Pooling
  BY DEF CInv, IInv, CalmOK, Idle
<1>6. AbsorbedOK'
  <2>1. \A v \in Workers : Taken(v)' = Taken(v)
    BY <1>1, <1>5, PoolingFacts DEF Taken, CInv, PoolTypes
  <2> QED BY <1>1, <2>1, AbsorbedStands
<1>7. row' \notin {None, Failed} => Answered' <= N
  <2>1. row \notin {None, Failed} => did' = did
    BY <1>1, <1>5, PoolingFacts
  <2> QED BY <1>1, <2>1 DEF CInv, FanOK, Answered
<1>8. ~failure' => Total([v \in Workers |-> Charged(v)'], Workers) + Cardinality(Left') <= N
  BY <1>1, <1>2, <1>3, <1>4, FanStands
<1> QED BY <1>2, <1>6, <1>7, <1>8 DEF CInv, FanOK

LEMMA DeliverCounts ==
  ASSUME CInv, IInv', NEW w \in Workers, Deliver(w)
  PROVE  CInv'
<1>1. /\ mail' = [mail EXCEPT ![w] = "none"] /\ UNCHANGED <<fan, phase, queue, failure, row, process, did>>
      /\ busy' = busy \/ busy' = [busy EXCEPT ![w] = None]
      /\ mail[w] = "object" => busy' = [busy EXCEPT ![w] = None]
  BY DEF Deliver, CInv, IInv, Types
<1>2. \/ stats' = stats /\ absorbed' = absorbed
      \/ stats[w] = "asked" /\ stats' = [stats EXCEPT ![w] = "absorbed"] /\ absorbed' = absorbed + did[w]
  BY DEF Deliver
<1>3. PoolTypes'
  <2>1. absorbed' \in Nat
    BY <1>2 DEF CInv, PoolTypes
  <2> QED BY <1>1, <1>2, <2>1 DEF CInv, PoolTypes
<1>4. AskedOK'
  <2>1. stats[w] = "asked" => ~Pooling
    BY PoolingFacts
  <2> QED BY <1>1, <1>2, <2>1 DEF CInv, PoolTypes, AskedOK, Pooling
<1>5. \A v \in Workers : Charged(v)' <= Charged(v)
  BY <1>1 DEF CInv, PoolTypes, IInv, Types, Charged
<1>6. Left' = Left /\ Answered' = Answered
  BY <1>1 DEF Left, Answered
<1>7. AbsorbedOK'
  <2>1. CASE stats' = stats /\ absorbed' = absorbed
    BY <1>1, <2>1, AbsorbedStands DEF Taken
  <2>2. CASE stats[w] = "asked" /\ stats' = [stats EXCEPT ![w] = "absorbed"] /\ absorbed' = absorbed + did[w]
    <3> DEFINE f == [v \in Workers |-> Taken(v)]
               g == [v \in Workers |-> Taken(v)']
    <3>1. \A v \in Workers : f[v] \in Nat /\ g[v] \in Nat /\ (v # w => g[v] = f[v])
      BY <1>1, <2>2 DEF CInv, PoolTypes, Taken
    <3>2. f[w] = 0 /\ g[w] = did[w]
      BY <1>1, <2>2 DEF CInv, PoolTypes, Taken
    <3>3. absorbed = Total(f, Workers) /\ absorbed \in Nat /\ did[w] \in Nat
      BY DEF CInv, AbsorbedOK, PoolTypes
    <3> HIDE DEF f, g
    <3>4. Total(g, Workers) = Total(f, Workers) - f[w] + g[w]
      <4>1. \A v \in Workers : f[v] \in Nat /\ g[v] \in Nat
        BY <3>1
      <4>2. \A v \in Workers : v # w => g[v] = f[v]
        BY <3>1
      <4>3. IsFiniteSet(Workers)
        BY RankAssumption
      <4> QED BY <4>1, <4>2, <4>3, TotalExcept
    <3>5. absorbed' = Total(g, Workers)
      BY <2>2, <3>2, <3>3, <3>4
    <3> QED BY <3>5 DEF g, AbsorbedOK
  <2> QED BY <1>2, <2>1, <2>2
<1>8. ~failure' => Total([v \in Workers |-> Charged(v)'], Workers) + Cardinality(Left') <= N
  BY <1>1, <1>3, <1>5, <1>6, FanStands
<1> QED BY <1>1, <1>3, <1>4, <1>6, <1>7, <1>8 DEF CInv, FanOK

LEMMA ExitCounts ==
  ASSUME CInv, IInv', NEW w \in Workers, Exit(w)
  PROVE  CInv'
<1>1. /\ process' = [process EXCEPT ![w] = "gone"] /\ UNCHANGED <<fan, phase, queue, row, mail, did, absorbed>>
      /\ failure' = (failure \/ Pooling \/ stats[w] = "asked")
      /\ stats' = [stats EXCEPT ![w] = IF stats[w] = "asked" THEN "lost" ELSE stats[w]]
      /\ Pooling \/ busy' = busy
  BY DEF Exit, Rejected, CInv, PoolTypes
<1>2. PoolTypes'
  BY <1>1 DEF CInv, PoolTypes
<1>3. AskedOK'
  BY <1>1 DEF CInv, PoolTypes, AskedOK, Pooling
<1>4. AbsorbedOK'
  <2>1. \A v \in Workers : Taken(v)' = Taken(v)
    BY <1>1 DEF Taken, CInv, PoolTypes
  <2> QED BY <1>1, <2>1, AbsorbedStands
<1>5. ~failure' => Total([v \in Workers |-> Charged(v)'], Workers) + Cardinality(Left') <= N
  <2>1. ~failure' => ~failure /\ busy' = busy
    BY <1>1
  <2>2. Left' = Left
    BY <1>1 DEF Left
  <2>3. ~failure' => \A v \in Workers : Charged(v)' <= Charged(v)
    BY <1>1, <2>1, ChargedFacts DEF CInv, PoolTypes, Charged
  <2> QED BY <1>2, <2>1, <2>2, <2>3, FanStands
<1>6. Answered' = Answered
  BY <1>1 DEF Answered
<1> QED BY <1>1, <1>2, <1>3, <1>4, <1>5, <1>6 DEF CInv, FanOK

\* What later phases schedule, and no more, is left to them.
LEMMA LeftFalls ==
  ASSUME CInv, Finish
  PROVE  Left' \subseteq Left
<1>1. /\ Pooling /\ UNCHANGED fan /\ Tried(fan) \subseteq Cands /\ 1 \in Tried(fan)
  BY TruthShape DEF Finish, CInv, IInv
<1>2. ASSUME NEW a, Close(a) PROVE Left' \subseteq Left
  BY <1>2 DEF Close, Left
<1>3. ASSUME ~engine, phase = "default" PROVE Left' \subseteq Left
  <2>1. \/ phase' = "probes" /\ queue' = Tried(fan) \ {1}
        \/ phase' = "rest" /\ queue' = Cands \ {1}
    BY <1>3 DEF Finish, Scheduled
  <2> QED BY <1>1, <1>3, <2>1 DEF Left
<1>4. ASSUME ~engine, phase = "probes" PROVE Left' \subseteq Left
  <2>1. \/ \E a : Close(a)
        \/ phase' = "rest" /\ queue' \subseteq Cands \ Tried(fan)
    BY <1>4 DEF Finish, Scheduled
  <2> QED BY <1>1, <1>2, <1>4, <2>1 DEF Left
<1>5. ASSUME engine \/ phase = "rest" PROVE \E a : Close(a)
  BY <1>1, <1>5 DEF Finish, Pooling
<1> QED BY <1>1, <1>2, <1>3, <1>4, <1>5 DEF Pooling

LEMMA FinishCounts ==
  ASSUME CInv, IInv', Finish
  PROVE  CInv'
<1>1. /\ Pooling /\ UNCHANGED <<fan, busy, process, mail, failure, did, absorbed, row>>
      /\ \/ stats' = stats /\ (Pooling' \/ failure)
         \/ stats' = [w \in Workers |-> "asked"] /\ phase' = "collect"
  <2>1. ASSUME NEW a, Close(a)
        PROVE  \/ stats' = stats /\ failure
               \/ stats' = [w \in Workers |-> "asked"] /\ phase' = "collect"
    BY <2>1 DEF Close
  <2>2. ASSUME NEW p \in {"probes", "rest"}, NEW q, Scheduled(p, q)
        PROVE  stats' = stats /\ Pooling'
    BY <2>2 DEF Scheduled, Pooling
  <2>3. (\E a : Close(a)) \/ \E p \in {"probes", "rest"} : \E q : Scheduled(p, q)
    BY DEF Finish, Pooling
  <2> QED BY <2>1, <2>2, <2>3 DEF Finish
<1>2. PoolTypes'
  BY <1>1 DEF CInv, PoolTypes
<1>3. row \in {None, Failed} /\ \A w \in Workers : stats[w] = "unasked" /\ Taken(w) = 0
  BY <1>1, PoolingFacts
<1>4. AskedOK'
  BY <1>1, <1>3 DEF AskedOK, Pooling
<1>5. AbsorbedOK'
  <2>1. \A w \in Workers : Taken(w)' = Taken(w)
    BY <1>1, <1>3 DEF Taken
  <2> QED BY <1>1, <2>1, AbsorbedStands
<1>6. ~failure' => Total([w \in Workers |-> Charged(w)'], Workers) + Cardinality(Left') <= N
  <2>1. \A w \in Workers : Charged(w)' <= Charged(w)
    BY <1>1, ChargedFacts DEF CInv, Charged
  <2> QED BY <1>1, <1>2, <2>1, LeftFalls, FanStands
<1> QED BY <1>1, <1>2, <1>3, <1>4, <1>5, <1>6 DEF CInv, FanOK

LEMMA EndCounts ==
  ASSUME CInv, IInv', Collected \/ Stopped
  PROVE  CInv'
<1>1. /\ UNCHANGED <<fan, queue, busy, process, mail, failure, stats, did, absorbed>>
      /\ phase \in {"collect", "stop"} /\ phase' \in {"stop", "over"}
      /\ phase = "collect" => \A w \in Workers : stats[w] \in {"absorbed", "lost"}
      /\ \/ row' = row
         \/ phase = "stop" /\ row' = IF failure THEN Failed ELSE answer
  BY DEF Collected, Stopped, poolVars
<1>2. PoolTypes'
  BY <1>1 DEF CInv, PoolTypes
<1>3. ~failure => \A w \in Workers : stats[w] = "absorbed"
  BY <1>1 DEF CInv, AskedOK
<1>4. AskedOK'
  BY <1>1, <1>3 DEF CInv, AskedOK, Pooling
<1>5. AbsorbedOK'
  BY <1>1, AbsorbedStands DEF Taken
<1>6. ~failure' => Total([w \in Workers |-> Charged(w)'], Workers) + Cardinality(Left') <= N
  <2>1. \A w \in Workers : Charged(w)' <= Charged(w)
    BY <1>1, ChargedFacts DEF CInv, Charged
  <2>2. Left' = Left
    BY <1>1 DEF Left
  <2> QED BY <1>1, <1>2, <2>1, <2>2, FanStands
<1>7. ~failure => Answered <= N
  <2> SUFFICES ASSUME ~failure PROVE Answered <= N
    OBVIOUS
  <2> DEFINE g == [w \in Workers |-> Charged(w)]
  <2>1. \A w \in Workers : did[w] \in Int /\ g[w] \in Int /\ did[w] <= g[w]
    BY ChargedFacts DEF CInv
  <2>2. Total(g, Workers) + Cardinality(Left) <= N /\ Total(g, Workers) \in Nat
    BY ChargedFacts DEF CInv, FanOK
  <2>3. Cardinality(Left) \in Nat
    BY LeftShape, SizeFacts DEF CInv
  <2> HIDE DEF g
  <2>4. Total(did, Workers) <= Total(g, Workers) /\ Total(did, Workers) \in Nat
    BY <2>1, TotalGrows, TotalType, RankAssumption
  <2> QED BY <2>2, <2>3, <2>4, RankAssumption DEF Answered
<1>8. row' \notin {None, Failed} => Answered' <= N
  BY <1>1, <1>7 DEF CInv, FanOK, Answered
<1> QED BY <1>2, <1>4, <1>5, <1>6, <1>8 DEF CInv, FanOK

\* Nothing the counters read.
LEMMA AsideCounts ==
  ASSUME CInv, IInv', PoolTypes',
         UNCHANGED <<fan, phase, queue, busy, mail, failure, stats, did, absorbed, row>>
  PROVE  CInv'
BY DEF CInv, AskedOK, Pooling, AbsorbedOK, Taken, FanOK, Charged, Left, Answered

\* CInv holds of every state: a compile is counted once, and only compiles of the fan are.
THEOREM CountersInvariance == Spec => []CInv
<1>1. Init => CInv
  <2> SUFFICES ASSUME Init PROVE CInv
    OBVIOUS
  <2>1. IInv /\ PoolTypes
    BY InitOK DEF Init, PoolTypes
  <2>2. AskedOK
    BY DEF Init, AskedOK, Pooling
  <2>3. \A w \in Workers : Taken(w) = 0 /\ Charged(w) = 0
    BY DEF Init, Taken, Charged
  <2> DEFINE f == [w \in Workers |-> Taken(w)]
             g == [w \in Workers |-> Charged(w)]
             z == [w \in Workers |-> 0]
  <2>4. f = z /\ g = z
    BY <2>3
  <2>5. Total(z, Workers) = 0
    <3>1. Units(z, Workers) = {}
      BY DEF Units
    <3> QED BY <3>1, FS_EmptySet DEF Total
  <2>6. AbsorbedOK
    BY <2>4, <2>5 DEF Init, AbsorbedOK
  <2>7. Left = Cands
    <3>1. 1 \in Cands
      BY RankAssumption DEF Cands
    <3> QED BY <3>1 DEF Init, Left
  <2>8. FanOK
    BY <2>4, <2>5, <2>7, CandsFinite, RankAssumption DEF Init, FanOK
  <2> QED BY <2>1, <2>2, <2>6, <2>8 DEF CInv
<1>2. CInv /\ IInv' /\ [Next]_vars => CInv'
  <2> SUFFICES ASSUME CInv, IInv', [Next]_vars PROVE CInv'
    OBVIOUS
  <2>1. CASE \E w \in Workers : Claim(w) \/ Reply(w) \/ Deliver(w) \/ Exit(w)
    BY <2>1, ClaimCounts, ReplyCounts, DeliverCounts, ExitCounts
  <2>2. CASE (\E w \in Workers : Die(w)) \/ UNCHANGED vars
    <3>1. PoolTypes'
      BY <2>2 DEF Die, CInv, PoolTypes, vars, poolVars
    <3> QED BY <2>2, <3>1, AsideCounts DEF Die, vars, driverVars, poolVars
  <2>3. CASE Finish
    BY <2>3, FinishCounts
  <2>4. CASE Collected \/ Stopped
    BY <2>4, EndCounts
  <2> QED BY <2>1, <2>2, <2>3, <2>4 DEF Next, Worker
<1> QED BY <1>1, <1>2, Invariance, PTL DEF Spec

\* Every variable keeps its type; a worker holds no index past the fan.
THEOREM TypeCorrect == Spec => []TypeOK
<1>1. CInv => TypeOK
  BY TypesHold DEF CInv
<1> QED BY <1>1, CountersInvariance, PTL

\* A row that does not fail has taken over each worker's counters once, for no more compiles than the fan holds.
THEOREM CountersAreWhole == Spec => []CountersWhole
<1>1. CInv => CountersWhole
  <2> SUFFICES ASSUME CInv, row \notin {None, Failed} PROVE absorbed = Answered /\ absorbed <= N
    BY DEF CountersWhole
  <2>1. \A w \in Workers : [v \in Workers |-> Taken(v)][w] = did[w]
    BY DEF CInv, AskedOK, Taken
  <2>2. Total([w \in Workers |-> Taken(w)], Workers) = Total(did, Workers)
    BY <2>1, TotalSame
  <2> QED BY <2>2 DEF CInv, AbsorbedOK, FanOK, Answered
<1> QED BY <1>1, CountersInvariance, PTL
=============================================================================
