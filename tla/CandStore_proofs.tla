-------------------------- MODULE CandStore_proofs --------------------------
(***************************************************************************)
(* Proofs about CandStore, for any number of processes, candidates, object *)
(* contents and files, and any store left behind (StoresAssumption).       *)
(***************************************************************************)
EXTENDS CandStore, FiniteSetTheorems, TLAPS

-----------------------------------------------------------------------------
(* The inductive invariant.                                                *)

\* Where a call is says what its compile gave.
Positive == {"unfail", "link", "create", "cut", "write", "join", "return"}
Outcomes ==
  \A p \in Procs :
    /\ proc[p].pc \in Positive => Fresh(p) \in Objs
    /\ proc[p].pc \in {"unobj", "fail"} => Fresh(p) = Rej
    /\ At(p, "idle") /\ proc[p].answer = "stored" => Fresh(p) \in Objs

\* No file has two names, and a file being written has at most the writer's.
OneName ==
  \A a, b \in Objs : objects[a] = objects[b] /\ objects[a] # None => a = b
WriterNames ==
  \A p \in Procs, o \in Objs : At(p, "write") /\ objects[o] = proc[p].fd => o = Fresh(p)
SameWriters ==
  \A p, q \in Procs :
    At(p, "write") /\ At(q, "write") /\ proc[p].fd = proc[q].fd => Fresh(p) = Fresh(q)

\* Who is about to link has made sure of the bytes; they can only be cut since.
Ready ==
  \A p \in Procs :
    (At(p, "join") \/ At(p, "write")) /\ objects[Fresh(p)] # None
      => bytes[objects[Fresh(p)]] \in {Fresh(p), Empty}

\* The file behind k holds k's bytes, or is being repaired to hold them.
Held(k) ==
  /\ bytes[keyO[k]] \in {Truth[k], Empty}
  /\ \A o \in Objs : objects[o] = keyO[k] => o = Truth[k]
  /\ \A q \in Procs : At(q, "write") /\ proc[q].fd = keyO[k] => Fresh(q) = Truth[k]

\* A file that holds a key's own bytes is nobody else's to rewrite.
Honest ==
  \A k \in Keys : keyO[k] # None /\ bytes[keyO[k]] = Truth[k] => Held(k)

\* What a put handed out, or is about to.
Kept ==
  \A p \in Procs :
    (At(p, "return") \/ (At(p, "idle") /\ proc[p].answer = "stored")) /\ keyO[KeyOf(p)] # None
      => Held(KeyOf(p))

IInv == TypeOK /\ Outcomes /\ OneName /\ WriterNames /\ SameWriters /\ Ready /\ Honest /\ Kept

-----------------------------------------------------------------------------
(* Facts about one call's record.                                          *)

LEMMA StartingType == Starting \in Call
<1>1. (CHOOSE k \in Keys : TRUE) \in Keys BY ModesAssumption
<1> QED BY <1>1, BoundsAssumption DEF Starting, Call, Pcs, Answers

LEMMA GoType ==
  ASSUME TypeOK, NEW p \in Procs, NEW pc \in Pcs
  PROVE  [proc EXCEPT ![p].pc = pc] \in [Procs -> Call]
BY ZenonT(40) DEF TypeOK, Call

LEMMA MovedType ==
  ASSUME TypeOK, NEW p \in Procs, NEW pc \in Pcs, NEW w \in {"put", "audit"},
         NEW i \in Inodes \cup {None}
  PROVE  Moved(p, pc, w, i) \in [Procs -> Call]
<1> DEFINE r == [proc[p] EXCEPT !.pc = pc, !.why = w, !.fd = i]
<1>1. r \in Call BY ZenonT(40) DEF TypeOK, Call
<1>2. Moved(p, pc, w, i) = [proc EXCEPT ![p] = r] BY DEF Moved
<1> HIDE DEF r
<1> QED BY <1>1, <1>2 DEF TypeOK

LEMMA RepliedType ==
  ASSUME TypeOK, NEW p \in Procs, NEW answer \in Answers
  PROVE  Replied(p, answer) \in [Procs -> Call]
<1> DEFINE r == [proc[p] EXCEPT !.pc = "idle", !.fd = None, !.answer = answer]
<1>1. r \in Call BY ZenonT(40) DEF TypeOK, Call, Pcs
<1>2. Replied(p, answer) = [proc EXCEPT ![p] = r] BY DEF Replied
<1> HIDE DEF r
<1> QED BY <1>1, <1>2 DEF TypeOK

LEMMA OverType ==
  ASSUME TypeOK, NEW p \in Procs, NEW answer \in Answers, AuditOver(p, answer)
  PROVE  proc' \in [Procs -> Call]
<1>1. CASE p \in Verifiers
  <2>1. (IF Fresh(p) = Rej THEN "fail" ELSE "link") \in Pcs BY DEF Pcs, Writes
  <2> QED BY <1>1, <2>1, MovedType DEF AuditOver
<1>2. CASE p \notin Verifiers
  BY <1>2, RepliedType DEF AuditOver
<1> QED BY <1>1, <1>2

LEMMA BumpType ==
  ASSUME TypeOK, NEW p \in Procs, NEW c \in Counters, Bump(p, c)
  PROVE  stats' \in [Procs -> [Counters -> Nat]]
BY DEF TypeOK, Bump

LEMMA ClaimType ==
  ASSUME TypeOK, NEW p \in Procs, Claim(p)
  PROVE  /\ sample' \in [Procs -> SUBSET Keys]
         /\ auditing' \in [Procs -> SUBSET Keys]
         /\ audited' \in [Procs -> SUBSET Keys]
<1>1. KeyOf(p) \in Keys BY DEF TypeOK, Call, KeyOf
<1> QED BY <1>1 DEF TypeOK, Claim

LEMMA GoFields ==
  ASSUME TypeOK, NEW p \in Procs, NEW pc, Go(p, pc)
  PROVE  /\ \A q \in Procs : q # p => proc'[q] = proc[q]
         /\ proc'[p].pc = pc /\ proc'[p].key = proc[p].key
         /\ proc'[p].fd = proc[p].fd /\ proc'[p].answer = proc[p].answer
BY DEF TypeOK, Call, Go

LEMMA MovedFields ==
  ASSUME TypeOK, NEW p \in Procs, NEW pc, NEW w, NEW i, proc' = Moved(p, pc, w, i)
  PROVE  /\ \A q \in Procs : q # p => proc'[q] = proc[q]
         /\ proc'[p].pc = pc /\ proc'[p].key = proc[p].key
         /\ proc'[p].fd = i /\ proc'[p].answer = proc[p].answer
BY DEF TypeOK, Call, Moved

LEMMA RepliedFields ==
  ASSUME TypeOK, NEW p \in Procs, NEW answer, Reply(p, answer)
  PROVE  /\ \A q \in Procs : q # p => proc'[q] = proc[q]
         /\ proc'[p].pc = "idle" /\ proc'[p].key = proc[p].key
         /\ proc'[p].fd = None /\ proc'[p].answer = answer
BY DEF TypeOK, Call, Reply, Replied

LEMMA OverFields ==
  ASSUME TypeOK, NEW p \in Procs, NEW answer, AuditOver(p, answer)
  PROVE  /\ \A q \in Procs : q # p => proc'[q] = proc[q]
         /\ proc'[p].key = proc[p].key /\ proc'[p].fd = None
         /\ \/ proc'[p].pc = "idle" /\ proc'[p].answer = answer
            \/ proc'[p].pc = "fail" /\ Fresh(p) = Rej
            \/ proc'[p].pc = "link" /\ Fresh(p) # Rej
<1>1. CASE p \in Verifiers
  <2> DEFINE pc == IF Fresh(p) = Rej THEN "fail" ELSE "link"
  <2>1. proc' = Moved(p, pc, "put", None) BY <1>1 DEF AuditOver
  <2>2. (pc = "fail" /\ Fresh(p) = Rej) \/ (pc = "link" /\ Fresh(p) # Rej) OBVIOUS
  <2> HIDE DEF pc
  <2> QED BY <2>1, <2>2, MovedFields
<1>2. CASE p \notin Verifiers
  BY <1>2, RepliedFields DEF AuditOver, Reply
<1> QED BY <1>1, <1>2

LEMMA AskedFields ==
  ASSUME TypeOK, NEW p \in Procs, NEW k \in Keys, NEW pc, NEW answer, Asked(p, k, pc, answer)
  PROVE  /\ \A q \in Procs : q # p => proc'[q] = proc[q]
         /\ proc'[p].pc = pc /\ proc'[p].key = k
         /\ proc'[p].fd = None /\ proc'[p].answer = answer
<1>1. proc[p].fd = None BY DEF TypeOK, Asked, At
<1> DEFINE r == Began(p, k, pc, answer)
<1>2. r.pc = pc /\ r.key = k /\ r.fd = proc[p].fd /\ r.answer = answer
  BY DEF TypeOK, Call, Began
<1>3. proc' = [proc EXCEPT ![p] = r] BY DEF Asked
<1> HIDE DEF r
<1> QED BY <1>1, <1>2, <1>3 DEF TypeOK

-----------------------------------------------------------------------------
(* Steps that rewrite no file and install no entry.                        *)

Stored(p) == At(p, "return") \/ (At(p, "idle") /\ proc[p].answer = "stored")

Calm ==
  /\ \A o \in Objs : objects'[o] \in {objects[o], None}
  /\ bytes' = bytes
  /\ \A k \in Keys : keyO'[k] \in {keyO[k], None}
  /\ \A q \in Procs : At(q, "write")' =>
       At(q, "write") /\ proc'[q].fd = proc[q].fd /\ KeyOf(q)' = KeyOf(q)
  /\ \A q \in Procs : At(q, "join")' =>
       /\ KeyOf(q)' = KeyOf(q)
       /\ At(q, "join") \/ bytes[objects[Fresh(q)]] = Fresh(q)
  /\ \A q \in Procs : Stored(q)' =>
       /\ KeyOf(q)' = KeyOf(q)
       /\ Stored(q) \/ bytes[keyO[KeyOf(q)]] = Fresh(q)

LEMMA CalmStep ==
  ASSUME IInv, TypeOK', Outcomes', Calm
  PROVE  IInv'
<1>1. OneName' BY DEF IInv, Calm, OneName
<1>2. WriterNames' /\ SameWriters'
  <2>1. \A q \in Procs : At(q, "write")' => Fresh(q)' = Fresh(q) BY DEF Calm, Fresh, KeyOf
  <2>2. \A q \in Procs : At(q, "write")' => proc'[q].fd # None BY DEF TypeOK, At
  <2> QED BY <2>1, <2>2 DEF IInv, Calm, WriterNames, SameWriters
<1>3. Ready'
  <2> SUFFICES ASSUME NEW q \in Procs, At(q, "join")' \/ At(q, "write")',
                      objects'[Fresh(q)'] # None
               PROVE  bytes'[objects'[Fresh(q)']] \in {Fresh(q)', Empty}
    BY DEF Ready
  <2>1. Fresh(q)' = Fresh(q) BY DEF Calm, Fresh, KeyOf
  <2>2. Fresh(q) \in Objs BY <2>1 DEF Outcomes, Positive, At
  <2>3. objects'[Fresh(q)] = objects[Fresh(q)] BY <2>1, <2>2 DEF Calm
  <2> QED BY <2>1, <2>2, <2>3 DEF IInv, Ready, Calm
<1>4. \A k \in Keys : keyO'[k] # None /\ Held(k) => Held(k)'
  <2> SUFFICES ASSUME NEW k \in Keys, keyO'[k] # None, Held(k) PROVE Held(k)' OBVIOUS
  <2>1. keyO'[k] = keyO[k] BY DEF Calm
  <2>2. \A o \in Objs : objects'[o] = keyO'[k] => o = Truth[k] BY <2>1 DEF Calm, Held
  <2>3. \A q \in Procs : At(q, "write")' /\ proc'[q].fd = keyO'[k] => Fresh(q)' = Truth[k]
    BY <2>1 DEF Calm, Held, Fresh, KeyOf
  <2> QED BY <2>1, <2>2, <2>3 DEF Calm, Held
<1>5. Honest' BY <1>4 DEF IInv, Honest, Calm
<1>6. Kept'
  <2> SUFFICES ASSUME NEW q \in Procs, Stored(q)', keyO'[KeyOf(q)'] # None
               PROVE  Held(KeyOf(q))'
    BY DEF Kept, Stored
  <2>0. KeyOf(q) \in Keys BY DEF IInv, TypeOK, Call, KeyOf
  <2>1. KeyOf(q)' = KeyOf(q) /\ keyO'[KeyOf(q)] = keyO[KeyOf(q)] BY <2>0 DEF Calm
  <2>2. Held(KeyOf(q)) BY <2>0, <2>1 DEF IInv, Calm, Kept, Honest, Stored, Fresh
  <2> DEFINE k == KeyOf(q)
  <2>3. k \in Keys /\ keyO'[k] # None /\ Held(k) BY <2>0, <2>1, <2>2
  <2> QED BY <2>1, <2>2, <2>0, <1>4 DEF Held
<1> QED BY <1>1, <1>2, <1>3, <1>5, <1>6 DEF IInv

-----------------------------------------------------------------------------
(* A step of process p changes its own record only.                        *)

Others(p) == \A q \in Procs : q # p => proc'[q] = proc[q]

\* The rest of the invariant about p's own place, given the others' records stay.
LEMMA OutcomesOf ==
  ASSUME Outcomes, NEW p \in Procs, Others(p),
         proc'[p].pc \in Positive => Truth[proc'[p].key] \in Objs,
         proc'[p].pc \in {"unobj", "fail"} => Truth[proc'[p].key] = Rej,
         proc'[p].pc = "idle" /\ proc'[p].answer = "stored" => Truth[proc'[p].key] \in Objs
  PROVE  Outcomes'
BY DEF Outcomes, Others, Fresh, KeyOf, At

\* The two changes a quiet step of p may make to the store.
LEMMA CalmOf ==
  ASSUME IInv, TypeOK', NEW p \in Procs, Others(p),
         \A o \in Objs : objects'[o] \in {objects[o], None}, bytes' = bytes,
         \A k \in Keys : keyO'[k] \in {keyO[k], None},
         proc'[p].pc # "write",
         proc'[p].pc = "join" => /\ proc'[p].key = proc[p].key
                                 /\ bytes[objects[Fresh(p)]] = Fresh(p),
         Stored(p)' => /\ proc'[p].key = proc[p].key
                       /\ Stored(p) \/ bytes[keyO[KeyOf(p)]] = Fresh(p)
  PROVE  Calm
<1>1. \A q \in Procs : q # p => /\ At(q, "write")' = At(q, "write") /\ At(q, "join")' = At(q, "join")
                                /\ Stored(q)' = Stored(q) /\ KeyOf(q)' = KeyOf(q)
                                /\ proc'[q].fd = proc[q].fd
  BY DEF Others, At, Stored, KeyOf
<1>2. KeyOf(p)' = proc'[p].key BY DEF KeyOf
<1>3. KeyOf(p) = proc[p].key BY DEF KeyOf
<1>4. ~At(p, "write")' /\ (At(p, "join")' => proc'[p].pc = "join") BY DEF At
<1> QED BY <1>1, <1>2, <1>3, <1>4 DEF Calm

LEMMA FdOf ==
  ASSUME TypeOK, NEW p \in Procs, Others(p), proc'[p].fd # None <=> proc'[p].pc = "write"
  PROVE  \A q \in Procs : proc'[q].fd # None <=> proc'[q].pc = "write"
BY DEF TypeOK, Others

LEMMA KeyFacts ==
  ASSUME TypeOK, NEW p \in Procs
  PROVE  KeyOf(p) \in Keys /\ Fresh(p) \in Objs \cup {Rej} /\ proc[p].key = KeyOf(p)
BY TruthAssumption DEF TypeOK, Call, KeyOf, Fresh

-----------------------------------------------------------------------------
(* The steps, one lemma each.                                              *)

LEMMA AskInv ==
  ASSUME IInv, NEW p \in Procs, NEW k \in Keys, NEW pc \in {"compile", "idle"},
         NEW answer \in {"none", "hit"}, Asked(p, k, pc, answer),
         auditing' \in [Procs -> SUBSET Keys], stats' \in [Procs -> [Counters -> Nat]]
  PROVE  IInv'
<1>0. TypeOK /\ Outcomes BY DEF IInv
<1>1. /\ Others(p) /\ proc'[p].pc = pc /\ proc'[p].key = k
      /\ proc'[p].fd = None /\ proc'[p].answer = answer
  BY <1>0, AskedFields DEF Others
<1>2. TypeOK'
  <2> DEFINE r == Began(p, k, pc, answer)
  <2>1. proc[p].asks \in Nat
    BY <1>0 DEF TypeOK, Call, Asked
  <2>2. proc[p].asks + 1 \in Nat BY <2>1
  <2>3. (Lookup(k) # None) \in BOOLEAN OBVIOUS
  <2>4. \A had \in BOOLEAN, asks \in Nat :
          [proc[p] EXCEPT !.pc = pc, !.key = k, !.answer = answer, !.asks = asks,
                          !.why = "put", !.had = had] \in Call
    BY ZenonT(40), <1>0 DEF TypeOK, Call, Pcs, Answers
  <2>5. r \in Call BY <2>2, <2>3, <2>4, Zenon DEF Began
  <2>50. proc' = [proc EXCEPT ![p] = r] BY DEF Asked
  <2> HIDE DEF r
  <2>6. proc' \in [Procs -> Call] BY <1>0, <2>5, <2>50 DEF TypeOK
  <2>7. \A q \in Procs : proc'[q].fd # None <=> proc'[q].pc = "write" BY <1>0, <1>1, FdOf
  <2> QED BY <1>0, <2>6, <2>7 DEF TypeOK, Asked, disk
<1>3. Outcomes' BY <1>0, <1>1, OutcomesOf DEF Positive
<1>4. Calm
  <2>1. ~Stored(p)' BY <1>1 DEF Stored, At
  <2> QED BY <1>1, <1>2, <2>1, CalmOf DEF Asked, disk
<1> QED BY <1>2, <1>3, <1>4, CalmStep

LEMMA BypassInv == ASSUME IInv, NEW p \in Procs, NEW k \in Keys, Bypass(p, k) PROVE IInv'
BY AskInv DEF Bypass, IInv, TypeOK
LEMMA MissInv == ASSUME IInv, NEW p \in Procs, NEW k \in Keys, Miss(p, k) PROVE IInv'
BY AskInv DEF Miss, IInv, TypeOK
LEMMA ServeInv == ASSUME IInv, NEW p \in Procs, NEW k \in Keys, Serve(p, k) PROVE IInv'
BY AskInv DEF Serve, IInv, TypeOK
LEMMA WithholdInv == ASSUME IInv, NEW p \in Procs, NEW k \in Keys, Withhold(p, k) PROVE IInv'
<1>1. stats' \in [Procs -> [Counters -> Nat]] BY BumpType DEF Withhold, IInv, Counters
<1>2. auditing' \in [Procs -> SUBSET Keys] BY DEF Withhold, IInv, TypeOK
<1> QED BY <1>1, <1>2, AskInv DEF Withhold

\* A step of p that leaves the store alone and p at rest, or with a `stored` answer to show for.
LEMMA RestInv ==
  ASSUME IInv, NEW p \in Procs, UNCHANGED disk, Others(p), proc' \in [Procs -> Call],
         proc'[p].pc \notin {"write", "join", "return"}, proc'[p].fd = None,
         proc'[p].key = proc[p].key,
         proc'[p].pc \in Positive => Fresh(p) \in Objs,
         proc'[p].pc \in {"unobj", "fail"} => Fresh(p) = Rej,
         proc'[p].pc = "idle" /\ proc'[p].answer = "stored" =>
           /\ Fresh(p) \in Objs
           /\ Stored(p) \/ bytes[keyO[KeyOf(p)]] = Fresh(p),
         log' \subseteq Keys \cup Objs, stats' \in [Procs -> [Counters -> Nat]],
         sample' \in [Procs -> SUBSET Keys], auditing' \in [Procs -> SUBSET Keys],
         audited' \in [Procs -> SUBSET Keys]
  PROVE  IInv'
<1>0. TypeOK /\ Outcomes BY DEF IInv
<1>1. TypeOK'
  <2>1. \A q \in Procs : proc'[q].fd # None <=> proc'[q].pc = "write" BY <1>0, FdOf
  <2> QED BY <1>0, <2>1 DEF TypeOK, disk
<1>2. Outcomes' BY <1>0, OutcomesOf, KeyFacts DEF Fresh, KeyOf
<1>3. Calm
  <2>1. Stored(p)' => proc'[p].pc = "idle" /\ proc'[p].answer = "stored" BY DEF Stored, At
  <2> QED BY <1>1, <2>1, CalmOf DEF disk
<1> QED BY <1>1, <1>2, <1>3, CalmStep

LEMMA PcsFacts ==
  /\ {"idle", "compile", "return", "discard", "dead", "unfail", "link", "create", "cut",
      "write", "join", "unobj", "fail"} \subseteq Pcs
  /\ {"none", "hit", "stored", "own", "rejected", "failed"} \subseteq Answers
BY DEF Pcs, Writes, Answers

\* A file is open only while it is written.
LEMMA FdFacts ==
  ASSUME IInv, NEW p \in Procs, ~At(p, "write")
  PROVE  proc[p].fd = None
BY DEF IInv, TypeOK, At

\* What the store may answer for a key the compiler accepts, or rejects.
LEMMA LookupFacts ==
  ASSUME TypeOK, NEW k \in Keys
  PROVE  /\ Lookup(k) \in Objs \cup {Bad} => keyO[k] # None /\ Lookup(k) = bytes[keyO[k]]
         /\ Lookup(k) \in Objs \cup {Bad, Rej, None}
BY DistinctAssumption DEF Lookup, TypeOK, Bytes

LEMMA AuditStaleInv == ASSUME IInv, NEW p \in Procs, AuditStale(p) PROVE IInv'
<1>0. TypeOK /\ At(p, "compile") /\ Claim(p) /\ UNCHANGED <<disk, log>>
  BY DEF IInv, AuditStale, Compares
<1> DEFINE pc == IF Fresh(p) = Rej THEN "fail" ELSE "link"
<1>1. Go(p, pc) BY DEF AuditStale
<1>2. (pc = "fail" /\ Fresh(p) = Rej) \/ (pc = "link" /\ Fresh(p) # Rej) OBVIOUS
<1>3. pc \in Pcs BY <1>2, PcsFacts
<1> HIDE DEF pc
<1>4. proc' \in [Procs -> Call] BY <1>0, <1>1, <1>3, GoType DEF Go
<1>5. Others(p) /\ proc'[p].pc = pc /\ proc'[p].key = proc[p].key /\ proc'[p].fd = None
  BY <1>0, <1>1, GoFields, FdFacts DEF Others, At
<1>6. stats' \in [Procs -> [Counters -> Nat]]
  <2>1. CASE p \in Verifiers BY <1>0, <2>1 DEF AuditStale, TypeOK
  <2>2. CASE p \notin Verifiers
    <3>1. Bump(p, "sampledStale") BY <2>2 DEF AuditStale
    <3> QED BY <3>1, <1>0, BumpType DEF Counters
  <2> QED BY <2>1, <2>2
<1>7. log' \subseteq Keys \cup Objs BY <1>0 DEF TypeOK
<1>8. Fresh(p) = Rej \/ Fresh(p) \in Objs BY <1>0, KeyFacts
<1> QED BY <1>0, <1>2, <1>4, <1>5, <1>6, <1>7, <1>8, ClaimType, RestInv DEF Positive

LEMMA AuditAgreesInv == ASSUME IInv, NEW p \in Procs, AuditAgrees(p) PROVE IInv'
<1>0. TypeOK /\ At(p, "compile") /\ Claim(p) /\ UNCHANGED <<disk, log>>
  BY DEF IInv, AuditAgrees, Compares
<1> DEFINE answer == IF Fresh(p) = Rej THEN "rejected" ELSE "stored"
           counter == IF Fresh(p) = Rej THEN "verifiedFail" ELSE "verified"
<1>1. AuditOver(p, answer) /\ Bump(p, counter) BY DEF AuditAgrees
<1>2. answer \in Answers /\ counter \in Counters BY PcsFacts DEF Counters
<1>3. answer = "stored" => Fresh(p) # Rej OBVIOUS
<1> HIDE DEF answer, counter
<1>4. proc' \in [Procs -> Call] /\ stats' \in [Procs -> [Counters -> Nat]]
  BY <1>0, <1>1, <1>2, OverType, BumpType
<1>5. /\ Others(p) /\ proc'[p].key = proc[p].key /\ proc'[p].fd = None
      /\ \/ proc'[p].pc = "idle" /\ proc'[p].answer = answer
         \/ proc'[p].pc = "fail" /\ Fresh(p) = Rej
         \/ proc'[p].pc = "link" /\ Fresh(p) # Rej
  BY <1>0, <1>1, OverFields DEF Others
<1>6. log' \subseteq Keys \cup Objs BY <1>0 DEF TypeOK
<1>7. Fresh(p) = Rej \/ Fresh(p) \in Objs BY <1>0, KeyFacts
<1>8. Fresh(p) \in Objs => bytes[keyO[KeyOf(p)]] = Fresh(p)
  BY <1>0, KeyFacts, LookupFacts DEF AuditAgrees
<1> QED BY <1>0, <1>3, <1>4, <1>5, <1>6, <1>7, <1>8, ClaimType, RestInv DEF Positive

LEMMA AuditDiffersInv == ASSUME IInv, NEW p \in Procs, AuditDiffers(p) PROVE IInv'
<1>0. TypeOK /\ At(p, "compile") /\ Claim(p) /\ UNCHANGED disk
  BY DEF IInv, AuditDiffers, Compares
<1>1. \E pc \in {"unobj", "unfail", "link"} :
        /\ proc' = Moved(p, pc, "audit", None)
        /\ pc = "unobj" <=> Fresh(p) = Rej
  BY DEF AuditDiffers
<1>2. PICK pc \in {"unobj", "unfail", "link"} : /\ proc' = Moved(p, pc, "audit", None)
                                                /\ pc = "unobj" <=> Fresh(p) = Rej
  BY <1>1
<1>4. proc' \in [Procs -> Call]
  <2>1. pc \in Pcs BY <1>2, PcsFacts
  <2> QED BY <1>0, <1>2, <2>1, MovedType
<1>5. Others(p) /\ proc'[p].pc = pc /\ proc'[p].key = proc[p].key /\ proc'[p].fd = None
  BY <1>0, <1>2, MovedFields DEF Others
<1>6. log' \subseteq Keys \cup Objs BY <1>0, KeyFacts DEF TypeOK, AuditDiffers
<1>7. Fresh(p) = Rej \/ Fresh(p) \in Objs BY <1>0, KeyFacts
<1>8. stats' \in [Procs -> [Counters -> Nat]] BY <1>0, BumpType DEF AuditDiffers, Counters
<1> QED BY <1>0, <1>2, <1>4, <1>5, <1>6, <1>7, <1>8, ClaimType, RestInv DEF Positive

LEMMA TransientInv == ASSUME IInv, NEW p \in Procs, Transient(p) PROVE IInv'
<1>0. TypeOK /\ At(p, "compile") /\ Claim(p) /\ UNCHANGED <<disk, log>>
  BY DEF IInv, Transient
<1>1. PICK answer \in {"failed", "hit"} : Reply(p, answer)
  BY DEF Transient
<1>2. proc' \in [Procs -> Call] BY <1>0, <1>1, PcsFacts, RepliedType DEF Reply
<1>3. /\ Others(p) /\ proc'[p].key = proc[p].key /\ proc'[p].fd = None
      /\ proc'[p].pc = "idle" /\ proc'[p].answer # "stored"
  BY <1>0, <1>1, RepliedFields DEF Others
<1>4. log' \subseteq Keys \cup Objs BY <1>0 DEF TypeOK
<1>5. stats' \in [Procs -> [Counters -> Nat]]
  <2>1. CASE KeyOf(p) \in auditing[p]
    <3>1. Bump(p, "sampledAbandoned") BY <2>1 DEF Transient
    <3> QED BY <3>1, <1>0, BumpType DEF Counters
  <2>2. CASE KeyOf(p) \notin auditing[p] BY <1>0, <2>2 DEF Transient, TypeOK
  <2> QED BY <2>1, <2>2
<1> QED BY <1>0, <1>2, <1>3, <1>4, <1>5, ClaimType, RestInv DEF Positive

\* The same when p takes entries away.
LEMMA RemoveInv ==
  ASSUME IInv, NEW p \in Procs, Others(p), proc' \in [Procs -> Call],
         UNCHANGED <<objects, bytes, log, mine>>,
         keyO' \in [Keys -> Inodes \cup {None}], \A k \in Keys : keyO'[k] \in {keyO[k], None},
         fails' \subseteq Keys,
         proc'[p].pc \notin {"write", "join", "return"}, proc'[p].fd = None,
         proc'[p].key = proc[p].key,
         proc'[p].pc \in Positive => Fresh(p) \in Objs,
         proc'[p].pc \in {"unobj", "fail"} => Fresh(p) = Rej,
         ~Stored(p)' \/ (Stored(p) /\ Fresh(p) \in Objs)
  PROVE  IInv'
<1>0. TypeOK /\ Outcomes BY DEF IInv
<1>1. TypeOK'
  <2>1. \A q \in Procs : proc'[q].fd # None <=> proc'[q].pc = "write" BY <1>0, FdOf
  <2> QED BY <1>0, <2>1 DEF TypeOK, mine
<1>2. Outcomes' BY <1>0, OutcomesOf, KeyFacts DEF Fresh, KeyOf, Stored, At
<1>3. Calm BY <1>1, CalmOf
<1> QED BY <1>1, <1>2, <1>3, CalmStep

LEMMA UnfailInv == ASSUME IInv, NEW p \in Procs, Unfail(p) PROVE IInv'
<1>0. TypeOK /\ Outcomes /\ At(p, "unfail") /\ Go(p, "link") BY DEF IInv, Unfail
<1>1. Others(p) /\ proc'[p].pc = "link" /\ proc'[p].key = proc[p].key /\ proc'[p].fd = None
  BY <1>0, GoFields, FdFacts DEF Others, At
<1>2. proc' \in [Procs -> Call] BY <1>0, PcsFacts, GoType DEF Go
<1>3. Fresh(p) \in Objs BY <1>0 DEF Outcomes, Positive, At
<1>4. ~Stored(p)' BY <1>1 DEF Stored, At
<1>5. /\ keyO' \in [Keys -> Inodes \cup {None}] /\ fails' \subseteq Keys
      /\ \A k \in Keys : keyO'[k] \in {keyO[k], None}
  BY <1>0 DEF Unfail, TypeOK
<1> QED BY <1>1, <1>2, <1>3, <1>4, <1>5, RemoveInv DEF Unfail

LEMMA UnobjInv == ASSUME IInv, NEW p \in Procs, Unobj(p) PROVE IInv'
<1>0. TypeOK /\ Outcomes /\ At(p, "unobj") /\ Go(p, "fail") BY DEF IInv, Unobj
<1>1. Others(p) /\ proc'[p].pc = "fail" /\ proc'[p].key = proc[p].key /\ proc'[p].fd = None
  BY <1>0, GoFields, FdFacts DEF Others, At
<1>2. proc' \in [Procs -> Call] BY <1>0, PcsFacts, GoType DEF Go
<1>3. Fresh(p) = Rej BY <1>0 DEF Outcomes, At
<1>4. ~Stored(p)' BY <1>1 DEF Stored, At
<1>5. /\ keyO' \in [Keys -> Inodes \cup {None}] /\ fails' \subseteq Keys
      /\ \A k \in Keys : keyO'[k] \in {keyO[k], None}
  BY <1>0, KeyFacts DEF Unobj, TypeOK
<1> QED BY <1>1, <1>2, <1>3, <1>4, <1>5, RemoveInv DEF Unobj, Positive

LEMMA ReturnInv == ASSUME IInv, NEW p \in Procs, Return(p) PROVE IInv'
<1>0. TypeOK /\ Outcomes /\ At(p, "return") BY DEF IInv, Return
<1> DEFINE answer == IF keyO[KeyOf(p)] # None THEN "stored" ELSE "own"
<1>1. AuditOver(p, answer) BY DEF Return
<1>2. answer \in Answers BY PcsFacts
<1> HIDE DEF answer
<1>3. /\ Others(p) /\ proc'[p].key = proc[p].key /\ proc'[p].fd = None
      /\ \/ proc'[p].pc = "idle" /\ proc'[p].answer = answer
         \/ proc'[p].pc = "fail" /\ Fresh(p) = Rej
         \/ proc'[p].pc = "link" /\ Fresh(p) # Rej
  BY <1>0, <1>1, OverFields DEF Others
<1>4. proc' \in [Procs -> Call] BY <1>0, <1>1, <1>2, OverType
<1>5. Fresh(p) \in Objs /\ Stored(p) BY <1>0 DEF Outcomes, Positive, At, Stored
<1>6. /\ log' \subseteq Keys \cup Objs /\ stats' \in [Procs -> [Counters -> Nat]]
      /\ sample' \in [Procs -> SUBSET Keys] /\ auditing' \in [Procs -> SUBSET Keys]
      /\ audited' \in [Procs -> SUBSET Keys]
  BY <1>0 DEF TypeOK, Return, mine
<1>7. (Fresh(p) \in Objs) => Fresh(p) # Rej \/ Fresh(p) = Rej OBVIOUS
<1> QED BY <1>3, <1>4, <1>5, <1>6, RestInv DEF Return, Positive

LEMMA WriteFailInv == ASSUME IInv, NEW p \in Procs, WriteFail(p) PROVE IInv'
<1>0. TypeOK /\ Outcomes BY DEF IInv
<1>1. Fresh(p) = Rej /\ KeyOf(p) \in Keys
  BY <1>0, KeyFacts DEF WriteFail, FailsNow, Outcomes, At
<1>2. /\ Others(p) /\ proc'[p].key = proc[p].key /\ proc'[p].fd = None
      /\ \/ proc'[p].pc = "idle" /\ proc'[p].answer = "rejected"
         \/ proc'[p].pc = "fail" \/ (proc'[p].pc = "link" /\ Fresh(p) # Rej)
  BY <1>0, OverFields, RepliedFields DEF WriteFail, Others
<1>3. proc' \in [Procs -> Call]
  BY <1>0, OverType, RepliedType, PcsFacts DEF WriteFail, Reply
<1>4. ~Stored(p)' BY <1>1, <1>2 DEF Stored, At
<1>5. /\ keyO' \in [Keys -> Inodes \cup {None}] /\ fails' \subseteq Keys
      /\ \A k \in Keys : keyO'[k] \in {keyO[k], None}
  BY <1>0, <1>1 DEF WriteFail, TypeOK
<1> QED BY <1>1, <1>2, <1>3, <1>4, <1>5, RemoveInv DEF WriteFail, Positive

LEMMA StoreFailsInv == ASSUME IInv, NEW p \in Procs, StoreFails(p) PROVE IInv'
<1>0. TypeOK /\ Outcomes BY DEF IInv
<1>1. PICK answer \in {"rejected", "own"} :
        proc' = Moved(p, "discard", "audit", None) \/ Reply(p, answer)
  BY DEF StoreFails
<1>2. /\ Others(p) /\ proc'[p].key = proc[p].key /\ proc'[p].fd = None
      /\ proc'[p].pc = "discard" \/ (proc'[p].pc = "idle" /\ proc'[p].answer # "stored")
  BY <1>0, <1>1, MovedFields, RepliedFields DEF Others
<1>3. proc' \in [Procs -> Call]
  BY <1>0, <1>1, MovedType, RepliedType, PcsFacts DEF Reply
<1>4. ~Stored(p)' BY <1>2 DEF Stored, At
<1>5. /\ keyO' \in [Keys -> Inodes \cup {None}] /\ fails' \subseteq Keys
      /\ \A k \in Keys : keyO'[k] \in {keyO[k], None}
  BY <1>0 DEF StoreFails, TypeOK, disk
<1> QED BY <1>2, <1>3, <1>4, <1>5, RemoveInv DEF StoreFails, Positive, disk

LEMMA DiscardInv == ASSUME IInv, NEW p \in Procs, Discard(p) PROVE IInv'
<1>0. TypeOK /\ Outcomes /\ KeyOf(p) \in Keys BY KeyFacts DEF IInv
<1>1. /\ keyO' \in [Keys -> Inodes \cup {None}] /\ fails' \subseteq Keys
      /\ \A k \in Keys : keyO'[k] \in {keyO[k], None}
  <2>1. PICK object, rejection \in BOOLEAN :
          /\ keyO' = IF object THEN [keyO EXCEPT ![KeyOf(p)] = None] ELSE keyO
          /\ fails' = IF rejection THEN fails \ {KeyOf(p)} ELSE fails
    BY ModesAssumption, Zenon DEF Discard
  <2>2. keyO' = keyO \/ keyO' = [keyO EXCEPT ![KeyOf(p)] = None] BY <2>1, Zenon
  <2>3. fails' = fails \/ fails' = fails \ {KeyOf(p)} BY <2>1, Zenon
  <2> QED BY <1>0, <2>2, <2>3 DEF TypeOK
<1>2. PICK answer \in {"rejected", "own"} : AuditOver(p, answer) BY DEF Discard
<1>3. /\ Others(p) /\ proc'[p].key = proc[p].key /\ proc'[p].fd = None
      /\ \/ proc'[p].pc = "idle" /\ proc'[p].answer = answer
         \/ proc'[p].pc = "fail" /\ Fresh(p) = Rej
         \/ proc'[p].pc = "link" /\ Fresh(p) # Rej
  BY <1>0, <1>2, OverFields DEF Others
<1>4. proc' \in [Procs -> Call] BY <1>0, <1>2, OverType, PcsFacts
<1>5. ~Stored(p)' BY <1>2, <1>3 DEF Stored, At
<1>6. Fresh(p) = Rej \/ Fresh(p) \in Objs BY <1>0, KeyFacts
<1> QED BY <1>1, <1>3, <1>4, <1>5, <1>6, RemoveInv DEF Discard, Positive

LEMMA LinkReadInv == ASSUME IInv, NEW p \in Procs, LinkRead(p) PROVE IInv'
<1>0. TypeOK /\ Outcomes /\ UNCHANGED disk BY DEF IInv, LinkRead
<1>1. Fresh(p) \in Objs BY <1>0, KeyFacts DEF LinkRead, PutsNow, Outcomes, Positive, At
<1>2. PICK pc \in {"create", "join", "cut"} :
        Go(p, pc) /\ (pc = "join" => bytes[objects[Fresh(p)]] = Fresh(p))
  BY DEF LinkRead
<1>3. /\ Others(p) /\ proc'[p].pc = pc /\ proc'[p].key = proc[p].key /\ proc'[p].fd = None
  BY <1>0, <1>2, GoFields, FdFacts DEF Others, LinkRead, PutsNow, At
<1>4. proc' \in [Procs -> Call] BY <1>0, <1>2, PcsFacts, GoType DEF Go
<1>5. /\ log' \subseteq Keys \cup Objs
      /\ stats' \in [Procs -> [Counters -> Nat]]
  <2>1. CASE UNCHANGED <<log, stats>> BY <1>0, <2>1 DEF TypeOK
  <2>2. CASE Bump(p, "objectCorrupt") /\ log' = log \cup {Fresh(p)}
    BY <1>0, <1>1, <2>2, BumpType DEF TypeOK, Counters
  <2> QED BY <2>1, <2>2 DEF LinkRead
<1>6. TypeOK'
  <2>1. \A q \in Procs : proc'[q].fd # None <=> proc'[q].pc = "write" BY <1>0, <1>3, FdOf
  <2> QED BY <1>0, <1>4, <1>5, <2>1 DEF TypeOK, LinkRead, disk
<1>7. Outcomes'
  <2>1. Truth[proc'[p].key] \in Objs /\ proc'[p].pc \notin {"unobj", "fail"}
    BY <1>1, <1>3 DEF Fresh, KeyOf
  <2> QED BY <1>0, <1>3, <2>1, OutcomesOf
<1>8. Calm
  <2>1. ~Stored(p)' BY <1>3 DEF Stored, At
  <2> QED BY <1>2, <1>3, <1>6, <1>0, <2>1, CalmOf DEF disk
<1> QED BY <1>6, <1>7, <1>8, CalmStep

LEMMA KillInv == ASSUME IInv, NEW p \in Procs, Kill(p) PROVE IInv'
<1>0. TypeOK /\ Outcomes BY DEF IInv
<1> DEFINE r == [Starting EXCEPT !.pc = "dead"]
<1>1. r \in Call /\ r.pc = "dead" /\ r.fd = None
  BY StartingType, PcsFacts DEF Call, Starting
<1>2. proc' = [proc EXCEPT ![p] = r] BY DEF Kill
<1> HIDE DEF r
<1>3. /\ proc' \in [Procs -> Call] /\ Others(p)
      /\ proc'[p].pc = "dead" /\ proc'[p].fd = None
  BY <1>0, <1>1, <1>2 DEF TypeOK, Others
<1>4. TypeOK'
  <2>1. \A q \in Procs : proc'[q].fd # None <=> proc'[q].pc = "write" BY <1>0, <1>3, FdOf
  <2>2. stats' \in [Procs -> [Counters -> Nat]] BY <1>0 DEF Kill, TypeOK, Zero
  <2> QED BY <1>0, <1>3, <2>1, <2>2 DEF TypeOK, Kill, disk
<1>5. Outcomes' BY <1>0, <1>3, OutcomesOf DEF Positive
<1>6. Calm
  <2>1. ~Stored(p)' BY <1>3 DEF Stored, At
  <2> QED BY <1>3, <1>4, <2>1, CalmOf DEF Kill, disk
<1> QED BY <1>4, <1>5, <1>6, CalmStep

LEMMA EvictInv == ASSUME IInv, NEW k \in Keys, Evict(k) PROVE IInv'
<1>0. TypeOK /\ Outcomes BY DEF IInv
<1>1. TypeOK' BY <1>0 DEF TypeOK, Evict, mine
<1>2. Outcomes' BY <1>0 DEF Outcomes, Evict, Fresh, KeyOf, At
<1>3. \A l \in Keys : keyO'[l] \in {keyO[l], None} BY <1>0 DEF TypeOK, Evict
<1>4. \A q \in Procs : Stored(q)' = Stored(q) /\ KeyOf(q)' = KeyOf(q)
  BY DEF Evict, Stored, At, KeyOf
<1>5. Calm BY <1>3, <1>4 DEF Calm, Evict, At
<1> QED BY <1>1, <1>2, <1>5, CalmStep

LEMMA ReapInv == ASSUME IInv, NEW o \in Objs, Reap(o) PROVE IInv'
<1>0. TypeOK /\ Outcomes BY DEF IInv
<1>1. TypeOK' BY <1>0 DEF TypeOK, Reap, mine
<1>2. Outcomes' BY <1>0 DEF Outcomes, Reap, Fresh, KeyOf, At
<1>3. \A b \in Objs : objects'[b] \in {objects[b], None} BY <1>0 DEF TypeOK, Reap
<1>4. \A q \in Procs : Stored(q)' = Stored(q) /\ KeyOf(q)' = KeyOf(q)
  BY DEF Reap, Stored, At, KeyOf
<1>5. Calm BY <1>3, <1>4 DEF Calm, Reap, At
<1> QED BY <1>1, <1>2, <1>5, CalmStep

\* The steps that create, cut, write and link files.
LEMMA CreateInv == ASSUME IInv, NEW p \in Procs, Create(p) PROVE IInv'
<1>0. TypeOK /\ Outcomes BY DEF IInv
<1>1. Fresh(p) \in Objs BY <1>0 DEF Create, Outcomes, Positive, At
<1>2. PICK i \in Free : /\ objects' = [objects EXCEPT ![Fresh(p)] = i]
                        /\ bytes' = [bytes EXCEPT ![i] = Fresh(p)]
  BY DEF Create
<1>3. /\ i \in Inodes /\ i # None
      /\ \A o \in Objs : objects[o] # i
      /\ \A k \in Keys : keyO[k] # i
      /\ \A q \in Procs : proc[q].fd # i
  BY <1>2, DistinctAssumption DEF Free, Named, Linked, Inodes
<1>4. Others(p) /\ proc'[p].pc = "join" /\ proc'[p].key = proc[p].key /\ proc'[p].fd = None
  BY <1>0, GoFields, FdFacts DEF Others, Create, At
<1>5. TypeOK'
  <2>1. \A q \in Procs : proc'[q].fd # None <=> proc'[q].pc = "write" BY <1>0, <1>4, FdOf
  <2>2. proc' \in [Procs -> Call] BY <1>0, PcsFacts, GoType DEF Go, Create
  <2> QED BY <1>0, <1>1, <1>2, <1>3, <2>1, <2>2 DEF TypeOK, Create, mine, Bytes
<1>6. \A q \in Procs : Fresh(q)' = Fresh(q) /\ KeyOf(q)' = KeyOf(q) BY <1>4 DEF Others, Fresh, KeyOf
<1>7. Outcomes' BY <1>0, <1>1, <1>4, OutcomesOf DEF Fresh, KeyOf
<1>8. /\ \A o \in Objs : objects'[o] = IF o = Fresh(p) THEN i ELSE objects[o]
      /\ \A j \in Inodes : bytes'[j] = IF j = i THEN Fresh(p) ELSE bytes[j]
  BY <1>0, <1>1, <1>2, <1>3 DEF TypeOK
<1>9. \A q \in Procs : At(q, "write")' => q # p /\ At(q, "write") /\ proc'[q].fd = proc[q].fd
  BY <1>4 DEF Others, At
<1>10. OneName' BY <1>3, <1>8 DEF IInv, OneName
<1>11. WriterNames' /\ SameWriters' BY <1>3, <1>6, <1>8, <1>9 DEF IInv, WriterNames, SameWriters
<1>12. Ready'
  <2> SUFFICES ASSUME NEW q \in Procs, At(q, "join")' \/ At(q, "write")',
                      objects'[Fresh(q)] # None
               PROVE  bytes'[objects'[Fresh(q)]] \in {Fresh(q), Empty}
    BY <1>6 DEF Ready
  <2>1. Fresh(q) \in Objs BY <1>6, <1>7 DEF Outcomes, Positive, At
  <2>2. CASE Fresh(q) = Fresh(p) BY <2>1, <2>2, <1>3, <1>8
  <2>3. CASE Fresh(q) # Fresh(p)
    <3>1. q # p /\ (At(q, "join") \/ At(q, "write")) BY <2>3, <1>4 DEF Others, At
    <3>2. objects'[Fresh(q)] = objects[Fresh(q)] /\ objects[Fresh(q)] \in Inodes
      BY <2>1, <2>3, <1>8, <1>0 DEF TypeOK
    <3> QED BY <2>1, <3>1, <3>2, <1>3, <1>8 DEF IInv, Ready
  <2> QED BY <2>2, <2>3
<1>13. keyO' = keyO BY DEF Create
<1>14. \A k \in Keys : keyO[k] # None => keyO[k] \in Inodes /\ bytes'[keyO[k]] = bytes[keyO[k]]
  BY <1>0, <1>3, <1>8 DEF TypeOK
<1>15. \A k \in Keys : keyO[k] # None /\ Held(k) => Held(k)'
  BY <1>3, <1>6, <1>8, <1>9, <1>13, <1>14 DEF Held
<1>16. Honest' BY <1>13, <1>14, <1>15 DEF IInv, Honest
<1>17. Kept'
  <2>1. \A q \in Procs : Stored(q)' => Stored(q) BY <1>4 DEF Others, Stored, At
  <2> QED BY <2>1, <1>0, <1>6, <1>13, <1>15, KeyFacts DEF IInv, Kept, Stored, Held
<1> QED BY <1>5, <1>7, <1>10, <1>11, <1>12, <1>16, <1>17 DEF IInv

LEMMA CutInv == ASSUME IInv, NEW p \in Procs, Cut(p) PROVE IInv'
<1>0. TypeOK /\ Outcomes BY DEF IInv
<1>1. Fresh(p) \in Objs BY <1>0 DEF Cut, Outcomes, Positive, At
<1>2. PICK i \in Inodes :
        /\ \/ i = objects[Fresh(p)]
           \/ /\ \A o \in Objs : objects[o] # i
              /\ \A k \in Keys : keyO[k] # i
              /\ \A q \in Procs : proc[q].fd # i
        /\ objects' = [objects EXCEPT ![Fresh(p)] = i]
        /\ bytes' = [bytes EXCEPT ![i] = Empty]
        /\ proc' = Moved(p, "write", proc[p].why, i)
  <2>1. CASE objects[Fresh(p)] # None
    <3>1. objects[Fresh(p)] \in Inodes BY <1>0, <1>1, <2>1 DEF TypeOK
    <3> QED BY <2>1, <3>1 DEF Cut
  <2>2. CASE objects[Fresh(p)] = None
    <3>1. PICK i \in Free : /\ objects' = [objects EXCEPT ![Fresh(p)] = i]
                            /\ bytes' = [bytes EXCEPT ![i] = Empty]
                            /\ proc' = Moved(p, "write", proc[p].why, i)
      BY <2>2 DEF Cut
    <3> QED BY <3>1 DEF Free, Named, Linked
  <2> QED BY <2>1, <2>2
<1>3. i # None BY DistinctAssumption DEF Inodes
<1>4. Others(p) /\ proc'[p].pc = "write" /\ proc'[p].key = proc[p].key /\ proc'[p].fd = i
  BY <1>0, <1>2, MovedFields DEF Others
<1>5. TypeOK'
  <2>1. \A q \in Procs : proc'[q].fd # None <=> proc'[q].pc = "write" BY <1>0, <1>3, <1>4, FdOf
  <2>2. proc[p].why \in {"put", "audit"} BY <1>0 DEF TypeOK, Call
  <2>3. proc' \in [Procs -> Call] BY <1>0, <1>2, <2>2, PcsFacts, MovedType
  <2> QED BY <1>0, <1>1, <1>2, <2>1, <2>3 DEF TypeOK, Cut, mine, Bytes
<1>6. \A q \in Procs : Fresh(q)' = Fresh(q) /\ KeyOf(q)' = KeyOf(q) BY <1>4 DEF Others, Fresh, KeyOf
<1>7. Outcomes' BY <1>0, <1>1, <1>4, OutcomesOf DEF Fresh, KeyOf
<1>8. /\ \A o \in Objs : objects'[o] = IF o = Fresh(p) THEN i ELSE objects[o]
      /\ \A j \in Inodes : bytes'[j] = IF j = i THEN Empty ELSE bytes[j]
  BY <1>0, <1>1, <1>2 DEF TypeOK
<1>9. \A q \in Procs : q # p /\ At(q, "write")' => At(q, "write") /\ proc'[q].fd = proc[q].fd
  BY <1>4 DEF Others, At
<1>10. OneName' BY <1>1, <1>2, <1>3, <1>8 DEF IInv, OneName
<1>11. \A o \in Objs : objects'[o] = i => o = Fresh(p) BY <1>1, <1>3, <1>8, <1>10 DEF OneName
<1>12. \A q \in Procs : q # p /\ At(q, "write")' /\ proc'[q].fd = i => Fresh(q) = Fresh(p)
  BY <1>1, <1>2, <1>9 DEF IInv, WriterNames
<1>13. WriterNames'
  <2> SUFFICES ASSUME NEW q \in Procs, NEW o \in Objs, At(q, "write")', objects'[o] = proc'[q].fd
               PROVE  o = Fresh(q)
    BY <1>6 DEF WriterNames
  <2>1. CASE proc'[q].fd = i BY <2>1, <1>11, <1>12
  <2>2. CASE proc'[q].fd # i
    <3>1. q # p /\ At(q, "write") /\ proc[q].fd = objects[o] BY <2>2, <1>4, <1>8, <1>9
    <3> QED BY <3>1 DEF IInv, WriterNames
  <2> QED BY <2>1, <2>2
<1>14. SameWriters' BY <1>4, <1>6, <1>9, <1>12 DEF IInv, SameWriters
<1>15. Ready'
  <2> SUFFICES ASSUME NEW q \in Procs, At(q, "join")' \/ At(q, "write")',
                      objects'[Fresh(q)] # None
               PROVE  bytes'[objects'[Fresh(q)]] \in {Fresh(q), Empty}
    BY <1>6 DEF Ready
  <2>1. Fresh(q) \in Objs BY <1>6, <1>7 DEF Outcomes, Positive, At
  <2>2. CASE Fresh(q) = Fresh(p) BY <2>1, <2>2, <1>8
  <2>3. CASE Fresh(q) # Fresh(p)
    <3>1. q # p /\ (At(q, "join") \/ At(q, "write")) BY <2>3, <1>4 DEF Others, At
    <3>2. objects'[Fresh(q)] = objects[Fresh(q)] /\ objects[Fresh(q)] \in Inodes
      BY <2>1, <2>3, <1>8, <1>0 DEF TypeOK
    <3> QED BY <2>1, <3>1, <3>2, <1>8 DEF IInv, Ready
  <2> QED BY <2>2, <2>3
<1>16. keyO' = keyO BY DEF Cut
<1>17. \A k \in Keys : keyO[k] # None /\ Held(k) => Held(k)'
  <2> SUFFICES ASSUME NEW k \in Keys, keyO[k] # None, Held(k) PROVE Held(k)' OBVIOUS
  <2>1. bytes'[keyO[k]] \in {Truth[k], Empty} BY <1>0, <1>8 DEF Held, TypeOK
  <2>2. keyO[k] = i => Fresh(p) = Truth[k] BY <1>1, <1>2 DEF Held
  <2>3. \A o \in Objs : objects'[o] = keyO[k] => o = Truth[k] BY <1>8, <2>2 DEF Held
  <2>4. \A q \in Procs : At(q, "write")' /\ proc'[q].fd = keyO[k] => Fresh(q) = Truth[k]
    BY <1>4, <1>9, <2>2 DEF Held
  <2> QED BY <1>6, <1>16, <2>1, <2>3, <2>4 DEF Held
<1>18. Honest'
  <2> SUFFICES ASSUME NEW k \in Keys, keyO[k] # None, bytes'[keyO[k]] = Truth[k] PROVE Held(k)'
    BY <1>16 DEF Honest
  <2>1. keyO[k] # i
    <3>1. Truth[k] # Empty BY TruthAssumption, DistinctAssumption DEF Bytes
    <3> QED BY <3>1, <1>8
  <2>2. bytes[keyO[k]] = Truth[k] BY <2>1, <1>0, <1>8 DEF TypeOK
  <2> QED BY <2>2, <1>17 DEF IInv, Honest
<1>19. Kept'
  <2>1. \A q \in Procs : Stored(q)' => Stored(q) BY <1>4 DEF Others, Stored, At
  <2> QED BY <2>1, <1>0, <1>6, <1>16, <1>17, KeyFacts DEF IInv, Kept, Stored, Held
<1> QED BY <1>5, <1>7, <1>10, <1>13, <1>14, <1>15, <1>18, <1>19 DEF IInv

LEMMA WriteInv == ASSUME IInv, NEW p \in Procs, Write(p) PROVE IInv'
<1>0. TypeOK /\ Outcomes /\ At(p, "write") BY DEF IInv, Write
<1> DEFINE i == proc[p].fd
<1>1. Fresh(p) \in Objs BY <1>0 DEF Outcomes, Positive, At
<1>2. i \in Inodes /\ i # None BY <1>0 DEF TypeOK, Call, At
<1>3. /\ UNCHANGED <<objects, keyO, fails, log, mine>>
      /\ bytes' = [bytes EXCEPT ![i] = Fresh(p)]
      /\ proc' = Moved(p, "join", proc[p].why, None)
  BY DEF Write
<1>4. Others(p) /\ proc'[p].pc = "join" /\ proc'[p].key = proc[p].key /\ proc'[p].fd = None
  BY <1>0, <1>3, MovedFields DEF Others
<1>5. TypeOK'
  <2>1. \A q \in Procs : proc'[q].fd # None <=> proc'[q].pc = "write" BY <1>0, <1>4, FdOf
  <2>2. proc[p].why \in {"put", "audit"} BY <1>0 DEF TypeOK, Call
  <2>3. proc' \in [Procs -> Call] BY <1>0, <1>3, <2>2, PcsFacts, MovedType
  <2> QED BY <1>0, <1>1, <1>2, <1>3, <2>1, <2>3 DEF TypeOK, mine, Bytes
<1>6. \A q \in Procs : Fresh(q)' = Fresh(q) /\ KeyOf(q)' = KeyOf(q) BY <1>4 DEF Others, Fresh, KeyOf
<1>7. Outcomes' BY <1>0, <1>1, <1>4, OutcomesOf DEF Fresh, KeyOf
<1>8. \A j \in Inodes : bytes'[j] = IF j = i THEN Fresh(p) ELSE bytes[j]
  BY <1>0, <1>2, <1>3 DEF TypeOK
<1>9. \A q \in Procs : At(q, "write")' => q # p /\ At(q, "write") /\ proc'[q].fd = proc[q].fd
  BY <1>4 DEF Others, At
<1>10. \A o \in Objs : objects[o] = i => o = Fresh(p) BY <1>0 DEF IInv, WriterNames
<1>11. \A q \in Procs : At(q, "write") /\ proc[q].fd = i => Fresh(q) = Fresh(p)
  BY <1>0 DEF IInv, SameWriters
<1>12. OneName' /\ WriterNames' /\ SameWriters'
  BY <1>3, <1>6, <1>9 DEF IInv, OneName, WriterNames, SameWriters
<1>13. Ready'
  <2> SUFFICES ASSUME NEW q \in Procs, At(q, "join")' \/ At(q, "write")',
                      objects[Fresh(q)] # None
               PROVE  bytes'[objects[Fresh(q)]] \in {Fresh(q), Empty}
    BY <1>3, <1>6 DEF Ready
  <2>1. Fresh(q) \in Objs BY <1>6, <1>7 DEF Outcomes, Positive, At
  <2>2. objects[Fresh(q)] \in Inodes BY <1>0, <2>1 DEF TypeOK
  <2>3. At(q, "join") \/ At(q, "write") BY <1>0, <1>4 DEF Others, At
  <2>4. bytes[objects[Fresh(q)]] \in {Fresh(q), Empty} BY <2>3 DEF IInv, Ready
  <2> QED BY <2>1, <2>2, <2>4, <1>8, <1>10
<1>14. \A k \in Keys : keyO[k] # None => keyO[k] \in Inodes BY <1>0 DEF TypeOK
<1>15. \A k \in Keys : keyO[k] # None /\ Held(k) => Held(k)'
  <2> SUFFICES ASSUME NEW k \in Keys, keyO[k] # None, Held(k) PROVE Held(k)' OBVIOUS
  <2>1. bytes'[keyO[k]] \in {Truth[k], Empty} BY <1>0, <1>8, <1>14 DEF Held
  <2>2. \A q \in Procs : At(q, "write")' /\ proc'[q].fd = keyO[k] => Fresh(q) = Truth[k]
    BY <1>9 DEF Held
  <2> QED BY <1>3, <1>6, <2>1, <2>2 DEF Held
<1>16. Honest'
  <2> SUFFICES ASSUME NEW k \in Keys, keyO[k] # None, bytes'[keyO[k]] = Truth[k] PROVE Held(k)'
    BY <1>3 DEF Honest
  <2>1. CASE keyO[k] # i BY <2>1, <1>8, <1>14, <1>15 DEF IInv, Honest
  <2>2. CASE keyO[k] = i
    <3>1. Fresh(p) = Truth[k] BY <2>2, <1>2, <1>8
    <3> QED BY <2>2, <3>1, <1>3, <1>6, <1>9, <1>10, <1>11 DEF Held
  <2> QED BY <2>1, <2>2
<1>17. Kept'
  <2>1. \A q \in Procs : Stored(q)' => Stored(q) BY <1>4 DEF Others, Stored, At
  <2> QED BY <2>1, <1>0, <1>3, <1>6, <1>15, KeyFacts DEF IInv, Kept, Stored, Held
<1> QED BY <1>5, <1>7, <1>12, <1>13, <1>16, <1>17 DEF IInv

\* What a call links its key to is held for that key.
LEMMA JoinHolds ==
  ASSUME IInv, NEW p \in Procs, Join(p)
  PROVE  /\ Fresh(p) \in Objs /\ KeyOf(p) \in Keys /\ objects[Fresh(p)] \in Inodes
         /\ keyO' = [keyO EXCEPT ![KeyOf(p)] = objects[Fresh(p)]]
         /\ keyO'[KeyOf(p)] = objects[Fresh(p)]
         /\ bytes[objects[Fresh(p)]] \in {Fresh(p), Empty}
         /\ Truth[KeyOf(p)] = Fresh(p)
<1>0. TypeOK /\ Outcomes /\ At(p, "join") /\ objects[Fresh(p)] # None BY DEF IInv, Join
<1>1. Fresh(p) \in Objs BY <1>0 DEF Outcomes, Positive, At
<1>2. KeyOf(p) \in Keys BY <1>0, KeyFacts
<1>3. objects[Fresh(p)] \in Inodes BY <1>0, <1>1 DEF TypeOK
<1>4. bytes[objects[Fresh(p)]] \in {Fresh(p), Empty} BY <1>0 DEF IInv, Ready
<1> QED BY <1>0, <1>1, <1>2, <1>3, <1>4 DEF Join, TypeOK, Fresh

LEMMA JoinInv == ASSUME IInv, NEW p \in Procs, Join(p) PROVE IInv'
<1>0. TypeOK /\ Outcomes /\ At(p, "join") BY DEF IInv, Join
<1> DEFINE i == objects[Fresh(p)]
           k == KeyOf(p)
<1>1. /\ Fresh(p) \in Objs /\ k \in Keys /\ i \in Inodes
      /\ keyO' = [keyO EXCEPT ![k] = i]
      /\ bytes[i] \in {Fresh(p), Empty} /\ Truth[k] = Fresh(p)
  BY JoinHolds
<1>2. i # None BY <1>1, DistinctAssumption DEF Inodes
<1>3. /\ Others(p) /\ proc'[p].key = proc[p].key /\ proc'[p].fd = None
      /\ proc'[p].pc = "return" \/ (proc'[p].pc = "idle" /\ proc'[p].answer = "stored")
  BY <1>0, GoFields, RepliedFields, FdFacts DEF Others, Join, At
<1>4. TypeOK'
  <2>1. \A q \in Procs : proc'[q].fd # None <=> proc'[q].pc = "write" BY <1>0, <1>3, FdOf
  <2>2. proc' \in [Procs -> Call]
    <3>1. CASE Go(p, "return") BY <1>0, <3>1, PcsFacts, GoType DEF Go
    <3>2. CASE Reply(p, "stored") BY <1>0, <3>2, PcsFacts, RepliedType DEF Reply
    <3> QED BY <3>1, <3>2 DEF Join
  <2> QED BY <1>0, <1>1, <2>1, <2>2 DEF TypeOK, Join, mine
<1>5. \A q \in Procs : Fresh(q)' = Fresh(q) /\ KeyOf(q)' = KeyOf(q) BY <1>3 DEF Others, Fresh, KeyOf
<1>6. Outcomes' BY <1>0, <1>1, <1>3, OutcomesOf DEF Fresh, KeyOf
<1>7. UNCHANGED <<objects, bytes>> BY DEF Join
<1>8. \A q \in Procs : At(q, "write")' => q # p /\ At(q, "write") /\ proc'[q].fd = proc[q].fd
  BY <1>3 DEF Others, At
<1>9. OneName' /\ WriterNames' /\ SameWriters'
  BY <1>5, <1>7, <1>8 DEF IInv, OneName, WriterNames, SameWriters
<1>10. Ready'
  <2>1. \A q \in Procs : At(q, "join")' \/ At(q, "write")' => At(q, "join") \/ At(q, "write")
    BY <1>3 DEF Others, At
  <2> QED BY <2>1, <1>5, <1>7 DEF IInv, Ready
<1>11. keyO'[k] = i /\ \A l \in Keys : l # k => keyO'[l] = keyO[l] BY <1>0, <1>1 DEF TypeOK
<1>12. Held(k)'
  <2>1. \A o \in Objs : objects[o] = i => o = Fresh(p) BY <1>1, <1>2 DEF IInv, OneName
  <2>2. \A q \in Procs : At(q, "write")' /\ proc'[q].fd = i => Fresh(q)' = Fresh(p)
    BY <1>1, <1>5, <1>8 DEF IInv, WriterNames
  <2>3. bytes'[i] \in {Truth[k], Empty} BY <1>1, <1>7
  <2>4. KeyOf(p)' = k BY <1>5
  <2> QED BY <2>1, <2>2, <2>3, <2>4, <1>1, <1>7, <1>11 DEF Held
<1>13. \A l \in Keys : l # k /\ keyO[l] # None /\ Held(l) => Held(l)'
  BY <1>5, <1>7, <1>8, <1>11 DEF Held
<1>14. Honest' BY <1>7, <1>11, <1>12, <1>13, <1>5 DEF IInv, Honest, Held
<1>15. Kept'
  <2> SUFFICES ASSUME NEW q \in Procs, Stored(q)', keyO'[KeyOf(q)] # None PROVE Held(KeyOf(q))'
    BY <1>5 DEF Kept, Stored
  <2>0. KeyOf(q) \in Keys BY <1>0, KeyFacts
  <2>1. CASE KeyOf(q) = k BY <2>1, <1>12, <1>5 DEF Held
  <2>2. CASE KeyOf(q) # k
    <3>1. q # p BY <2>2
    <3>2. Stored(q) BY <3>1, <1>3 DEF Others, Stored, At
    <3>3. keyO[KeyOf(q)] # None BY <2>0, <2>2, <1>11
    <3>4. Held(KeyOf(q)) BY <3>2, <3>3 DEF IInv, Kept, Stored
    <3> QED BY <2>0, <2>2, <3>3, <3>4, <1>5, <1>13 DEF Held
  <2> QED BY <2>1, <2>2
<1> QED BY <1>4, <1>6, <1>9, <1>10, <1>14, <1>15 DEF IInv

-----------------------------------------------------------------------------
(* The theorems.                                                           *)

LEMMA InitInv == ASSUME Init PROVE IInv
<1>1. PICK s \in Stores : /\ objects = s.objects /\ bytes = s.bytes
                          /\ keyO = s.keyO /\ fails = s.fails
  BY DEF Init
<1>2. /\ s \in Store
      /\ \A a, b \in Objs : s.objects[a] = s.objects[b] /\ s.objects[a] # None => a = b
      /\ \A k \in Keys, o \in Objs :
           s.keyO[k] # None /\ s.keyO[k] = s.objects[o] /\ s.bytes[s.keyO[k]] = Truth[k]
             => o = Truth[k]
  BY StoresAssumption
<1>3. \A p \in Procs : proc[p] = Starting BY DEF Init
<1>4. Starting.pc = "idle" /\ Starting.fd = None /\ Starting.answer = "none" BY DEF Starting
<1>5. TypeOK
  <2>1. proc \in [Procs -> Call] BY StartingType DEF Init
  <2>2. stats \in [Procs -> [Counters -> Nat]] BY DEF Init, Zero
  <2>3. \A p \in Procs : proc[p].fd # None <=> proc[p].pc = "write" BY <1>3, <1>4
  <2> QED BY <1>1, <1>2, <2>1, <2>2, <2>3 DEF TypeOK, Init, Store
<1>6. Outcomes /\ WriterNames /\ SameWriters /\ Ready /\ Kept
  BY <1>3, <1>4 DEF Outcomes, Positive, WriterNames, SameWriters, Ready, Kept, At
<1>7. OneName BY <1>1, <1>2 DEF OneName
<1>8. Honest BY <1>1, <1>2, <1>3, <1>4 DEF Honest, Held, At
<1> QED BY <1>5, <1>6, <1>7, <1>8 DEF IInv

LEMMA StepInv == ASSUME IInv, NEW p \in Procs, Step(p) PROVE IInv'
BY BypassInv, MissInv, WithholdInv, ServeInv, AuditStaleInv, AuditAgreesInv, AuditDiffersInv,
   TransientInv, UnfailInv, LinkReadInv, CreateInv, CutInv, WriteInv, JoinInv, ReturnInv,
   UnobjInv, WriteFailInv, StoreFailsInv, DiscardInv
   DEF Step

LEMMA StutterInv == ASSUME IInv, UNCHANGED vars PROVE IInv'
<1> USE DEF vars, disk, mine
<1>1. TypeOK' BY DEF IInv, TypeOK
<1>2. Outcomes' BY DEF IInv, Outcomes, Fresh, KeyOf, At
<1>3. Calm BY DEF Calm, At, Stored, KeyOf
<1> QED BY <1>1, <1>2, <1>3, CalmStep

\* The strengthened invariant is inductive: files, entries and the calls in
\* flight agree in every reachable state.
THEOREM Invariance == Spec => []IInv
<1>1. Init => IInv BY InitInv
<1>2. IInv /\ [Next]_vars => IInv'
  BY StepInv, KillInv, EvictInv, ReapInv, StutterInv DEF Next, Prune
<1> QED BY <1>1, <1>2, PTL DEF Spec

\* Every variable keeps its type, and a file is held open only by its writer.
THEOREM TypeCorrect == Spec => []TypeOK
<1>1. IInv => TypeOK BY DEF IInv
<1> QED BY <1>1, Invariance, PTL

\* A path put handed out holds the fresh bytes, is gone, or is being repaired.
THEOREM PutIsTrue == Spec => []StoredIsTruth
<1>1. IInv => StoredIsTruth BY DEF IInv, Kept, Held, StoredIsTruth, Fresh
<1> QED BY <1>1, Invariance, PTL

\* Wrong bytes never spread to another key, whatever the store held at first.
THEOREM Contained == Spec => NeverSpreads
<1> DEFINE Installs ==
      /\ \A k \in Keys : keyO'[k] \notin {keyO[k], None} => bytes'[keyO'[k]] \in {Truth[k], Empty}
      /\ \A k \in fails' \ fails : Truth[k] = Rej
<1>1. IInv /\ [Next]_vars => Installs
  <2> SUFFICES ASSUME IInv, [Next]_vars PROVE Installs OBVIOUS
  <2>1. ASSUME NEW p \in Procs, Join(p) PROVE Installs
    <3>1. keyO \in [Keys -> Inodes \cup {None}] BY DEF IInv, TypeOK
    <3>2. UNCHANGED <<bytes, fails>> BY <2>1 DEF Join
    <3>3. \A k \in Keys : k # KeyOf(p) => keyO'[k] = keyO[k] BY <2>1, <3>1, JoinHolds
    <3> QED BY <2>1, <3>2, <3>3, JoinHolds
  <2>2. ASSUME NEW p \in Procs, WriteFail(p) PROVE Installs
    BY <2>2 DEF WriteFail, FailsNow, IInv, Outcomes, At, Fresh
  <2>3. ASSUME NEW p \in Procs, Discard(p) PROVE Installs
    <3>1. PICK object, rejection \in BOOLEAN :
            /\ keyO' = IF object THEN [keyO EXCEPT ![KeyOf(p)] = None] ELSE keyO
            /\ fails' = IF rejection THEN fails \ {KeyOf(p)} ELSE fails
      BY <2>3, ModesAssumption, Zenon DEF Discard
    <3>2. keyO' = keyO \/ keyO' = [keyO EXCEPT ![KeyOf(p)] = None] BY <3>1, Zenon
    <3>3. fails' \subseteq fails BY <3>1
    <3> QED BY <3>2, <3>3 DEF IInv, TypeOK
  <2>4. ASSUME NEW p \in Procs, Unobj(p) PROVE Installs
    BY <2>4 DEF Unobj, IInv, TypeOK
  <2>5. ASSUME NEW p \in Procs, Unfail(p) PROVE Installs
    BY <2>5 DEF Unfail
  <2>6. ASSUME NEW k \in Keys, Evict(k) PROVE Installs
    BY <2>6 DEF Evict, IInv, TypeOK
  <2>7. CASE UNCHANGED <<keyO, fails>> BY <2>7
  <2> QED
    BY <2>1, <2>2, <2>3, <2>4, <2>5, <2>6, <2>7
    DEF Next, Prune, Step, Kill, Reap, Bypass, Miss, Withhold, Serve, Asked, AuditStale,
        AuditAgrees, AuditDiffers, Compares, Transient, LinkRead, Create, Cut, Write, Return,
        StoreFails, disk, vars
<1>2. Installs => [Installs]_vars OBVIOUS
<1> QED BY <1>1, Invariance, PTL DEF Spec, NeverSpreads

-----------------------------------------------------------------------------
(***************************************************************************)
(* The arithmetic of the sampled audits.  A process withholds a key only   *)
(* while it compiles it, and every key it withheld is either being         *)
(* compared or was counted by exactly one of the counters an audit ends    *)
(* in; so the [candcache] line reconciles, and a key of the sample costs   *)
(* one compile.                                                            *)
(***************************************************************************)

\* The counters an audit ends in, and how many audits p has ended.
Ending == {"verified", "verifiedFail", "mismatch", "sampledStale", "sampledAbandoned"}
Ended(p) == stats[p]["verified"] + stats[p]["verifiedFail"] + stats[p]["mismatch"]
              + stats[p]["sampledStale"] + stats[p]["sampledAbandoned"]

\* p withholds at most the key it compiles, and only keys of its sample, each once.
WithholdsOK(p) ==
  /\ auditing[p] \subseteq {KeyOf(p)}
  /\ auditing[p] # {} => At(p, "compile")
  /\ auditing[p] \cap audited[p] = {}
  /\ auditing[p] \subseteq sample[p] /\ audited[p] \subseteq sample[p]

\* Every key it withheld is being compared, or was counted by one ending.
CountsOK(p) ==
  /\ IsFiniteSet(audited[p])
  /\ Ended(p) = Cardinality(audited[p])
  /\ stats[p]["sampled"] = Ended(p) + Cardinality(auditing[p])

AuditOK(p) == IF p \in Verifiers THEN stats[p]["sampled"] = 0 ELSE WithholdsOK(p) /\ CountsOK(p)

AInv == IInv /\ \A p \in Procs : AuditOK(p)

-----------------------------------------------------------------------------
(* Facts about counters and sets of one key.                               *)

LEMMA EndedType ==
  ASSUME TypeOK, NEW p \in Procs
  PROVE  Ended(p) \in Nat /\ \A c \in Counters : stats[p][c] \in Nat
<1>1. \A c \in Counters : stats[p][c] \in Nat
  BY DEF TypeOK
<1> QED
  BY <1>1 DEF Ended, Counters

\* Bumping a counter is one more of it, and of the endings if it is one.
LEMMA BumpFacts ==
  ASSUME TypeOK, NEW p \in Procs, NEW c \in Counters, Bump(p, c)
  PROVE  /\ c \in Ending => Ended(p)' = Ended(p) + 1
         /\ c \notin Ending => Ended(p)' = Ended(p)
         /\ stats'[p]["sampled"] = stats[p]["sampled"] + (IF c = "sampled" THEN 1 ELSE 0)
         /\ \A q \in Procs : q # p => stats'[q] = stats[q]
<1>1. stats \in [Procs -> [Counters -> Nat]] /\ stats' = [stats EXCEPT ![p][c] = @ + 1]
  BY DEF TypeOK, Bump
<1>2. \A d \in Counters : stats'[p][d] = IF d = c THEN stats[p][d] + 1 ELSE stats[p][d]
  BY <1>1
<1>3. \A d \in Counters : stats[p][d] \in Nat
  BY <1>1
<1>4. \A q \in Procs : q # p => stats'[q] = stats[q]
  BY <1>1
<1> QED
  BY <1>2, <1>3, <1>4 DEF Ended, Ending, Counters

LEMMA OneKey ==
  ASSUME NEW k, NEW S \in SUBSET {k}
  PROVE  /\ IsFiniteSet(S)
         /\ S = {} => Cardinality(S) = 0
         /\ S # {} => S = {k} /\ Cardinality(S) = 1
<1>1. S = {} \/ S = {k}
  OBVIOUS
<1> QED
  BY SMTT(30), <1>1, FS_EmptySet, FS_Singleton

-----------------------------------------------------------------------------
(* What steps do to the audits.                                            *)

\* One process moves on; the others' audits are as they were.
LEMMA OneMoves ==
  ASSUME AInv, IInv', NEW p \in Procs, AuditOK(p)',
         \A q \in Procs : q # p =>
           /\ proc'[q] = proc[q] /\ stats'[q] = stats[q] /\ sample'[q] = sample[q]
           /\ auditing'[q] = auditing[q] /\ audited'[q] = audited[q]
  PROVE  AInv'
<1>1. ASSUME NEW q \in Procs, q # p PROVE AuditOK(q)'
  BY <1>1 DEF AInv, AuditOK, WithholdsOK, CountsOK, Ended, At, KeyOf
<1> QED
  BY <1>1 DEF AInv

\* A step of a process that withholds nothing, and neither samples nor ends an audit.
LEMMA Unaudited ==
  ASSUME AInv, IInv', NEW p \in Procs, UNCHANGED <<sample, auditing, audited>>,
         p \notin Verifiers => auditing[p] = {},
         stats' = stats \/ Bump(p, "objectCorrupt"),
         \A q \in Procs : q # p => proc'[q] = proc[q]
  PROVE  AInv'
<1>1. /\ Ended(p)' = Ended(p) /\ stats'[p]["sampled"] = stats[p]["sampled"]
      /\ \A q \in Procs : q # p => stats'[q] = stats[q]
  <2>1. CASE stats' = stats
    BY <2>1 DEF Ended
  <2>2. CASE Bump(p, "objectCorrupt")
    <3>1. stats[p]["sampled"] \in Nat /\ "objectCorrupt" \in Counters /\ "objectCorrupt" \notin Ending
      BY EndedType DEF AInv, IInv, Counters, Ending
    <3>2. Ended(p)' = Ended(p) /\ stats'[p]["sampled"] = stats[p]["sampled"] + 0
      BY <2>2, <3>1, BumpFacts DEF AInv, IInv
    <3>3. \A q \in Procs : q # p => stats'[q] = stats[q]
      BY <2>2, <3>1, BumpFacts DEF AInv, IInv
    <3> QED
      BY <3>1, <3>2, <3>3
  <2> QED
    BY <2>1, <2>2
<1>2. AuditOK(p)'
  BY <1>1 DEF AInv, AuditOK, WithholdsOK, CountsOK
<1> QED
  BY <1>1, <1>2, OneMoves

\* An audit ends: its key is never withheld again, and one counter says how it ended.
LEMMA Ends ==
  ASSUME AInv, IInv', NEW p \in Procs, At(p, "compile"), Claim(p),
         \/ p \in Verifiers /\ (stats' = stats \/ \E c \in Ending : Bump(p, c))
         \/ KeyOf(p) \in auditing[p] /\ \E c \in Ending : Bump(p, c)
         \/ KeyOf(p) \notin auditing[p] /\ stats' = stats,
         \A q \in Procs : q # p => proc'[q] = proc[q]
  PROVE  AInv'
<1>1. TypeOK /\ Ending \subseteq Counters /\ "sampled" \notin Ending
  BY DEF AInv, IInv, Ending, Counters
<1>2. /\ sample' = sample
      /\ auditing'[p] = auditing[p] \ {KeyOf(p)}
      /\ audited'[p] = audited[p] \cup (auditing[p] \cap {KeyOf(p)})
      /\ \A q \in Procs : q # p => auditing'[q] = auditing[q] /\ audited'[q] = audited[q]
  BY <1>1 DEF Claim, TypeOK
<1>3. \A q \in Procs : q # p => stats'[q] = stats[q]
  BY <1>1, BumpFacts
<1>4. stats[p]["sampled"] \in Nat /\ Ended(p) \in Nat
  BY <1>1, EndedType DEF Counters
<1>5. CASE p \in Verifiers
  <2>1. stats'[p]["sampled"] = stats[p]["sampled"]
    <3>1. ASSUME NEW c \in Ending, Bump(p, c) PROVE stats'[p]["sampled"] = stats[p]["sampled"] + 0
      BY <3>1, <1>1, BumpFacts
    <3>2. stats' = stats \/ \E c \in Ending : Bump(p, c)
      OBVIOUS
    <3> QED
      BY <3>1, <3>2, <1>4
  <2>2. AuditOK(p)'
    BY <1>5, <2>1 DEF AInv, AuditOK
  <2> QED
    BY <1>2, <1>3, <2>2, OneMoves
<1>6. CASE p \notin Verifiers
  <2> DEFINE k == KeyOf(p)
  <2>1. WithholdsOK(p) /\ CountsOK(p)
    BY <1>6 DEF AInv, AuditOK
  <2>2. auditing'[p] = {} /\ Cardinality(auditing'[p]) = 0
    BY <1>2, <2>1, FS_EmptySet DEF WithholdsOK
  <2>3. CASE k \in auditing[p]
    <3>9. auditing[p] \in SUBSET {k}
      BY <2>1 DEF WithholdsOK
    <3>a. auditing[p] = {k}
      BY <3>9, <2>3
    <3>b. Cardinality(auditing[p]) = 1
      BY <3>a, FS_Singleton
    <3>c. k \notin audited[p]
      BY <2>1, <2>3 DEF WithholdsOK
    <3>d. audited'[p] = audited[p] \cup {k}
      BY <1>2, <3>a
    <3>1. /\ auditing[p] = {k} /\ Cardinality(auditing[p]) = 1 /\ k \notin audited[p]
          /\ audited'[p] = audited[p] \cup {k}
      BY <3>a, <3>b, <3>c, <3>d
    <3>e. IsFiniteSet(audited[p])
      BY <2>1 DEF CountsOK
    <3>2. IsFiniteSet(audited'[p]) /\ Cardinality(audited'[p]) = Cardinality(audited[p]) + 1
      <4> HIDE DEF k
      <4> QED
        BY SMTT(30), <3>c, <3>d, <3>e, FS_AddElement
    <3>3. PICK c \in Ending : Bump(p, c)
      BY <1>6, <2>3
    <3>4. Ended(p)' = Ended(p) + 1 /\ stats'[p]["sampled"] = stats[p]["sampled"] + 0
      BY <3>3, <1>1, BumpFacts
    <3>5. WithholdsOK(p)'
      BY <2>1, <2>2, <3>1, <1>2 DEF WithholdsOK
    <3>6. CountsOK(p)'
      BY <2>1, <2>2, <3>1, <3>2, <3>4, <1>4 DEF CountsOK
    <3> QED
      BY <1>2, <1>3, <1>6, <3>5, <3>6, OneMoves DEF AuditOK
  <2>4. CASE k \notin auditing[p]
    <3>1. auditing[p] = {} /\ audited'[p] = audited[p] /\ stats' = stats
      BY <1>2, <1>6, <2>1, <2>4 DEF WithholdsOK
    <3>2. Ended(p)' = Ended(p)
      BY <3>1 DEF Ended
    <3>3. WithholdsOK(p)' /\ CountsOK(p)'
      BY <2>1, <2>2, <3>1, <3>2, <1>2 DEF WithholdsOK, CountsOK
    <3> QED
      BY <1>2, <1>3, <1>6, <3>3, OneMoves DEF AuditOK
  <2> QED
    BY <2>3, <2>4
<1> QED
  BY <1>5, <1>6

-----------------------------------------------------------------------------
(* The steps.                                                              *)

\* A step moves one process.
LEMMA MovesOne ==
  ASSUME TypeOK, NEW p \in Procs, Step(p), NEW q \in Procs, q # p
  PROVE  proc'[q] = proc[q]
<1>1. proc \in [Procs -> Call]
  BY DEF TypeOK
<1>2. ASSUME NEW pc, Go(p, pc) PROVE proc'[q] = proc[q]
  BY <1>1, <1>2 DEF Go
<1>3. ASSUME NEW a, Reply(p, a) PROVE proc'[q] = proc[q]
  BY <1>1, <1>3 DEF Reply, Replied
<1>4. ASSUME NEW a, NEW b, NEW c, proc' = Moved(p, a, b, c) PROVE proc'[q] = proc[q]
  BY <1>1, <1>4 DEF Moved
<1>5. ASSUME NEW a, AuditOver(p, a) PROVE proc'[q] = proc[q]
  BY <1>1, <1>5 DEF AuditOver, Moved, Replied
<1>6. ASSUME NEW k, NEW a, NEW b, Asked(p, k, a, b) PROVE proc'[q] = proc[q]
  BY <1>1, <1>6 DEF Asked
<1>7. CASE \E k \in Keys : Bypass(p, k) \/ Miss(p, k) \/ Withhold(p, k) \/ Serve(p, k)
  BY <1>6, <1>7 DEF Bypass, Miss, Withhold, Serve
<1>8. CASE AuditStale(p) \/ AuditAgrees(p) \/ AuditDiffers(p) \/ Transient(p)
  BY <1>2, <1>3, <1>4, <1>5, <1>8 DEF AuditStale, AuditAgrees, AuditDiffers, Transient
<1>9. CASE Unfail(p) \/ LinkRead(p) \/ Create(p)
  BY <1>2, <1>9 DEF Unfail, LinkRead, Create
<1>10. CASE Cut(p) \/ Write(p) \/ Join(p)
  BY <1>2, <1>3, <1>4, <1>10 DEF Cut, Write, Join
<1>11. CASE Return(p) \/ Unobj(p) \/ WriteFail(p)
  BY <1>2, <1>3, <1>5, <1>11 DEF Return, Unobj, WriteFail
<1>12. CASE StoreFails(p) \/ Discard(p)
  BY <1>3, <1>4, <1>5, <1>12 DEF StoreFails, Discard
<1> QED
  BY <1>7, <1>8, <1>9, <1>10, <1>11, <1>12 DEF Step

\* Away from a compile nothing is withheld.
LEMMA NothingWithheld ==
  ASSUME AInv, NEW p \in Procs \ Verifiers, ~At(p, "compile") \/ ~Audits(p)
  PROVE  auditing[p] = {}
BY DEF AInv, AuditOK, WithholdsOK, Audits

\* Every counter a process bumps when an audit ends is one of the endings.
LEMMA AuditEnds ==
  ASSUME AInv, NEW p \in Procs,
         AuditStale(p) \/ AuditAgrees(p) \/ AuditDiffers(p) \/ Transient(p)
  PROVE  AInv'
<1>1. Step(p) /\ TypeOK
  BY DEF Step, AInv, IInv
<1>2. IInv'
  BY <1>1, StepInv DEF AInv
<1>3. At(p, "compile") /\ Claim(p)
  BY DEF AuditStale, AuditAgrees, AuditDiffers, Compares, Transient
<1>4. \/ p \in Verifiers /\ (stats' = stats \/ \E c \in Ending : Bump(p, c))
      \/ KeyOf(p) \in auditing[p] /\ \E c \in Ending : Bump(p, c)
      \/ KeyOf(p) \notin auditing[p] /\ stats' = stats
  BY DEF AuditStale, AuditAgrees, AuditDiffers, Compares, Audits, Transient, Ending
<1> QED
  BY <1>1, <1>2, <1>3, <1>4, MovesOne, Ends DEF AInv

\* The key of the sample is taken out of use for one compile.
LEMMA Withholds ==
  ASSUME AInv, NEW p \in Procs, NEW k \in Keys, Withhold(p, k)
  PROVE  AInv'
<1>1. Step(p) /\ TypeOK /\ "sampled" \in Counters /\ "sampled" \notin Ending
  BY DEF Step, AInv, IInv, Counters, Ending
<1>2. IInv'
  BY <1>1, StepInv DEF AInv
<1>3. /\ p \notin Verifiers /\ At(p, "idle") /\ Bump(p, "sampled")
      /\ k \in sample[p] /\ k \notin audited[p]
      /\ auditing' = [auditing EXCEPT ![p] = @ \cup {k}]
      /\ UNCHANGED <<sample, audited>>
      /\ proc' = [proc EXCEPT ![p] = Began(p, k, "compile", "none")]
  BY DEF Withhold, Sampled, Asked
<1>4. WithholdsOK(p) /\ CountsOK(p) /\ auditing[p] = {}
  BY <1>3 DEF AInv, AuditOK, WithholdsOK, At
<1>5. /\ auditing'[p] = {k} /\ Cardinality({k}) = 1 /\ Cardinality(auditing[p]) = 0
      /\ \A q \in Procs : q # p => auditing'[q] = auditing[q]
  BY <1>1, <1>3, <1>4, FS_Singleton, FS_EmptySet DEF TypeOK
<1>6. proc'[p].pc = "compile" /\ proc'[p].key = k
  BY <1>1, <1>3 DEF TypeOK, Began, Call
<1>7. /\ Ended(p)' = Ended(p)
      /\ stats'[p]["sampled"] = stats[p]["sampled"] + 1
      /\ \A q \in Procs : q # p => stats'[q] = stats[q]
  BY <1>1, <1>3, BumpFacts
<1>8. stats[p]["sampled"] \in Nat /\ Ended(p) \in Nat
  BY <1>1, EndedType
<1>9. WithholdsOK(p)'
  BY <1>3, <1>4, <1>5, <1>6 DEF WithholdsOK, At, KeyOf
<1>10. CountsOK(p)'
  <2>1. audited'[p] = audited[p] /\ Cardinality(auditing'[p]) = 1
    BY <1>3, <1>5
  <2>2. stats'[p]["sampled"] = Ended(p)' + 1
    BY <1>4, <1>5, <1>7, <1>8 DEF CountsOK
  <2>3. IsFiniteSet(audited'[p]) /\ Ended(p)' = Cardinality(audited'[p])
    BY <2>1, <1>4, <1>7 DEF CountsOK
  <2> QED
    BY <2>1, <2>2, <2>3 DEF CountsOK
<1> QED
  BY <1>1, <1>2, <1>3, <1>5, <1>7, <1>9, <1>10, MovesOne, OneMoves DEF AuditOK

\* Every other step of a process leaves its audits alone.
LEMMA LeavesAudits ==
  ASSUME AInv, NEW p \in Procs, Step(p),
         ~(\E k \in Keys : Withhold(p, k)),
         ~(AuditStale(p) \/ AuditAgrees(p) \/ AuditDiffers(p) \/ Transient(p))
  PROVE  AInv'
<1>1. TypeOK /\ IInv'
  BY StepInv DEF AInv, IInv
<1>2. \A q \in Procs : q # p => proc'[q] = proc[q]
  BY <1>1, MovesOne
<1>3. ~At(p, "compile") \/ ~Audits(p)
  BY DEF Step, Bypass, Miss, Serve, Asked, Unfail, LinkRead, PutsNow, Create, Cut, Write, Join,
         Return, Unobj, WriteFail, FailsNow, StoreFails, JoinLost, Writes, Discard, At
<1>4. p \notin Verifiers => auditing[p] = {}
  BY <1>3, NothingWithheld
<1>5. UNCHANGED <<sample, auditing, audited>> /\ (stats' = stats \/ Bump(p, "objectCorrupt"))
  BY DEF Step, Bypass, Miss, Serve, Asked, Unfail, LinkRead, Create, Cut, Write, Join,
         Return, Unobj, WriteFail, StoreFails, Discard, mine
<1> QED
  BY <1>1, <1>2, <1>4, <1>5, Unaudited

\* A killed process has forgotten its audits and its counters together.
LEMMA Killed ==
  ASSUME AInv, NEW p \in Procs, Kill(p)
  PROVE  AInv'
<1>1. IInv' /\ TypeOK
  BY KillInv DEF AInv, IInv
<1>2. /\ auditing'[p] = {} /\ audited'[p] = {} /\ sample'[p] = {} /\ stats'[p] = Zero
      /\ \A q \in Procs : q # p =>
           /\ proc'[q] = proc[q] /\ stats'[q] = stats[q] /\ sample'[q] = sample[q]
           /\ auditing'[q] = auditing[q] /\ audited'[q] = audited[q]
  BY <1>1 DEF Kill, TypeOK
<1>3. Ended(p)' = 0 /\ stats'[p]["sampled"] = 0
  BY <1>2 DEF Ended, Zero, Counters
<1>4. AuditOK(p)'
  BY <1>2, <1>3, FS_EmptySet DEF AuditOK, WithholdsOK, CountsOK
<1> QED
  BY <1>1, <1>2, <1>4, OneMoves

LEMMA AuditStep == AInv /\ [Next]_vars => AInv'
<1> SUFFICES ASSUME AInv, [Next]_vars PROVE AInv'
  OBVIOUS
<1>1. ASSUME NEW p \in Procs, Step(p) PROVE AInv'
  BY <1>1, AuditEnds, Withholds, LeavesAudits
<1>2. ASSUME UNCHANGED <<mine, proc>>, IInv' PROVE AInv'
  BY <1>2 DEF AInv, AuditOK, WithholdsOK, CountsOK, Ended, At, KeyOf, mine
<1>3. ASSUME Prune PROVE AInv'
  <2>1. UNCHANGED <<mine, proc>>
    BY <1>3 DEF Prune, Evict, Reap
  <2>2. IInv'
    BY <1>3, EvictInv, ReapInv DEF Prune, AInv
  <2> QED
    BY <1>2, <2>1, <2>2
<1>4. CASE UNCHANGED vars
  <2>1. UNCHANGED <<mine, proc>>
    BY <1>4 DEF vars
  <2>2. IInv'
    BY <1>4, StutterInv DEF AInv
  <2> QED
    BY <1>2, <2>1, <2>2
<1> QED
  BY <1>1, <1>3, <1>4, Killed DEF Next

LEMMA AuditInit == Init => AInv
<1> SUFFICES ASSUME Init PROVE AInv
  OBVIOUS
<1>1. IInv
  BY InitInv
<1>2. ASSUME NEW p \in Procs PROVE AuditOK(p)
  <2>1. stats[p] = Zero /\ auditing[p] = {} /\ audited[p] = {}
    BY DEF Init
  <2>2. Ended(p) = 0 /\ stats[p]["sampled"] = 0
    BY <2>1 DEF Ended, Zero, Counters
  <2> QED
    BY <2>1, <2>2, FS_EmptySet DEF AuditOK, WithholdsOK, CountsOK
<1> QED
  BY <1>1, <1>2 DEF AInv

-----------------------------------------------------------------------------
(* The theorems.                                                           *)

\* What a process withholds and what its counters say agree in every reachable
\* state, whoever is killed and whatever the writes to the store do.
THEOREM AuditInvariance == Spec => []AInv
<1> QED
  BY AuditInit, AuditStep, PTL DEF Spec

\* The counters of a [candcache] line reconcile: every withheld key ended in
\* exactly one of the five ways an audit can end, or is still being compared.
THEOREM AlwaysReconciles == Spec => []Reconciles
<1>1. AInv => Reconciles
  <2> SUFFICES ASSUME AInv, NEW p \in Procs \ Verifiers
               PROVE  stats[p]["sampled"] = stats[p]["verified"] + stats[p]["verifiedFail"]
                        + stats[p]["mismatch"] + stats[p]["sampledStale"]
                        + stats[p]["sampledAbandoned"] + Cardinality(auditing[p])
    BY DEF Reconciles
  <2> QED
    BY DEF AInv, AuditOK, CountsOK, Ended
<1> QED
  BY <1>1, AuditInvariance, PTL

\* A selected key is withheld from a process at most once.
THEOREM WithheldAtMostOnce ==
  ASSUME IsFiniteSet(Keys)
  PROVE  Spec => []WithheldOnce
<1>1. AInv => WithheldOnce
  <2> SUFFICES ASSUME AInv, NEW p \in Procs
               PROVE  stats[p]["sampled"] <= Cardinality(sample[p])
    BY DEF WithheldOnce
  <2>1. IsFiniteSet(sample[p]) /\ Cardinality(sample[p]) \in Nat
    <3>1. sample[p] \subseteq Keys
      BY DEF AInv, IInv, TypeOK
    <3> QED
      BY <3>1, FS_Subset, FS_CardinalityType
  <2>2. CASE p \in Verifiers
    BY <2>1, <2>2 DEF AInv, AuditOK
  <2>3. CASE p \notin Verifiers
    <3>1. WithholdsOK(p) /\ CountsOK(p)
      BY <2>3 DEF AInv, AuditOK
    <3>2. CASE auditing[p] = {}
      <4>1. Cardinality(audited[p]) <= Cardinality(sample[p]) /\ Cardinality(audited[p]) \in Nat
        BY <2>1, <3>1, FS_Subset, FS_CardinalityType DEF WithholdsOK, CountsOK
      <4>2. stats[p]["sampled"] = Cardinality(audited[p]) + 0
        BY <3>1, <3>2, FS_EmptySet DEF CountsOK
      <4> QED
        BY <4>1, <4>2
    <3>3. CASE auditing[p] # {}
      <4> DEFINE k == KeyOf(p)
      <4>1. auditing[p] = {k} /\ k \notin audited[p] /\ audited[p] \cup {k} \subseteq sample[p]
        BY <3>1, <3>3 DEF WithholdsOK
      <4> HIDE DEF k
      <4>2. IsFiniteSet(audited[p])
        BY <3>1 DEF CountsOK
      <4>3. Cardinality(audited[p] \cup {k}) = Cardinality(audited[p]) + 1
        BY <4>1, <4>2, FS_AddElement
      <4>4. Cardinality(audited[p] \cup {k}) <= Cardinality(sample[p])
        BY <2>1, <4>1, FS_Subset
      <4>5. stats[p]["sampled"] = Cardinality(audited[p]) + 1
        BY <3>1, <4>1, FS_Singleton DEF CountsOK
      <4> QED
        BY <4>3, <4>4, <4>5
    <3> QED
      BY <3>2, <3>3
  <2> QED
    BY <2>2, <2>3
<1> QED
  BY <1>1, AuditInvariance, PTL

-----------------------------------------------------------------------------
(***************************************************************************)
(* Sampling is never worse than not sampling.  A call that was refused the *)
(* answer the store had holds its key withheld until its compile ends, so  *)
(* a compile that gives nothing can still hand the answer back.            *)
(***************************************************************************)

HadOK(p) ==
  At(p, "compile") =>
    /\ proc[p].answer = "none"
    /\ p \notin Verifiers /\ proc[p].had => KeyOf(p) \in auditing[p]

HInv == IInv /\ \A p \in Procs : HadOK(p)

\* A step of one process leaves the audits of the others alone.
LEMMA OwnAudits ==
  ASSUME TypeOK, NEW p \in Procs, Step(p), NEW q \in Procs, q # p
  PROVE  auditing'[q] = auditing[q]
<1>1. \/ UNCHANGED auditing \/ Claim(p)
      \/ \E k \in Keys : auditing' = [auditing EXCEPT ![p] = @ \cup {k}]
  BY DEF Step, Bypass, Miss, Withhold, Serve, AuditStale, AuditAgrees, AuditDiffers, Compares,
         Transient, Unfail, LinkRead, Create, Cut, Write, Join, Return, Unobj, WriteFail,
         StoreFails, Discard, mine
<1> QED
  BY <1>1 DEF TypeOK, Claim

\* A call compiles only because it was just asked.
LEMMA OnlyAsked ==
  ASSUME TypeOK, NEW p \in Procs, Step(p), proc'[p].pc = "compile"
  PROVE  \E k \in Keys : Bypass(p, k) \/ Miss(p, k) \/ Withhold(p, k)
<1>1. ~(\E k \in Keys : Serve(p, k))
  BY AskedFields DEF Serve
<1>2. ~AuditStale(p) /\ ~AuditDiffers(p) /\ ~LinkRead(p) /\ ~Unfail(p) /\ ~Create(p) /\ ~Unobj(p)
  BY GoFields, MovedFields DEF AuditStale, AuditDiffers, LinkRead, Unfail, Create, Unobj
<1>3. ~AuditAgrees(p) /\ ~Return(p) /\ ~Discard(p) /\ ~WriteFail(p)
  BY OverFields, RepliedFields DEF AuditAgrees, Return, Discard, WriteFail
<1>4. ~Transient(p) /\ ~Cut(p) /\ ~Write(p) /\ ~Join(p) /\ ~StoreFails(p)
  BY GoFields, MovedFields, RepliedFields DEF Transient, Cut, Write, Join, StoreFails
<1> QED
  BY <1>1, <1>2, <1>3, <1>4 DEF Step

\* What asking writes into the call's record.
LEMMA AskedHad ==
  ASSUME TypeOK, NEW p \in Procs, NEW k \in Keys, NEW pc, NEW answer, Asked(p, k, pc, answer)
  PROVE  /\ proc'[p].why = "put" /\ proc'[p].had = (Lookup(k) # None)
         /\ proc'[p].answer = answer /\ proc'[p].key = k /\ proc'[p].pc = pc
<1> DEFINE r == Began(p, k, pc, answer)
<1>1. /\ r.why = "put" /\ r.had = (Lookup(k) # None)
      /\ r.answer = answer /\ r.key = k /\ r.pc = pc
  BY DEF TypeOK, Call, Began
<1>2. proc' = [proc EXCEPT ![p] = r]
  BY DEF Asked
<1> HIDE DEF r
<1> QED
  BY <1>1, <1>2 DEF TypeOK

LEMMA HadStep == HInv /\ [Next]_vars => HInv'
<1> SUFFICES ASSUME HInv, [Next]_vars PROVE HInv'
  OBVIOUS
<1>0. TypeOK /\ IInv /\ IInv'
  BY StepInv, KillInv, EvictInv, ReapInv, StutterInv DEF HInv, IInv, Next, Prune
<1>1. ASSUME NEW p \in Procs, Step(p) PROVE \A q \in Procs : HadOK(q)'
  <2>1. ASSUME NEW q \in Procs, q # p PROVE HadOK(q)'
    <3>1. proc'[q] = proc[q] /\ auditing'[q] = auditing[q]
      BY <1>0, <1>1, <2>1, MovesOne, OwnAudits
    <3> QED
      BY <3>1 DEF HInv, HadOK, At, KeyOf
  <2>2. HadOK(p)'
    <3> SUFFICES ASSUME proc'[p].pc = "compile" PROVE HadOK(p)'
      BY DEF HadOK, At
    <3>1. PICK k \in Keys : Bypass(p, k) \/ Miss(p, k) \/ Withhold(p, k)
      BY <1>0, <1>1, OnlyAsked
    <3>2. Asked(p, k, "compile", "none")
      BY <3>1 DEF Bypass, Miss, Withhold
    <3>3. proc'[p].had = (Lookup(k) # None) /\ proc'[p].answer = "none" /\ proc'[p].key = k
      BY <1>0, <3>2, AskedHad
    <3>4. CASE Bypass(p, k)
      BY <3>3, <3>4 DEF HadOK, Bypass
    <3>5. CASE Miss(p, k)
      <4>1. proc'[p].had = FALSE
        BY <3>3, <3>5 DEF Miss
      <4> QED
        BY <3>3, <4>1 DEF HadOK
    <3>6. CASE Withhold(p, k)
      <4>1. k \in auditing'[p]
        BY <1>0, <3>6 DEF Withhold, TypeOK
      <4> QED
        BY <3>3, <4>1 DEF HadOK, KeyOf
    <3> QED
      BY <3>1, <3>4, <3>5, <3>6
  <2> QED
    BY <2>1, <2>2
<1>2. ASSUME NEW p \in Procs, Kill(p) PROVE \A q \in Procs : HadOK(q)'
  <2>1. \A q \in Procs : q # p => proc'[q] = proc[q] /\ auditing'[q] = auditing[q]
    BY <1>0, <1>2 DEF Kill, TypeOK
  <2>2. proc'[p].pc = "dead"
    BY <1>0, <1>2 DEF Kill, TypeOK, Starting
  <2> QED
    BY <2>1, <2>2 DEF HInv, HadOK, At, KeyOf
<1>3. ASSUME UNCHANGED <<mine, proc>> PROVE \A q \in Procs : HadOK(q)'
  BY <1>3 DEF HInv, HadOK, At, KeyOf, mine
<1>4. Prune \/ UNCHANGED vars => UNCHANGED <<mine, proc>>
  BY DEF Prune, Evict, Reap, vars
<1> QED
  BY <1>0, <1>1, <1>2, <1>3, <1>4 DEF Next, HInv

\* A step that ends a call without an answer finds nothing in the store, or the
\* call had been asked what the store did not know.
LEMMA FailsForWant ==
  ASSUME HInv, [Next]_vars, NEW p \in Procs \ Verifiers,
         At(p, "compile"), proc'[p].answer = "failed", proc[p].had
  PROVE  Lookup(KeyOf(p)) = None
<1>0. TypeOK /\ KeyOf(p) \in auditing[p] /\ proc[p].answer = "none"
  BY DEF HInv, IInv, HadOK
<1>1. proc'[p] # proc[p]
  BY <1>0
<1>2. Step(p)
  <2>1. ~(Prune \/ UNCHANGED vars)
    BY <1>1 DEF Prune, Evict, Reap, vars
  <2>2. ASSUME NEW q \in Procs, Step(q) \/ Kill(q) PROVE q = p
    BY <1>0, <1>1, <2>2, MovesOne DEF Kill, TypeOK
  <2>3. ~Kill(p)
    <3> DEFINE r == [Starting EXCEPT !.pc = "dead"]
    <3>1. r.answer = "none"
      BY DEF Starting
    <3>2. Kill(p) => proc' = [proc EXCEPT ![p] = r]
      BY DEF Kill
    <3> HIDE DEF r
    <3> QED
      BY <1>0, <3>1, <3>2 DEF TypeOK
  <2> QED
    BY <2>1, <2>2, <2>3 DEF Next
<1>3. ~(\E k \in Keys : Bypass(p, k) \/ Miss(p, k) \/ Withhold(p, k) \/ Serve(p, k))
  BY DEF Bypass, Miss, Withhold, Serve, Asked, At
<1>4. ~AuditStale(p) /\ ~AuditDiffers(p) /\ ~LinkRead(p)
  BY <1>0, GoFields, MovedFields DEF AuditStale, AuditDiffers, LinkRead
<1>5. ~AuditAgrees(p)
  <2> DEFINE answer == IF Fresh(p) = Rej THEN "rejected" ELSE "stored"
  <2>1. AuditAgrees(p) => AuditOver(p, answer)
    BY DEF AuditAgrees
  <2>2. answer # "failed"
    OBVIOUS
  <2>3. p \notin Verifiers
    OBVIOUS
  <2> HIDE DEF answer
  <2> QED
    BY <1>0, <2>1, <2>2, <2>3, RepliedFields DEF AuditOver, Reply
<1>6. ~WriteFail(p) /\ ~StoreFails(p)
  BY <1>0, RepliedFields, MovedFields DEF WriteFail, StoreFails, AuditOver, Reply
<1>7. Transient(p)
  BY <1>2, <1>3, <1>4, <1>5, <1>6 DEF Step, Unfail, Create, Cut, Write, Join, Return, Unobj,
     Discard, At
<1>8. Reply(p, IF Lookup(KeyOf(p)) = None THEN "failed" ELSE "hit")
  BY <1>0, <1>7 DEF Transient
<1> QED
  BY <1>0, <1>8, RepliedFields

\* A call that the store could have answered fails only if the store has lost
\* the answer since: the withheld key is handed back, whoever else writes.
THEOREM WithholdingCostsNothing == Spec => NeverWorse
<1> DEFINE Want == \A p \in Procs \ Verifiers :
              At(p, "compile") /\ proc'[p].answer = "failed" /\ proc[p].had
                => Lookup(KeyOf(p)) = None
<1>1. Init => HInv
  BY InitInv DEF HInv, HadOK, Init, Starting, At
<1>2. HInv /\ [Next]_vars => HInv'
  BY HadStep
<1>3. HInv /\ [Next]_vars => [Want]_vars
  BY FailsForWant
<1> QED
  BY <1>1, <1>2, <1>3, PTL DEF Spec, NeverWorse

-----------------------------------------------------------------------------
(***************************************************************************)
(* No silent repair.  A key is Quiet unless the store answers it wrongly   *)
(* and MISMATCHES.log names neither the key, nor its object, nor the       *)
(* object it is answered with.  It is Fit when, besides, a rejection that  *)
(* is wrong has been reported: then even its object's disappearance, which *)
(* lets the rejection through, needs no report of its own.                 *)
(***************************************************************************)

Reported(k) == {k, Truth[k]} \cap log # {}
Quiet(k) == Lookup(k) \notin {None, Truth[k]} => Reported(k) \/ Lookup(k) \in log
Fit(k)   == Quiet(k) /\ (k \in fails => Truth[k] = Rej \/ Reported(k))

\* p is about to store what its compile gave.
Storing(p) ==
  \/ proc[p].pc \in {"link", "create", "cut", "write", "join", "fail"}
  \/ At(p, "compile") /\ ~Audits(p)

\* A repair follows a report.
RepairOK(p) ==
  /\ proc[p].pc \in {"cut", "write"} => Fresh(p) \in log
  /\ proc[p].why = "audit" => KeyOf(p) \in log
  /\ proc[p].pc \in {"unfail", "unobj", "discard", "return"} => proc[p].why = "audit"

\* The object a call is about to link to is whole, gone, or cut for a reported repair.
Linkable(o) == o \in log \/ objects[o] = None \/ bytes[objects[o]] # Empty
LinksOK(p) == At(p, "join") => Linkable(Fresh(p))

SInv ==
  /\ IInv
  /\ \A p \in Procs : RepairOK(p) /\ LinksOK(p) /\ (Storing(p) => Fit(KeyOf(p)))
  /\ \A k \in Keys : k \in fails /\ keyO[k] # None => Fit(k)

\* What a step may do to the answer for k: nothing, take it away, change it for
\* a key or into an object that was reported, or put right one that is Quiet.
Effect(k) ==
  \/ Lookup(k)' \in {Lookup(k), None}
  \/ {k, Truth[k]} \cap log' # {}
  \/ Lookup(k)' \in log'
  \/ Lookup(k)' = Truth[k] /\ Quiet(k)

\* A step that has no other effects on the answers.
Harmless ==
  /\ log \subseteq log'
  /\ \A k \in Keys : Effect(k) /\ (k \in fails' => k \in fails \/ Truth[k] = Rej)

LEMMA FitStays ==
  ASSUME Harmless, NEW k \in Keys, Fit(k)
  PROVE  Fit(k)'
<1>1. Reported(k) => Reported(k)'
  BY DEF Harmless, Reported
<1>2. Quiet(k)'
  BY DEF Harmless, Effect, Fit, Quiet, Reported
<1>3. k \in fails' => Truth[k] = Rej \/ Reported(k)'
  BY <1>1 DEF Harmless, Fit
<1> QED
  BY <1>2, <1>3 DEF Fit

\* What is fit to be stored: a key without an answer, with the right one, or reported.
LEMMA FitNow ==
  ASSUME SInv, NEW k \in Keys, Lookup(k) \in {None, Truth[k]} \/ k \in log
  PROVE  Fit(k)
<1>1. CASE k \in log
  BY <1>1 DEF Fit, Quiet, Reported
<1>2. CASE Lookup(k) = None
  <2>1. k \notin fails
    BY <1>2, DistinctAssumption DEF Lookup, SInv, IInv, TypeOK, Bytes
  <2> QED
    BY <1>2, <2>1 DEF Fit, Quiet
<1>3. CASE Lookup(k) = Truth[k]
  <2>1. CASE Truth[k] = Rej
    BY <1>3, <2>1 DEF Fit, Quiet
  <2>2. CASE Truth[k] # Rej /\ k \in fails
    <3>1. keyO[k] # None
      BY <1>3, <2>2 DEF Lookup
    <3> QED
      BY <2>2, <3>1 DEF SInv
  <2>3. CASE k \notin fails
    BY <1>3, <2>3 DEF Fit, Quiet
  <2> QED
    BY <2>1, <2>2, <2>3
<1> QED
  BY <1>1, <1>2, <1>3

-----------------------------------------------------------------------------
(* What each step does to the answers.                                     *)

LEMMA SameLookup ==
  ASSUME NEW k \in Keys, keyO'[k] = keyO[k], k \in fails' <=> k \in fails,
         keyO[k] # None => bytes'[keyO[k]] = bytes[keyO[k]]
  PROVE  Lookup(k)' = Lookup(k)
BY DEF Lookup

LEMMA QuietDisk ==
  ASSUME UNCHANGED <<bytes, keyO, fails>>, log \subseteq log'
  PROVE  Harmless
<1>1. \A k \in Keys : Lookup(k)' = Lookup(k)
  BY SameLookup
<1> QED
  BY <1>1 DEF Harmless, Effect

LEMMA CreateHarmless == ASSUME SInv, NEW p \in Procs, Create(p) PROVE Harmless
<1>0. TypeOK /\ UNCHANGED <<keyO, fails, log>>
  BY DEF SInv, IInv, Create
<1>1. PICK i \in Free : bytes' = [bytes EXCEPT ![i] = Fresh(p)]
  BY DEF Create
<1>2. \A k \in Keys : keyO[k] # i
  BY <1>1 DEF Free, Linked
<1>3. \A k \in Keys : keyO[k] # None => bytes'[keyO[k]] = bytes[keyO[k]]
  BY <1>0, <1>1, <1>2 DEF TypeOK
<1>4. \A k \in Keys : Lookup(k)' = Lookup(k)
  BY <1>0, <1>3, SameLookup
<1> QED
  BY <1>0, <1>4 DEF Harmless, Effect

\* Cutting a file takes an answer away, or lets a rejection through.
LEMMA CutHarmless == ASSUME SInv, NEW p \in Procs, Cut(p) PROVE Harmless
<1>0. TypeOK /\ UNCHANGED <<keyO, fails, log>>
  BY DEF SInv, IInv, Cut
<1>1. PICK i : bytes' = [bytes EXCEPT ![i] = Empty]
  BY DEF Cut
<1>2. ASSUME NEW k \in Keys PROVE Effect(k)
  <2>1. CASE keyO[k] # None /\ keyO[k] = i
    <3>1. keyO[k] \in Inodes
      BY <1>0, <2>1 DEF TypeOK
    <3>2. bytes'[keyO'[k]] = Empty
      BY <1>0, <1>1, <2>1, <3>1 DEF TypeOK
    <3>3. CASE k \in fails
      <4>1. Lookup(k)' = Rej
        BY <1>0, <3>2, <3>3 DEF Lookup
      <4>2. Fit(k)
        BY <2>1, <3>3 DEF SInv
      <4> QED
        BY <1>0, <3>3, <4>1, <4>2 DEF Effect, Fit, Reported
    <3>4. CASE k \notin fails
      BY <1>0, <3>2, <3>4 DEF Lookup, Effect
    <3> QED
      BY <3>3, <3>4
  <2>2. CASE keyO[k] = None \/ keyO[k] # i
    <3>1. keyO[k] # None => bytes'[keyO[k]] = bytes[keyO[k]]
      BY <1>0, <1>1, <2>2 DEF TypeOK
    <3> QED
      BY <1>0, <3>1, SameLookup DEF Effect
  <2> QED
    BY <2>1, <2>2
<1> QED
  BY <1>0, <1>2 DEF Harmless

\* The bytes written in place are those of a reported object.
LEMMA WriteHarmless == ASSUME SInv, NEW p \in Procs, Write(p) PROVE Harmless
<1>0. TypeOK /\ UNCHANGED <<keyO, fails, log>> /\ Fresh(p) \in log /\ Fresh(p) # Empty
  BY DistinctAssumption DEF SInv, IInv, Write, RepairOK, At, Outcomes, Positive
<1> DEFINE i == proc[p].fd
<1>1. bytes' = [bytes EXCEPT ![i] = Fresh(p)]
  BY DEF Write
<1> HIDE DEF i
<1>2. ASSUME NEW k \in Keys PROVE Effect(k)
  <2>1. CASE keyO[k] # None /\ keyO[k] = i
    <3>1. bytes'[keyO'[k]] = Fresh(p)
      BY <1>0, <1>1, <2>1 DEF TypeOK
    <3>2. Lookup(k)' = Fresh(p)
      BY <1>0, <2>1, <3>1 DEF Lookup
    <3> QED
      BY <1>0, <3>2 DEF Effect
  <2>2. CASE keyO[k] = None \/ keyO[k] # i
    <3>1. keyO[k] # None => bytes'[keyO[k]] = bytes[keyO[k]]
      BY <1>0, <1>1, <2>2 DEF TypeOK
    <3> QED
      BY <1>0, <3>1, SameLookup DEF Effect
  <2> QED
    BY <2>1, <2>2
<1> QED
  BY <1>0, <1>2 DEF Harmless

\* A key is linked to what it compiles to, or to a file that is being repaired.
LEMMA JoinHarmless == ASSUME SInv, NEW p \in Procs, Join(p) PROVE Harmless
<1>0. TypeOK /\ UNCHANGED <<bytes, fails, log>> /\ At(p, "join") /\ objects[Fresh(p)] # None
  BY DEF SInv, IInv, Join
<1>1. PICK k \in Keys, i \in Inodes :
        /\ k = KeyOf(p) /\ i = objects[Fresh(p)]
        /\ keyO' = [keyO EXCEPT ![k] = i] /\ keyO'[k] = i /\ i # None
        /\ bytes[i] \in {Fresh(p), Empty} /\ Truth[k] = Fresh(p)
  BY <1>0, JoinHolds DEF SInv
<1>2. Effect(k)
  <2>1. CASE bytes[i] = Empty
    <3>1. Fresh(p) \in log
      BY <1>0, <1>1, <2>1 DEF SInv, LinksOK, Linkable
    <3> QED
      BY <1>0, <1>1, <3>1 DEF Effect
  <2>2. CASE bytes[i] # Empty
    <3>1. Lookup(k)' = Truth[k]
      BY <1>0, <1>1, <2>2 DEF Lookup
    <3>2. Quiet(k)
      BY <1>0, <1>1 DEF SInv, Storing, At, Fit
    <3> QED
      BY <3>1, <3>2 DEF Effect
  <2> QED
    BY <2>1, <2>2
<1>3. ASSUME NEW l \in Keys, l # k PROVE Effect(l)
  <2>1. keyO'[l] = keyO[l]
    BY <1>0, <1>1, <1>3 DEF TypeOK
  <2> QED
    BY <1>0, <2>1, SameLookup DEF Effect
<1> QED
  BY <1>0, <1>2, <1>3 DEF Harmless

\* A step that changes the entries of one key, which has been reported.
LEMMA ReportedHarmless ==
  ASSUME SInv, UNCHANGED <<bytes, log>>, NEW k \in Keys, k \in log,
         \A l \in Keys : l # k => keyO'[l] = keyO[l] /\ (l \in fails' <=> l \in fails),
         fails' \subseteq fails
  PROVE  Harmless
<1>1. \A l \in Keys : l # k => Lookup(l)' = Lookup(l)
  BY SameLookup
<1> QED
  BY <1>1 DEF Harmless, Effect

LEMMA UnfailHarmless == ASSUME SInv, NEW p \in Procs, Unfail(p) PROVE Harmless
<1>1. KeyOf(p) \in log /\ KeyOf(p) \in Keys
  BY KeyFacts DEF SInv, IInv, RepairOK, Unfail, At
<1> QED
  BY <1>1, ReportedHarmless DEF Unfail

LEMMA UnobjHarmless == ASSUME SInv, NEW p \in Procs, Unobj(p) PROVE Harmless
<1>1. KeyOf(p) \in log /\ KeyOf(p) \in Keys /\ TypeOK
  BY KeyFacts DEF SInv, IInv, RepairOK, Unobj, At
<1>2. \A l \in Keys : l # KeyOf(p) => keyO'[l] = keyO[l]
  BY <1>1 DEF Unobj, TypeOK
<1> QED
  BY <1>1, <1>2, ReportedHarmless DEF Unobj

LEMMA DiscardHarmless == ASSUME SInv, NEW p \in Procs, Discard(p) PROVE Harmless
<1>1. KeyOf(p) \in log /\ KeyOf(p) \in Keys /\ TypeOK
  BY KeyFacts DEF SInv, IInv, RepairOK, Discard, At
<1>2. PICK object, rejection \in BOOLEAN :
        /\ keyO' = IF object THEN [keyO EXCEPT ![KeyOf(p)] = None] ELSE keyO
        /\ fails' = IF rejection THEN fails \ {KeyOf(p)} ELSE fails
  BY ModesAssumption, Zenon DEF Discard
<1>3. keyO' = keyO \/ keyO' = [keyO EXCEPT ![KeyOf(p)] = None]
  BY <1>2, Zenon
<1>4. fails' = fails \/ fails' = fails \ {KeyOf(p)}
  BY <1>2, Zenon
<1>5. \A l \in Keys : l # KeyOf(p) => keyO'[l] = keyO[l]
  BY <1>1, <1>3 DEF TypeOK
<1> QED
  BY <1>1, <1>4, <1>5, ReportedHarmless DEF Discard

\* A rejection is written where the compile rejected.
LEMMA WriteFailHarmless == ASSUME SInv, NEW p \in Procs, WriteFail(p) PROVE Harmless
<1>0. TypeOK /\ UNCHANGED <<bytes, keyO, log>>
  BY DEF SInv, IInv, WriteFail
<1>1. PICK k \in Keys : Truth[k] = Rej /\ fails' = fails \cup {k} /\ Quiet(k)
  BY <1>0, KeyFacts DEF SInv, IInv, WriteFail, FailsNow, Outcomes, At, Fresh, Storing, Fit
<1>2. Effect(k)
  <2>1. CASE keyO[k] # None /\ bytes[keyO[k]] # Empty
    BY <1>0, <2>1 DEF Effect, Lookup
  <2>2. CASE ~(keyO[k] # None /\ bytes[keyO[k]] # Empty)
    <3>1. Lookup(k)' = Rej
      BY <1>0, <1>1, <2>2 DEF Lookup
    <3> QED
      BY <1>1, <3>1 DEF Effect
  <2> QED
    BY <2>1, <2>2
<1>3. \A l \in Keys : l # k => Lookup(l)' = Lookup(l)
  BY <1>0, <1>1, SameLookup
<1> QED
  BY <1>0, <1>1, <1>2, <1>3 DEF Harmless, Effect

\* A prune takes answers away, or lets a rejection through.
LEMMA EvictHarmless == ASSUME SInv, NEW k \in Keys, Evict(k) PROVE Harmless
<1>0. TypeOK /\ UNCHANGED <<bytes, log>>
  BY DEF SInv, IInv, Evict
<1>1. \A l \in Keys : l # k => Lookup(l)' = Lookup(l)
  BY <1>0, SameLookup DEF Evict, TypeOK
<1>2. Effect(k)
  <2>1. CASE keyO[k] # None /\ keyO' = [keyO EXCEPT ![k] = None] /\ UNCHANGED fails
    <3>1. keyO'[k] = None
      BY <1>0, <2>1 DEF TypeOK
    <3>2. CASE k \in fails
      <4>1. Lookup(k)' = Rej /\ Fit(k)
        BY <2>1, <3>1, <3>2 DEF Lookup, SInv
      <4> QED
        BY <1>0, <3>2, <4>1 DEF Effect, Fit, Reported
    <3>3. CASE k \notin fails
      BY <2>1, <3>1, <3>3 DEF Lookup, Effect
    <3> QED
      BY <3>2, <3>3
  <2>2. CASE fails' = fails \ {k} /\ UNCHANGED keyO
    BY <1>0, <2>2 DEF Lookup, Effect
  <2> QED
    BY <2>1, <2>2 DEF Evict
<1>3. fails' \subseteq fails
  BY DEF Evict
<1> QED
  BY <1>0, <1>1, <1>2, <1>3 DEF Harmless, Effect

LEMMA StepHarmless == ASSUME SInv, [Next]_vars PROVE Harmless
<1>1. ASSUME NEW p \in Procs, Step(p) PROVE Harmless
  <2>1. CASE Create(p) \/ Cut(p) \/ Write(p) \/ Join(p)
    BY <2>1, CreateHarmless, CutHarmless, WriteHarmless, JoinHarmless
  <2>2. CASE Unfail(p) \/ Unobj(p) \/ Discard(p) \/ WriteFail(p)
    BY <2>2, UnfailHarmless, UnobjHarmless, DiscardHarmless, WriteFailHarmless
  <2>3. CASE UNCHANGED <<bytes, keyO, fails>> /\ log \subseteq log'
    BY <2>3, QuietDisk
  <2> QED
    BY <1>1, <2>1, <2>2, <2>3
    DEF Step, Bypass, Miss, Withhold, Serve, Asked, AuditStale, AuditAgrees, AuditDiffers,
        Compares, Transient, LinkRead, Return, StoreFails, disk
<1>2. ASSUME UNCHANGED <<bytes, keyO, fails, log>> PROVE Harmless
  BY <1>2, QuietDisk
<1> QED
  BY <1>1, <1>2, EvictHarmless DEF Next, Kill, Prune, Reap, vars, disk

-----------------------------------------------------------------------------
(* Where each step leaves a call.                                          *)

\* What becomes of the reason why a call writes to the store.
LEMMA WhyFacts ==
  ASSUME TypeOK, NEW p \in Procs
  PROVE  /\ \A pc : Go(p, pc) => proc'[p].why = proc[p].why
         /\ \A pc, w, i : proc' = Moved(p, pc, w, i) => proc'[p].why = w
         /\ \A answer : Reply(p, answer) => proc'[p].why = proc[p].why
         /\ \A answer : AuditOver(p, answer) => proc'[p].why \in {"put", proc[p].why}
<1>1. ASSUME NEW pc, Go(p, pc) PROVE proc'[p].why = proc[p].why
  BY <1>1 DEF TypeOK, Call, Go
<1>2. ASSUME NEW pc, NEW w, NEW i, proc' = Moved(p, pc, w, i) PROVE proc'[p].why = w
  BY <1>2 DEF TypeOK, Call, Moved
<1>3. ASSUME NEW answer, proc' = Replied(p, answer) PROVE proc'[p].why = proc[p].why
  BY <1>3 DEF TypeOK, Call, Replied
<1>4. ASSUME NEW answer, AuditOver(p, answer) PROVE proc'[p].why \in {"put", proc[p].why}
  BY <1>2, <1>3, <1>4 DEF AuditOver
<1> QED
  BY <1>1, <1>2, <1>3, <1>4 DEF Reply

\* An object stays linkable.
LEMMA LinksStay ==
  ASSUME SInv, [Next]_vars, NEW o \in Objs, Linkable(o)
  PROVE  Linkable(o)'
<1>0. TypeOK /\ log \subseteq log' /\ None \notin Inodes /\ Empty \notin Objs
  BY StepHarmless, DistinctAssumption DEF SInv, IInv, Harmless, Inodes
<1>1. ASSUME NEW p \in Procs, Create(p) PROVE Linkable(o)'
  <2>1. PICK i \in Free : /\ objects' = [objects EXCEPT ![Fresh(p)] = i]
                          /\ bytes' = [bytes EXCEPT ![i] = Fresh(p)]
    BY <1>1 DEF Create
  <2>2. i \in Inodes /\ objects[o] # i /\ Fresh(p) \in Objs
    BY <1>1, <2>1 DEF Free, Named, SInv, IInv, Outcomes, Positive, Create, At
  <2> QED
    BY <1>0, <2>1, <2>2 DEF Linkable, TypeOK
<1>2. ASSUME NEW p \in Procs, Cut(p) PROVE Linkable(o)'
  <2>1. Fresh(p) \in log /\ Fresh(p) \in Objs
    BY <1>2 DEF SInv, IInv, RepairOK, Outcomes, Positive, Cut, At
  <2>2. PICK i \in Inodes : /\ i = objects[Fresh(p)] \/ i \in Free
                            /\ objects' = [objects EXCEPT ![Fresh(p)] = i]
                            /\ bytes' = [bytes EXCEPT ![i] = Empty]
    <3>1. CASE objects[Fresh(p)] # None
      <4>1. objects[Fresh(p)] \in Inodes
        BY <1>0, <2>1, <3>1 DEF TypeOK
      <4> QED
        BY <1>2, <3>1, <4>1 DEF Cut
    <3>2. CASE objects[Fresh(p)] = None
      BY <1>2, <3>2 DEF Cut, Free
    <3> QED
      BY <3>1, <3>2
  <2>3. CASE o = Fresh(p)
    BY <1>0, <2>1, <2>3 DEF Linkable
  <2>4. CASE o # Fresh(p)
    <3>1. objects[o] # None => objects[o] # i
      BY <2>1, <2>2, <2>4 DEF SInv, IInv, OneName, Free, Named
    <3> QED
      BY <1>0, <2>2, <2>4, <3>1 DEF Linkable, TypeOK
  <2> QED
    BY <2>3, <2>4
<1>3. ASSUME NEW p \in Procs, Write(p) PROVE Linkable(o)'
  <2>1. Fresh(p) # Empty
    BY <1>0, <1>3 DEF SInv, IInv, Outcomes, Positive, Write, At
  <2>2. UNCHANGED <<objects, log>> /\ bytes' = [bytes EXCEPT ![proc[p].fd] = Fresh(p)]
    BY <1>3 DEF Write
  <2> QED
    BY <1>0, <2>1, <2>2 DEF Linkable, TypeOK
<1>4. ASSUME NEW a \in Objs, Reap(a) PROVE Linkable(o)'
  BY <1>0, <1>4 DEF Reap, Linkable, TypeOK
<1>5. CASE UNCHANGED <<objects, bytes>>
  BY <1>0, <1>5 DEF Linkable
<1> QED
  BY ZenonT(40), <1>1, <1>2, <1>3, <1>4, <1>5
  DEF Next, Prune, Step, Kill, Evict, Bypass, Miss, Withhold, Serve, Asked, AuditStale,
      AuditAgrees, AuditDiffers, Compares, Transient, Unfail, LinkRead, Join, Return, Unobj,
      WriteFail, StoreFails, Discard, disk, vars

CallOK(p) == RepairOK(p) /\ LinksOK(p) /\ (Storing(p) => Fit(KeyOf(p)))

\* A call that a step moves, and that stores nothing unfit.
LEMMA CallOf ==
  ASSUME Harmless, NEW p \in Procs, NEW k \in Keys, proc'[p].key = k,
         proc'[p].pc \in {"cut", "write"} => Truth[k] \in log',
         proc'[p].why = "audit" => k \in log',
         proc'[p].pc \in {"unfail", "unobj", "discard", "return"} => proc'[p].why = "audit",
         proc'[p].pc = "join" => Linkable(Truth[k])',
         Storing(p)' => Fit(k) \/ k \in log'
  PROVE  CallOK(p)'
<1>1. KeyOf(p)' = k /\ Fresh(p)' = Truth[k]
  BY DEF KeyOf, Fresh
<1>2. k \in log' => Fit(k)'
  BY DEF Fit, Quiet, Reported
<1>3. RepairOK(p)'
  BY <1>1 DEF RepairOK
<1>4. LinksOK(p)'
  <2> SUFFICES ASSUME proc'[p].pc = "join" PROVE Linkable(Fresh(p))'
    BY DEF LinksOK, At
  <2>1. Linkable(Truth[k])'
    OBVIOUS
  <2> QED
    BY <1>1, <2>1 DEF Linkable
<1>5. Storing(p)' => Fit(k)'
  BY <1>2, FitStays
<1>6. Fit(k)' => Fit(KeyOf(p))'
  BY <1>1 DEF Fit, Quiet, Lookup, Reported
<1> QED
  BY <1>3, <1>4, <1>5, <1>6 DEF CallOK

\* The calls a step does not move.
LEMMA OthersOK ==
  ASSUME SInv, [Next]_vars, NEW q \in Procs, proc'[q] = proc[q], auditing'[q] = auditing[q]
  PROVE  CallOK(q)'
<1>1. Harmless
  BY StepHarmless
<1>2. PICK k \in Keys : k = KeyOf(q) /\ proc'[q].key = k /\ Fresh(q) = Truth[k]
  BY KeyFacts DEF SInv, IInv, Fresh
<1>3. Storing(q)' => Fit(k)
  BY <1>2 DEF SInv, Storing, At, Audits, KeyOf
<1>4. proc'[q].pc = "join" => Linkable(Truth[k])'
  <2> SUFFICES ASSUME proc'[q].pc = "join" PROVE Linkable(Truth[k])'
    OBVIOUS
  <2>1. Truth[k] \in Objs /\ Linkable(Truth[k])
    BY <1>2 DEF SInv, IInv, Outcomes, Positive, LinksOK, At
  <2> QED
    BY <2>1, LinksStay
<1> QED
  BY <1>1, <1>2, <1>3, <1>4, CallOf DEF SInv, RepairOK, Harmless

\* A call that goes on with the key it was asked for.
LEMMA GoesOn ==
  ASSUME SInv, [Next]_vars, NEW p \in Procs, proc'[p].key = proc[p].key,
         proc'[p].why \in {"put", proc[p].why} \/ KeyOf(p) \in log',
         proc'[p].pc # "compile",
         proc'[p].pc \in {"cut", "write"} => Fresh(p) \in log',
         proc'[p].pc \in {"unfail", "unobj", "discard", "return"} => proc'[p].why = "audit",
         proc'[p].pc = "join" => Fresh(p) \in log' \/ bytes'[objects'[Fresh(p)]] # Empty,
         proc'[p].pc \in {"link", "create", "cut", "write", "join", "fail"} =>
           Storing(p) \/ Lookup(KeyOf(p)) \in {None, Fresh(p)} \/ KeyOf(p) \in log'
  PROVE  CallOK(p)'
<1>1. Harmless
  BY StepHarmless
<1>2. PICK k \in Keys : k = KeyOf(p) /\ proc'[p].key = k /\ Fresh(p) = Truth[k]
  BY KeyFacts DEF SInv, IInv, Fresh
<1>3. Storing(p)' => Fit(k) \/ k \in log'
  BY <1>2, FitNow DEF SInv, Storing, At
<1>4. proc'[p].why = "audit" => k \in log'
  BY <1>1, <1>2 DEF SInv, RepairOK, Harmless
<1>5. proc'[p].pc = "join" => Linkable(Truth[k])'
  BY <1>2 DEF Linkable
<1> QED
  BY <1>1, <1>2, <1>3, <1>4, <1>5, CallOf

LEMMA AsksOK ==
  ASSUME SInv, [Next]_vars, NEW p \in Procs, NEW k \in Keys,
         Bypass(p, k) \/ Miss(p, k) \/ Withhold(p, k) \/ Serve(p, k)
  PROVE  CallOK(p)'
<1>0. TypeOK /\ Harmless
  BY StepHarmless DEF SInv, IInv
<1>1. PICK pc \in {"compile", "idle"}, answer \in {"none", "hit"} :
        Asked(p, k, pc, answer) /\ (pc = "idle" <=> Serve(p, k))
  <2>1. ~(Serve(p, k) /\ (Bypass(p, k) \/ Miss(p, k) \/ Withhold(p, k)))
    BY DEF Serve, Bypass, Miss, Withhold
  <2>2. CASE Serve(p, k)
    BY <2>2 DEF Serve
  <2>3. CASE Bypass(p, k) \/ Miss(p, k) \/ Withhold(p, k)
    BY <2>1, <2>3 DEF Bypass, Miss, Withhold
  <2> QED
    BY <2>2, <2>3
<1>2. proc'[p].why = "put" /\ proc'[p].key = k /\ proc'[p].pc = pc
  BY <1>0, <1>1, AskedHad
<1>3. Storing(p)' => Fit(k)
  <2> SUFFICES ASSUME Storing(p)' PROVE Fit(k)
    OBVIOUS
  <2>1. proc'[p].pc = "compile" /\ p \notin Verifiers /\ k \notin auditing'[p]
    BY <1>2 DEF Storing, At, Audits, KeyOf
  <2>2. ~Withhold(p, k)
    BY <1>0, <2>1 DEF Withhold, TypeOK
  <2>3. Lookup(k) = None
    BY <1>1, <1>2, <2>1, <2>2 DEF Bypass, Miss
  <2> QED
    BY <2>3, FitNow
<1> QED
  BY <1>0, <1>1, <1>2, <1>3, CallOf

LEMMA MovesOK ==
  ASSUME SInv, [Next]_vars, NEW p \in Procs, Step(p)
  PROVE  CallOK(p)'
<1>0. TypeOK /\ RepairOK(p) /\ LinksOK(p)
  BY DEF SInv, IInv
<1>1. CASE AuditStale(p)
  <2> DEFINE pc == IF Fresh(p) = Rej THEN "fail" ELSE "link"
  <2>1. Go(p, pc) /\ pc \in {"fail", "link"} /\ Lookup(KeyOf(p)) = None
    BY <1>1 DEF AuditStale
  <2> HIDE DEF pc
  <2> QED
    BY <1>0, <2>1, GoFields, WhyFacts, GoesOn
<1>2. CASE AuditAgrees(p)
  <2> DEFINE answer == IF Fresh(p) = Rej THEN "rejected" ELSE "stored"
  <2>1. AuditOver(p, answer) /\ Lookup(KeyOf(p)) = Fresh(p)
    BY <1>2 DEF AuditAgrees
  <2> HIDE DEF answer
  <2> QED
    BY <1>0, <2>1, OverFields, WhyFacts, GoesOn
<1>3. CASE AuditDiffers(p)
  <2>1. KeyOf(p) \in log'
    BY <1>3 DEF AuditDiffers
  <2>2. PICK pc \in {"unobj", "unfail", "link"} : proc' = Moved(p, pc, "audit", None)
    BY <1>3 DEF AuditDiffers
  <2> QED
    BY <1>0, <2>1, <2>2, MovedFields, WhyFacts, GoesOn
<1>4. CASE Transient(p)
  <2>1. PICK answer : Reply(p, answer)
    BY <1>4 DEF Transient
  <2> QED
    BY <1>0, <2>1, RepliedFields, WhyFacts, GoesOn
<1>5. CASE LinkRead(p)
  <2>1. PICK pc \in {"create", "join", "cut"} :
          /\ Go(p, pc)
          /\ pc = "join" => bytes'[objects'[Fresh(p)]] = Fresh(p)
          /\ pc = "cut" => Fresh(p) \in log'
    BY <1>5 DEF LinkRead, disk
  <2>2. Storing(p) /\ Fresh(p) # Empty
    BY <1>5, KeyFacts, DistinctAssumption
       DEF LinkRead, PutsNow, Storing, At, SInv, IInv, Outcomes, Positive
  <2> QED
    BY <1>0, <2>1, <2>2, GoFields, WhyFacts, GoesOn
<1>6. CASE Create(p)
  <2>1. Fresh(p) \in Objs /\ Fresh(p) # Empty /\ Storing(p) /\ Go(p, "join")
    BY <1>6, DistinctAssumption DEF Create, Storing, At, SInv, IInv, Outcomes, Positive
  <2>2. PICK i \in Inodes : /\ objects' = [objects EXCEPT ![Fresh(p)] = i]
                            /\ bytes' = [bytes EXCEPT ![i] = Fresh(p)]
    BY <1>6 DEF Create, Free
  <2>3. bytes'[objects'[Fresh(p)]] = Fresh(p)
    BY <1>0, <2>1, <2>2 DEF TypeOK
  <2> QED
    BY <1>0, <2>1, <2>3, GoFields, WhyFacts, GoesOn
<1>7. CASE Cut(p)
  <2>1. PICK i : proc' = Moved(p, "write", proc[p].why, i)
    BY <1>7 DEF Cut
  <2>2. Fresh(p) \in log' /\ Storing(p)
    BY <1>0, <1>7 DEF Cut, RepairOK, Storing, At
  <2> QED
    BY <1>0, <2>1, <2>2, MovedFields, WhyFacts, GoesOn
<1>8. CASE Write(p)
  <2>1. proc' = Moved(p, "join", proc[p].why, None)
    BY <1>8 DEF Write
  <2>2. Fresh(p) \in log' /\ Storing(p)
    BY <1>0, <1>8 DEF Write, RepairOK, Storing, At
  <2> QED
    BY <1>0, <2>1, <2>2, MovedFields, WhyFacts, GoesOn
<1>9. CASE Join(p)
  <2>1. Reply(p, "stored") \/ (Go(p, "return") /\ proc[p].why = "audit")
    BY <1>9 DEF Join
  <2> QED
    BY <1>0, <2>1, RepliedFields, GoFields, WhyFacts, GoesOn
<1>10. CASE Unfail(p) \/ Unobj(p)
  <2>1. PICK pc \in {"link", "fail"} : Go(p, pc)
    BY <1>10 DEF Unfail, Unobj
  <2>2. KeyOf(p) \in log'
    BY <1>0, <1>10 DEF Unfail, Unobj, RepairOK, At
  <2> QED
    BY <1>0, <2>1, <2>2, GoFields, WhyFacts, GoesOn
<1>11. CASE Return(p) \/ Discard(p)
  <2>1. PICK answer : AuditOver(p, answer)
    BY <1>11 DEF Return, Discard
  <2>2. KeyOf(p) \in log'
    BY <1>0, <1>11 DEF Return, Discard, RepairOK, At
  <2> QED
    BY <1>0, <2>1, <2>2, OverFields, WhyFacts, GoesOn
<1>12. CASE WriteFail(p)
  <2>1. AuditOver(p, "rejected") \/ Reply(p, "rejected")
    BY <1>12 DEF WriteFail
  <2>2. Storing(p)
    BY <1>12 DEF WriteFail, FailsNow, Storing, At
  <2> QED
    BY <1>0, <2>1, <2>2, OverFields, RepliedFields, WhyFacts, GoesOn
<1>13. CASE StoreFails(p)
  <2>1. \/ proc' = Moved(p, "discard", "audit", None) /\ proc[p].why = "audit"
        \/ \E answer : Reply(p, answer)
    BY <1>13 DEF StoreFails
  <2> QED
    BY <1>0, <2>1, MovedFields, RepliedFields, WhyFacts, GoesOn
<1> QED
  BY <1>1, <1>2, <1>3, <1>4, <1>5, <1>6, <1>7, <1>8, <1>9, <1>10, <1>11, <1>12, <1>13, AsksOK
  DEF Step

LEMMA SilentStep == SInv /\ [Next]_vars => SInv'
<1> SUFFICES ASSUME SInv, [Next]_vars PROVE SInv'
  OBVIOUS
<1>0. TypeOK /\ IInv' /\ Harmless
  BY StepInv, KillInv, EvictInv, ReapInv, StutterInv, StepHarmless DEF SInv, IInv, Next, Prune
<1>1. \A p \in Procs : CallOK(p)'
  <2>1. ASSUME NEW p \in Procs, Step(p), NEW q \in Procs PROVE CallOK(q)'
    <3>1. CASE q = p
      BY <2>1, <3>1, MovesOK
    <3>2. CASE q # p
      BY <1>0, <2>1, <3>2, MovesOne, OwnAudits, OthersOK
    <3> QED
      BY <3>1, <3>2
  <2>2. ASSUME NEW p \in Procs, Kill(p), NEW q \in Procs PROVE CallOK(q)'
    <3>1. CASE q # p
      <4>1. proc'[q] = proc[q] /\ auditing'[q] = auditing[q]
        BY <1>0, <2>2, <3>1 DEF Kill, TypeOK
      <4> QED
        BY <4>1, OthersOK
    <3>2. CASE q = p
      <4> DEFINE r == [Starting EXCEPT !.pc = "dead"]
      <4>1. r.pc = "dead" /\ r.why = "put"
        BY DEF Starting
      <4>2. proc' = [proc EXCEPT ![p] = r]
        BY <2>2 DEF Kill
      <4> HIDE DEF r
      <4>3. proc'[q].pc = "dead" /\ proc'[q].why = "put"
        BY <1>0, <3>2, <4>1, <4>2 DEF TypeOK
      <4> QED
        BY <4>3 DEF CallOK, RepairOK, LinksOK, Storing, At
    <3> QED
      BY <3>1, <3>2
  <2>3. ASSUME UNCHANGED <<mine, proc>>, NEW q \in Procs PROVE CallOK(q)'
    BY <2>3, OthersOK DEF mine
  <2>4. Prune \/ UNCHANGED vars => UNCHANGED <<mine, proc>>
    BY DEF Prune, Evict, Reap, vars
  <2> QED
    BY <2>1, <2>2, <2>3, <2>4 DEF Next
<1>2. ASSUME NEW k \in Keys, k \in fails', keyO'[k] # None PROVE Fit(k)'
  <2>1. CASE k \in fails /\ keyO[k] # None
    BY <1>0, <2>1, FitStays DEF SInv
  <2>2. CASE k \notin fails
    <3>1. PICK p \in Procs : WriteFail(p) /\ k = KeyOf(p)
      BY ZenonT(40), <1>2, <2>2 DEF Next, Prune, Evict, Reap, Step, Kill, Bypass, Miss, Withhold, Serve,
         Asked, AuditStale, AuditAgrees, AuditDiffers, Compares, Transient, Unfail, LinkRead,
         Create, Cut, Write, Join, Return, Unobj, WriteFail, StoreFails, Discard, disk, vars
    <3>2. Fit(k)
      BY <3>1 DEF SInv, WriteFail, FailsNow, Storing, At
    <3> QED
      BY <1>0, <3>2, FitStays
  <2>3. CASE keyO[k] = None
    <3>1. PICK p \in Procs : Join(p) /\ k = KeyOf(p)
      <4>1. ASSUME NEW p \in Procs, Unobj(p) \/ Discard(p) PROVE keyO'[k] = None
        <5>1. \/ keyO' = keyO
              \/ keyO' = [keyO EXCEPT ![KeyOf(p)] = None]
          BY <4>1 DEF Unobj, Discard
        <5> QED
          BY <1>0, <2>3, <5>1 DEF TypeOK
      <4>2. ASSUME NEW l \in Keys, Evict(l) PROVE keyO'[k] = None
        BY <1>0, <2>3, <4>2 DEF Evict, TypeOK
      <4>3. ASSUME NEW p \in Procs, Join(p) PROVE k = KeyOf(p)
        BY <1>0, <1>2, <2>3, <4>3 DEF Join, TypeOK
      <4> QED
        BY <1>2, <2>3, <4>1, <4>2, <4>3
        DEF Next, Prune, Reap, Step, Kill, Bypass, Miss, Withhold, Serve,
            Asked, AuditStale, AuditAgrees, AuditDiffers, Compares, Transient, Unfail, LinkRead,
            Create, Cut, Write, Return, WriteFail, StoreFails, disk, vars
    <3>2. Fit(k)
      BY <3>1 DEF SInv, Join, Storing, At
    <3> QED
      BY <1>0, <3>2, FitStays
  <2> QED
    BY <2>1, <2>2, <2>3
<1> QED
  BY <1>0, <1>1, <1>2 DEF SInv, CallOK

-----------------------------------------------------------------------------
(* A store with one answer for each key: of one it has both for, the prune *)
(* may take the object and let the rejection through unreported.           *)
OneAnswer == \A s \in Stores : \A k \in s.fails : s.keyO[k] = None

\* A step that puts an answer right does it for a key, or with an object, that was reported.
LEMMA RepairsReported ==
  ASSUME SInv, [Next]_vars, NEW k \in Keys,
         Lookup(k) \notin {None, Truth[k]}, Lookup(k)' = Truth[k]
  PROVE  {k, Truth[k], Lookup(k)} \cap log' # {}
<1>1. log \subseteq log' /\ Effect(k)
  BY StepHarmless DEF Harmless
<1>2. Truth[k] # None
  BY TruthAssumption, DistinctAssumption DEF Bytes
<1>3. CASE {k, Truth[k]} \cap log' # {} \/ Lookup(k)' \in log'
  BY <1>3
<1>4. CASE Quiet(k)
  BY <1>1, <1>4 DEF Quiet, Reported
<1> QED
  BY <1>1, <1>2, <1>3, <1>4 DEF Effect

\* Whatever wrong answers the store starts with, whoever repairs, fails or is
\* killed, none is put right without a line in MISMATCHES.log that names it.
THEOREM RepairsAreReported ==
  ASSUME OneAnswer
  PROVE  Spec => NoSilentRepair
<1> DEFINE Spoken == \A k \in Keys : Lookup(k) \notin {None, Truth[k]} /\ Lookup(k)' = Truth[k]
              => {k, Truth[k], Lookup(k)} \cap log' # {}
<1>1. Init => SInv
  <2> SUFFICES ASSUME Init PROVE SInv
    OBVIOUS
  <2>1. ASSUME NEW p \in Procs PROVE RepairOK(p) /\ LinksOK(p) /\ ~Storing(p)
    <3>1. proc[p].pc = "idle" /\ proc[p].why = "put"
      BY DEF Init, Starting
    <3> QED
      BY <3>1 DEF RepairOK, LinksOK, Storing, At
  <2>2. \A k \in fails : keyO[k] = None
    BY DEF Init, OneAnswer
  <2> QED
    BY <2>1, <2>2, InitInv DEF SInv
<1>2. SInv /\ [Next]_vars => SInv'
  BY SilentStep
<1>3. SInv /\ [Next]_vars => [Spoken]_vars
  BY RepairsReported
<1> QED
  BY <1>1, <1>2, <1>3, PTL DEF Spec, NoSilentRepair

=============================================================================
