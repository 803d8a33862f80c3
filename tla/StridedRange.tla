----------------------------- MODULE StridedRange -----------------------------
(***************************************************************************)
(* Which words may a value be?  (packages/core/src/ir/bits.ts,             *)
(* stridedRange.)  The question is asked of a loop counter k and of a      *)
(* value read from k in a block below a test of k, and the loop is run     *)
(* beside the answer, on a machine of WORD words.                          *)
(*                                                                         *)
(* A loop is one block param with an entry and back edges.  Each back edge *)
(* passes an expression of k and is taken under a test of k, a test of the *)
(* value it passes, or both; the other side of a test, and a divisor, is   *)
(* any value of a known range.  An expression is mul * k + add or one      *)
(* operation of that.  Undefined is None; NEVER, the answer of an edge no  *)
(* word can take, is Never.                                                *)
(***************************************************************************)
EXTENDS Integers, FiniteSets, FiniteSetsExt

CONSTANTS WORD,        \* how many words the machine has: 2^32 in the code
          Families,    \* sets of programs [start, edges, use, guard]
          None, Never

\* The powers of two up to WORD: the words of one bit, and WORD itself.
Powers == {b \in 1..WORD : \A d \in 2..b : b % d = 0 => d % 2 = 0}

\* A strided range: lo, lo + stride, ..., hi.
Ranges == {r \in [lo : Int, hi : Int, stride : Nat] :
             /\ r.lo <= r.hi
             /\ IF r.stride = 0 THEN r.lo = r.hi ELSE r.lo < r.hi /\ (r.hi - r.lo) % r.stride = 0}

\* A bound that a branch puts on a value, in the unsigned or the signed window.
EdgeBound == [r : Ranges, window : {"u", "s"}]

\* mul * k + add, or one operation of that; the argument of zext is 2^width, of sext
\* 2^(width - 1), of shr_u, whose amount is an attribute, 2^amount.
Expression == {e \in [mul : Int, add : Int, arg : Ranges,
                      op : {"id", "zext", "sext", "and", "shr_u", "umod", "smod"}] :
                 /\ e.op \in {"zext", "shr_u"} => e.arg.lo \in Powers \ {1, WORD}
                 /\ e.op = "sext" => 2 * e.arg.lo \in Powers \ {WORD}}
Condition  == [op : {"eq", "ne", "ult", "ule", "ugt", "uge", "slt", "sle", "sgt", "sge"}, rhs : Ranges]
\* An edge that passes k itself has one test, of k.
BackEdge   == {e \in [arg : Expression, onK : Condition \cup {None}, onNext : Condition \cup {None}] :
                 e.arg.op = "id" /\ e.arg.mul = 1 /\ e.arg.add = 0 => e.onNext = None}
Program    == [start : Ranges, edges : SUBSET BackEdge, use : Expression, guard : Condition \cup {None}]

ASSUME WordAssumption == WORD \in Nat /\ WORD > 1 /\ WORD \in Powers

ASSUME DistinctAssumption == None # Never /\ {None, Never} \cap Ranges = {} /\ None \notin EdgeBound

ASSUME ProgramsAssumption ==
  \A programs \in Families : \A p \in programs : p \in Program /\ IsFiniteSet(p.edges)

VARIABLES
  loop,     \* the program
  hyp,      \* the induction hypothesis under test: k is in this range
  round,    \* how often it was tested
  proven,   \* whether the induction is over, and the range it proved, or None
  answer,   \* what stridedRange says of k and of the value read, in both windows
  k,        \* the word k holds, once the program runs
  use       \* the word last read

vars == <<loop, hyp, round, proven, answer, k, use>>

INDUCTION_ROUNDS == 4
S_MIN == -(WORD \div 2)
S_MAX == WORD \div 2 - 1

Strided(lo, hi, stride) == [lo |-> lo, hi |-> hi, stride |-> stride]
Span(lo, hi) == Strided(lo, hi, IF lo = hi THEN 0 ELSE 1)
Point(x)     == Span(x, x)
Width(r)     == r.hi - r.lo
Shifted(r, by) == Strided(r.lo + by, r.hi + by, r.stride)
Points(r)    == {x \in r.lo..r.hi : IF r.stride = 0 THEN x = r.lo ELSE (x - r.lo) % r.stride = 0}

mod(w) == w % WORD
ToSigned(w) == IF mod(w) > S_MAX THEN mod(w) - WORD ELSE mod(w)
Ceil(a, b) == -((-a) \div b)
Abs(a) == IF a < 0 THEN -a ELSE a
gcdOf(S) == IF S \subseteq {0} THEN 0
            ELSE LET top == Max({Abs(x) : x \in S})
                 IN  Max({d \in 1..top : \A x \in S : x % d = 0})

-----------------------------------------------------------------------------
(* Ranges of integers.                                                     *)

intoWord(r) == LET base == (r.lo \div WORD) * WORD
               IN  IF r.hi - base >= WORD THEN None ELSE Shifted(r, -base)

\* As signed words, w being its words.
signedOf(w) == IF w = None \/ w.hi <= S_MAX THEN w
               ELSE IF w.lo > S_MAX THEN Shifted(w, -WORD) ELSE None
intoSigned(r) == IF r.lo >= S_MIN /\ r.hi <= S_MAX THEN r ELSE signedOf(intoWord(r))

hullOf(S) ==
  IF S = {} THEN None
  ELSE LET lo == Min({r.lo : r \in S})
       IN  Strided(lo, Max({r.hi : r \in S}), gcdOf({r.stride : r \in S} \cup {r.lo - lo : r \in S}))

narrower(r, s) == IF s = None \/ (r # None /\ Width(r) <= Width(s)) THEN r ELSE s

\* What x <op> y proves of x, y being somewhere in other: a range of one window.
Bound(lo, hi, window) == IF lo > hi THEN None ELSE [r |-> Span(lo, hi), window |-> window]
wordBound(op, w) ==
  CASE w = None -> None
    [] op = "eq"  /\ w # None -> [r |-> w, window |-> "u"]
    [] op = "ult" /\ w # None -> Bound(0, w.hi - 1, "u")
    [] op = "ule" /\ w # None -> Bound(0, w.hi, "u")
    [] op = "ugt" /\ w # None -> Bound(w.lo + 1, WORD - 1, "u")
    [] op = "uge" /\ w # None -> Bound(w.lo, WORD - 1, "u")
signedBound(op, s) ==
  CASE s = None -> None
    [] op = "slt" /\ s # None -> Bound(S_MIN, s.hi - 1, "s")
    [] op = "sle" /\ s # None -> Bound(S_MIN, s.hi, "s")
    [] op = "sgt" /\ s # None -> Bound(s.lo + 1, S_MAX, "s")
    [] op = "sge" /\ s # None -> Bound(s.lo, S_MAX, "s")
testBound(op, other) ==
  CASE op \in {"eq", "ult", "ule", "ugt", "uge"} -> wordBound(op, intoWord(other))
    [] op \in {"slt", "sle", "sgt", "sge"}       -> signedBound(op, intoSigned(other))
    [] op = "ne" -> None

\* A range inside a window met with a bound of that window.
meetIn(m, b) ==
  LET lo == Max({m.lo, b.lo})
      hi == Min({m.hi, b.hi})
      first == m.lo + Ceil(lo - m.lo, m.stride) * m.stride
      last  == m.lo + ((hi - m.lo) \div m.stride) * m.stride
  IN  IF m.stride = 0 THEN IF lo <= hi THEN m ELSE Never
      ELSE IF first > last THEN Never
      ELSE Strided(first, last, IF first = last THEN 0 ELSE m.stride)

\* The points below cut and those from it, each moved into the window that begins
\* at floor; a side with no point is left out.
splitAt(r, cut, floor) ==
  LET firstUp == r.lo + Ceil(cut - r.lo, r.stride) * r.stride
      piece(lo, hi, from) ==
        IF lo > hi THEN {}
        ELSE {Shifted(Strided(lo, hi, IF lo = hi THEN 0 ELSE r.stride), floor - from)}
  IN  piece(r.lo, Min({firstUp - r.stride, r.hi}), cut - WORD)
        \cup piece(Max({firstUp, r.lo}), r.hi, cut)

\* Faulty: a meet that takes the bound's window for the range's own.
meetAsIs(r, b) == IF r = None THEN b.r ELSE meetIn(r, b.r)

\* A range that a branch also bounds: the two met in the branch's window.
\* m is r in the window, met the pieces of r that the bound leaves, where r crosses its edge.
meetOf(r, b, m, met) ==
  IF m # None THEN meetIn(m, b.r)
  ELSE IF Width(r) >= WORD \/ r.stride = 0 THEN b.r
  ELSE IF met = {} THEN Never
  ELSE narrower(hullOf(met), r)
pieces(r, b, floor) ==
  {meetIn(p, b.r) : p \in splitAt(r, floor + ((r.lo - floor) \div WORD) * WORD + WORD, floor)} \ {Never}
meetBound(r, b) ==
  IF r = None THEN b.r
  ELSE IF b.window = "u" THEN meetOf(r, b, intoWord(r), pieces(r, b, 0))
  ELSE meetOf(r, b, intoSigned(r), pieces(r, b, S_MIN))

-----------------------------------------------------------------------------
(* Ranges of expressions: mul * k + add, or one operation of that.         *)

Known(r) == r \notin {None, Never}

\* formRange of one term: a product and a sum move both ends and the stride.
formRange(e, r) ==
  IF e.mul = 0 THEN Point(e.add)
  ELSE IF ~Known(r) THEN r
  ELSE Strided(e.add + e.mul * (IF e.mul > 0 THEN r.lo ELSE r.hi),
               e.add + e.mul * (IF e.mul > 0 THEN r.hi ELSE r.lo), Abs(e.mul) * r.stride)

\* provableBits: what the width of a zext (the bound termRange hands it), the top bit of a
\* mask that is not negative, or the amount of a shift that fills with zeros leaves: the
\* operand, an integer form of k, may have every bit.
widthOf(e) ==
  CASE e.op = "zext"  -> Span(0, e.arg.lo - 1)
    [] e.op = "shr_u" -> Span(0, (WORD - 1) \div e.arg.lo)
    [] e.op = "and" /\ mod(e.arg.lo) <= S_MAX ->
         Span(0, Min({x \in Powers : x > mod(e.arg.lo)}) - 1)
    [] OTHER -> None

\* Faulty: a shift that divides a stride it cannot divide.
shiftAnyStride(e, w) ==
  IF e.op # "shr_u" \/ w = None THEN None
  ELSE Strided(w.lo \div e.arg.lo, w.hi \div e.arg.lo, w.stride \div e.arg.lo)

\* A zext or a mask of 2^n - 1 keeps every word that fits it; w is the operand's words.
shiftMaskRange(e, w) ==
  LET m == mod(e.arg.lo)
      by == e.arg.lo
      hi == IF w = None THEN m ELSE Min({m, w.hi})
  IN  CASE e.op = "zext" -> IF w # None /\ w.hi < e.arg.lo THEN w ELSE None
        [] e.op = "and" -> IF w # None /\ w.hi <= m /\ m + 1 \in Powers THEN w
                           ELSE Span(0, hi)
        [] e.op = "shr_u" ->
             IF w = None THEN None
             ELSE LET lo == w.lo \div by  top == w.hi \div by
                  IN  Strided(lo, top, IF lo = top THEN 0
                                     ELSE IF w.stride % by = 0 THEN w.stride \div by ELSE 1)

\* The divisor bounds a remainder whatever the dividend holds, and the dividend narrows that.
umodRange(x, y) ==
  IF y = None \/ y.lo < 1 THEN None
  ELSE IF x = None THEN Span(0, y.hi - 1)
  ELSE IF x.hi < y.lo THEN x
  ELSE Span(0, Min({y.hi - 1, x.hi}))
\* least and most are the sizes a divisor of one sign may have.
smodOf(x, least, most) ==
  IF x = None THEN Span(1 - most, most - 1)
  ELSE IF -x.lo < least /\ x.hi < least THEN x
  ELSE Span(IF x.lo < 0 THEN Max({1 - most, x.lo}) ELSE 0, IF x.hi > 0 THEN Min({most - 1, x.hi}) ELSE 0)
smodRange(x, y) ==
  IF y = None \/ (y.lo <= 0 /\ y.hi >= 0) THEN None
  ELSE IF y.lo > 0 THEN smodOf(x, y.lo, y.hi) ELSE smodOf(x, -y.hi, -y.lo)
remainderRange(e, x) ==
  IF e.op = "umod" THEN umodRange(IF Known(x) THEN intoWord(x) ELSE None, intoWord(e.arg))
  ELSE smodRange(IF Known(x) THEN intoSigned(x) ELSE None, intoSigned(e.arg))

\* termRange of an operation: the narrower of what it leaves of its operand x and its width.
operationRange(e, x) ==
  CASE e.op = "id"   -> x
    [] e.op = "sext" -> Strided(-e.arg.lo, e.arg.lo - 1, 1)
    [] e.op \in {"smod", "umod"} -> remainderRange(e, x)
    [] OTHER -> narrower(shiftMaskRange(e, IF Known(x) THEN intoWord(x) ELSE None), widthOf(e))
termRange(e, r) == operationRange(e, formRange(e, r))

\* A term read under the bound its test puts on it.
under(r, b) == IF b = None \/ r = Never THEN r ELSE meetBound(r, b)

\* The bound a test puts on the value it tests; no test puts none.
factOf(t) == IF t = None THEN None ELSE testBound(t.op, t.rhs)
\* A constant takes no bound.
Constant(e) == e.mul = 0 /\ e.op = "id"
edgeRange(e, r) == under(termRange(e.arg, under(r, factOf(e.onK))),
                         IF Constant(e.arg) THEN None ELSE factOf(e.onNext))

-----------------------------------------------------------------------------
(* The counter: the union of what its in-edges pass, or a range that every *)
(* one of them keeps it in.                                                *)

\* What each in-edge passes while the counter is in r; r is None while it is unknown.
passed(p, r) == {p.start} \cup {edgeRange(e, r) : e \in p.edges}
\* An edge that reads the counter: to bound what it passes (a sext is bounded whatever it
\* reads), or to bound the other side of a test of it, which a constant does not need.
IsConstant(rhs) == rhs.stride = 0
readsItself(e) ==
  \/ e.arg.mul # 0 /\ e.arg.op # "sext"
  \/ e.onK # None /\ ~IsConstant(e.onK.rhs)
seeds(p) == {p.start} \cup {edgeRange(e, None) : e \in {d \in p.edges : ~readsItself(d)}}

\* The sides of a bound that are not its window's edge.
boundSides(b) ==
  IF b = None THEN {}
  ELSE {Point(x) : x \in {b.r.lo, b.r.hi}
          \ (IF b.window = "u" THEN {0, WORD - 1} ELSE {S_MIN, S_MAX})}
\* Faulty: only bounds on the counter itself.
namedOnK(p, r) ==
  UNION {boundSides(factOf(e.onK)) : e \in {d \in p.edges : edgeRange(d, r) # Never}}

\* Those on the counter, or on a value computed from it, of an edge that may be taken.
named(p, r) ==
  UNION {boundSides(factOf(e.onK)) \cup
         (IF e.arg.mul = 0 THEN {} ELSE boundSides(factOf(e.onNext)))
           : e \in {d \in p.edges : edgeRange(d, r) # Never}}

moved(r) == IF intoWord(r) = None THEN r ELSE intoWord(r)

\* The counter's range: each in-edge as it is or moved into one word first, or what was proven.
unionOf(direct, wordFirst) ==
  IF None \in direct THEN None
  ELSE hullOf({IF wordFirst THEN moved(r) ELSE r : r \in direct \ {Never}})
counterRange(p, known, wordFirst) ==
  narrower(unionOf(passed(p, None), wordFirst), IF known = None \/ ~wordFirst THEN known ELSE moved(known))

-----------------------------------------------------------------------------
(* The question.                                                           *)

\* r is the reading as integers, m the one that moves each join first; mayAlwaysHold asks
\* for either as it is, a caller for words or for the narrowest window.
chosen(s, w) == IF s # None /\ (w = None \/ Width(s) < Width(w)) THEN s ELSE w
wordOf(r)    == IF Known(r) THEN intoWord(r) ELSE None
narrowOf(r)  == IF Known(r) THEN intoSigned(r) ELSE None
otherwise(r, m) == IF r = None THEN m ELSE r
inWindow(r, m, window) ==
  CASE window = "integers"   -> IF Known(r) THEN r ELSE None
    [] window = "wordFirst"  -> IF Known(m) THEN m ELSE None
    [] window = "word"       -> IF Known(r) THEN otherwise(wordOf(r), wordOf(m)) ELSE None
    [] window = "narrowest"  ->
         IF ~Known(r) THEN None
         ELSE chosen(otherwise(narrowOf(r), narrowOf(m)), otherwise(wordOf(r), wordOf(m)))

\* Faulty: the test above the block is taken for one of the value asked for.
stridedBelow(p, known, e, guard, window) ==
  LET read(wordFirst) == under(termRange(e, counterRange(p, known, wordFirst)), factOf(guard))
  IN  inWindow(read(FALSE), read(TRUE), window)

Windows == {"integers", "wordFirst", "word", "narrowest"}
stridedRange(p, known, e, guard, window) ==
  LET read(wordFirst) == termRange(e, under(counterRange(p, known, wordFirst), factOf(guard)))
  IN  inWindow(read(FALSE), read(TRUE), window)

\* Whether a range may hold the word w; it gives up past 64 multiples of WORD.
rangeMayBe(r, w) ==
  LET x(n) == r.lo + mod(w - r.lo) + n * WORD
  IN  \E n \in 0..65 : /\ x(n) <= r.hi
                        /\ \/ n > 64
                           \/ IF r.stride = 0 THEN x(n) = r.lo ELSE (x(n) - r.lo) % r.stride = 0

-----------------------------------------------------------------------------
(* The machine.                                                            *)

Compare(op, x, y) ==
  CASE op = "eq"  -> x = y
    [] op = "ne"  -> x # y
    [] op = "ult" -> x < y
    [] op = "ule" -> x <= y
    [] op = "ugt" -> x > y
    [] op = "uge" -> x >= y
    [] op = "slt" -> ToSigned(x) < ToSigned(y)
    [] op = "sle" -> ToSigned(x) <= ToSigned(y)
    [] op = "sgt" -> ToSigned(x) > ToSigned(y)
    [] op = "sge" -> ToSigned(x) >= ToSigned(y)

\* The remainder of a division that rounds towards zero; of one by zero, any word.
SRem(x, y) == IF x < 0 THEN -((-x) % Abs(y)) ELSE x % Abs(y)
HasBit(x, b) == (x \div b) % 2 = 1
BitAnd(x, y) == CHOOSE z \in 0..WORD - 1 :
                  \A b \in Powers \ {WORD} : HasBit(z, b) <=> HasBit(x, b) /\ HasBit(y, b)

\* The words an expression may leave of the word w.
Values(e, w) ==
  LET x == mod(e.mul * w + e.add)
      c == e.arg.lo
  IN  CASE e.op = "id"    -> {x}
        [] e.op = "zext"  -> {x % c}
        [] e.op = "sext"  -> {mod(((x + c) % (2 * c)) - c)}
        [] e.op = "and"   -> {BitAnd(x, mod(c))}
        [] e.op = "shr_u" -> {x \div c}
        [] e.op = "umod"  -> UNION {IF mod(y) = 0 THEN 0..WORD - 1 ELSE {x % mod(y)} : y \in Points(e.arg)}
        [] e.op = "smod"  -> UNION {IF mod(y) = 0 THEN 0..WORD - 1
                                    ELSE {mod(SRem(ToSigned(x), ToSigned(y)))} : y \in Points(e.arg)}

Id == [mul |-> 1, add |-> 0, op |-> "id", arg |-> Point(0)]
Passes(t, w) == IF t = None THEN TRUE ELSE \E y \in Points(t.rhs) : Compare(t.op, mod(w), mod(y))

Init ==
  /\ \E programs \in Families : loop \in programs
  /\ hyp = hullOf(seeds(loop) \ {None, Never})
  /\ round = IF \E e \in loop.edges : readsItself(e) THEN 0 ELSE INDUCTION_ROUNDS
  /\ proven = [done |-> FALSE, r |-> None]
  /\ answer = None /\ k = None /\ use = None

\* One round of inductive: got is what the in-edges pass while k is in the hypothesis.
grown(got) == hullOf({hyp} \cup (got \ {Never}))
GrowTo(got, next) ==
  /\ None \notin got /\ next # hyp
  /\ hyp' = IF round = 0 THEN hullOf({next} \cup named(loop, hyp)) ELSE next
Grow ==
  /\ round < INDUCTION_ROUNDS
  /\ LET got == passed(loop, hyp) IN GrowTo(got, grown(got))
  /\ round' = round + 1
  /\ UNCHANGED <<loop, proven, answer, k, use>>

\* The hypothesis kept every in-edge inside it, or it proves nothing.
Concluded(got) ==
  LET fails == round = INDUCTION_ROUNDS \/ None \in got
  IN  /\ ~fails => grown(got) = hyp
      /\ proven' = [done |-> TRUE, r |-> IF fails THEN None ELSE hyp]
Conclude ==
  /\ ~proven.done /\ Concluded(passed(loop, hyp))
  /\ UNCHANGED <<loop, hyp, round, answer, k, use>>

Answer ==
  /\ proven.done /\ answer = None
  /\ answer' = [of \in {"counter", "use"} |-> [window \in Windows |->
                 IF of = "counter" THEN stridedRange(loop, proven.r, Id, None, window)
                 ELSE stridedRange(loop, proven.r, loop.use, loop.guard, window)]]
  /\ UNCHANGED <<loop, hyp, round, proven, k, use>>

\* The program runs, beside the answer: it enters the loop,
Enter ==
  /\ answer # None /\ k = None
  /\ \E x \in Points(loop.start) : k' = mod(x)
  /\ UNCHANGED <<loop, hyp, round, proven, answer, use>>

\* takes a back edge,
Iterate(e) ==
  /\ k # None /\ Passes(e.onK, k)
  /\ k' \in {w \in Values(e.arg, k) : Passes(e.onNext, w)}
  /\ use' = None /\ UNCHANGED <<loop, hyp, round, proven, answer>>

\* or reads the value in a block below the guard.
Read ==
  /\ k # None /\ use = None /\ Passes(loop.guard, k)
  /\ use' \in Values(loop.use, k)
  /\ UNCHANGED <<loop, hyp, round, proven, answer, k>>

Next == Grow \/ Conclude \/ Answer \/ Enter \/ Read \/ \E e \in loop.edges : Iterate(e)
Spec == Init /\ [][Next]_vars

-----------------------------------------------------------------------------
TypeOK ==
  /\ (\E programs \in Families : loop \in programs) /\ round \in 0..INDUCTION_ROUNDS
  /\ {k, use} \subseteq 0..WORD - 1 \cup {None} /\ (k # None => answer # None)
  /\ answer # None => \A of \in {"counter", "use"}, window \in {"word", "narrowest"} :
       LET r == answer[of][window]
       IN  r # None => /\ (IF window = "word" THEN 0 ELSE S_MIN) <= r.lo /\ r.lo <= r.hi /\ r.hi < WORD
                       /\ (r.stride = 0) <=> (r.lo = r.hi)
                       /\ r.stride # 0 => Width(r) % r.stride = 0

\* Whether what was answered may be the word w; mayAlwaysHold asks rangeMayBe.
Covers(of, w) ==
  \A window \in Windows :
    LET r == answer[of][window]
    IN  r = None \/ IF window \in {"integers", "wordFirst"} THEN rangeMayBe(r, w)
                    ELSE \E x \in Points(r) : mod(x) = w

(***************************************************************************)
(* bits.ts:837-838, 265-270.  "an answer must hold every word the machine  *)
(* can compute there": no run of the loop, however often it goes round and *)
(* wherever it wraps, takes the counter out of its answer.                 *)
(***************************************************************************)
CounterCovered == k # None => Covers("counter", k)

(***************************************************************************)
(* bits.ts:838-840, 844-861.  Nor does a value read from the counter leave *)
(* the answer that was asked for it at its block, under the tests above.   *)
(***************************************************************************)
UseCovered == use # None => Covers("use", use)

(***************************************************************************)
(* bits.ts:1129-1138.  "A signed latch bounds its counter on one side      *)
(* only, and only the counter's start bounds the other": an up-counter     *)
(* from a word that is not negative, under a latch that tests the value it *)
(* passes, is bounded by its start and by the latch where its step cannot  *)
(* take it past the signed words from either.                              *)
(***************************************************************************)
UpCounter(p, b) ==
  /\ p.start.lo \in 0..S_MAX
  /\ \E c \in 1..WORD, t \in {e.onNext : e \in p.edges} :
       /\ p.edges = {[arg |-> [Id EXCEPT !.add = c], onK |-> None, onNext |-> t]}
       /\ b + c <= S_MAX /\ p.start.hi + c <= S_MAX
       /\ t # None /\ t.rhs.lo \in 0..S_MAX
       /\ \/ t.op \in {"slt", "ult"} /\ t.rhs.hi = b + 1
          \/ t.op \in {"sle", "ule"} /\ t.rhs.hi = b
LatchBounds ==
  answer # None => \A b \in 0..S_MAX : UpCounter(loop, b) =>
    LET r == answer["counter"]["word"]
    IN  r # None /\ r.lo = loop.start.lo /\ r.hi <= Max({b, loop.start.hi})
=============================================================================
