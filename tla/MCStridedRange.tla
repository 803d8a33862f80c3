---------------------------- MODULE MCStridedRange ----------------------------
(* Loops for TLC: a machine of 16 words.                                   *)
EXTENDS StridedRange

Consts == {Point(x) : x \in {-8, -7, -1, 0, 1, 5, 6, 7, 8, 15}}
Narrow == {Strided(0, 3, 1), Strided(-2, 1, 1), Strided(1, 7, 2), Strided(12, 15, 1), Strided(5, 10, 5)}
Starts == {Point(x) : x \in {-7, 0, 5, 15}} \cup {Strided(0, 3, 1), Strided(1, 7, 2), Strided(5, 10, 5)}
Ops    == {"eq", "ne", "ult", "ule", "ugt", "uge", "slt", "sle", "sgt", "sge"}
Test(op, rhs) == [op |-> op, rhs |-> rhs]
Tests  == {Test(op, rhs) : op \in Ops, rhs \in Consts \cup Narrow}

Expr(mul, add, op, arg) == [mul |-> mul, add |-> add, op |-> op, arg |-> arg]
Linear(mul, add) == Expr(mul, add, "id", Point(0))
Edge(arg, onK, onNext) == [arg |-> arg, onK |-> onK, onNext |-> onNext]
Loop(start, edges, e, guard) == [start |-> start, edges |-> edges, use |-> e, guard |-> guard]

Up   == Linear(1, 1)
K    == Linear(1, 0)
By   == {Linear(1, 1), Linear(1, 2), Linear(1, -1), Linear(1, -3), Linear(2, 0), Linear(-1, 1)}
Some == {Test(op, Point(x)) : op \in {"eq", "ne", "ult", "uge", "sle", "sgt"}, x \in {-7, 0, 6}}

\* One back edge, under a test of the counter or of what it passes.
Latched == {Loop(s, {Edge(e, None, t)}, K, None) : s \in Starts, e \in By, t \in Tests}
Tested  == {Loop(s, {Edge(e, t, None)}, K, None) : s \in Starts, e \in By, t \in Some}

\* One back edge that passes an operation of the counter.
Operations ==
  {Expr(1, a, "and", Point(m)) : a \in {0, 1, -1}, m \in {7, 6, 3, -2, 0}}
    \cup {Expr(1, a, op, Point(2)) : a \in {0, 1, 3}, op \in {"shr_u", "sext"}}
    \cup {Expr(mul, a, "shr_u", Point(4)) : mul \in {1, -1, 3}, a \in {0, 3}}
    \cup {Expr(1, a, "zext", Point(b)) : a \in {0, 1, -1}, b \in {2, 8}}
    \cup {Expr(1, a, op, y) : a \in {1, -1}, op \in {"smod", "umod"},
                              y \in {Point(3), Point(-3), Point(-8), Point(8), Strided(2, 5, 1), Strided(-1, 2, 1)}}
Wrapped == {Loop(s, {Edge(e, None, t)}, K, None) :
              s \in {Point(0), Point(-3), Point(7), Strided(0, 3, 1), Strided(-2, 1, 1)}, e \in Operations, t \in Some \cup {None}}

\* Two back edges: a join of two updates, or an update and a reset.
Joined == {Loop(s, {Edge(e, None, t), Edge(f, None, u)}, K, None) :
             s \in {Point(0), Point(-2), Point(5)}, e \in {Linear(1, 2), Linear(1, -1), Linear(0, 3)},
             f \in {Up, Linear(2, 0)}, t \in Some, u \in Some}

\* An edge whose test of the counter is against no constant: an update, or a reset beside one.
Against == {Test(op, rhs) : op \in {"ne", "ult", "sgt"}, rhs \in {Strided(0, 3, 1), Strided(-2, 1, 1), Strided(5, 10, 5)}}
Unnamed == {Loop(s, {Edge(e, t, None), Edge(f, None, u)}, K, None) :
              s \in {Point(0), Point(5)}, e \in {Up, Linear(0, 3)}, f \in {Up, Linear(2, 0)},
              t \in Against, u \in Some}

\* A test at the top of the body and one at the latch.
Nested == {Loop(s, {Edge(e, t, u)}, K, None) : s \in {Point(0), Point(6)}, e \in By, t \in Some, u \in Some}

\* A value read in a block below a test.
Guards == {None} \cup {Test(op, Point(x)) : op \in {"ult", "sgt", "sle"}, x \in {0, 5}}
Loops  == {{}, {Edge(Up, None, Test("slt", Point(7)))}, {Edge(Linear(1, 2), None, Test("ne", Point(6)))},
           {Edge(Linear(1, -1), None, Test("sge", Point(-2)))}, {Edge(Linear(1, 2), None, Test("ule", Point(12)))}}
Below == {Loop(s, es, e, g) : s \in {Point(0), Strided(-2, 1, 1), Strided(0, 12, 4)}, es \in Loops,
            e \in Operations \cup By, g \in Guards}

MCFamilies == {Latched, Tested, Wrapped, Joined, Unnamed, Nested, Below}
=============================================================================
