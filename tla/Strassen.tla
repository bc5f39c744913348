------------------------------- MODULE Strassen -------------------------------
(***************************************************************************)
(* Matrix multiplication by Strassen's recursion (CS124 progset2,           *)
(* strassen.cpp).  All intermediate products and sums of every depth live   *)
(* in one scratch matrix, each recursion in a quarter of the one before.    *)
(*                                                                          *)
(* The memory is a record of the matrices as sequences of their cells in    *)
(* address order, and of whether an access left a vector (`at` throws).  A  *)
(* view is a square part of a matrix: its corner, its dimension and the     *)
(* dimension of the matrix.                                                 *)
(***************************************************************************)
EXTENDS Integers, Sequences
LOCAL INSTANCE SequencesExt

(* One operation after another: the memory is computed before Op sees it.   *)
Then(memory, Op(_)) == CHOOSE result \in {Op(m) : m \in {memory}} : TRUE

CeilDivide(x) == (x + 1) \div 2

RECURSIVE PaddingSize(_, _)
PaddingSize(dimension, cutoff) ==
  IF dimension > cutoff THEN 2 * PaddingSize(CeilDivide(dimension), cutoff) ELSE dimension

View(name, dimension, width) == [name |-> name, i |-> 0, j |-> 0, dimension |-> dimension, width |-> width]

Quarter(view, x, y) ==
  LET half == CeilDivide(view.dimension)
  IN [view EXCEPT !.dimension = half, !.i = @ + x * half, !.j = @ + y * half]

Index(view, x, y) == (y + view.j) + view.width * (x + view.i)

(* The bound check multiplies the width with the other coordinate than the  *)
(* access does: a row below the matrix passes it.                           *)
InBounds(view, x, y) ==
  /\ (x + view.i) + view.width * (y + view.j) < view.width * view.width
  /\ x < view.dimension /\ y < view.dimension

Cells(dimension) == (0..(dimension - 1)) \X (0..(dimension - 1))

Throws(view, dimension) ==
  \E c \in Cells(dimension) : /\ InBounds(view, c[1], c[2])
                              /\ Index(view, c[1], c[2]) >= view.width * view.width

(* Outside of its bounds a view reads as padding, zero.                     *)
At(memory, view, x, y) ==
  IF InBounds(view, x, y) /\ Index(view, x, y) < view.width * view.width
  THEN memory.cells[view.name][Index(view, x, y) + 1] ELSE 0

(* Every cell of a view gets its value; `read` are the views the values     *)
(* come from.                                                               *)
Filled(memory, view, value, read) ==
  LET Row(k) == ((k - 1) \div view.width) - view.i
      Column(k) == ((k - 1) % view.width) - view.j
      old == memory.cells[view.name]
      new == [k \in 1..Len(old) |->
                IF Row(k) \in 0..(view.dimension - 1) /\ Column(k) \in 0..(view.dimension - 1)
                THEN value[Row(k), Column(k)] ELSE old[k]]
  IN [cells |-> [memory.cells EXCEPT ![view.name] = SubSeq(new, 1, Len(new))],
      threw |-> memory.threw \/ \E v \in read : Throws(v, view.dimension)]

Cleared(memory, c) == Filled(memory, c, [cell \in Cells(c.dimension) |-> 0], {})

(* sum and sub: the target may be one of the operands.                      *)
Combined(memory, a, sign, b, c) ==
  Filled(memory, c,
         [cell \in Cells(c.dimension) |->
            At(memory, a, cell[1], cell[2]) + sign * At(memory, b, cell[1], cell[2])],
         {a, b})

LinearMul(memory, a, b, c) ==
  Filled(memory, c,
         [cell \in Cells(c.dimension) |->
            FoldLeft(LAMBDA total, k : total + At(memory, a, cell[1], k - 1) * At(memory, b, k - 1, cell[2]),
                     At(memory, c, cell[1], cell[2]), [k \in 1..c.dimension |-> k])],
         {a, b})

(* The seven products: the operand from A and from B, one quarter or two    *)
(* with the sign between them, and the quarters of C each product goes to.  *)
Q(x, y) == <<x, y>>
Products == <<
  [a |-> <<Q(0,0), 1, Q(1,1)>>,  b |-> <<Q(0,0), 1, Q(1,1)>>,  to |-> <<<<Q(0,0), 1>>, <<Q(1,1), 1>>>>],
  [a |-> <<Q(1,0), 1, Q(1,1)>>,  b |-> <<Q(0,0)>>,             to |-> <<<<Q(1,0), 1>>, <<Q(1,1), -1>>>>],
  [a |-> <<Q(0,0)>>,             b |-> <<Q(0,1), -1, Q(1,1)>>, to |-> <<<<Q(0,1), 1>>, <<Q(1,1), 1>>>>],
  [a |-> <<Q(1,1)>>,             b |-> <<Q(1,0), -1, Q(0,0)>>, to |-> <<<<Q(0,0), 1>>, <<Q(1,0), 1>>>>],
  [a |-> <<Q(0,0), 1, Q(0,1)>>,  b |-> <<Q(1,1)>>,             to |-> <<<<Q(0,0), -1>>, <<Q(0,1), 1>>>>],
  [a |-> <<Q(1,0), -1, Q(0,0)>>, b |-> <<Q(0,0), 1, Q(0,1)>>,  to |-> <<<<Q(1,1), 1>>>>],
  [a |-> <<Q(0,1), -1, Q(1,1)>>, b |-> <<Q(1,0), 1, Q(1,1)>>,  to |-> <<<<Q(0,0), 1>>>>]>>

Part(view, q) == Quarter(view, q[1], q[2])

(* An operand of two quarters is put together in its place of the scratch   *)
(* matrix, an operand of one is used where it is.                           *)
Prepared(memory, view, operand, place) ==
  IF Len(operand) = 1 THEN memory
  ELSE Combined(memory, Part(view, operand[1]), operand[2], Part(view, operand[3]), place)

Operand(view, operand, place) == IF Len(operand) = 1 THEN Part(view, operand[1]) ELSE place

(* mutant: the recursion uses the quarter that holds the second sum         *)
Scratch_Shared(s) == Quarter(s, 1, 1)

(* The quarter of the scratch matrix that a product's own recursion uses.   *)
Scratch(s) == Quarter(s, 0, 1)

RECURSIVE StrassenMul(_, _, _, _, _, _)
StrassenMul(memory, a, b, c, s, cutoff) ==
  LET m == Quarter(s, 0, 0)
      second(p) == IF Len(p.a) = 1 THEN Quarter(s, 1, 0) ELSE Quarter(s, 1, 1)
      Multiply(mem, p) ==
        Then(Then(mem, LAMBDA l : Prepared(l, a, p.a, Quarter(s, 1, 0))),
             LAMBDA r : StrassenMul(Prepared(r, b, p.b, second(p)),
                                    Operand(a, p.a, Quarter(s, 1, 0)), Operand(b, p.b, second(p)),
                                    m, Scratch(s), cutoff))
      Spread(mem, target) ==
        Then(mem, LAMBDA t : Combined(t, Part(c, target[1]), target[2], m, Part(c, target[1])))
      Step(mem, p) == Then(mem, LAMBDA t : FoldLeft(Spread, Multiply(t, p), p.to))
  IN IF c.dimension % 2 = 1 \/ c.dimension <= cutoff
     THEN LinearMul(Cleared(memory, c), a, b, c)
     ELSE FoldLeft(Step, Cleared(memory, c), Products)

(* main: the result and the scratch matrix have the padded dimension, and   *)
(* the inputs are looked at as if they had.                                 *)
Multiplied(a, b, dimension, cutoff) ==
  LET padded == PaddingSize(dimension, cutoff)
      blank == [k \in 1..(padded * padded) |-> 0]
      memory == [cells |-> [A |-> a, B |-> b, C |-> SubSeq(blank, 1, padded * padded),
                            S |-> SubSeq(blank, 1, padded * padded)], threw |-> FALSE]
  IN StrassenMul(memory, View("A", padded, dimension), View("B", padded, dimension),
                 View("C", padded, padded), View("S", padded, padded), cutoff)
=============================================================================
