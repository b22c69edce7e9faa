----------------------------- MODULE ValueStack -----------------------------
(***************************************************************************)
(* The operand stack of a connection and the integer arithmetic done on    *)
(* it (value_stack.cpp and handle_add, handle_sub, handle_mul, handle_div  *)
(* in client_connection.cpp).                                              *)
(*                                                                         *)
(* The stack holds strings.  What the arithmetic can tell about a string   *)
(* is what std::stoi makes of it, so a value is one of                     *)
(*   form "int"    : the text std::to_string prints for the int num;       *)
(*   form "padded" : another text that stoi reads as num ("007", "7up");   *)
(*   form "word"   : no digits, stoi throws std::invalid_argument;         *)
(*   form "huge"   : too many digits, stoi throws std::out_of_range.       *)
(***************************************************************************)
EXTENDS Integers, Sequences

CONSTANT IntMax   \* INT_MAX; int is two's complement

ASSUME IntMaxAssumption == IntMax \in Nat

IntMin == -IntMax - 1

Ints == IntMin..IntMax

Value == [form : {"int", "padded", "word", "huge"}, num : Ints]

-----------------------------------------------------------------------------
\* The stack: the top is the last element.
push(st, v) == Append(st, v)

get_top(st) == st[Len(st)]

pop(st) == SubSeq(st, 1, Len(st) - 1)

get_size(st) == Len(st)

-----------------------------------------------------------------------------
\* Conversions between strings and ints.
to_string(n) == [form |-> "int", num |-> n]

stoi(v) ==
    CASE v.form = "word" -> "invalid_argument"
      [] v.form = "huge" -> "out_of_range"
      [] OTHER           -> "ok"

\* Signed overflow wraps in the -g build of the Makefile.
Wrap(n) == ((n - IntMin) % (2 * (IntMax + 1))) + IntMin

Abs(n) == IF n < 0 THEN -n ELSE n

\* C's integer division truncates towards zero.
Quotient(left, right) ==
    LET q == Abs(left) \div Abs(right)
    IN  IF (left < 0) = (right < 0) THEN q ELSE -q

\* The two divisions that raise SIGFPE.
Traps(op, left, right) ==
    op = "DIV" /\ (right = 0 \/ (left = IntMin /\ right = -1))

Result(op, left, right) ==
    Wrap(CASE op = "ADD" -> left + right
           [] op = "SUB" -> left - right
           [] op = "MUL" -> left * right
           [] op = "DIV" -> Quotient(left, right))

ArithOps == {"ADD", "SUB", "MUL", "DIV"}

\* What becomes of an exception of std::stoi: the handlers catch
\* std::invalid_argument and throw OperationException, answered FAILED;
\* nothing catches std::out_of_range, so it ends the thread's function and the
\* C++ runtime aborts the process.
Thrown == [invalid_argument |-> "FAILED", out_of_range |-> "abort"]

\* How an arithmetic handler ends: the answer it sends or the signal that
\* kills the process.  The right operand is converted before the left one.
ArithOutcome(op, st) ==
    IF get_size(st) < 2 THEN "FAILED"
    ELSE LET right == get_top(st)
             left  == get_top(pop(st))
         IN  IF stoi(right) # "ok" THEN Thrown[stoi(right)]
             ELSE IF stoi(left) # "ok" THEN Thrown[stoi(left)]
             ELSE IF Traps(op, left.num, right.num) THEN "sigfpe"
             ELSE "OK"

\* Mutant: the right operand is not pushed back.
StackAfterThrowPopped(st) ==
    IF get_size(st) < 2 \/ stoi(get_top(st)) # "ok" THEN st ELSE pop(st)

\* The stack an arithmetic handler leaves when it throws: untouched, unless
\* the right operand had been popped already, which is then pushed back as
\* std::to_string prints it.
StackAfterThrow(st) ==
    IF get_size(st) < 2 \/ stoi(get_top(st)) # "ok"
    THEN st
    ELSE push(pop(st), to_string(get_top(st).num))

\* Mutant: the operands are swapped.
StackAfterArithSwapped(op, st) ==
    LET left  == get_top(st)
        right == get_top(pop(st))
    IN  push(pop(pop(st)), to_string(IF Traps(op, left.num, right.num) THEN 0
                                     ELSE Result(op, left.num, right.num)))

StackAfterArith(op, st) ==
    LET right == get_top(st)
        left  == get_top(pop(st))
    IN  push(pop(pop(st)), to_string(Result(op, left.num, right.num)))
=============================================================================
