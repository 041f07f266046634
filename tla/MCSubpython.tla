----------------------------- MODULE MCSubpython -----------------------------
(* Sessions over three variables, with lists, a dictionary, strings and small *)
(* integers.                                                                  *)
EXTENDS Subpython

a == Id("a")
b == Id("b")
c == Id("c")
None == Singleton("None")
Line1(s) == Sequence(<<s>>)

\* In the order below:    a = ["7", None]        b = 0           b = "7" + "8"
\*   a = a[b]    c = a    del a    gc()    print(b, c, len(a))
\*   while b < 2:
\*       b = b + 1
\*       a = [a]
\*   if not a or b == "78": b = [0] < [b]
\*   else: b = -b * 3 % 2
\* The names are looked up without allocating, so these are protected. The variable b
\* never holds a list: the comparison of two lists that contain themselves would not end.
MCProtected == {
    Line1(Assign(a, List(<<Str(<<7>>), None>>))),
    Line1(Assign(b, Number(0))),
    Line1(Assign(b, Binary("+", Str(<<7>>), Str(<<8>>)))),
    Line1(Assign(a, Sub(a, b))),
    Line1(Assign(c, a)),
    Line1(Del(a)),
    Line1(Call(Id("gc"), <<>>)),
    Line1(Call(Id("print"), <<b, c, Call(Id("len"), <<a>>)>>)),
    While(Binary("<", b, Number(2)),
          Sequence(<<Line1(Assign(b, Binary("+", b, Number(1)))), Line1(Assign(a, List(<<a>>)))>>)),
    If(Binary("or", Unary("not", a), Binary("==", b, Str(<<7, 8>>))),
       Line1(Assign(b, Binary("<", List(<<Number(0)>>), List(<<b>>)))),
       Line1(Assign(b, Binary("%", Binary("*", Unary("negate", b), Number(3)), Number(2)))))}

\*   a[b] = a    a[0] = "9"    a = {0: "7"}    del a[0]
MCUnprotected == {
    Line1(Assign(Sub(a, b), a)),
    Line1(Assign(Sub(a, Number(0)), Str(<<9>>))),
    Line1(Assign(a, Dict(<<Pair(Number(0), Str(<<7>>))>>))),
    Line1(Del(Sub(a, Number(0))))}

MCStatements == MCProtected \cup MCUnprotected

\* Empty lines, a wrong character, a statement cut short, two statements on a line,
\* comparisons in a chain, an indented statement, and suites: without indentation, with a
\* line that belongs to no block, and with a line of blanks, which counts as a line with
\* one blank less.
MCSlips == {
    << <<Newline>> >>,
    << <<Blank, Newline>> >>,
    << <<Blank, Blank, Newline>> >>,
    << <<Lexeme("other", "#"), Word("a"), Newline>> >>,
    << <<Word("a"), Word("="), Newline>> >>,
    << <<Word("a"), Word("b"), Newline>> >>,
    << <<Word("a"), Word("<"), Word("b"), Word("<"), Word("c"), Newline>> >>,
    << <<Tab, Word("a"), Newline>> >>,
    << <<Word("if"), Word("a"), Word(":"), Newline>>, <<Word("b"), Newline>> >>,
    << <<Word("if"), Word("a"), Word(":"), Newline>>, <<Blank, Blank, Word("b"), Newline>>,
       <<Blank, Word("c"), Newline>> >>,
    << <<Word("while"), Word("a"), Word(":"), Newline>>, <<Tab, Word("b"), Newline>>,
       <<Blank, Blank, Newline>> >>}

\* Every operator under every other, on either side; and one of each kind of statement.
BinaryOps == {"or", "and", "==", "<", ">", "<=", ">=", "+", "-", "*", "/", "%"}
UnaryOps == {"not", "negate", "identity"}
Pairings ==
    {Binary(o, Binary(p, a, b), c) : o \in BinaryOps, p \in BinaryOps}
    \cup {Binary(o, a, Binary(p, b, c)) : o \in BinaryOps, p \in BinaryOps}
    \cup {Unary(u, Binary(o, a, b)) : u \in UnaryOps, o \in BinaryOps}
    \cup {Binary(o, Unary(u, a), Unary(v, b)) : o \in BinaryOps, u \in UnaryOps, v \in UnaryOps}
    \cup {Unary(u, Unary(v, a)) : u \in UnaryOps, v \in UnaryOps}
    \cup {Sub(Unary(u, a), Call(Sub(b, a), <<Unary(u, c), None>>)) : u \in UnaryOps}

NestedLoop == While(a, Sequence(<<
    If(b, Sequence(<<Line1(Del(Sub(a, b))), While(c, Sequence(<<Line1(a)>>))>>),
       If(c, Line1(List(<<>>)),
          Sequence(<<Sequence(<<Assign(b, Dict(<<Pair(a, b), Pair(b, c)>>)), Fractional(1, 2)>>)>>))),
    If(c, Sequence(<<If(a, Line1(b), Line1(c))>>), NoNode)>>))

MCScripts == {<<Line1(e)>> : e \in Pairings}
             \cup {<<NestedLoop, Line1(a), NestedLoop>>, <<Line1(Dict(<<>>)), NestedLoop>>}
MCJunk == {0, 1}
=============================================================================
