------------------------------- MODULE Listing -------------------------------
(* How a syntax tree is written down, by the rules of Python: the reference   *)
(* for the tables of the parser. A tree has one listing, with parentheses     *)
(* only where they are needed; a suite that is a list of statements is a      *)
(* block, and one that is a list of small statements stands on one line.      *)
EXTENDS Lexer, Ast

\* From the loosest to the tightest. The operators of a level group to the left, except
\* that comparisons do not chain.
Levels == << {"or"}, {"and"}, {"not"}, {"==", "<", ">", "<=", ">="}, {"+", "-"}, {"*", "/", "%"},
             {"negate", "identity"} >>
Comparison == 4
Tightest == Len(Levels) + 1

LevelOf(e) == IF \E i \in DOMAIN Levels : e.op \in Levels[i]
              THEN CHOOSE i \in DOMAIN Levels : e.op \in Levels[i] ELSE Tightest

Separated(parts, separator) ==
    FlattenSeq([i \in DOMAIN parts |-> IF i = 1 THEN parts[i] ELSE <<Word(separator)>> \o parts[i]])

Between(open, lexemes, close) == <<Word(open)>> \o lexemes \o <<Word(close)>>

RECURSIVE Expr(_, _)
Expr(e, level) ==
    LET own == LevelOf(e)
        Each(items) == Separated([i \in DOMAIN items |-> Expr(items[i], 1)], ",")
        Pairs(items) ==
            Separated([i \in DOMAIN items |->
                      Separated(<<Expr(items[i].key, 1), Expr(items[i].value, 1)>>, ":")], ",")
    IN  IF own < level THEN Between("(", Expr(e, 1), ")")
        ELSE CASE e.op = "str" -> <<Lexeme("string", e.value)>>
               [] e.op = "int" -> <<Lexeme("integer", e.value[1])>>
               [] e.op = "float" -> <<Lexeme("float", e.value)>>
               [] e.op = "single" -> <<Word(e.value)>>
               [] e.op = "id" -> <<Word(e.name)>>
               [] e.op = "list" -> Between("[", Each(e.items), "]")
               [] e.op = "dict" -> Between("{", Pairs(e.items), "}")
               [] e.op = "call" -> Expr(e.left, Tightest) \o Between("(", Each(e.items), ")")
               [] e.op = "sub" -> Expr(e.obj, Tightest) \o Between("[", Expr(e.index, 1), "]")
               [] e.op = "not" -> <<Word("not")>> \o Expr(e.left, own)
               [] e.op = "negate" -> <<Word("-")>> \o Expr(e.left, own)
               [] e.op = "identity" -> <<Word("+")>> \o Expr(e.left, own)
               [] own = Comparison ->
                      Expr(e.left, own + 1) \o <<Word(e.op)>> \o Expr(e.right, own + 1)
               [] OTHER -> Expr(e.left, own) \o <<Word(e.op)>> \o Expr(e.right, own + 1)

Small(s) ==
    CASE s.op = "assign" -> Separated(<<Expr(s.left, 1), Expr(s.right, 1)>>, "=")
      [] s.op = "del" -> <<Word("del")>> \o Expr(s.left, 1)
      [] OTHER -> Expr(s, 1)

OnOneLine(s) == s.op = "seq" /\ \A i \in DOMAIN s.items : s.items[i].op \notin {"seq", "if", "while"}
OneLine(s) == Separated([i \in DOMAIN s.items |-> Small(s.items[i])], ";")

\* The indentation of a block: more than that of the block around it.
Indentation(depth) ==
    IF depth = 0 THEN <<>> ELSE <<Blank>> \o [i \in 1 .. depth - 1 |-> Tab]

Line(depth, lexemes) == Indentation(depth) \o lexemes \o <<Newline>>

RECURSIVE Statement(_, _), Suite(_, _, _), Alternative(_, _)

\* A statement as a sequence of lines.
Statement(s, depth) ==
    CASE OnOneLine(s) -> <<Line(depth, OneLine(s))>>
      [] s.op = "while" -> Suite(<<Word("while")>> \o Expr(s.cond, 1), s.left, depth)
      [] s.op = "if" -> Suite(<<Word("if")>> \o Expr(s.cond, 1), s.left, depth)
                        \o Alternative(s.right, depth)

Suite(head, s, depth) ==
    LET opened == head \o <<Word(":")>>
    IN  IF OnOneLine(s) THEN <<Line(depth, opened \o OneLine(s))>>
        ELSE <<Line(depth, opened)>>
             \o FlattenSeq([i \in DOMAIN s.items |-> Statement(s.items[i], depth + 1)])

Alternative(s, depth) ==
    IF s = NoNode THEN <<>>
    ELSE IF s.op = "if"
    THEN Suite(<<Word("elif")>> \o Expr(s.cond, 1), s.left, depth) \o Alternative(s.right, depth)
    ELSE Suite(<<Word("else")>>, s, depth)

\* What the user types for one statement: an empty line ends one with suites.
LinesOf(s) == Statement(s, 0) \o (IF OnOneLine(s) THEN <<>> ELSE << <<Newline>> >>)

\* A file with these statements, and an empty line in front of each.
File(items) == FlattenSeq([i \in DOMAIN items |->
                               <<Newline>> \o FlattenSeq(Statement(items[i], 0))])
=============================================================================
