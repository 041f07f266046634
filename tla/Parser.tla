------------------------------- MODULE Parser -------------------------------
(* The parser of lab04: the tables of grammar.y.c, the automaton that bison   *)
(* puts around them, and the actions that build the tree. Locations, messages *)
(* and the sizes of the stacks are left out.                                  *)
EXTENDS Lexer, Ast

-----------------------------------------------------------------------------
(* The tables. States, rules and symbols are counted from 0.                  *)

Terminals ==
  << "error", "$undefined", "INVALID", "START_SINGLE", "START_FILE", "SEMICOLON", "LINE_END",
     "INPUT_END", "INDENT", "DEDENT", "INDENT_ERROR", "IF", "ELIF", "ELSE", "DO", "WHILE",
     "CONTINUE", "BREAK", "DEL", "NONE", "TRUE", "FALSE", "ASSIGN", "EQUALS", "LT", "GT", "LE",
     "GE", "OR", "AND", "NOT", "PLUS", "MINUS", "ASTERISK", "FSLASH", "PERCENT", "LPAREN",
     "RPAREN", "LBRACKET", "RBRACKET", "LBRACE", "RBRACE", "COMMA", "COLON", "STRING",
     "INTEGER", "FLOAT", "IDENT" >>

Symbol == [t \in Range(Terminals) |-> CHOOSE i \in DOMAIN Terminals : Terminals[i] = t]

YYNTOKENS == 49
YYLAST == 333
YYTERROR == 1
YYPACT_NINF == -78

yypact ==
  << 17, 8, 131, 9, -78, -78, 263, 263, 263, -78, -78, -78, 263, 285, 285, 263, 190, 212,
     -78, -78, -78, -78, -78, -78, 45, -78, 24, -78, -78, -78, -78, 13, 5, -78, -78, 133,
     38, -78, 49, -78, -78, -78, -78, -78, 67, 168, -78, -78, -78, -78, -19, -12, 60, -78,
     -78, -78, -15, -78, 60, 22, -78, -11, 25, -78, 59, -78, -78, 263, 263, 263, 285, 285,
     285, 285, 285, 285, 285, 285, 285, 285, 241, 263, -78, -78, 90, 90, -78, -78, 263, 263,
     -78, 263, -78, -78, 60, 5, -78, 50, 50, 50, 50, 50, 38, 38, -78, -78, -78, -78, 0, -3,
     37, -78, 80, -78, 60, 60, -78, -78, -78, 168, 263, 51, -78, 89, -10, 90, -78, 90, -78,
     80, -78 >>

yydefact ==
  << 0, 0, 0, 0, 5, 6, 0, 0, 0, 69, 70, 71, 0, 0, 0, 0, 0, 0, 66, 67, 68, 58, 2, 7, 0, 16,
     0, 18, 19, 20, 21, 24, 32, 34, 36, 38, 44, 47, 51, 54, 59, 72, 73, 3, 0, 9, 10, 12, 13,
     1, 0, 0, 26, 37, 52, 53, 0, 74, 61, 0, 76, 0, 0, 63, 0, 14, 8, 0, 0, 0, 0, 0, 0, 0, 0,
     0, 0, 0, 0, 0, 0, 0, 4, 11, 0, 0, 60, 75, 0, 0, 77, 0, 15, 17, 25, 33, 35, 39, 40, 41,
     42, 43, 45, 46, 48, 49, 50, 55, 0, 0, 0, 22, 30, 31, 62, 65, 64, 56, 57, 0, 0, 0, 27,
     0, 0, 0, 23, 0, 29, 30, 28 >>

yypgoto ==
  << -78, -78, -78, -16, -78, 63, -1, -78, 53, 112, -77, -78, -78, -78, -14, -78, -4, 46,
     -5, -78, -13, 26, -8, -78, -78, 39, -78, 29, -78, -78, -78 >>

yydefgoto ==
  << -1, 3, 22, 44, 45, 46, 111, 24, 25, 48, 112, 27, 28, 29, 122, 30, 31, 32, 33, 34, 35,
     36, 37, 38, 39, 59, 62, 63, 40, 41, 42 >>

yytable ==
  << 23, 47, 50, 51, 52, 54, 55, 53, 113, 49, 68, 56, 58, 61, 68, 4, 5, 68, 68, 68, 6, 1, 2,
     86, 7, 84, 68, 8, 9, 10, 11, 66, 85, 89, 127, 69, 67, 118, 117, 12, 13, 14, 68, 88, 47,
     15, 119, 16, 128, 17, 129, 64, 65, 18, 19, 20, 21, 97, 98, 99, 100, 101, 87, 94, 96,
     88, 92, 90, 91, 104, 105, 106, 77, 78, 79, 82, 58, 109, 8, 9, 10, 11, 75, 76, 114, 115,
     80, 61, 81, 68, 12, 13, 14, 120, 121, 125, 15, 110, 16, 126, 17, 102, 103, 123, 18, 19,
     20, 21, 83, 8, 9, 10, 11, 26, 95, 130, 124, 93, 47, 108, 116, 12, 13, 14, 0, 0, 0, 15,
     0, 16, 0, 17, 0, 0, 0, 18, 19, 20, 21, 43, 0, 0, 0, 6, 0, 0, 0, 7, 0, 0, 8, 9, 10, 11,
     0, 0, 0, 70, 71, 72, 73, 74, 12, 13, 14, 75, 76, 0, 15, 0, 16, 0, 17, 0, 0, 0, 18, 19,
     20, 21, 6, 0, 0, 0, 7, 0, 0, 8, 9, 10, 11, 0, 0, 0, 0, 0, 0, 0, 0, 12, 13, 14, 0, 0, 0,
     15, 0, 16, 0, 17, 9, 10, 11, 18, 19, 20, 21, 0, 0, 0, 0, 12, 13, 14, 0, 0, 0, 15, 0,
     16, 57, 17, 9, 10, 11, 18, 19, 20, 21, 0, 0, 0, 0, 12, 13, 14, 0, 0, 0, 15, 0, 16, 0,
     17, 60, 0, 0, 18, 19, 20, 21, 9, 10, 11, 0, 0, 0, 0, 0, 0, 0, 0, 12, 13, 14, 0, 0, 0,
     15, 107, 16, 0, 17, 9, 10, 11, 18, 19, 20, 21, 0, 0, 0, 0, 12, 13, 14, 0, 0, 0, 15, 0,
     16, 0, 17, 9, 10, 11, 18, 19, 20, 21, 0, 0, 0, 0, 0, 13, 14, 0, 0, 0, 15, 0, 16, 0, 17,
     0, 0, 0, 18, 19, 20, 21 >>

yycheck ==
  << 1, 2, 6, 7, 8, 13, 14, 12, 85, 0, 29, 15, 16, 17, 29, 7, 8, 29, 29, 29, 12, 4, 5, 38,
     16, 44, 29, 19, 20, 21, 22, 7, 44, 44, 44, 30, 23, 40, 38, 31, 32, 33, 29, 43, 45, 37,
     9, 39, 125, 41, 127, 6, 7, 45, 46, 47, 48, 70, 71, 72, 73, 74, 40, 67, 69, 43, 7, 42,
     43, 77, 78, 79, 34, 35, 36, 8, 80, 81, 19, 20, 21, 22, 32, 33, 88, 89, 37, 91, 39, 29,
     31, 32, 33, 13, 14, 44, 37, 7, 39, 10, 41, 75, 76, 119, 45, 46, 47, 48, 45, 19, 20, 21,
     22, 1, 68, 129, 120, 64, 119, 80, 91, 31, 32, 33, -1, -1, -1, 37, -1, 39, -1, 41, -1,
     -1, -1, 45, 46, 47, 48, 8, -1, -1, -1, 12, -1, -1, -1, 16, -1, -1, 19, 20, 21, 22, -1,
     -1, -1, 24, 25, 26, 27, 28, 31, 32, 33, 32, 33, -1, 37, -1, 39, -1, 41, -1, -1, -1, 45,
     46, 47, 48, 12, -1, -1, -1, 16, -1, -1, 19, 20, 21, 22, -1, -1, -1, -1, -1, -1, -1, -1,
     31, 32, 33, -1, -1, -1, 37, -1, 39, -1, 41, 20, 21, 22, 45, 46, 47, 48, -1, -1, -1, -1,
     31, 32, 33, -1, -1, -1, 37, -1, 39, 40, 41, 20, 21, 22, 45, 46, 47, 48, -1, -1, -1, -1,
     31, 32, 33, -1, -1, -1, 37, -1, 39, -1, 41, 42, -1, -1, 45, 46, 47, 48, 20, 21, 22, -1,
     -1, -1, -1, -1, -1, -1, -1, 31, 32, 33, -1, -1, -1, 37, 38, 39, -1, 41, 20, 21, 22, 45,
     46, 47, 48, -1, -1, -1, -1, 31, 32, 33, -1, -1, -1, 37, -1, 39, -1, 41, 20, 21, 22, 45,
     46, 47, 48, -1, -1, -1, -1, -1, 32, 33, -1, -1, -1, 37, -1, 39, -1, 41, -1, -1, -1, 45,
     46, 47, 48 >>

yyr1 ==
  << 0, 49, 50, 50, 50, 51, 51, 51, 51, 52, 53, 53, 54, 54, 55, 55, 56, 56, 57, 57, 58, 58,
     59, 59, 60, 60, 61, 62, 63, 63, 63, 64, 65, 65, 66, 66, 67, 67, 68, 68, 68, 68, 68, 68,
     69, 69, 69, 70, 70, 70, 70, 71, 71, 71, 72, 72, 72, 72, 73, 73, 73, 74, 74, 75, 75, 76,
     77, 77, 77, 77, 77, 77, 77, 77, 78, 78, 79, 79 >>

yyr2 ==
  << 0, 2, 2, 2, 3, 1, 1, 1, 2, 1, 1, 2, 1, 1, 2, 3, 1, 3, 1, 1, 1, 1, 1, 4, 1, 3, 2, 5, 5,
     3, 0, 4, 1, 3, 1, 3, 1, 2, 1, 3, 3, 3, 3, 3, 1, 3, 3, 1, 3, 3, 3, 1, 2, 2, 1, 3, 4, 4,
     1, 1, 3, 1, 3, 1, 3, 3, 1, 1, 1, 1, 1, 1, 1, 1, 2, 3, 2, 3 >>

\* A table at an index of C.
At0(table, i) == table[i + 1]

\* The entry of a state's row for a symbol or a state, where the row has one.
HasEntry(i, check) == i \in 0 .. YYLAST /\ At0(yycheck, i) = check

ASSUME NoRecovery == \A state \in 0 .. Len(yypact) - 1 :
                        ~HasEntry(At0(yypact, state) + YYTERROR, YYTERROR)

-----------------------------------------------------------------------------
(* The actions. d holds the values of the right-hand side of the rule. The    *)
(* text of a name or a string is a pointer into the scanner's buffer, which   *)
(* the scanner's next call changes.                                           *)

Stale == "$stale"
Text(s, d) == IF d.call = s.calls THEN d.text ELSE Stale

OperatorOf ==
    33 :> "or" @@ 35 :> "and" @@ 37 :> "not" @@ 39 :> "==" @@ 40 :> "<" @@ 41 :> ">" @@ 42 :> "<="
    @@ 43 :> ">=" @@ 45 :> "+" @@ 46 :> "-" @@ 48 :> "*" @@ 49 :> "/" @@ 50 :> "%"
    @@ 52 :> "identity" @@ 53 :> "negate"

\* Lists of statements, arguments and pairs grow at their end.
ListAction(rule, d) ==
    CASE rule \in {10, 16, 61, 63} -> <<d[1]>>
      [] rule = 11 -> Append(d[1], d[2])
      [] rule \in {17, 62, 64} -> Append(d[1], d[3])
      [] rule \in {74, 76} -> <<>>
      [] rule \in {75, 77} -> d[2]

StatementAction(rule, d) ==
    CASE rule \in {9, 14, 15} -> Sequence(d[1])
      [] rule \in {23, 29} -> d[3]
      [] rule = 25 -> Assign(d[1], d[3])
      [] rule = 26 -> Del(d[2])
      [] rule \in {27, 28} -> If(d[2], d[4], d[5])
      [] rule \in {5, 30} -> NoNode
      [] rule = 31 -> While(d[2], d[4])

ExpressionAction(rule, d) ==
    CASE rule \in {37, 52, 53} -> Unary(OperatorOf[rule], d[2])
      [] rule \in DOMAIN OperatorOf \ {37, 52, 53} -> Binary(OperatorOf[rule], d[1], d[3])
      [] rule = 55 -> Call(d[1], <<>>)
      [] rule = 56 -> Call(d[1], d[3])
      [] rule = 57 -> Sub(d[1], d[3])
      [] rule = 60 -> d[2]
      [] rule = 65 -> Pair(d[1], d[3])

LiteralAction(rule, d, s) ==
    CASE rule = 58 -> Id(Text(s, d[1]))
      [] rule = 66 -> Str(Text(s, d[1]))
      [] rule = 67 -> Number(d[1].text)
      [] rule = 68 -> Fractional(d[1].text[1], d[1].text[2])
      [] rule \in {69, 70, 71} -> Singleton(At0(<<"None", "True", "False">>, rule - 69))
      [] rule = 72 -> List(d[1])
      [] rule = 73 -> Dict(d[1])

\* Rules without an action of their own pass on the value of their first symbol.
Action(rule, d, s) ==
    CASE rule \in {10, 11, 16, 17, 61, 62, 63, 64, 74, 75, 76, 77} -> ListAction(rule, d)
      [] rule \in {5, 9, 14, 15, 23} \cup 25 .. 31 -> StatementAction(rule, d)
      [] rule \in DOMAIN OperatorOf \cup {55, 56, 57, 60, 65} -> ExpressionAction(rule, d)
      [] rule \in {58} \cup 66 .. 73 -> LiteralAction(rule, d, s)
      [] OTHER -> d[1]

-----------------------------------------------------------------------------
(* The automaton. lookahead is the token read and not shifted yet. result is  *)
(* "more" while the scanner waits for a line, and then what yyparse returns:  *)
(* "accept" with the tree, "abort" after a syntax error, "exit" when the      *)
(* input ended before anything was typed.                                     *)

Parsing(scanner) == [scanner |-> scanner, lookahead |-> NoToken, states |-> <<0>>, values |-> <<>>,
                     result |-> "more", tree |-> NoNode]

Finish(p, result, tree) == [p EXCEPT !.result = result, !.tree = tree]

Shift(p, state) ==
    [p EXCEPT !.lookahead = NoToken, !.states = Append(@, state),
              !.values = Append(@, [text |-> p.scanner.value, call |-> p.scanner.calls])]

\* The state a reduction leads to.
Goto(rule, state) ==
    LET lhs == At0(yyr1, rule) - YYNTOKENS
        i == At0(yypgoto, lhs) + state
    IN  IF HasEntry(i, state) THEN At0(yytable, i) ELSE At0(yydefgoto, lhs)

Pop(seq, n) == SubSeq(seq, 1, Len(seq) - n)

Reduce(p, rule) ==
    LET n == At0(yyr2, rule)
        d == SubSeq(p.values, Len(p.values) - n + 1, Len(p.values))
        states == Pop(p.states, n)
    IN  CASE rule = 2 -> Finish(p, "accept", d[2])
          [] rule = 3 -> Finish(p, "accept", NoNode)
          [] rule = 4 -> Finish(p, "accept", d[2])
          [] rule = 6 -> Finish(p, "exit", NoNode)
          [] OTHER -> [p EXCEPT !.states = Append(states, Goto(rule, Last(states))),
                                !.values = Append(Pop(@, n), Action(rule, d, p.scanner))]

\* No state shifts the error token (NoRecovery): all of them are popped.
SyntaxError(p) == Finish(p, "abort", NoNode)

Default(p) == LET rule == At0(yydefact, Last(p.states))
              IN  IF rule = 0 THEN SyntaxError(p) ELSE Reduce(p, rule)

\* The scanner is asked only where the state does not decide alone.
Lexed(p) ==
    IF p.lookahead # NoToken THEN p
    ELSE LET s == yylex(p.scanner) IN [p EXCEPT !.scanner = s, !.lookahead = s.token]

Decide(p) ==
    LET i == At0(yypact, Last(p.states)) + Symbol[p.lookahead]
    IN  IF HasEntry(i, Symbol[p.lookahead]) THEN Shift(p, At0(yytable, i)) ELSE Default(p)

RECURSIVE yyparse(_)
yyparse(p) ==
    LET Next(q) == IF q.result = "more" THEN yyparse(q) ELSE q
        Known(q) == IF q.lookahead = NoToken THEN q ELSE Next(Decide(q))
    IN  IF At0(yypact, Last(p.states)) = YYPACT_NINF THEN Next(Default(p)) ELSE Known(Lexed(p))

-----------------------------------------------------------------------------
(* How the loop of repl.c drives it: a scanner and a parser for each statement *)
(* that the user types, and for a file as a whole.                            *)

Fresh == yyparse(Parsing(subpy_udata_init(TRUE)))

\* The user types a line, or ends the input.
Read(p, line) == yyparse([p EXCEPT !.scanner.rest = line])
ReadEnd(p) == yyparse([p EXCEPT !.scanner.ended = TRUE])

ReadFile(text) ==
    yyparse(Parsing([subpy_udata_init(FALSE) EXCEPT !.rest = text, !.ended = TRUE]))
=============================================================================
