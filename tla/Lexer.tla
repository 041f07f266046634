-------------------------------- MODULE Lexer --------------------------------
(* The scanner of lab04: the rules of grammar.l.c and the state they keep in  *)
(* subpy_udata_t (grammar.y.c), from a text to tokens.                        *)
(*                                                                            *)
(* A text is a sequence of units: a blank, a newline, or a lexeme, that is,   *)
(* the characters of one token, as the tables of flex divide them. How the    *)
(* buffer of flex is filled and moved, locations and messages are left out.   *)
EXTENDS Integers, SequencesExt

Blank == [class |-> "blank", value |-> " "]
Tab == [class |-> "blank", value |-> "\t"]
Newline == [class |-> "newline", value |-> "\n"]
Lexeme(class, value) == [class |-> class, value |-> value]
Word(w) == Lexeme("word", w)

INDENT_SIZE == 8

\* What a keyword, an operator or a separator is returned as.
Reserved ==
    "if" :> "IF" @@ "elif" :> "ELIF" @@ "else" :> "ELSE" @@ "do" :> "DO" @@ "while" :> "WHILE"
    @@ "continue" :> "CONTINUE" @@ "break" :> "BREAK" @@ "del" :> "DEL" @@ "or" :> "OR"
    @@ "and" :> "AND" @@ "not" :> "NOT" @@ "None" :> "NONE" @@ "True" :> "TRUE" @@ "False" :> "FALSE"

Separators ==
    ";" :> "SEMICOLON" @@ "==" :> "EQUALS" @@ "<" :> "LT" @@ ">" :> "GT" @@ "<=" :> "LE"
    @@ ">=" :> "GE" @@ "=" :> "ASSIGN" @@ "+" :> "PLUS" @@ "-" :> "MINUS" @@ "*" :> "ASTERISK"
    @@ "/" :> "FSLASH" @@ "%" :> "PERCENT" @@ "(" :> "LPAREN" @@ ")" :> "RPAREN"
    @@ "[" :> "LBRACKET" @@ "]" :> "RBRACKET" @@ "{" :> "LBRACE" @@ "}" :> "RBRACE"
    @@ "," :> "COMMA" @@ ":" :> "COLON"

Token(lexeme) ==
    IF lexeme.class = "string" THEN "STRING"
    ELSE IF lexeme.class = "integer" THEN "INTEGER"
    ELSE IF lexeme.class = "float" THEN "FLOAT"
    ELSE IF lexeme.value \in DOMAIN Reserved THEN Reserved[lexeme.value]
    ELSE IF lexeme.value \in DOMAIN Separators THEN Separators[lexeme.value]
    ELSE IF lexeme.class = "word" THEN "IDENT"
    ELSE "INVALID"

-----------------------------------------------------------------------------
(* The scanner. rest is what it has not read yet, and ended says that nothing *)
(* comes after it: in an interactive session yywrap asks the user for a line  *)
(* when rest is empty, until the user ends the input. token is what the last  *)
(* call returned, with the text it points to and the number of the call.      *)

NoToken == "empty"

subpy_udata_init(interactive) ==
    [start |-> "INITIAL", interactive |-> interactive, rest |-> <<>>, ended |-> FALSE,
     token_queue |-> <<>>, indent_stack |-> <<0>>, token |-> NoToken, value |-> 0, calls |-> 0]

token_queue_push(s, token) == [s EXCEPT !.token_queue = Append(@, token)]

Return(s, token) == [s EXCEPT !.token = token, !.calls = @ + 1]

\* YY_BREAK: the first token of the queue.
Break(s) == Return([s EXCEPT !.token_queue = Tail(@)], Head(s.token_queue))

Level(blanks) == FoldLeft(LAMBDA n, b : IF b = Tab THEN (n \div INDENT_SIZE + 1) * INDENT_SIZE
                                        ELSE n + 1, 0, blanks)

indent_cur(s) == Last(s.indent_stack)

dedent_once(s, level) == token_queue_push([s EXCEPT !.indent_stack = Front(@)], "DEDENT")

RECURSIVE Dedent(_, _)
Dedent(s, level) ==
    IF indent_cur(s) <= level THEN s
    ELSE Dedent(token_queue_push([s EXCEPT !.indent_stack = Front(@)], "DEDENT"), level)

\* SUBPY_CHECK_INDENT. Where no outer block has this level, INDENT_ERROR is returned at
\* once: the caller goes on only if token is empty.
CHECK_INDENT(s, blanks) ==
    LET level == Level(blanks)
        Matched(t) == IF indent_cur(t) = level THEN t ELSE Return(t, "INDENT_ERROR")
    IN  CASE indent_cur(s) < level ->
                 token_queue_push([s EXCEPT !.indent_stack = Append(@, level)], "INDENT")
          [] indent_cur(s) > level -> Matched(Dedent(s, level))
          [] OTHER -> s

Consume(s, n) == [s EXCEPT !.rest = SubSeq(@, n + 1, Len(@))]

\* How many units of this class the rest begins with.
Leading(s, class) ==
    LET other == SelectInSeq(s.rest, LAMBDA u : u.class # class)
    IN  IF other = 0 THEN Len(s.rest) ELSE other - 1

RECURSIVE Scan(_)

\* The start of a line. Its blanks are its indentation; the rule wants a character that is
\* not a newline behind them, so that of a line of blanks only the last one is not counted.
ScanStart(s) ==
    LET blanks == Leading(s, "blank")
        n == IF blanks = Len(s.rest) \/ s.rest[blanks + 1] = Newline THEN blanks - 1 ELSE blanks
        Then(t, Do(_)) == IF t.token # NoToken THEN t ELSE Do(t)
        Inner(t) == LET i == [t EXCEPT !.start = "INNER"]
                    IN  IF i.token_queue # <<>> THEN Break(i) ELSE Scan(i)
        Pushed(t, token) == Break(token_queue_push(t, token))
    IN  IF s.rest = <<>> THEN Then(CHECK_INDENT(s, <<>>), LAMBDA t : Pushed(t, "INPUT_END"))
        ELSE IF Head(s.rest) = Newline THEN
                 LET t == Consume(s, 1)
                 IN  IF s.interactive
                     THEN Then(CHECK_INDENT(t, <<>>), LAMBDA u : Pushed(u, "LINE_END"))
                     ELSE Scan(t)
        ELSE Then(CHECK_INDENT(Consume(s, n), SubSeq(s.rest, 1, n)), Inner)

ScanInner(s) ==
    LET next == Head(s.rest)
        AtStart(t) == [t EXCEPT !.start = "START"]
    IN  IF s.rest = <<>> THEN Return(AtStart(s), "INPUT_END")
        ELSE IF next.class = "blank" THEN Scan(Consume(s, Leading(s, "blank")))
        ELSE IF next.class = "newline" THEN
                 Return(AtStart(Consume(s, Leading(s, "newline"))), "LINE_END")
        ELSE Return([Consume(s, 1) EXCEPT !.value = next.value], Token(next))

\* Without a character to go on with, the scanner stops with no token and is called again
\* when the user has typed a line.
Scan(s) ==
    IF s.rest = <<>> /\ ~s.ended THEN s
    ELSE IF s.start = "START" THEN ScanStart(s) ELSE ScanInner(s)

yylex(scanner) ==
    LET s == [scanner EXCEPT !.token = NoToken]
    IN  IF s.start = "INITIAL" THEN
                 Return([s EXCEPT !.start = "START"],
                        IF s.interactive THEN "START_SINGLE" ELSE "START_FILE")
        ELSE IF s.token_queue # <<>> THEN Break(s)
        ELSE Scan(s)
=============================================================================
