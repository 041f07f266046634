------------------------------ MODULE Subpython ------------------------------
(* The interpreter of lab04: eval.c's expressions and statements, and the     *)
(* loop of repl.c that reads lines, and runs one statement after another on   *)
(* one machine.                                                               *)
EXTENDS Evaluator, Parser, Listing

CONSTANTS
    Statements,         \* what the user may type, as trees
    Slips,              \* texts that are no statement, as sequences of lines
    Scripts,            \* files, as sequences of trees
    Unprotected,        \* those that allocate while nothing holds a reference they need:
                        \* assignments to and deletions of subscripts, dict displays
    Careful,            \* see Fine
    MaxLines            \* bounds the session: how many statements are run

VARIABLES
    machine,
    lines,      \* how many statements have been run
    reader,     \* the parser of the statement that is being typed
    typing      \* what the user is typing: the lines still to come, and the tree meant

vars == <<machine, lines, reader, typing>>

-----------------------------------------------------------------------------
(* Expressions *)

Arithmetic == {"+", "-", "*", "/", "%"}
Comparisons == {"==", "<", ">", "<=", ">="}

\* Arithmetic on fractions; `op` on two ints gives an int, except for division.
Arith(m, op, l, r) ==
    LET Result(f, g) ==
            CASE op = "+" -> <<f[1] * g[2] + g[1] * f[2], f[2] * g[2]>>
              [] op = "-" -> <<f[1] * g[2] - g[1] * f[2], f[2] * g[2]>>
              [] op = "*" -> <<f[1] * g[1], f[2] * g[2]>>
              [] op = "/" -> Over(f[1] * g[2], f[2] * g[1])
              [] op = "%" -> <<Rem(f[1] * g[2], g[1] * f[2]), f[2] * g[2]>>
        Typed(v, w, result) ==
            IF {v.type, w.type} = {"int"} /\ op # "/"
            THEN mm_malloc(m, "int", <<Wrap(result[1])>>) ELSE mm_malloc(m, "float", result)
        Apply(v, w) == IF {v.type, w.type} = {"int"} /\ op = "%" /\ w.data[1] = 0
                       THEN Fail(m, "abort") ELSE Typed(v, w, Result(Fraction(v), Fraction(w)))
    IN  Apply(deref(m, l), deref(m, r))

\* Only the left operand is protected.
string_concat_unprotected(m, l, r) ==
    LET Joined(x) == deref(x, l).data \o deref(x, r).data
        Filled(s) == IF Failed(s) THEN s ELSE [s EXCEPT !.mem[s.table[s.val]].data = Joined(s)]
    IN  Filled(mm_malloc(m, "str", Joined(m)))

\* The right operand of a concatenation is protected as well. The operands are read
\* after the allocation.
make_reference_string_concat(m, l, r) ==
    LET Joined(x) == deref(x, l).data \o deref(x, r).data
        Filled(s) == IF Failed(s) THEN s ELSE [s EXCEPT !.mem[s.table[s.val]].data = Joined(s)]
        Join(t) == remove_temporary_global(Filled(mm_malloc(t, "str", Joined(t))), t.temp)
    IN  Join(add_temporary_global(With(m, r)))

Operate(m, op, l, r) ==
    IF Failed(m) THEN m
    ELSE IF ~Live(m, l) \/ ~Live(m, r) THEN Fail(m, "abort")
    ELSE IF Numeric(m, l) /\ Numeric(m, r) THEN Arith(m, op, l, r)
    ELSE IF op = "+" /\ TypeOf(m, l) = "str" /\ TypeOf(m, r) = "str"
    THEN make_reference_string_concat(m, l, r)
    ELSE Raise(m)

Compare(m, op, l, r) ==
    LET Answer(c) == IF c = "error" THEN Raise(m) ELSE With(m, Bool(c = "yes"))
    IN  IF Failed(m) THEN m
        ELSE IF ~Live(m, l) \/ ~Live(m, r) THEN Fail(m, "abort")
        ELSE Answer(eval_generic_comp(m, op, l, r))

\* obj[index], the reference to obj in val.
Subscript(m, index) ==
    LET v == deref(m, m.val)
        isNumber == Numeric(m, index)
        i == coerce_ref_to_int(m, index)
        c == IF i < 0 THEN i + Len(v.data) ELSE i
    IN  IF Failed(m) THEN m
        ELSE IF v.type = "dict" THEN Load(dict_get_entry(m, m.val, index, FALSE))
        ELSE IF v.type \notin {"str", "list"} \/ ~isNumber THEN Raise(m)
        ELSE IF v.type = "list" THEN Load(list_get_elem(m, m.val, i))
        ELSE IF c >= Len(v.data) THEN Raise(m)
        ELSE mm_malloc(m, "str", <<v.data[c + 1]>>)

SingletonRef == [None |-> NoneRef, True |-> TrueRef, False |-> FalseRef]

RECURSIVE eval_expr(_, _), eval_items(_, _, _), eval_pairs(_, _, _), eval_args(_, _)
RECURSIVE eval_unary(_, _), eval_logic(_, _), eval_binary(_, _), eval_expr_call(_, _)

eval_expr(m, e) ==
    IF Failed(m) THEN m
    ELSE CASE e.op \in {"str", "int", "float"} -> mm_malloc(m, e.op, e.value)
           [] e.op = "single" -> With(m, SingletonRef[e.value])
           [] e.op = "id" -> Load(get_global_variable(m, e.name, FALSE))
           [] e.op = "list" ->
                 LET Filled(t) ==
                         With(remove_temporary_global(eval_items(t, t.val, e.items), t.temp), t.val)
                 IN  Filled(add_temporary_global(mm_malloc(m, "list", NewList)))
           [] e.op = "dict" ->
                 LET Filled(t) ==
                         With(remove_temporary_global(eval_pairs(t, t.val, e.items), t.temp), t.val)
                 IN  Filled(add_temporary_global(mm_malloc(m, "dict", NewDict)))
           [] e.op \in {"not", "negate", "identity"} -> eval_unary(m, e)
           [] e.op \in {"or", "and"} -> eval_logic(m, e)
           [] e.op \in Arithmetic \cup Comparisons -> eval_binary(m, e)
           [] e.op = "sub" ->
                 LET Element(t) ==
                         remove_temporary_global(Subscript(Checked(eval_expr(t, e.obj)), t.val),
                                                  t.temp)
                 IN  Element(add_temporary_global(eval_expr(m, e.index)))
           [] e.op = "call" -> eval_expr_call(m, e)

eval_unary(m, e) ==
    LET Applied(c, v) ==
            IF Failed(c) THEN c
            ELSE IF e.op = "not" THEN With(c, Bool(~coerce_ref_to_bool(c, c.val)))
            ELSE IF v.type \notin {"int", "float"} THEN Raise(c)
            ELSE IF e.op = "identity" THEN c
            ELSE IF v.type = "int" THEN mm_malloc(c, "int", <<Wrap(-v.data[1])>>)
            ELSE mm_malloc(c, "float", <<-v.data[1], v.data[2]>>)
        Apply(c) == Applied(c, deref(c, c.val))
    IN  Apply(Checked(eval_expr(m, e.left)))

eval_logic(m, e) ==
    LET Right(c) == IF Failed(c) \/ coerce_ref_to_bool(c, c.val) = (e.op = "or") THEN c
                    ELSE eval_expr(c, e.right)
    IN  Right(Checked(eval_expr(m, e.left)))

\* The left operand is a temporary while the right one is evaluated and both are used.
eval_binary(m, e) ==
    LET Apply(t, r) == IF e.op \in Arithmetic THEN Operate(r, e.op, t.val, r.val)
                       ELSE Compare(r, e.op, t.val, r.val)
        Right(t) == remove_temporary_global(Apply(t, eval_expr(t, e.right)), t.temp)
    IN  Right(add_temporary_global(eval_expr(m, e.left)))

\* A node is linked before its element is evaluated, so that the list holds it. The
\* lists are built at the tail.
eval_items(m, tail, items) ==
    IF Failed(m) \/ items = <<>> THEN m
    ELSE LET Linked(n) ==
                 IF Failed(n) THEN n ELSE [n EXCEPT !.mem[n.table[tail]].data[2] = n.val]
             Set(n, x) ==
                 IF Failed(x) THEN x
                 ELSE eval_items([x EXCEPT !.mem[x.table[n]].data[1] = x.val], n, Tail(items))
             Filled(n) == Set(n.val, eval_expr(n, Head(items)))
         IN  Filled(Linked(mm_malloc(m, "list", <<NoneRef, NullRef>>)))

\* Nothing protects the value of a pair while its key is evaluated.
eval_pairs(m, tail, pairs) ==
    IF Failed(m) \/ pairs = <<>> THEN m
    ELSE LET Linked(n) ==
                 IF Failed(n) THEN n ELSE [n EXCEPT !.mem[n.table[tail]].data[3] = n.val]
             Set(n, v, k) ==
                 IF Failed(k) THEN k
                 ELSE IF TypeOf(k, k.val) \in {"list", "dict"} THEN Raise(k)
                 ELSE eval_pairs([k EXCEPT !.mem[k.table[n]].data = <<k.val, v, NullRef>>],
                                 n, Tail(pairs))
             Key(n, v) == Set(n, v.val, Checked(eval_expr(v, Head(pairs).key)))
             Value(n) == Key(n.val, eval_expr(n, Head(pairs).value))
         IN  Value(Linked(mm_malloc(m, "dict", <<NoneRef, NoneRef, NullRef>>)))

\* Each argument becomes a temporary; afterwards they are the last ones of vars.
eval_args(m, args) ==
    IF Failed(m) \/ args = <<>> THEN m
    ELSE eval_args(add_temporary_global(eval_expr(m, Head(args))), Tail(args))

eval_builtin_print(m, refs) ==
    Say(m, FlattenSeq([i \in DOMAIN refs |-> ref_print_ext(m, refs[i], MaxDepth)]))

\* The length of a string counts its terminating zero.
eval_builtin_len(m, r) ==
    LET v == deref(m, r)
    IN  IF v.type \notin {"str", "list", "dict"} THEN Raise(m)
        ELSE mm_malloc(m, "int", <<Wrap(IF v.type = "str" THEN Len(v.data) + 1 ELSE Length(m, r))>>)

eval_expr_call(m, e) ==
    LET arity == Len(e.items)
        name == IF e.left.op = "id" THEN e.left.name ELSE ""
        Refs(a) == [i \in 1 .. arity |-> a.vars[Len(a.vars) - arity + i].ref]
        Apply(a, refs) ==
            IF e.left.op # "id" THEN Raise(a)
            ELSE IF ~(\A i \in 1 .. arity : Live(a, refs[i])) THEN Fail(a, "abort")
            ELSE IF name \in {"exit", "quit"} /\ arity <= 1 THEN Fail(a, "exit")
            ELSE IF name = "mem" /\ arity = 0 THEN Say(With(a, NoneRef), <<"mem">>)
            ELSE IF name = "gc" /\ arity = 0 THEN collect_garbage(With(a, NoneRef))
            ELSE IF name = "print" THEN eval_builtin_print(With(a, NoneRef), refs)
            ELSE IF name = "len" /\ arity = 1 THEN eval_builtin_len(a, refs[1])
            ELSE Raise(a)
        Released(r, last) ==
            IF Failed(r) THEN r
            ELSE [r EXCEPT !.vars = SelectSeq(@, LAMBDA g : g.temp \notin m.temp + 1 .. last)]
        Called(a) == IF Failed(a) THEN a ELSE Released(Apply(a, Refs(a)), a.temp)
    IN  Called(eval_args(m, e.items))

-----------------------------------------------------------------------------
(* Statements *)

\* The place an assignment stores to, in loc. The assigned reference is not protected
\* while this allocates.
RECURSIVE eval_expr_lval(_, _, _)
eval_expr_lval(m, e, create) ==
    IF Failed(m) THEN m
    ELSE CASE e.op = "id" -> get_global_variable(m, e.name, create)
           [] e.op = "sub" ->
                 LET Found(o, i) ==
                         IF Failed(o) THEN o
                         ELSE IF TypeOf(o, o.val) = "dict" THEN dict_get_entry(o, o.val, i, create)
                         ELSE IF TypeOf(o, o.val) = "list" /\ Numeric(o, i) THEN
                                  list_get_elem(o, o.val, coerce_ref_to_int(o, i))
                         ELSE Raise(o)
                     Object(t) == Check(Checked(Load(eval_expr_lval(t, e.obj, FALSE))), t.val)
                     Place(t) == remove_temporary_global(Found(Object(t), t.val), t.temp)
                 IN  Place(add_temporary_global(eval_expr(m, e.index)))
           [] OTHER -> Raise(m)

DeletedFrom(o, i) ==
    IF Failed(o) THEN o
    ELSE IF TypeOf(o, o.val) = "dict" THEN dict_delete_entry(o, o.val, i)
    ELSE IF TypeOf(o, o.val) = "list" /\ Numeric(o, i) THEN
             list_delete_elem(o, o.val, coerce_ref_to_int(o, i))
    ELSE Raise(o)

\* With the key in val. Nothing protects it.
ObjectOf(k, e) == Check(Checked(Load(eval_expr_lval(k, e.obj, FALSE))), k.val)
DeleteAt(k, e) == DeletedFrom(ObjectOf(k, e), k.val)

eval_del(m, e) ==
    IF Failed(m) THEN m
    ELSE CASE e.op = "id" -> delete_global_variable(m, e.name)
           [] e.op = "sub" -> DeleteAt(eval_expr(m, e.index), e)
           [] OTHER -> Raise(m)

\* With the assigned reference in val.
AssignTo(r, e) == Store(eval_expr_lval(r, e, TRUE), r.val)

RECURSIVE eval_main(_, _), eval_all(_, _)
eval_main(m, s) ==
    IF Failed(m) THEN m
    ELSE CASE s.op = "seq" -> eval_all(m, s.items)
           [] s.op = "assign" -> AssignTo(eval_expr(m, s.right), s.left)
           [] s.op = "del" -> eval_del(m, s.left)
           [] s.op \in {"if", "while"} ->
                 LET Branch(t) ==
                         IF Failed(t) THEN t
                         ELSE IF coerce_ref_to_bool(t, t.val) THEN
                                  IF s.op = "if" THEN eval_main(t, s.left)
                                  ELSE eval_main(eval_main(t, s.left), s)
                         ELSE IF s.op = "if" /\ s.right # NoNode THEN eval_main(t, s.right)
                         ELSE t
                 IN  Branch(Checked(eval_expr(m, s.cond)))
           [] OTHER ->
                 LET Printed(c) == IF Failed(c) \/ c.val = NoneRef THEN c ELSE ref_println(c, c.val)
                 IN  Printed(Checked(eval_expr(m, s)))

eval_all(m, ss) == IF ss = <<>> THEN m ELSE eval_all(eval_main(m, Head(ss)), Tail(ss))

-----------------------------------------------------------------------------
(* The loop of repl.c *)

\* Errors come back here by longjmp. What val, loc and temp hold is not used again.
SettleKeepsTemporaries(m) ==
    [m EXCEPT !.status = IF @ = "error" THEN "ok" ELSE @,
              !.out = IF m.status = "error" THEN Append(@, "Error") ELSE @,
              !.val = NullRef, !.temp = 0, !.loc = VarLoc(0)]

Settle(m) ==
    LET done == clear_temporary_globals(m)
    IN  [done EXCEPT !.status = IF @ = "error" THEN "ok" ELSE @,
                     !.out = IF m.status = "error" THEN Append(@, "Error") ELSE @,
                     !.val = NullRef, !.temp = 0, !.loc = VarLoc(0)]

Run(m, s) == Settle(eval_main([m EXCEPT !.out = <<>>, !.gcs = 0, !.brimful = FALSE], s))

eval_init(m) ==
    LET Bound(v, name) == add_global_variable(v, name, v.val)
        Define(d, name, type) == Bound(mm_malloc(d, type, <<>>), name)
    IN  Settle(Define(Define(Define(m, "None", "none"), "True", "bool"), "False", "bool"))

\* A careful user types nothing that collects in one of the two situations the
\* collector cannot cope with: an unprotected reference, and a brimful pool.
Fine(s, result) == Careful => /\ ~result.brimful
                              /\ s \in Unprotected => result.gcs = 0

Idle == [rest |-> <<>>, tree |-> NoNode]

Begin(text, tree) ==
    /\ reader = Fresh
    /\ typing = Idle
    /\ lines < MaxLines
    /\ machine.status = "ok"
    /\ reader' = Read(reader, Head(text))
    /\ typing' = [rest |-> Tail(text), tree |-> tree]
    /\ UNCHANGED <<machine, lines>>

\* The first line of something, at the first prompt.
Type(s) == Begin(LinesOf(s), s)
Slip(text) == Begin(text, NoNode)

\* The next line, at the second prompt.
TypeOn ==
    /\ reader.result = "more"
    /\ typing.rest # <<>>
    /\ reader' = Read(reader, Head(typing.rest))
    /\ typing' = [typing EXCEPT !.rest = Tail(@)]
    /\ UNCHANGED <<machine, lines>>

\* At either prompt. At the first one this ends the session.
EndInput ==
    /\ reader.result = "more"
    /\ machine.status = "ok"
    /\ reader' = ReadEnd(reader)
    /\ typing' = Idle
    /\ UNCHANGED <<machine, lines>>

\* yyparse returns: the tree is run, if there is one, and the next statement gets a
\* scanner and a parser of its own. A statement that is not fine is passed over: it was
\* not typed.
Evaluate ==
    /\ reader.result \in {"accept", "abort"}
    /\ \/ reader.tree = NoNode /\ UNCHANGED <<machine, lines>>
       \/ /\ reader.tree # NoNode
          /\ \E result \in {Run(machine, reader.tree)} :
                 IF Fine(reader.tree, result) THEN machine' = result /\ lines' = lines + 1
                 ELSE UNCHANGED <<machine, lines>>
    /\ reader' = Fresh
    /\ typing' = [typing EXCEPT !.tree = NoNode]

\* After exit(), when memory has run out, or at the end of the input.
Ended == /\ \/ reader = Fresh /\ (machine.status # "ok" \/ lines = MaxLines)
            \/ reader.result = "exit"
         /\ UNCHANGED vars

Init == /\ \E junk \in Junk : machine = eval_init(mm_init(junk))
        /\ lines = 0
        /\ reader = Fresh
        /\ typing = Idle

Next == \/ \E s \in Statements : Type(s)
        \/ \E text \in Slips : Slip(text)
        \/ TypeOn
        \/ EndInput
        \/ Evaluate
        \/ Ended

Spec == Init /\ [][Next]_vars

-----------------------------------------------------------------------------
(* What the program can observe: the graph of Values its names lead to, with  *)
(* the Values numbered in the order a walk from the names meets them.         *)

RECURSIVE Walk(_, _, _)
Walk(m, todo, met) ==
    IF todo = <<>> THEN met
    ELSE IF Contains(met, Head(todo)) THEN Walk(m, Tail(todo), met)
    ELSE Walk(m, Links(deref(m, Head(todo))) \o Tail(todo), Append(met, Head(todo)))

Named(m) == [i \in DOMAIN m.vars |-> m.vars[i].ref]
Reached(m) == Walk(m, Named(m), <<>>)

Graph(m) ==
    LET met == Reached(m)
        Place(r) == SelectInSeq(met, LAMBDA x : x = r)
        Seen(v) == IF v.type \in {"list", "dict"}
                   THEN [i \in DOMAIN v.data |-> Place(v.data[i])] ELSE v.data
    IN  [names |-> [i \in DOMAIN m.vars |-> <<m.vars[i].name, ToString(Place(m.vars[i].ref))>>],
         values |-> [i \in DOMAIN met |-> LET v == deref(m, met[i]) IN <<v.type, Seen(v)>>]]

-----------------------------------------------------------------------------
(* Properties *)

AtPrompt == reader = Fresh /\ machine.status = "ok"

\* A file with these statements has this tree.
ScriptsReadBack ==
    \A script \in Scripts :
        \A p \in {ReadFile(File(script))} : p.result = "accept" /\ p.tree = Sequence(script)

(* A statement is run as soon as, and not before, the user has typed all of   *)
(* it, and the tree that is run is the one its text means to a reader of      *)
(* Python; what is no statement runs nothing, and never spoils what is typed  *)
(* next. A file is read as the same trees (grammar.l.c, grammar.y.c, repl.c). *)
ReadsWhatIsTyped ==
    /\ typing.rest # <<>> => reader.result = "more"
    /\ typing.rest = <<>> /\ reader.result = "more" => reader = Fresh
    /\ reader.result # "more" => reader.tree = typing.tree
    /\ reader.result = "exit" => typing = Idle
    /\ ScriptsReadBack

(* The pool is tiled by Values that know their references, every reference a  *)
(* name leads to is live and names a Value of the right pool, and a statement *)
(* leaves no temporary behind, also when it fails (alloc.c, repl.c).          *)
HeapIsWellFormed ==
    AtPrompt =>
        LET m == machine
            pool == Pool(m)
        IN  /\ DOMAIN m.mem = pool
            /\ m.free = m.from + MapThenSumSet(LAMBDA a : get_size(m.mem[a]), pool)
            /\ m.free <= m.from + Half
            /\ \A a \in pool : \A b \in pool : a < b => a + get_size(m.mem[a]) <= b
            /\ \A r \in Range(Reached(m)) :
                   /\ Live(m, r)
                   /\ m.table[r] \in pool
                   /\ m.mem[m.table[r]].ref = r
            /\ \A g \in Range(m.vars) : g.temp = 0

(* Collecting changes nothing a program can see: whatever may be typed next   *)
(* prints the same and leaves the same graph of Values as on a machine whose  *)
(* pool never fills, unless memory runs out. ("copies over Values that are    *)
(* not garbage", alloc.c.)                                                    *)
CollectionIsInvisible ==
    AtPrompt =>
        \A s \in Statements :
            \A run \in {[e \in BOOLEAN |-> Run([machine EXCEPT !.endless = e], s)]} :
                LET here == run[FALSE]
                    ideal == run[TRUE]
                IN  Fine(s, here) /\ here.status # "exit" =>
                        /\ here.status = ideal.status
                        /\ here.out = ideal.out
                        /\ here.status = "ok" => Graph(here) = Graph(ideal)

(* A collection keeps exactly the Values that names lead to, each once, and   *)
(* gives the references of all others back. Where the pool was not clear when *)
(* a Value was allocated, its seen field may already hold a one: its          *)
(* reference is then lost for good (iterate_from), but never one in use.      *)
CollectsAllGarbage ==
    LET m == machine
        unclear == {m.mem[a].ref : a \in {b \in Pool(m) : m.mem[b].seen # 0}}
        lost == {r \in DOMAIN m.table :
                     m.table[r] # Null /\ ~(m.table[r] \in Pool(m) /\ deref(m, r).ref = r)}
        Used(c) == {r \in DOMAIN c.table : c.table[r] # Null}
        Keeps(c, reached) ==
            /\ {c.mem[a].ref : a \in Pool(c)} = reached
            /\ Cardinality(Pool(c)) = Cardinality(reached)
            /\ reached \subseteq Used(c)
            /\ Used(c) \subseteq reached \cup (IF m.junk = 0 THEN {} ELSE unclear \cup lost)
    IN  AtPrompt /\ ~(Careful /\ Brimful(m)) =>
            Keeps(collect_garbage(m), Range(Reached(m)))

(* An assignment or a deletion that ends with an error message has changed    *)
(* nothing, wherever the evaluation stopped (the error calls of eval.c).      *)
ErrorsChangeNothing ==
    AtPrompt =>
        \A s \in {t \in Statements : t.op = "seq" /\ t.items[1].op \in {"assign", "del"}} :
            \A m \in {Run(machine, s)} :
                Fine(s, m) /\ m.status = "ok" /\ m.out # <<>> => Graph(m) = Graph(machine)
=============================================================================
