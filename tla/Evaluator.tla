------------------------------ MODULE Evaluator ------------------------------
(* eval.c of lab04: what one parsed statement does to the interpreter.        *)
(*                                                                            *)
(* Expressions and statements are the nodes of ast.h as records with a field  *)
(* op. Evaluation takes the machine and a node and returns the machine; an    *)
(* expression leaves its Reference in val. Once the status is not "ok" the    *)
(* rest is skipped, as longjmp, exit and abort do. Characters are numbers, so *)
(* that strings can be ordered; a float is a fraction, not rounded.           *)
EXTENDS Collector, SequencesExt

CONSTANT IntBits    \* the width of an int

ASSUME IntBitsAssumption == IntBits \in 2 .. 31

MaxDepth == 4
NoneRef == 1
TrueRef == 2
FalseRef == 3
NewList == <<NullRef, NullRef>>
NewDict == <<NullRef, NullRef, NullRef>>

Wrap(n) == LET half == 2 ^ (IntBits - 1) IN ((n + half) % (2 * half)) - half

Raise(m) == IF Failed(m) THEN m ELSE Fail(m, "error")
With(m, r) == [m EXCEPT !.val = r]
Bool(b) == IF b THEN TrueRef ELSE FalseRef
TypeOf(m, r) == deref(m, r).type

\* An assertion of deref fails here if the reference is not live.
Check(m, r) == IF Failed(m) \/ Live(m, r) THEN m ELSE Fail(m, "abort")
Checked(m) == Check(m, m.val)

-----------------------------------------------------------------------------
(* Globals, named and temporary. A temporary `$t<id>` has a temp # 0. *)

add_global_variable(m, name, r) ==
    [m EXCEPT !.vars = Append(@, [name |-> name, ref |-> r, temp |-> 0])]

\* Protects val while something else is evaluated. Returns with tglob_next advanced.
add_temporary_global(m) ==
    IF Failed(m) THEN m
    ELSE [m EXCEPT !.temp = @ + 1,
                   !.vars = Append(@, [name |-> "$t", ref |-> m.val, temp |-> m.temp + 1])]

remove_temporary_global(m, t) ==
    IF Failed(m) THEN m ELSE [m EXCEPT !.vars = SelectSeq(@, LAMBDA g : g.temp # t)]

clear_temporary_globals(m) == [m EXCEPT !.vars = SelectSeq(@, LAMBDA g : g.temp = 0)]

VarIndex(m, name) == SelectInSeq(m.vars, LAMBDA g : g.name = name)

delete_global_variable(m, name) ==
    LET i == VarIndex(m, name)
    IN  IF i = 0 THEN Raise(m) ELSE [m EXCEPT !.vars = RemoveAt(@, i)]

-----------------------------------------------------------------------------
(* Where an assignment stores: a pointer into global_vars, or to a field of a *)
(* Value. It is a raw address, as in the code.                                *)

VarLoc(i) == [kind |-> "var", at |-> i, field |-> 0]
FieldLoc(a, f) == [kind |-> "field", at |-> a, field |-> f]

Load(m) ==
    IF Failed(m) THEN m
    ELSE With(m, IF m.loc.kind = "var" THEN m.vars[m.loc.at].ref
                 ELSE m.mem[m.loc.at].data[m.loc.field])

Store(m, r) ==
    IF Failed(m) THEN m
    ELSE IF m.loc.kind = "var" THEN [m EXCEPT !.vars[m.loc.at].ref = r]
    ELSE [m EXCEPT !.mem[m.loc.at].data[m.loc.field] = r]

get_global_variable(m, name, create) ==
    LET i == VarIndex(m, name)
    IN  IF Failed(m) THEN m
        ELSE IF i # 0 THEN [m EXCEPT !.loc = VarLoc(i)]
        ELSE IF create THEN [add_global_variable(m, name, NullRef) EXCEPT
                                 !.loc = VarLoc(Len(m.vars) + 1)]
        ELSE Raise(m)

-----------------------------------------------------------------------------
(* Numbers *)

Numeric(m, r) == TypeOf(m, r) \in {"int", "float"}
Fraction(v) == IF v.type = "int" THEN <<v.data[1], 1>> ELSE v.data
Over(n, d) == IF d < 0 THEN <<-n, -d>> ELSE <<n, d>>

\* Division and remainder of C round towards zero.
Abs(n) == IF n < 0 THEN -n ELSE n
Trunc(n, d) == IF n < 0 THEN -(Abs(n) \div d) ELSE n \div d
Rem(n, d) == n - Abs(d) * Trunc(n, Abs(d))

coerce_ref_to_int(m, r) == LET f == Fraction(deref(m, r)) IN Trunc(f[1], f[2])

coerce_ref_to_bool(m, r) ==
    LET v == deref(m, r)
    IN  CASE v.type = "none" -> FALSE
          [] v.type = "bool" -> r = TrueRef
          [] v.type \in {"int", "float"} -> v.data[1] # 0
          [] v.type = "str" -> v.data # <<>>
          [] OTHER -> v.data[Len(v.data)] # NullRef

-----------------------------------------------------------------------------
(* Comparing: "yes", "no", or "error" where eval_generic_error is called. *)

Holds(op, c) ==     \* c is negative, zero or positive, like the result of strcmp
    IF CASE op = "==" -> c = 0 [] op = "<" -> c < 0 [] op = ">" -> c > 0
         [] op = "<=" -> c <= 0 [] op = ">=" -> c >= 0
    THEN "yes" ELSE "no"

StrCmp(s, t) ==
    LET p == Len(LongestCommonPrefix({s, t}))
        Code(u) == IF p < Len(u) THEN u[p + 1] ELSE 0
    IN  Code(s) - Code(t)

RECURSIVE eval_generic_comp(_, _, _, _), eval_generic_comp_list(_, _, _, _)
eval_generic_comp(m, op, l, r) ==
    LET Minus(f, g) == f[1] * g[2] - g[1] * f[2]
        Compared(lv, rv) ==
            IF {lv.type, rv.type} \subseteq {"int", "float"} THEN
                     Holds(op, Minus(Fraction(lv), Fraction(rv)))
            ELSE IF lv.type # rv.type THEN "no"
            ELSE IF lv.type = "str" THEN Holds(op, StrCmp(lv.data, rv.data))
            ELSE IF lv.type = "list" THEN eval_generic_comp_list(m, op, l, r)
            ELSE "error"
    IN  Compared(deref(m, l), deref(m, r))

\* The nodes of two lists: equal if all are; for the other operators it is enough
\* that one pair of elements compares that way.
eval_generic_comp_list(m, op, l, r) ==
    IF NullRef \in {l, r}
    THEN Holds(op, (IF l = NullRef THEN 0 ELSE 1) - (IF r = NullRef THEN 0 ELSE 1))
    ELSE LET ld == deref(m, l).data
             rd == deref(m, r).data
             first == IF NullRef \in {ld[1], rd[1]} THEN "skip"
                      ELSE eval_generic_comp(m, op, ld[1], rd[1])
             decided == IF op = "==" THEN "no" ELSE "yes"
         IN  IF first \in {decided, "error"} THEN first
             ELSE eval_generic_comp_list(m, op, ld[2], rd[2])

-----------------------------------------------------------------------------
(* Lists and dictionaries: a dummy node, then one node per element. *)

\* The reference of the node n places after r, or NULL_REF past the end.
NextOf(m, r) == LET d == deref(m, r).data IN IF d = <<>> THEN NullRef ELSE Last(d)

RECURSIVE Node(_, _, _)
Node(m, r, n) == IF n = 0 \/ r = NullRef THEN r ELSE Node(m, NextOf(m, r), n - 1)

RECURSIVE Elements(_, _)
Elements(m, r) == IF r = NullRef THEN <<>> ELSE <<r>> \o Elements(m, NextOf(m, r))

\* list_get_length and dict_get_length
Length(m, r) == Len(Elements(m, r)) - 1

\* An index counts from the end if it is negative. Returns -1 for "out of range".
ListIndex(m, r, i) == LET j == IF i < 0 THEN i + Length(m, r) ELSE i
                      IN  IF 0 <= j /\ j < Length(m, r) THEN j ELSE -1

list_get_elem(m, r, i) ==
    LET j == ListIndex(m, r, i)
    IN  IF j = -1 THEN Raise(m)
        ELSE [m EXCEPT !.loc = FieldLoc(m.table[Node(m, r, j + 1)], 1)]

Unlink(m, before, gone) ==
    LET f == Len(deref(m, before).data)
    IN  [m EXCEPT !.mem[m.table[before]].data[f] = NextOf(m, gone)]

list_delete_elem(m, r, i) ==
    LET j == ListIndex(m, r, i)
    IN  IF j = -1 THEN Raise(m) ELSE Unlink(m, Node(m, r, j), Node(m, r, j + 1))

\* The search for a key. `prev` is the node before the place where it ended.
RECURSIVE FindKey(_, _, _, _)
FindKey(m, prev, r, key) ==
    IF r = NullRef THEN [result |-> "missing", prev |-> prev, entry |-> r]
    ELSE LET Compared(c) ==
                 IF c = "no" THEN FindKey(m, r, deref(m, r).data[3], key)
                 ELSE [result |-> IF c = "yes" THEN "found" ELSE "error", prev |-> prev, entry |-> r]
         IN  Compared(eval_generic_comp(m, "==", deref(m, r).data[1], key))

Find(m, r, key) == FindKey(m, r, deref(m, r).data[3], key)

\* The entry is created before it is known whether it may be.
dict_get_entry_created_first(m, r, key, create) ==
    LET Linked(f, new) ==
            IF Failed(new) THEN new
            ELSE [new EXCEPT !.mem[m.table[f.prev]].data[3] = new.val,
                             !.loc = FieldLoc(new.table[new.val], 2),
                             !.status = IF create THEN @ ELSE "error"]
        Entry(f) ==
            CASE f.result = "found" -> [m EXCEPT !.loc = FieldLoc(m.table[f.entry], 2)]
              [] f.result = "error" -> Raise(m)
              [] OTHER -> Linked(f, mm_malloc(m, "dict", <<key, NoneRef, NullRef>>))
    IN  Entry(Find(m, r, key))

\* A new entry is linked through `prev`, the address the last node had before the
\* allocation: if that collected, the memory there is zero and the assertion that it
\* holds NULL_REF fails.
dict_get_entry(m, r, key, create) ==
    LET Linked(prev, new) ==
            IF Failed(new) THEN new
            ELSE IF prev \notin DOMAIN new.mem THEN Fail(new, "abort")
            ELSE [new EXCEPT !.mem[prev].data[3] = new.val,
                             !.loc = FieldLoc(new.table[new.val], 2)]
        Entry(f) ==
            IF f.result = "found" THEN [m EXCEPT !.loc = FieldLoc(m.table[f.entry], 2)]
            ELSE IF f.result = "error" \/ ~create THEN Raise(m)
            ELSE Linked(m.table[f.prev], mm_malloc(m, "dict", <<key, NullRef, NullRef>>))
    IN  Entry(Find(m, r, key))

dict_delete_entry(m, r, key) ==
    LET Deleted(f) == IF f.result = "found" THEN Unlink(m, f.prev, f.entry) ELSE Raise(m)
    IN  Deleted(Find(m, r, key))

-----------------------------------------------------------------------------
(* Printing: the tokens of ref_print_ext. *)

RECURSIVE ref_print_ext(_, _, _), print_elements(_, _, _)
ref_print_ext(m, r, depth) ==
    LET v == deref(m, r)
    IN  CASE v.type = "none" -> <<"None">>
          [] v.type = "bool" -> <<IF r = TrueRef THEN "True" ELSE "False">>
          [] v.type = "list" -> <<"[">> \o print_elements(m, v.data[2], depth) \o <<"]">>
          [] v.type = "dict" -> <<"{">> \o print_elements(m, v.data[3], depth) \o <<"}">>
          [] OTHER -> <<v.type>> \o [i \in DOMAIN v.data |-> ToString(v.data[i])]

\* list_print and dict_print. A key is printed at depth 0 whatever the depth.
print_elements(m, r, depth) ==
    IF r = NullRef THEN <<>>
    ELSE LET v == deref(m, r)
             item == v.data[Len(v.data) - 1]
             key == IF v.type = "dict" THEN ref_print_ext(m, v.data[1], 0) ELSE <<>>
             shown == IF depth = 0 THEN <<"...">> ELSE ref_print_ext(m, item, depth - 1)
         IN  key \o shown \o <<",">> \o print_elements(m, Last(v.data), depth)

Say(m, tokens) == [m EXCEPT !.out = @ \o tokens]
ref_println(m, r) == Say(m, ref_print_ext(m, r, MaxDepth))
=============================================================================
