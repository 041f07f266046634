--------------------------------- MODULE Ast ---------------------------------
(* The syntax trees of ast.c, as the parser hands them to eval.c: a record    *)
(* per node, with the node's type in op. Their memory (a pool per statement)  *)
(* is left out. An entry of a list of arguments or items is a tree.           *)

NoNode == [op |-> "null"]

Sequence(items) == [op |-> "seq", items |-> items]
Assign(left, right) == [op |-> "assign", left |-> left, right |-> right]
Del(arg) == [op |-> "del", left |-> arg]
If(cond, left, right) == [op |-> "if", cond |-> cond, left |-> left, right |-> right]
While(cond, body) == [op |-> "while", cond |-> cond, left |-> body]

Str(chars) == [op |-> "str", value |-> chars]
Number(n) == [op |-> "int", value |-> <<n>>]
Fractional(n, d) == [op |-> "float", value |-> <<n, d>>]
List(items) == [op |-> "list", items |-> items]
Dict(pairs) == [op |-> "dict", items |-> pairs]
Pair(key, value) == [key |-> key, value |-> value]
Singleton(name) == [op |-> "single", value |-> name]

Id(name) == [op |-> "id", name |-> name]
Unary(op, left) == [op |-> op, left |-> left]
Binary(op, left, right) == [op |-> op, left |-> left, right |-> right]
Call(func, args) == [op |-> "call", left |-> func, items |-> args]
Sub(obj, index) == [op |-> "sub", obj |-> obj, index |-> index]
=============================================================================
