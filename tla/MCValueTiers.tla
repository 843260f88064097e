----------------------------- MODULE MCValueTiers -----------------------------
EXTENDS ValueTiers

MCUnary == {"Plus", "Minus", "Not", "AsLogical", "CheckTrueFalse"}

half == One \div 2
call(f_, xs_) == [f |-> f_, xs |-> xs_]

(* Operators on the edges of the numbers, and on vectors of every shape. *)
edges == {NaN, Inf, dbl(INT_MIN), 0, half, One, dbl(INT_MAX), dbl(INT_MAX + 1)}
operands ==
    {lgl(l) : l \in {1, NA_INTEGER}}
    \union {int(i) : i \in {NA_INTEGER, -INT_MAX, -1, 0, 1, INT_MAX}}
    \union {real(r) : r \in edges}
    \union {Sexp("INTSXP", <<>>, "none"), Sexp("INTSXP", <<NA_INTEGER, 1>>, "none"),
            Sexp("INTSXP", <<2>>, "names"), Sexp("REALSXP", <<half, NaN>>, "dim"),
            Sexp("INTSXP", <<1>>, "class"), Sexp("STRSXP", <<0>>, "none")}
lazyOps == {"LAnd", "LOr"}
logicals == {R_TrueValue, R_FalseValue, R_LogicalNAValue}
operations(V) == {call(o, <<v, w>>) : o \in Binary \ lazyOps, v \in V, w \in V}
                   \union {call(o, <<v>>) : o \in MCUnary, v \in V}

(* Builtins. *)
ints(v, at_) == Sexp("INTSXP", v, at_)
reals(v) == Sexp("REALSXP", v, "none")

numbers ==
    {lgl(1), lgl(NA_INTEGER)}
    \union {int(i) : i \in {NA_INTEGER, -3, 0, 7}}
    \union {real(r) : r \in {NaN, Inf, -One, 0, half, 100 * One}}
vectors ==
    {ints(<<>>, "none"), ints(<<3, -2>>, "none"), ints(<<7, 7>>, "none"),
     ints(<<NA_INTEGER, 1>>, "none"), ints(<<1, 2>>, "names"), ints(<<1, 2>>, "dim"),
     ints(<<1>>, "class"), reals(<<>>), reals(<<half, NaN>>), reals(<<NegInf, Inf>>),
     Sexp("REALSXP", <<half>>, "class"), Sexp("LGLSXP", <<1, 0, NA_INTEGER>>, "none"),
     Sexp("LGLSXP", <<1, 0>>, "names")}
longVectors == {ints([i \in 1 .. n |-> 1], "none") : n \in {INT_MAX, INT_MAX + 1}}
others ==
    {R_NilValue, Sexp("VECSXP", <<elt(int(1)), elt(lgl(NA_INTEGER))>>, "none"),
     Sexp("VECSXP", <<elt(int(1))>>, "none"), Sexp("VECSXP", <<>>, "names"),
     str("any"), Sexp("STRSXP", <<3, 4>>, "names"), Sexp("SYMSXP", <<9>>, "none"),
     Sexp("CLOSXP", <<9>>, "none"), Sexp("LANGSXP", <<9>>, "none")}
values == numbers \union vectors \union others
modes == {str(m) : m \in DOMAIN mode}

one == {"dim", "names", "abs", "sqrt", "sum", "prod", "min", "max", "as.logical",
        "as.integer", "is.na", "anyNA", "which", "c", "list", "("} \union Tests
summaries == {"sum", "prod", "min", "max", "c"}
summand(x) == numeric(x) \/ x.t = "NILSXP"
some == {int(NA_INTEGER), int(2), int(-3), real(half), real(NaN), lgl(1), lgl(NA_INTEGER),
          ints(<<3, -2>>, "none"), ints(<<1, 2>>, "names"), reals(<<half, NaN>>), R_NilValue}

builtinCalls ==
    {call(o, <<x>>) : o \in one \ (summaries \union {"is.na"}), x \in values}
    \union {call(o, <<x>>) : o \in summaries, x \in {v \in values : summand(v)}}
    \union {call("is.na", <<x>>) : x \in {v \in values : v.t # "LANGSXP"}}
    \union {call("length", <<x>>) : x \in values \union longVectors}
    \union {call("as.character", <<x>>) :
              x \in {v \in values : v.t \in {"STRSXP", "SYMSXP", "INTSXP"}}}
    \union {call("is.vector", <<x, m>>) : x \in values, m \in modes}
    \union {call("vector", <<m, n>>) : m \in modes, n \in numbers \ {real(half), real(-half)}}
    \union {call(o, <<x, y>>) : o \in summaries \union {"list"}, x \in numbers, y \in numbers}
    \union {call(o, <<x, y>>) : o \in summaries \union {"list"}, x \in some, y \in some}
    \union {call(o, <<x, y>>) : o \in Bitwise_, x \in numbers \union {ints(<<3, -2>>, "none")},
                                y \in numbers \union {ints(<<1, 2>>, "none")}}
    \union {call("rep.int", <<x, y>>) : x \in numbers \union vectors,
              y \in {int(NA_INTEGER), int(-1), int(0), int(2), real(2 * One), lgl(1),
                     ints(<<1, 2>>, "none")}}
    \union {call(o, <<x, y>>) : o \in {"any", "all"}, x, y \in {v \in numbers \union vectors :
                                                     v.t \in {"LGLSXP", "INTSXP"}}}
    \union {call(o, <<d>>) : o \in {"row", "col"},
              d \in {ints(<<2, 3>>, "none"), ints(<<2, 0>>, "none"), ints(<<2>>, "none"),
                     ints(<<2, -1>>, "none"), reals(<<2 * One, One>>)}}
    \union {call(o, <<x, y, z>>) : o \in {"c", "sum", "max", "list"},
              x, y, z \in {int(2), int(7), real(half), lgl(1), int(NA_INTEGER)}}
    \union {call(o, <<>>) : o \in {"c", "list", "any", "all"}}


MCSingle == operations(operands)
              \union {call(o, <<v, w>>) : o \in lazyOps, v \in logicals, w \in logicals}
MCChained == operations({int(-1), int(0), int(INT_MAX), real(0), real(Inf), real(-One),
                         real(half)})
               \union builtinCalls

op(f_, n_) == [f |-> f_, n |-> n_]
MCOps ==
    {op(o, 1) : o \in {"Minus", "Not", "AsLogical", "length", "abs", "sqrt", "sum", "as.integer",
                       "is.na", "anyNA", "c"}}
    \union {op(o, 2) : o \in {"Add", "Sub", "Mul", "Div", "IDiv", "Mod", "Eq", "Lt", "Colon",
                              "min", "c", "bitwiseAnd"}}
MCMore == {int(NA_INTEGER), real(0)}
=============================================================================
