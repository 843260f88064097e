----------------------------- MODULE MCSubscript -----------------------------
EXTENDS SubscriptTiers

MCOps1 == {"Extract1_1D", "Extract2_1D", "Subassign1_1D", "Subassign2_1D", "SetVecElt"}
MCOps2 == {"Extract1_2D", "Extract2_2D", "Extract1_3D",
           "Subassign1_2D", "Subassign2_2D", "Subassign1_3D"}

half == One \div 2
ints(v, at_) == Sexp("INTSXP", v, at_)
listOf(v, at_) == Sexp("VECSXP", v, at_)
MCVectors ==
    {ints(<<>>, "none"), ints(<<5>>, "none"), ints(<<1, NA_INTEGER, 3>>, "none"),
     ints(<<1, 2>>, "names"), ints(<<1>>, "class"),
     Sexp("REALSXP", <<half, NaN>>, "none"), real(One),
     Sexp("LGLSXP", <<0, 1>>, "none"),
     listOf(<<elt(int(1)), elt(real(half))>>, "none"), listOf(<<elt(int(1))>>, "none"),
     R_NilValue}
MCIndices ==
    {int(i) : i \in {NA_INTEGER, -1, 0, 1, 4}}
    \union {real(r) : r \in {NaN, Inf, -One, half, One, One + half, 3 * One}}
    \union {lgl(1), ints(<<1, 2>>, "none"), ints(<<>>, "none"),
            ints(<<1>>, "names"), Sexp("STRSXP", <<0>>, "none")}
MCStored == {int(4), int(NA_INTEGER), real(half), ints(<<1, 2>>, "none"),
             ints(<<>>, "none"), R_NilValue}

MCMatrices ==
    {ints(<<1, 2, 3, 4, 5, 6>>, "dim"), Sexp("REALSXP", <<0, NaN, One, half>>, "dim"),
     listOf(<<elt(int(1)), elt(int(2))>>, "dim"), ints(<<1, 2, 3>>, "none"),
     ints(<<1, 2>>, "class")}
MCIndices2 ==
    {int(i) : i \in {NA_INTEGER, -1, 1, 2}}
    \union {real(r) : r \in {NaN, Inf, half, 2 * One}}
    \union {ints(<<1, 2>>, "none"), Sexp("STRSXP", <<0>>, "none")}
MCStored2 == {int(4), int(NA_INTEGER), real(half), ints(<<1, 2>>, "none"), R_NilValue}

MCNextIndices == {int(3), real(half)}
MCNextStored == {real(half)}
=============================================================================
