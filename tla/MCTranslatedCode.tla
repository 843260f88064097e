--------------------------- MODULE MCTranslatedCode ---------------------------
(***************************************************************************)
(* Programs for TranslatedCode: every construct the compiler knows around two *)
(* expressions, in a function, in a loop and in a promise.                  *)
(***************************************************************************)
EXTENDS TranslatedCode

x == Sym("x")
break == Lang("Break", << >>)
next == Lang("Next", << >>)
leave == Lang("Return", << Const >>)
Block(s) == Lang("Block", s)
Assign(l, r) == Lang("Assign", << l, r >>)

\* All constructs with the parts a and b.
Constructs(a, b) ==
    {Lang(f, << a, b >>) : f \in {"Add", "Le", "And", "Or", "Block", "If", "Bracket",
                                  "DoubleBracket", "While", "f", "c", "Assign2"}} \cup
    {Lang(f, << a >>) : f \in {"Sub", "quote", "Parenthesis", "Return", "isnull", "Repeat", "rm", "f"}} \cup
    {Lang("Block", << >>), Lang("Return", << >>), Lang("Missing", << x >>),
     Lang("Function", << Const, Const, Const >>),
     Assign(x, a), Lang("SuperAssign", << x, a >>),
     Assign(Lang("Bracket", << x, a >>), b), Assign(Lang("DoubleBracket", << x, a, b >>), Const),
     Lang("SuperAssign", << Lang("Bracket", << x, a, Missing, Const >>), b >>),
     Assign(Lang("g", << x, a >>), b), Assign(Lang("g", << Str, Dots >>), b),
     Assign(Lang("class", << x >>), a), Assign(Lang("g", << Lang("g", << x >>) >>), a),
     Lang("If", << Const, a, b >>),
     Lang("For", << x, a, b >>), Lang("For", << x, Lang("Colon", << a, Const >>), b >>),
     Lang("For", << x, Lang("Colon", << Const, Const >>), b >>),
     Lang("Switch", << >>), Lang("Switch", << a >>), Lang("Switch", << a, b >>),
     Lang("Switch", << a, Tagged("y", Missing), Tagged("z", b), Missing >>),
     Lang("Switch", << Tagged("y", a), b >>), Lang("Switch", << a, b, Const >>),
     Lang("Switch", << a, Dots >>),
     Lang("Internal", << Lang("vapply", << a, b >>) >>),
     Lang("Internal", << Lang("vapply", << a, Dots, Missing >>) >>),
     Lang("Internal", << Lang("lapply", << a, Sym("f") >>) >>),
     Lang("Internal", << Lang("other", << a >>) >>),
     Lang("f", << Tagged("y", a), Missing >>), Lang("f", << a, Dots >>), Lang("c", << a, Dots >>),
     Lang("forceAndCall", << Const, a, b >>), Apply(a, << b >>),
     Lang("Bracket", << x, a, b, Const >>), Lang("Bracket", << x, Dots >>),
     Lang("f", << Sym("..1") >>)}

Parts == UNION {Constructs(a, b) : a \in {x, break, leave}, b \in {Const, next, leave}}
Few == UNION {Constructs(a, b) : a \in {x, break}, b \in {x, next}}

Bodies ==
    Parts \cup
    {Lang("While", << x, e >>) : e \in Parts} \cup
    UNION {{Lang("For", << Sym("y"), x, Lang("f", << e >>) >>),
            Lang("Repeat", << Lang("f", << Lang("f", << e >>) >>) >>)} : e \in Few} \cup
    UNION {{Lang("While", << Const, Lang("Repeat", << e >>) >>),
            Lang("For", << Sym("y"), Lang("Colon", << x, e >>), Block(<< e, Lang("rm", << x >>) >>) >>)} :
               e \in Constructs(x, break)}

\* Programs that are also translated.
MCTranslated ==
    {[formals |-> << Missing >>, body |-> e] :
        e \in {Lang("While", << x, Lang("If", << x, Assign(x, Const), break >>) >>),
               Lang("For", << x, x, Const >>),
               Lang("For", << x, Lang("Colon", << x, Const >>), Const >>),
               Lang("Repeat", << Lang("If", << Lang("And", << x, x >>), leave >>) >>),
               Lang("Internal", << Lang("lapply", << x, Sym("f") >>) >>),
               Lang("Repeat", << Lang("f", << break >>) >>), Lang("While", << x, Lang("f", << x, x >>) >>),
               Lang("c", << x, Lang("f", << x >>) >>), Apply(Lang("f", << x >>), << x, Dots >>),
               Lang("Bracket", << x, x, x >>), Lang("Switch", << x >>), Lang("f", << x, Dots >>),
               Assign(Lang("g", << x, x >>), Lang("Function", << Const, Const, Const >>)),
               Assign(Lang("Bracket", << x, Lang("Sub", << x >>) >>), Lang("Or", << x, x >>)),
               Lang("Internal", << Lang("vapply", << x, Dots, x >>) >>)}}

MCPrograms == MCTranslated \cup
              {[formals |-> << Missing >>, body |-> e] : e \in Bodies} \cup
              {[formals |-> << e, Missing >>, body |-> Const] : e \in Few}

MCNoCodes == {<< Written(Op("ret_")) >>}

=============================================================================
