---------------------------------- MODULE MCEGraph ----------------------------------
EXTENDS EGraph, TLC

Atom(f, x, y) == [fn |-> f, arg |-> x, val |-> y]
Do(o, f, x, y) == [op |-> o, fn |-> f, arg |-> x, val |-> y]
NoConst == [n \in {} |-> 0]
\* b is a base value, the other names are ids.
Types == [n \in {"b", "w", "x", "y", "z"} |-> IF n = "b" THEN "lit" ELSE "id"]
Rule(atoms, acts) ==
    [atoms |-> atoms, acts |-> acts, consts |-> NoConst, type |-> Types, seminaive |-> TRUE]

\* num names bases, f, g and tag take ids; tag has values that must not conflict.
Setup == [Rule(<<>>, <<Do("lookup", "num", "b", "x"), Do("lookup", "f", "x", "y")>>)
            EXCEPT !.consts = [n \in {"b"} |-> 100]]
Inv   == Rule(<<Atom("f", "x", "y"), Atom("f", "y", "z")>>, <<Do("union", "", "x", "z")>>)
Grow  == Rule(<<Atom("f", "x", "y")>>, <<Do("lookup", "g", "y", "z"), Do("union", "", "x", "z")>>)
Hide  == Rule(<<Atom("f", "x", "y"), Atom("f", "y", "x")>>, <<Do("subsume", "f", "x", "w"), Do("subsume", "g", "y", "w")>>)
Drop  == [Rule(<<Atom("f", "x", "y"), Atom("num", "b", "x")>>, <<Do("remove", "f", "y", "y")>>)
            EXCEPT !.seminaive = FALSE]
Tag   == Rule(<<Atom("num", "b", "x")>>, <<Do("set", "tag", "x", "b")>>)
Get   == [Rule(<<Atom("f", "x", "y")>>, <<Do("lookup", "tag", "y", "b")>>)
            EXCEPT !.type["b"] = "base"]
Stop  == Rule(<<Atom("f", "x", "y"), Atom("f", "y", "x")>>, <<Do("panic", "", "x", "x")>>)

\* num(b) is 0; f and g are negation, or the identity.
Bits == {0, 1}
NegationAndIdentity ==
    {[t \in Term |-> IF t[2] \in Bits /\ t[1] # "num" THEN 1 - t[2] ELSE 0],
     [t \in Term |-> IF t[2] \in Bits /\ t[1] # "num" THEN t[2] ELSE 0]}

\* Creates a term and subsumes it, in one rule.
Make  == Rule(<<Atom("num", "b", "x")>>, <<Do("lookup", "f", "x", "y"), Do("subsume", "f", "x", "w")>>)
MakeProgram == [make |-> Make]
MakeCalls == {{"make"}}

Program == [setup |-> Setup, inv |-> Inv, grow |-> Grow, hide |-> Hide, drop |-> Drop,
            tag |-> Tag, get |-> Get, stop |-> Stop]
Calls == {{"setup", "tag"}, {"inv", "hide"}, {"grow"}, {"drop"}, {"get", "stop"}}

\* Unlike those of MakeProgram, the rules of Program subsume what their atoms match.
ASSUME SubsumesAssumption == Rules = Program => SubsumesSafe
=============================================================================
