--------------------------- MODULE MCExecuteArith ---------------------------
(* ExecuteArith on every expression of at most two operations, and of three  *)
(* of fewer kinds, written as one does: with the parentheses that the        *)
(* priorities make necessary.                                                *)
EXTENDS ExecuteArith

MC_Variables == {"a"}
MC_Images    == {"im"}
MC_Numbers   == {"0", "1"}

\* A negative number, written in parentheses.
IsNegative(t) == Len(t) = 2 /\ t[1] = "-"

\* The kind of the value of a tree.
RECURSIVE KindOf(_)
KindOf(t) ==
  CASE IsNegative(t) -> "variable"
    [] Len(t) = 1 -> IF t[1] \in MC_Images THEN "image" ELSE "variable"
    [] Len(t) = 2 -> FunctionResult(t[1], KindOf(t[2]))
    [] t[1] \in Operands -> Joined(KindOf(t[2]), KindOf(t[3]))
    [] OTHER -> MultfuncResult(t[1], KindOf(t[2]), KindOf(t[3]), KindOf(Last(t)))

\* Trees of n operations.
TreesOver(leaves, operands, functions, multfuncs) ==
  LET Trees[n \in Nat] ==
        IF n = 0 THEN leaves
        ELSE LET pairs == UNION {Trees[i] \X Trees[n - 1 - i] : i \in 0 .. n - 1}
             IN  {<<f, t>> : f \in functions, t \in Trees[n - 1]}
                   \cup {<<f, p[1], p[2]>> : f \in operands \cup multfuncs, p \in pairs}
  IN  Trees

\* One operation of every kind, two of many kinds, three of few kinds.
AllKinds  == TreesOver({<<"a">>, <<"im">>, <<"1">>, <<"-", <<"1">>>>}, Operands,
                       Elementwise \cup Statistics \cup Derivatives, DOMAIN NbVarInput \ {"trunc"})
ManyKinds == TreesOver({<<"a">>, <<"im">>, <<"-", <<"1">>>>}, {"-", "/", "^"},
                       {"sin", "imean", "imdx"}, {"min", "max", "perc"})
FewKinds  == TreesOver({<<"1">>, <<"im">>}, {"-", "/"}, {"sin"}, {"min"})

IsOperation(t) == Len(t) = 3 /\ t[1] \in Operands
IsProduct(t)   == IsOperation(t) /\ t[1] \in {"*", "/"}
IsPower(t)     == IsOperation(t) /\ t[1] = "^"
IsCall(t)      == Len(t) > 1 /\ ~IsOperation(t) /\ ~IsNegative(t)

\* How tight a tree holds; powers are always written in parentheses.
Tightness(t) == CASE ~IsOperation(t) -> 3 [] IsPower(t) -> 0 [] IsProduct(t) -> 2 [] OTHER -> 1

RECURSIVE WordsOf(_)
WordsOf(t) ==
  LET Factor(u, least) ==
        IF Tightness(u) >= least THEN WordsOf(u) ELSE <<"(">> \o WordsOf(u) \o <<")">>
  IN  CASE Len(t) = 1 -> t
        [] IsNegative(t) -> <<"(", "-">> \o t[2] \o <<")">>
        [] IsPower(t) -> Factor(t[2], 3) \o <<"^">> \o Factor(t[3], 3)
        [] IsOperation(t) -> Factor(t[2], Tightness(t)) \o <<t[1]>> \o Factor(t[3], Tightness(t) + 1)
        [] Len(t) = 2 /\ IsNegative(t[2]) -> <<t[1]>> \o WordsOf(t[2])
        [] OTHER -> <<t[1], "(">> \o FlattenSeq([k \in 1 .. Len(t) - 2 |-> WordsOf(t[k + 1]) \o <<",">>])
                      \o WordsOf(Last(t)) \o <<")">>

\* The product a tree is written from the left with.
RECURSIVE FirstProduct(_)
FirstProduct(t) ==
  IF IsOperation(t) /\ t[1] \in {"+", "-"} THEN FirstProduct(t[2]) ELSE t

\* In parentheses the first operation loses its priority: it must have none to
\* lose, or be followed by none of higher priority in its product.
WrittenSafely(t) ==
  LET p == FirstProduct(t)
  IN  IsProduct(p) => ~IsProduct(p[2]) /\ ~IsCall(p[2])

\* Every subexpression in parentheses is written safely, every power is of plain
\* operands, no argument but the first begins with a parenthesis, and no function
\* takes two images for variables.
RECURSIVE IsSafe(_)
IsSafe(t) ==
  LET Inside(u) == IsSafe(u) /\ WrittenSafely(u)
      InPar(u, least) == IF Tightness(u) >= least THEN IsSafe(u) ELSE Inside(u)
  IN  CASE Len(t) = 1 \/ IsNegative(t) -> TRUE
        [] IsPower(t) -> Len(t[2]) = 1 /\ Len(t[3]) = 1
                         /\ ~(KindOf(t[2]) = "variable" /\ KindOf(t[3]) = "image")
        [] IsOperation(t) -> InPar(t[2], Tightness(t)) /\ InPar(t[3], Tightness(t) + 1)
        [] OTHER -> /\ \A k \in 2 .. Len(t) : Inside(t[k])
                    /\ \A k \in 3 .. Len(t) : Head(WordsOf(t[k])) # "("
                    /\ ~ComparesNames(t[1], KindOf(t[2]), KindOf(Last(t)))

\* What is read as "0 - t".
Negated(t) == <<"-", <<"0">>, t>>

\* The target may be new, and it may be what the expression is about.
Targets == {"b", "a", "im", ""}

\* Of an image alone the target becomes the name, and "a = a" deletes what it
\* reads.
MC_Input(x, t) ==
  LET words == CASE x = "" -> WordsOf(t)
                 [] x # "" /\ t[1] = "-" /\ t[2] = <<"0">> -> <<x, "=">> \o Tail(WordsOf(t))
                 [] OTHER -> <<x, "=">> \o WordsOf(t)
  IN  [words |-> words, target |-> x, tree |-> t, kind |-> KindOf(t),
       safe |-> /\ KindOf(t) # "nothing" /\ IsSafe(t) /\ NegativeIsLast(words)
                /\ Len(t) = 1 => t[1] \notin MC_Images \cup {x}]

AtMostOne == AllKinds[0] \cup AllKinds[1]

MC_SmallTrees ==
  AtMostOne
    \cup {<<"trunc", x, y, z>> : x, y, z \in AllKinds[0]}
    \cup {Negated(t) : t \in {u \in AtMostOne : Tightness(u) > 1 /\ ~IsNegative(u)}}

MC_LargeTrees == {t \in ManyKinds[2] \cup FewKinds[3] : KindOf(t) # "nothing"}

MC_Inputs ==
  {MC_Input(x, t) : x \in Targets, t \in MC_SmallTrees}
    \cup {[MC_Input("b", t) EXCEPT !.words = <<"b", "=", "+">> \o WordsOf(t)] : t \in AtMostOne}
    \cup {MC_Input("b", t) : t \in MC_LargeTrees}
==============================================================================
