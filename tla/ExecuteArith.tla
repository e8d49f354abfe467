---------------------------- MODULE ExecuteArith ----------------------------
(***************************************************************************)
(* execute_arith, which computes an expression over variables and images.  *)
(*                                                                         *)
(* The words of the expression, with "target =" in front or not, are       *)
(* classified and checked.  Then, one operation at a time, parentheses     *)
(* around one word are removed, the operation of highest priority is       *)
(* executed, and its words are replaced by the name of a temporary         *)
(* variable or image that holds the result, until one word is left.        *)
(*                                                                         *)
(* Words are names, not characters.  The value of a variable or an image   *)
(* is the expression it is the result of, as a tree: an operation or a     *)
(* function followed by the values it is applied to.                       *)
(***************************************************************************)
EXTENDS Integers, Sequences, SequencesExt

CONSTANTS
  Variables, Images, Numbers,  \* names of variables and images, numbers (as words)
  Inputs,                      \* the expressions given to it, see below
  MaxWords                     \* words of the longest of them

\* An expression: its words, its target ("" for none), the tree it is written
\* for and the kind of its value; and whether it is written so that the code is
\* to compute that tree.
ASSUME WordsAssumption ==
  /\ MaxWords \in Nat
  /\ \A e \in Inputs : /\ DOMAIN e = {"words", "target", "tree", "kind", "safe"}
                     /\ Len(e.words) < MaxWords

VARIABLES
  input,                      \* the expression
  word, word_type, nbword,    \* arrays of words and of their types, words in use
  intr_priority,              \* array of priorities, kept from one operation to the next
  highest_priority_index,
  tmp_name_index,
  type,                       \* type of the last result
  variable, image,            \* the variables and images there are, with their values
  printed,                    \* value printed
  pc

wordVars == <<word, word_type, nbword>>
dataVars == <<variable, image>>
vars == <<input, wordVars, intr_priority, highest_priority_index, tmp_name_index, type,
          dataVars, printed, pc>>

------------------------------------------------------------------------------
(* Words and their types.                                                  *)

Operands == {"+", "-", "*", "/", "^"}

\* isfunction: functions of one variable or image.
Elementwise == {"acos", "asin", "atan", "ceil", "cos", "cosh", "exp", "fabs", "floor", "ln",
                "log", "sqrt", "sin", "sinh", "tan", "tanh", "posi"}
Statistics  == {"imedian", "itot", "imean", "imin", "imax"}
Derivatives == {"imdx", "imdy"}

\* Fault: trunc is not known to have three.
NbVarInputOfTwo == [w \in {"fmod", "trunc", "perc", "min", "max", "testlt", "testmt"} |-> 2]

\* isfunction_sev_var: functions of several, with how many.
NbVarInput == [w \in {"fmod", "trunc", "perc", "min", "max", "testlt", "testmt"} |->
                 IF w = "trunc" THEN 3 ELSE 2]

WordType(w) ==
  CASE w \in Numbers                                   -> "number"
    [] w \in Elementwise \cup Statistics \cup Derivatives -> "function"
    [] w \in DOMAIN NbVarInput                         -> "multfunc"
    [] w \in Operands                                  -> "operand"
    [] w = "="                                         -> "equal"
    [] w = ","                                         -> "coma"
    [] w = "("                                         -> "openpar"
    [] w = ")"                                         -> "closepar"
    [] w \in Variables                                 -> "variable"
    [] w \in Images                                    -> "image"
    [] OTHER                                           -> "notexist"

Data       == {"variable", "image"}
Operations == {"operand", "function", "multfunc"}

TmpName(i) == <<"_tmp0", "_tmp1", "_tmp2", "_tmp3", "_tmp4", "_tmp5", "_tmp6", "_tmp7",
                "_tmp8", "_tmp9", "_tmp10", "_tmp11">>[i + 1]

Places == 0 .. MaxWords - 1
InUse  == 0 .. nbword - 1

\* "=-" is read as "=0-" and "=+" as "=".
Preprocessed(words) ==
  LET Read(k) == CASE k = 1 \/ words[k - 1] # "=" -> <<words[k]>>
                   [] words[k] = "-" -> <<"0", "-">>
                   [] words[k] = "+" -> <<>>
                   [] OTHER -> <<words[k]>>
  IN  FlattenSeq([k \in DOMAIN words |-> Read(k)])

Init ==
  /\ input \in Inputs
  /\ LET words == Preprocessed(input.words)
     IN  /\ nbword = Len(words)
         /\ word = [i \in Places |-> IF i < nbword THEN words[i + 1] ELSE "?"]
         /\ word_type = [i \in Places |-> IF i < nbword THEN WordType(words[i + 1]) ELSE "unknown"]
  /\ intr_priority = [i \in Places |-> 0] /\ highest_priority_index = -1
  /\ tmp_name_index = 0 /\ type = "unknown"
  /\ variable = [w \in Variables |-> <<w>>] /\ image = [w \in Images |-> <<w>>]
  /\ printed = <<>> /\ pc = "check"

------------------------------------------------------------------------------
(* The checks, and the numbers saved into variables.                       *)

IsAt(i, t) == word_type[i] = t

\* The words right of the last "=".
ToBeProcessed == {i \in InUse : \A j \in i .. nbword - 1 : ~IsAt(j, "equal")}
nb_tbp_word == Cardinality(ToBeProcessed)

\* Open parentheses up to place i.
ParLevel(i) ==
  Cardinality({j \in 0 .. i : IsAt(j, "openpar")}) - Cardinality({j \in 0 .. i : IsAt(j, "closepar")})

OKea ==
  /\ \A i \in ToBeProcessed : ~IsAt(i, "notexist")
  /\ \A i \in InUse \ ToBeProcessed :
       /\ word_type[i] \notin {"operand", "openpar", "closepar"}
       /\ IsAt(i, "equal") => \A j \in i + 1 .. nbword - 1 : ~IsAt(j, "equal")
  /\ \A i \in 0 .. nbword - 2 :
       /\ ~(IsAt(i, "operand") /\ IsAt(i + 1, "operand"))
       /\ IsAt(i + 1, "openpar") =>
            word_type[i] \in {"openpar", "function", "multfunc", "equal", "operand"}
  /\ \A i \in InUse : ParLevel(i) >= 0
  /\ ParLevel(nbword - 1) = 0

Checks ==
  /\ pc = "check"
  /\ IF OKea
     THEN LET places == {i \in InUse : IsAt(i, "number")}
              TmpOf(i) == TmpName(Cardinality({j \in places : j < i}))
          IN  /\ word' = [i \in Places |-> IF i \in places THEN TmpOf(i) ELSE word[i]]
              /\ word_type' = [i \in Places |->
                                 IF i \in places THEN "variable" ELSE word_type[i]]
              /\ variable' = [w \in {TmpOf(i) : i \in places} |->
                                <<word[CHOOSE i \in places : TmpOf(i) = w]>>] @@ variable
              /\ tmp_name_index' = Cardinality(places)
              /\ pc' = "loop"
     ELSE pc' = "rejected" /\ UNCHANGED <<word, word_type, variable, tmp_name_index>>
  /\ UNCHANGED <<input, nbword, intr_priority, highest_priority_index, type, image, printed>>

------------------------------------------------------------------------------
(* Non necessary parentheses.                                              *)

\* An array of which n places are in use, with x at place i instead of what
\* was there and of the k places behind it.
Replaced(a, n, i, x, k) ==
  [j \in Places |-> IF j = i THEN x ELSE IF i < j /\ j < n - k THEN a[j + k] ELSE a[j]]

\* An array that keeps of its n places in use the given ones.
Keeps(a, n, kept) ==
  LET places == SelectSeq([j \in 1 .. n |-> j - 1], LAMBDA j : j \in kept)
  IN  [j \in Places |-> IF j < Len(places) THEN a[places[j + 1]] ELSE a[j]]

\* "( x )" becomes "x", in one pass from left to right: parentheses around
\* parentheses are left for the next operation.
Unwraps ==
  LET wrapped == {i \in 0 .. nbword - 3 : IsAt(i, "openpar") /\ IsAt(i + 2, "closepar")}
      kept    == {i \in InUse : i \notin wrapped /\ i - 2 \notin wrapped}
  IN  /\ pc = "loop" /\ nb_tbp_word > 1
      /\ word' = Keeps(word, nbword, kept)
      /\ word_type' = Keeps(word_type, nbword, kept)
      /\ nbword' = Cardinality(kept)
      /\ pc' = "negate"
      /\ UNCHANGED <<input, intr_priority, highest_priority_index, tmp_name_index, type,
                     dataVars, printed>>

\* "( - x )" becomes "x", whose value has been negated.  The words behind are
\* moved to two places behind x: the "-" is left behind x in the place of the
\* word that followed, if one did.
Negates ==
  LET at       == {i \in 0 .. nbword - 4 :
                     IsAt(i, "openpar") /\ word[i + 1] = "-" /\ IsAt(i + 3, "closepar")}
      Moved(a) == [i \in Places |-> IF i \in at THEN a[i + 2] ELSE a[i]]
      dropped  == UNION {IF i + 4 < nbword THEN i + 2 .. i + 4 ELSE i + 1 .. i + 3 : i \in at}
      IsOdd(w) == Cardinality({i \in at : word[i + 2] = w}) % 2 = 1
  IN  /\ pc = "negate"
      /\ word' = Keeps(Moved(word), nbword, InUse \ dropped)
      /\ word_type' = Keeps(Moved(word_type), nbword, InUse \ dropped)
      /\ nbword' = Cardinality(InUse \ dropped)
      /\ variable' = [w \in DOMAIN variable |->
                        IF IsOdd(w) THEN <<"-", variable[w]>> ELSE variable[w]]
      /\ pc' = "choose"
      /\ UNCHANGED <<input, intr_priority, highest_priority_index, tmp_name_index, type, image,
                     printed>>

------------------------------------------------------------------------------
(* The operation of highest priority.                                      *)

\* "^" is given no priority: it has the one of the operation that was at its
\* place before.
Priority(i) ==
  CASE word[i] \in {"+", "-"} -> 0
    [] word[i] \in {"*", "/"} -> 1
    [] word_type[i] \in {"function", "multfunc"} -> 2
    [] OTHER -> intr_priority[i]

\* The places of the operations in the deepest parentheses.
Deepest ==
  LET places == {i \in InUse : word_type[i] \in Operations}
  IN  {i \in places : \A j \in places : ParLevel(j) <= ParLevel(i)}

\* The first operation of a level deeper than those before is taken as one of
\* priority 0, whatever it is.
Taken(i) ==
  IF ParLevel(i) > 0 /\ \A j \in Deepest : i <= j THEN 0 ELSE Priority(i)

\* Fault: of two of the same priority the right one goes first.
PrecedesFromRight(i, j) == Taken(i) > Taken(j) \/ (Taken(i) = Taken(j) /\ i > j)

\* One goes before another with a higher priority, or with the same to its
\* left.
Precedes(i, j) == Taken(i) > Taken(j) \/ (Taken(i) = Taken(j) /\ i < j)

Chooses ==
  /\ pc = "choose"
  /\ intr_priority' = [i \in Places |-> IF i \in InUse THEN Priority(i) ELSE intr_priority[i]]
  /\ highest_priority_index' =
       IF Deepest = {} THEN -1
       ELSE CHOOSE i \in Deepest : \A j \in Deepest \ {i} : Precedes(i, j)
  /\ pc' = "execute"
  /\ UNCHANGED <<input, wordVars, tmp_name_index, type, dataVars, printed>>

------------------------------------------------------------------------------
(* Execution.  Each of the three puts the name of a temporary at one place *)
(* and drops the words behind that it used.                                *)

\* Reading a variable or an image that does not exist yields anything.
Anything == <<"?">>
ValueIn(m, w) == IF w \in DOMAIN m THEN m[w] ELSE Anything
ValueAt(i) ==
  IF i \notin Places THEN Anything
  ELSE IF IsAt(i, "image") THEN ValueIn(image, word[i]) ELSE ValueIn(variable, word[i])
TypeAt(i) == IF i \in Places THEN word_type[i] ELSE "unknown"

\* A combination of types for which nothing is computed still gives the name,
\* with the type of the result before; `made` is the kind of what is made, `t`
\* the type it is given.
Puts(i, k, made, t, value) ==
  LET name == TmpName(tmp_name_index)
      last == IF made = "nothing" THEN type ELSE t
  IN  /\ variable' = IF made = "variable" THEN (name :> value) @@ variable ELSE variable
      /\ image' = IF made = "image" THEN (name :> value) @@ image ELSE image
      /\ type' = last
      /\ tmp_name_index' = IF made = "nothing" THEN tmp_name_index ELSE tmp_name_index + 1
      /\ word' = Replaced(word, nbword, i, name, k)
      /\ word_type' = Replaced(word_type, nbword, i, last, k)
      /\ nbword' = nbword - k

\* Kind of the result of an operation on two: an image when one of them is.
Joined(x, y) ==
  IF ~({x, y} \subseteq Data) THEN "nothing" ELSE IF "image" \in {x, y} THEN "image" ELSE "variable"

\* variable ^ image adds the variable to the image before.
OperandValue(op, i) ==
  IF op = "^" /\ TypeAt(i - 1) = "variable" /\ TypeAt(i + 1) = "image"
  THEN <<"^", <<"+", ValueAt(i + 1), ValueAt(i - 1)>>, ValueAt(i + 1)>>
  ELSE <<op, ValueAt(i - 1), ValueAt(i + 1)>>

ExecutesOperand(h) ==
  LET made == Joined(TypeAt(h - 1), TypeAt(h + 1))
  IN  /\ IsAt(h, "operand")
      /\ Puts(h - 1, 2, made, made, OperandValue(word[h], h))
      /\ pc' = "loop"

FunctionResult(f, x) ==
  CASE x = "image" /\ f \in Statistics -> "variable"
    [] x = "image" /\ f \notin Statistics -> "image"
    [] x = "variable" /\ f \in Elementwise -> "variable"
    [] OTHER -> "nothing"

\* imdx and imdy of a variable end the program.
ExecutesFunction(h) ==
  LET made == FunctionResult(word[h], TypeAt(h + 1))
  IN  /\ IsAt(h, "function")
      /\ IF word[h] \in Derivatives /\ TypeAt(h + 1) = "variable"
         THEN pc' = "exited" /\ UNCHANGED <<wordVars, tmp_name_index, type, dataVars>>
         ELSE /\ Puts(h, 1, made, made, <<word[h], ValueAt(h + 1)>>)
              /\ pc' = "loop"

\* max, testlt and testmt compare two images as if they were variables, and
\* say that the variable made is an image.
AsVariables == {"max", "testlt", "testmt"}
ComparesNames(f, x, y) == f \in AsVariables /\ x = "image" /\ y = "image"

MultfuncResult(f, x, y, z) ==
  CASE f = "min" -> Joined(x, y)
    [] f = "fmod" -> IF x = "variable" /\ y = "image" THEN "nothing" ELSE Joined(x, y)
    [] ComparesNames(f, x, y) -> "variable"
    [] f = "max" /\ x = "image" /\ y = "variable" -> "image"
    [] f = "perc" /\ x = "image" /\ y = "variable" -> "variable"
    [] f = "trunc" /\ x = "image" /\ y = "variable" /\ z = "variable" -> "image"
    [] OTHER -> "nothing"

\* The arguments are at every other place: "f ( x , y )".
ExecutesMultfunc(h) ==
  LET f     == word[h]
      n     == NbVarInput[f]
      made  == MultfuncResult(f, TypeAt(h + 2), TypeAt(h + 4), TypeAt(h + 6))
      names == ComparesNames(f, TypeAt(h + 2), TypeAt(h + 4))
      value == IF names THEN Anything ELSE <<f>> \o [a \in 1 .. n |-> ValueAt(h + 2 * a)]
  IN  /\ IsAt(h, "multfunc")
      /\ Puts(h, 2 * n + 1, made, IF names THEN "image" ELSE made, value)
      /\ pc' = "loop"

\* word_type[-1], read when no operation was found, is taken not to be one.
ExecutesNothing(h) ==
  /\ h = -1
  /\ pc' = "loop"
  /\ UNCHANGED <<wordVars, tmp_name_index, type, dataVars>>

Executes ==
  LET h == highest_priority_index
  IN  /\ pc = "execute"
      /\ \/ h # -1 /\ (ExecutesOperand(h) \/ ExecutesFunction(h) \/ ExecutesMultfunc(h))
         \/ ExecutesNothing(h)
      /\ UNCHANGED <<input, intr_priority, highest_priority_index, printed>>

------------------------------------------------------------------------------
(* The result, and the end.                                                *)

Without(m, names) == [w \in DOMAIN m \ names |-> m[w]]

\* A variable is created with the result; an image is renamed, and so is lost
\* to its own name.  Without a target a variable is printed.
Assigns ==
  /\ pc = "loop" /\ nb_tbp_word <= 1
  /\ IF nbword > 2
     THEN LET target == word[0]
              v      == Without(variable, {target})
              im     == Without(image, {target})
          IN  /\ IF IsAt(1, "equal")
                 THEN /\ variable' = IF IsAt(2, "variable")
                                     THEN (target :> ValueIn(v, word[2])) @@ v ELSE v
                      /\ image' = IF IsAt(2, "image") /\ word[2] \in DOMAIN im
                                  THEN (target :> im[word[2]]) @@ Without(im, {word[2]}) ELSE im
                 ELSE UNCHANGED dataVars
              /\ UNCHANGED printed
     ELSE printed' = ValueIn(variable, word[0]) /\ UNCHANGED dataVars
  /\ pc' = "clean"
  /\ UNCHANGED <<input, wordVars, intr_priority, highest_priority_index, tmp_name_index, type>>

TmpNames(n) == {TmpName(i) : i \in 0 .. n - 1}

DeletesTmps ==
  /\ pc = "clean" /\ pc' = "done"
  /\ variable' = Without(variable, TmpNames(tmp_name_index))
  /\ image' = Without(image, TmpNames(tmp_name_index))
  /\ UNCHANGED <<input, wordVars, intr_priority, highest_priority_index, tmp_name_index, type, printed>>

Next == Checks \/ Unwraps \/ Negates \/ Chooses \/ Executes \/ Assigns \/ DeletesTmps

\* The program computes without waiting for anything.
Spec == Init /\ [][Next]_vars /\ WF_vars(Next)

------------------------------------------------------------------------------
(* Properties.                                                             *)

\* An expression leaves one result and nothing else: the target, whatever it
\* was, holds the value of the expression, or the value is printed; all other
\* variables and images are as they were, and no temporary is left.
Computes ==
  LET t  == IF input.target = "" THEN {} ELSE {input.target}
      v0 == Without([w \in Variables |-> <<w>>], t)
      i0 == Without([w \in Images |-> <<w>>], t)
      New(kind) == IF input.kind = kind THEN [w \in t |-> input.tree] ELSE <<>>
  IN  input.safe =>
        /\ pc \notin {"rejected", "exited"}
        /\ pc = "done" => /\ variable = New("variable") @@ v0
                          /\ image = New("image") @@ i0
                          /\ t = {} /\ input.kind = "variable" => printed = input.tree

\* Nothing follows a negative number in parentheses.
NegativeIsLast(words) ==
  \A i \in 1 .. Len(words) - 1 : words[i] = "(" /\ words[i + 1] = "-" => i + 3 = Len(words)

\* Every expression comes to an end, also one whose operations are not taken in
\* the right order: the words to be processed become fewer with every operation.
\* What follows "(-1)" is lost, and if it is a parenthesis nothing ends.
Ends == NegativeIsLast(input.words) => <>(pc \in {"done", "rejected", "exited"})
==============================================================================
