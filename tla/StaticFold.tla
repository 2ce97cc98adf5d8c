----------------------------- MODULE StaticFold -----------------------------
(***************************************************************************)
(* The compile-time folding of conditions                                  *)
(* (packages/views/src/conditional-folding.ts): an @if, @unless or @empty  *)
(* whose condition is known, @env, @production and @local are replaced by  *)
(* the branch that renders; the other conditionals never are.  A condition *)
(* is written token by token: literals, a path into the context, whose     *)
(* value only the renderer knows, and operators.  It is compared with what *)
(* the renderer makes of the same directive (renderer.ts), which leaves    *)
(* the condition to JavaScript.                                            *)
(***************************************************************************)
EXTENDS Naturals, Sequences, FiniteSets

CONSTANT MaxTokens      \* bound: tokens of a condition

ASSUME FoldAssumption == MaxTokens \in Nat

VARIABLES
    directive,      \* the mode of the conditional
    environment,    \* APP_ENV, of the compiler and of the renderer
    allowed,        \* the environments an @env lists
    condition       \* its tokens so far

foldVars == <<directive, environment, allowed, condition>>

\* Bound: a string holds no operator.
Strings == {"'a'", "''"}
Objects == {"[]", "{}"}
Literals == {"true", "false", "null", "undefined", "0", "1"} \cup Strings \cup Objects
Path == "path"
Operators == {"===", "&&", "||"}
Atom == Literals \cup {Path}
Lexeme == Atom \cup {"!"} \cup Operators

Environments == {"production", "local", "development"}

Conditional == directive \in {"if", "unless"}
TakesCondition == Conditional \/ directive = "empty"

FoldInit ==
    /\ directive \in {"if", "unless", "empty", "env", "production", "local"}
    /\ environment \in Environments
    /\ TakesCondition => environment = "production"
    /\ allowed \in SUBSET Environments
    /\ directive # "env" => allowed = {}
    /\ condition = <<>>
-----------------------------------------------------------------------------
(***************************************************************************)
(* evaluateStaticBoolean: the truth of a condition, or "unknown".          *)
(***************************************************************************)
\* An empty array or object is false here.
FoldsTrue(literal) == literal \notin {"false", "null", "0", "''"} \cup Objects

Truth(holds) == IF holds THEN "true" ELSE "false"

Negated(truth) == IF truth = "unknown" THEN truth ELSE Truth(truth = "false")

Has(tokens, token) == \E k \in DOMAIN tokens : tokens[k] = token

\* splitTopLevel: the pieces between neighbouring cuts.
Cuts(tokens, operator) ==
    {0, Len(tokens) + 1} \cup {k \in DOMAIN tokens : tokens[k] = operator}

Split(tokens, operator) ==
    {cut \in Cuts(tokens, operator) \X Cuts(tokens, operator) :
        /\ cut[1] < cut[2]
        /\ \A k \in Cuts(tokens, operator) : k <= cut[1] \/ cut[2] <= k}

Piece(tokens, cut) == SubSeq(tokens, cut[1] + 1, cut[2] - 1)

\* evaluateStaticLiteral: undefined is as good as unknown, and whatever begins
\* and ends with a quote is a string.
StaticLiteral(tokens) ==
    IF Len(tokens) = 1 /\ tokens[1] \in Literals \ {"undefined"} THEN tokens[1]
    ELSE IF {tokens[1], tokens[Len(tokens)]} \subseteq Strings THEN "'...'"
    ELSE "unknown"

\* Both sides of the first comparison have to be literals, undefined included.
StaticSide(tokens) ==
    IF tokens = <<"undefined">> THEN "undefined" ELSE StaticLiteral(tokens)

Compared(tokens) ==
    LET first == CHOOSE k \in DOMAIN tokens :
                     tokens[k] = "===" /\ \A l \in 1 .. k - 1 : tokens[l] # "==="
        left == StaticSide(SubSeq(tokens, 1, first - 1))
        right == StaticSide(SubSeq(tokens, first + 1, Len(tokens)))
    IN  IF "unknown" \in {left, right} THEN "unknown"
        ELSE Truth(left = right /\ left \notin Objects)

\* The first piece that has not the truth given decides.
FirstNot(truth, tokens, operator, within) ==
    LET Is(cut, t) == within[Piece(tokens, cut)] = t
        Decides(cut) ==
            /\ Is(cut, Negated(truth))
            /\ \A c \in Split(tokens, operator) : c[1] < cut[1] => Is(c, truth)
    IN  IF \A cut \in Split(tokens, operator) : Is(cut, truth) THEN truth
        ELSE IF \E cut \in Split(tokens, operator) : Decides(cut) THEN Negated(truth)
        ELSE "unknown"

\* One call, with what its recursive calls give.
StaticBoolean(tokens, within) ==
    IF StaticLiteral(tokens) # "unknown" THEN Truth(FoldsTrue(StaticLiteral(tokens)))
    ELSE IF tokens[1] = "!" THEN Negated(within[Tail(tokens)])
    ELSE IF Has(tokens, "===") THEN Compared(tokens)
    ELSE IF Has(tokens, "&&") THEN FirstNot("true", tokens, "&&", within)
    ELSE IF Has(tokens, "||") THEN FirstNot("false", tokens, "||", within)
    ELSE "unknown"

\* The calls within each other: at most that of a negation, of pieces between
\* &&, of a negation, of pieces between ||, of a negation and of an operand.
Unreached == [tokens \in Seq(Lexeme) |-> "unknown"]
Static1 == [tokens \in Seq(Lexeme) |-> StaticBoolean(tokens, Unreached)]
Static2 == [tokens \in Seq(Lexeme) |-> StaticBoolean(tokens, Static1)]
Static3 == [tokens \in Seq(Lexeme) |-> StaticBoolean(tokens, Static2)]
Static4 == [tokens \in Seq(Lexeme) |-> StaticBoolean(tokens, Static3)]
Static5 == [tokens \in Seq(Lexeme) |-> StaticBoolean(tokens, Static4)]
Static == [tokens \in Seq(Lexeme) |-> StaticBoolean(tokens, Static5)]

\* isStaticallyEmpty, of a literal that is not undefined.
FoldsEmpty(literal) == literal \in {"null", "''"} \cup Objects

\* resolveConditionalTruth
FoldedTruth ==
    CASE directive = "empty" ->
            IF StaticLiteral(condition) = "unknown" THEN "unknown"
            ELSE Truth(FoldsEmpty(StaticLiteral(condition)))
      [] directive = "env" -> Truth(environment \in allowed)
      [] directive = "production" -> Truth(environment = "production")
      [] directive = "local" -> Truth(environment \in {"local", "development"})
      [] directive = "unless" -> Negated(Static[condition])
      [] OTHER -> Static[condition]
-----------------------------------------------------------------------------
(***************************************************************************)
(* evaluateConditional of the renderer, where the path has some value.     *)
(***************************************************************************)
Truthy(literal) == literal \notin {"false", "null", "undefined", "0", "''"}

Operand(tokens, value) ==
    LET Read(token) == IF token = Path THEN value ELSE token
    IN  IF tokens[1] = "!" THEN Truth(~Truthy(Read(tokens[2]))) ELSE Read(tokens[1])

\* An array or an object is the same as itself only.
Same(left, right, value) ==
    /\ Operand(left, value) = Operand(right, value)
    /\ Operand(left, value) \in Objects => left = <<Path>> /\ right = <<Path>>

Compares(tokens, value) ==
    IF Has(tokens, "===")
    THEN \A left, right \in Split(tokens, "===") :
             left[1] < right[1] => Same(Piece(tokens, left), Piece(tokens, right), value)
    ELSE Truthy(Operand(tokens, value))

Conjunction(tokens, value) ==
    \A cut \in Split(tokens, "&&") : Compares(Piece(tokens, cut), value)

Disjunction(tokens, value) ==
    \E cut \in Split(tokens, "||") : Conjunction(Piece(tokens, cut), value)

\* evaluateExpression: a word by itself is looked up in the context, true and 1
\* too, which are not there.
Words == {"true", "false", "null", "undefined", "0", "1"}

LookedUp(tokens) == Len(tokens) = 1 /\ tokens[1] \in Words

Holds(tokens, value) == ~LookedUp(tokens) /\ Disjunction(tokens, value)

\* isViewEmpty
IsViewEmpty(tokens, value) ==
    \/ LookedUp(tokens)
    \/ Operand(tokens, value) \in {"null", "undefined", "''"} \cup Objects

Renders(value) ==
    CASE directive = "empty" -> IsViewEmpty(condition, value)
      [] directive = "env" -> environment \in allowed
      [] directive = "production" -> environment = "production"
      [] directive = "local" -> environment = "local"
      [] directive = "unless" -> ~Holds(condition, value)
      [] OTHER -> Holds(condition, value)

\* foldTemplateOps, then renderOps: whether the body of the directive is shown.
FoldedRenders(value) ==
    IF FoldedTruth = "unknown" THEN Renders(value) ELSE FoldedTruth = "true"
-----------------------------------------------------------------------------
\* A condition begins like a part of it after an operator.
Before == IF condition = <<>> THEN "&&" ELSE condition[Len(condition)]

WantsOperand == Before \in Operators \cup {"!"}

WriteToken(token) ==
    /\ Len(condition) < MaxTokens
    /\ condition' = Append(condition, token)
    /\ UNCHANGED <<directive, environment, allowed>>

WriteOperand == TakesCondition /\ WantsOperand /\ \E token \in Atom : WriteToken(token)

\* Bound: an @empty is given one operand.  No other is folded, but for two
\* strings with something between them.
WriteNot == Conditional /\ Before \in Operators /\ WriteToken("!")

\* Bound: comparisons are not compared again.
WriteOperator(operator) ==
    /\ Conditional /\ ~WantsOperand
    /\ operator = "===" =>
           \A k \in DOMAIN condition :
               condition[k] = "===" => \E l \in k .. Len(condition) : condition[l] \in {"&&", "||"}
    /\ WriteToken(operator)

FoldNext == WriteOperand \/ WriteNot \/ \E operator \in Operators : WriteOperator(operator)

FoldSpec == FoldInit /\ [][FoldNext]_foldVars
-----------------------------------------------------------------------------
\* What is known to be misread.  By the compiler: a negation before other
\* operators is taken for the negation of all of them, && for the weaker of &&
\* and ||, two strings with anything between them for one, an empty array or
\* object that is not compared for false, and @local holds in development when it
\* is folded.  By the renderer: a word by itself is missing from the context, so
\* that true and 1 are falsy, and empty as false and 0 are.
Misread ==
    \/ directive = "local" /\ environment = "development"
    \/ condition # <<>> /\ condition[1] = "!" /\ \E operator \in Operators : Has(condition, operator)
    \/ Has(condition, "&&") /\ Has(condition, "||")
    \/ Cardinality({k \in DOMAIN condition : condition[k] \in Strings}) > 1
    \/ Conditional /\ ~Has(condition, "===") /\ \E o \in Objects : Has(condition, o)
    \/ Conditional /\ condition \in {<<"true">>, <<"1">>}
    \/ directive = "empty" /\ condition \in {<<"true">>, <<"false">>, <<"0">>, <<"1">>}

\* A template renders the same whether its conditions are folded or not:
\* whatever the path is, folding decides only what is decided, but for what
\* is misread.
FoldsOnlyWhatIsKnown ==
    (TakesCondition => ~WantsOperand) /\ ~Misread
        => \A value \in Literals : FoldedRenders(value) = Renders(value)
=============================================================================
