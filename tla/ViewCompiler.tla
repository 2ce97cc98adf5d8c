---------------------------- MODULE ViewCompiler ----------------------------
(***************************************************************************)
(* compile() of packages/views/src/compiler.ts: how the blocks of a        *)
(* template are cut out line by line.  The compiler has to find from the   *)
(* lines alone what the writer of Template meant.                          *)
(***************************************************************************)
EXTENDS Template

(***************************************************************************)
(* The compiler.  It works on chunks of the source: sequences of the       *)
(* numbers of lines.  The outcome is the operations, an error or a loop    *)
(* that never ends.                                                        *)
(***************************************************************************)
Compiled(ops) == [outcome |-> "ops", ops |-> ops]
Fails(why) == [outcome |-> why, ops |-> {}]

\* What is compiled one after the other: the first error ends it.
first ++ second ==
    IF first.outcome # "ops" THEN first
    ELSE IF second.outcome # "ops" THEN second
    ELSE Compiled(first.ops \cup second.ops)

From(chunk, k) == SubSeq(chunk, k, Len(chunk))
Upto(chunk, k) == SubSeq(chunk, 1, k)

Count(src, chunk, is, of) == Cardinality({k \in DOMAIN chunk : Is(src, chunk[k], is, of)})

\* Places at which as many blocks of the directive were opened as closed.
Level(src, chunk, of) ==
    {k \in DOMAIN chunk : Count(src, Upto(chunk, k - 1), "open", of)
                            = Count(src, Upto(chunk, k - 1), "close", of)}

\* Mutant: the first end, whatever was opened before it.
FirstEnd(src, chunk, of) ==
    Boundary(chunk, {k \in DOMAIN chunk : Is(src, chunk[k], "close", of)})

\* findNestedEnd: past the chunk stands for its error.
NestedEnd(src, chunk, of) ==
    Boundary(chunk, {k \in Level(src, chunk, of) : Is(src, chunk[k], "close", of)})

\* findForelseEmptyBoundary
EmptyBoundary(src, chunk) ==
    Boundary(chunk, {k \in Level(src, chunk, "forelse") : src[chunk[k]].is = "empty"})

\* findBlockBoundary: a branch of any @if, or an echo at the start of a line.
BranchBoundary(src, chunk) ==
    Boundary(chunk, {k \in DOMAIN chunk :
        \/ src[chunk[k]].is \in {"elseif", "else"}
        \/ src[chunk[k]].is = "echo" /\ src[chunk[k]].column = 0})

\* findSwitchChunkEnd: of any @switch.
SwitchBoundary(src, chunk) ==
    Boundary(chunk, {k \in DOMAIN chunk : /\ src[chunk[k]].of = "switch"
                                          /\ src[chunk[k]].is # "break"})

\* stripBreakLines
WithoutBreaks(src, chunk) == SelectSeq(chunk, LAMBDA i : src[i].is # "break")

RECURSIVE ParseOps(_, _, _), ParseBranches(_, _, _), ParseCases(_, _, _, _, _),
          ParseSlots(_, _, _)

\* parseSlotAwareBody: the content of the slots, and what is around them.
ParseSlots(src, chunk, path) ==
    LET slots == {k \in DOMAIN chunk : Is(src, chunk[k], "open", "slot")}
        rest == Tail(chunk)
        end == NestedEnd(src, rest, "slot")
        next == Boundary(chunk, slots)
    IN  CASE chunk = <<>> -> Compiled({})
          [] next = 1 ->
                IF end > Len(rest) THEN Fails("unclosed")
                ELSE ParseOps(src, Upto(rest, end - 1), Append(path, If(chunk[1])))
                     ++ ParseSlots(src, From(rest, end + 1), path)
          [] OTHER -> ParseOps(src, Upto(chunk, next - 1), path)
                      ++ ParseSlots(src, From(chunk, next), path)

\* splitConditionalBranches and flattenBranches: an echo that is found as a
\* boundary is skipped.
ParseBranches(src, chunk, path) ==
    LET i == Head(chunk)
        next == BranchBoundary(src, chunk)
    IN  CASE chunk = <<>> -> Compiled({})
          [] src[i].is = "elseif" ->
                ParseBranches(src, Tail(chunk), Append(OtherwiseOf(path), If(i)))
          [] src[i].is = "else" -> ParseBranches(src, Tail(chunk), OtherwiseOf(path))
          [] next = 1 -> ParseBranches(src, Tail(chunk), path)
          [] OTHER -> ParseOps(src, Upto(chunk, next - 1), path)
                      ++ ParseBranches(src, From(chunk, next), path)

\* splitSwitchCases: lines before the first @case are skipped; cases are tried
\* in order, and the last @default found is for when none of them matches.
ParseCases(src, chunk, path, case, all) ==
    LET i == Head(chunk)
        next == SwitchBoundary(src, chunk)
        rest == Tail(chunk)
        end == SwitchBoundary(src, rest)
        Body(lines, on) == ParseOps(src, WithoutBreaks(src, lines), on)
        others == SelectSeq(all, LAMBDA j : j < case)
        none == path \o [k \in DOMAIN all |-> IfNot(all[k])]
        default == Body(Upto(rest, end - 1), none)
    IN  CASE chunk = <<>> -> Compiled({})
          [] src[i].is = "case" -> ParseCases(src, rest, path, i, all)
          [] src[i].is = "default" ->
                (IF \E k \in end .. Len(rest) : src[rest[k]].is = "default"
                 THEN [default EXCEPT !.ops = {}] ELSE default)
                ++ ParseCases(src, From(rest, end), path, 0, all)
          [] src[i].is = "break" \/ case = 0 -> ParseCases(src, rest, path, case, all)
          [] next = 1 -> Fails("hangs")
          [] OTHER ->
                Body(Upto(chunk, next - 1),
                     path \o [k \in DOMAIN others |-> IfNot(others[k])] \o <<If(case)>>)
                ++ ParseCases(src, From(chunk, next), path, case, all)

\* @if holds in its first branch.
ParseConditional(src, i, body, path) == ParseBranches(src, body, Append(path, If(i)))

ParseForelse(src, i, body, path) ==
    LET in == Append(path, If(i))
        empty == EmptyBoundary(src, body)
    IN  ParseOps(src, Upto(body, empty - 1), in)
        ++ ParseOps(src, From(body, empty + 1), OtherwiseOf(in))

ParseSwitch(src, body, path) ==
    ParseCases(src, body, path, 0, SelectSeq(body, LAMBDA j : src[j].is = "case"))

ParseComponent(src, i, body, path) == ParseSlots(src, body, Append(path, If(i)))

\* The body of the block that line i opens.
ParseBody(src, i, body, path) ==
    CASE src[i].of = "if" -> ParseConditional(src, i, body, path)
      [] src[i].of = "forelse" -> ParseForelse(src, i, body, path)
      [] src[i].of = "switch" -> ParseSwitch(src, body, path)
      [] src[i].of = "component" -> ParseComponent(src, i, body, path)
      [] OTHER -> ParseOps(src, body, Append(path, If(i)))

\* parseOps: any other line that looks like an end is text, and any other
\* directive an error.
ParseOps(src, chunk, path) ==
    LET i == Head(chunk)
        rest == Tail(chunk)
        end == IF src[i].of = "component" THEN ComponentEnd(src, rest, src[i].column)
               ELSE NestedEnd(src, rest, src[i].of)
        here == Compiled({Op(i, path)})
    IN  CASE chunk = <<>> -> Compiled({})
          [] src[i].is \in {"text", "echo", "close"} -> here ++ ParseOps(src, rest, path)
          [] src[i].is = "open" /\ src[i].of # "slot" ->
                IF end <= Len(rest)
                THEN here ++ ParseBody(src, i, Upto(rest, end - 1), path)
                          ++ ParseOps(src, From(rest, end + 1), path)
                ELSE IF src[i].of = "component" THEN here ++ ParseOps(src, rest, path)
                ELSE Fails("unclosed")
          [] OTHER -> Fails("unknown")

CompileSource(src) ==
    LET lines == [i \in DOMAIN src |-> i] IN
        IF DefinesSlots(src) THEN ParseSlots(src, lines, <<>>) ELSE ParseOps(src, lines, <<>>)
-----------------------------------------------------------------------------
\* What is written with all its ends compiles to the operations meant.
CompilesAsMeant == Written /\ ~forgotten => CompileSource(source) = Compiled(meant)

\* The error "Unclosed directive" (compiler.ts:1651) is thrown where an end is
\* missing, and not for a template that has all its ends.
UnclosedIsTrue == Written /\ ~forgotten => CompileSource(source) # Fails("unclosed")

\* Blocks and their branches compile to what is meant however they are nested,
\* unless an @if in another has an @else, an echo starts a line in an @if, a
\* @switch is in another, a component in another has slots, components follow
\* each other in a way their columns do not tell, or a template that has slots of
\* its own opens one.
NestsAsMeant == trouble = {} => CompilesAsMeant

\* A block whose end is missing is an error wherever it is, and never taken
\* for another block.
ForgottenEndsAreReported ==
    Written /\ forgotten => CompileSource(source).outcome \notin {"ops", "hangs"}

\* What compiles, and to what.
CompilerInv == NestsAsMeant /\ ForgottenEndsAreReported
=============================================================================
