------------------------------ MODULE Template ------------------------------
(***************************************************************************)
(* The lines of a template, as a writer adds them, remembering which       *)
(* blocks and branches each line is meant to be in; and the linter, which  *)
(* looks for the ends of the blocks (view-lint.ts).  ViewCompiler, which   *)
(* EXTENDS this module, has to find the blocks from the lines alone.       *)
(*                                                                         *)
(* A compiled template is a set of operations, each a line and the path to *)
(* it: the directives around the line and whether each has to hold.  The   *)
(* line of an @else is not on a path: what follows is where its @if does   *)
(* not hold.  "unless" stands for all blocks whose body is compiled as it  *)
(* is (@unless, @foreach, @section, @push and so on).                      *)
(***************************************************************************)
EXTENDS SequencesExt

CONSTANTS
    Dialects,   \* the sets of block directives a template is written with
    MaxLines

ASSUME CompilerAssumption ==
    /\ \A d \in Dialects :
           d \subseteq {"unless", "if", "forelse", "switch", "component", "slot"}
    /\ MaxLines \in Nat

VARIABLES
    style,      \* the dialect of the template and whether it is indented
    source,     \* its lines so far
    blocks,     \* the blocks around the next line
    meant,      \* the operations meant
    above,      \* the last component line: its column and whether it opens a block
    forgotten,  \* a block was left without its end
    trouble     \* history: what was written that the compiler is known to cut wrongly

compilerVars == <<style, source, blocks, meant, above, forgotten, trouble>>

Line == [is : {"text", "echo", "open", "close", "elseif", "else", "empty", "case",
               "default", "break"},
         of : (UNION Dialects) \cup {"none"}, column : Nat]

CompilerInit ==
    /\ style \in [dialect : Dialects, indented : BOOLEAN]
    /\ source = <<>> /\ blocks = <<>>
    /\ above = [column |-> -1, block |-> FALSE]
    /\ meant = {} /\ forgotten = FALSE /\ trouble = {}

Op(line, path) == [line |-> line, path |-> path]

If(line) == [line |-> line, holds |-> TRUE]
IfNot(line) == [line |-> line, holds |-> FALSE]

\* The path of the next branch: the last condition does not hold.
OtherwiseOf(path) == Append(Front(path), IfNot(Last(path).line))

Is(src, i, is, of) == src[i].is = is /\ src[i].of = of

\* The first place in the chunk that is one of these, or the end of it.
Boundary(chunk, places) == IF places = {} THEN Len(chunk) + 1 ELSE Min(places)

\* findComponentBlockEnd: by the column of the next component, then of the ends.
ComponentEnd(src, chunk, column) ==
    LET nested == {k \in DOMAIN chunk : Is(src, chunk[k], "open", "component")}
        ends == {k \in DOMAIN chunk : /\ Is(src, chunk[k], "close", "component")
                                      /\ src[chunk[k]].column = column}
    IN  IF nested # {} /\ src[chunk[Min(nested)]].column <= column
        THEN Len(chunk) + 1 ELSE Boundary(chunk, ends)

\* hasComponentSlotDefinitions: self-closing components count as open.
DefinesSlots(src) ==
    LET step(acc, line) ==
            IF line.is = "open" /\ line.of = "component" THEN [acc EXCEPT !.depth = @ + 1]
            ELSE IF line.is = "close" /\ line.of = "component"
                 THEN [acc EXCEPT !.depth = IF @ > 0 THEN @ - 1 ELSE 0]
            ELSE IF line.is = "open" /\ line.of = "slot" /\ acc.depth = 0
                 THEN [acc EXCEPT !.found = TRUE] ELSE acc
    IN  FoldLeft(step, [depth |-> 0, found |-> FALSE], src).found
-----------------------------------------------------------------------------
(***************************************************************************)
(* lintUnclosedDirectives: one stack for all directives, whose labels are  *)
(* not compared.                                                           *)
(***************************************************************************)
Opens(src, i) ==
    /\ src[i].is = "open"
    /\ src[i].of = "component" =>
           LET below == [k \in 1 .. Len(src) - i |-> i + k]
           IN  ComponentEnd(src, below, src[i].column) <= Len(below)

OpenedBy(src, n) == Cardinality({i \in 1 .. n : Opens(src, i)})
ClosedBy(src, n) == Cardinality({i \in 1 .. n : src[i].is = "close"})

LintPasses(src) ==
    /\ \A n \in DOMAIN src : ClosedBy(src, n) <= OpenedBy(src, n)
    /\ OpenedBy(src, Len(src)) = ClosedBy(src, Len(src))
-----------------------------------------------------------------------------
(***************************************************************************)
(* The writer.  A block remembers its directive, the line that opened it,  *)
(* the path of what is written in it next, and which branches may come.    *)
(***************************************************************************)
Here == IF blocks = <<>> THEN <<>> ELSE Last(blocks).path

Inner == IF blocks = <<>> THEN [of |-> "none", part |-> "body"] ELSE Last(blocks)

Around(of) == {k \in DOMAIN blocks : blocks[k].of = of}

Number == Len(source) + 1

\* A line is written while there is room for it and for the ends of all blocks.
Write(is, of, depth, ends) ==
    /\ Len(source) + ends < MaxLines
    /\ source' = Append(source, [is |-> is, of |-> of,
                                 column |-> IF style.indented THEN depth ELSE 0])
    /\ UNCHANGED style

WriteIn(is, of) == Inner.part # "start" /\ Write(is, of, Len(blocks), Len(blocks))

Troubled(is, kind) == trouble' = IF is THEN trouble \cup {kind} ELSE trouble

\* An echo at the start of a line in an @if.
WriteText ==
    /\ WriteIn("text", "none")
    /\ meant' = meant \cup {Op(Number, Here)}
    /\ UNCHANGED <<blocks, above, forgotten, trouble>>

WriteEcho ==
    /\ WriteIn("echo", "none")
    /\ meant' = meant \cup {Op(Number, Here)}
    /\ Troubled(source'[Number].column = 0 /\ Around("if") # {}, "echo")
    /\ UNCHANGED <<blocks, above, forgotten>>

Into(of, path, part) == [of |-> of, path |-> path, part |-> part]

OpenBlock(of) ==
    /\ of \in style.dialect \ {"component", "slot"}
    /\ Write("open", of, Len(blocks), Len(blocks) + 1)
    /\ Inner.part # "start"
    /\ meant' = meant \cup {Op(Number, Here)}
    /\ blocks' = Append(blocks, IF of = "switch" THEN Into(of, Here, "start")
                                ELSE Into(of, Append(Here, If(Number)), "body"))
    /\ Troubled(of = "switch" /\ Around("switch") # {}, "switch")
    /\ UNCHANGED <<above, forgotten>>

\* A component is read by the line of the next: as a block if that is deeper.
\* Trouble "component": another was meant, or the template has slots of its own.
OpenComponent(block) ==
    /\ "component" \in style.dialect
    /\ Write("open", "component", Len(blocks), Len(blocks) + IF block THEN 1 ELSE 0)
    /\ Inner.part # "start"
    /\ meant' = meant \cup {Op(Number, Here)}
    /\ above' = [column |-> source'[Number].column, block |-> block]
    /\ blocks' = IF block THEN Append(blocks, Into("component", Append(Here, If(Number)), "body"))
                 ELSE blocks
    /\ LET deeper == source'[Number].column > above.column IN
           Troubled((above.column >= 0 /\ deeper # above.block) \/ DefinesSlots(source), "component")
    /\ UNCHANGED forgotten

\* Slots are those of the component around, or the template's own.
OpenSlot ==
    /\ "slot" \in style.dialect
    /\ Inner.of \in {"component", "none"}
    /\ Write("open", "slot", Len(blocks), Len(blocks) + 1)
    /\ blocks' = Append(blocks, Into("slot", Append(Here, If(Number)), "body"))
    /\ Troubled(IF blocks = <<>> THEN above.column >= 0
                ELSE \E k \in Around("component") :
                         k < Len(blocks) /\ blocks[k + 1].of # "slot", "slot")
    /\ UNCHANGED <<meant, above, forgotten>>

GoOn(path, part) == blocks' = [blocks EXCEPT ![Len(blocks)] = Into(@.of, path, part)]

\* The branches of an @if, also an @else of one in another.
WriteBranch(is) ==
    /\ Inner.of = "if" /\ Inner.part = "body"
    /\ Write(is, "if", Len(blocks) - 1, Len(blocks))
    /\ IF is = "elseif" THEN GoOn(Append(OtherwiseOf(Here), If(Number)), "body")
       ELSE GoOn(OtherwiseOf(Here), "last")
    /\ Troubled(Cardinality(Around("if")) > 1, "branch")
    /\ UNCHANGED <<meant, above, forgotten>>

WriteEmpty ==
    /\ Inner.of = "forelse" /\ Inner.part = "body"
    /\ Write("empty", "forelse", Len(blocks) - 1, Len(blocks))
    /\ GoOn(OtherwiseOf(Here), "last")
    /\ UNCHANGED <<meant, above, forgotten, trouble>>

WriteCase(is) ==
    /\ Inner.of = "switch"
    /\ \/ Inner.part = "body"
       \/ is = "case" /\ Inner.part = "start"
    /\ Write(is, "switch", Len(blocks) - 1, Len(blocks))
    /\ LET tried == IF Inner.part = "start" THEN Here ELSE OtherwiseOf(Here) IN
           IF is = "case" THEN GoOn(Append(tried, If(Number)), "body") ELSE GoOn(tried, "last")
    /\ UNCHANGED <<meant, above, forgotten, trouble>>

WriteBreak ==
    /\ Inner.of = "switch" /\ Inner.part # "start"
    /\ Write("break", "switch", Len(blocks), Len(blocks))
    /\ UNCHANGED <<blocks, meant, above, forgotten, trouble>>

CloseBlock ==
    /\ blocks # <<>>
    /\ Write("close", Inner.of, Len(blocks) - 1, 0)
    /\ blocks' = Front(blocks)
    /\ UNCHANGED <<meant, above, forgotten, trouble>>

ForgetEnd ==
    /\ blocks # <<>> /\ Inner.of # "component" /\ ~forgotten
    /\ forgotten' = TRUE
    /\ blocks' = Front(blocks)
    /\ UNCHANGED <<style, source, meant, above, trouble>>

CompilerNext ==
    \/ WriteText \/ WriteEcho
    \/ \E of \in style.dialect : OpenBlock(of)
    \/ \E block \in BOOLEAN : OpenComponent(block)
    \/ OpenSlot
    \/ \E is \in {"elseif", "else"} : WriteBranch(is)
    \/ WriteEmpty
    \/ \E is \in {"case", "default"} : WriteCase(is)
    \/ WriteBreak \/ CloseBlock \/ ForgetEnd

CompilerSpec == CompilerInit /\ [][CompilerNext]_compilerVars
-----------------------------------------------------------------------------
Written == blocks = <<>>

\* The linter passes what has all its ends and only that, unless the columns
\* of components mislead it, or one is opened in a template with its own slots.
LintTells == Written /\ "component" \notin trouble => (LintPasses(source) <=> ~forgotten)

TemplateTypeOK ==
    /\ source \in Seq(Line) /\ Len(source) <= MaxLines
    /\ \A k \in DOMAIN blocks : blocks[k].part \in {"start", "body", "last"}
    /\ \A op \in meant : op.line \in DOMAIN source
    /\ trouble \subseteq {"echo", "switch", "component", "slot", "branch"}

\* What is written, and what the linter says of it.
TemplateInv == TemplateTypeOK /\ LintTells
=============================================================================
