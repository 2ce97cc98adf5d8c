--------------------------- MODULE TemplateProofs ---------------------------
(***************************************************************************)
(* Proofs about templates, for every number of lines of a template and of  *)
(* tokens of a condition: what the linter tells of them (Template), and    *)
(* what folding makes of their conditions (StaticFold).                    *)
(***************************************************************************)
EXTENDS Template, StaticFold, TLAPS, FiniteSetTheorems, SequenceTheorems, WellFoundedInduction

\* What Min is of numbers without a largest.
LEMMA SmallestNumber ==
    ASSUME NEW S, S \subseteq Nat, S # {}
    PROVE  Min(S) \in S /\ \A y \in S : Min(S) <= y
<1>1. PICK x \in S : \A y \in S : ~(<<y, x>> \in OpToRel(<, Nat))
  BY NatLessThanWellFounded, WFMin
<1>2. \A y \in S : ~(y < x)
  BY <1>1 DEF OpToRel
<1>3. x \in S /\ \A y \in S : x <= y
  BY <1>2
<1> QED
  BY <1>3 DEF Min
-----------------------------------------------------------------------------
(***************************************************************************)
(* The linter of templates.  What counts of a component line is whether    *)
(* the next component is deeper and whether an end in its column follows.  *)
(***************************************************************************)
Component(src, i) == Is(src, i, "open", "component")

EndOf(src, j, i) == Is(src, j, "close", "component") /\ src[j].column = src[i].column

Below(src, i) == i + 1 .. Len(src)

Final(src, i) == \A j \in Below(src, i) : ~Component(src, j)

Deeper(src, i) ==
    \A j \in Below(src, i) :
        Component(src, j) /\ (\A l \in i + 1 .. j - 1 : ~Component(src, l))
            => src[j].column > src[i].column

Ended(src, i) == \E j \in Below(src, i) : EndOf(src, j, i)

LEMMA ComponentOpens ==
  ASSUME NEW src \in Seq(Line), NEW i \in 1 .. Len(src), Component(src, i)
  PROVE  Opens(src, i) <=> Deeper(src, i) /\ Ended(src, i)
<1> DEFINE below == [k \in 1 .. Len(src) - i |-> i + k]
           nested == {k \in DOMAIN below : Is(src, below[k], "open", "component")}
           ends == {k \in DOMAIN below : /\ Is(src, below[k], "close", "component")
                                         /\ src[below[k]].column = src[i].column}
<1>1. /\ Len(src) \in Nat /\ i \in Nat /\ Len(src) - i \in Nat
      /\ DOMAIN below = 1 .. Len(src) - i /\ Len(below) = Len(src) - i
      /\ \A k \in 1 .. Len(src) - i : below[k] = i + k
      /\ \A j \in Below(src, i) : j - i \in 1 .. Len(src) - i /\ i + (j - i) = j
      /\ \A k \in 1 .. Len(src) - i : i + k \in Below(src, i)
      /\ \A j \in 1 .. Len(src) : src[j].column \in Nat
  <2>1. Len(src) \in Nat /\ i \in Nat /\ Len(src) - i \in Nat
    OBVIOUS
  <2>2. below \in Seq(Nat) /\ DOMAIN below = 1 .. Len(src) - i
    BY <2>1
  <2>3. Len(below) = Len(src) - i
    BY <2>1, <2>2
  <2>4. \A j \in Below(src, i) : j - i \in 1 .. Len(src) - i /\ i + (j - i) = j
    BY <2>1 DEF Below
  <2>5. \A k \in 1 .. Len(src) - i : below[k] = i + k /\ i + k \in Below(src, i)
    BY <2>1 DEF Below
  <2>6. \A j \in 1 .. Len(src) : src[j].column \in Nat
    <3>1. \A j \in 1 .. Len(src) : src[j] \in Line
      OBVIOUS
    <3> QED
      BY <3>1 DEF Line
  <2> QED
    BY <2>1, <2>2, <2>3, <2>4, <2>5, <2>6
<1>2. nested = {k \in 1 .. Len(src) - i : Component(src, i + k)}
  BY <1>1 DEF Component
<1>3. ends = {k \in 1 .. Len(src) - i : EndOf(src, i + k, i)}
  BY <1>1 DEF EndOf
<1>4. Ended(src, i) <=> ends # {}
  <2>1. ASSUME Ended(src, i) PROVE ends # {}
    <3>1. PICK j \in Below(src, i) : EndOf(src, j, i)
      BY <2>1 DEF Ended
    <3>2. j - i \in 1 .. Len(src) - i /\ EndOf(src, i + (j - i), i)
      BY <3>1, <1>1
    <3>3. j - i \in ends
      BY <3>2, <1>3
    <3> QED
      BY <3>3
  <2>2. ASSUME ends # {} PROVE Ended(src, i)
    <3>1. PICK k \in 1 .. Len(src) - i : EndOf(src, i + k, i)
      BY <2>2, <1>3
    <3> QED
      BY <3>1, <1>1 DEF Ended
  <2> QED
    BY <2>1, <2>2
<1>5. Deeper(src, i) <=> ~(nested # {} /\ src[below[Min(nested)]].column <= src[i].column)
  <2>1. CASE nested = {}
    <3>1. \A j \in Below(src, i) : ~Component(src, j)
      BY <2>1, <1>1, <1>2
    <3> QED
      BY <3>1, <2>1 DEF Deeper
  <2>2. CASE nested # {}
    <3> DEFINE m == Min(nested)
    <3>1. nested \subseteq Nat
      BY <1>1
    <3>2. m \in nested /\ \A k \in nested : m <= k
      BY <3>1, <2>2, SmallestNumber
    <3> HIDE DEF m
    <3>3. m \in 1 .. Len(src) - i /\ below[m] = i + m /\ i + m \in Below(src, i) /\ Component(src, i + m)
      BY <3>2, <1>1, <1>2
    <3>4. \A l \in i + 1 .. i + m - 1 : ~Component(src, l)
      <4> SUFFICES ASSUME NEW l \in i + 1 .. i + m - 1, Component(src, l) PROVE FALSE
        OBVIOUS
      <4>1. l - i \in 1 .. Len(src) - i /\ i + (l - i) = l /\ l - i < m
        BY <3>3, <1>1
      <4>2. l - i \in nested
        BY <4>1, <1>2
      <4> QED
        BY <4>1, <4>2, <3>2, <3>3
    <3>5. \A j \in Below(src, i) :
              Component(src, j) /\ (\A l \in i + 1 .. j - 1 : ~Component(src, l)) => j = i + m
      <4> SUFFICES ASSUME NEW j \in Below(src, i), Component(src, j), j # i + m,
                          \A l \in i + 1 .. j - 1 : ~Component(src, l)
                   PROVE  FALSE
        OBVIOUS
      <4>1. j - i \in nested
        BY <1>1, <1>2
      <4>2. i + m \in i + 1 .. j - 1
        <5>1. m <= j - i
          BY <4>1, <3>2
        <5> QED
          BY <5>1, <3>3, <1>1 DEF Below
      <4> QED
        BY <4>2, <3>3
    <3>6. Deeper(src, i) <=> src[i + m].column > src[i].column
      BY <3>3, <3>4, <3>5 DEF Deeper
    <3>7. src[i + m].column \in Nat /\ src[i].column \in Nat
      BY <1>1, <3>3
    <3> QED
      BY <3>3, <3>6, <3>7, <2>2 DEF m
  <2> QED
    BY <2>1, <2>2
<1>6. ends # {} => Min(ends) \in 1 .. Len(src) - i
  <2>1. ends \subseteq Nat /\ ends \subseteq 1 .. Len(src) - i
    BY <1>1
  <2> QED
    BY <2>1, SmallestNumber
<1>7. ComponentEnd(src, below, src[i].column) =
          IF nested # {} /\ src[below[Min(nested)]].column <= src[i].column
          THEN Len(below) + 1 ELSE Boundary(below, ends)
  BY DEF ComponentEnd
<1>8. Boundary(below, ends) <= Len(below) <=> ends # {}
  <2>1. Len(below) \in Nat /\ Len(below) = Len(src) - i
    BY <1>1
  <2> HIDE DEF below, ends
  <2>2. CASE ends = {}
    BY <2>1, <2>2 DEF Boundary
  <2>3. CASE ends # {}
    <3>1. Boundary(below, ends) = Min(ends)
      BY <2>3 DEF Boundary
    <3> QED
      BY <3>1, <2>1, <2>3, <1>6
  <2> QED
    BY <2>2, <2>3
<1>9. Opens(src, i) <=> ComponentEnd(src, below, src[i].column) <= Len(below)
  BY DEF Opens, Component, Is
<1> HIDE DEF below, nested, ends
<1> QED
  BY <1>1, <1>4, <1>5, <1>7, <1>8, <1>9
-----------------------------------------------------------------------------
\* What a line at the end changes.
LEMMA LineAdded ==
  ASSUME NEW src \in Seq(Line), NEW line \in Line, NEW i \in 1 .. Len(src)
  PROVE  LET more == Append(src, line)
             n == Len(src) + 1
         IN  /\ more \in Seq(Line) /\ Len(more) = n /\ n \in Nat
             /\ \A k \in 1 .. Len(src) : more[k] = src[k]
             /\ more[n] = line
             /\ Below(more, i) = Below(src, i) \cup {n} /\ n \notin Below(src, i)
             /\ \A k \in Below(src, i) : k \in 1 .. Len(src)
             /\ Component(more, i) <=> Component(src, i)
             /\ Final(more, i) <=> Final(src, i) /\ ~Component(more, n)
             /\ Ended(more, i) <=> Ended(src, i) \/ EndOf(more, n, i)
<1> DEFINE more == Append(src, line)
           n == Len(src) + 1
<1>1. /\ more \in Seq(Line) /\ Len(more) = n /\ n \in Nat /\ Len(src) \in Nat /\ i \in Nat
      /\ \A k \in 1 .. Len(src) : more[k] = src[k]
      /\ more[n] = line
  OBVIOUS
<1>2. Below(more, i) = Below(src, i) \cup {n} /\ n \notin Below(src, i)
  BY <1>1 DEF Below
<1>3. \A k \in Below(src, i) : k \in 1 .. Len(src)
  BY <1>1 DEF Below
<1> HIDE DEF more, n
<1>4. \A k \in 1 .. Len(src) : /\ Component(more, k) <=> Component(src, k)
                               /\ EndOf(more, k, i) <=> EndOf(src, k, i)
  BY <1>1 DEF Component, EndOf, Is
<1>5. Final(more, i) <=> Final(src, i) /\ ~Component(more, n)
  BY <1>2, <1>3, <1>4 DEF Final
<1>6. Ended(more, i) <=> Ended(src, i) \/ EndOf(more, n, i)
  BY <1>2, <1>3, <1>4 DEF Ended
<1> QED
  BY <1>1, <1>2, <1>3, <1>4, <1>5, <1>6 DEF more, n

\* The next component stays the next; one that was not there yet is the line.
LEMMA DeeperAdded ==
  ASSUME NEW src \in Seq(Line), NEW line \in Line, NEW i \in 1 .. Len(src)
  PROVE  LET more == Append(src, line)
             n == Len(src) + 1
         IN  /\ ~Final(src, i) \/ ~Component(more, n) => (Deeper(more, i) <=> Deeper(src, i))
             /\ Final(src, i) => Deeper(src, i)
             /\ Final(src, i) /\ Component(more, n) =>
                    (Deeper(more, i) <=> line.column > src[i].column)
<1> DEFINE more == Append(src, line)
           n == Len(src) + 1
<1>1. /\ Len(more) = n /\ n \in Nat /\ Len(src) \in Nat /\ i \in Nat
      /\ \A k \in 1 .. Len(src) : more[k] = src[k]
      /\ more[n] = line
      /\ Below(more, i) = Below(src, i) \cup {n} /\ n \notin Below(src, i)
      /\ \A k \in Below(src, i) : k \in 1 .. Len(src)
      /\ n - 1 = Len(src)
  BY LineAdded
<1> HIDE DEF more, n
<1>2. \A k \in 1 .. Len(src) : Component(more, k) <=> Component(src, k)
  BY <1>1 DEF Component, Is
<1> DEFINE NextIs(s, j) == Component(s, j) /\ (\A l \in i + 1 .. j - 1 : ~Component(s, l))
<1>3. \A j \in Below(src, i) : NextIs(more, j) <=> NextIs(src, j)
  <2> SUFFICES ASSUME NEW j \in Below(src, i) PROVE NextIs(more, j) <=> NextIs(src, j)
    OBVIOUS
  <2>1. \A l \in i + 1 .. j - 1 : l \in 1 .. Len(src)
    BY <1>1 DEF Below
  <2> QED
    BY <2>1, <1>1, <1>2
<1>4. NextIs(more, n) <=> Component(more, n) /\ Final(src, i)
  BY <1>1, <1>2 DEF Final, Below
<1>5. \A s : Deeper(s, i) <=> \A j \in Below(s, i) : NextIs(s, j) => s[j].column > s[i].column
  BY DEF Deeper
<1> HIDE DEF NextIs
<1>6. Final(src, i) => \A j \in Below(src, i) : ~NextIs(src, j)
  BY DEF Final, NextIs
<1>7. Deeper(more, i) <=> /\ Deeper(src, i)
                          /\ NextIs(more, n) => line.column > src[i].column
  BY <1>1, <1>3, <1>5
<1> QED
  BY <1>4, <1>5, <1>6, <1>7 DEF more, n
-----------------------------------------------------------------------------
\* What the writer remembers.
Turn == [line : Nat, holds : BOOLEAN]

Block == [of : UNION Dialects, path : Seq(Turn), part : {"start", "body", "last"}]

WriterTypes ==
    /\ style \in [dialect : Dialects, indented : BOOLEAN]
    /\ source \in Seq(Line) /\ Len(source) <= MaxLines
    /\ blocks \in Seq(Block)
    /\ \A k \in DOMAIN blocks : blocks[k].part # "start" => blocks[k].path # <<>>
    /\ above \in [column : Int, block : BOOLEAN]
    /\ forgotten \in BOOLEAN
    /\ \A op \in meant : op.line \in DOMAIN source
    /\ trouble \subseteq {"echo", "switch", "component", "slot", "branch"}

LEMMA EndsOfSequence ==
  ASSUME NEW S, NEW s \in Seq(S)
  PROVE  /\ \A x \in S : Last(Append(s, x)) = x /\ Append(s, x) # <<>> /\ Append(s, x) \in Seq(S)
         /\ Front(s) \in Seq(S)
         /\ s # <<>> => /\ Len(s) \in DOMAIN s /\ Last(s) = s[Len(s)] /\ Last(s) \in S
                        /\ Len(Front(s)) = Len(s) - 1 /\ Len(s) > 0
                        /\ \A k \in 1 .. Len(s) - 1 : Front(s)[k] = s[k]
<1>1. \A x \in S : Last(Append(s, x)) = x /\ Append(s, x) # <<>> /\ Append(s, x) \in Seq(S)
  BY DEF Last
<1>2. Front(s) \in Seq(S)
  <2>1. CASE s = <<>>
    BY <2>1, SubSeqEmpty DEF Front
  <2>2. CASE s # <<>>
    BY <2>2 DEF Front
  <2> QED
    BY <2>1, <2>2
<1>3. ASSUME s # <<>>
      PROVE  /\ Len(s) \in DOMAIN s /\ Last(s) = s[Len(s)] /\ Last(s) \in S
             /\ Len(Front(s)) = Len(s) - 1 /\ Len(s) > 0
             /\ \A k \in 1 .. Len(s) - 1 : Front(s)[k] = s[k]
  BY <1>3 DEF Front, Last
<1> QED
  BY <1>1, <1>2, <1>3

\* A line is added; one without indentation has column 0.
Adds(line) ==
    /\ line \in Line
    /\ source' = Append(source, line)
    /\ Len(source) < MaxLines
    /\ ~style.indented => line.column = 0
    /\ style' = style

AddsPlainLine ==
    \E line \in Line :
        /\ Adds(line) /\ line.is \notin {"open", "close"}
        /\ blocks' \in Seq(Block) /\ Len(blocks') = Len(blocks)
        /\ \A k \in DOMAIN blocks :
              /\ blocks'[k].of = blocks[k].of
              /\ blocks[k].of = "component" => blocks'[k] = blocks[k]
              /\ blocks'[k].part # "start" => blocks'[k].path # <<>>
        /\ above' = above /\ forgotten' = forgotten

EntersBlock ==
    \E line \in Line, b \in Block :
        /\ Adds(line) /\ line.is = "open" /\ line.of # "component"
        /\ b.of # "component" /\ (b.part # "start" => b.path # <<>>)
        /\ blocks' = Append(blocks, b)
        /\ above' = above /\ forgotten' = forgotten

LeavesBlock ==
    \E line \in Line :
        /\ blocks # <<>>
        /\ Adds(line) /\ line.is = "close" /\ line.of = blocks[Len(blocks)].of
        /\ style.indented => line.column = Len(blocks) - 1
        /\ blocks' = Front(blocks)
        /\ above' = above /\ forgotten' = forgotten

ForgetsEnd ==
    /\ blocks # <<>> /\ blocks[Len(blocks)].of # "component" /\ ~forgotten
    /\ forgotten' = TRUE /\ blocks' = Front(blocks)
    /\ style' = style /\ source' = source /\ above' = above

AddsComponent(block) ==
    \E line \in Line :
        /\ Adds(line) /\ line.is = "open" /\ line.of = "component"
        /\ style.indented => line.column = Len(blocks)
        /\ above' = [column |-> line.column, block |-> block]
        /\ forgotten' = forgotten
        /\ "component" \notin trouble' => above.column < 0 \/ ((line.column > above.column) <=> above.block)
        /\ IF block
           THEN \E b \in Block :
                   /\ b.of = "component" /\ b.path # <<>> /\ Last(b.path).line = Len(source) + 1
                   /\ blocks' = Append(blocks, b)
           ELSE blocks' = blocks

Grows ==
    \/ AddsPlainLine \/ EntersBlock \/ LeavesBlock \/ ForgetsEnd
    \/ \E block \in BOOLEAN : AddsComponent(block)

LEMMA InnerBlock ==
  ASSUME WriterTypes
  PROVE  /\ blocks # <<>> => /\ Inner = blocks[Len(blocks)] /\ Inner \in Block
                             /\ Here = Inner.path
                             /\ Inner.part # "start" => Here # <<>>
                             /\ Len(blocks) \in DOMAIN blocks
         /\ blocks = <<>> => Inner.of = "none" /\ Inner.part = "body"
         /\ Here \in Seq(Turn)
<1>1. ASSUME blocks # <<>>
      PROVE  /\ Inner = blocks[Len(blocks)] /\ Inner \in Block
             /\ Here = Inner.path
             /\ Inner.part # "start" => Here # <<>>
             /\ Len(blocks) \in DOMAIN blocks
  <2>1. Len(blocks) \in DOMAIN blocks /\ Last(blocks) = blocks[Len(blocks)] /\ Last(blocks) \in Block
    BY <1>1, EndsOfSequence DEF WriterTypes
  <2>2. Inner = Last(blocks) /\ Here = Last(blocks).path
    BY <1>1 DEF Inner, Here
  <2> QED
    BY <2>1, <2>2 DEF WriterTypes
<1>2. blocks = <<>> => Inner.of = "none" /\ Inner.part = "body"
  BY DEF Inner
<1>3. Here \in Seq(Turn)
  BY <1>1 DEF Here, Block
<1> QED
  BY <1>1, <1>2, <1>3

LEMMA WriteAdds ==
  ASSUME WriterTypes, NEW is, NEW of, NEW depth \in Nat, NEW ends \in Nat, Write(is, of, depth, ends),
         is \in {"text", "echo", "open", "close", "elseif", "else", "empty", "case", "default", "break"},
         of \in (UNION Dialects) \cup {"none"}
  PROVE  LET line == [is |-> is, of |-> of, column |-> IF style.indented THEN depth ELSE 0]
         IN  Adds(line)
<1>1. [is |-> is, of |-> of, column |-> IF style.indented THEN depth ELSE 0] \in Line
  BY DEF Line
<1>2. Len(source) < MaxLines
  BY CompilerAssumption DEF Write, WriterTypes
<1> QED
  BY <1>1, <1>2 DEF Write, Adds

LEMMA TurnsAreTurns ==
  ASSUME NEW path \in Seq(Turn), NEW n \in Nat
  PROVE  /\ If(n) \in Turn /\ Append(path, If(n)) \in Seq(Turn) /\ Append(path, If(n)) # <<>>
         /\ Last(Append(path, If(n))).line = n
         /\ path # <<>> => OtherwiseOf(path) \in Seq(Turn) /\ OtherwiseOf(path) # <<>>
<1>1. If(n) \in Turn
  BY DEF If, Turn
<1>2. Append(path, If(n)) \in Seq(Turn) /\ Append(path, If(n)) # <<>> /\ Last(Append(path, If(n))) = If(n)
  BY <1>1, EndsOfSequence
<1>3. ASSUME path # <<>> PROVE OtherwiseOf(path) \in Seq(Turn) /\ OtherwiseOf(path) # <<>>
  <2>1. Last(path) \in Turn /\ Front(path) \in Seq(Turn)
    BY <1>3, EndsOfSequence
  <2>2. IfNot(Last(path).line) \in Turn
    BY <2>1 DEF IfNot, Turn
  <2> QED
    BY <2>1, <2>2, EndsOfSequence DEF OtherwiseOf
<1> QED
  BY <1>1, <1>2, <1>3 DEF If

LEMMA GoOnKeeps ==
  ASSUME WriterTypes, blocks # <<>>, Inner.of # "component", NEW path \in Seq(Turn), path # <<>>,
         NEW part \in {"body", "last"}, GoOn(path, part)
  PROVE  /\ blocks' \in Seq(Block) /\ Len(blocks') = Len(blocks)
         /\ \A k \in DOMAIN blocks :
               /\ blocks'[k].of = blocks[k].of
               /\ blocks[k].of = "component" => blocks'[k] = blocks[k]
               /\ blocks'[k].part # "start" => blocks'[k].path # <<>>
<1> DEFINE n == Len(blocks)
           b == Into(blocks[n].of, path, part)
<1>1. /\ blocks \in Seq(Block) /\ n \in DOMAIN blocks /\ blocks[n] \in Block
      /\ blocks[n].of # "component"
      /\ \A k \in DOMAIN blocks : blocks[k].part # "start" => blocks[k].path # <<>>
  BY InnerBlock DEF WriterTypes
<1>2. blocks' = [blocks EXCEPT ![n] = b]
  BY DEF GoOn
<1>3. b \in Block /\ b.of = blocks[n].of /\ b.path = path
  BY <1>1 DEF Into, Block
<1> HIDE DEF b
<1>4. blocks' \in Seq(Block) /\ Len(blocks') = Len(blocks)
  BY <1>1, <1>2, <1>3
<1>5. ASSUME NEW k \in DOMAIN blocks
      PROVE  /\ blocks'[k].of = blocks[k].of
             /\ blocks[k].of = "component" => blocks'[k] = blocks[k]
             /\ blocks'[k].part # "start" => blocks'[k].path # <<>>
  BY <1>1, <1>2, <1>3
<1> QED
  BY <1>4, <1>5

LEMMA KeptBlocks ==
  ASSUME WriterTypes, blocks' = blocks
  PROVE  /\ blocks' \in Seq(Block) /\ Len(blocks') = Len(blocks)
         /\ \A k \in DOMAIN blocks :
               /\ blocks'[k].of = blocks[k].of
               /\ blocks[k].of = "component" => blocks'[k] = blocks[k]
               /\ blocks'[k].part # "start" => blocks'[k].path # <<>>
BY DEF WriterTypes

LEMMA Lengths ==
  ASSUME WriterTypes
  PROVE  /\ Len(blocks) \in Nat /\ Len(source) \in Nat /\ Number \in Nat
         /\ blocks # <<>> => Len(blocks) - 1 \in Nat
         /\ blocks # <<>> => Inner.of \in UNION Dialects
         /\ \A of \in style.dialect :
               of \in UNION Dialects /\ of \in {"unless", "if", "forelse", "switch", "component", "slot"}
<1>1. /\ Len(blocks) \in Nat /\ Len(source) \in Nat /\ Number \in Nat
      /\ blocks # <<>> => Len(blocks) - 1 \in Nat
  BY DEF WriterTypes, Number
<1>2. blocks # <<>> => Inner.of \in UNION Dialects
  BY InnerBlock DEF Block
<1>3. style.dialect \in Dialects
  BY DEF WriterTypes
<1> QED
  BY <1>1, <1>2, <1>3, CompilerAssumption

LEMMA TextGrows == WriterTypes /\ (WriteText \/ WriteEcho \/ WriteBreak) => AddsPlainLine
<1> SUFFICES ASSUME WriterTypes, WriteText \/ WriteEcho \/ WriteBreak PROVE AddsPlainLine
  OBVIOUS
<1>1. PICK is \in {"text", "echo", "break"}, of \in (UNION Dialects) \cup {"none"}, ends \in Nat :
          Write(is, of, Len(blocks), ends)
  <2>1. CASE WriteText \/ WriteEcho
    <3>1. \E is \in {"text", "echo"} : Write(is, "none", Len(blocks), Len(blocks))
      BY <2>1 DEF WriteText, WriteEcho, WriteIn
    <3>2. "none" \in (UNION Dialects) \cup {"none"}
      OBVIOUS
    <3>3. Len(blocks) \in Nat
      BY Lengths
    <3> QED
      BY <3>1, <3>2, <3>3
  <2>2. CASE WriteBreak
    <3>1. blocks # <<>>
      BY <2>2, InnerBlock DEF WriteBreak
    <3>2. "switch" \in UNION Dialects
      BY <3>1, <2>2, Lengths DEF WriteBreak
    <3> QED
      BY <3>2, <2>2, Lengths DEF WriteBreak
  <2> QED
    BY <2>1, <2>2
<1> DEFINE line == [is |-> is, of |-> of, column |-> IF style.indented THEN Len(blocks) ELSE 0]
<1>2. Adds(line)
  BY <1>1, Lengths, WriteAdds
<1>3. line.is \notin {"open", "close"}
  BY <1>1
<1>4. blocks' = blocks /\ above' = above /\ forgotten' = forgotten
  BY DEF WriteText, WriteEcho, WriteBreak
<1>5. line \in Line
  BY <1>2 DEF Adds
<1> HIDE DEF line
<1> QED
  BY <1>2, <1>3, <1>4, <1>5, KeptBlocks DEF AddsPlainLine

LEMMA BranchGrows ==
  ASSUME WriterTypes,
         \/ \E is \in {"elseif", "else"} : WriteBranch(is)
         \/ WriteEmpty
         \/ \E is \in {"case", "default"} : WriteCase(is)
  PROVE  AddsPlainLine
<1>1. PICK is \in {"elseif", "else", "empty", "case", "default"}, of \in {"if", "forelse", "switch"},
           path \in Seq(Turn), part \in {"body", "last"} :
          /\ Inner.of = of /\ path # <<>>
          /\ Write(is, of, Len(blocks) - 1, Len(blocks))
          /\ GoOn(path, part)
          /\ above' = above /\ forgotten' = forgotten
  <2>1. ASSUME NEW is \in {"elseif", "else"}, WriteBranch(is)
        PROVE  \E path \in Seq(Turn), part \in {"body", "last"} :
                  /\ Inner.of = "if" /\ path # <<>>
                  /\ Write(is, "if", Len(blocks) - 1, Len(blocks))
                  /\ GoOn(path, part)
                  /\ above' = above /\ forgotten' = forgotten
    <3>1. Here \in Seq(Turn) /\ Here # <<>>
      BY <2>1, InnerBlock DEF WriteBranch
    <3>2. OtherwiseOf(Here) \in Seq(Turn) /\ OtherwiseOf(Here) # <<>>
      BY <3>1, TurnsAreTurns
    <3>3. /\ Append(OtherwiseOf(Here), If(Number)) \in Seq(Turn)
          /\ Append(OtherwiseOf(Here), If(Number)) # <<>>
      BY <3>2, Lengths, TurnsAreTurns
    <3> QED
      BY <2>1, <3>2, <3>3 DEF WriteBranch
  <2>2. ASSUME WriteEmpty
        PROVE  \E path \in Seq(Turn), part \in {"body", "last"} :
                  /\ Inner.of = "forelse" /\ path # <<>>
                  /\ Write("empty", "forelse", Len(blocks) - 1, Len(blocks))
                  /\ GoOn(path, part)
                  /\ above' = above /\ forgotten' = forgotten
    <3>1. Here \in Seq(Turn) /\ Here # <<>>
      BY <2>2, InnerBlock DEF WriteEmpty
    <3>2. OtherwiseOf(Here) \in Seq(Turn) /\ OtherwiseOf(Here) # <<>>
      BY <3>1, TurnsAreTurns
    <3> QED
      BY <2>2, <3>2 DEF WriteEmpty
  <2>3. ASSUME NEW is \in {"case", "default"}, WriteCase(is)
        PROVE  \E path \in Seq(Turn), part \in {"body", "last"} :
                  /\ Inner.of = "switch" /\ path # <<>>
                  /\ Write(is, "switch", Len(blocks) - 1, Len(blocks))
                  /\ GoOn(path, part)
                  /\ above' = above /\ forgotten' = forgotten
    <3> DEFINE tried == IF Inner.part = "start" THEN Here ELSE OtherwiseOf(Here)
    <3>1. Here \in Seq(Turn) /\ (Inner.part # "start" => Here # <<>>)
      BY <2>3, InnerBlock DEF WriteCase
    <3>2. tried \in Seq(Turn) /\ (Inner.part # "start" => tried # <<>>)
      BY <3>1, TurnsAreTurns
    <3>3. Append(tried, If(Number)) \in Seq(Turn) /\ Append(tried, If(Number)) # <<>>
      BY <3>2, Lengths, TurnsAreTurns
    <3>4. is = "default" => tried # <<>>
      BY <2>3, <3>2 DEF WriteCase
    <3>5. /\ Inner.of = "switch" /\ Write(is, "switch", Len(blocks) - 1, Len(blocks))
          /\ above' = above /\ forgotten' = forgotten
          /\ IF is = "case" THEN GoOn(Append(tried, If(Number)), "body") ELSE GoOn(tried, "last")
      BY <2>3 DEF WriteCase
    <3> HIDE DEF tried
    <3> QED
      BY <3>2, <3>3, <3>4, <3>5
  <2> QED
    BY <2>1, <2>2, <2>3
<1> DEFINE line == [is |-> is, of |-> of, column |-> IF style.indented THEN Len(blocks) - 1 ELSE 0]
<1>2. blocks # <<>> /\ Inner.of # "component"
  BY <1>1, InnerBlock
<1>3. Adds(line)
  <2>1. of \in UNION Dialects
    BY <1>1, <1>2, Lengths
  <2> QED
    BY <1>1, <1>2, <2>1, Lengths, WriteAdds
<1>4. line.is \notin {"open", "close"}
  OBVIOUS
<1>5. line \in Line
  BY <1>3 DEF Adds
<1> HIDE DEF line
<1> QED
  BY <1>1, <1>2, <1>3, <1>4, <1>5, GoOnKeeps DEF AddsPlainLine

LEMMA BlockGrows ==
  ASSUME WriterTypes, OpenSlot \/ \E of \in style.dialect : OpenBlock(of)
  PROVE  EntersBlock
<1>1. PICK of \in UNION Dialects, b \in Block, ends \in Nat :
          /\ of # "component" /\ b.of # "component" /\ (b.part # "start" => b.path # <<>>)
          /\ Write("open", of, Len(blocks), ends)
          /\ blocks' = Append(blocks, b)
          /\ above' = above /\ forgotten' = forgotten
  <2> DEFINE path == Append(Here, If(Number))
  <2>1. /\ Here \in Seq(Turn) /\ path \in Seq(Turn) /\ path # <<>>
        /\ Len(blocks) \in Nat /\ Len(blocks) + 1 \in Nat
    BY InnerBlock, Lengths, TurnsAreTurns
  <2> HIDE DEF path
  <2>2. ASSUME NEW of \in style.dialect, OpenBlock(of)
        PROVE  \E b \in Block :
                  /\ of \in UNION Dialects
                  /\ of # "component" /\ b.of # "component" /\ (b.part # "start" => b.path # <<>>)
                  /\ Write("open", of, Len(blocks), Len(blocks) + 1)
                  /\ blocks' = Append(blocks, b)
                  /\ above' = above /\ forgotten' = forgotten
    <3>1. of \in UNION Dialects /\ of # "component"
      BY <2>2, Lengths DEF OpenBlock
    <3>2. /\ Into(of, Here, "start") \in Block /\ Into(of, path, "body") \in Block
          /\ Into(of, Here, "start").of = of /\ Into(of, path, "body").of = of
          /\ Into(of, Here, "start").part = "start" /\ Into(of, path, "body").path = path
      BY <2>1, <3>1 DEF Into, Block
    <3>3. /\ Write("open", of, Len(blocks), Len(blocks) + 1)
          /\ blocks' = Append(blocks, IF of = "switch" THEN Into(of, Here, "start") ELSE Into(of, path, "body"))
          /\ above' = above /\ forgotten' = forgotten
      BY <2>2 DEF OpenBlock, path
    <3>4. CASE of = "switch"
      BY <3>1, <3>2, <3>3, <3>4
    <3>5. CASE of # "switch"
      BY <3>1, <3>2, <3>3, <3>5, <2>1
    <3> QED
      BY <3>4, <3>5
  <2>3. ASSUME OpenSlot
        PROVE  \E b \in Block :
                  /\ "slot" \in UNION Dialects
                  /\ b.of # "component" /\ (b.part # "start" => b.path # <<>>)
                  /\ Write("open", "slot", Len(blocks), Len(blocks) + 1)
                  /\ blocks' = Append(blocks, b)
                  /\ above' = above /\ forgotten' = forgotten
    <3>1. "slot" \in UNION Dialects
      BY <2>3, Lengths DEF OpenSlot
    <3>2. Into("slot", path, "body") \in Block /\ Into("slot", path, "body").of = "slot"
          /\ Into("slot", path, "body").path = path
      BY <2>1, <3>1 DEF Into, Block
    <3> QED
      BY <2>1, <2>3, <3>1, <3>2 DEF OpenSlot, path
  <2> QED
    BY <2>1, <2>2, <2>3
<1> DEFINE line == [is |-> "open", of |-> of, column |-> IF style.indented THEN Len(blocks) ELSE 0]
<1>2. Adds(line)
  BY <1>1, Lengths, WriteAdds
<1>3. line.is = "open" /\ line.of # "component" /\ line \in Line
  BY <1>1, <1>2 DEF Adds
<1> HIDE DEF line
<1> QED
  BY <1>1, <1>2, <1>3 DEF EntersBlock

LEMMA EndGrows == WriterTypes /\ CloseBlock => LeavesBlock
<1> SUFFICES ASSUME WriterTypes, CloseBlock PROVE LeavesBlock
  OBVIOUS
<1> DEFINE line == [is |-> "close", of |-> Inner.of,
                    column |-> IF style.indented THEN Len(blocks) - 1 ELSE 0]
<1>1. blocks # <<>> /\ Write("close", Inner.of, Len(blocks) - 1, 0)
      /\ blocks' = Front(blocks) /\ above' = above /\ forgotten' = forgotten
  BY DEF CloseBlock
<1>2. Adds(line)
  BY <1>1, Lengths, WriteAdds
<1>3. /\ line \in Line /\ line.is = "close" /\ line.of = blocks[Len(blocks)].of
      /\ style.indented => line.column = Len(blocks) - 1
  BY <1>1, <1>2, InnerBlock DEF Adds
<1> HIDE DEF line
<1> QED
  BY <1>1, <1>2, <1>3 DEF LeavesBlock

LEMMA ForgetGrows == WriterTypes /\ ForgetEnd => ForgetsEnd
<1> SUFFICES ASSUME WriterTypes, ForgetEnd PROVE ForgetsEnd
  OBVIOUS
<1>1. blocks # <<>> /\ blocks[Len(blocks)].of # "component"
  BY InnerBlock DEF ForgetEnd
<1> QED
  BY <1>1 DEF ForgetEnd, ForgetsEnd

LEMMA ComponentGrows ==
  ASSUME WriterTypes, NEW block \in BOOLEAN, OpenComponent(block)
  PROVE  AddsComponent(block)
<1> DEFINE line == [is |-> "open", of |-> "component",
                    column |-> IF style.indented THEN Len(blocks) ELSE 0]
           b == Into("component", Append(Here, If(Number)), "body")
           ends == Len(blocks) + IF block THEN 1 ELSE 0
<1>1. "component" \in UNION Dialects /\ ends \in Nat
  BY Lengths DEF OpenComponent
<1>2. Write("open", "component", Len(blocks), ends)
  BY DEF OpenComponent
<1>3. Adds(line)
  BY <1>1, <1>2, Lengths, WriteAdds
<1>4. source'[Number] = line
  BY <1>3 DEF Adds, Number, WriterTypes
<1>5. b \in Block /\ b.of = "component" /\ b.path # <<>> /\ Last(b.path).line = Len(source) + 1
  <2>1. /\ Append(Here, If(Number)) \in Seq(Turn) /\ Append(Here, If(Number)) # <<>>
        /\ Last(Append(Here, If(Number))).line = Number
    BY InnerBlock, Lengths, TurnsAreTurns
  <2> QED
    BY <2>1, <1>1 DEF Into, Block, Number
<1>6. /\ above' = [column |-> line.column, block |-> block]
      /\ forgotten' = forgotten
      /\ blocks' = IF block THEN Append(blocks, b) ELSE blocks
  BY <1>4 DEF OpenComponent
<1>7. "component" \notin trouble' => above.column < 0 \/ ((line.column > above.column) <=> above.block)
  <2>1. above.column \in Int /\ above.block \in BOOLEAN
    BY DEF WriterTypes
  <2>2. "component" \notin trouble' =>
            ~(above.column >= 0 /\ (line.column > above.column) # above.block)
    BY <1>4 DEF OpenComponent, Troubled
  <2> QED
    BY <2>1, <2>2
<1>8. /\ line \in Line /\ line.is = "open" /\ line.of = "component"
      /\ style.indented => line.column = Len(blocks)
  BY <1>3 DEF Adds
<1> HIDE DEF line, b
<1>9. CASE block
  BY <1>3, <1>5, <1>6, <1>7, <1>8, <1>9 DEF AddsComponent
<1>10. CASE ~block
  BY <1>3, <1>5, <1>6, <1>7, <1>8, <1>10 DEF AddsComponent
<1> QED
  BY <1>9, <1>10

LEMMA NextGrows == WriterTypes /\ CompilerNext => Grows
<1> SUFFICES ASSUME WriterTypes, CompilerNext PROVE Grows
  OBVIOUS
<1>1. CASE WriteText \/ WriteEcho \/ WriteBreak
  BY <1>1, TextGrows DEF Grows
<1>2. CASE (\E is \in {"elseif", "else"} : WriteBranch(is)) \/ WriteEmpty
           \/ (\E is \in {"case", "default"} : WriteCase(is))
  BY <1>2, BranchGrows DEF Grows
<1>3. CASE OpenSlot \/ \E of \in style.dialect : OpenBlock(of)
  BY <1>3, BlockGrows DEF Grows
<1>4. CASE CloseBlock
  BY <1>4, EndGrows DEF Grows
<1>5. CASE ForgetEnd
  BY <1>5, ForgetGrows DEF Grows
<1>6. CASE \E block \in BOOLEAN : OpenComponent(block)
  BY <1>6, ComponentGrows DEF Grows
<1> QED
  BY <1>1, <1>2, <1>3, <1>4, <1>5, <1>6 DEF CompilerNext

\* A step that grows a template keeps what the writer remembers in order.
LEMMA RecordedStays ==
  ASSUME WriterTypes, CompilerNext
  PROVE  /\ trouble \subseteq trouble'
         /\ trouble' \subseteq {"echo", "switch", "component", "slot", "branch"}
         /\ \A op \in meant' : op \in meant \/ (op.line = Number /\ Len(source') = Number)
<1>1. trouble \subseteq trouble' /\ trouble' \subseteq {"echo", "switch", "component", "slot", "branch"}
  BY DEF WriterTypes, CompilerNext, WriteText, WriteEcho, OpenBlock, OpenComponent, OpenSlot,
         WriteBranch, WriteEmpty, WriteCase, WriteBreak, CloseBlock, ForgetEnd, Troubled
<1>2. source' # source => Len(source') = Number
  BY NextGrows DEF Grows, AddsPlainLine, EntersBlock, LeavesBlock, ForgetsEnd, AddsComponent, Adds, Number, WriterTypes
<1>3. meant' = meant \/ (meant' = meant \cup {Op(Number, Here)} /\ source' # source)
  <2>1. ASSUME NEW is, NEW of, NEW depth, NEW ends, Write(is, of, depth, ends) PROVE source' # source
    <3>1. Len(source) \in Nat /\ source \in Seq(Line)
      BY DEF WriterTypes
    <3>2. Len(source') = Len(source) + 1
      BY <2>1, <3>1 DEF Write
    <3> QED
      BY <3>1, <3>2
  <2>2. CASE meant' = meant
    BY <2>2
  <2>3. CASE WriteText \/ WriteEcho
    BY <2>1, <2>3 DEF WriteText, WriteEcho, WriteIn
  <2>4. CASE \E of \in style.dialect : OpenBlock(of)
    BY <2>1, <2>4 DEF OpenBlock
  <2>5. CASE \E block \in BOOLEAN : OpenComponent(block)
    BY <2>1, <2>5 DEF OpenComponent
  <2> QED
    BY <2>2, <2>3, <2>4, <2>5 DEF CompilerNext, OpenSlot, WriteBranch, WriteEmpty, WriteCase,
       WriteBreak, CloseBlock, ForgetEnd
<1> QED
  BY <1>1, <1>2, <1>3 DEF Op

LEMMA TypesStep == WriterTypes /\ [CompilerNext]_compilerVars => WriterTypes'
<1> SUFFICES ASSUME WriterTypes, [CompilerNext]_compilerVars PROVE WriterTypes'
  OBVIOUS
<1>1. CASE UNCHANGED compilerVars
  BY <1>1 DEF compilerVars, WriterTypes
<1>2. CASE CompilerNext
  <2>1. /\ source \in Seq(Line) /\ Len(source) \in Nat /\ Len(source) <= MaxLines /\ MaxLines \in Nat
        /\ blocks \in Seq(Block) /\ Len(blocks) \in Nat /\ DOMAIN blocks = 1 .. Len(blocks)
        /\ \A k \in DOMAIN blocks : blocks[k].part # "start" => blocks[k].path # <<>>
    BY CompilerAssumption DEF WriterTypes
  <2>2. /\ source' \in Seq(Line) /\ Len(source') <= MaxLines /\ Len(source) <= Len(source')
        /\ style' = style
    <3>1. ASSUME NEW line, Adds(line)
          PROVE  /\ source' \in Seq(Line) /\ Len(source') <= MaxLines /\ Len(source) <= Len(source')
                 /\ style' = style
      BY <2>1, <3>1 DEF Adds
    <3> QED
      BY <1>2, <2>1, <3>1, NextGrows DEF Grows, AddsPlainLine, EntersBlock, LeavesBlock, ForgetsEnd, AddsComponent
  <2>3. /\ blocks' \in Seq(Block)
        /\ \A k \in DOMAIN blocks' : blocks'[k].part # "start" => blocks'[k].path # <<>>
    <3>1. ASSUME NEW b \in Block, b.part # "start" => b.path # <<>>, blocks' = Append(blocks, b)
          PROVE  /\ blocks' \in Seq(Block)
                 /\ \A k \in DOMAIN blocks' : blocks'[k].part # "start" => blocks'[k].path # <<>>
      BY <2>1, <3>1
    <3>2. ASSUME blocks # <<>>, blocks' = Front(blocks)
          PROVE  /\ blocks' \in Seq(Block)
                 /\ \A k \in DOMAIN blocks' : blocks'[k].part # "start" => blocks'[k].path # <<>>
      <4>1. /\ blocks' \in Seq(Block) /\ Len(blocks') = Len(blocks) - 1
            /\ \A k \in 1 .. Len(blocks) - 1 : blocks'[k] = blocks[k]
        BY <2>1, <3>2, EndsOfSequence
      <4>2. \A k \in DOMAIN blocks' : k \in 1 .. Len(blocks) - 1 /\ k \in DOMAIN blocks
        BY <2>1, <4>1
      <4> QED
        BY <2>1, <4>1, <4>2
    <3>3. CASE AddsPlainLine
      <4>1. /\ blocks' \in Seq(Block) /\ Len(blocks') = Len(blocks)
            /\ \A k \in DOMAIN blocks : blocks'[k].part # "start" => blocks'[k].path # <<>>
        BY <3>3 DEF AddsPlainLine
      <4> QED
        BY <4>1, <2>1
    <3>4. CASE EntersBlock
      BY <3>1, <3>4 DEF EntersBlock
    <3>5. CASE LeavesBlock \/ ForgetsEnd
      BY <3>2, <3>5 DEF LeavesBlock, ForgetsEnd
    <3>6. CASE \E block \in BOOLEAN : AddsComponent(block)
      <4>1. CASE blocks' = blocks
        BY <4>1, <2>1
      <4>2. CASE blocks' # blocks
        <5>1. PICK b \in Block : b.path # <<>> /\ blocks' = Append(blocks, b)
          BY <3>6, <4>2 DEF AddsComponent
        <5> QED
          BY <5>1, <3>1
      <4> QED
        BY <4>1, <4>2
    <3> QED
      BY <1>2, <3>3, <3>4, <3>5, <3>6, NextGrows DEF Grows
  <2>4. above' \in [column : Int, block : BOOLEAN] /\ forgotten' \in BOOLEAN
    <3>1. ASSUME NEW block \in BOOLEAN, NEW line \in Line PROVE [column |-> line.column, block |-> block] \in [column : Int, block : BOOLEAN]
      BY DEF Line
    <3> QED
      BY <1>2, <3>1, NextGrows DEF Grows, AddsPlainLine, EntersBlock, LeavesBlock, ForgetsEnd, AddsComponent, WriterTypes
  <2>5. \A op \in meant' : op.line \in DOMAIN source'
    <3> TAKE op \in meant'
    <3>1. op \in meant \/ (op.line = Number /\ Len(source') = Number)
      BY <1>2, RecordedStays
    <3>2. \A i \in DOMAIN source : i \in DOMAIN source'
      BY <2>1, <2>2
    <3>3. Number \in Nat /\ Number > 0 /\ DOMAIN source' = 1 .. Len(source')
      BY <2>1, <2>2 DEF Number
    <3>4. CASE op \in meant
      BY <3>2, <3>4 DEF WriterTypes
    <3>5. CASE op.line = Number /\ Len(source') = Number
      BY <3>3, <3>5
    <3> QED
      BY <3>1, <3>4, <3>5
  <2> QED
    BY <1>2, <2>2, <2>3, <2>4, <2>5, RecordedStays DEF WriterTypes
<1> QED
  BY <1>1, <1>2

LEMMA TypesStart == CompilerInit => WriterTypes
<1> SUFFICES ASSUME CompilerInit PROVE WriterTypes
  OBVIOUS
<1>1. source \in Seq(Line) /\ Len(source) <= MaxLines
  BY CompilerAssumption DEF CompilerInit
<1>2. blocks \in Seq(Block) /\ DOMAIN blocks = {}
  BY DEF CompilerInit
<1>3. above \in [column : Int, block : BOOLEAN]
  <2>1. above = [column |-> -1, block |-> FALSE] /\ -1 \in Int
    BY DEF CompilerInit
  <2> QED
    BY <2>1
<1>4. /\ style \in [dialect : Dialects, indented : BOOLEAN] /\ forgotten \in BOOLEAN
      /\ meant = {} /\ trouble = {}
  BY DEF CompilerInit
<1> QED
  BY <1>1, <1>2, <1>3, <1>4 DEF WriterTypes

LEMMA TypesSafe == WriterTypes => TemplateTypeOK
<1> SUFFICES ASSUME WriterTypes PROVE TemplateTypeOK
  OBVIOUS
<1>1. \A k \in DOMAIN blocks : blocks[k] \in Block
  BY DEF WriterTypes
<1>2. \A k \in DOMAIN blocks : blocks[k].part \in {"start", "body", "last"}
  BY <1>1 DEF Block
<1> QED
  BY <1>2 DEF WriterTypes, TemplateTypeOK
-----------------------------------------------------------------------------
\* What holds of component lines while none of them misleads.
ComponentBlocks(bs) == {k \in DOMAIN bs : bs[k].of = "component"}

Opener(bs, k) == Last(bs[k].path).line

OpenKnown(src, o, k, indented) ==
    /\ o \in 1 .. Len(src) /\ Component(src, o) /\ ~Ended(src, o)
    /\ indented => src[o].column = k - 1
    /\ \A i \in 1 .. Len(src) : i > o /\ Component(src, i) => src[i].column > src[o].column

LineKnown(src, bs, up, i) ==
    LET opened == \E k \in ComponentBlocks(bs) : i = Opener(bs, k) IN
        /\ Final(src, i) => /\ up.column = src[i].column
                            /\ ~up.block => ~Ended(src, i)
                            /\ opened => up.block
        /\ (Deeper(src, i) => Ended(src, i)) \/ opened \/ (Final(src, i) /\ ~up.block)
        /\ \E f \in 1 .. Len(src) : Component(src, f) /\ Final(src, f)

ComponentsKnown(src, bs, up, indented) ==
    /\ \A i \in 1 .. Len(src) : ~indented => src[i].column = 0
    /\ \A k \in ComponentBlocks(bs) : OpenKnown(src, Opener(bs, k), k, indented)
    /\ \A k, l \in ComponentBlocks(bs) : k < l => Opener(bs, k) < Opener(bs, l)
    /\ \A i \in 1 .. Len(src) : Component(src, i) => LineKnown(src, bs, up, i)

\* A line that opened something still does, but a component by what follows.
LEMMA OpensOld ==
  ASSUME NEW src \in Seq(Line), NEW line \in Line, NEW i \in 1 .. Len(src),
         Component(src, i) =>
             ((Deeper(Append(src, line), i) /\ Ended(Append(src, line), i))
                 <=> (Deeper(src, i) /\ Ended(src, i)))
  PROVE  Opens(Append(src, line), i) <=> Opens(src, i)
<1> DEFINE more == Append(src, line)
<1>1. /\ more \in Seq(Line) /\ i \in 1 .. Len(more) /\ more[i] = src[i]
      /\ Component(more, i) <=> Component(src, i)
  BY DEF Component, Is
<1>2. CASE Component(src, i)
  BY <1>1, <1>2, ComponentOpens
<1>3. CASE ~Component(src, i)
  BY <1>1, <1>3 DEF Opens, Component, Is
<1> QED
  BY <1>2, <1>3

\* Lines other than components and their ends change nothing of components.
LEMMA QuietLine ==
  ASSUME NEW src \in Seq(Line), NEW line \in Line, NEW bs, NEW cs, NEW up, NEW indented \in BOOLEAN,
         ~(line.is \in {"open", "close"} /\ line.of = "component"),
         ~indented => line.column = 0,
         ComponentBlocks(cs) = ComponentBlocks(bs),
         \A k \in ComponentBlocks(bs) : cs[k] = bs[k],
         ComponentsKnown(src, bs, up, indented)
  PROVE  /\ ComponentsKnown(Append(src, line), cs, up, indented)
         /\ \A i \in 1 .. Len(src) : Opens(Append(src, line), i) <=> Opens(src, i)
<1> DEFINE more == Append(src, line)
           n == Len(src) + 1
<1>1. /\ more \in Seq(Line) /\ Len(more) = n /\ n \in Nat /\ Len(src) \in Nat
      /\ \A k \in 1 .. Len(src) : more[k] = src[k]
      /\ more[n] = line /\ n \in 1 .. n
      /\ \A k \in 1 .. n : k \in 1 .. Len(src) \/ k = n
      /\ \A k \in 1 .. Len(src) : k \in 1 .. n
  OBVIOUS
<1>2. ~Component(more, n) /\ \A i : ~EndOf(more, n, i)
  BY <1>1 DEF Component, EndOf, Is
<1>3. \A i \in 1 .. Len(src) : /\ Component(more, i) <=> Component(src, i)
                               /\ Final(more, i) <=> Final(src, i)
                               /\ Ended(more, i) <=> Ended(src, i)
                               /\ Deeper(more, i) <=> Deeper(src, i)
  BY <1>2, LineAdded, DeeperAdded
<1> HIDE DEF more, n
<1>4. \A k \in ComponentBlocks(cs) : Opener(cs, k) = Opener(bs, k)
  BY DEF Opener
<1>5. \A k \in ComponentBlocks(cs) : OpenKnown(more, Opener(cs, k), k, indented)
  <2> TAKE k \in ComponentBlocks(cs)
  <2>1. OpenKnown(src, Opener(bs, k), k, indented)
    BY DEF ComponentsKnown
  <2> QED
    BY <2>1, <1>1, <1>2, <1>3, <1>4 DEF OpenKnown
<1>6. \A i \in 1 .. Len(more) : Component(more, i) => LineKnown(more, cs, up, i)
  <2> SUFFICES ASSUME NEW i \in 1 .. Len(more), Component(more, i) PROVE LineKnown(more, cs, up, i)
    OBVIOUS
  <2>1. i \in 1 .. Len(src)
    BY <1>1, <1>2
  <2>2. LineKnown(src, bs, up, i)
    BY <2>1, <1>3 DEF ComponentsKnown
  <2>3. \E f \in 1 .. Len(more) : Component(more, f) /\ Final(more, f)
    BY <2>2, <1>1, <1>3 DEF LineKnown
  <2>4. (\E k \in ComponentBlocks(cs) : i = Opener(cs, k)) <=> (\E k \in ComponentBlocks(bs) : i = Opener(bs, k))
    BY <1>4
  <2> QED
    BY <2>1, <2>2, <2>3, <2>4, <1>1, <1>3 DEF LineKnown
<1>7. ComponentsKnown(more, cs, up, indented)
  <2>1. \A i \in 1 .. Len(more) : ~indented => more[i].column = 0
    BY <1>1 DEF ComponentsKnown
  <2>2. \A k, l \in ComponentBlocks(cs) : k < l => Opener(cs, k) < Opener(cs, l)
    BY <1>4 DEF ComponentsKnown
  <2> QED
    BY <2>1, <2>2, <1>5, <1>6 DEF ComponentsKnown
<1>8. \A i \in 1 .. Len(src) : Opens(more, i) <=> Opens(src, i)
  BY <1>1, <1>3, OpensOld DEF more
<1> QED
  BY <1>7, <1>8 DEF more

\* The end of a component is found by its own opener and no other line.
LEMMA EndOfComponent ==
  ASSUME NEW src \in Seq(Line), NEW line \in Line, NEW bs \in Seq(Block), bs # <<>>,
         bs[Len(bs)].of = "component", NEW up, NEW indented \in BOOLEAN,
         line.is = "close", line.of = "component",
         line.column = IF indented THEN Len(bs) - 1 ELSE 0,
         ComponentsKnown(src, bs, up, indented)
  PROVE  LET more == Append(src, line)
             o == Opener(bs, Len(bs))
         IN  /\ ComponentsKnown(more, Front(bs), up, indented)
             /\ o \in 1 .. Len(src) /\ Opens(more, o) /\ ~Opens(src, o)
             /\ \A i \in 1 .. Len(src) : i # o => (Opens(more, i) <=> Opens(src, i))
<1> DEFINE more == Append(src, line)
           n == Len(src) + 1
           m == Len(bs)
           o == Opener(bs, m)
           cs == Front(bs)
<1>1. /\ more \in Seq(Line) /\ Len(more) = n /\ n \in Nat /\ Len(src) \in Nat
      /\ \A k \in 1 .. Len(src) : more[k] = src[k]
      /\ more[n] = line /\ n \in 1 .. n
      /\ \A k \in 1 .. n : k \in 1 .. Len(src) \/ k = n
      /\ \A k \in 1 .. Len(src) : k \in 1 .. n
  OBVIOUS
<1>2. /\ ~Component(more, n)
      /\ \A i : EndOf(more, n, i) <=> line.column = more[i].column
  BY <1>1 DEF Component, EndOf, Is
<1>3. \A i \in 1 .. Len(src) : /\ Component(more, i) <=> Component(src, i)
                               /\ Final(more, i) <=> Final(src, i)
                               /\ Ended(more, i) <=> Ended(src, i) \/ line.column = src[i].column
                               /\ Deeper(more, i) <=> Deeper(src, i)
  <2> TAKE i \in 1 .. Len(src)
  <2>1. /\ Component(more, i) <=> Component(src, i)
        /\ Final(more, i) <=> Final(src, i) /\ ~Component(more, n)
        /\ Ended(more, i) <=> Ended(src, i) \/ EndOf(more, n, i)
    BY LineAdded
  <2>2. ~Component(more, n) => (Deeper(more, i) <=> Deeper(src, i))
    BY DeeperAdded
  <2> QED
    BY <2>1, <2>2, <1>1, <1>2
<1>4. /\ m \in ComponentBlocks(bs) /\ m \in Nat /\ m > 0
      /\ ComponentBlocks(cs) = ComponentBlocks(bs) \ {m}
      /\ \A k \in ComponentBlocks(cs) : k \in ComponentBlocks(bs) /\ k < m
                                        /\ Opener(cs, k) = Opener(bs, k)
  <2>1. /\ m \in DOMAIN bs /\ m \in Nat /\ m > 0 /\ DOMAIN bs = 1 .. m
        /\ cs \in Seq(Block) /\ Len(cs) = m - 1 /\ DOMAIN cs = 1 .. m - 1
        /\ \A k \in 1 .. m - 1 : cs[k] = bs[k]
    BY EndsOfSequence
  <2>2. \A k \in DOMAIN cs : k \in DOMAIN bs /\ k # m /\ k < m
    BY <2>1
  <2>3. \A k \in DOMAIN bs : k = m \/ k \in DOMAIN cs
    BY <2>1
  <2> HIDE DEF m, cs
  <2>4. ComponentBlocks(cs) = ComponentBlocks(bs) \ {m}
    BY <2>1, <2>2, <2>3 DEF ComponentBlocks
  <2>5. m \in ComponentBlocks(bs)
    BY <2>1 DEF ComponentBlocks, m
  <2>6. \A k \in ComponentBlocks(cs) : k \in DOMAIN cs
    BY DEF ComponentBlocks
  <2> QED
    BY <2>1, <2>2, <2>4, <2>5, <2>6 DEF Opener
<1>5. /\ o \in 1 .. Len(src) /\ Component(src, o) /\ ~Ended(src, o)
      /\ \A i \in 1 .. Len(src) : i > o /\ Component(src, i) => src[i].column > src[o].column
      /\ line.column = src[o].column
  <2>1. OpenKnown(src, o, m, indented)
    BY <1>4 DEF ComponentsKnown
  <2>2. ~indented => src[o].column = 0
    BY <2>1 DEF OpenKnown, ComponentsKnown
  <2> QED
    BY <2>1, <2>2 DEF OpenKnown
<1>6. \A i \in 1 .. Len(src) : src[i].column \in Nat
  <2>1. \A i \in 1 .. Len(src) : src[i] \in Line
    OBVIOUS
  <2> QED
    BY <2>1 DEF Line
<1> HIDE DEF more, n, m, o, cs
\* The openers before are less deep.
<1>7. \A k \in ComponentBlocks(cs) :
          /\ Opener(cs, k) \in 1 .. Len(src) /\ src[Opener(cs, k)].column # line.column
          /\ Opener(cs, k) # o
  <2> TAKE k \in ComponentBlocks(cs)
  <2> DEFINE p == Opener(bs, k)
  <2>1. OpenKnown(src, p, k, indented) /\ p < o
    BY <1>4 DEF ComponentsKnown, o
  <2>2. o > p /\ p # o
    BY <2>1, <1>5 DEF OpenKnown
  <2>3. src[o].column > src[p].column
    BY <2>1, <2>2, <1>5 DEF OpenKnown
  <2>4. src[p].column \in Nat /\ p \in 1 .. Len(src)
    BY <2>1, <1>6 DEF OpenKnown
  <2> QED
    BY <2>2, <2>3, <2>4, <1>4, <1>5, <1>6
\* A last component that is not the opener is deeper.
<1>8. \A i \in 1 .. Len(src) :
          Component(src, i) /\ Final(src, i) /\ i # o => src[i].column # line.column
  <2> SUFFICES ASSUME NEW i \in 1 .. Len(src), Component(src, i), Final(src, i), i # o
               PROVE  src[i].column # line.column
    OBVIOUS
  <2>1. i > o
    BY <1>1, <1>5 DEF Final, Below
  <2> QED
    BY <2>1, <1>5, <1>6
<1>9. \A k \in ComponentBlocks(cs) : OpenKnown(more, Opener(cs, k), k, indented)
  <2> TAKE k \in ComponentBlocks(cs)
  <2>1. OpenKnown(src, Opener(cs, k), k, indented)
    BY <1>4 DEF ComponentsKnown
  <2> QED
    BY <2>1, <1>1, <1>2, <1>3, <1>7 DEF OpenKnown
<1>10. ASSUME NEW i \in 1 .. Len(src), Component(src, i)
       PROVE  /\ LineKnown(src, bs, up, i)
              /\ (\E k \in ComponentBlocks(bs) : i = Opener(bs, k))
                     <=> i = o \/ (\E k \in ComponentBlocks(cs) : i = Opener(cs, k))
  <2>1. LineKnown(src, bs, up, i)
    BY <1>10 DEF ComponentsKnown
  <2>2. \A k \in ComponentBlocks(bs) : k = m \/ k \in ComponentBlocks(cs)
    BY <1>4
  <2> QED
    BY <2>1, <2>2, <1>4 DEF o
<1>11. \A i \in 1 .. Len(more) : Component(more, i) => LineKnown(more, cs, up, i)
  <2> SUFFICES ASSUME NEW i \in 1 .. Len(more), Component(more, i) PROVE LineKnown(more, cs, up, i)
    OBVIOUS
  <2>1. i \in 1 .. Len(src) /\ Component(src, i)
    BY <1>1, <1>2, <1>3
  <2>2. LineKnown(src, bs, up, i)
    BY <2>1, <1>10
  <2>3. \E f \in 1 .. Len(more) : Component(more, f) /\ Final(more, f)
    BY <2>2, <1>1, <1>3 DEF LineKnown
  <2>4. Final(more, i) => /\ up.column = more[i].column
                          /\ ~up.block => ~Ended(more, i)
                          /\ (\E k \in ComponentBlocks(cs) : i = Opener(cs, k)) => up.block
    BY <2>1, <2>2, <1>1, <1>3, <1>8, <1>10 DEF LineKnown
  <2>5. \/ Deeper(more, i) => Ended(more, i)
        \/ \E k \in ComponentBlocks(cs) : i = Opener(cs, k)
        \/ Final(more, i) /\ ~up.block
    BY <2>1, <2>2, <1>3, <1>5, <1>10 DEF LineKnown
  <2> QED
    BY <2>3, <2>4, <2>5 DEF LineKnown
<1>12. ComponentsKnown(more, cs, up, indented)
  <2>1. \A i \in 1 .. Len(more) : ~indented => more[i].column = 0
    BY <1>1 DEF ComponentsKnown
  <2>2. \A k, l \in ComponentBlocks(cs) : k < l => Opener(cs, k) < Opener(cs, l)
    BY <1>4 DEF ComponentsKnown
  <2> QED
    BY <2>1, <2>2, <1>9, <1>11 DEF ComponentsKnown
<1>13. Opens(more, o) /\ ~Opens(src, o)
  <2>1. Deeper(src, o)
    BY <1>5 DEF Deeper, Below
  <2> QED
    BY <2>1, <1>1, <1>3, <1>5, ComponentOpens
<1>14. \A i \in 1 .. Len(src) : i # o => (Opens(more, i) <=> Opens(src, i))
  <2> SUFFICES ASSUME NEW i \in 1 .. Len(src), i # o PROVE Opens(more, i) <=> Opens(src, i)
    OBVIOUS
  <2>1. Component(src, i) => ((Deeper(more, i) /\ Ended(more, i)) <=> (Deeper(src, i) /\ Ended(src, i)))
    <3> SUFFICES ASSUME Component(src, i)
                 PROVE  (Deeper(more, i) /\ Ended(more, i)) <=> (Deeper(src, i) /\ Ended(src, i))
      OBVIOUS
    <3>1. LineKnown(src, bs, up, i)
      BY <1>10
    <3>2. CASE \E k \in ComponentBlocks(bs) : i = Opener(bs, k)
      <4>1. src[i].column # line.column
        BY <3>2, <1>7, <1>10
      <4> QED
        BY <4>1, <1>3
    <3>3. CASE Final(src, i)
      BY <3>3, <1>3, <1>8
    <3>4. CASE Deeper(src, i) => Ended(src, i)
      BY <3>4, <1>3
    <3> QED
      BY <3>1, <3>2, <3>3, <3>4 DEF LineKnown
  <2> QED
    BY <2>1, OpensOld DEF more
<1> QED
  BY <1>5, <1>12, <1>13, <1>14 DEF more, o, m, cs

\* A component opens nothing yet; the one before has got its next.
LEMMA AnotherComponent ==
  ASSUME NEW src \in Seq(Line), NEW line \in Line, NEW bs \in Seq(Block), NEW cs \in Seq(Block),
         NEW up \in [column : Int, block : BOOLEAN], NEW block \in BOOLEAN, NEW indented \in BOOLEAN,
         line.is = "open", line.of = "component",
         line.column = IF indented THEN Len(bs) ELSE 0,
         up.column < 0 \/ ((line.column > up.column) <=> up.block),
         IF block
         THEN \E b \in Block : /\ b.of = "component" /\ Last(b.path).line = Len(src) + 1
                               /\ cs = Append(bs, b)
         ELSE cs = bs,
         ComponentsKnown(src, bs, up, indented)
  PROVE  LET more == Append(src, line) IN
         /\ ComponentsKnown(more, cs, [column |-> line.column, block |-> block], indented)
         /\ ~Opens(more, Len(src) + 1)
         /\ \A i \in 1 .. Len(src) : Opens(more, i) <=> Opens(src, i)
<1> DEFINE more == Append(src, line)
           n == Len(src) + 1
           now == [column |-> line.column, block |-> block]
<1>1. /\ more \in Seq(Line) /\ Len(more) = n /\ n \in Nat /\ Len(src) \in Nat
      /\ \A k \in 1 .. Len(src) : more[k] = src[k]
      /\ more[n] = line /\ n \in 1 .. n
      /\ \A k \in 1 .. n : k \in 1 .. Len(src) \/ k = n
      /\ \A k \in 1 .. Len(src) : k \in 1 .. n /\ k < n
  OBVIOUS
<1>2. Component(more, n) /\ \A i : ~EndOf(more, n, i)
  BY <1>1 DEF Component, EndOf, Is
<1>3. \A i \in 1 .. Len(src) : /\ Component(more, i) <=> Component(src, i)
                               /\ ~Final(more, i)
                               /\ Ended(more, i) <=> Ended(src, i)
                               /\ ~Final(src, i) => (Deeper(more, i) <=> Deeper(src, i))
                               /\ Final(src, i) => Deeper(src, i)
                               /\ Final(src, i) => (Deeper(more, i) <=> line.column > src[i].column)
  BY <1>2, LineAdded, DeeperAdded
<1>4. Final(more, n) /\ ~Ended(more, n)
  BY <1>1 DEF Final, Ended, Below
<1>5. /\ \A i \in 1 .. Len(src) : src[i].column \in Nat
      /\ line.column \in Nat /\ now.column = line.column /\ now.block = block
  <2>1. \A i \in 1 .. Len(src) : src[i] \in Line
    OBVIOUS
  <2> QED
    BY <2>1 DEF Line
<1>6. /\ \A k \in ComponentBlocks(bs) : k \in ComponentBlocks(cs) /\ Opener(cs, k) = Opener(bs, k)
                                        /\ k \in 1 .. Len(bs)
      /\ \A k \in ComponentBlocks(cs) :
            k \in ComponentBlocks(bs) \/ (block /\ k = Len(bs) + 1 /\ Opener(cs, k) = n)
      /\ block => \E k \in ComponentBlocks(cs) : Opener(cs, k) = n
      /\ Len(bs) \in Nat
  <2>1. CASE block
    <3>1. PICK b \in Block : b.of = "component" /\ Last(b.path).line = n /\ cs = Append(bs, b)
      BY <2>1
    <3>2. /\ Len(bs) \in Nat /\ DOMAIN bs = 1 .. Len(bs) /\ DOMAIN cs = 1 .. Len(bs) + 1
          /\ \A k \in 1 .. Len(bs) : cs[k] = bs[k] /\ k \in DOMAIN cs
          /\ cs[Len(bs) + 1] = b /\ Len(bs) + 1 \in DOMAIN cs
          /\ \A k \in DOMAIN cs : k \in DOMAIN bs \/ k = Len(bs) + 1
      BY <3>1
    <3>3. Opener(cs, Len(bs) + 1) = n /\ Len(bs) + 1 \in ComponentBlocks(cs)
      BY <3>1, <3>2 DEF Opener, ComponentBlocks
    <3>4. \A k \in ComponentBlocks(bs) : k \in ComponentBlocks(cs) /\ Opener(cs, k) = Opener(bs, k)
                                         /\ k \in 1 .. Len(bs)
      BY <3>2 DEF Opener, ComponentBlocks
    <3>5. \A k \in ComponentBlocks(cs) : k \in ComponentBlocks(bs) \/ k = Len(bs) + 1
      BY <3>2 DEF ComponentBlocks
    <3> QED
      BY <2>1, <3>2, <3>3, <3>4, <3>5
  <2>2. CASE ~block
    <3>1. cs = bs /\ Len(bs) \in Nat /\ DOMAIN bs = 1 .. Len(bs)
      BY <2>2
    <3> QED
      BY <3>1, <2>2 DEF ComponentBlocks
  <2> QED
    BY <2>1, <2>2
<1> HIDE DEF more, n, now
<1>7. \A i \in 1 .. Len(src) : Component(src, i) => LineKnown(src, bs, up, i)
  BY DEF ComponentsKnown
\* The last component is the one remembered.
<1>8. ASSUME NEW i \in 1 .. Len(src), Component(src, i), Final(src, i)
      PROVE  /\ up.column = src[i].column /\ (up.block <=> line.column > src[i].column)
             /\ Deeper(more, i) <=> up.block
  <2>1. up.column = src[i].column
    BY <1>7, <1>8 DEF LineKnown
  <2>2. up.block <=> line.column > src[i].column
    BY <2>1, <1>5
  <2> QED
    BY <2>1, <2>2, <1>3, <1>8
\* It is deeper than what is open.
<1>9. \A k \in ComponentBlocks(bs) : /\ OpenKnown(src, Opener(bs, k), k, indented)
                                     /\ line.column > src[Opener(bs, k)].column
  <2> TAKE k \in ComponentBlocks(bs)
  <2> DEFINE o == Opener(bs, k)
  <2>1. OpenKnown(src, o, k, indented)
    BY DEF ComponentsKnown
  <2>2. o \in 1 .. Len(src) /\ Component(src, o)
    BY <2>1 DEF OpenKnown
  <2> HIDE DEF o
  <2>3. CASE indented
    <3>1. src[o].column = k - 1 /\ line.column = Len(bs)
      BY <2>1, <2>3 DEF OpenKnown
    <3> QED
      BY <2>1, <3>1, <1>6 DEF o
  <2>4. CASE ~indented
    <3>1. LineKnown(src, bs, up, o)
      BY <2>2, <1>7
    <3>2. PICK f \in 1 .. Len(src) : Component(src, f) /\ Final(src, f)
      BY <3>1 DEF LineKnown
    <3>3. \A i \in 1 .. Len(src) : src[i].column = 0
      BY <2>4 DEF ComponentsKnown
    <3>4. ~up.block
      BY <3>2, <3>3, <1>8, <2>4
    <3>5. ~Final(src, o)
      BY <3>1, <3>4 DEF LineKnown, o
    <3>6. f > o
      BY <3>2, <3>5, <2>2, <1>1 DEF Final, Below
    <3>7. src[f].column > src[o].column
      BY <3>2, <3>6, <2>1 DEF OpenKnown
    <3>8. src[f].column = 0 /\ src[o].column = 0
      BY <3>2, <3>3, <2>2
    <3> QED
      BY <3>7, <3>8
  <2> QED
    BY <2>1, <2>3, <2>4 DEF o
<1>10. \A k \in ComponentBlocks(cs) : OpenKnown(more, Opener(cs, k), k, indented)
  <2> TAKE k \in ComponentBlocks(cs)
  <2>1. CASE k \in ComponentBlocks(bs)
    <3> DEFINE o == Opener(bs, k)
    <3>1. OpenKnown(src, o, k, indented) /\ line.column > src[o].column /\ Opener(cs, k) = o
      BY <2>1, <1>6, <1>9
    <3> HIDE DEF o
    <3>2. o \in 1 .. Len(src)
      BY <3>1 DEF OpenKnown
    <3>3. \A i \in 1 .. Len(more) : i > o /\ Component(more, i) => more[i].column > more[o].column
      BY <3>1, <3>2, <1>1, <1>3 DEF OpenKnown
    <3> QED
      BY <3>1, <3>2, <3>3, <1>1, <1>3 DEF OpenKnown
  <2>2. CASE k \notin ComponentBlocks(bs)
    <3>1. k = Len(bs) + 1 /\ Opener(cs, k) = n
      BY <2>2, <1>6
    <3>2. indented => more[n].column = k - 1
      BY <3>1, <1>1, <1>6
    <3>3. \A i \in 1 .. Len(more) : ~(i > n)
      BY <1>1
    <3> QED
      BY <3>1, <3>2, <3>3, <1>1, <1>2, <1>4 DEF OpenKnown
  <2> QED
    BY <2>1, <2>2
<1>11. \A k, l \in ComponentBlocks(cs) : k < l => Opener(cs, k) < Opener(cs, l)
  <2> SUFFICES ASSUME NEW k \in ComponentBlocks(cs), NEW l \in ComponentBlocks(cs), k < l
               PROVE  Opener(cs, k) < Opener(cs, l)
    OBVIOUS
  <2>1. CASE l \in ComponentBlocks(bs)
    <3>1. k \in ComponentBlocks(bs)
      BY <2>1, <1>6
    <3> QED
      BY <2>1, <3>1, <1>6 DEF ComponentsKnown
  <2>2. CASE l \notin ComponentBlocks(bs)
    <3>1. k \in ComponentBlocks(bs) /\ Opener(cs, l) = n
      BY <2>2, <1>6
    <3>2. Opener(cs, k) \in 1 .. Len(src)
      BY <3>1, <1>6, <1>9 DEF OpenKnown
    <3> QED
      BY <3>1, <3>2, <1>1
  <2> QED
    BY <2>1, <2>2
<1>12. \A i \in 1 .. Len(src) :
           (\E k \in ComponentBlocks(cs) : i = Opener(cs, k)) <=> (\E k \in ComponentBlocks(bs) : i = Opener(bs, k))
  BY <1>1, <1>6
<1>13. (\E k \in ComponentBlocks(cs) : n = Opener(cs, k)) <=> block
  <2>1. \A k \in ComponentBlocks(bs) : Opener(cs, k) # n
    BY <1>1, <1>6, <1>9 DEF OpenKnown
  <2> QED
    BY <2>1, <1>6
<1>14. \A i \in 1 .. Len(more) : Component(more, i) => LineKnown(more, cs, now, i)
  <2> SUFFICES ASSUME NEW i \in 1 .. Len(more), Component(more, i) PROVE LineKnown(more, cs, now, i)
    OBVIOUS
  <2>1. \E f \in 1 .. Len(more) : Component(more, f) /\ Final(more, f)
    BY <1>1, <1>2, <1>4
  <2>2. CASE i \in 1 .. Len(src)
    <3>1. Component(src, i) /\ LineKnown(src, bs, up, i)
      BY <2>2, <1>3, <1>7
    <3>2. (Deeper(more, i) => Ended(more, i)) \/ (\E k \in ComponentBlocks(cs) : i = Opener(cs, k))
      <4>1. CASE Final(src, i)
        BY <4>1, <3>1, <2>2, <1>3, <1>8, <1>12 DEF LineKnown
      <4>2. CASE ~Final(src, i)
        BY <4>2, <3>1, <2>2, <1>3, <1>12 DEF LineKnown
      <4> QED
        BY <4>1, <4>2
    <3> QED
      BY <2>1, <2>2, <3>2, <1>3 DEF LineKnown
  <2>3. CASE i = n
    BY <2>1, <2>3, <1>1, <1>4, <1>5, <1>13 DEF LineKnown
  <2> QED
    BY <2>2, <2>3, <1>1
<1>15. ComponentsKnown(more, cs, now, indented)
  <2>1. \A i \in 1 .. Len(more) : ~indented => more[i].column = 0
    BY <1>1 DEF ComponentsKnown
  <2> QED
    BY <2>1, <1>10, <1>11, <1>14 DEF ComponentsKnown
<1>16. ~Opens(more, n)
  BY <1>1, <1>2, <1>4, ComponentOpens
<1>17. \A i \in 1 .. Len(src) : Opens(more, i) <=> Opens(src, i)
  <2> TAKE i \in 1 .. Len(src)
  <2>1. Component(src, i) => ((Deeper(more, i) /\ Ended(more, i)) <=> (Deeper(src, i) /\ Ended(src, i)))
    <3> SUFFICES ASSUME Component(src, i)
                 PROVE  (Deeper(more, i) /\ Ended(more, i)) <=> (Deeper(src, i) /\ Ended(src, i))
      OBVIOUS
    <3>1. LineKnown(src, bs, up, i)
      BY <1>7
    <3>2. CASE Final(src, i)
      BY <3>1, <3>2, <1>3, <1>8 DEF LineKnown
    <3>3. CASE ~Final(src, i)
      BY <3>3, <1>3
    <3> QED
      BY <3>2, <3>3
  <2> QED
    BY <2>1, OpensOld DEF more
<1> QED
  BY <1>15, <1>16, <1>17 DEF more, n, now
-----------------------------------------------------------------------------
\* How the counts of a template change with a line.
LEMMA Counts ==
  ASSUME NEW src, NEW n \in Nat
  PROVE  OpenedBy(src, n) \in Nat /\ ClosedBy(src, n) \in Nat
<1>1. IsFiniteSet(1 .. n)
  BY FS_Interval
<1>2. /\ IsFiniteSet({i \in 1 .. n : Opens(src, i)})
      /\ IsFiniteSet({i \in 1 .. n : src[i].is = "close"})
  BY <1>1, FS_Subset
<1> QED
  BY <1>2, FS_CardinalityType DEF OpenedBy, ClosedBy

LEMMA OneMoreCounted ==
  ASSUME NEW n \in Nat, NEW P, P \subseteq 1 .. n, NEW Q,
         NEW x, x \notin P, Q = P \/ Q = P \cup {x}
  PROVE  Cardinality(Q) = Cardinality(P) + IF Q = P THEN 0 ELSE 1
<1>0. IsFiniteSet(1 .. n)
  BY FS_Interval
<1>1. IsFiniteSet(P)
  BY <1>0, FS_Subset
<1>2. Cardinality(P) \in Nat
  BY <1>1, FS_CardinalityType
<1>3. Cardinality(P \cup {x}) = Cardinality(P) + 1
  BY <1>1, FS_AddElement
<1> QED
  BY <1>2, <1>3

\* The lines before keep their counts, but for what one of them has come to open.
LEMMA LineCounted ==
  ASSUME NEW src \in Seq(Line), NEW line \in Line,
         \A i \in 1 .. Len(src) : Opens(src, i) => Opens(Append(src, line), i)
  PROVE  LET more == Append(src, line) IN
         /\ \A k \in 1 .. Len(src) : /\ ClosedBy(more, k) = ClosedBy(src, k)
                                     /\ OpenedBy(more, k) >= OpenedBy(src, k)
         /\ ClosedBy(more, Len(src) + 1) =
                ClosedBy(src, Len(src)) + IF line.is = "close" THEN 1 ELSE 0
<1> DEFINE more == Append(src, line)
           n == Len(src) + 1
           OpenTo(s, k) == {i \in 1 .. k : Opens(s, i)}
           ClosedTo(s, k) == {i \in 1 .. k : s[i].is = "close"}
<1>1. /\ n \in Nat /\ Len(src) \in Nat
      /\ \A k \in 1 .. Len(src) : more[k] = src[k]
      /\ more[n] = line /\ 1 .. n = (1 .. Len(src)) \cup {n} /\ n \notin 1 .. Len(src)
      /\ \A k \in 1 .. Len(src) : k \in Nat /\ \A i \in 1 .. k : i \in 1 .. Len(src)
  <2>1. n \in Nat /\ Len(src) \in Nat /\ 1 .. n = (1 .. Len(src)) \cup {n} /\ n \notin 1 .. Len(src)
    OBVIOUS
  <2>2. (\A k \in 1 .. Len(src) : more[k] = src[k]) /\ more[n] = line
    OBVIOUS
  <2>3. \A k \in 1 .. Len(src) : k \in Nat /\ \A i \in 1 .. k : i \in 1 .. Len(src)
    OBVIOUS
  <2> QED
    BY <2>1, <2>2, <2>3
<1>2. \A s, k : OpenedBy(s, k) = Cardinality(OpenTo(s, k)) /\ ClosedBy(s, k) = Cardinality(ClosedTo(s, k))
  BY DEF OpenedBy, ClosedBy
<1>3. \A i \in 1 .. Len(src) : Opens(src, i) => Opens(more, i)
  OBVIOUS
<1> HIDE DEF more, n
<1>4. ASSUME NEW k \in 1 .. Len(src)
      PROVE  ClosedBy(more, k) = ClosedBy(src, k) /\ OpenedBy(more, k) >= OpenedBy(src, k)
  <2>1. ClosedTo(more, k) = ClosedTo(src, k) /\ OpenTo(src, k) \subseteq OpenTo(more, k)
    BY <1>1, <1>3
  <2>2. IsFiniteSet(OpenTo(more, k))
    <3>1. k \in Int /\ OpenTo(more, k) \subseteq 1 .. k
      BY <1>1
    <3>2. IsFiniteSet(1 .. k)
      BY <3>1, FS_Interval
    <3> QED
      BY <3>1, <3>2, FS_Subset
  <2>3. Cardinality(OpenTo(src, k)) <= Cardinality(OpenTo(more, k))
    BY <2>1, <2>2, FS_Subset
  <2>4. OpenedBy(more, k) \in Nat /\ OpenedBy(src, k) \in Nat
    BY <1>1, Counts
  <2> QED
    BY <2>1, <2>3, <2>4, <1>2
<1>5. ClosedBy(more, n) = ClosedBy(src, Len(src)) + IF line.is = "close" THEN 1 ELSE 0
  <2> DEFINE P == ClosedTo(src, Len(src))
             Q == ClosedTo(more, n)
  <2>1. Q = IF line.is = "close" THEN P \cup {n} ELSE P
    BY <1>1
  <2>2. P \subseteq 1 .. Len(src) /\ n \notin P
    BY <1>1
  <2>3. ClosedBy(more, n) = Cardinality(Q) /\ ClosedBy(src, Len(src)) = Cardinality(P)
    BY <1>2
  <2> HIDE DEF P, Q
  <2>4. Cardinality(Q) = Cardinality(P) + IF Q = P THEN 0 ELSE 1
    BY <2>1, <2>2, <1>1, OneMoreCounted
  <2>5. Q = P <=> line.is # "close"
    BY <2>1, <2>2
  <2> QED
    BY <2>3, <2>4, <2>5
<1> QED
  BY <1>4, <1>5 DEF more, n

\* x is the line added, if it opens something, or the one it ended.
LEMMA OneMoreOpens ==
  ASSUME NEW src \in Seq(Line), NEW line \in Line, NEW x \in 1 .. Len(src) + 1,
         x \in 1 .. Len(src) => ~Opens(src, x) /\ ~Opens(Append(src, line), Len(src) + 1),
         \A i \in 1 .. Len(src) : i # x => (Opens(Append(src, line), i) <=> Opens(src, i))
  PROVE  OpenedBy(Append(src, line), Len(src) + 1) =
             OpenedBy(src, Len(src)) + IF Opens(Append(src, line), x) THEN 1 ELSE 0
<1> DEFINE more == Append(src, line)
           n == Len(src) + 1
           P == {i \in 1 .. Len(src) : Opens(src, i)}
           Q == {i \in 1 .. n : Opens(more, i)}
<1>1. n \in Nat /\ Len(src) \in Nat /\ 1 .. n = (1 .. Len(src)) \cup {n} /\ n \notin 1 .. Len(src)
  OBVIOUS
<1>2. P \subseteq 1 .. Len(src) /\ x \notin P
  BY <1>1
<1>3. Q = IF Opens(more, x) THEN P \cup {x} ELSE P
  BY <1>1
<1>4. OpenedBy(more, n) = Cardinality(Q) /\ OpenedBy(src, Len(src)) = Cardinality(P)
  BY DEF OpenedBy
<1> HIDE DEF more, n, P, Q
<1>5. Cardinality(Q) = Cardinality(P) + IF Q = P THEN 0 ELSE 1
  BY <1>1, <1>2, <1>3, OneMoreCounted
<1>6. Q = P <=> ~Opens(more, x)
  BY <1>2, <1>3
<1> QED
  BY <1>4, <1>5, <1>6 DEF more, n
-----------------------------------------------------------------------------
\* The blocks open for the linter, and the ends it found.
OthersOf(bs) == {k \in DOMAIN bs : bs[k].of # "component"}

EndsShort(src, bs, short) ==
    OpenedBy(src, Len(src)) = ClosedBy(src, Len(src)) + Cardinality(OthersOf(bs))
                                  + IF short THEN 1 ELSE 0

NeverTooMany(src) == \A n \in 1 .. Len(src) : ClosedBy(src, n) <= OpenedBy(src, n)

LEMMA OthersCounted ==
  ASSUME NEW bs \in Seq(Block)
  PROVE  /\ Cardinality(OthersOf(bs)) \in Nat
         /\ \A b \in Block : Cardinality(OthersOf(Append(bs, b))) =
                Cardinality(OthersOf(bs)) + IF b.of = "component" THEN 0 ELSE 1
         /\ bs # <<>> => Cardinality(OthersOf(bs)) =
                Cardinality(OthersOf(Front(bs))) + IF bs[Len(bs)].of = "component" THEN 0 ELSE 1
<1>1. OthersOf(bs) \subseteq 1 .. Len(bs) /\ Len(bs) \in Nat
  BY DEF OthersOf
<1>2. Cardinality(OthersOf(bs)) \in Nat
  <2>1. IsFiniteSet(1 .. Len(bs))
    BY <1>1, FS_Interval
  <2>2. IsFiniteSet(OthersOf(bs))
    BY <1>1, <2>1, FS_Subset
  <2> QED
    BY <2>2, FS_CardinalityType
<1>3. ASSUME NEW cs \in Seq(Block), NEW b \in Block
      PROVE  Cardinality(OthersOf(Append(cs, b))) =
                 Cardinality(OthersOf(cs)) + IF b.of = "component" THEN 0 ELSE 1
  <2> DEFINE n == Len(cs) + 1
             P == OthersOf(cs)
             Q == OthersOf(Append(cs, b))
  <2>1. /\ Len(cs) \in Nat /\ DOMAIN cs = 1 .. Len(cs) /\ n \notin 1 .. Len(cs)
        /\ DOMAIN Append(cs, b) = (1 .. Len(cs)) \cup {n}
        /\ Append(cs, b)[n] = b
        /\ \A k \in 1 .. Len(cs) : Append(cs, b)[k] = cs[k]
    OBVIOUS
  <2>2. Q = (IF b.of = "component" THEN P ELSE P \cup {n})
    BY <2>1 DEF OthersOf
  <2>3. P \subseteq 1 .. Len(cs) /\ n \notin P
    BY <2>1 DEF OthersOf
  <2> HIDE DEF n, P, Q
  <2>4. Cardinality(Q) = Cardinality(P) + IF Q = P THEN 0 ELSE 1
    BY <2>1, <2>2, <2>3, OneMoreCounted
  <2> QED
    BY <2>2, <2>3, <2>4 DEF P, Q
<1>4. ASSUME bs # <<>>
      PROVE  Cardinality(OthersOf(bs)) =
                 Cardinality(OthersOf(Front(bs))) + IF bs[Len(bs)].of = "component" THEN 0 ELSE 1
  <2>1. Front(bs) \in Seq(Block) /\ bs[Len(bs)] \in Block
    BY <1>4, EndsOfSequence
  <2>2. bs = Append(Front(bs), bs[Len(bs)])
    BY <1>4, AppendProperties DEF Front
  <2> QED
    BY <2>1, <2>2, <1>3
<1> QED
  BY <1>2, <1>3, <1>4

LEMMA SumsAgree ==
  ASSUME NEW opened \in Nat, NEW closed \in Nat, NEW open \in Nat, NEW left \in Nat,
         NEW d \in Nat, NEW e \in Nat, NEW f \in Nat,
         opened = closed + open + f, open + d = left + e
  PROVE  opened + d = (closed + e) + left + f
OBVIOUS

\* A line adds as many openings, less the ends, as it leaves more blocks open.
LEMMA CountsStay ==
  ASSUME NEW src \in Seq(Line), NEW line \in Line, NEW bs \in Seq(Block), NEW cs \in Seq(Block),
         NEW short \in BOOLEAN, NeverTooMany(src), EndsShort(src, bs, short),
         NEW x \in 1 .. Len(src) + 1,
         x \in 1 .. Len(src) => ~Opens(src, x) /\ ~Opens(Append(src, line), Len(src) + 1),
         \A i \in 1 .. Len(src) : i # x => (Opens(Append(src, line), i) <=> Opens(src, i)),
         Cardinality(OthersOf(bs)) + (IF Opens(Append(src, line), x) THEN 1 ELSE 0)
           = Cardinality(OthersOf(cs)) + (IF line.is = "close" THEN 1 ELSE 0)
  PROVE  NeverTooMany(Append(src, line)) /\ EndsShort(Append(src, line), cs, short)
<1> DEFINE more == Append(src, line)
           n == Len(src) + 1
<1>1. /\ Len(more) = n /\ n \in Nat /\ Len(src) \in Nat
      /\ \A k \in 1 .. n : k \in 1 .. Len(src) \/ k = n
      /\ \A k \in 1 .. Len(src) : k \in Nat
  OBVIOUS
<1>2. /\ \A k \in 1 .. Len(src) : /\ ClosedBy(more, k) = ClosedBy(src, k)
                                  /\ OpenedBy(more, k) >= OpenedBy(src, k)
      /\ ClosedBy(more, n) = ClosedBy(src, Len(src)) + IF line.is = "close" THEN 1 ELSE 0
  <2>1. \A i \in 1 .. Len(src) : Opens(src, i) => Opens(more, i)
    OBVIOUS
  <2> QED
    BY <2>1, LineCounted
<1>3. OpenedBy(more, n) = OpenedBy(src, Len(src)) + IF Opens(more, x) THEN 1 ELSE 0
  BY OneMoreOpens
<1>4. /\ Cardinality(OthersOf(bs)) \in Nat /\ Cardinality(OthersOf(cs)) \in Nat
      /\ OpenedBy(src, Len(src)) \in Nat /\ ClosedBy(src, Len(src)) \in Nat
      /\ OpenedBy(more, n) \in Nat /\ ClosedBy(more, n) \in Nat
      /\ \A k \in 1 .. Len(src) : /\ OpenedBy(src, k) \in Nat /\ ClosedBy(src, k) \in Nat
                                  /\ OpenedBy(more, k) \in Nat
  BY <1>1, Counts, OthersCounted
<1>5. Cardinality(OthersOf(bs)) + (IF Opens(more, x) THEN 1 ELSE 0)
          = Cardinality(OthersOf(cs)) + (IF line.is = "close" THEN 1 ELSE 0)
  OBVIOUS
<1> HIDE DEF more, n
<1>6. OpenedBy(more, n) = ClosedBy(more, n) + Cardinality(OthersOf(cs)) + IF short THEN 1 ELSE 0
  <2> DEFINE d == IF Opens(more, x) THEN 1 ELSE 0
             e == IF line.is = "close" THEN 1 ELSE 0
             f == IF short THEN 1 ELSE 0
             opened == OpenedBy(src, Len(src))
             closed == ClosedBy(src, Len(src))
             open == Cardinality(OthersOf(bs))
             left == Cardinality(OthersOf(cs))
  <2>1. d \in Nat /\ e \in Nat /\ f \in Nat
    OBVIOUS
  <2>2. OpenedBy(more, n) = opened + d /\ ClosedBy(more, n) = closed + e /\ open + d = left + e
    BY <1>2, <1>3, <1>5
  <2>3. opened = closed + open + f
    BY DEF EndsShort
  <2>4. opened \in Nat /\ closed \in Nat /\ open \in Nat /\ left \in Nat
    BY <1>4
  <2> HIDE DEF d, e, f, opened, closed, open, left
  <2>5. opened + d = (closed + e) + left + f
    BY <2>1, <2>2, <2>3, <2>4, SumsAgree
  <2>6. OpenedBy(more, n) = ClosedBy(more, n) + Cardinality(OthersOf(cs)) + f
    BY <2>2, <2>5 DEF left
  <2> QED
    BY <2>6 DEF f
<1>7. \A k \in 1 .. n : ClosedBy(more, k) <= OpenedBy(more, k)
  <2> TAKE k \in 1 .. n
  <2>1. CASE k \in 1 .. Len(src)
    <3>1. ClosedBy(src, k) <= OpenedBy(src, k)
      BY <2>1 DEF NeverTooMany
    <3> QED
      BY <2>1, <3>1, <1>2, <1>4
  <2>2. CASE k = n
    BY <2>2, <1>4, <1>6
  <2> QED
    BY <2>1, <2>2, <1>1
<1> QED
  BY <1>1, <1>6, <1>7 DEF NeverTooMany, EndsShort, more

LEMMA CountsStayPlain ==
  ASSUME NEW src \in Seq(Line), NEW line \in Line, NEW bs \in Seq(Block), NEW cs \in Seq(Block),
         NEW short \in BOOLEAN, NeverTooMany(src), EndsShort(src, bs, short),
         \A i \in 1 .. Len(src) : Opens(Append(src, line), i) <=> Opens(src, i),
         Cardinality(OthersOf(bs)) + (IF Opens(Append(src, line), Len(src) + 1) THEN 1 ELSE 0)
           = Cardinality(OthersOf(cs)) + (IF line.is = "close" THEN 1 ELSE 0)
  PROVE  NeverTooMany(Append(src, line)) /\ EndsShort(Append(src, line), cs, short)
<1> DEFINE x == Len(src) + 1
<1>1. x \in 1 .. Len(src) + 1 /\ x \notin 1 .. Len(src) /\ x = Len(src) + 1
  OBVIOUS
<1> HIDE DEF x
<1>2. Cardinality(OthersOf(bs)) + (IF Opens(Append(src, line), x) THEN 1 ELSE 0)
           = Cardinality(OthersOf(cs)) + (IF line.is = "close" THEN 1 ELSE 0)
  BY <1>1
<1> QED
  BY <1>1, <1>2, CountsStay

LEMMA CountsStayEnded ==
  ASSUME NEW src \in Seq(Line), NEW line \in Line, NEW bs \in Seq(Block), NEW cs \in Seq(Block),
         NEW short \in BOOLEAN, NeverTooMany(src), EndsShort(src, bs, short),
         NEW o \in 1 .. Len(src), Opens(Append(src, line), o), ~Opens(src, o),
         \A i \in 1 .. Len(src) : i # o => (Opens(Append(src, line), i) <=> Opens(src, i)),
         ~Opens(Append(src, line), Len(src) + 1), line.is = "close",
         Cardinality(OthersOf(bs)) = Cardinality(OthersOf(cs))
  PROVE  NeverTooMany(Append(src, line)) /\ EndsShort(Append(src, line), cs, short)
<1>1. o \in 1 .. Len(src) + 1
  OBVIOUS
<1>2. Cardinality(OthersOf(bs)) + (IF Opens(Append(src, line), o) THEN 1 ELSE 0)
           = Cardinality(OthersOf(cs)) + (IF line.is = "close" THEN 1 ELSE 0)
  OBVIOUS
<1> QED
  BY <1>1, <1>2, CountsStay

LinterInv ==
    /\ WriterTypes
    /\ "component" \notin trouble =>
           /\ ComponentsKnown(source, blocks, above, style.indented)
           /\ NeverTooMany(source)
           /\ EndsShort(source, blocks, forgotten)

LEMMA LinterStarts == CompilerInit => LinterInv
<1> SUFFICES ASSUME CompilerInit PROVE LinterInv
  OBVIOUS
<1>1. source = <<>> /\ blocks = <<>> /\ ~forgotten /\ Len(source) = 0 /\ DOMAIN blocks = {}
  BY DEF CompilerInit
<1>2. ComponentsKnown(source, blocks, above, style.indented) /\ NeverTooMany(source)
  BY <1>1 DEF ComponentsKnown, ComponentBlocks, NeverTooMany
<1>3. OpenedBy(source, 0) = 0 /\ ClosedBy(source, 0) = 0 /\ Cardinality(OthersOf(blocks)) = 0
  <2>1. Cardinality({}) = 0
    BY FS_EmptySet
  <2>2. OthersOf(blocks) = {}
    BY <1>1 DEF OthersOf
  <2>3. {i \in 1 .. 0 : Opens(source, i)} = {} /\ {i \in 1 .. 0 : source[i].is = "close"} = {}
    OBVIOUS
  <2> QED
    BY <2>1, <2>2, <2>3 DEF OpenedBy, ClosedBy
<1>4. EndsShort(source, blocks, forgotten)
  BY <1>1, <1>3 DEF EndsShort
<1> QED
  BY <1>2, <1>4, TypesStart DEF LinterInv

\* A line that is not of a component.
LEMMA LinterPlain ==
  ASSUME LinterInv, AddsPlainLine \/ EntersBlock, "component" \notin trouble
  PROVE  /\ ComponentsKnown(source, blocks, above, style.indented)'
         /\ NeverTooMany(source)' /\ EndsShort(source, blocks, forgotten)'
<1>1. /\ source \in Seq(Line) /\ blocks \in Seq(Block) /\ style.indented \in BOOLEAN
      /\ forgotten \in BOOLEAN /\ DOMAIN blocks = 1 .. Len(blocks) /\ Len(blocks) \in Nat
      /\ ComponentsKnown(source, blocks, above, style.indented)
      /\ NeverTooMany(source) /\ EndsShort(source, blocks, forgotten)
  BY DEF LinterInv, WriterTypes
<1>2. PICK line \in Line :
          /\ Adds(line) /\ above' = above /\ forgotten' = forgotten
          /\ ~(line.is \in {"open", "close"} /\ line.of = "component") /\ line.is # "close"
          /\ blocks' \in Seq(Block)
          /\ ComponentBlocks(blocks') = ComponentBlocks(blocks)
          /\ \A k \in ComponentBlocks(blocks) : blocks'[k] = blocks[k]
          /\ Cardinality(OthersOf(blocks'))
                = Cardinality(OthersOf(blocks)) + IF line.is = "open" THEN 1 ELSE 0
  <2>1. CASE AddsPlainLine
    <3>1. PICK line \in Line :
              /\ Adds(line) /\ line.is \notin {"open", "close"}
              /\ blocks' \in Seq(Block) /\ Len(blocks') = Len(blocks)
              /\ \A k \in DOMAIN blocks :
                    /\ blocks'[k].of = blocks[k].of
                    /\ blocks[k].of = "component" => blocks'[k] = blocks[k]
              /\ above' = above /\ forgotten' = forgotten
      BY <2>1 DEF AddsPlainLine
    <3>2. DOMAIN blocks' = DOMAIN blocks
      BY <3>1, <1>1
    <3>3. /\ ComponentBlocks(blocks') = ComponentBlocks(blocks)
          /\ OthersOf(blocks') = OthersOf(blocks)
          /\ \A k \in ComponentBlocks(blocks) : blocks'[k] = blocks[k]
      BY <3>1, <3>2 DEF ComponentBlocks, OthersOf
    <3>4. Cardinality(OthersOf(blocks)) \in Nat
      BY <1>1, OthersCounted
    <3> QED
      BY <3>1, <3>3, <3>4
  <2>2. CASE EntersBlock
    <3>1. PICK line \in Line, b \in Block :
              /\ Adds(line) /\ line.is = "open" /\ line.of # "component"
              /\ b.of # "component" /\ blocks' = Append(blocks, b)
              /\ above' = above /\ forgotten' = forgotten
      BY <2>2 DEF EntersBlock
    <3>2. blocks' \in Seq(Block) /\ DOMAIN blocks' = DOMAIN blocks \cup {Len(blocks) + 1}
          /\ blocks'[Len(blocks) + 1] = b
          /\ \A k \in DOMAIN blocks : blocks'[k] = blocks[k]
      BY <3>1, <1>1
    <3>3. /\ ComponentBlocks(blocks') = ComponentBlocks(blocks)
          /\ \A k \in ComponentBlocks(blocks) : blocks'[k] = blocks[k]
      BY <3>1, <3>2 DEF ComponentBlocks
    <3>4. Cardinality(OthersOf(blocks')) = Cardinality(OthersOf(blocks)) + 1
      BY <3>1, <1>1, OthersCounted
    <3> QED
      BY <3>1, <3>2, <3>3, <3>4
  <2> QED
    BY <2>1, <2>2
<1>3. /\ source' = Append(source, line) /\ style' = style
      /\ ~style.indented => line.column = 0
  BY <1>2 DEF Adds
<1>4. /\ ComponentsKnown(Append(source, line), blocks', above, style.indented)
      /\ \A i \in 1 .. Len(source) : Opens(Append(source, line), i) <=> Opens(source, i)
  BY <1>1, <1>2, <1>3, QuietLine
<1>5. Opens(Append(source, line), Len(source) + 1) <=> line.is = "open"
  <2>1. Append(source, line)[Len(source) + 1] = line
    BY <1>1
  <2> QED
    BY <2>1, <1>2 DEF Opens
<1>6. Cardinality(OthersOf(blocks)) \in Nat
  BY <1>1, OthersCounted
<1>7. NeverTooMany(Append(source, line)) /\ EndsShort(Append(source, line), blocks', forgotten)
  <2>1. Cardinality(OthersOf(blocks)) + (IF Opens(Append(source, line), Len(source) + 1) THEN 1 ELSE 0)
          = Cardinality(OthersOf(blocks')) + (IF line.is = "close" THEN 1 ELSE 0)
    BY <1>2, <1>5, <1>6
  <2> QED
    BY <2>1, <1>1, <1>2, <1>4, CountsStayPlain
<1> QED
  BY <1>2, <1>3, <1>4, <1>7

LEMMA LinterLeaves ==
  ASSUME LinterInv, LeavesBlock, "component" \notin trouble
  PROVE  /\ ComponentsKnown(source, blocks, above, style.indented)'
         /\ NeverTooMany(source)' /\ EndsShort(source, blocks, forgotten)'
<1>1. /\ source \in Seq(Line) /\ blocks \in Seq(Block) /\ style.indented \in BOOLEAN
      /\ forgotten \in BOOLEAN /\ blocks # <<>>
      /\ ComponentsKnown(source, blocks, above, style.indented)
      /\ NeverTooMany(source) /\ EndsShort(source, blocks, forgotten)
  BY DEF LinterInv, WriterTypes, LeavesBlock
<1>2. PICK line \in Line :
          /\ Adds(line) /\ line.is = "close" /\ line.of = blocks[Len(blocks)].of
          /\ style.indented => line.column = Len(blocks) - 1
          /\ blocks' = Front(blocks)
          /\ above' = above /\ forgotten' = forgotten
  BY DEF LeavesBlock
<1>3. /\ source' = Append(source, line) /\ style' = style
      /\ ~style.indented => line.column = 0
  BY <1>2 DEF Adds
<1> DEFINE more == Append(source, line)
           n == Len(source) + 1
<1>4. ~Opens(more, n)
  <2>1. more[n] = line
    BY <1>1
  <2> QED
    BY <2>1, <1>2 DEF Opens
<1>5. /\ Front(blocks) \in Seq(Block) /\ Cardinality(OthersOf(Front(blocks))) \in Nat
      /\ Cardinality(OthersOf(blocks)) =
             Cardinality(OthersOf(Front(blocks))) + IF blocks[Len(blocks)].of = "component" THEN 0 ELSE 1
  BY <1>1, EndsOfSequence, OthersCounted
<1>6. CASE blocks[Len(blocks)].of = "component"
  <2> DEFINE o == Opener(blocks, Len(blocks))
  <2>1. /\ ComponentsKnown(more, Front(blocks), above, style.indented)
        /\ o \in 1 .. Len(source) /\ Opens(more, o) /\ ~Opens(source, o)
        /\ \A i \in 1 .. Len(source) : i # o => (Opens(more, i) <=> Opens(source, i))
    BY <1>1, <1>2, <1>3, <1>6, EndOfComponent
  <2> HIDE DEF o
  <2>2. Cardinality(OthersOf(blocks)) = Cardinality(OthersOf(Front(blocks)))
    BY <1>5, <1>6
  <2>3. NeverTooMany(more) /\ EndsShort(more, Front(blocks), forgotten)
    BY <2>1, <2>2, <1>1, <1>2, <1>4, <1>5, CountsStayEnded
  <2> QED
    BY <2>1, <2>3, <1>2, <1>3
<1>7. CASE blocks[Len(blocks)].of # "component"
  <2>1. /\ Len(blocks) \in DOMAIN blocks /\ DOMAIN blocks = 1 .. Len(blocks) /\ Len(blocks) \in Nat
        /\ DOMAIN Front(blocks) = 1 .. Len(blocks) - 1
        /\ \A k \in 1 .. Len(blocks) - 1 : Front(blocks)[k] = blocks[k]
    BY <1>1, EndsOfSequence
  <2>2. \A k : k \in DOMAIN blocks <=> k \in DOMAIN Front(blocks) \/ k = Len(blocks)
    BY <2>1
  <2>3. /\ ComponentBlocks(Front(blocks)) = ComponentBlocks(blocks)
        /\ \A k \in ComponentBlocks(blocks) : Front(blocks)[k] = blocks[k]
    BY <2>1, <2>2, <1>7 DEF ComponentBlocks
  <2>4. /\ ComponentsKnown(more, Front(blocks), above, style.indented)
        /\ \A i \in 1 .. Len(source) : Opens(more, i) <=> Opens(source, i)
    BY <2>3, <1>1, <1>2, <1>3, <1>7, QuietLine
  <2>5. Cardinality(OthersOf(blocks)) + (IF Opens(more, n) THEN 1 ELSE 0)
            = Cardinality(OthersOf(Front(blocks))) + (IF line.is = "close" THEN 1 ELSE 0)
    BY <1>2, <1>4, <1>5, <1>7
  <2>6. NeverTooMany(more) /\ EndsShort(more, Front(blocks), forgotten)
    BY <2>4, <2>5, <1>1, <1>2, <1>5, CountsStayPlain
  <2> QED
    BY <2>4, <2>6, <1>2, <1>3
<1> QED
  BY <1>6, <1>7

LEMMA LinterForgets ==
  ASSUME LinterInv, ForgetsEnd, "component" \notin trouble
  PROVE  /\ ComponentsKnown(source, blocks, above, style.indented)'
         /\ NeverTooMany(source)' /\ EndsShort(source, blocks, forgotten)'
<1>1. /\ source \in Seq(Line) /\ blocks \in Seq(Block) /\ blocks # <<>>
      /\ ComponentsKnown(source, blocks, above, style.indented)
      /\ NeverTooMany(source) /\ EndsShort(source, blocks, forgotten)
      /\ blocks[Len(blocks)].of # "component" /\ ~forgotten /\ forgotten'
      /\ blocks' = Front(blocks) /\ style' = style /\ source' = source /\ above' = above
  BY DEF LinterInv, WriterTypes, ForgetsEnd
<1>2. /\ Len(blocks) \in DOMAIN blocks /\ DOMAIN blocks = 1 .. Len(blocks) /\ Len(blocks) \in Nat
      /\ DOMAIN Front(blocks) = 1 .. Len(blocks) - 1
      /\ \A k \in 1 .. Len(blocks) - 1 : Front(blocks)[k] = blocks[k]
  BY <1>1, EndsOfSequence
<1>3. \A k : k \in DOMAIN blocks <=> k \in DOMAIN Front(blocks) \/ k = Len(blocks)
  BY <1>2
<1>4. /\ ComponentBlocks(Front(blocks)) = ComponentBlocks(blocks)
      /\ \A k \in ComponentBlocks(blocks) : Front(blocks)[k] = blocks[k]
  BY <1>1, <1>2, <1>3 DEF ComponentBlocks
<1>5. \A k \in ComponentBlocks(blocks) : Opener(Front(blocks), k) = Opener(blocks, k)
  BY <1>4 DEF Opener
<1>6. ComponentsKnown(source, Front(blocks), above, style.indented)
  <2>1. \A i : LineKnown(source, blocks, above, i) => LineKnown(source, Front(blocks), above, i)
    BY <1>4, <1>5 DEF LineKnown
  <2> QED
    BY <2>1, <1>1, <1>4, <1>5 DEF ComponentsKnown
<1>7. /\ Cardinality(OthersOf(Front(blocks))) \in Nat
      /\ Cardinality(OthersOf(blocks)) = Cardinality(OthersOf(Front(blocks))) + 1
  BY <1>1, EndsOfSequence, OthersCounted
<1>8. OpenedBy(source, Len(source)) \in Nat /\ ClosedBy(source, Len(source)) \in Nat
  BY <1>1, Counts
<1>9. EndsShort(source, Front(blocks), forgotten')
  BY <1>1, <1>7, <1>8 DEF EndsShort
<1> QED
  BY <1>1, <1>6, <1>9

LEMMA LinterComponent ==
  ASSUME LinterInv, NEW block \in BOOLEAN, AddsComponent(block),
         "component" \notin trouble, "component" \notin trouble'
  PROVE  /\ ComponentsKnown(source, blocks, above, style.indented)'
         /\ NeverTooMany(source)' /\ EndsShort(source, blocks, forgotten)'
<1>1. /\ source \in Seq(Line) /\ blocks \in Seq(Block) /\ style.indented \in BOOLEAN
      /\ forgotten \in BOOLEAN /\ above \in [column : Int, block : BOOLEAN]
      /\ ComponentsKnown(source, blocks, above, style.indented)
      /\ NeverTooMany(source) /\ EndsShort(source, blocks, forgotten)
  BY DEF LinterInv, WriterTypes
<1>2. PICK line \in Line :
          /\ Adds(line) /\ line.is = "open" /\ line.of = "component"
          /\ style.indented => line.column = Len(blocks)
          /\ above' = [column |-> line.column, block |-> block]
          /\ forgotten' = forgotten
          /\ above.column < 0 \/ ((line.column > above.column) <=> above.block)
          /\ IF block
             THEN \E b \in Block :
                     /\ b.of = "component" /\ Last(b.path).line = Len(source) + 1
                     /\ blocks' = Append(blocks, b)
             ELSE blocks' = blocks
  BY DEF AddsComponent
<1>3. /\ source' = Append(source, line) /\ style' = style
      /\ ~style.indented => line.column = 0
  BY <1>2 DEF Adds
<1>4. blocks' \in Seq(Block)
  <2>1. \A b \in Block : Append(blocks, b) \in Seq(Block)
    BY <1>1
  <2> QED
    BY <2>1, <1>1, <1>2
<1>5. LET more == Append(source, line) IN
      /\ ComponentsKnown(more, blocks', [column |-> line.column, block |-> block], style.indented)
      /\ ~Opens(more, Len(source) + 1)
      /\ \A i \in 1 .. Len(source) : Opens(more, i) <=> Opens(source, i)
  BY <1>1, <1>2, <1>3, <1>4, AnotherComponent
<1>6. Cardinality(OthersOf(blocks')) = Cardinality(OthersOf(blocks)) /\ Cardinality(OthersOf(blocks)) \in Nat
  <2>1. CASE block
    <3>1. PICK b \in Block : b.of = "component" /\ blocks' = Append(blocks, b)
      BY <2>1, <1>2
    <3> QED
      BY <3>1, <1>1, OthersCounted
  <2>2. CASE ~block
    BY <2>2, <1>1, <1>2, OthersCounted
  <2> QED
    BY <2>1, <2>2
<1>7. Cardinality(OthersOf(blocks)) + (IF Opens(Append(source, line), Len(source) + 1) THEN 1 ELSE 0)
        = Cardinality(OthersOf(blocks')) + (IF line.is = "close" THEN 1 ELSE 0)
  BY <1>2, <1>5, <1>6
<1>8. NeverTooMany(Append(source, line)) /\ EndsShort(Append(source, line), blocks', forgotten)
  BY <1>1, <1>4, <1>5, <1>7, CountsStayPlain
<1> QED
  BY <1>2, <1>3, <1>5, <1>8

LEMMA LinterStep == LinterInv /\ [CompilerNext]_compilerVars => LinterInv'
<1> SUFFICES ASSUME LinterInv, [CompilerNext]_compilerVars PROVE LinterInv'
  OBVIOUS
<1>1. WriterTypes /\ WriterTypes'
  BY TypesStep DEF LinterInv
<1>2. CASE UNCHANGED compilerVars
  <2>1. /\ style' = style /\ source' = source /\ blocks' = blocks /\ above' = above
        /\ forgotten' = forgotten /\ trouble' = trouble
    BY <1>2 DEF compilerVars
  <2> QED
    BY <2>1, <1>1 DEF LinterInv
<1>3. CASE CompilerNext
  <2> SUFFICES ASSUME "component" \notin trouble'
               PROVE  /\ ComponentsKnown(source, blocks, above, style.indented)'
                      /\ NeverTooMany(source)' /\ EndsShort(source, blocks, forgotten)'
    BY <1>1 DEF LinterInv
  <2>1. "component" \notin trouble
    BY <1>1, <1>3, RecordedStays
  <2> QED
    BY <1>1, <1>3, <2>1, NextGrows, LinterPlain, LinterLeaves, LinterForgets, LinterComponent DEF Grows
<1> QED
  BY <1>2, <1>3

\* With nothing open the ends are all there, but one that was forgotten.
LEMMA LinterSafe == LinterInv => TemplateInv
<1> SUFFICES ASSUME LinterInv PROVE TemplateInv
  OBVIOUS
<1>1. TemplateTypeOK
  BY TypesSafe DEF LinterInv
<1>2. ASSUME Written, "component" \notin trouble PROVE LintPasses(source) <=> ~forgotten
  <2>1. /\ NeverTooMany(source) /\ EndsShort(source, blocks, forgotten) /\ source \in Seq(Line)
        /\ DOMAIN source = 1 .. Len(source) /\ Len(source) \in Nat
    BY <1>2 DEF LinterInv, WriterTypes
  <2>2. Cardinality(OthersOf(blocks)) = 0
    <3>1. OthersOf(blocks) = {}
      BY <1>2 DEF Written, OthersOf
    <3> QED
      BY <3>1, FS_EmptySet
  <2>3. OpenedBy(source, Len(source)) \in Nat /\ ClosedBy(source, Len(source)) \in Nat
    BY <2>1, Counts
  <2>4. OpenedBy(source, Len(source)) = ClosedBy(source, Len(source)) <=> ~forgotten
    BY <2>1, <2>2, <2>3 DEF EndsShort
  <2> QED
    BY <2>1, <2>4 DEF LintPasses, NeverTooMany
<1> QED
  BY <1>1, <1>2 DEF TemplateInv, LintTells

\* The linter passes what has all its ends and only that, for templates of any
\* length, unless the columns of components mislead it, or one is opened in a
\* template with slots of its own.
THEOREM LinterTells == CompilerSpec => []TemplateInv
<1>1. CompilerSpec => []LinterInv
  BY LinterStarts, LinterStep, PTL DEF CompilerSpec
<1> QED
  BY <1>1, LinterSafe, PTL
-----------------------------------------------------------------------------
(***************************************************************************)
(* The folding of conditions.  A condition that is folded has one of a few *)
(* forms, and for each of them what is folded and what is rendered agree.  *)
(***************************************************************************)
\* How a condition is written: words and operators take turns, and a word may
\* be negated.
WellWritten(s) ==
    /\ s \in Seq(Lexeme)
    /\ \A k \in DOMAIN s :
          /\ s[k] \in Atom => k = 1 \/ s[k - 1] \in Operators \cup {"!"}
          /\ s[k] = "!" => k = 1 \/ s[k - 1] \in Operators
          /\ s[k] \in Operators => k > 1 /\ s[k - 1] \in Atom

\* What stands between two operators of a chain: a word that may be negated.
Plain(s) == s \in Seq(Lexeme) /\ Len(s) = 1 /\ s[1] \in Atom

Denied(s) == s \in Seq(Lexeme) /\ Len(s) = 2 /\ s[1] = "!" /\ s[2] \in Atom

FoldSafe ==
    /\ WellWritten(condition)
    /\ directive \in {"if", "unless", "empty", "env", "production", "local"}
    /\ environment \in Environments
    /\ directive = "empty" => condition = <<>> \/ Plain(condition)

\* The words are none of the operators.
LEMMA Vocabulary ==
    /\ "!" \notin Operators /\ "!" \notin Atom /\ Atom \cap Operators = {}
    /\ "===" \in Operators /\ "&&" \in Operators /\ "||" \in Operators
    /\ Atom = Literals \cup {Path} /\ Path \notin Literals
    /\ Strings \subseteq Literals /\ "undefined" \in Literals \ Strings
    /\ "unknown" \notin Literals /\ Operators \subseteq Lexeme /\ Atom \subseteq Lexeme
    /\ Lexeme = Atom \cup {"!"} \cup Operators
<1>1. "!" \notin Operators /\ "===" \in Operators /\ "&&" \in Operators /\ "||" \in Operators
  BY DEF Operators
<1>2. /\ Path \notin Literals /\ "unknown" \notin Literals /\ "!" \notin Literals /\ Path # "!"
      /\ "undefined" \in Literals \ Strings /\ Strings \subseteq Literals
  BY DEF Literals, Strings, Objects, Path
<1>3. Literals \cap Operators = {} /\ Path \notin Operators
  BY DEF Literals, Strings, Objects, Path, Operators
<1> QED
  BY <1>1, <1>2, <1>3 DEF Atom, Lexeme

LEMMA FoldStarts == FoldInit => FoldSafe
BY DEF FoldInit, FoldSafe, WellWritten, TakesCondition, Conditional

LEMMA FoldStep == FoldSafe /\ [FoldNext]_foldVars => FoldSafe'
<1> SUFFICES ASSUME FoldSafe, [FoldNext]_foldVars PROVE FoldSafe'
  OBVIOUS
<1>1. CASE UNCHANGED foldVars
  BY <1>1 DEF foldVars, FoldSafe, WellWritten
<1>2. CASE FoldNext
  <2>1. PICK token \in Lexeme :
          /\ WriteToken(token)
          /\ \/ token \in Atom /\ WantsOperand
             \/ token = "!" /\ Before \in Operators
             \/ token \in Operators /\ ~WantsOperand
          /\ Conditional \/ (token \in Atom /\ WantsOperand)
    BY <1>2 DEF FoldNext, WriteOperand, WriteNot, WriteOperator, Lexeme, Atom
  <2>2. /\ condition \in Seq(Lexeme)
        /\ condition' = Append(condition, token)
    BY <2>1 DEF WriteToken, FoldSafe, WellWritten
  <2>3. /\ condition' \in Seq(Lexeme) /\ DOMAIN condition' = 1 .. Len(condition) + 1
        /\ \A k \in 1 .. Len(condition) : condition'[k] = condition[k]
        /\ condition'[Len(condition) + 1] = token /\ Len(condition) \in Nat
    BY <2>2
  <2>4. \A k \in 1 .. Len(condition) :
          /\ condition'[k] \in Atom => k = 1 \/ condition'[k - 1] \in Operators \cup {"!"}
          /\ condition'[k] = "!" => k = 1 \/ condition'[k - 1] \in Operators
          /\ condition'[k] \in Operators => k > 1 /\ condition'[k - 1] \in Atom
    <3> SUFFICES ASSUME NEW k \in 1 .. Len(condition)
                 PROVE  /\ condition'[k] \in Atom => k = 1 \/ condition'[k - 1] \in Operators \cup {"!"}
                        /\ condition'[k] = "!" => k = 1 \/ condition'[k - 1] \in Operators
                        /\ condition'[k] \in Operators => k > 1 /\ condition'[k - 1] \in Atom
      OBVIOUS
    <3>1. k \in DOMAIN condition /\ condition'[k] = condition[k]
      BY <2>2, <2>3
    <3>2. k = 1 \/ condition'[k - 1] = condition[k - 1]
      BY <2>3
    <3>3. k > 1 \/ k = 1
      OBVIOUS
    <3> QED
      BY <3>1, <3>2, <3>3 DEF FoldSafe, WellWritten
  <2>5. Len(condition) = 0 \/ (Len(condition) \in DOMAIN condition' /\ condition[Len(condition)] \in Lexeme)
    BY <2>2, <2>3
  <2>6. /\ token \in Atom => Len(condition) + 1 = 1 \/ condition[Len(condition)] \in Operators \cup {"!"}
        /\ token = "!" => Len(condition) + 1 = 1 \/ condition[Len(condition)] \in Operators
        /\ token \in Operators => Len(condition) + 1 > 1 /\ condition[Len(condition)] \in Atom
    <3>1. CASE condition = <<>>
      BY <3>1, <2>1, <2>2, Vocabulary DEF Before, WantsOperand
    <3>2. CASE condition # <<>>
      <4>1. Len(condition) > 0 /\ Before = condition[Len(condition)]
        BY <3>2, <2>2 DEF Before
      <4> QED
        BY <4>1, <2>1, <2>2, <2>5, Vocabulary DEF WantsOperand
    <3> QED
      BY <3>1, <3>2
  <2>7. WellWritten(condition')
    <3>1. \A k \in DOMAIN condition' :
          /\ condition'[k] \in Atom => k = 1 \/ condition'[k - 1] \in Operators \cup {"!"}
          /\ condition'[k] = "!" => k = 1 \/ condition'[k - 1] \in Operators
          /\ condition'[k] \in Operators => k > 1 /\ condition'[k - 1] \in Atom
      <4> TAKE k \in DOMAIN condition'
      <4>1. CASE k \in 1 .. Len(condition)
        BY <4>1, <2>4
      <4>2. CASE k = Len(condition) + 1
        <5>1. k = 1 \/ condition'[k - 1] = condition[Len(condition)]
          BY <4>2, <2>3
        <5>2. condition'[k] = condition'[Len(condition) + 1]
          BY <4>2
        <5>3. condition'[k] = token
          BY <5>2, <2>3
        <5> QED
          BY <5>1, <5>3, <4>2, <2>6
      <4> QED
        BY <4>1, <4>2, <2>3
    <3> QED
      BY <3>1, <2>3 DEF WellWritten
  <2>8. directive' = "empty" => Plain(condition')
    <3> SUFFICES ASSUME directive' = "empty" PROVE Plain(condition')
      OBVIOUS
    <3>1. directive = "empty"
      BY <2>1 DEF WriteToken
    <3>2. token \in Atom /\ WantsOperand
      BY <2>1, <3>1 DEF Conditional
    <3>3. condition = <<>>
      <4> SUFFICES ASSUME condition # <<>> PROVE FALSE
        OBVIOUS
      <4>1. Len(condition) = 1 /\ condition[1] \in Atom
        BY <3>1 DEF FoldSafe, Plain
      <4>2. Before = condition[1]
        BY <4>1 DEF Before
      <4> QED
        BY <3>2, <4>1, <4>2 DEF WantsOperand, Operators, Atom, Literals, Path, Strings, Objects
    <3> QED
      BY <2>3, <3>2, <3>3 DEF Plain
  <2> QED
    BY <2>7, <2>8, <2>1 DEF FoldSafe, WriteToken
<1> QED
  BY <1>1, <1>2
-----------------------------------------------------------------------------
\* The word of such a piece.
WordOf(s) == s[Len(s)]

EndsInWord(s) == s # <<>> /\ s[Len(s)] \in Atom

LEMMA RunOf ==
  ASSUME NEW S, NEW s \in Seq(S), NEW m \in 1 .. Len(s), NEW n \in m .. Len(s)
  PROVE  /\ SubSeq(s, m, n) \in Seq(S) /\ Len(SubSeq(s, m, n)) = n - m + 1
         /\ \A k \in 1 .. n - m + 1 : SubSeq(s, m, n)[k] = s[m + k - 1]
BY SubSeqProperties

LEMMA ChainPieces ==
  ASSUME NEW s, WellWritten(s), EndsInWord(s), NEW operator \in Operators,
         \A o \in Operators \ {operator} : ~Has(s, o),
         NEW cut \in Split(s, operator)
  PROVE  /\ Plain(Piece(s, cut)) \/ Denied(Piece(s, cut))
         /\ Has(s, WordOf(Piece(s, cut)))
<1> DEFINE a == cut[1]  b == cut[2]
<1>1. /\ s \in Seq(Lexeme) /\ Len(s) \in Nat /\ Len(s) > 0 /\ DOMAIN s = 1 .. Len(s)
      /\ s[Len(s)] \in Atom
  BY DEF WellWritten, EndsInWord
<1>2. /\ a \in 0 .. Len(s) + 1 /\ b \in 0 .. Len(s) + 1 /\ a < b
      /\ \A k \in 1 .. Len(s) : s[k] = operator => k <= a \/ b <= k
      /\ a = 0 \/ (a \in 1 .. Len(s) /\ s[a] = operator) \/ a = Len(s) + 1
      /\ b = 0 \/ (b \in 1 .. Len(s) /\ s[b] = operator) \/ b = Len(s) + 1
  <2>1. cut \in Cuts(s, operator) \X Cuts(s, operator) /\ cut[1] < cut[2]
        /\ \A k \in Cuts(s, operator) : k <= cut[1] \/ cut[2] <= k
    BY DEF Split
  <2>2. a \in Cuts(s, operator) /\ b \in Cuts(s, operator)
    BY <2>1
  <2> QED
    BY <2>1, <2>2, <1>1 DEF Cuts
<1>3. operator \notin Atom /\ "!" \notin Atom /\ operator # "!" /\ Atom \cap Operators = {}
  BY DEF Operators, Atom, Literals, Path, Strings, Objects
<1>4. \A k \in 1 .. Len(s) : s[k] \in Operators => s[k] = operator
  BY <1>1 DEF Has
<1>5. a < Len(s) /\ (a = 0 \/ s[a] \in Operators)
  BY <1>1, <1>2, <1>3
<1>6. \A k \in 1 .. Len(s) : s[k] \in Atom \cup {"!"} \cup Operators
  BY <1>1 DEF Lexeme
<1>7. \A k \in 1 .. Len(s) :
          /\ s[k] \in Atom => k = 1 \/ s[k - 1] \in Operators \cup {"!"}
          /\ s[k] = "!" => k = 1 \/ s[k - 1] \in Operators
          /\ s[k] \in Operators => k > 1 /\ s[k - 1] \in Atom
  BY <1>1 DEF WellWritten
<1>8. a + 1 \in 1 .. Len(s) /\ s[a + 1] \in Atom \cup {"!"} /\ b > a + 1
  <2>1. a + 1 \in 1 .. Len(s)
    BY <1>1, <1>2, <1>5
  <2>2. s[a + 1] \notin Operators
    <3> SUFFICES ASSUME s[a + 1] \in Operators PROVE FALSE
      OBVIOUS
    <3>1. a + 1 > 1 /\ s[(a + 1) - 1] \in Atom
      BY <2>1, <1>7
    <3>2. (a + 1) - 1 = a
      BY <1>2
    <3> QED
      BY <3>1, <3>2, <1>2, <1>5, <1>3
  <2>3. b # a + 1
    BY <2>1, <2>2, <1>2, <1>1
  <2> QED
    BY <2>1, <2>2, <2>3, <1>6, <1>2
<1>9. CASE s[a + 1] \in Atom
  <2>1. b = a + 2
    <3>1. CASE a + 1 = Len(s)
      BY <3>1, <1>1, <1>2, <1>8
    <3>2. CASE a + 1 < Len(s)
      <4>1. a + 2 \in 1 .. Len(s) /\ (a + 2) - 1 = a + 1
        BY <3>2, <1>1, <1>2
      <4>2. s[(a + 2) - 1] \in Atom /\ s[(a + 2) - 1] \notin Operators \cup {"!"}
        BY <4>1, <1>9, <1>3
      <4>3. s[a + 2] \notin Atom /\ s[a + 2] # "!" /\ a + 2 # 1
        BY <4>1, <4>2, <1>7, <1>2
      <4>4. s[a + 2] \in Operators
        BY <4>1, <4>3, <1>6
      <4> QED
        BY <4>1, <4>4, <1>4, <1>2, <1>8
    <3> QED
      BY <3>1, <3>2, <1>8, <1>1, <1>2
  <2>2. Piece(s, cut) = SubSeq(s, a + 1, a + 1)
    <3>1. cut[2] - 1 = a + 1
      BY <2>1, <1>2
    <3> QED
      BY <3>1 DEF Piece
  <2>3. Piece(s, cut) \in Seq(Lexeme) /\ Len(Piece(s, cut)) = 1 /\ Piece(s, cut)[1] = s[a + 1]
    <3>1. (a + 1) - (a + 1) + 1 = 1 /\ a + 1 + 1 - 1 = a + 1 /\ 1 \in 1 .. 1 /\ a + 1 \in a + 1 .. Len(s)
      BY <1>2, <1>1, <1>8
    <3> QED
      BY <3>1, <2>2, <1>1, <1>8, RunOf
  <2> QED
    BY <2>3, <1>1, <1>8, <1>9 DEF Plain, WordOf, Has
<1>10. CASE s[a + 1] = "!"
  <2>1. a + 2 \in 1 .. Len(s) /\ (a + 2) - 1 = a + 1
    BY <1>10, <1>8, <1>1, <1>3, <1>2
  <2>2. s[a + 2] \in Atom
    <3>1. s[(a + 2) - 1] = "!" /\ s[(a + 2) - 1] \notin Operators /\ s[(a + 2) - 1] \notin Atom /\ a + 2 # 1
      BY <2>1, <1>10, <1>2, <1>3 DEF Operators
    <3>2. s[a + 2] \notin Operators /\ s[a + 2] # "!"
      BY <3>1, <2>1, <1>7
    <3> QED
      BY <3>2, <2>1, <1>6
  <2>3. b > a + 2
    BY <2>1, <2>2, <1>2, <1>3, <1>8, <1>1
  <2>4. b = a + 3
    <3>1. CASE a + 2 = Len(s)
      BY <3>1, <1>1, <1>2, <2>3
    <3>2. CASE a + 2 < Len(s)
      <4>1. a + 3 \in 1 .. Len(s) /\ (a + 3) - 1 = a + 2
        BY <3>2, <1>1, <1>2
      <4>2. s[(a + 3) - 1] \in Atom /\ s[(a + 3) - 1] \notin Operators \cup {"!"}
        BY <4>1, <2>2, <1>3
      <4>3. s[a + 3] \notin Atom /\ s[a + 3] # "!" /\ a + 3 # 1
        BY <4>1, <4>2, <1>7, <1>2
      <4>4. s[a + 3] \in Operators
        BY <4>1, <4>3, <1>6
      <4> QED
        BY <4>1, <4>4, <1>4, <1>2, <2>3
    <3> QED
      BY <3>1, <3>2, <2>1, <1>1, <1>2
  <2>5. Piece(s, cut) = SubSeq(s, a + 1, a + 2)
    <3>1. cut[2] - 1 = a + 2
      BY <2>4, <1>2
    <3> QED
      BY <3>1 DEF Piece
  <2>6. /\ Piece(s, cut) \in Seq(Lexeme) /\ Len(Piece(s, cut)) = 2
        /\ Piece(s, cut)[1] = s[a + 1] /\ Piece(s, cut)[2] = s[a + 2]
    <3>1. /\ (a + 2) - (a + 1) + 1 = 2 /\ a + 1 + 1 - 1 = a + 1 /\ a + 1 + 2 - 1 = a + 2
          /\ 1 \in 1 .. 2 /\ 2 \in 1 .. 2 /\ a + 2 \in a + 1 .. Len(s)
      BY <1>2, <1>1, <2>1
    <3>2. \A k \in 1 .. (a + 2) - (a + 1) + 1 : SubSeq(s, a + 1, a + 2)[k] = s[a + 1 + k - 1]
      BY <3>1, <1>1, <1>8, RunOf
    <3>3. SubSeq(s, a + 1, a + 2) \in Seq(Lexeme) /\ Len(SubSeq(s, a + 1, a + 2)) = (a + 2) - (a + 1) + 1
      BY <3>1, <1>1, <1>8, RunOf
    <3>4. SubSeq(s, a + 1, a + 2)[1] = s[a + 1 + 1 - 1] /\ SubSeq(s, a + 1, a + 2)[2] = s[a + 1 + 2 - 1]
      BY <3>1, <3>2
    <3> QED
      BY <3>1, <3>3, <3>4, <2>5
  <2> QED
    BY <2>1, <2>2, <2>6, <1>1, <1>10 DEF Denied, WordOf, Has
<1> QED
  BY <1>8, <1>9, <1>10
-----------------------------------------------------------------------------
FoldedLiterals == Literals \ {"undefined"}

Known(word) == IF word \in FoldedLiterals THEN Truth(FoldsTrue(word)) ELSE "unknown"

LEMMA Calls ==
  ASSUME NEW s \in Seq(Lexeme)
  PROVE  /\ Static4[s] = StaticBoolean(s, Static3)
         /\ Static5[s] = StaticBoolean(s, Static4)
         /\ Static[s] = StaticBoolean(s, Static5)
BY DEF Static4, Static5, Static

LEMMA PlainStatic ==
  ASSUME NEW s, Plain(s)
  PROVE  Static4[s] = Known(s[1]) /\ Static5[s] = Known(s[1]) /\ Static[s] = Known(s[1])
<1>1. s \in Seq(Lexeme) /\ Len(s) = 1 /\ DOMAIN s = 1 .. 1 /\ s[1] \in Atom
  BY DEF Plain
<1>2. s[1] # "!" /\ ~Has(s, "===") /\ ~Has(s, "&&") /\ ~Has(s, "||")
  <2>1. \A k \in DOMAIN s : s[k] = s[1] /\ s[1] \notin Operators \cup {"!"}
    BY <1>1, Vocabulary
  <2> QED
    BY <1>1, <2>1, Vocabulary DEF Has
<1>3. CASE s[1] \in FoldedLiterals
  <2>1. StaticLiteral(s) = s[1] /\ s[1] # "unknown"
    BY <1>1, <1>3 DEF StaticLiteral, FoldedLiterals, Literals, Strings, Objects
  <2> QED
    BY <1>1, <2>1, <1>3, Calls DEF StaticBoolean, Known
<1>4. CASE s[1] \notin FoldedLiterals
  <2>1. s[1] \in {Path, "undefined"} /\ s[1] \notin Strings
    BY <1>1, <1>4 DEF Atom, Path, FoldedLiterals, Strings
  <2>2. StaticLiteral(s) = "unknown"
    BY <1>1, <1>4, <2>1 DEF StaticLiteral, FoldedLiterals
  <2> QED
    BY <1>1, <2>2, <1>2, <1>4, Calls DEF StaticBoolean, Known
<1> QED
  BY <1>3, <1>4

LEMMA NoOperatorsInside ==
  ASSUME NEW s, Plain(s) \/ Denied(s), NEW operator \in Operators
  PROVE  s \in Seq(Lexeme) /\ s # <<>> /\ ~Has(s, operator)
<1>1. s \in Seq(Lexeme) /\ Len(s) \in {1, 2} /\ DOMAIN s = 1 .. Len(s)
  BY DEF Plain, Denied
<1>2. \A k \in DOMAIN s : s[k] \notin Operators
  <2>1. CASE Plain(s)
    BY <1>1, <2>1, Vocabulary DEF Plain
  <2>2. CASE Denied(s)
    <3>1. DOMAIN s = 1 .. 2 /\ s[1] \notin Operators /\ s[2] \notin Operators
      BY <1>1, <2>2, Vocabulary DEF Denied
    <3> QED
      BY <3>1
  <2> QED
    BY <2>1, <2>2
<1> QED
  BY <1>1, <1>2 DEF Has

LEMMA DeniedStatic ==
  ASSUME NEW s, Denied(s)
  PROVE  Static5[s] = Negated(Known(s[2])) /\ Static[s] = Negated(Known(s[2]))
<1>1. s \in Seq(Lexeme) /\ Len(s) = 2 /\ s[1] = "!" /\ s[2] \in Atom
  BY DEF Denied
<1>2. Tail(s) \in Seq(Lexeme) /\ Len(Tail(s)) = 1 /\ Tail(s)[1] = s[2]
  BY <1>1
<1>3. Plain(Tail(s))
  BY <1>1, <1>2 DEF Plain
<1>4. StaticLiteral(s) = "unknown"
  BY <1>1 DEF StaticLiteral, Strings
<1>5. Static4[Tail(s)] = Known(s[2]) /\ Static5[Tail(s)] = Known(s[2])
  BY <1>2, <1>3, PlainStatic
<1> QED
  BY <1>1, <1>4, <1>5, Calls DEF StaticBoolean

\* A word reads the same as what it is folded to, but for arrays and objects.
LEMMA WordFolds ==
  ASSUME NEW word \in Atom \ Objects, NEW value \in Literals,
         NEW read, read = IF word = Path THEN value ELSE word
  PROVE  /\ Known(word) \in {"unknown", Truth(Truthy(read))}
         /\ Negated(Known(word)) \in {"unknown", Truth(~Truthy(read))}
<1>1. CASE word \in FoldedLiterals
  <2>1. read = word /\ (FoldsTrue(word) <=> Truthy(word))
    BY <1>1 DEF FoldedLiterals, Literals, Path, FoldsTrue, Truthy, Strings, Objects
  <2> QED
    BY <1>1, <2>1 DEF Known, Negated, Truth
<1>2. CASE word \notin FoldedLiterals
  BY <1>2 DEF Known, Negated
<1> QED
  BY <1>1, <1>2

LEMMA PieceFolds ==
  ASSUME NEW s, Plain(s) \/ Denied(s), WordOf(s) \notin Objects, NEW value \in Literals
  PROVE  /\ Static5[s] \in {"unknown", Truth(Compares(s, value))}
         /\ Static[s] \in {"unknown", Truth(Compares(s, value))}
<1>1. ~Has(s, "===")
  BY NoOperatorsInside, Vocabulary
<1>2. CASE Plain(s)
  <2> DEFINE read == IF s[1] = Path THEN value ELSE s[1]
  <2>1. s[1] \in Atom \ Objects /\ s[1] # "!"
    BY <1>2 DEF Plain, WordOf, Atom, Literals, Path, Strings, Objects
  <2>2. Compares(s, value) = Truthy(read)
    BY <1>1, <2>1 DEF Compares, Operand
  <2>3. Known(s[1]) \in {"unknown", Truth(Truthy(read))}
    BY <2>1, WordFolds
  <2> QED
    BY <2>2, <2>3, <1>2, PlainStatic
<1>3. CASE Denied(s)
  <2> DEFINE read == IF s[2] = Path THEN value ELSE s[2]
  <2>1. s[2] \in Atom \ Objects /\ s[1] = "!"
    BY <1>3 DEF Denied, WordOf
  <2>2. Compares(s, value) = Truthy(Truth(~Truthy(read)))
    BY <1>1, <2>1 DEF Compares, Operand
  <2>3. Truthy(Truth(~Truthy(read))) = ~Truthy(read)
    BY DEF Truthy, Truth
  <2>4. Negated(Known(s[2])) \in {"unknown", Truth(~Truthy(read))}
    BY <2>1, WordFolds
  <2> QED
    BY <2>2, <2>3, <2>4, <1>3, DeniedStatic
<1> QED
  BY <1>2, <1>3

\* What a sequence without the operator is split into.
LEMMA OnePiece ==
  ASSUME NEW s \in Seq(Lexeme), s # <<>>, NEW operator, ~Has(s, operator)
  PROVE  Split(s, operator) = {<<0, Len(s) + 1>>} /\ Piece(s, <<0, Len(s) + 1>>) = s
<1>1. Cuts(s, operator) = {0, Len(s) + 1} /\ Len(s) \in Nat /\ Len(s) > 0
  BY DEF Cuts, Has
<1>2. <<0, Len(s) + 1>> \in Split(s, operator)
  BY <1>1 DEF Split
<1>3. \A cut \in Split(s, operator) : cut = <<0, Len(s) + 1>>
  <2> TAKE cut \in Split(s, operator)
  <2>1. cut \in {0, Len(s) + 1} \X {0, Len(s) + 1} /\ cut[1] < cut[2]
    BY <1>1 DEF Split
  <2>2. cut[1] \in {0, Len(s) + 1} /\ cut[2] \in {0, Len(s) + 1} /\ cut = <<cut[1], cut[2]>>
    BY <2>1
  <2>3. cut[1] = 0 /\ cut[2] = Len(s) + 1
    BY <2>1, <2>2, <1>1
  <2> QED
    BY <2>2, <2>3
<1>4. Piece(s, <<0, Len(s) + 1>>) = SubSeq(s, 1, Len(s))
  <2>1. <<0, Len(s) + 1>>[1] + 1 = 1 /\ <<0, Len(s) + 1>>[2] - 1 = Len(s)
    BY <1>1
  <2> QED
    BY <2>1 DEF Piece
<1>5. SubSeq(s, 1, Len(s)) = s
  BY <1>1
<1> QED
  BY <1>2, <1>3, <1>4, <1>5

LEMMA TruthsDiffer == /\ Negated("true") = "false" /\ Negated("false") = "true"
                      /\ Truth(TRUE) = "true" /\ Truth(FALSE) = "false"
BY DEF Negated, Truth

LEMMA ConjunctionFolds ==
  ASSUME NEW s, NEW value \in Literals,
         \A cut \in Split(s, "&&") :
             Static5[Piece(s, cut)] \in {"unknown", Truth(Compares(Piece(s, cut), value))}
  PROVE  FirstNot("true", s, "&&", Static5) \in {"unknown", Truth(Conjunction(s, value))}
<1> DEFINE folded == FirstNot("true", s, "&&", Static5)
<1>1. /\ folded \in {"true", "false", "unknown"}
      /\ folded = "true" => \A cut \in Split(s, "&&") : Static5[Piece(s, cut)] = "true"
      /\ folded = "false" => \E cut \in Split(s, "&&") : Static5[Piece(s, cut)] = "false"
  BY TruthsDiffer DEF FirstNot
<1>2. CASE folded = "true"
  <2>1. \A cut \in Split(s, "&&") : Compares(Piece(s, cut), value)
    BY <1>1, <1>2 DEF Truth
  <2> QED
    BY <2>1, <1>2 DEF Conjunction, Truth
<1>3. CASE folded = "false"
  <2>1. \E cut \in Split(s, "&&") : ~Compares(Piece(s, cut), value)
    BY <1>1, <1>3 DEF Truth
  <2> QED
    BY <2>1, <1>3 DEF Conjunction, Truth
<1> QED
  BY <1>1, <1>2, <1>3

LEMMA DisjunctionFolds ==
  ASSUME NEW s, NEW value \in Literals,
         \A cut \in Split(s, "||") :
             /\ Static5[Piece(s, cut)] \in {"unknown", Truth(Compares(Piece(s, cut), value))}
             /\ (Conjunction(Piece(s, cut), value) <=> Compares(Piece(s, cut), value))
  PROVE  FirstNot("false", s, "||", Static5) \in {"unknown", Truth(Disjunction(s, value))}
<1> DEFINE folded == FirstNot("false", s, "||", Static5)
<1>1. /\ folded \in {"true", "false", "unknown"}
      /\ folded = "false" => \A cut \in Split(s, "||") : Static5[Piece(s, cut)] = "false"
      /\ folded = "true" => \E cut \in Split(s, "||") : Static5[Piece(s, cut)] = "true"
  BY TruthsDiffer DEF FirstNot
<1>2. CASE folded = "true"
  <2>1. \E cut \in Split(s, "||") : Conjunction(Piece(s, cut), value)
    BY <1>1, <1>2 DEF Truth
  <2> QED
    BY <2>1, <1>2 DEF Disjunction, Truth
<1>3. CASE folded = "false"
  <2>1. \A cut \in Split(s, "||") : ~Conjunction(Piece(s, cut), value)
    BY <1>1, <1>3 DEF Truth
  <2> QED
    BY <2>1, <1>3 DEF Disjunction, Truth
<1> QED
  BY <1>1, <1>2, <1>3
-----------------------------------------------------------------------------
\* What the renderer makes of a sequence without one of the operators.
LEMMA NoOperators ==
  ASSUME NEW s \in Seq(Lexeme), s # <<>>, NEW value
  PROVE  /\ ~Has(s, "||") => (Disjunction(s, value) <=> Conjunction(s, value))
         /\ ~Has(s, "&&") => (Conjunction(s, value) <=> Compares(s, value))
<1>1. ASSUME ~Has(s, "||") PROVE Disjunction(s, value) <=> Conjunction(s, value)
  <2>1. Split(s, "||") = {<<0, Len(s) + 1>>} /\ Piece(s, <<0, Len(s) + 1>>) = s
    BY <1>1, OnePiece
  <2>2. Disjunction(s, value) <=> Conjunction(Piece(s, <<0, Len(s) + 1>>), value)
    BY <2>1 DEF Disjunction
  <2> QED
    BY <2>1, <2>2
<1>2. ASSUME ~Has(s, "&&") PROVE Conjunction(s, value) <=> Compares(s, value)
  <2>1. Split(s, "&&") = {<<0, Len(s) + 1>>} /\ Piece(s, <<0, Len(s) + 1>>) = s
    BY <1>2, OnePiece
  <2>2. Conjunction(s, value) <=> Compares(Piece(s, <<0, Len(s) + 1>>), value)
    BY <2>1 DEF Conjunction
  <2> QED
    BY <2>1, <2>2
<1> QED
  BY <1>1, <1>2

\* A side of a comparison is a literal, or taken for a string.
LEMMA OneSide ==
  ASSUME NEW s \in Seq(Lexeme), StaticSide(s) # "unknown"
  PROVE  /\ Len(s) = 1 /\ s[1] \in Literals => StaticSide(s) = s[1]
         /\ ~(Len(s) = 1 /\ s[1] \in Literals) => s[1] \in Strings /\ s[Len(s)] \in Strings
<1>1. CASE s = <<"undefined">>
  <2>1. Len(s) = 1 /\ s[1] = "undefined"
    BY <1>1
  <2> QED
    BY <1>1, <2>1, Vocabulary DEF StaticSide
<1>2. CASE s # <<"undefined">>
  <2>1. StaticSide(s) = StaticLiteral(s)
    BY <1>2 DEF StaticSide
  <2>2. Len(s) = 1 => s = <<s[1]>>
    OBVIOUS
  <2>3. Len(s) = 1 /\ s[1] \in Literals => StaticSide(s) = s[1]
    BY <1>2, <2>1, <2>2 DEF StaticLiteral
  <2>4. ~(Len(s) = 1 /\ s[1] \in Literals) => {s[1], s[Len(s)]} \subseteq Strings
    BY <2>1 DEF StaticLiteral
  <2> QED
    BY <2>3, <2>4
<1> QED
  BY <1>1, <1>2

\* A comparison is folded if it is all there is, between two literals.
LEMMA ComparisonFolds ==
  ASSUME WellWritten(condition), EndsInWord(condition), condition[1] # "!",
         Has(condition, "==="), NEW value \in Literals,
         \A i, j \in DOMAIN condition :
             condition[i] \in Strings /\ condition[j] \in Strings => i = j
  PROVE  Compared(condition) \in {"unknown", Truth(Disjunction(condition, value))}
<1> DEFINE s == condition
<1>1. /\ s \in Seq(Lexeme) /\ Len(s) \in Nat /\ Len(s) > 0 /\ DOMAIN s = 1 .. Len(s)
      /\ s[Len(s)] \in Atom
  BY DEF WellWritten, EndsInWord
<1>2. PICK first \in DOMAIN s :
          /\ first = CHOOSE k \in DOMAIN s : s[k] = "===" /\ \A l \in 1 .. k - 1 : s[l] # "==="
          /\ s[first] = "==="
  <2> DEFINE places == {k \in DOMAIN s : s[k] = "==="}
  <2>1. places \subseteq Nat /\ places # {}
    BY <1>1 DEF Has
  <2>2. PICK k \in places : \A l \in places : k <= l
    <3>1. Min(places) \in places /\ \A l \in places : Min(places) <= l
      BY <2>1, SmallestNumber
    <3> QED
      BY <3>1
  <2>3. k \in DOMAIN s /\ s[k] = "===" /\ \A l \in 1 .. k - 1 : s[l] # "==="
    BY <2>2, <1>1
  <2> QED
    BY <2>3
<1> DEFINE before == SubSeq(s, 1, first - 1)
           after == SubSeq(s, first + 1, Len(s))
<1>0. s[first] = "==="
  BY <1>2
<1>3. first > 1 /\ first < Len(s) /\ first \in Nat
  <2>1. first > 1
    BY <1>1, <1>0 DEF WellWritten, Operators
  <2>2. first # Len(s)
    BY <1>1, <1>0 DEF Atom, Literals, Path, Strings, Objects
  <2> QED
    BY <2>1, <2>2, <1>1
<1>4. /\ before \in Seq(Lexeme) /\ Len(before) = first - 1
      /\ before[1] = s[1] /\ before[Len(before)] = s[first - 1]
  <2>1. first - 1 \in 1 .. Len(s) /\ (first - 1) - 1 + 1 = first - 1 /\ 1 \in 1 .. Len(s)
    BY <1>1, <1>3
  <2>2. before \in Seq(Lexeme) /\ Len(before) = (first - 1) - 1 + 1
    BY <1>1, <2>1, RunOf
  <2>3. \A k \in 1 .. (first - 1) - 1 + 1 : before[k] = s[1 + k - 1]
    BY <1>1, <2>1, RunOf
  <2>4. 1 + 1 - 1 = 1 /\ 1 + (first - 1) - 1 = first - 1 /\ 1 \in 1 .. first - 1 /\ first - 1 \in 1 .. first - 1
    BY <1>3
  <2>5. before[1] = s[1] /\ before[first - 1] = s[first - 1]
    BY <2>1, <2>3, <2>4
  <2> QED
    BY <2>1, <2>2, <2>5
<1>5. /\ after \in Seq(Lexeme) /\ Len(after) = Len(s) - first
      /\ after[1] = s[first + 1] /\ after[Len(after)] = s[Len(s)]
  <2>1. first + 1 \in 1 .. Len(s) /\ Len(s) \in first + 1 .. Len(s) /\ Len(s) - (first + 1) + 1 = Len(s) - first
    BY <1>1, <1>3
  <2>2. after \in Seq(Lexeme) /\ Len(after) = Len(s) - (first + 1) + 1
    BY <1>1, <2>1, RunOf
  <2>3. \A k \in 1 .. Len(s) - (first + 1) + 1 : after[k] = s[first + 1 + k - 1]
    BY <1>1, <2>1, RunOf
  <2>4. /\ first + 1 + 1 - 1 = first + 1 /\ first + 1 + (Len(s) - first) - 1 = Len(s)
        /\ 1 \in 1 .. Len(s) - first /\ Len(s) - first \in 1 .. Len(s) - first
    BY <1>1, <1>3
  <2>5. after[1] = s[first + 1] /\ after[Len(s) - first] = s[Len(s)]
    BY <2>1, <2>3, <2>4
  <2> QED
    BY <2>1, <2>2, <2>5
<1>6. StaticSide(before) # "unknown" => /\ first = 2 /\ s[1] \in Literals
                                           /\ StaticSide(before) = s[1]
  <2> SUFFICES ASSUME StaticSide(before) # "unknown"
               PROVE  first = 2 /\ s[1] \in Literals /\ StaticSide(before) = s[1]
    OBVIOUS
  <2>1. 1 \in DOMAIN s /\ first - 1 \in DOMAIN s
    BY <1>1, <1>3
  <2>2. CASE Len(before) = 1 /\ before[1] \in Literals
    <3>1. StaticSide(before) = before[1]
      BY <2>2, <1>4, OneSide
    <3>2. first - 1 = 1
      BY <2>2, <1>4
    <3>3. first = 2
      BY <3>2, <1>3
    <3> QED
      BY <3>1, <3>3, <2>2, <1>4
  <2>3. CASE ~(Len(before) = 1 /\ before[1] \in Literals)
    <3>1. s[1] \in Strings /\ s[first - 1] \in Strings
      BY <2>3, <1>4, OneSide
    <3>2. first - 1 = 1
      BY <2>1, <3>1
    <3> QED
      BY <3>1, <3>2, <2>3, <1>4 DEF Strings, Objects, Literals
  <2> QED
    BY <2>2, <2>3
<1>7. StaticSide(after) # "unknown" => /\ Len(s) = first + 1 /\ s[first + 1] \in Literals
                                          /\ StaticSide(after) = s[first + 1]
  <2> SUFFICES ASSUME StaticSide(after) # "unknown"
               PROVE  /\ Len(s) = first + 1 /\ s[first + 1] \in Literals
                      /\ StaticSide(after) = s[first + 1]
    OBVIOUS
  <2>1. first + 1 \in DOMAIN s /\ Len(s) \in DOMAIN s
    BY <1>1, <1>3
  <2>2. CASE Len(after) = 1 /\ after[1] \in Literals
    <3>1. StaticSide(after) = after[1]
      BY <2>2, <1>5, OneSide
    <3>2. Len(s) = first + 1
      BY <2>2, <1>1, <1>3, <1>5
    <3> QED
      BY <3>1, <3>2, <2>2, <1>5
  <2>3. CASE ~(Len(after) = 1 /\ after[1] \in Literals)
    <3>1. s[first + 1] \in Strings /\ s[Len(s)] \in Strings
      BY <2>3, <1>5, OneSide
    <3>2. first + 1 = Len(s)
      BY <2>1, <3>1
    <3>3. Len(after) = 1
      BY <3>2, <1>1, <1>3, <1>5
    <3> QED
      BY <3>1, <3>3, <2>3, <1>5 DEF Strings, Objects, Literals
  <2> QED
    BY <2>2, <2>3
<1>8. Compared(s) = IF "unknown" \in {StaticSide(before), StaticSide(after)} THEN "unknown"
                    ELSE Truth(StaticSide(before) = StaticSide(after) /\ StaticSide(before) \notin Objects)
  BY <1>2 DEF Compared
<1>9. CASE "unknown" \in {StaticSide(before), StaticSide(after)}
  BY <1>8, <1>9
<1>10. CASE "unknown" \notin {StaticSide(before), StaticSide(after)}
  <2>1. /\ Len(s) = 3 /\ s[1] \in Literals /\ s[2] = "===" /\ s[3] \in Literals
        /\ StaticSide(before) = s[1] /\ StaticSide(after) = s[3]
    <3>1. StaticSide(before) # "unknown" /\ StaticSide(after) # "unknown"
      BY <1>10
    <3>2. /\ first = 2 /\ s[1] \in Literals /\ StaticSide(before) = s[1]
          /\ Len(s) = first + 1 /\ s[first + 1] \in Literals /\ StaticSide(after) = s[first + 1]
      BY <3>1, <1>6, <1>7
    <3>3. first + 1 = 3
      BY <3>2
    <3> QED
      BY <1>0, <3>2, <3>3
  <2>2. ~Has(s, "||") /\ ~Has(s, "&&")
    <3>1. \A k \in DOMAIN s : k = 1 \/ k = 2 \/ k = 3
      BY <1>1, <2>1
    <3> QED
      BY <3>1, <2>1 DEF Has, Literals, Strings, Objects
  <2>3. Disjunction(s, value) <=> Compares(s, value)
    BY <2>2, <1>1, NoOperators
  <2>4. Cuts(s, "===") = {0, 2, 4}
    <3>1. \A k \in DOMAIN s : s[k] = "===" <=> k = 2
      <4>1. \A k \in DOMAIN s : k = 1 \/ k = 2 \/ k = 3
        BY <1>1, <2>1
      <4> QED
        BY <2>1, <4>1, Vocabulary
    <3> QED
      BY <3>1, <1>1, <2>1 DEF Cuts
  <2>5. Split(s, "===") = {<<0, 2>>, <<2, 4>>}
    <3>1. \A cut \in Split(s, "===") : cut = <<0, 2>> \/ cut = <<2, 4>>
      <4> TAKE cut \in Split(s, "===")
      <4>1. /\ cut \in {0, 2, 4} \X {0, 2, 4} /\ cut[1] < cut[2]
            /\ \A k \in {0, 2, 4} : k <= cut[1] \/ cut[2] <= k
        BY <2>4 DEF Split
      <4>2. cut = <<cut[1], cut[2]>> /\ cut[1] \in {0, 2, 4} /\ cut[2] \in {0, 2, 4}
        BY <4>1
      <4>3. 2 <= cut[1] \/ cut[2] <= 2
        BY <4>1
      <4>4. (cut[1] = 0 /\ cut[2] = 2) \/ (cut[1] = 2 /\ cut[2] = 4)
        BY <4>1, <4>2, <4>3
      <4> QED
        BY <4>2, <4>4
    <3>2. <<0, 2>> \in Split(s, "===") /\ <<2, 4>> \in Split(s, "===")
      BY <2>4 DEF Split
    <3> QED
      BY <3>1, <3>2
  <2>6. Piece(s, <<0, 2>>)[1] = s[1] /\ Piece(s, <<2, 4>>)[1] = s[3]
    <3>1. Piece(s, <<0, 2>>) = SubSeq(s, 1, 1) /\ Piece(s, <<2, 4>>) = SubSeq(s, 3, 3)
      BY DEF Piece
    <3>2. SubSeq(s, 1, 1)[1] = s[1] /\ SubSeq(s, 3, 3)[1] = s[3]
      BY <1>1, <2>1
    <3> QED
      BY <3>1, <3>2
  <2>7. /\ Operand(Piece(s, <<0, 2>>), value) = s[1]
        /\ Operand(Piece(s, <<2, 4>>), value) = s[3]
    BY <2>1, <2>6 DEF Operand, Literals, Path, Strings, Objects
  <2>8. Has(s, "===")
    OBVIOUS
  <2>9. Compares(s, value) <=> s[1] = s[3] /\ s[1] \notin Objects
    <3>1. Compares(s, value) <=> Same(Piece(s, <<0, 2>>), Piece(s, <<2, 4>>), value)
      BY <2>5, <2>8 DEF Compares
    <3>2. Piece(s, <<0, 2>>) # <<Path>>
      <4>1. <<Path>>[1] = Path
        OBVIOUS
      <4> QED
        BY <2>1, <2>6, <4>1, Vocabulary
    <3> QED
      BY <2>7, <3>1, <3>2 DEF Same
  <2> QED
    BY <1>8, <1>10, <2>1, <2>3, <2>9 DEF Truth
<1> QED
  BY <1>9, <1>10

LEMMA ConditionFolds ==
  ASSUME FoldSafe, Conditional, ~WantsOperand, ~Misread, NEW value \in Literals
  PROVE  Static[condition] \in {"unknown", Truth(Holds(condition, value))}
<1> DEFINE s == condition
<1>1. /\ s \in Seq(Lexeme) /\ Len(s) \in Nat /\ DOMAIN s = 1 .. Len(s) /\ WellWritten(s)
  BY DEF FoldSafe, WellWritten
<1>2. s # <<>> /\ Len(s) > 0 /\ EndsInWord(s)
  <2>1. s # <<>>
    BY DEF WantsOperand, Before, Operators
  <2>2. Len(s) > 0 /\ s[Len(s)] \in Lexeme
    BY <2>1, <1>1
  <2> QED
    BY <2>1, <2>2 DEF WantsOperand, Before, EndsInWord, Lexeme
<1>3. \A i, j \in DOMAIN s : s[i] \in Strings /\ s[j] \in Strings => i = j
  <2> SUFFICES ASSUME NEW i \in DOMAIN s, NEW j \in DOMAIN s, s[i] \in Strings, s[j] \in Strings,
                      i # j
               PROVE  FALSE
    OBVIOUS
  <2> DEFINE quoted == {k \in DOMAIN s : s[k] \in Strings}
  <2>1. IsFiniteSet(quoted)
    <3>1. IsFiniteSet(1 .. Len(s)) /\ quoted \subseteq 1 .. Len(s)
      BY <1>1, FS_Interval
    <3> QED
      BY <3>1, FS_Subset
  <2>2. {i, j} \subseteq quoted /\ Cardinality({i, j}) = 2
    <3>1. IsFiniteSet({i}) /\ Cardinality({i}) = 1 /\ j \notin {i} /\ {i, j} = {i} \cup {j}
      BY FS_Singleton
    <3>2. Cardinality({i} \cup {j}) = Cardinality({i}) + 1
      BY <3>1, FS_AddElement
    <3> QED
      BY <3>1, <3>2
  <2>3. Cardinality({i, j}) <= Cardinality(quoted) /\ Cardinality(quoted) \in Nat
    BY <2>1, <2>2, FS_Subset, FS_CardinalityType
  <2> QED
    BY <2>2, <2>3 DEF Misread
<1>4. ASSUME ~Has(s, "===") PROVE \A o \in Objects : ~Has(s, o)
  BY <1>4 DEF Misread
<1>5. CASE ~Has(s, "===") /\ ~Has(s, "&&") /\ ~Has(s, "||")
  <2>1. Split(s, "&&") = {<<0, Len(s) + 1>>} /\ Piece(s, <<0, Len(s) + 1>>) = s
    BY <1>1, <1>2, <1>5, OnePiece
  <2>2. \A o \in Operators \ {"&&"} : ~Has(s, o)
    BY <1>5 DEF Operators
  <2>3. (Plain(s) \/ Denied(s)) /\ WordOf(s) \notin Objects
    <3>1. "&&" \in Operators /\ <<0, Len(s) + 1>> \in Split(s, "&&")
      BY <2>1 DEF Operators
    <3>2. /\ Plain(Piece(s, <<0, Len(s) + 1>>)) \/ Denied(Piece(s, <<0, Len(s) + 1>>))
          /\ Has(s, WordOf(Piece(s, <<0, Len(s) + 1>>)))
      BY <1>1, <1>2, <2>2, <3>1, ChainPieces
    <3> QED
      BY <1>4, <1>5, <2>1, <3>2
  <2>4. Disjunction(s, value) <=> Compares(s, value)
    BY <1>1, <1>2, <1>5, NoOperators
  <2>5. Static[s] \in {"unknown", Truth(Compares(s, value))}
    BY <2>3, PieceFolds
  <2>6. CASE LookedUp(s)
    <3>1. Plain(s) /\ s = <<s[1]>> /\ s[1] \in Words
      BY <1>1, <2>6 DEF Plain, LookedUp, Atom, Literals, Words
    <3>2. s[1] \in {"false", "null", "undefined", "0"}
      BY <3>1 DEF Misread, Words
    <3>3. Known(s[1]) \in {"unknown", "false"}
      BY <3>2 DEF Known, FoldedLiterals, Truth, FoldsTrue
    <3>4. ~Holds(s, value)
      BY <2>6 DEF Holds
    <3> QED
      BY <3>1, <3>3, <3>4, PlainStatic DEF Truth
  <2>7. CASE ~LookedUp(s)
    BY <2>4, <2>5, <2>7 DEF Holds, Truth
  <2> QED
    BY <2>6, <2>7
<1>6. CASE \E operator \in Operators : Has(s, operator)
  <2>1. s[1] # "!"
    BY <1>2, <1>6 DEF Misread
  <2>2. Len(s) > 1
    <3>1. PICK k \in 1 .. Len(s) : s[k] \in Operators
      BY <1>1, <1>6 DEF Has
    <3>2. k > 1
      BY <3>1, <1>1 DEF WellWritten
    <3> QED
      BY <3>1, <3>2, <1>1
  <2>3. StaticLiteral(s) = "unknown"
    <3>1. 1 \in DOMAIN s /\ Len(s) \in DOMAIN s /\ Len(s) # 1
      BY <2>2, <1>1
    <3>2. ~({s[1], s[Len(s)]} \subseteq Strings)
      BY <3>1, <1>3
    <3> QED
      BY <3>1, <3>2 DEF StaticLiteral
  <2>4. Holds(s, value) <=> Disjunction(s, value)
    BY <1>1, <2>2 DEF Holds, LookedUp
  <2>5. CASE Has(s, "===")
    <3>1. Static[s] = Compared(s)
      BY <1>1, <2>1, <2>3, <2>5, Calls DEF StaticBoolean
    <3>2. Compared(s) \in {"unknown", Truth(Disjunction(s, value))}
      BY <1>1, <1>2, <1>3, <2>1, <2>5, ComparisonFolds
    <3> QED
      BY <3>1, <3>2, <2>4 DEF Truth
  <2>6. CASE ~Has(s, "===") /\ Has(s, "&&")
    <3>1. Static[s] = FirstNot("true", s, "&&", Static5)
      BY <1>1, <2>1, <2>3, <2>6, Calls DEF StaticBoolean
    <3>2. ~Has(s, "||") /\ \A o \in Operators \ {"&&"} : ~Has(s, o)
      BY <2>6 DEF Misread, Operators
    <3>3. \A cut \in Split(s, "&&") :
              Static5[Piece(s, cut)] \in {"unknown", Truth(Compares(Piece(s, cut), value))}
      <4> TAKE cut \in Split(s, "&&")
      <4>1. "&&" \in Operators
        BY DEF Operators
      <4>2. /\ Plain(Piece(s, cut)) \/ Denied(Piece(s, cut))
            /\ Has(s, WordOf(Piece(s, cut)))
        BY <4>1, <1>1, <1>2, <3>2, ChainPieces
      <4>3. WordOf(Piece(s, cut)) \notin Objects
        BY <1>4, <2>6, <4>2
      <4> QED
        BY <4>2, <4>3, PieceFolds
    <3>4. FirstNot("true", s, "&&", Static5) \in {"unknown", Truth(Conjunction(s, value))}
      BY <3>3, ConjunctionFolds
    <3>5. Disjunction(s, value) <=> Conjunction(s, value)
      BY <1>1, <1>2, <3>2, NoOperators
    <3> QED
      BY <3>1, <3>4, <3>5, <2>4 DEF Truth
  <2>7. CASE ~Has(s, "===") /\ ~Has(s, "&&")
    <3>1. Has(s, "||")
      BY <1>6, <2>7 DEF Operators
    <3>2. Static[s] = FirstNot("false", s, "||", Static5)
      BY <1>1, <2>1, <2>3, <2>7, <3>1, Calls DEF StaticBoolean
    <3>3. \A o \in Operators \ {"||"} : ~Has(s, o)
      BY <2>7 DEF Operators
    <3>4. \A cut \in Split(s, "||") :
              /\ Static5[Piece(s, cut)] \in {"unknown", Truth(Compares(Piece(s, cut), value))}
              /\ (Conjunction(Piece(s, cut), value) <=> Compares(Piece(s, cut), value))
      <4> TAKE cut \in Split(s, "||")
      <4>1. "||" \in Operators
        BY DEF Operators
      <4>2. /\ Plain(Piece(s, cut)) \/ Denied(Piece(s, cut))
            /\ Has(s, WordOf(Piece(s, cut)))
        BY <4>1, <1>1, <1>2, <3>3, ChainPieces
      <4>3. /\ Piece(s, cut) \in Seq(Lexeme) /\ Piece(s, cut) # <<>>
            /\ ~Has(Piece(s, cut), "&&")
        BY <4>2, NoOperatorsInside, Vocabulary
      <4>4. (Conjunction(Piece(s, cut), value) <=> Compares(Piece(s, cut), value))
        BY <4>3, NoOperators
      <4>5. WordOf(Piece(s, cut)) \notin Objects
        BY <1>4, <2>7, <4>2
      <4> QED
        BY <4>2, <4>4, <4>5, PieceFolds
    <3>5. FirstNot("false", s, "||", Static5) \in {"unknown", Truth(Disjunction(s, value))}
      BY <3>4, DisjunctionFolds
    <3> QED
      BY <3>2, <3>5, <2>4 DEF Truth
  <2> QED
    BY <2>5, <2>6, <2>7
<1> QED
  BY <1>5, <1>6 DEF Operators

\* An @empty of a literal.
LEMMA EmptyFolds ==
  ASSUME Plain(condition), directive = "empty", ~Misread, NEW value \in Literals,
         StaticLiteral(condition) # "unknown"
  PROVE  FoldsEmpty(StaticLiteral(condition)) <=> IsViewEmpty(condition, value)
<1> DEFINE word == condition[1]
<1>1. Len(condition) = 1 /\ word \in Atom /\ condition = <<word>>
  BY DEF Plain
<1>2. word \in FoldedLiterals /\ StaticLiteral(condition) = word
  BY <1>1 DEF StaticLiteral, FoldedLiterals, Literals, Strings
<1>3. word \notin {"true", "false", "0", "1"}
  BY <1>1 DEF Misread
<1>4. word \in {"null"} \cup Strings \cup Objects
  BY <1>2, <1>3 DEF FoldedLiterals, Literals
<1>5. IsViewEmpty(condition, value) <=> word = "null" \/ word \in {"null", "undefined", "''"} \cup Objects
  BY <1>1, <1>4 DEF IsViewEmpty, LookedUp, Operand, Words, Path, Strings, Objects
<1> QED
  BY <1>2, <1>4, <1>5 DEF FoldsEmpty, Strings, Objects

LEMMA FoldSafety == FoldSafe => FoldsOnlyWhatIsKnown
<1> SUFFICES ASSUME FoldSafe, TakesCondition => ~WantsOperand, ~Misread, NEW value \in Literals
             PROVE  FoldedRenders(value) = Renders(value)
  BY DEF FoldsOnlyWhatIsKnown
<1>1. CASE Conditional
  <2>0. TakesCondition
    BY <1>1 DEF TakesCondition
  <2>1. Static[condition] \in {"unknown", Truth(Holds(condition, value))}
    BY <1>1, <2>0, ConditionFolds
  <2>2. CASE directive = "if"
    <3>1. Renders(value) = Holds(condition, value) /\ FoldedTruth = Static[condition]
      BY <2>2 DEF Renders, FoldedTruth
    <3>2. Static[condition] = "unknown" \/ ((Static[condition] = "true") <=> Holds(condition, value))
      BY <2>1 DEF Truth
    <3>3. CASE Static[condition] = "unknown"
      BY <3>1, <3>3 DEF FoldedRenders
    <3>4. CASE Static[condition] # "unknown"
      <4>1. (Static[condition] = "true") = Holds(condition, value)
        BY <3>2, <3>4 DEF Holds
      <4> QED
        BY <3>1, <3>4, <4>1 DEF FoldedRenders
    <3> QED
      BY <3>3, <3>4
  <2>3. CASE directive = "unless"
    BY <2>1, <2>3 DEF FoldedRenders, Renders, FoldedTruth, Truth, Negated
  <2> QED
    BY <1>1, <2>2, <2>3 DEF Conditional
<1>2. CASE directive = "production"
  BY <1>2 DEF FoldedRenders, Renders, FoldedTruth, Truth
<1>3. CASE directive = "local"
  BY <1>3 DEF FoldedRenders, Renders, FoldedTruth, Truth, Misread, FoldSafe
<1>4. CASE directive = "env"
  BY <1>4 DEF FoldedRenders, Renders, FoldedTruth, Truth
<1>5. CASE directive = "empty"
  <2>1. ~WantsOperand
    BY <1>5 DEF TakesCondition
  <2>2. Plain(condition)
    BY <1>5, <2>1 DEF FoldSafe, WantsOperand, Before, Operators
  <2>3. Renders(value) = IsViewEmpty(condition, value)
    BY <1>5 DEF Renders
  <2>4. StaticLiteral(condition) # "unknown" =>
            (FoldsEmpty(StaticLiteral(condition)) <=> IsViewEmpty(condition, value))
    BY <1>5, <2>2, EmptyFolds
  <2> QED
    BY <1>5, <2>3, <2>4 DEF FoldedRenders, FoldedTruth, Truth, IsViewEmpty
<1> QED
  BY <1>1, <1>2, <1>3, <1>4, <1>5 DEF FoldSafe, Conditional

\* A template renders the same whether its conditions are folded or not, for
\* conditions of any length, but for those misread.
THEOREM FoldingChangesNothing == FoldSpec => []FoldsOnlyWhatIsKnown
BY FoldStarts, FoldStep, FoldSafety, PTL DEF FoldSpec
=============================================================================
