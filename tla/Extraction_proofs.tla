-------------------------- MODULE Extraction_proofs --------------------------
(***************************************************************************)
(* What holds of Extraction for every text, of any number of nodes: the    *)
(* rows of a symbol's name are about what is inside of a symbol of that    *)
(* name or begins with it, what is inside of a symbol is shown under the   *)
(* name of the first around it if that is the only one of its name, and    *)
(* the depth of a control flow row is its nesting.                         *)
(***************************************************************************)
EXTENDS Extraction, SequenceTheorems, FiniteSetTheorems, WellFoundedInduction, NaturalsInduction, TLAPS

-----------------------------------------------------------------------------
(* Least and greatest numbers *)

LEMMA Least ==
  ASSUME NEW S \in SUBSET Nat, S # {}
  PROVE  Min(S) \in S /\ \A y \in S : Min(S) <= y
<1>1. IsWellFoundedOn(OpToRel(<, Nat), Nat) BY NatLessThanWellFounded
<1>2. PICK x \in S : \A y \in S : ~(<<y, x>> \in OpToRel(<, Nat)) BY <1>1, WFMin
<1>3. \A y \in S : x <= y
  <2> TAKE y \in S
  <2>1. ~(y < x) BY <1>2 DEF OpToRel
  <2> QED BY <2>1
<1> QED BY <1>3 DEF Min

LEMMA Greatest ==
  ASSUME NEW b \in Nat, NEW S \in SUBSET (0 .. b), S # {}
  PROVE  Max(S) \in S /\ \A y \in S : y <= Max(S)
<1> DEFINE T == {b - x : x \in S}
<1>1. T \subseteq Nat /\ T # {}
  <2>1. \A x \in S : b - x \in Nat OBVIOUS
  <2> QED BY <2>1
<1>2. IsWellFoundedOn(OpToRel(<, Nat), Nat) BY NatLessThanWellFounded
<1>3. PICK t \in T : \A u \in T : ~(<<u, t>> \in OpToRel(<, Nat)) BY <1>1, <1>2, WFMin
<1>4. PICK x \in S : t = b - x BY <1>3
<1>5. \A y \in S : x >= y
  <2> TAKE y \in S
  <2>1. b - y \in T /\ b - y \in Nat OBVIOUS
  <2>2. ~(b - y < t) BY <1>1, <1>3, <2>1 DEF OpToRel
  <2> QED BY <2>2, <1>4
<1>6. PICK z \in S : z = Max(S) /\ \A y \in S : z >= y BY <1>5 DEF Max
<1> QED BY <1>6

-----------------------------------------------------------------------------
(* The tree *)

Node == [type : Types, name : Names \cup Callees \cup {""}, parent : Nat, start : Nat, line : Nat]

\* The node n is inside of the node m.
Within(m, n) == m \in 1 .. n - 1 /\ \A j \in m + 1 .. n : source[j].parent >= m

\* The node n begins with the struct that is its first part.
BeginsWith(m, n) ==
  /\ n # Root /\ m = n + 1 /\ source[m].parent = n /\ source[m].start = n
  /\ source[m].type = "class_definition" /\ source[n].type \in {"function_definition", "assignment"}

\* Every node is inside of its parent, and starts at its own place or is what the parent begins with,
\* and an else belongs to a statement.
Tree ==
  /\ source \in Seq(Node)
  /\ \A n \in 1 .. Len(source) :
       /\ source[n].parent # Root => Within(source[n].parent, n)
       /\ source[n].start = n \/ BeginsWith(n, source[n].parent)
       /\ source[n].type = "else_clause" =>
            source[n].parent # Root /\ source[source[n].parent].type \in {"if_statement", "for_statement"}
       /\ source[n].type \in Definitions => source[n].name \in Names

LEMMA NodeProps ==
  ASSUME Tree
  PROVE  /\ Len(source) \in Nat /\ DOMAIN source = 1 .. Len(source)
         /\ \A n \in 1 .. Len(source) : source[n] \in Node /\ source[n].parent \in Nat /\ source[n].type \in Types
         /\ \A n \in 1 .. Len(source) : source[n].start \in Nat
<1>1. source \in Seq(Node) BY DEF Tree
<1>2. \A n \in 1 .. Len(source) : source[n] \in Node BY <1>1, ElementOfSeq
<1> QED BY <1>1, <1>2, LenProperties DEF Node

\* The end of a node: what stands before it is inside.
LEMMA EndByteProps ==
  ASSUME Tree, NEW k \in 0 .. Len(source), NEW n \in 1 .. k
  PROVE  /\ EndByte(n, k) \in Int
         /\ \A x \in n .. k : x < EndByte(n, k) <=> \A j \in n + 1 .. x : source[j].parent >= n
<1> DEFINE S == {m \in n .. k : \A j \in n + 1 .. m : source[j].parent >= n}
<1>1. k \in Nat /\ n \in Nat /\ \A j \in 1 .. k : source[j].parent \in Nat BY NodeProps
<1>2. n \in S /\ S \in SUBSET (0 .. k) BY <1>1
<1>3. \A x \in n .. k : x \in S <=> \A j \in n + 1 .. x : source[j].parent >= n OBVIOUS
<1>4. \A x \in S, y \in n .. k : y <= x => y \in S BY <1>1
<1>5. EndByte(n, k) = 1 + Max(S) BY DEF EndByte
<1> HIDE DEF S
<1>6. Max(S) \in S /\ \A y \in S : y <= Max(S) BY <1>1, <1>2, Greatest
<1>7. PICK z \in 0 .. k : z = Max(S) BY <1>2, <1>6
<1>8. \A x \in n .. k : x <= z <=> x \in S BY <1>1, <1>2, <1>4, <1>6, <1>7
<1> QED BY <1>1, <1>3, <1>5, <1>7, <1>8

LEMMA AncestorsAre ==
  ASSUME Tree, NEW k \in 0 .. Len(source), NEW n \in 1 .. k, NEW m
  PROVE  m \in Ancestors(n, k) <=> Within(m, n)
<1>1. k \in Nat BY NodeProps
<1>2. ASSUME m \in 1 .. n - 1 PROVE n < EndByte(m, k) <=> \A j \in m + 1 .. n : source[j].parent >= m
  <2>1. m \in 1 .. k /\ n \in m .. k BY <1>1, <1>2
  <2> QED BY <2>1, EndByteProps
<1> QED BY <1>2 DEF Ancestors, Within

\* A node that starts with its parent is the next after it, and that one starts at its own place.
LEMMA StartProps ==
  ASSUME Tree, NEW n \in 1 .. Len(source)
  PROVE  \/ source[n].start = n
         \/ /\ source[n].start = n - 1 /\ source[n].parent = n - 1 /\ n - 1 \in 1 .. Len(source)
            /\ source[n].type = "class_definition"
            /\ source[n - 1].type \in {"function_definition", "assignment"} /\ source[n - 1].start = n - 1
<1>1. Len(source) \in Nat /\ source[n].parent \in Nat BY NodeProps
<1>2. SUFFICES ASSUME source[n].start # n
               PROVE  /\ source[n].start = n - 1 /\ source[n].parent = n - 1 /\ n - 1 \in 1 .. Len(source)
                      /\ source[n].type = "class_definition"
                      /\ source[n - 1].type \in {"function_definition", "assignment"} /\ source[n - 1].start = n - 1
  OBVIOUS
<1>3. PICK p \in Nat : p = source[n].parent BY <1>1
<1>4. BeginsWith(n, p) BY <1>2, <1>3 DEF Tree
<1>5. /\ p # 0 /\ n = p + 1 /\ source[n].start = p /\ source[n].type = "class_definition"
      /\ source[p].type \in {"function_definition", "assignment"}
  BY <1>4 DEF BeginsWith, Root
<1>6. p = n - 1 /\ p \in 1 .. Len(source) BY <1>1, <1>3, <1>5
<1>7. source[p].start = p
  <2>1. source[p].start = p \/ BeginsWith(p, source[p].parent) BY <1>6 DEF Tree
  <2>2. ~BeginsWith(p, source[p].parent) BY <1>5 DEF BeginsWith
  <2> QED BY <2>1, <2>2
<1> QED BY <1>3, <1>5, <1>6, <1>7

\* The bytes of a node are those where it, and what is inside of it, starts.
LEMMA SpanIs ==
  ASSUME Tree, NEW k \in 0 .. Len(source), NEW n \in 1 .. k, NEW m \in 1 .. k
  PROVE  source[m].start <= source[n].start /\ source[n].start < EndByte(m, k) <=>
           Within(m, n) \/ source[m].start = source[n].start
<1> DEFINE sm == source[m].start
           sn == source[n].start
<1>1. /\ k \in Nat /\ m \in 1 .. Len(source) /\ n \in 1 .. Len(source) /\ Len(source) \in Nat
      /\ sm \in Nat /\ sn \in Nat
  BY NodeProps
<1>2. (sm = m \/ sm = m - 1) /\ (sn = n \/ (sn = n - 1 /\ source[n].parent = n - 1))
  BY <1>1, StartProps
<1>3. EndByte(m, k) \in Int /\ \A x \in m .. k : x < EndByte(m, k) <=> \A j \in m + 1 .. x : source[j].parent >= m
  BY EndByteProps
<1>4. m < EndByte(m, k)
  <2>1. m \in m .. k BY <1>1
  <2>2. \A j \in m + 1 .. m : source[j].parent >= m BY <1>1
  <2> QED BY <1>3, <2>1, <2>2
<1> HIDE DEF sm, sn
<1>5. CASE n = m
  <2>1. sm = sn BY <1>5 DEF sm, sn
  <2> QED BY <2>1, <1>1, <1>2, <1>3, <1>4 DEF sm, sn
<1>6. CASE n > m
  <2>1. sm <= sn /\ m \in 1 .. n - 1 BY <1>1, <1>2, <1>6
  <2>2. CASE sn = n
    <3>1. sm # sn /\ n \in m .. k BY <1>1, <1>2, <1>6, <2>2
    <3> QED BY <1>3, <2>1, <2>2, <3>1 DEF Within, sm, sn
  <2>3. CASE sn = n - 1 /\ source[n].parent = n - 1
    <3>1. n - 1 \in m .. k /\ source[n].parent >= m BY <1>1, <1>6, <2>3
    <3>2. n - 1 < EndByte(m, k) <=> \A j \in m + 1 .. n - 1 : source[j].parent >= m BY <1>3, <3>1
    <3>3. \A j \in m + 1 .. n : j = n \/ j \in m + 1 .. n - 1 BY <1>1
    <3>4. \A j \in m + 1 .. n - 1 : j \in m + 1 .. n BY <1>1
    <3>5. Within(m, n) <=> n - 1 < EndByte(m, k) BY <2>1, <3>1, <3>2, <3>3, <3>4 DEF Within
    <3>6. sm = sn => n - 1 < EndByte(m, k) BY <1>1, <1>2, <1>3, <1>4, <1>6, <2>3
    <3> QED BY <2>1, <2>3, <3>5, <3>6 DEF sm, sn
  <2> QED BY <1>2, <2>2, <2>3
<1>7. CASE n < m
  <2>1. ~Within(m, n) BY <1>1, <1>7 DEF Within
  <2>2. sm <= sn <=> sm = sn BY <1>1, <1>2, <1>7
  <2>3. sn < EndByte(m, k) BY <1>1, <1>2, <1>3, <1>4, <1>7
  <2> QED BY <2>1, <2>2, <2>3 DEF sm, sn
<1> QED BY <1>1, <1>5, <1>6, <1>7

\* Of two nodes around a node the later is inside of the earlier; what is around a node around it
\* is around it.
LEMMA Nesting ==
  ASSUME Tree, NEW n \in 1 .. Len(source), NEW m, Within(m, n), NEW o
  PROVE  /\ m \in 1 .. Len(source) /\ m < n
         /\ Within(o, n) /\ o < m => Within(o, m)
         /\ Within(o, m) => Within(o, n)
<1>1. Len(source) \in Nat /\ m \in 1 .. n - 1 BY NodeProps DEF Within
<1>2. m \in 1 .. Len(source) /\ m < n BY <1>1
<1>3. ASSUME Within(o, n), o < m PROVE Within(o, m)
  <2>1. o \in 1 .. n - 1 BY <1>3 DEF Within
  <2>2. o \in 1 .. m - 1 BY <2>1, <1>1, <1>3
  <2>3. \A j \in o + 1 .. m : j \in o + 1 .. n BY <2>1, <1>1
  <2> QED BY <2>2, <2>3, <1>3 DEF Within
<1>4. ASSUME Within(o, m) PROVE Within(o, n)
  <2>1. o \in 1 .. m - 1 BY <1>4 DEF Within
  <2>2. o \in 1 .. n - 1 BY <2>1, <1>1
  <2>3. ASSUME NEW j \in o + 1 .. n PROVE source[j].parent >= o
    <3>1. CASE j <= m
      <4>1. j \in o + 1 .. m BY <3>1, <2>1, <1>1
      <4> QED BY <4>1, <1>4 DEF Within
    <3>2. CASE ~(j <= m)
      <4>1. j \in m + 1 .. n /\ j \in 1 .. Len(source) BY <3>2, <2>1, <1>1
      <4>2. source[j].parent >= m BY <4>1 DEF Within
      <4>3. source[j].parent \in Nat BY <4>1, NodeProps
      <4> QED BY <4>2, <4>3, <2>1, <1>1
    <3> QED BY <3>1, <3>2
  <2> QED BY <2>2, <2>3 DEF Within
<1> QED BY <1>2, <1>3, <1>4

\* What is around a node is its parent or is around that.
LEMMA Parent ==
  ASSUME Tree, NEW n \in 1 .. Len(source), NEW m, Within(m, n)
  PROVE  m <= source[n].parent
<1>1. Len(source) \in Nat /\ m \in 1 .. n - 1 BY NodeProps DEF Within
<1>2. n \in m + 1 .. n /\ source[n].parent \in Nat BY <1>1, NodeProps
<1> QED BY <1>1, <1>2 DEF Within

-----------------------------------------------------------------------------
(* Someone edits the file *)

\* A node more changes nothing in the tree before it.
LEMMA WriteKeeps ==
  ASSUME Tree, NEW type \in Types, NEW p \in Open, NEW name \in NamesOf(type),
         NEW start \in StartsIn(p, type), NEW down \in Steps(type), Write(type, name, p, start, down)
  PROVE  /\ Tree' /\ Len(source') = Len(source) + 1
         /\ \A n \in 1 .. Len(source) : source'[n] = source[n]
<1> DEFINE l == Len(source)
           line == IF source = <<>> THEN 1 ELSE Last(source).line + down
           node == [type |-> type, name |-> name, parent |-> p, start |-> start, line |-> line]
<1>1. l \in Nat /\ \A n \in 1 .. l : source[n] \in Node /\ source[n].parent \in Nat BY NodeProps
<1>2. source \in Seq(Node) BY DEF Tree
<1>3. p = Root \/ (p \in 1 .. l /\ \A j \in p + 1 .. l : source[j].parent >= p)
  <2> SUFFICES ASSUME p # Root
               PROVE  p \in 1 .. l /\ \A j \in p + 1 .. l : source[j].parent >= p
    OBVIOUS
  <2>1. p \in 1 .. l /\ EndByte(p, l) = l + 1 BY DEF Open
  <2>2. l \in 0 .. Len(source) /\ l \in p .. l /\ l < l + 1 BY <2>1, <1>1
  <2>3. \A x \in p .. l : x < EndByte(p, l) <=> \A j \in p + 1 .. x : source[j].parent >= p
    BY <2>1, <2>2, EndByteProps
  <2>4. \A j \in p + 1 .. l : source[j].parent >= p BY <2>1, <2>2, <2>3
  <2> QED BY <2>1, <2>4
<1>4. node \in Node
  <2>1. p \in Nat BY <1>1, <1>3 DEF Root
  <2>2. name \in Names \cup Callees \cup {""} BY DEF NamesOf
  <2>3. line \in Nat
    <3>1. down \in {0, 1} BY DEF Steps
    <3>2. CASE source = <<>> BY <3>2
    <3>3. CASE source # <<>>
      <4>1. l \in 1 .. l BY <3>3, <1>2, EmptySeq
      <4>2. Last(source).line \in Nat BY <4>1, <1>1 DEF Last, Node
      <4> QED BY <3>1, <3>3, <4>2
    <3> QED BY <3>2, <3>3
  <2>4. start \in Nat BY <1>1, <2>1 DEF StartsIn
  <2> HIDE DEF line
  <2> QED BY <2>1, <2>2, <2>3, <2>4 DEF Node
<1>5. source' = Append(source, node) BY DEF Write
<1>6. node.type = type /\ node.name = name /\ node.parent = p /\ node.start = start OBVIOUS
<1> HIDE DEF node
<1>7. /\ source' \in Seq(Node) /\ Len(source') = l + 1 /\ source'[l + 1] = node
      /\ \A n \in 1 .. l : source'[n] = source[n]
  BY <1>2, <1>4, <1>5, AppendProperties
<1> HIDE DEF l
<1>8. ASSUME NEW n \in 1 .. l + 1
      PROVE  /\ source'[n].parent # Root => Within(source[n].parent, n)'
             /\ source'[n].start = n \/ BeginsWith(n, source[n].parent)'
             /\ source'[n].type = "else_clause" =>
                  source'[n].parent # Root /\ source'[source'[n].parent].type \in {"if_statement", "for_statement"}
             /\ source'[n].type \in Definitions => source'[n].name \in Names
  <2>1. CASE n = l + 1
    <3>1. source'[n].type = type /\ source'[n].name = name /\ source'[n].parent = p
         /\ source'[n].start = start
      BY <2>1, <1>6, <1>7
    <3>2. ASSUME p # Root PROVE Within(source[n].parent, n)' /\ source'[p] = source[p]
      <4>1. p \in 1 .. l /\ p \in 1 .. n - 1 BY <3>2, <2>1, <1>1, <1>3
      <4>2. ASSUME NEW j \in p + 1 .. n PROVE source'[j].parent >= p
        <5>1. CASE j = n BY <5>1, <3>1, <4>1
        <5>2. CASE j # n
          <6>1. j \in p + 1 .. l /\ j \in 1 .. l BY <5>2, <4>1, <2>1, <1>1
          <6> QED BY <6>1, <3>2, <1>3, <1>7
        <5> QED BY <5>1, <5>2
      <4> QED BY <3>1, <3>2, <4>1, <4>2, <1>3, <1>7 DEF Within
    <3>3. type = "else_clause" => p # Root /\ source[p].type \in {"if_statement", "for_statement"}
      BY DEF Write, MayHold
    <3>4. type \in Definitions => name \in Names BY DEF NamesOf
    <3>5. source'[n].start = n \/ BeginsWith(n, source[n].parent)'
      <4>1. SUFFICES ASSUME start # n PROVE BeginsWith(n, source[n].parent)' BY <3>1
      <4>2. /\ start = p /\ p # Root /\ p = l /\ type = "class_definition"
            /\ source[p].type \in {"function_definition", "assignment"}
        BY <2>1, <4>1 DEF StartsIn, l
      <4>3. source'[p].type \in {"function_definition", "assignment"} BY <3>2, <4>2
      <4> QED BY <2>1, <3>1, <4>2, <4>3 DEF BeginsWith
    <3> QED BY <3>1, <3>2, <3>3, <3>4, <3>5
  <2>2. CASE n # l + 1
    <3>1. n \in 1 .. l /\ source'[n] = source[n] BY <2>2, <1>1, <1>7
    <3>2. /\ source[n].parent # Root => Within(source[n].parent, n)
          /\ source[n].start = n \/ BeginsWith(n, source[n].parent)
          /\ source[n].type = "else_clause" =>
               source[n].parent # Root /\ source[source[n].parent].type \in {"if_statement", "for_statement"}
          /\ source[n].type \in Definitions => source[n].name \in Names
      BY <3>1 DEF Tree, l
    <3>3. ASSUME source[n].parent # Root
          PROVE  Within(source[n].parent, n)' /\ source'[source[n].parent] = source[source[n].parent]
      <4>1. PICK m : m = source[n].parent OBVIOUS
      <4>2. m \in 1 .. n - 1 /\ \A j \in m + 1 .. n : source[j].parent >= m BY <4>1, <3>2, <3>3 DEF Within
      <4>3. m \in 1 .. l /\ \A j \in m + 1 .. n : j \in 1 .. l BY <4>2, <3>1, <1>1
      <4>4. \A j \in m + 1 .. n : source'[j].parent >= m BY <4>2, <4>3, <1>7
      <4> QED BY <4>1, <4>2, <4>3, <4>4, <3>1, <1>7 DEF Within
    <3>4. BeginsWith(n, source[n].parent) => BeginsWith(n, source[n].parent)'
      BY <3>1, <3>3 DEF BeginsWith
    <3> QED BY <3>1, <3>2, <3>3, <3>4
  <2> QED BY <2>1, <2>2
<1>9. Tree' BY <1>7, <1>8 DEF Tree
<1> QED BY <1>7, <1>9 DEF l

-----------------------------------------------------------------------------
(* The symbols *)

SymbolType == [id : Nat, name : Names, line : Nat,
               start_byte : Nat, end_byte : Int]

\* A list of symbols of the first k nodes: each is that of one node, and spans what is inside of it
\* and what starts where it starts.
Listed(list, k) ==
  /\ list \in Seq(SymbolType)
  /\ \A i \in 1 .. Len(list) :
       /\ list[i].id \in 1 .. k /\ list[i].start_byte = source[list[i].id].start
       /\ source[list[i].id].type \in Definitions
       /\ \A n \in 1 .. k : Holds(list[i], source[n].start) <=>
            Within(list[i].id, n) \/ source[list[i].id].start = source[n].start
  /\ \A i, j \in 1 .. Len(list) : list[i].id = list[j].id => i = j

LEMMA SymbolIs ==
  ASSUME Tree, NEW k \in 0 .. Len(source), NEW n \in 1 .. k, source[n].type \in Definitions
  PROVE  Symbol(n, k) \in SymbolType
<1>1. k \in Nat /\ n \in 1 .. Len(source) /\ n \in Nat BY NodeProps
<1>2. source[n].name \in Names /\ source[n] \in Node BY <1>1, NodeProps DEF Tree
<1>3. source[n].line \in Nat BY <1>2 DEF Node
<1>4. EndByte(n, k) \in Int BY EndByteProps
<1>5. source[n].start \in Nat BY <1>1, NodeProps
<1> QED BY <1>1, <1>2, <1>3, <1>4, <1>5 DEF Symbol, SymbolType

\* What the extractor lists are the symbols of the text, in some order.
LEMMA ExtractedAreListed ==
  ASSUME Tree, NEW k \in 0 .. Len(source), NEW list \in ExtractSymbols(k)
  PROVE  Listed(list, k)
<1>0. PICK D \in OnceEach(Of(Definitions, k)) : list \in SetToSeqs({Symbol(n, k) : n \in D})
  BY DEF ExtractSymbols
<1> DEFINE found == {Symbol(n, k) : n \in D}
           f == [n \in D |-> Symbol(n, k)]
<1>1. k \in Nat /\ D \subseteq {m \in 1 .. k : source[m].type \in Definitions}
  BY <1>0, NodeProps DEF OnceEach, Of
<1>2. IsFiniteSet(found)
  <2>1. IsFiniteSet(D)
    <3>1. IsFiniteSet(1 .. k) BY <1>1, FS_Interval
    <3> QED BY <3>1, <1>1, FS_Subset
  <2>2. f \in Surjection(D, found) BY DEF Surjection
  <2> HIDE DEF found, f
  <2> QED BY <2>1, <2>2, FS_Surjection
<1>3. found \subseteq SymbolType
  <2> SUFFICES ASSUME NEW n \in D PROVE Symbol(n, k) \in SymbolType OBVIOUS
  <2> QED BY <1>1, SymbolIs
<1>4. list \in SetToSeqs(found) BY <1>0
<1>5. PICK c \in Nat : c = Cardinality(found) BY <1>2, FS_CardinalityType
<1>6. list \in [1 .. c -> found] /\ \A i, j \in 1 .. c : i # j => list[i] # list[j]
  BY <1>4, <1>5 DEF SetToSeqs
<1>7. list \in Seq(SymbolType) /\ Len(list) = c
  <2> HIDE DEF found
  <2>1. list \in [1 .. c -> SymbolType] BY <1>3, <1>6
  <2> QED BY <2>1, <1>5
<1>8. \A i \in 1 .. c : list[i].id \in D /\ list[i] = Symbol(list[i].id, k)
  <2> TAKE i \in 1 .. c
  <2>1. list[i] \in found BY <1>6
  <2>2. PICK n \in D : list[i] = Symbol(n, k) BY <2>1
  <2>3. Symbol(n, k).id = n BY DEF Symbol
  <2> QED BY <2>2, <2>3
<1>9. ASSUME NEW i \in 1 .. c
      PROVE  /\ list[i].id \in 1 .. k /\ list[i].start_byte = source[list[i].id].start
             /\ source[list[i].id].type \in Definitions
             /\ \A n \in 1 .. k : Holds(list[i], source[n].start) <=>
                  Within(list[i].id, n) \/ source[list[i].id].start = source[n].start
  <2>1. PICK m : m = list[i].id OBVIOUS
  <2>2. m \in 1 .. k /\ source[m].type \in Definitions /\ list[i] = Symbol(m, k) BY <2>1, <1>1, <1>8
  <2>3. list[i].start_byte = source[m].start /\ list[i].end_byte = EndByte(m, k) BY <2>2 DEF Symbol
  <2>4. \A n \in 1 .. k : source[m].start <= source[n].start /\ source[n].start < EndByte(m, k) <=>
                            Within(m, n) \/ source[m].start = source[n].start
    BY <2>2, SpanIs
  <2> QED BY <2>1, <2>2, <2>3, <2>4 DEF Holds
<1>10. \A i, j \in 1 .. c : list[i].id = list[j].id => i = j BY <1>6, <1>8
<1> QED BY <1>7, <1>9, <1>10 DEF Listed

\* The first symbol around a byte, in the order of the list.
LEMMA FindEnclosingIs ==
  ASSUME NEW list \in Seq(SymbolType), NEW n,
         NEW I, I = {i \in 1 .. Len(list) : Holds(list[i], n)}
  PROVE  FindEnclosing(list, n) = IF I = {} THEN <<>> ELSE <<list[Min(I)]>>
<1>1. SelectInSeq(list, LAMBDA symbol : Holds(symbol, n)) = IF I # {} THEN Min(I) ELSE 0
  BY DEF SelectInSeq
<1>2. I # {} => Min(I) # 0
  <2>1. I \in SUBSET Nat BY LenProperties
  <2> QED BY <2>1, Least
<1> QED BY <1>1, <1>2 DEF FindEnclosing

\* The first symbol of a name.
LEMMA FindSymbolIs ==
  ASSUME NEW name, NEW J, J = {j \in 1 .. Len(symbols) : symbols[j].name = name}, J # {}
  PROVE  FindSymbol(name) = symbols[Min(J)].id
<1>1. SelectInSeq(symbols, LAMBDA symbol : symbol.name = name) = IF J # {} THEN Min(J) ELSE 0
  BY DEF SelectInSeq
<1> QED BY <1>1 DEF FindSymbol

\* The last symbol of a name.
LEMMA IdOfIs ==
  ASSUME NEW list \in Seq(SymbolType), NEW name,
         NEW J, J = {j \in 1 .. Len(list) : list[j].name = name}
  PROVE  IdOf(list, name) = IF J = {} THEN NULL ELSE list[Max(J)].id
<1>1. SelectLastInSeq(list, LAMBDA symbol : symbol.name = name) = IF J # {} THEN Max(J) ELSE 0
  BY DEF SelectLastInSeq
<1>2. J # {} => Max(J) # 0
  <2>1. Len(list) \in Nat BY LenProperties
  <2>2. J \in SUBSET (0 .. Len(list)) /\ 0 \notin J BY <2>1
  <2>3. J # {} => Max(J) \in J BY ONLY <2>1, <2>2, Greatest
  <2> QED BY <2>2, <2>3
<1> QED BY <1>1, <1>2 DEF IdOf

-----------------------------------------------------------------------------
(* The rows *)

Controls == is_cfg_producing_type \cup {"return_statement"}

\* The symbol that a row about the node n is tied to.
SymbolOf(n) == IdOf(symbols, EnclosingName(symbols, source[n].start))

\* Where the first symbol around n starts.
StartOf(n) == LET found == FindEnclosing(symbols, source[n].start) IN IF found = <<>> THEN 0 ELSE found[1].start_byte

\* The constructs around n within that symbol.
Level(n) == {m \in 1 .. n - 1 : Within(m, n) /\ source[m].start >= StartOf(n) /\ source[m].type \in is_cfg_producing_type}

DepthOf(n) ==
  IF source[n].type = "else_clause" /\ Cardinality(Level(n)) > 0
  THEN Cardinality(Level(n)) - 1 ELSE Cardinality(Level(n))

\* Every row is about a node that was analysed, and is tied to the symbol of that node.
Tied ==
  /\ \A row \in calls : row.node \in 1 .. analysed /\ row.caller_id = SymbolOf(row.node)
  /\ \A row \in cfg_nodes : row.node \in 1 .. analysed /\ row.symbol_id = SymbolOf(row.node)
  /\ \A row \in dfg_edges : row.node \in 1 .. analysed /\ row.symbol_id = SymbolOf(row.node)

\* The control flow rows are those of the nodes of their types, each with its depth.
Deep ==
  /\ \A row \in cfg_nodes :
       /\ row.node \in 1 .. analysed /\ source[row.node].type \in Controls
       /\ row.node_type = classify_cfg_node[source[row.node].type]
       /\ row.depth = DepthOf(row.node)
  /\ \A n \in 1 .. analysed : source[n].type \in Controls => \E row \in cfg_nodes : row.node = n

Inv == Tree /\ analysed \in 0 .. Len(source) /\ Listed(symbols, analysed) /\ Tied /\ Deep

LEMMA Initially == Init => Inv
<1> SUFFICES ASSUME Init PROVE Inv OBVIOUS
<1>1. source \in Seq(Node) /\ Len(source) = 0 /\ analysed = 0 BY DEF Init
<1>2. symbols \in Seq(SymbolType) /\ Len(symbols) = 0 BY DEF Init
<1>3. Tree BY <1>1 DEF Tree
<1>4. Listed(symbols, analysed) BY <1>2 DEF Listed
<1>5. Tied BY DEF Init, Tied
<1>6. Deep
  <2>1. cfg_nodes = {} BY DEF Init
  <2>2. \A n \in 1 .. analysed : FALSE BY <1>1
  <2> QED BY <2>1, <2>2 DEF Deep
<1> QED BY <1>1, <1>3, <1>4, <1>5, <1>6 DEF Inv

LEMMA WriteStep ==
  ASSUME Inv, NEW type \in Types, NEW p \in Open, NEW name \in NamesOf(type),
         NEW start \in StartsIn(p, type), NEW down \in Steps(type), Write(type, name, p, start, down)
  PROVE  Inv'
<1> DEFINE l == Len(source)
<1>1. l \in Nat /\ analysed \in 0 .. l BY NodeProps DEF Inv
<1>2. Tree' /\ Len(source') = l + 1 /\ \A n \in 1 .. l : source'[n] = source[n]
  BY WriteKeeps DEF Inv
<1>3. UNCHANGED <<analysed, symbols, calls, cfg_nodes, dfg_edges>> BY DEF Write
<1> HIDE DEF l
<1>4. \A n \in 1 .. analysed : n \in 1 .. l BY <1>1
<1>5. ASSUME NEW n \in 1 .. analysed, NEW m PROVE Within(m, n)' <=> Within(m, n)
  <2>1. ASSUME m \in 1 .. n - 1, NEW j \in m + 1 .. n PROVE source'[j] = source[j]
    <3>1. j \in 1 .. l BY <2>1, <1>1
    <3> QED BY <3>1, <1>2
  <2> QED BY <2>1 DEF Within
<1>6. analysed' \in 0 .. Len(source') BY <1>1, <1>2, <1>3
<1>7. Listed(symbols, analysed)'
  <2>1. Listed(symbols, analysed) BY DEF Inv
  <2>2. ASSUME NEW i \in 1 .. Len(symbols), NEW m, m = symbols[i].id
        PROVE  /\ m \in 1 .. analysed /\ symbols[i].start_byte = source'[m].start /\ source'[m].type \in Definitions
               /\ \A n \in 1 .. analysed : Holds(symbols[i], source'[n].start) <=>
                    Within(m, n)' \/ source'[m].start = source'[n].start
    <3>1. m \in 1 .. analysed /\ source'[m] = source[m] BY <2>1, <2>2, <1>2, <1>4 DEF Listed
    <3>2. /\ symbols[i].start_byte = source[m].start /\ source[m].type \in Definitions
          /\ \A n \in 1 .. analysed : Holds(symbols[i], source[n].start) <=>
               Within(m, n) \/ source[m].start = source[n].start
      BY <2>1, <2>2 DEF Listed
    <3>3. \A n \in 1 .. analysed : (Within(m, n)' <=> Within(m, n)) /\ source'[n] = source[n]
      BY <1>2, <1>4, <1>5
    <3> QED BY <3>1, <3>2, <3>3
  <2>3. symbols' = symbols /\ analysed' = analysed BY <1>3
  <2>4. ASSUME NEW i \in 1 .. Len(symbols'), NEW n \in 1 .. analysed'
        PROVE  (Holds(symbols[i], source[n].start) <=>
                  Within(symbols[i].id, n) \/ source[symbols[i].id].start = source[n].start)'
    <3>1. Holds(symbols[i], source[n].start)' <=> Holds(symbols[i], source'[n].start) BY <2>3 DEF Holds
    <3> QED BY <2>2, <2>3, <3>1
  <2> QED BY <2>1, <2>2, <2>3, <2>4 DEF Listed
<1>8. Tied'
  <2>1. Tied BY DEF Inv
  <2>2. ASSUME NEW n \in 1 .. analysed PROVE SymbolOf(n)' = SymbolOf(n)
    <3>1. source'[n] = source[n] BY <1>2, <1>4
    <3> QED BY <1>3, <3>1 DEF SymbolOf
  <2> QED BY <2>1, <2>2, <1>3 DEF Tied
<1>9. Deep'
  <2>1. Deep BY DEF Inv
  <2>2. ASSUME NEW n \in 1 .. analysed PROVE source'[n] = source[n] /\ DepthOf(n)' = DepthOf(n)
    <3>1. source'[n] = source[n] /\ StartOf(n)' = StartOf(n) BY <1>2, <1>3, <1>4 DEF StartOf
    <3>2. \A m \in 1 .. n - 1 : source'[m] = source[m]
      <4>1. \A m \in 1 .. n - 1 : m \in 1 .. l BY <1>1
      <4> QED BY <4>1, <1>2
    <3>3. \A m : Within(m, n)' <=> Within(m, n) BY <1>5
    <3>4. Level(n)' = Level(n) BY <3>1, <3>2, <3>3 DEF Level
    <3> QED BY <3>1, <3>4 DEF DepthOf
  <2>3. analysed' = analysed /\ cfg_nodes' = cfg_nodes BY <1>3
  <2>4. \A row \in cfg_nodes :
          /\ row.node \in 1 .. analysed /\ source'[row.node].type \in Controls
          /\ row.node_type = classify_cfg_node[source'[row.node].type]
          /\ row.depth = DepthOf(row.node)'
    <3> TAKE row \in cfg_nodes
    <3>1. PICK n : n = row.node OBVIOUS
    <3>2. n \in 1 .. analysed /\ source[n].type \in Controls
          /\ row.node_type = classify_cfg_node[source[n].type] /\ row.depth = DepthOf(n)
      BY <3>1, <2>1 DEF Deep
    <3>3. source'[n] = source[n] /\ DepthOf(n)' = DepthOf(n) BY <3>2, <2>2
    <3> QED BY <3>1, <3>2, <3>3
  <2>5. \A n \in 1 .. analysed : source'[n].type \in Controls => \E row \in cfg_nodes : row.node = n
    BY <2>1, <2>2 DEF Deep
  <2> QED BY <2>3, <2>4, <2>5 DEF Deep
<1> QED BY <1>2, <1>6, <1>7, <1>8, <1>9 DEF Inv

LEMMA AnalyzeFileStep == Inv /\ AnalyzeFile => Inv'
<1> SUFFICES ASSUME Inv, AnalyzeFile PROVE Inv' OBVIOUS
<1> DEFINE k == Len(source)
<1>1. k \in Nat /\ k \in 0 .. Len(source) /\ Tree BY NodeProps DEF Inv
<1>2. source' = source /\ analysed' = k BY DEF AnalyzeFile
<1>3. /\ symbols' \in ExtractSymbols(k) /\ calls' = CallRows(symbols', k)
      /\ cfg_nodes' = CfgRows(symbols', k) /\ dfg_edges' = DfgRows(symbols', k)
  BY DEF AnalyzeFile
<1> HIDE DEF k
<1>4. Tree' BY <1>1, <1>2 DEF Tree, Within, BeginsWith
<1>5. analysed' \in 0 .. Len(source') BY <1>1, <1>2
<1>6. Listed(symbols', k) BY <1>1, <1>3, ExtractedAreListed
<1>7. Listed(symbols, analysed)' BY <1>2, <1>6 DEF Listed, Holds, Within
<1>8. Tied'
  <2>1. \A row \in calls' : row.node \in 1 .. k /\ row.caller_id = IdOf(symbols', EnclosingName(symbols', source[row.node].start))
    BY <1>3 DEF CallRows, Of
  <2>2. \A row \in cfg_nodes' : row.node \in 1 .. k /\ row.symbol_id = IdOf(symbols', EnclosingName(symbols', source[row.node].start))
    BY <1>3 DEF CfgRows, CfgRow, Of
  <2>3. \A row \in dfg_edges' : row.node \in 1 .. k /\ row.symbol_id = IdOf(symbols', EnclosingName(symbols', source[row.node].start))
    BY <1>3 DEF DfgRows, Of
  <2> QED BY <1>2, <2>1, <2>2, <2>3 DEF Tied, SymbolOf
<1>9. Deep'
  <2>1. ASSUME NEW n \in 1 .. k PROVE CfgRow(symbols', n, k).depth = DepthOf(n)'
    <3> DEFINE found == FindEnclosing(symbols', source[n].start)
               start == IF found = <<>> THEN 0 ELSE found[1].start_byte
    <3>1. CfgRow(symbols', n, k).depth = ComputeDepth(n, k, start) BY DEF CfgRow
    <3>2. StartOf(n)' = start BY <1>2 DEF StartOf
    <3> HIDE DEF start
    <3>3. \A m : m \in Ancestors(n, k) <=> Within(m, n) BY <1>1, AncestorsAre
    <3>4. Level(n)' = {m \in Ancestors(n, k) : source[m].start >= start /\ source[m].type \in is_cfg_producing_type}
      <4>1. \A m : Within(m, n)' <=> Within(m, n) BY <1>2 DEF Within
      <4>2. \A m : Within(m, n) => m \in 1 .. n - 1 BY DEF Within
      <4> QED BY <1>2, <3>2, <3>3, <4>1, <4>2 DEF Level
    <3> QED BY <1>2, <3>1, <3>4 DEF DepthOf, ComputeDepth
  <2>2. ASSUME NEW n \in 1 .. k
        PROVE  /\ CfgRow(symbols', n, k).node = n
               /\ CfgRow(symbols', n, k).node_type = classify_cfg_node[source[n].type]
    BY DEF CfgRow
  <2>3. \A row \in cfg_nodes' : \E n \in 1 .. k : row = CfgRow(symbols', n, k) /\ source[n].type \in Controls
    BY <1>3 DEF CfgRows, Of, Controls
  <2>4. \A n \in 1 .. k : source[n].type \in Controls => CfgRow(symbols', n, k) \in cfg_nodes'
    BY <1>3 DEF CfgRows, Of, Controls
  <2>5. \A row \in cfg_nodes' :
          /\ row.node \in 1 .. k /\ source[row.node].type \in Controls
          /\ row.node_type = classify_cfg_node[source[row.node].type]
          /\ row.depth = DepthOf(row.node)'
    <3> TAKE row \in cfg_nodes'
    <3>1. PICK n \in 1 .. k : row = CfgRow(symbols', n, k) /\ source[n].type \in Controls BY <2>3
    <3>2. n = row.node /\ row.depth = DepthOf(n)' BY <3>1, <2>1, <2>2
    <3> QED BY <3>1, <3>2, <2>2
  <2>6. \A n \in 1 .. k : source[n].type \in Controls => \E row \in cfg_nodes' : row.node = n
    BY <2>2, <2>4
  <2> QED BY <1>2, <2>5, <2>6 DEF Deep
<1> QED BY <1>4, <1>5, <1>7, <1>8, <1>9 DEF Inv

LEMMA Preserved == Inv /\ [Next]_vars => Inv'
<1> SUFFICES ASSUME Inv, [Next]_vars PROVE Inv' OBVIOUS
<1>1. ASSUME NEW type \in Types, NEW p \in Open, NEW name \in NamesOf(type),
             NEW start \in StartsIn(p, type), NEW down \in Steps(type), Write(type, name, p, start, down)
      PROVE  Inv'
  BY <1>1, WriteStep
<1>2. CASE AnalyzeFile BY <1>2, AnalyzeFileStep
<1>3. CASE UNCHANGED vars
  <2>1. source' = source /\ analysed' = analysed /\ symbols' = symbols BY <1>3 DEF vars
  <2>2. calls' = calls /\ cfg_nodes' = cfg_nodes /\ dfg_edges' = dfg_edges BY <1>3 DEF vars
  <2>3. Tree' BY <2>1 DEF Inv, Tree, Within, BeginsWith
  <2>4. Listed(symbols, analysed)' BY <2>1 DEF Inv, Listed, Holds, Within
  <2>5. Tied' BY <2>1, <2>2 DEF Inv, Tied, SymbolOf
  <2>6. \A n : DepthOf(n)' = DepthOf(n) BY <2>1 DEF DepthOf, Level, StartOf, Within
  <2>7. Deep' BY <2>1, <2>2, <2>6 DEF Inv, Deep
  <2> QED BY <2>1, <2>3, <2>4, <2>5, <2>7 DEF Inv
<1> QED BY <1>1, <1>2, <1>3 DEF Next

\* The syntax tree is one, the list of the symbols has a symbol for a definition and each spans what
\* is inside of it, and the rows are tied and deep as defined above (analyze_file, whatever the text).
THEOREM Invariant == Spec => []Inv
<1> QED BY Initially, Preserved, PTL DEF Spec

-----------------------------------------------------------------------------
(* What is shown of a symbol is inside *)

\* The symbols around a node, and the one it begins with, are those that span its first byte.
LEMMA EnclosingIs ==
  ASSUME Inv, NEW n \in 1 .. analysed
  PROVE  /\ DOMAIN symbols = 1 .. Len(symbols)
         /\ Enclosing(n) = {i \in 1 .. Len(symbols) : Holds(symbols[i], source[n].start)}
         /\ Enclosing(n) = {i \in 1 .. Len(symbols) :
                              Within(symbols[i].id, n) \/ source[symbols[i].id].start = source[n].start}
<1>1. Tree /\ analysed \in 0 .. Len(source) /\ Listed(symbols, analysed) BY DEF Inv
<1>2. \A m : m \in Ancestors(n, analysed) <=> Within(m, n) BY <1>1, AncestorsAre
<1>3. DOMAIN symbols = 1 .. Len(symbols) BY <1>1, LenProperties DEF Listed
<1>4. Enclosing(n) = {i \in 1 .. Len(symbols) :
                       Within(symbols[i].id, n) \/ source[symbols[i].id].start = source[n].start}
  BY <1>2, <1>3 DEF Enclosing
<1>5. \A i \in 1 .. Len(symbols) : Holds(symbols[i], source[n].start) <=>
        Within(symbols[i].id, n) \/ source[symbols[i].id].start = source[n].start
  BY <1>1 DEF Listed
<1> QED BY <1>3, <1>4, <1>5

\* The first of the symbols around a node is one of them.
LEMMA OwnerIs ==
  ASSUME Inv, NEW n \in 1 .. analysed
  PROVE  IF Enclosing(n) = {} THEN Owner(n) = 0
         ELSE Owner(n) \in Enclosing(n) /\ \A i \in Enclosing(n) : Owner(n) <= i
<1>1. Len(symbols) \in Nat BY LenProperties DEF Inv, Listed
<1>2. Enclosing(n) \in SUBSET Nat BY <1>1, EnclosingIs
<1> HIDE DEF Enclosing
<1> QED BY <1>2, Least DEF Owner

\* A row outside of every symbol is tied to none, and any other to the last of the name of its first.
LEMMA SymbolOfIs ==
  ASSUME Inv, NEW n \in 1 .. analysed
  PROVE  IF Enclosing(n) = {} THEN SymbolOf(n) = NULL
         ELSE \E j \in 1 .. Len(symbols) :
                /\ SymbolOf(n) = symbols[j].id /\ symbols[j].name = symbols[Owner(n)].name
                /\ \A i \in 1 .. Len(symbols) : symbols[i].name = symbols[j].name => i <= j
<1>1. symbols \in Seq(SymbolType) /\ Len(symbols) \in Nat BY LenProperties DEF Inv, Listed
<1>2. Enclosing(n) = {i \in 1 .. Len(symbols) : Holds(symbols[i], source[n].start)} BY EnclosingIs
<1>3. FindEnclosing(symbols, source[n].start) = IF Enclosing(n) = {} THEN <<>> ELSE <<symbols[Min(Enclosing(n))]>>
  BY <1>1, <1>2, FindEnclosingIs
<1>4. EnclosingName(symbols, source[n].start) = IF Enclosing(n) = {} THEN "" ELSE symbols[Owner(n)].name
  <2>1. CASE Enclosing(n) = {} BY <2>1, <1>3 DEF EnclosingName
  <2>2. CASE Enclosing(n) # {}
    <3>1. PICK first : first = symbols[Owner(n)] OBVIOUS
    <3>2. FindEnclosing(symbols, source[n].start) = <<first>> BY <3>1, <2>2, <1>3 DEF Owner
    <3>3. <<first>> # <<>> /\ <<first>>[1] = first OBVIOUS
    <3> QED BY <2>2, <3>1, <3>2, <3>3 DEF EnclosingName
  <2> QED BY <2>1, <2>2
<1> DEFINE J(name) == {j \in 1 .. Len(symbols) : symbols[j].name = name}
<1>5. \A name : IdOf(symbols, name) = IF J(name) = {} THEN NULL ELSE symbols[Max(J(name))].id
  BY <1>1, IdOfIs
<1>6. CASE Enclosing(n) = {}
  <2>1. \A j \in 1 .. Len(symbols) : symbols[j].name \in Names
    <3>1. \A j \in 1 .. Len(symbols) : symbols[j] \in SymbolType BY <1>1, ElementOfSeq
    <3> QED BY <3>1 DEF SymbolType
  <2>2. J("") = {} BY <2>1, ExtractionAssumption
  <2> QED BY <1>4, <1>5, <1>6, <2>2 DEF SymbolOf
<1>7. CASE Enclosing(n) # {}
  <2>1. PICK name : name = symbols[Owner(n)].name OBVIOUS
  <2>2. Owner(n) \in J(name)
    <3>1. Owner(n) \in Enclosing(n) BY <1>7, OwnerIs
    <3> QED BY <3>1, <2>1, <1>2
  <2>3. J(name) \in SUBSET (0 .. Len(symbols)) BY <1>1
  <2>4. Max(J(name)) \in J(name) /\ \A y \in J(name) : y <= Max(J(name))
    <3> HIDE DEF J
    <3> QED BY <2>2, <2>3, <1>1, Greatest
  <2>5. SymbolOf(n) = symbols[Max(J(name))].id
    <3> HIDE DEF J
    <3> QED BY <2>1, <2>2, <1>4, <1>5, <1>7 DEF SymbolOf
  <2> QED BY <1>7, <2>1, <2>4, <2>5
<1> QED BY <1>6, <1>7

LEMMA InvImpliesShownIsInside == Inv => ShownIsInside
<1> SUFFICES ASSUME Inv, NEW row \in calls \cup cfg_nodes \cup dfg_edges
             PROVE  LET n == row.node
                        shown == {i \in DOMAIN symbols :
                                    LET id == FindSymbol(symbols[i].name)
                                    IN row \in GetCallees(id) \cup GetControlFlow(id) \cup GetDataFlow(id)}
                        NamesOfAll(I) == {symbols[i].name : i \in I}
                    IN /\ NamesOfAll(shown) \subseteq NamesOfAll(Enclosing(n))
                       /\ Enclosing(n) # {} =>
                            \/ Owner(n) \in shown
                            \/ \E j \in DOMAIN symbols \ {Owner(n)} : symbols[j].name = symbols[Owner(n)].name
  BY DEF ShownIsInside
<1> DEFINE n == row.node
           Shows(id) == row \in GetCallees(id) \cup GetControlFlow(id) \cup GetDataFlow(id)
           shown == {i \in DOMAIN symbols : Shows(FindSymbol(symbols[i].name))}
           J(name) == {j \in 1 .. Len(symbols) : symbols[j].name = name}
<1>1. n \in 1 .. analysed /\ \A id : Shows(id) <=> id = SymbolOf(n)
  <2>1. Tied BY DEF Inv
  <2>2. n \in 1 .. analysed BY <2>1 DEF Tied
  <2>3. \A id : row \in GetCallees(id) <=> row \in calls /\ id = SymbolOf(n)
    BY <2>1 DEF Tied, GetCallees
  <2>4. \A id : row \in GetControlFlow(id) <=> row \in cfg_nodes /\ id = SymbolOf(n)
    BY <2>1 DEF Tied, GetControlFlow
  <2>5. \A id : row \in GetDataFlow(id) <=> row \in dfg_edges /\ id = SymbolOf(n)
    BY <2>1 DEF Tied, GetDataFlow
  <2> QED BY <2>2, <2>3, <2>4, <2>5
<1>2. /\ DOMAIN symbols = 1 .. Len(symbols) /\ Enclosing(n) \subseteq 1 .. Len(symbols)
      /\ Len(symbols) \in Nat
  BY <1>1, EnclosingIs, LenProperties DEF Inv, Listed
<1>3. \A i \in 1 .. Len(symbols) : symbols[i].id \in 1 .. analysed BY DEF Inv, Listed
<1>4. \A i, j \in 1 .. Len(symbols) : symbols[i].id = symbols[j].id => i = j BY DEF Inv, Listed
<1> HIDE DEF n, Shows
<1>5. ASSUME NEW i \in 1 .. Len(symbols)
      PROVE  \E f \in 1 .. Len(symbols) :
               /\ symbols[f].name = symbols[i].name /\ f <= i
               /\ i \in shown <=> symbols[f].id = SymbolOf(n)
  <2>1. PICK name : name = symbols[i].name OBVIOUS
  <2>2. i \in J(name) /\ J(name) \in SUBSET Nat BY <2>1, <1>2
  <2>3. FindSymbol(name) = symbols[Min(J(name))].id BY <2>2, FindSymbolIs
  <2>4. Min(J(name)) \in J(name) /\ Min(J(name)) <= i
    <3> HIDE DEF J
    <3> QED BY <2>2, Least
  <2>5. i \in shown <=> symbols[Min(J(name))].id = SymbolOf(n) BY <1>1, <1>2, <2>1, <2>3
  <2> QED BY <2>1, <2>4, <2>5
<1> HIDE DEF shown
<1>6. shown \subseteq 1 .. Len(symbols) BY <1>2 DEF shown
<1>7. CASE Enclosing(n) = {}
  <2>1. SymbolOf(n) = 0 BY <1>1, <1>7, SymbolOfIs DEF NULL
  <2>2. analysed \in Nat BY NodeProps DEF Inv
  <2>3. \A f \in 1 .. Len(symbols) : symbols[f].id # SymbolOf(n) BY <1>3, <2>1, <2>2
  <2>4. shown = {} BY <1>5, <1>6, <2>3
  <2> QED BY <1>7, <2>4 DEF shown, Shows, n
<1>8. CASE Enclosing(n) # {}
  <2>1. PICK x \in 1 .. Len(symbols) :
          /\ SymbolOf(n) = symbols[x].id /\ symbols[x].name = symbols[Owner(n)].name
          /\ \A i \in 1 .. Len(symbols) : symbols[i].name = symbols[x].name => i <= x
    BY <1>1, <1>8, SymbolOfIs
  <2>2. Owner(n) \in Enclosing(n) /\ Owner(n) \in 1 .. Len(symbols) BY <1>1, <1>2, <1>8, OwnerIs
  <2>3. \A i \in shown : symbols[i].name = symbols[Owner(n)].name
    <3> TAKE i \in shown
    <3>1. PICK f \in 1 .. Len(symbols) : symbols[f].name = symbols[i].name /\ symbols[f].id = SymbolOf(n)
      BY <1>5, <1>6
    <3>2. f = x BY <3>1, <2>1, <1>4
    <3> QED BY <3>1, <3>2, <2>1
  <2>4. {symbols[i].name : i \in shown} \subseteq {symbols[i].name : i \in Enclosing(n)} BY <2>2, <2>3
  <2>5. ASSUME ~ \E j \in DOMAIN symbols \ {Owner(n)} : symbols[j].name = symbols[Owner(n)].name
        PROVE  Owner(n) \in shown
    <3>1. PICK f \in 1 .. Len(symbols) :
            /\ symbols[f].name = symbols[Owner(n)].name
            /\ Owner(n) \in shown <=> symbols[f].id = SymbolOf(n)
      BY <1>5, <2>2
    <3>2. f = Owner(n) /\ x = Owner(n) BY <1>2, <2>1, <2>5, <3>1
    <3> QED BY <2>1, <3>1, <3>2
  <2> QED BY <2>4, <2>5 DEF shown, Shows, n
<1> QED BY <1>7, <1>8

\* What a query by name shows of a symbol is inside of one of that name, or begins with one, and what
\* is inside of a symbol is shown under the name of the first around it, unless the file defines that
\* name again; whatever the text and whatever the order of the symbols of a line (find_enclosing,
\* sym_name_to_id, find_symbol).
THEOREM ShownInside == Spec => []ShownIsInside
<1> QED BY Invariant, InvImpliesShownIsInside, PTL

-----------------------------------------------------------------------------
(* Depth is nesting *)

\* The symbol of a row is the first around its node.
LEMMA StartOfIs ==
  ASSUME Inv, NEW n \in 1 .. analysed
  PROVE  IF Owner(n) = 0 THEN Enclosing(n) = {} /\ StartOf(n) = 0
         ELSE Owner(n) \in Enclosing(n) /\ StartOf(n) = source[symbols[Owner(n)].id].start
<1>1. symbols \in Seq(SymbolType) /\ Len(symbols) \in Nat BY LenProperties DEF Inv, Listed
<1>2. Enclosing(n) = {i \in 1 .. Len(symbols) : Holds(symbols[i], source[n].start)} BY EnclosingIs
<1>3. FindEnclosing(symbols, source[n].start) = IF Enclosing(n) = {} THEN <<>> ELSE <<symbols[Min(Enclosing(n))]>>
  BY <1>1, <1>2, FindEnclosingIs
<1>4. CASE Enclosing(n) = {} BY <1>3, <1>4, OwnerIs DEF StartOf
<1>5. CASE Enclosing(n) # {}
  <2>1. Owner(n) \in Enclosing(n) BY <1>5, OwnerIs
  <2>2. Owner(n) \in 1 .. Len(symbols) BY <2>1, <1>2
  <2>3. symbols[Owner(n)].start_byte = source[symbols[Owner(n)].id].start BY <2>2 DEF Inv, Listed
  <2>4. PICK first : first = symbols[Owner(n)] OBVIOUS
  <2>5. FindEnclosing(symbols, source[n].start) = <<first>> BY <2>4, <1>5, <1>3 DEF Owner
  <2>6. <<first>> # <<>> /\ <<first>>[1] = first OBVIOUS
  <2>7. StartOf(n) = source[symbols[Owner(n)].id].start BY <2>3, <2>4, <2>5, <2>6 DEF StartOf
  <2> QED BY <2>1, <2>2, <2>7
<1> QED BY <1>4, <1>5

\* Nothing starts where a control flow node starts, and the symbols of its byte are those around it.
LEMMA AroundControl ==
  ASSUME Inv, NEW n \in 1 .. analysed, source[n].type \in Controls
  PROVE  /\ source[n].start = n
         /\ Enclosing(n) = {i \in 1 .. Len(symbols) : Within(symbols[i].id, n)}
         /\ \A i \in 1 .. Len(symbols) :
              LET s == symbols[i].id
              IN s \in Nat /\ source[s].start \in Nat /\ s # n /\ source[s].start <= s /\ (source[s].start <= n => s < n)
<1>1. Tree /\ analysed \in Nat /\ Len(source) \in Nat /\ n \in 1 .. Len(source) BY NodeProps DEF Inv
<1>2. source[n].type \notin Definitions /\ source[n].type \notin {"function_definition", "assignment"}
  BY DEF Controls, is_cfg_producing_type, Definitions
<1>3. source[n].start = n BY <1>1, <1>2, StartProps DEF Definitions
<1>4. ASSUME NEW i \in 1 .. Len(symbols), NEW s, s = symbols[i].id
      PROVE  /\ s \in Nat /\ source[s].start \in Nat /\ s # n /\ source[s].start <= s
             /\ source[s].start <= n => s < n
             /\ source[s].start # n
  <2>1. s \in 1 .. analysed /\ source[s].type \in Definitions BY <1>4 DEF Inv, Listed
  <2>2. s \in 1 .. Len(source) BY <2>1 DEF Inv
  <2>3. s \in Nat /\ s # n BY <2>1, <1>1, <1>2
  <2>4. \/ source[s].start = s
        \/ source[s].start = s - 1 /\ source[s - 1].type \in {"function_definition", "assignment"}
    BY <1>1, <2>2, StartProps
  <2>5. s - 1 = n => source[s - 1].type \notin {"function_definition", "assignment"} BY <1>2
  <2>6. source[s].start \in Nat BY <1>1, <2>2, NodeProps
  <2> QED BY <2>3, <2>4, <2>5, <2>6, <1>1
<1>5. Enclosing(n) = {i \in 1 .. Len(symbols) : Within(symbols[i].id, n)} BY <1>3, <1>4, EnclosingIs
<1> QED BY <1>3, <1>4, <1>5

\* A construct around a control flow node is in the same symbol if it is after the start of that.
LEMMA SameOwner ==
  ASSUME Inv, NEW n \in 1 .. analysed, source[n].type \in Controls,
         NEW m, Within(m, n), source[m].type \in Controls
  PROVE  m \in 1 .. analysed /\ (Owner(m) = Owner(n) <=> source[m].start >= StartOf(n))
<1>1. /\ Tree /\ analysed \in Nat /\ Len(source) \in Nat /\ n \in 1 .. Len(source)
      /\ Len(symbols) \in Nat
  BY NodeProps, LenProperties DEF Inv, Listed
<1>2. m \in 1 .. n - 1 /\ m \in 1 .. analysed BY <1>1 DEF Within
<1>3. /\ source[m].start = m
      /\ \A i \in 1 .. Len(symbols) :
           LET s == symbols[i].id
           IN s \in Nat /\ source[s].start \in Nat /\ source[s].start <= s /\ (source[s].start <= m => s < m)
  BY <1>2, AroundControl
<1>4. /\ Enclosing(n) = {i \in 1 .. Len(symbols) : Within(symbols[i].id, n)}
      /\ Enclosing(m) = {i \in 1 .. Len(symbols) : Within(symbols[i].id, m)}
  BY <1>2, AroundControl
<1>5. Enclosing(m) \subseteq Enclosing(n)
  <2>1. \A o : Within(o, m) => Within(o, n) BY <1>1, Nesting
  <2> QED BY <1>4, <2>1
<1>6. \A i \in 1 .. Len(symbols) : Within(symbols[i].id, n) /\ symbols[i].id < m => i \in Enclosing(m)
  <2>1. \A o : Within(o, n) /\ o < m => Within(o, m) BY <1>1, Nesting
  <2> QED BY <1>4, <2>1
<1>7. ASSUME source[m].start >= StartOf(n) PROVE Owner(m) = Owner(n)
  <2>1. CASE Owner(n) = 0
    <3>1. Enclosing(m) = {} BY <2>1, <1>5, StartOfIs
    <3> QED BY <2>1, <3>1, <1>2, OwnerIs
  <2>2. CASE Owner(n) # 0
    <3>1. PICK e \in 1 .. Len(symbols) :
            e = Owner(n) /\ e \in Enclosing(n) /\ StartOf(n) = source[symbols[e].id].start
      BY <2>2, <1>4, StartOfIs
    <3>2. source[symbols[e].id].start \in Nat /\ source[symbols[e].id].start <= m BY <1>2, <1>3, <1>7, <3>1
    <3>3. symbols[e].id < m BY <1>3, <3>2
    <3>4. e \in Enclosing(m) BY <3>1, <3>3, <1>4, <1>6
    <3>5. Owner(m) \in Enclosing(m) /\ Owner(m) <= e BY <3>4, <1>2, OwnerIs
    <3>6. e <= Owner(m) BY <3>1, <3>5, <1>5, OwnerIs
    <3>7. Owner(m) \in 1 .. Len(symbols) BY <3>5, <1>4
    <3> QED BY <3>1, <3>5, <3>6, <3>7
  <2> QED BY <2>1, <2>2
<1>8. ASSUME Owner(m) = Owner(n) PROVE source[m].start >= StartOf(n)
  <2>1. CASE Owner(n) = 0 BY <2>1, <1>2, <1>3, StartOfIs
  <2>2. CASE Owner(n) # 0
    <3>1. Owner(m) \in Enclosing(m) BY <2>2, <1>2, <1>8, StartOfIs
    <3>2. PICK s : s = symbols[Owner(m)].id OBVIOUS
    <3>3. Within(s, m) /\ source[s].start = StartOf(n) BY <3>1, <3>2, <2>2, <1>4, <1>8, StartOfIs
    <3>4. s \in 1 .. m - 1 BY <3>3 DEF Within
    <3>5. source[s].start \in Nat /\ source[s].start <= s
      <4>1. Owner(m) \in 1 .. Len(symbols) BY <3>1, <1>4
      <4> QED BY <1>3, <3>2, <4>1
    <3> QED BY <3>3, <3>4, <3>5, <1>2, <1>3
  <2> QED BY <2>1, <2>2
<1> QED BY <1>2, <1>7, <1>8

\* The level of a control flow node is the constructs around it in the same symbol.
LEMMA LevelIs ==
  ASSUME Inv, NEW n \in 1 .. analysed, source[n].type \in Controls
  PROVE  /\ \A m : m \in Level(n) <=>
                 Within(m, n) /\ source[m].type \in is_cfg_producing_type /\ Owner(m) = Owner(n)
         /\ Level(n) \subseteq 1 .. analysed
         /\ IsFiniteSet(Level(n)) /\ Cardinality(Level(n)) \in Nat
<1>1. analysed \in Nat BY NodeProps DEF Inv
<1>2. \A m : Within(m, n) => m \in 1 .. n - 1 /\ m \in 1 .. analysed BY <1>1 DEF Within
<1>3. \A m : Within(m, n) /\ source[m].type \in is_cfg_producing_type =>
               (Owner(m) = Owner(n) <=> source[m].start >= StartOf(n))
  BY SameOwner DEF Controls
<1>4. Level(n) \subseteq 1 .. analysed BY <1>2 DEF Level
<1>5. IsFiniteSet(Level(n)) /\ Cardinality(Level(n)) \in Nat
  <2>1. IsFiniteSet(1 .. analysed) BY <1>1, FS_Interval
  <2>2. IsFiniteSet(Level(n)) BY <2>1, <1>4, FS_Subset
  <2> QED BY <2>2, FS_CardinalityType
<1> QED BY <1>2, <1>3, <1>4, <1>5 DEF Level

\* One level more than the construct directly around a node.
LEMMA LevelStep ==
  ASSUME Inv, NEW n \in 1 .. analysed, source[n].type \in Controls,
         NEW o \in Level(n), \A m \in Level(n) : m <= o
  PROVE  Cardinality(Level(n)) = Cardinality(Level(o)) + 1
<1>1. /\ o \in 1 .. analysed /\ Within(o, n) /\ Owner(o) = Owner(n)
      /\ source[o].type \in is_cfg_producing_type /\ source[o].type \in Controls
  BY LevelIs DEF Controls
<1>2. Tree /\ n \in 1 .. Len(source) /\ analysed \in Nat BY NodeProps DEF Inv
<1>3. \A m : m \in Level(o) <=>
           Within(m, o) /\ source[m].type \in is_cfg_producing_type /\ Owner(m) = Owner(o)
  BY <1>1, LevelIs
<1>4. \A m : m \in Level(n) <=>
           Within(m, n) /\ source[m].type \in is_cfg_producing_type /\ Owner(m) = Owner(n)
  BY LevelIs
<1>5. \A m : (Within(m, n) /\ m < o => Within(m, o)) /\ (Within(m, o) => Within(m, n))
  BY <1>1, <1>2, Nesting
<1>6. o \notin Level(o)
  <2>1. o \notin 1 .. o - 1 BY <1>1, <1>2
  <2> QED BY <2>1 DEF Level
<1>7. Level(n) = Level(o) \cup {o}
  <2>1. \A m \in Level(n) : m < o \/ m = o BY <1>1, <1>2, LevelIs
  <2>2. \A m \in Level(n) : m # o => m \in Level(o) BY <2>1, <1>1, <1>3, <1>4, <1>5
  <2>3. \A m \in Level(o) : m \in Level(n) BY <1>1, <1>3, <1>4, <1>5
  <2> QED BY <2>2, <2>3
<1>8. IsFiniteSet(Level(o)) BY <1>1, LevelIs
<1> QED BY <1>6, <1>7, <1>8, FS_AddElement

\* The statement of an else is around it, in the same symbol.
LEMMA ElseIn ==
  ASSUME Inv, NEW n \in 1 .. analysed, source[n].type = "else_clause"
  PROVE  /\ source[n].parent \in Level(n) /\ \A m \in Level(n) : m <= source[n].parent
         /\ source[source[n].parent].type # "else_clause"
<1>1. Tree /\ n \in 1 .. Len(source) /\ analysed \in Nat BY NodeProps DEF Inv
<1>2. PICK p : p = source[n].parent OBVIOUS
<1>3. p # Root /\ source[p].type \in {"if_statement", "for_statement"} /\ Within(p, n)
  BY <1>1, <1>2 DEF Tree
<1>4. p \in 1 .. n - 1 BY <1>3 DEF Within
<1>5. \A m : Within(m, n) => m <= p BY <1>1, <1>2, Parent
<1>6. source[n].type \in Controls BY DEF Controls, is_cfg_producing_type
<1>7. source[p].start >= StartOf(n)
  <2>1. p \in 1 .. analysed /\ source[p].type \in Controls BY <1>1, <1>3, <1>4 DEF Controls, is_cfg_producing_type
  <2>2. source[p].start = p BY <2>1, AroundControl
  <2>3. CASE Owner(n) = 0 BY <2>2, <2>3, <1>4, StartOfIs
  <2>4. CASE Owner(n) # 0
    <3>1. PICK s : s = symbols[Owner(n)].id OBVIOUS
    <3>2. Owner(n) \in Enclosing(n) /\ StartOf(n) = source[s].start BY <2>4, <3>1, StartOfIs
    <3>3. Owner(n) \in 1 .. Len(symbols) /\ Within(s, n) BY <1>6, <3>1, <3>2, AroundControl
    <3>4. source[s].start \in Nat /\ s \in Nat /\ source[s].start <= s BY <1>6, <3>1, <3>3, AroundControl
    <3>5. s <= p BY <1>5, <3>3
    <3> QED BY <2>2, <3>2, <3>4, <3>5, <1>4
  <2> QED BY <2>3, <2>4
<1>8. p \in Level(n) BY <1>3, <1>4, <1>7 DEF Level, is_cfg_producing_type
<1>9. \A m \in Level(n) : m <= p BY <1>5 DEF Level
<1> QED BY <1>2, <1>3, <1>8, <1>9

LEMMA Classified ==
  ASSUME NEW type \in Controls
  PROVE  /\ classify_cfg_node[type] = "else_branch" <=> type = "else_clause"
         /\ classify_cfg_node[type] # "early_return" <=> type \in is_cfg_producing_type
BY DEF Controls, is_cfg_producing_type, classify_cfg_node

LEMMA InvImpliesDepthFollowsNesting == Inv => DepthFollowsNesting
<1> SUFFICES ASSUME Inv, NEW row \in cfg_nodes
             PROVE  LET around == {r \in cfg_nodes :
                                     /\ r.node_type # "early_return"
                                     /\ r.node \in Ancestors(row.node, analysed) /\ Owner(r.node) = Owner(row.node)}
                        outer == CHOOSE r \in around : \A other \in around : other.node <= r.node
                        step == CASE row.node_type = "else_branch" -> 0
                                  [] outer.node_type = "else_branch" -> 2
                                  [] OTHER -> 1
                    IN row.depth = IF around = {} THEN 0 ELSE outer.depth + step
  BY DEF DepthFollowsNesting
<1> DEFINE n == row.node
           around == {r \in cfg_nodes : /\ r.node_type # "early_return"
                                        /\ r.node \in Ancestors(n, analysed) /\ Owner(r.node) = Owner(n)}
           outer == CHOOSE r \in around : \A other \in around : other.node <= r.node
           step == CASE row.node_type = "else_branch" -> 0
                     [] outer.node_type = "else_branch" -> 2
                     [] OTHER -> 1
<1>1. /\ Tree /\ analysed \in 0 .. Len(source) /\ analysed \in Nat /\ n \in 1 .. analysed
      /\ n \in 1 .. Len(source) /\ source[n].type \in Controls
  BY NodeProps DEF Inv, Deep
<1>2. \A r \in cfg_nodes :
        /\ r.node \in 1 .. analysed /\ source[r.node].type \in Controls
        /\ r.node_type = "else_branch" <=> source[r.node].type = "else_clause"
        /\ r.node_type # "early_return" <=> source[r.node].type \in is_cfg_producing_type
        /\ r.depth = DepthOf(r.node)
  BY Classified DEF Inv, Deep
<1>3. \A m : m \in Level(n) <=>
           Within(m, n) /\ source[m].type \in is_cfg_producing_type /\ Owner(m) = Owner(n)
  BY <1>1, LevelIs
<1>4. \A r \in cfg_nodes : r \in around <=> r.node \in Level(n)
  <2> TAKE r \in cfg_nodes
  <2>1. r.node \in Ancestors(n, analysed) <=> Within(r.node, n) BY <1>1, AncestorsAre
  <2> QED BY <1>2, <1>3, <2>1
<1>5. \A m \in Level(n) : \E r \in around : r.node = m
  <2> TAKE m \in Level(n)
  <2>1. m \in 1 .. analysed /\ source[m].type \in Controls BY <1>1, <1>3, LevelIs DEF Controls
  <2>2. PICK r \in cfg_nodes : r.node = m BY <2>1 DEF Inv, Deep
  <2> QED BY <1>4, <2>2
<1>6. around \subseteq cfg_nodes OBVIOUS
<1>7. row.depth = DepthOf(n) /\ Cardinality(Level(n)) \in Nat BY <1>1, <1>2, LevelIs
<1>8. row.node_type = "else_branch" <=> source[n].type = "else_clause" BY <1>2
<1> HIDE DEF n, around
<1>9. CASE around = {}
  <2>1. Level(n) = {} BY <1>5, <1>9
  <2>2. Cardinality(Level(n)) = 0 BY <2>1, FS_EmptySet
  <2>3. row.depth = 0 BY <1>7, <2>2 DEF DepthOf
  <2> QED BY <1>9, <2>3 DEF around, n
<1>10. CASE around # {}
  <2>1. PICK o \in Level(n) : \A m \in Level(n) : m <= o
    <3>1. Level(n) \in SUBSET (0 .. analysed)
      <4>1. Level(n) \subseteq 1 .. analysed BY <1>1, LevelIs
      <4> QED BY <4>1, <1>1
    <3>2. Level(n) # {} BY <1>4, <1>6, <1>10
    <3>3. Max(Level(n)) \in Level(n) /\ \A m \in Level(n) : m <= Max(Level(n))
      BY <3>1, <3>2, <1>1, Greatest
    <3> QED BY <3>3
  <2>2. outer \in around /\ outer.node = o
    <3>1. PICK r \in around : r.node = o BY <1>5
    <3>2. \A other \in around : other.node \in Level(n) BY <1>4, <1>6
    <3>3. \A other \in around : other.node <= r.node BY <3>1, <3>2, <2>1
    <3>4. outer \in around /\ \A other \in around : other.node <= outer.node BY <3>1, <3>3
    <3>5. outer.node \in Level(n) /\ o <= outer.node /\ outer.node <= o BY <3>1, <3>2, <3>4, <2>1
    <3>6. Level(n) \subseteq 1 .. analysed BY <1>1, LevelIs
    <3>7. o \in Nat /\ outer.node \in Nat BY <3>5, <3>6, <1>1
    <3> QED BY <3>4, <3>5, <3>7
  <2> HIDE DEF outer
  <2>3. outer \in cfg_nodes BY <2>2, <1>6
  <2>4. /\ outer.depth = DepthOf(o) /\ source[o].type \in Controls /\ o \in 1 .. analysed
        /\ outer.node_type = "else_branch" <=> source[o].type = "else_clause"
    BY <2>2, <2>3, <1>2
  <2>5. Cardinality(Level(n)) = Cardinality(Level(o)) + 1 BY <1>1, <2>1, LevelStep
  <2>6. Cardinality(Level(o)) \in Nat BY <2>4, LevelIs
  <2>7. source[o].type = "else_clause" => Cardinality(Level(o)) > 0
    <3> SUFFICES ASSUME source[o].type = "else_clause" PROVE Cardinality(Level(o)) > 0 OBVIOUS
    <3>1. Level(o) # {} /\ IsFiniteSet(Level(o)) BY <2>4, ElseIn, LevelIs
    <3>2. Cardinality(Level(o)) # 0 BY <3>1, FS_EmptySet
    <3> QED BY <3>2, <2>6
  <2>8. CASE source[n].type = "else_clause"
    <3>1. PICK p : p = source[n].parent OBVIOUS
    <3>2. p \in Level(n) /\ \A m \in Level(n) : m <= p BY <3>1, <2>8, <1>1, ElseIn
    <3>3. source[p].type # "else_clause" BY <3>1, <2>8, <1>1, ElseIn
    <3>4. Level(n) \subseteq 1 .. analysed BY <1>1, LevelIs
    <3>5. p = o
      <4>1. p <= o /\ o <= p BY <3>2, <2>1
      <4>2. p \in Nat /\ o \in Nat BY <3>2, <3>4, <1>1
      <4> QED BY <4>1, <4>2
    <3>6. outer.depth = Cardinality(Level(o)) BY <3>3, <3>5, <2>4 DEF DepthOf
    <3>7. row.depth = Cardinality(Level(o)) BY <2>8, <1>7, <2>5, <2>6 DEF DepthOf
    <3>8. step = 0 BY <2>8, <1>8, <2>4, <3>3, <3>5
    <3>9. row.depth = outer.depth + step BY <3>6, <3>7, <3>8, <2>6
    <3> QED BY <3>9, <1>10 DEF around, outer, n
  <2>9. CASE source[n].type # "else_clause" /\ source[o].type = "else_clause"
    <3>1. outer.depth = Cardinality(Level(o)) - 1 BY <2>9, <2>4, <2>7 DEF DepthOf
    <3>2. row.depth = Cardinality(Level(o)) + 1 BY <2>9, <1>7, <2>5 DEF DepthOf
    <3>3. step = 2 BY <2>9, <1>8, <2>4
    <3>4. row.depth = outer.depth + step BY <3>1, <3>2, <3>3, <2>6
    <3> QED BY <3>4, <1>10 DEF around, outer, n
  <2>10. CASE source[n].type # "else_clause" /\ source[o].type # "else_clause"
    <3>1. outer.depth = Cardinality(Level(o)) BY <2>10, <2>4 DEF DepthOf
    <3>2. row.depth = Cardinality(Level(o)) + 1 BY <2>10, <1>7, <2>5 DEF DepthOf
    <3>3. step = 1 BY <2>10, <1>8, <2>4
    <3>4. row.depth = outer.depth + step BY <3>1, <3>2, <3>3, <2>6
    <3> QED BY <3>4, <1>10 DEF around, outer, n
  <2> QED BY <2>8, <2>9, <2>10
<1> QED BY <1>9, <1>10

\* The depth of a control flow row counts the constructs of its symbol around it, whatever the text:
\* symbols in constructs of other symbols and chains of elses too (compute_depth).
THEOREM DepthIsNesting == Spec => []DepthFollowsNesting
<1> QED BY Invariant, InvImpliesDepthFollowsNesting, PTL

=============================================================================
