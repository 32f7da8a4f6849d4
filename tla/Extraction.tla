----------------------------- MODULE Extraction -----------------------------
(***************************************************************************)
(* What analyze_file (src/analysis/pipeline.cpp) stores about the text of  *)
(* a file: the symbols, calls, control flow nodes and data flow edges that *)
(* src/analysis/tree_sitter/extractor.cpp finds in its syntax tree, and    *)
(* the symbol each row is tied to.  A row is tied by name and not by       *)
(* place: the extractor gives a call the name of the first symbol that     *)
(* contains its first byte, in the order of the lines, the pipeline looks  *)
(* the name up among the symbols it inserted and takes the last, and a     *)
(* query about the name takes the first.                                   *)
(*                                                                         *)
(* The tree is the sequence of its nodes in the order of the text, each    *)
(* with its parent.  The place of a node in the sequence stands for its    *)
(* first byte, but a function or a declaration may begin with the struct   *)
(* that is its type.  The blocks between a statement and its body are left *)
(* out, as are the texts (signatures, comments, conditions, right hand     *)
(* sides) and the kinds of symbols.  An assignment stands for all that     *)
(* gives data flow and is no return.  The language is one with all four    *)
(* queries of queries.h, and a node is matched by one of its patterns.     *)
(***************************************************************************)
EXTENDS Integers, Sequences, SequencesExt

CONSTANTS
  Names,      \* of symbols
  Callees,    \* names of called functions
  Types,      \* the types of the nodes that occur
  MaxNodes    \* bound: nodes of the tree

Definitions == {"function_definition", "class_definition"}
Root == 0
NULL == 0

\* A symbol or a call without a name is not stored.
ASSUME ExtractionAssumption ==
  /\ "" \notin Names \cup Callees
  /\ Types \subseteq Definitions \cup {"call", "assignment", "return_statement",
                                     "if_statement", "else_clause", "for_statement"}
  /\ MaxNodes \in Nat

VARIABLES
  source,    \* the nodes of the text as it is on disk
  analysed,  \* how many of them the file had when it was analysed
  symbols,   \* rows of the table symbols, in the order of the insertion
  calls,     \* rows of calls: the caller's id, the name of the callee, the node
  cfg_nodes, \* rows of cfg_nodes
  dfg_edges  \* rows of dfg_edges

vars == <<source, analysed, symbols, calls, cfg_nodes, dfg_edges>>

Init ==
  /\ source = <<>> /\ analysed = 0 /\ symbols = <<>>
  /\ calls = {} /\ cfg_nodes = {} /\ dfg_edges = {}

-----------------------------------------------------------------------------
(* The syntax tree. *)

\* The byte after the node n of the first k nodes: after the last node below it.
EndByte(n, k) ==
  1 + Max({m \in n .. k : \A j \in n + 1 .. m : source[j].parent >= n})

Ancestors(n, k) == {m \in 1 .. n - 1 : n < EndByte(m, k)}

\* The nodes that a next node can be in: those that the text has not left.
Open == {Root} \cup {m \in 1 .. Len(source) :
                       EndByte(m, Len(source)) = Len(source) + 1}

\* An else belongs to a statement that has a body and no else yet.
MayHold(p, type) ==
  type = "else_clause" =>
    /\ p # Root
    /\ source[p].type \in {"if_statement", "for_statement"}
    /\ p # Len(source)
    /\ \A m \in p + 1 .. Len(source) : source[m].parent = p => source[m].type # "else_clause"

\* The first byte of a next node in p is that of p, if p begins with it: struct S f(..), struct S x.
StartsIn(p, type) ==
  {Len(source) + 1} \cup
    {start \in {p} : /\ p # Root /\ p = Len(source) /\ type = "class_definition"
                    /\ source[p].type \in {"function_definition", "assignment"}}

\* Only the names of symbols and of callees matter, and only the order of symbols by line.
NamesOf(type) ==
  IF type \in Definitions THEN Names ELSE IF type = "call" THEN Callees ELSE {""}
Steps(type) == IF type \in Definitions THEN {0, 1} ELSE {1}

\* Someone edits the file: a node more, in an open one, on the line of the node before or on the next.
Write(type, name, p, start, down) ==
  /\ Len(source) < MaxNodes
  /\ MayHold(p, type)
  /\ start <= Len(source) => down = 0
  /\ LET line == IF source = <<>> THEN 1 ELSE Last(source).line + down
     IN source' = Append(source, [type |-> type, name |-> name, parent |-> p, start |-> start, line |-> line])
  /\ UNCHANGED <<analysed, symbols, calls, cfg_nodes, dfg_edges>>

-----------------------------------------------------------------------------
(* The extractor, on the first k nodes. *)

Of(types, k) == {n \in 1 .. k : source[n].type \in types}

Symbol(n, k) ==
  [id |-> n, name |-> source[n].name, line |-> source[n].line,
   start_byte |-> source[n].start, end_byte |-> EndByte(n, k)]

\* One of the definitions that start at one byte with one name is taken, whichever is matched first.
Duplicates(m, n) == source[m].start = source[n].start /\ source[m].name = source[n].name
OnceEach(all) ==
  {D \in SUBSET all : /\ \A n \in all : \E m \in D : Duplicates(m, n)
                     /\ \A m, n \in D : Duplicates(m, n) => m = n}

\* The results of extract_symbols: sorted by their first line, those of one line in any order.
ExtractSymbols(k) ==
  UNION {{s \in SetToSeqs({Symbol(n, k) : n \in D}) :
            \A i \in 1 .. Len(s) - 1 : s[i].line <= s[i + 1].line} : D \in OnceEach(Of(Definitions, k))}

HoldsEnd(symbol, byte) == symbol.start_byte <= byte /\ byte <= symbol.end_byte \* mutant: the byte after the symbol is in it

Holds(symbol, byte) == symbol.start_byte <= byte /\ byte < symbol.end_byte

\* The first symbol of the list that contains the byte, <<>> if none does.
FindEnclosing(list, byte) ==
  LET i == SelectInSeq(list, LAMBDA symbol : Holds(symbol, byte))
  IN IF i = 0 THEN <<>> ELSE <<list[i]>>

EnclosingName(list, byte) ==
  LET found == FindEnclosing(list, byte) IN IF found = <<>> THEN "" ELSE found[1].name

is_cfg_producing_type == {"if_statement", "else_clause", "for_statement"}

\* Mutant: every construct around the node counts, also one around the function.
ComputeDepthToRoot(n, k, funcStart) ==
  LET depth == Cardinality({m \in Ancestors(n, k) : source[m].type \in is_cfg_producing_type})
  IN IF source[n].type = "else_clause" /\ depth > 0 THEN depth - 1 ELSE depth

\* The constructs around a node, up to the start of the function. An else is one with its if.
ComputeDepth(n, k, funcStart) ==
  LET around == {m \in Ancestors(n, k) : source[m].start >= funcStart /\ source[m].type \in is_cfg_producing_type}
      depth == Cardinality(around)
  IN IF source[n].type = "else_clause" /\ depth > 0 THEN depth - 1 ELSE depth

classify_cfg_node ==
  [if_statement |-> "if_branch", else_clause |-> "else_branch",
   for_statement |-> "loop", return_statement |-> "early_return"]

-----------------------------------------------------------------------------
(* The rows of the pipeline. *)

\* sym_name_to_id: the id of the last symbol of the name, NULL for a name that no symbol has.
IdOf(list, name) ==
  LET i == SelectLastInSeq(list, LAMBDA symbol : symbol.name = name)
  IN IF i = 0 THEN NULL ELSE list[i].id

CallRows(list, k) ==
  {[caller_id |-> IdOf(list, EnclosingName(list, source[n].start)), callee_id |-> IdOf(list, source[n].name),
    callee_name |-> source[n].name, node |-> n] : n \in Of({"call"}, k)}

CfgRow(list, n, k) ==
  LET found == FindEnclosing(list, source[n].start)
      start == IF found = <<>> THEN 0 ELSE found[1].start_byte
  IN [symbol_id |-> IdOf(list, EnclosingName(list, source[n].start)),
      node_type |-> classify_cfg_node[source[n].type],
      depth |-> ComputeDepth(n, k, start), node |-> n]

CfgRows(list, k) ==
  {CfgRow(list, n, k) : n \in Of(is_cfg_producing_type \cup {"return_statement"}, k)}

\* Only what is in a symbol: data flow is local to a function.
DfgRows(list, k) ==
  {[symbol_id |-> IdOf(list, EnclosingName(list, source[n].start)), node |-> n] :
     n \in {m \in Of({"assignment", "return_statement"}, k) : FindEnclosing(list, source[m].start) # <<>>}}

\* analyze_file: in one transaction the rows of the file are replaced.
AnalyzeFile ==
  LET k == Len(source)
  IN /\ analysed # k
     /\ analysed' = k
     /\ symbols' \in ExtractSymbols(k)
     /\ calls' = CallRows(symbols', k)
     /\ cfg_nodes' = CfgRows(symbols', k)
     /\ dfg_edges' = DfgRows(symbols', k)
     /\ UNCHANGED source

Next ==
  \/ \E type \in Types, p \in Open :
       \E name \in NamesOf(type), start \in StartsIn(p, type), down \in Steps(type) :
         Write(type, name, p, start, down)
  \/ AnalyzeFile

Spec == Init /\ [][Next]_vars

-----------------------------------------------------------------------------
(* The queries about one symbol. *)

\* find_symbol: LIMIT 1, by the index on the names the first that was inserted.
FindSymbol(name) == symbols[SelectInSeq(symbols, LAMBDA symbol : symbol.name = name)].id

GetCallees(id) == {row \in calls : row.caller_id = id}
GetControlFlow(id) == {row \in cfg_nodes : row.symbol_id = id}
GetDataFlow(id) == {row \in dfg_edges : row.symbol_id = id}

-----------------------------------------------------------------------------
(* Properties. *)

\* The symbols around a node, and the one that it begins with.
Enclosing(n) ==
  {i \in DOMAIN symbols : \/ symbols[i].id \in Ancestors(n, analysed)
                         \/ source[symbols[i].id].start = source[n].start}

\* The place among the rows of the first of these, 0 if there is none.
Owner(n) == IF Enclosing(n) = {} THEN 0 ELSE Min(Enclosing(n))

\* get_call_graph, get_control_flow and get_data_flow of a name show only what is inside of a symbol
\* of that name, or begins with one.  What is inside of a symbol is shown under the name of the first
\* around it, unless the file defines that name more than once: then it is tied to the last
\* definition, the query takes the first, and nothing of either is shown.
ShownIsInside ==
  \A row \in calls \cup cfg_nodes \cup dfg_edges :
    LET n == row.node
        shown == {i \in DOMAIN symbols :
                    LET id == FindSymbol(symbols[i].name)
                    IN row \in GetCallees(id) \cup GetControlFlow(id) \cup GetDataFlow(id)}
        NamesOfAll(I) == {symbols[i].name : i \in I}
    IN /\ NamesOfAll(shown) \subseteq NamesOfAll(Enclosing(n))
       /\ Enclosing(n) # {} =>
            Owner(n) \in shown \/ \E j \in DOMAIN symbols \ {Owner(n)} : symbols[j].name = symbols[Owner(n)].name

\* Depth is nesting within the symbol of the row: 0 for what is in no construct of that symbol, and
\* one more than the construct directly around otherwise; but an else is as deep as its statement,
\* and what is in an else is two deeper than the else.
DepthFollowsNesting ==
  \A row \in cfg_nodes :
    LET around == {r \in cfg_nodes :
                     /\ r.node_type # "early_return"
                     /\ r.node \in Ancestors(row.node, analysed) /\ Owner(r.node) = Owner(row.node)}
        outer == CHOOSE r \in around : \A other \in around : other.node <= r.node
        step == CASE row.node_type = "else_branch" -> 0
                  [] outer.node_type = "else_branch" -> 2
                  [] OTHER -> 1
    IN row.depth = IF around = {} THEN 0 ELSE outer.depth + step
=============================================================================
