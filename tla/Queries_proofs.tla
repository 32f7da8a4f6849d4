---------------------------- MODULE Queries_proofs ----------------------------
(***************************************************************************)
(* What holds of Queries for every project, every number of resolutions    *)
(* and starts, and every order in which the server answers: a row that     *)
(* came for the content that is stored is about something that is in it,   *)
(* the answer to a question about a function is there as a whole or not at *)
(* all, and an import has one row.                                         *)
(***************************************************************************)
EXTENDS Queries, TLAPS

Kinds == {"definition", "references", "prepare", "incoming", "import"}

Word == STRING \cup {None}

QuestionType == [kind : Kinds, file : Files, line : Nat, name : Word, current : BOOLEAN]

RowType == [kind : Kinds, file : Files, line : Nat, name : Word, other : Files \cup {None},
            at : Nat, caller : Word, late : BOOLEAN, seen : SUBSET Files]

TypeOK ==
  /\ stored \in Scanned
  /\ rows \subseteq RowType /\ asked \subseteq QuestionType

\* What is asked at a line of a text, or answered there, is about something that is on it.
About(kind, line, name, text) ==
  CASE kind = "definition" -> \E c \in text.calls : c.line = line /\ c.callee = name
    [] kind = "import" -> TRUE
    [] OTHER -> \E s \in text.symbols : s.from = line /\ s.name = name

Asked ==
  \A q \in asked :
    /\ q.current /\ q.file \notin unresolved => About(q.kind, q.line, q.name, stored[q.file])
    /\ q.kind = "import" => q.name = None

Answered ==
  \A r \in rows : ~r.late /\ r.file \notin unresolved => About(r.kind, r.line, r.name, stored[r.file])

\* An answer about a function has every call that the server saw.
Calls(kind) == kind \in {"references", "incoming"}

Leads(c, file, line) ==
  c.to = file /\ \E s \in stored[file].symbols : s.from = line /\ s.name = c.callee

Shows(r, like, g, c) ==
  /\ r.kind = like.kind /\ r.file = like.file /\ r.line = like.line /\ r.name = like.name
  /\ r.other = g /\ r.at = c.line /\ (r.kind = "incoming" => r.caller = c.caller)

AllCalls ==
  \A r \in rows : Calls(r.kind) =>
    \A g \in Files : {g, r.file} \subseteq r.seen =>
      \A c \in stored[g].calls : Leads(c, r.file, r.line) => \E s \in rows : Shows(s, r, g, c)

\* An import of the last resolution is asked about or has one row, and that names the file it is of.
Import(e, file, line) == e.kind = "import" /\ e.file = file /\ e.line = line

OneRow ==
  \A r \in rows : r.kind = "import" /\ ~r.late =>
    /\ \A s \in rows : Import(s, r.file, r.line) /\ ~s.late => s = r
    /\ \A q \in asked : Import(q, r.file, r.line) => ~q.current
    /\ r.file \in r.seen =>
         \E i \in stored[r.file].imports : i.line = r.line /\ r.other \in {i.to, None}

Inv == TypeOK /\ Asked /\ Answered /\ AllCalls /\ OneRow

-----------------------------------------------------------------------------
(* Questions and rows *)

LEMMA TextProps ==
  ASSUME NEW f \in Files, NEW text \in Contents[f] \cup {NoText}
  PROVE  /\ text.symbols \subseteq [name : STRING, kind : STRING, from : Nat, to : Nat]
         /\ text.calls \subseteq [line : Nat, caller : STRING, callee : STRING, to : Files \cup {None}]
         /\ text.imports \subseteq [line : Nat, to : Files]
<1>1. CASE text \in Contents[f] BY <1>1, QueriesAssumption DEF QueriesAssumption
<1>2. CASE text = NoText BY <1>2 DEF NoText
<1> QED BY <1>1, <1>2

LEMMA QuestionsProps ==
  ASSUME NEW f \in Files, NEW text \in Contents[f] \cup {NoText}, NEW q \in Questions(f, text)
  PROVE  /\ q \in QuestionType /\ q.file = f /\ q.current /\ q.kind # "import"
         /\ About(q.kind, q.line, q.name, text)
<1>0. /\ text.symbols \subseteq [name : STRING, kind : STRING, from : Nat, to : Nat]
      /\ text.calls \subseteq [line : Nat, caller : STRING, callee : STRING, to : Files \cup {None}]
  BY TextProps
<1>1. CASE \E c \in text.calls : q = Question("definition", f, c.line, c.callee)
  <2>1. PICK c \in text.calls : q = Question("definition", f, c.line, c.callee) BY <1>1
  <2>2. c.line \in Nat /\ c.callee \in Word BY <1>0 DEF Word
  <2>3. q \in QuestionType /\ q.file = f /\ q.current BY <2>1, <2>2 DEF Question, QuestionType, Kinds
  <2>4. q.kind = "definition" /\ q.line = c.line /\ q.name = c.callee BY <2>1 DEF Question
  <2> QED BY <2>3, <2>4 DEF About
<1>2. CASE \E kind \in {"references", "prepare"}, s \in Functions(text) : q = Question(kind, f, s.from, s.name)
  <2>1. PICK kind \in {"references", "prepare"}, s \in Functions(text) : q = Question(kind, f, s.from, s.name)
    BY <1>2
  <2>2. s \in text.symbols BY DEF Functions
  <2>3. s.from \in Nat /\ s.name \in Word BY <2>2, <1>0 DEF Word
  <2>4. q \in QuestionType /\ q.file = f /\ q.current BY <2>1, <2>3 DEF Question, QuestionType, Kinds
  <2>5. q.kind \in {"references", "prepare"} /\ q.line = s.from /\ q.name = s.name BY <2>1 DEF Question
  <2> QED BY <2>2, <2>4, <2>5 DEF About
<1>3. \/ \E c \in text.calls : q = Question("definition", f, c.line, c.callee)
      \/ \E kind \in {"references", "prepare"}, s \in Functions(text) : q = Question(kind, f, s.from, s.name)
  BY DEF Questions
<1> QED BY <1>1, <1>2, <1>3

LEMMA ImportQuestionsProps ==
  ASSUME NEW f \in Files, NEW disk \in Contents[f], NEW q \in ImportQuestions(f, disk)
  PROVE  /\ q \in QuestionType /\ q.file = f /\ q.current /\ q.kind = "import" /\ q.name = None
         /\ \E i \in disk.imports : i.line = q.line
<1>1. PICK i \in disk.imports : q = Question("import", f, i.line, None) BY DEF ImportQuestions
<1>2. i.line \in Nat /\ None \in Word BY TextProps DEF Word
<1>3. q \in QuestionType BY <1>1, <1>2 DEF Question, QuestionType, Kinds
<1>4. q.file = f /\ q.current /\ q.kind = "import" /\ q.name = None /\ q.line = i.line
  BY <1>1 DEF Question
<1> QED BY <1>3, <1>4

LEMMA RowProps ==
  ASSUME NEW q \in QuestionType, NEW other \in Files \cup {None}, NEW at \in Nat,
         NEW caller \in Word, NEW seen \in SUBSET Files
  PROVE  LET r == Row(q, other, at, caller, seen)
         IN  /\ r \in RowType
             /\ r.kind = q.kind /\ r.file = q.file /\ r.line = q.line /\ r.name = q.name
             /\ r.other = other /\ r.at = at /\ r.caller = caller /\ r.late = ~q.current
             /\ r.seen = IF q.current THEN seen ELSE {}
<1>1. Row(q, other, at, caller, seen) \in RowType BY DEF Row, RowType, QuestionType
<1> QED BY <1>1 DEF Row

\* A question is its kind, its place and whether it is of the last resolution: two current ones
\* about an import of one line are one.
LEMMA OneQuestion ==
  ASSUME NEW p \in QuestionType, NEW q \in QuestionType,
         p.kind = q.kind, p.file = q.file, p.line = q.line, p.name = q.name, p.current, q.current
  PROVE  p = q
BY DEF QuestionType

-----------------------------------------------------------------------------
(* A new content, a new resolution *)

\* A row of the server, once only the texts of S are those of before.
Aged(r, S) == [r EXCEPT !.seen = @ \cap S]

LEMMA AgedProps ==
  ASSUME NEW r \in RowType, NEW S \in SUBSET Files
  PROVE  LET o == Aged(r, S)
         IN  /\ o \in RowType
             /\ o.kind = r.kind /\ o.file = r.file /\ o.line = r.line /\ o.name = r.name
             /\ o.other = r.other /\ o.at = r.at /\ o.caller = r.caller /\ o.late = r.late
             /\ o.seen = r.seen \cap S
<1>1. Aged(r, S) \in RowType BY DEF Aged, RowType
<1> QED BY <1>1 DEF Aged, RowType

LEMMA AgedAll ==
  ASSUME NEW r \in RowType
  PROVE  Aged(r, Files) = r
<1>1. r.seen \cap Files = r.seen BY DEF RowType
<1>2. r = [r EXCEPT !.seen = r.seen] BY DEF RowType
<1> QED BY <1>1, <1>2 DEF Aged

\* The texts of S stay, the files of D are resolved, which gives the rows Added.
LEMMA ContentStep ==
  ASSUME Inv, TypeOK', NEW S \in SUBSET Files, NEW D \in SUBSET Files, NEW Added,
         \A g \in S : stored'[g] = stored[g],
         rows' = {Aged(r, S) : r \in {t \in rows : t.file \notin D}} \cup Added,
         \A g \in Files : g \notin unresolved' => g \in D \/ (g \in S /\ g \notin unresolved),
         \A o \in Added :
           /\ o.kind = "import" /\ o.file \in D
           /\ \A s \in Added : s.file = o.file /\ s.line = o.line => s = o
           /\ \A q \in asked' : Import(q, o.file, o.line) => ~q.current
           /\ o.file \in o.seen =>
                \E i \in stored'[o.file].imports : i.line = o.line /\ o.other \in {i.to, None},
         \A q \in asked' :
           \/ \E p \in asked : /\ p.kind = q.kind /\ p.file = q.file /\ p.line = q.line /\ p.name = q.name
                               /\ q.current => p.current /\ q.file \notin D
           \/ /\ q.file \in D /\ About(q.kind, q.line, q.name, stored'[q.file])
              /\ q.kind = "import" => q.name = None
  PROVE  Inv'
<1> DEFINE Kept == {Aged(r, S) : r \in {t \in rows : t.file \notin D}}
<1>1. TypeOK /\ Asked /\ Answered /\ AllCalls /\ OneRow BY DEF Inv
<1>2. ASSUME NEW o \in Kept
      PROVE  \E r \in rows :
               /\ r.file \notin D /\ o = Aged(r, S) /\ r \in RowType /\ r.file \in Files
               /\ o.kind = r.kind /\ o.file = r.file /\ o.line = r.line /\ o.name = r.name
               /\ o.other = r.other /\ o.at = r.at /\ o.caller = r.caller /\ o.late = r.late
               /\ o.seen = r.seen \cap S
  <2>1. PICK r \in rows : r.file \notin D /\ o = Aged(r, S) OBVIOUS
  <2>2. r \in RowType /\ r.file \in Files BY <1>1 DEF TypeOK, RowType
  <2> QED BY <2>1, <2>2, AgedProps
<1>3. \A r \in rows : r.file \notin D => Aged(r, S) \in Kept OBVIOUS
<1>4. rows' = Kept \cup Added OBVIOUS
<1> HIDE DEF Kept
<1>5. Asked'
  <2> SUFFICES ASSUME NEW q \in asked'
               PROVE  /\ q.current /\ q.file \notin unresolved' => About(q.kind, q.line, q.name, stored'[q.file])
                      /\ q.kind = "import" => q.name = None
    BY DEF Asked
  <2>1. ASSUME NEW p \in asked, p.kind = q.kind, p.file = q.file, p.line = q.line, p.name = q.name,
               q.current => p.current /\ q.file \notin D
        PROVE  /\ q.current /\ q.file \notin unresolved' => About(q.kind, q.line, q.name, stored'[q.file])
               /\ q.kind = "import" => q.name = None
    <3>1. p.file \in Files BY <1>1 DEF TypeOK, QuestionType
    <3>2. /\ p.current /\ p.file \notin unresolved => About(p.kind, p.line, p.name, stored[p.file])
          /\ p.kind = "import" => p.name = None
      BY <1>1 DEF Asked
    <3> QED BY <2>1, <3>1, <3>2
  <2> QED BY <2>1
<1>6. Answered'
  <2> SUFFICES ASSUME NEW o \in rows', ~o.late, o.file \notin unresolved'
               PROVE  About(o.kind, o.line, o.name, stored'[o.file])
    BY DEF Answered
  <2>1. CASE o \in Added BY <2>1 DEF About
  <2>2. CASE o \in Kept
    <3>1. PICK r \in rows : /\ r.file \notin D /\ r.file \in Files /\ o.kind = r.kind /\ o.file = r.file
                            /\ o.line = r.line /\ o.name = r.name /\ o.late = r.late
      BY <2>2, <1>2
    <3>2. r.file \in S /\ r.file \notin unresolved BY <3>1
    <3>3. About(r.kind, r.line, r.name, stored[r.file]) BY <3>1, <3>2, <1>1 DEF Answered
    <3> QED BY <3>1, <3>2, <3>3
  <2> QED BY <2>1, <2>2, <1>4
<1>7. AllCalls'
  <2> SUFFICES ASSUME NEW o \in rows', Calls(o.kind), NEW g \in Files, {g, o.file} \subseteq o.seen,
                      NEW c \in stored'[g].calls, Leads(c, o.file, o.line)'
               PROVE  \E s \in rows' : Shows(s, o, g, c)
    BY DEF AllCalls
  <2>1. o \in Kept BY <1>4 DEF Calls
  <2>2. PICK r \in rows :
          /\ r.file \notin D /\ o.kind = r.kind /\ o.file = r.file /\ o.line = r.line
          /\ o.name = r.name /\ o.seen = r.seen \cap S
    BY <2>1, <1>2
  <2>3. {g, r.file} \subseteq r.seen /\ g \in S /\ r.file \in S BY <2>2
  <2>4. c \in stored[g].calls /\ Leads(c, r.file, r.line) BY <2>2, <2>3 DEF Leads
  <2>5. PICK s \in rows : Shows(s, r, g, c) BY <2>2, <2>3, <2>4, <1>1 DEF AllCalls
  <2>6. s \in RowType /\ s.file \notin D BY <2>2, <2>5, <1>1 DEF TypeOK, Shows
  <2>7. Aged(s, S) \in rows' BY <2>6, <1>3, <1>4
  <2>8. Shows(Aged(s, S), o, g, c) BY <2>2, <2>5, <2>6, AgedProps DEF Shows
  <2> QED BY <2>7, <2>8
<1>8. OneRow'
  <2> SUFFICES ASSUME NEW o \in rows', o.kind = "import", ~o.late
               PROVE  /\ \A s \in rows' : Import(s, o.file, o.line) /\ ~s.late => s = o
                      /\ \A q \in asked' : Import(q, o.file, o.line) => ~q.current
                      /\ o.file \in o.seen =>
                           \E i \in stored'[o.file].imports : i.line = o.line /\ o.other \in {i.to, None}
    BY DEF OneRow
  <2>1. CASE o \in Added
    <3>1. ASSUME NEW s \in rows', Import(s, o.file, o.line), ~s.late PROVE s = o
      <4>1. s.file \in D /\ s.line = o.line BY <2>1, <3>1 DEF Import
      <4>2. s \notin Kept BY <4>1, <1>2
      <4> QED BY <4>1, <4>2, <2>1, <3>1, <1>4 DEF Import
    <3> QED BY <3>1, <2>1
  <2>2. CASE o \in Kept
    <3>1. PICK r \in rows :
            /\ r.file \notin D /\ o = Aged(r, S) /\ o.kind = r.kind /\ o.file = r.file
            /\ o.line = r.line /\ o.other = r.other /\ o.late = r.late /\ o.seen = r.seen \cap S
      BY <2>2, <1>2
    <3>2. /\ \A s \in rows : Import(s, r.file, r.line) /\ ~s.late => s = r
          /\ \A q \in asked : Import(q, r.file, r.line) => ~q.current
          /\ r.file \in r.seen =>
               \E i \in stored[r.file].imports : i.line = r.line /\ r.other \in {i.to, None}
      BY <3>1, <1>1 DEF OneRow
    <3>3. ASSUME NEW t \in rows', Import(t, o.file, o.line), ~t.late PROVE t = o
      <4>1. t \in Kept BY <3>1, <3>3, <1>4 DEF Import
      <4>2. PICK s \in rows : t = Aged(s, S) /\ t.kind = s.kind /\ t.file = s.file /\ t.line = s.line
                              /\ t.late = s.late
        BY <4>1, <1>2
      <4>3. s = r BY <4>2, <3>1, <3>2, <3>3 DEF Import
      <4> QED BY <4>2, <4>3, <3>1
    <3>4. ASSUME NEW q \in asked', Import(q, o.file, o.line), q.current PROVE FALSE
      <4>1. q.file \notin D BY <3>1, <3>4 DEF Import
      <4>2. PICK p \in asked : p.kind = q.kind /\ p.file = q.file /\ p.line = q.line /\ p.current
        BY <4>1, <3>4
      <4> QED BY <4>2, <3>1, <3>2, <3>4 DEF Import
    <3>5. o.file \in o.seen => \E i \in stored'[o.file].imports : i.line = o.line /\ o.other \in {i.to, None}
      BY <3>1, <3>2
    <3> QED BY <3>3, <3>4, <3>5
  <2> QED BY <2>1, <2>2, <1>4
<1> QED BY <1>5, <1>6, <1>7, <1>8 DEF Inv

LEMMA ResolveStep ==
  ASSUME Inv, NEW f \in Files, NEW text, NEW S \in SUBSET Files, NEW R,
         stored' \in Scanned, stored'[f] = text, Files \ {f} \subseteq S,
         \A g \in S : stored'[g] = stored[g],
         R = {Aged(r, S) : r \in rows},
         Resolve(f, text, R)
  PROVE  Inv'
<1>4. text \in Contents[f] \cup {NoText} BY DEF Scanned
<1>b. ASSUME NEW q \in Questions(f, text)
      PROVE  /\ q \in QuestionType /\ q.file = f /\ q.current /\ q.kind # "import"
             /\ About(q.kind, q.line, q.name, text)
  BY <1>4, <1>b, QuestionsProps
<1>1. TypeOK /\ Asked BY DEF Inv
<1>a. PICK disk \in Contents[f] : \E refused \in SUBSET ImportQuestions(f, disk) :
        /\ asked' = {[q EXCEPT !.current = @ /\ q.file # f] : q \in asked}
                      \cup Questions(f, text) \cup (ImportQuestions(f, disk) \ refused)
        /\ rows' = (R \ Stale(R, f))
                     \cup {Unresolved(q, IF disk = text THEN {f} ELSE {}) : q \in refused}
  BY DEF Resolve
<1>2. PICK refused \in SUBSET ImportQuestions(f, disk) :
        /\ asked' = {[q EXCEPT !.current = @ /\ q.file # f] : q \in asked}
                      \cup Questions(f, text) \cup (ImportQuestions(f, disk) \ refused)
        /\ rows' = (R \ Stale(R, f))
                     \cup {Unresolved(q, IF disk = text THEN {f} ELSE {}) : q \in refused}
  BY <1>a
<1>3. unresolved' = unresolved \ {f} BY DEF Resolve
<1> DEFINE seen == IF disk = text THEN {f} ELSE {}
           Added == {Unresolved(q, seen) : q \in refused}
           Past == {[q EXCEPT !.current = @ /\ q.file # f] : q \in asked}
           Posed == ImportQuestions(f, disk) \ refused
<1>5. ASSUME NEW p \in Past
      PROVE  \E q \in asked : /\ p \in QuestionType /\ p.kind = q.kind /\ p.file = q.file
                              /\ p.line = q.line /\ p.name = q.name
                              /\ p.current => q.current /\ q.file # f
  <2>1. PICK q \in asked : p = [q EXCEPT !.current = @ /\ q.file # f] OBVIOUS
  <2>2. q \in QuestionType BY <1>1 DEF TypeOK
  <2>3. (q.current /\ q.file # f) \in BOOLEAN OBVIOUS
  <2>4. /\ p \in QuestionType /\ p.kind = q.kind /\ p.file = q.file
        /\ p.line = q.line /\ p.name = q.name
    BY <2>1, <2>2, <2>3 DEF QuestionType
  <2>5. p.current = (q.current /\ q.file # f) BY <2>1, <2>2 DEF QuestionType
  <2> QED BY <2>4, <2>5
<1>6. ASSUME NEW o \in Added
      PROVE  \E q \in refused :
               /\ q \in QuestionType /\ q.file = f /\ q.current /\ q.kind = "import" /\ q.name = None
               /\ \E i \in disk.imports : i.line = q.line
               /\ o = Unresolved(q, seen) /\ o \in RowType /\ o.kind = "import" /\ o.file = f
               /\ o.line = q.line /\ o.other = None /\ o.seen = seen
  <2>1. PICK q \in refused : o = Unresolved(q, seen) OBVIOUS
  <2>2. /\ q \in QuestionType /\ q.file = f /\ q.current /\ q.kind = "import" /\ q.name = None
        /\ \E i \in disk.imports : i.line = q.line
    BY ImportQuestionsProps
  <2>3. seen \in SUBSET Files /\ None \in Word /\ None \in Files \cup {None} /\ 0 \in Nat BY DEF Word
  <2> HIDE DEF seen, Added
  <2>4. LET r == Row(q, None, 0, None, seen)
        IN  r \in RowType /\ r.kind = "import" /\ r.file = f /\ r.line = q.line /\ r.other = None /\ r.seen = seen
    BY <2>2, <2>3, RowProps
  <2> QED BY <2>1, <2>2, <2>4 DEF Unresolved
<1>7. R \ Stale(R, f) = {Aged(r, S) : r \in {t \in rows : t.file \notin {f}}}
  <2>1. \A r \in rows : Aged(r, S).file = r.file BY <1>1, AgedProps DEF TypeOK
  <2> QED BY <2>1 DEF Stale
<1>8. /\ rows' = {Aged(r, S) : r \in {t \in rows : t.file \notin {f}}} \cup Added
      /\ asked' = Past \cup Questions(f, text) \cup Posed
  BY <1>2, <1>7
<1> HIDE DEF Added, Past, seen
<1>9. TypeOK'
  <2>1. \A r \in rows : Aged(r, S) \in RowType BY <1>1, AgedProps DEF TypeOK
  <2>2. Added \subseteq RowType BY <1>6
  <2>3. asked' \subseteq QuestionType
    <3>1. Questions(f, text) \subseteq QuestionType BY <1>b
    <3>2. Posed \subseteq QuestionType BY ImportQuestionsProps
    <3> QED BY <3>1, <3>2, <1>5, <1>8
  <2> QED BY <2>1, <2>2, <2>3, <1>8 DEF TypeOK
<1>10. ASSUME NEW o \in Added
       PROVE  /\ o.kind = "import" /\ o.file \in {f}
              /\ \A s \in Added : s.file = o.file /\ s.line = o.line => s = o
              /\ \A q \in asked' : Import(q, o.file, o.line) => ~q.current
              /\ o.file \in o.seen =>
                   \E i \in stored'[o.file].imports : i.line = o.line /\ o.other \in {i.to, None}
  <2>1. PICK q \in refused :
          /\ q \in QuestionType /\ q.file = f /\ q.current /\ q.kind = "import" /\ q.name = None
          /\ \E i \in disk.imports : i.line = q.line
          /\ o = Unresolved(q, seen) /\ o.kind = "import" /\ o.file = f
          /\ o.line = q.line /\ o.other = None /\ o.seen = seen
    BY <1>6
  <2>2. ASSUME NEW s \in Added, s.line = o.line PROVE s = o
    <3>1. PICK p \in refused :
            /\ p \in QuestionType /\ p.file = f /\ p.current /\ p.kind = "import" /\ p.name = None
            /\ s = Unresolved(p, seen) /\ s.line = p.line
      BY <1>6
    <3>2. p = q BY <2>1, <2>2, <3>1, OneQuestion
    <3> QED BY <2>1, <3>1, <3>2
  <2>3. ASSUME NEW p \in asked', Import(p, o.file, o.line), p.current PROVE FALSE
    <3>1. CASE p \in Past BY <3>1, <2>1, <2>3, <1>5 DEF Import
    <3>2. CASE p \in Questions(f, text) BY <3>2, <2>3, <1>b DEF Import
    <3>3. CASE p \in Posed
      <4>0. p \in ImportQuestions(f, disk) BY <3>3
      <4>1. p \in QuestionType /\ p.file = f /\ p.current /\ p.kind = "import" /\ p.name = None
        BY <4>0, ImportQuestionsProps
      <4>2. p = q BY <4>1, <2>1, <2>3, OneQuestion DEF Import
      <4> QED BY <4>2, <3>3
    <3> QED BY <3>1, <3>2, <3>3, <1>8
  <2>4. o.file \in o.seen => \E i \in stored'[o.file].imports : i.line = o.line /\ o.other \in {i.to, None}
    <3>1. o.file \in o.seen => disk = text BY <2>1 DEF seen
    <3> QED BY <3>1, <2>1
  <2> QED BY <2>1, <2>2, <2>3, <2>4
<1>11. ASSUME NEW q \in asked'
       PROVE  \/ \E p \in asked : /\ p.kind = q.kind /\ p.file = q.file /\ p.line = q.line /\ p.name = q.name
                                  /\ q.current => p.current /\ q.file \notin {f}
              \/ /\ q.file \in {f} /\ About(q.kind, q.line, q.name, stored'[q.file])
                 /\ q.kind = "import" => q.name = None
  <2>1. CASE q \in Past BY <2>1, <1>5
  <2>2. CASE q \in Questions(f, text)
    <3>1. q.file = f /\ q.kind # "import" /\ About(q.kind, q.line, q.name, text) BY <2>2, <1>b
    <3> QED BY <3>1
  <2>3. CASE q \in Posed
    <3>0. q \in ImportQuestions(f, disk) BY <2>3
    <3>1. q.file = f /\ q.kind = "import" /\ q.name = None BY <3>0, ImportQuestionsProps
    <3> QED BY <3>1 DEF About
  <2> QED BY <2>1, <2>2, <2>3, <1>8
<1>12. \A g \in Files : g \notin unresolved' => g \in {f} \/ (g \in S /\ g \notin unresolved)
  BY <1>3
<1> HIDE DEF Posed
<1> DEFINE D == {f}
<1>13. D \in SUBSET Files OBVIOUS
<1>14. rows' = {Aged(r, S) : r \in {t \in rows : t.file \notin D}} \cup Added BY <1>8
<1>15. \A g \in Files : g \notin unresolved' => g \in D \/ (g \in S /\ g \notin unresolved) BY <1>12
<1>16. \A o \in Added :
         /\ o.kind = "import" /\ o.file \in D
         /\ \A s \in Added : s.file = o.file /\ s.line = o.line => s = o
         /\ \A q \in asked' : Import(q, o.file, o.line) => ~q.current
         /\ o.file \in o.seen =>
              \E i \in stored'[o.file].imports : i.line = o.line /\ o.other \in {i.to, None}
  BY <1>10
<1>17. \A q \in asked' :
         \/ \E p \in asked : /\ p.kind = q.kind /\ p.file = q.file /\ p.line = q.line /\ p.name = q.name
                             /\ q.current => p.current /\ q.file \notin D
         \/ /\ q.file \in D /\ About(q.kind, q.line, q.name, stored'[q.file])
            /\ q.kind = "import" => q.name = None
  BY <1>11
<1> HIDE DEF D
<1> QED BY <1>9, <1>13, <1>14, <1>15, <1>16, <1>17, ContentStep

\* The rows of the server when the content of one file changes, or of none.
LEMMA OutdatedAged ==
  ASSUME TypeOK, NEW f \in Files
  PROVE  /\ Outdated(rows, f) = {Aged(r, Files \ {f}) : r \in rows}
         /\ rows = {Aged(r, Files) : r \in rows}
<1>1. \A r \in rows : [r EXCEPT !.seen = @ \ {f}] = Aged(r, Files \ {f})
  <2> TAKE r \in rows
  <2>1. r.seen \ {f} = r.seen \cap (Files \ {f}) BY DEF TypeOK, RowType
  <2> QED BY <2>1 DEF Aged
<1>2. Outdated(rows, f) = {Aged(r, Files \ {f}) : r \in rows} BY <1>1 DEF Outdated
<1>3. \A r \in rows : Aged(r, Files) = r BY AgedAll DEF TypeOK
<1> QED BY <1>2, <1>3

LEMMA StoredExcept ==
  ASSUME TypeOK, NEW f \in Files, NEW text \in Contents[f], stored' = [stored EXCEPT ![f] = text]
  PROVE  /\ stored' \in Scanned /\ stored'[f] = text
         /\ \A g \in Files \ {f} : stored'[g] = stored[g]
         /\ text = stored[f] => stored' = stored
<1>1. stored \in [Files -> AnyText] /\ text \in AnyText BY DEF TypeOK, Scanned, AnyText
<1>2. stored' \in [Files -> AnyText] /\ stored'[f] = text /\ \A g \in Files \ {f} : stored'[g] = stored[g]
  BY <1>1
<1>3. stored' \in Scanned BY <1>1, <1>2 DEF TypeOK, Scanned
<1>4. text = stored[f] => stored' = stored BY <1>1
<1> QED BY <1>2, <1>3, <1>4

LEMMA ReindexStep ==
  ASSUME Inv, NEW f \in Files, NEW text \in Contents[f], Reindex(f, text)
  PROVE  Inv'
<1>1. TypeOK /\ stored' = [stored EXCEPT ![f] = text] BY DEF Reindex, Inv
<1>2. /\ stored' \in Scanned /\ stored'[f] = text /\ \A g \in Files \ {f} : stored'[g] = stored[g]
      /\ text = stored[f] => stored' = stored
  BY <1>1, StoredExcept
<1>3. CASE text = stored[f]
  <2>1. Resolve(f, text, rows) BY <1>3 DEF Reindex
  <2>2. rows = {Aged(r, Files) : r \in rows} BY <1>1, OutdatedAged
  <2>3. \A g \in Files : stored'[g] = stored[g] BY <1>2, <1>3
  <2>4. Files \in SUBSET Files /\ Files \ {f} \subseteq Files OBVIOUS
  <2> QED BY <2>1, <2>2, <2>3, <2>4, <1>2, ResolveStep
<1>4. CASE text # stored[f]
  <2> DEFINE S == Files \ {f}
  <2>1. Resolve(f, text, Outdated(rows, f)) BY <1>4 DEF Reindex
  <2>2. Outdated(rows, f) = {Aged(r, S) : r \in rows} BY <1>1, OutdatedAged
  <2>3. \A g \in S : stored'[g] = stored[g] BY <1>2
  <2>4. S \in SUBSET Files /\ Files \ {f} \subseteq S OBVIOUS
  <2> HIDE DEF S
  <2> QED BY <2>1, <2>2, <2>3, <2>4, <1>2, ResolveStep
<1> QED BY <1>3, <1>4

LEMMA DrainStep ==
  ASSUME Inv, NEW f \in Files, DrainColdStart(f)
  PROVE  Inv'
<1>1. TypeOK /\ stored' = stored BY DEF DrainColdStart, Inv
<1>2. Resolve(f, stored[f], rows) BY DEF DrainColdStart
<1>3. rows = {Aged(r, Files) : r \in rows} BY <1>1, OutdatedAged
<1>4. stored' \in Scanned /\ \A g \in Files : stored'[g] = stored[g] BY <1>1 DEF TypeOK
<1>5. Files \in SUBSET Files /\ Files \ {f} \subseteq Files OBVIOUS
<1> QED BY <1>1, <1>2, <1>3, <1>4, <1>5, ResolveStep

\* A content whose file is not resolved.
LEMMA UnresolvedStep ==
  ASSUME Inv, NEW S \in SUBSET Files, stored' \in Scanned,
         \A g \in S : stored'[g] = stored[g],
         rows' = {Aged(r, S) : r \in rows},
         unresolved' = unresolved \cup (Files \ S),
         asked' \subseteq asked
  PROVE  Inv'
<1>1. TypeOK BY DEF Inv
<1> DEFINE D == {} Added == {}
<1>2. TypeOK'
  <2>1. \A r \in rows : Aged(r, S) \in RowType BY <1>1, AgedProps DEF TypeOK
  <2> QED BY <2>1, <1>1 DEF TypeOK
<1>3. rows' = {Aged(r, S) : r \in {t \in rows : t.file \notin D}} \cup Added OBVIOUS
<1>4. \A g \in Files : g \notin unresolved' => g \in D \/ (g \in S /\ g \notin unresolved) OBVIOUS
<1>5. \A o \in Added :
        /\ o.kind = "import" /\ o.file \in D
        /\ \A s \in Added : s.file = o.file /\ s.line = o.line => s = o
        /\ \A q \in asked' : Import(q, o.file, o.line) => ~q.current
        /\ o.file \in o.seen =>
             \E i \in stored'[o.file].imports : i.line = o.line /\ o.other \in {i.to, None}
  OBVIOUS
<1>6. \A q \in asked' :
        \/ \E p \in asked : /\ p.kind = q.kind /\ p.file = q.file /\ p.line = q.line /\ p.name = q.name
                            /\ q.current => p.current /\ q.file \notin D
        \/ /\ q.file \in D /\ About(q.kind, q.line, q.name, stored'[q.file])
           /\ q.kind = "import" => q.name = None
  OBVIOUS
<1>7. D \in SUBSET Files OBVIOUS
<1> HIDE DEF D, Added
<1> QED BY <1>2, <1>3, <1>4, <1>5, <1>6, <1>7, ContentStep

LEMMA ReindexOnlyStep ==
  ASSUME Inv, NEW f \in Files, NEW text \in Contents[f], ReindexOnly(f, text)
  PROVE  Inv'
<1> DEFINE S == Files \ {f}
<1>1. /\ TypeOK /\ stored' = [stored EXCEPT ![f] = text] /\ rows' = Outdated(rows, f)
      /\ unresolved' = unresolved \cup {f} /\ asked' = asked
  BY DEF ReindexOnly, Inv
<1>2. stored' \in Scanned /\ \A g \in S : stored'[g] = stored[g] BY <1>1, StoredExcept
<1>3. rows' = {Aged(r, S) : r \in rows} BY <1>1, OutdatedAged
<1>4. unresolved' = unresolved \cup (Files \ S) /\ S \in SUBSET Files BY <1>1
<1> HIDE DEF S
<1> QED BY <1>1, <1>2, <1>3, <1>4, UnresolvedStep

LEMMA DaemonStartsStep ==
  ASSUME Inv, NEW now \in Scanned, DaemonStarts(now)
  PROVE  Inv'
<1> DEFINE S == {g \in Files : now[g] = stored[g]}
<1>1. TypeOK /\ stored' = now /\ asked' = {} BY DEF DaemonStarts, Inv
<1>2. rows' = {Aged(r, S) : r \in rows}
  <2>1. \A r \in rows : [r EXCEPT !.seen = {g \in @ : now[g] = stored[g]}] = Aged(r, S)
    <3> TAKE r \in rows
    <3>1. {g \in r.seen : now[g] = stored[g]} = r.seen \cap S BY <1>1 DEF TypeOK, RowType
    <3> QED BY <3>1 DEF Aged
  <2> QED BY <2>1 DEF DaemonStarts
<1>3. unresolved' = unresolved \cup (Files \ S) BY DEF DaemonStarts
<1>4. S \in SUBSET Files /\ (\A g \in S : stored'[g] = stored[g]) /\ asked' \subseteq asked BY <1>1
<1> HIDE DEF S
<1> QED BY <1>1, <1>2, <1>3, <1>4, UnresolvedStep

-----------------------------------------------------------------------------
(* An answer *)

\* What an answer to the question q may give, if the texts of seen are the stored ones.
Given(q, r, seen) ==
  /\ r \in RowType
  /\ r.kind = q.kind /\ r.file = q.file /\ r.line = q.line /\ r.name = q.name
  /\ r.seen = (IF q.current THEN seen ELSE {}) /\ (r.late <=> ~q.current)

LEMMA GivenProps ==
  ASSUME TypeOK, NEW q \in asked, NEW other \in Files \cup {None}, NEW at \in Nat, NEW caller \in Word,
         NEW seen \in SUBSET Files
  PROVE  LET r == Row(q, other, at, caller, seen)
         IN  Given(q, r, seen) /\ r.other = other /\ r.at = at /\ r.caller = caller
<1>1. q \in QuestionType BY DEF TypeOK
<1>2. LET r == Row(q, other, at, caller, seen)
      IN  /\ r \in RowType
          /\ r.kind = q.kind /\ r.file = q.file /\ r.line = q.line /\ r.name = q.name
          /\ r.other = other /\ r.at = at /\ r.caller = caller /\ r.late = ~q.current
          /\ r.seen = IF q.current THEN seen ELSE {}
  BY <1>1, RowProps
<1> QED BY <1>2 DEF Given

\* The server sees texts that the files may have.
LEMMA ViewProps ==
  ASSUME NEW view \in OnDisk, NEW f \in Files
  PROVE  view[f] \in Contents[f] \cup {NoText} /\ Seen(view) \in SUBSET Files
         /\ (f \in Seen(view) => view[f] = stored[f])
BY DEF OnDisk, Scanned, Seen

\* The calls that the server saw are those of the text that it was asked about, if it saw that.
LEMMA SitesProps ==
  ASSUME TypeOK, NEW q \in asked, NEW view \in OnDisk
  PROVE  /\ \A site \in Sites(q, view) : site[1] \in Files /\ site[2].line \in Nat /\ site[2].caller \in Word
         /\ \A g \in Files : \A c \in stored[g].calls :
              {g, q.file} \subseteq Seen(view) /\ Leads(c, q.file, q.line) => <<g, c>> \in Sites(q, view)
<1>1. ASSUME NEW site \in Sites(q, view)
      PROVE  site[1] \in Files /\ site[2].line \in Nat /\ site[2].caller \in Word
  <2>0. PICK g \in Files : \E c \in view[g].calls : site = <<g, c>> BY DEF Sites
  <2>1. PICK c \in view[g].calls : site = <<g, c>> BY <2>0
  <2>2. view[g] \in Contents[g] \cup {NoText} BY ViewProps
  <2>3. c.line \in Nat /\ c.caller \in STRING BY <2>2, TextProps
  <2> QED BY <2>1, <2>3 DEF Word
<1>2. ASSUME NEW g \in Files, NEW c \in stored[g].calls, {g, q.file} \subseteq Seen(view),
             Leads(c, q.file, q.line)
      PROVE  <<g, c>> \in Sites(q, view)
  <2>1. q.file \in Files BY DEF TypeOK, QuestionType
  <2>2. view[g] = stored[g] /\ view[q.file] = stored[q.file] BY <1>2, <2>1, ViewProps
  <2>3. /\ c \in view[g].calls /\ c.to = q.file
        /\ \E s \in view[q.file].symbols : s.from = q.line /\ s.name = c.callee
    BY <1>2, <2>2 DEF Leads
  <2> QED BY <2>3 DEF Sites
<1> QED BY <1>1, <1>2

\* What all answers have in common: they add rows, and close the question or carry it on.
LEMMA CommonStep ==
  ASSUME Inv, NEW q \in asked, UNCHANGED <<stored, unresolved>>, NEW seen \in SUBSET Files,
         rows \subseteq rows', \A r \in rows' \ rows : Given(q, r, seen),
         asked' \subseteq (asked \ {q}) \cup {[q EXCEPT !.kind = "incoming"]},
         asked' \subseteq asked \/ q.kind = "prepare",
         \A r \in rows' \ rows : Calls(r.kind) =>
           \A g \in Files : \A c \in stored[g].calls :
             {g, q.file} \subseteq seen /\ Leads(c, q.file, q.line) => \E s \in rows' : Shows(s, r, g, c),
         \A r \in rows' \ rows : q.kind = "import" =>
           /\ rows' \ rows \subseteq {r}
           /\ q.file \in seen => \E i \in stored[q.file].imports : i.line = q.line /\ r.other \in {i.to, None}
  PROVE  Inv'
<1>1. TypeOK /\ Asked /\ Answered /\ AllCalls /\ OneRow BY DEF Inv
<1>2. stored' = stored /\ unresolved' = unresolved OBVIOUS
<1>3. q \in QuestionType BY <1>1 DEF TypeOK
<1>4. TypeOK'
  <2>1. [q EXCEPT !.kind = "incoming"] \in QuestionType BY <1>3 DEF QuestionType, Kinds
  <2>2. rows' \subseteq RowType /\ asked' \subseteq QuestionType
    BY <2>1, <1>1 DEF TypeOK, Given
  <2> QED BY <2>2, <1>1, <1>2 DEF TypeOK
<1>5. Asked'
  <2> SUFFICES ASSUME NEW p \in asked'
               PROVE  /\ p.current /\ p.file \notin unresolved => About(p.kind, p.line, p.name, stored[p.file])
                      /\ p.kind = "import" => p.name = None
    BY <1>2 DEF Asked
  <2>1. CASE p \in asked BY <2>1, <1>1 DEF Asked
  <2>2. CASE p \notin asked
    <3>1. p = [q EXCEPT !.kind = "incoming"] /\ q.kind = "prepare" BY <2>2
    <3>2. /\ p.kind = "incoming" /\ p.file = q.file /\ p.line = q.line /\ p.name = q.name
          /\ p.current = q.current
      BY <3>1, <1>3 DEF QuestionType
    <3>3. q.current /\ q.file \notin unresolved => About(q.kind, q.line, q.name, stored[q.file])
      BY <1>1 DEF Asked
    <3> QED BY <3>1, <3>2, <3>3 DEF About
  <2> QED BY <2>1, <2>2
<1>6. Answered'
  <2> SUFFICES ASSUME NEW r \in rows', ~r.late, r.file \notin unresolved
               PROVE  About(r.kind, r.line, r.name, stored[r.file])
    BY <1>2 DEF Answered
  <2>1. CASE r \in rows BY <2>1, <1>1 DEF Answered
  <2>2. CASE r \notin rows
    <3>1. q.current /\ r.kind = q.kind /\ r.file = q.file /\ r.line = q.line /\ r.name = q.name
      BY <2>2 DEF Given
    <3>2. About(q.kind, q.line, q.name, stored[q.file]) BY <3>1, <1>1 DEF Asked
    <3> QED BY <3>1, <3>2
  <2> QED BY <2>1, <2>2
<1>7. AllCalls'
  <2> SUFFICES ASSUME NEW r \in rows', Calls(r.kind), NEW g \in Files, {g, r.file} \subseteq r.seen,
                      NEW c \in stored[g].calls, Leads(c, r.file, r.line)
               PROVE  \E s \in rows' : Shows(s, r, g, c)
    BY <1>2 DEF AllCalls, Leads
  <2>1. CASE r \in rows
    <3>1. \E s \in rows : Shows(s, r, g, c) BY <2>1, <1>1 DEF AllCalls
    <3> QED BY <3>1
  <2>2. CASE r \notin rows
    <3>1. r.file = q.file /\ r.line = q.line /\ r.seen \subseteq seen BY <2>2 DEF Given
    <3> QED BY <3>1, <2>2
  <2> QED BY <2>1, <2>2
<1>8. OneRow'
  <2> SUFFICES ASSUME NEW r \in rows', r.kind = "import", ~r.late
               PROVE  /\ \A s \in rows' : Import(s, r.file, r.line) /\ ~s.late => s = r
                      /\ \A p \in asked' : Import(p, r.file, r.line) => ~p.current
                      /\ r.file \in r.seen =>
                           \E i \in stored[r.file].imports : i.line = r.line /\ r.other \in {i.to, None}
    BY <1>2 DEF OneRow
  <2>0. \A p \in asked' : p \in asked \ {q} \/ p.kind = "incoming" BY <1>3 DEF QuestionType
  <2>a. \A s \in rows' \ rows : s.kind = "import" /\ ~s.late =>
          q.kind = "import" /\ q.current /\ Import(q, s.file, s.line)
    BY DEF Given, Import
  <2>1. CASE r \in rows
    <3>1. /\ \A s \in rows : Import(s, r.file, r.line) /\ ~s.late => s = r
          /\ \A p \in asked : Import(p, r.file, r.line) => ~p.current
          /\ r.file \in r.seen =>
               \E i \in stored[r.file].imports : i.line = r.line /\ r.other \in {i.to, None}
      BY <2>1, <1>1 DEF OneRow
    <3>2. ASSUME NEW s \in rows' \ rows, Import(s, r.file, r.line), ~s.late PROVE FALSE
      <4>1. q.current /\ Import(q, r.file, r.line) BY <3>2, <2>a DEF Import
      <4> QED BY <4>1, <3>1
    <3>3. \A p \in asked' : Import(p, r.file, r.line) => ~p.current BY <2>0, <3>1 DEF Import
    <3> QED BY <3>1, <3>2, <3>3
  <2>2. CASE r \notin rows
    <3>1. /\ q.kind = "import" /\ q.current /\ Import(q, r.file, r.line) /\ r.file = q.file
          /\ r.line = q.line /\ r.seen = seen
      BY <2>2, <2>a DEF Given
    <3>2. ASSUME NEW s \in rows', Import(s, r.file, r.line), ~s.late PROVE s = r
      <4>1. CASE s \in rows
        <5>1. s.kind = "import" /\ s.file = r.file /\ s.line = r.line BY <3>2 DEF Import
        <5>2. Import(q, s.file, s.line) => ~q.current BY <4>1, <5>1, <3>2, <1>1 DEF OneRow
        <5> QED BY <5>1, <5>2, <3>1
      <4>2. CASE s \notin rows BY <4>2, <2>2, <3>1
      <4> QED BY <4>1, <4>2
    <3>3. ASSUME NEW p \in asked', Import(p, r.file, r.line), p.current PROVE FALSE
      <4>1. p \in asked /\ p # q BY <3>3, <2>0 DEF Import
      <4>2. p \in QuestionType /\ p.name = None /\ q.name = None
        BY <4>1, <3>1, <3>3, <1>1 DEF TypeOK, Asked, Import
      <4>3. p.kind = q.kind /\ p.file = q.file /\ p.line = q.line BY <3>1, <3>3 DEF Import
      <4>4. p = q BY <4>2, <4>3, <3>1, <3>3, <1>3, OneQuestion
      <4> QED BY <4>1, <4>4
    <3>4. r.file \in r.seen => \E i \in stored[r.file].imports : i.line = r.line /\ r.other \in {i.to, None}
      BY <2>2, <3>1
    <3> QED BY <3>2, <3>3, <3>4
  <2> QED BY <2>1, <2>2
<1> QED BY <1>4, <1>5, <1>6, <1>7, <1>8 DEF Inv

LEMMA AnswerStep ==
  ASSUME Inv, NEW q \in asked, NEW view \in OnDisk, Answer(q, view)
  PROVE  Inv'
<1> DEFINE seen == Seen(view)
<1>1. TypeOK BY DEF Inv
<1>2. UNCHANGED <<stored, unresolved>> BY DEF Answer
<1>3. q.file \in Files BY <1>1 DEF TypeOK, QuestionType
<1>4. seen \in SUBSET Files BY DEF Seen
<1>5. None \in Word /\ None \in Files \cup {None} /\ 0 \in Nat BY DEF Word
<1>6. CASE AnswerDefinition(q, view)
  <2>1. PICK where \in Definitions(q, view) : rows' = rows \cup {Row(q, where[1], where[2], None, {})}
    BY <1>6 DEF AnswerDefinition
  <2>2. where[1] \in Files \cup {None} /\ where[2] \in Nat
    <3>0. PICK c \in view[q.file].calls : c.to # None /\ \E s \in view[c.to].symbols : where = <<c.to, s.from>>
      BY DEF Definitions
    <3>1. PICK s \in view[c.to].symbols : c.to # None /\ where = <<c.to, s.from>> BY <3>0
    <3>2. view[q.file] \in Contents[q.file] \cup {NoText} BY <1>3, ViewProps
    <3>3. c.to \in Files BY <1>3, <3>1, <3>2, TextProps
    <3>4. view[c.to] \in Contents[c.to] \cup {NoText} BY <3>3, ViewProps
    <3>5. s.from \in Nat BY <3>3, <3>4, TextProps
    <3> QED BY <3>1, <3>3, <3>5
  <2> DEFINE none == {}
             n == Row(q, where[1], where[2], None, none)
  <2>3. none \in SUBSET Files OBVIOUS
  <2>4. Given(q, n, none) BY <2>2, <2>3, <1>1, <1>5, GivenProps
  <2>5. asked' = asked \ {q} /\ q.kind = "definition" BY <1>6 DEF AnswerDefinition
  <2>6. rows' = rows \cup {n} BY <2>1
  <2> HIDE DEF n, none
  <2>7. \A r \in rows' \ rows : Given(q, r, none) /\ r.kind = "definition" BY <2>4, <2>5, <2>6 DEF Given
  <2> QED BY <2>3, <2>5, <2>6, <2>7, <1>2, CommonStep DEF Calls
<1>7. CASE AnswerReferences(q, view)
  <2>1. /\ rows' = rows \cup {Row(q, site[1], site[2].line, None, seen) : site \in Sites(q, view)}
        /\ asked' = asked \ {q} /\ q.kind = "references"
    BY <1>7 DEF AnswerReferences
  <2>2. /\ \A site \in Sites(q, view) : site[1] \in Files /\ site[2].line \in Nat /\ site[2].caller \in Word
        /\ \A g \in Files : \A c \in stored[g].calls :
             {g, q.file} \subseteq seen /\ Leads(c, q.file, q.line) => <<g, c>> \in Sites(q, view)
    BY <1>1, SitesProps
  <2> HIDE DEF seen
  <2>3. \A site \in Sites(q, view) :
          LET r == Row(q, site[1], site[2].line, None, seen)
          IN  Given(q, r, seen) /\ r.other = site[1] /\ r.at = site[2].line
    BY <2>2, <1>1, <1>4, <1>5, GivenProps
  <2>4. \A r \in rows' \ rows : Given(q, r, seen) /\ r.kind = "references" BY <2>1, <2>3 DEF Given
  <2>5. ASSUME NEW r \in rows' \ rows, NEW g \in Files, NEW c \in stored[g].calls,
               {g, q.file} \subseteq seen, Leads(c, q.file, q.line)
        PROVE  \E s \in rows' : Shows(s, r, g, c)
    <3>1. <<g, c>> \in Sites(q, view) BY <2>5, <2>2
    <3> DEFINE s == Row(q, g, c.line, None, seen)
    <3>2. s \in rows' BY <3>1, <2>1
    <3>3. Given(q, s, seen) /\ s.other = g /\ s.at = c.line BY <3>1, <2>3
    <3> HIDE DEF s
    <3>4. Shows(s, r, g, c) BY <3>3, <2>1, <2>4 DEF Shows, Given
    <3> QED BY <3>2, <3>4
  <2>6. \A r \in rows' \ rows : Calls(r.kind) =>
          \A g \in Files : \A c \in stored[g].calls :
            {g, q.file} \subseteq seen /\ Leads(c, q.file, q.line) => \E s \in rows' : Shows(s, r, g, c)
    BY <2>5
  <2>7. rows \subseteq rows' /\ asked' \subseteq asked /\ q.kind # "import" BY <2>1
  <2>8. /\ asked' \subseteq (asked \ {q}) \cup {[q EXCEPT !.kind = "incoming"]}
        /\ \A r \in rows' \ rows : Given(q, r, seen)
    BY <2>1, <2>4
  <2> QED BY <2>6, <2>7, <2>8, <1>2, <1>4, CommonStep
<1>8. CASE AnswerPrepare(q, view)
  <2>1. /\ rows' = rows /\ asked' = (asked \ {q}) \cup {[q EXCEPT !.kind = "incoming"]}
        /\ q.kind = "prepare"
    BY <1>8 DEF AnswerPrepare
  <2> HIDE DEF seen
  <2> QED BY <2>1, <1>2, <1>4, CommonStep
<1>9. CASE AnswerIncoming(q, view)
  <2>1. /\ rows' = rows \cup {Row(q, site[1], site[2].line, site[2].caller, seen) : site \in Sites(q, view)}
        /\ asked' = asked \ {q} /\ q.kind = "incoming"
    BY <1>9 DEF AnswerIncoming
  <2>2. /\ \A site \in Sites(q, view) : site[1] \in Files /\ site[2].line \in Nat /\ site[2].caller \in Word
        /\ \A g \in Files : \A c \in stored[g].calls :
             {g, q.file} \subseteq seen /\ Leads(c, q.file, q.line) => <<g, c>> \in Sites(q, view)
    BY <1>1, SitesProps
  <2> HIDE DEF seen
  <2>3. \A site \in Sites(q, view) :
          LET r == Row(q, site[1], site[2].line, site[2].caller, seen)
          IN  Given(q, r, seen) /\ r.other = site[1] /\ r.at = site[2].line /\ r.caller = site[2].caller
    BY <2>2, <1>1, <1>4, GivenProps
  <2>4. \A r \in rows' \ rows : Given(q, r, seen) /\ r.kind = "incoming" BY <2>1, <2>3 DEF Given
  <2>5. ASSUME NEW r \in rows' \ rows, NEW g \in Files, NEW c \in stored[g].calls,
               {g, q.file} \subseteq seen, Leads(c, q.file, q.line)
        PROVE  \E s \in rows' : Shows(s, r, g, c)
    <3>1. <<g, c>> \in Sites(q, view) BY <2>5, <2>2
    <3> DEFINE s == Row(q, g, c.line, c.caller, seen)
    <3>2. s \in rows' BY <3>1, <2>1
    <3>3. Given(q, s, seen) /\ s.other = g /\ s.at = c.line /\ s.caller = c.caller BY <3>1, <2>3
    <3> HIDE DEF s
    <3>4. Shows(s, r, g, c) BY <3>3, <2>1, <2>4 DEF Shows, Given
    <3> QED BY <3>2, <3>4
  <2>6. \A r \in rows' \ rows : Calls(r.kind) =>
          \A g \in Files : \A c \in stored[g].calls :
            {g, q.file} \subseteq seen /\ Leads(c, q.file, q.line) => \E s \in rows' : Shows(s, r, g, c)
    BY <2>5
  <2>7. rows \subseteq rows' /\ asked' \subseteq asked /\ q.kind # "import" BY <2>1
  <2>8. /\ asked' \subseteq (asked \ {q}) \cup {[q EXCEPT !.kind = "incoming"]}
        /\ \A r \in rows' \ rows : Given(q, r, seen)
    BY <2>1, <2>4
  <2> QED BY <2>6, <2>7, <2>8, <1>2, <1>4, CommonStep
<1>10. CASE AnswerImport(q, view)
  <2> DEFINE own == {q.file} \cap seen
  <2>1. PICK i \in view[q.file].imports :
          i.line = q.line /\ rows' = rows \cup {Row(q, LinkImport(i.to), 0, None, own)}
    BY <1>10 DEF AnswerImport
  <2>2. asked' = asked \ {q} /\ q.kind = "import" BY <1>10 DEF AnswerImport
  <2>3. view[q.file] \in Contents[q.file] \cup {NoText} BY <1>3, ViewProps
  <2>4. i.to \in Files BY <2>1, <2>3, <1>3, TextProps
  <2>5. LinkImport(i.to) \in {i.to, None} BY DEF LinkImport
  <2>6. LinkImport(i.to) \in Files \cup {None} BY <2>4, <2>5
  <2>7. own \in SUBSET Files BY <1>3
  <2>a. q.file \in own => view[q.file] = stored[q.file] BY <1>3, ViewProps
  <2> HIDE DEF own, seen
  <2> DEFINE n == Row(q, LinkImport(i.to), 0, None, own)
  <2>8. Given(q, n, own) /\ n.other = LinkImport(i.to) BY <2>6, <2>7, <1>1, <1>5, GivenProps
  <2>9. rows' = rows \cup {n} BY <2>1
  <2> HIDE DEF n
  <2>10. \A r \in rows' \ rows : r = n /\ Given(q, r, own) /\ r.kind = "import" BY <2>2, <2>8, <2>9 DEF Given
  <2>11. q.file \in own => \E k \in stored[q.file].imports : k.line = q.line /\ n.other \in {k.to, None}
    BY <2>1, <2>5, <2>8, <2>a
  <2> QED BY <2>2, <2>7, <2>9, <2>10, <2>11, <1>2, CommonStep DEF Calls
<1> QED BY <1>6, <1>7, <1>8, <1>9, <1>10 DEF Answer

LEMMA NoAnswerStep ==
  ASSUME Inv, NEW q \in asked, NoAnswer(q)
  PROVE  Inv'
<1> DEFINE none == {}
<1>1. asked' = asked \ {q} /\ UNCHANGED <<stored, rows, unresolved>> BY DEF NoAnswer
<1>2. none \in SUBSET Files OBVIOUS
<1> HIDE DEF none
<1> QED BY <1>1, <1>2, CommonStep

-----------------------------------------------------------------------------
(* The queries *)

LEMMA InvInit == Init => Inv
<1> SUFFICES ASSUME Init PROVE Inv OBVIOUS
<1>1. stored \in Scanned /\ rows = {} /\ asked = {} BY DEF Init
<1> QED BY <1>1 DEF Inv, TypeOK, Asked, Answered, AllCalls, OneRow

LEMMA InvNext == Inv /\ [Next]_vars => Inv'
<1> SUFFICES ASSUME Inv, [Next]_vars PROVE Inv' OBVIOUS
<1>1. ASSUME NEW f \in Files, NEW text \in Contents[f], Reindex(f, text) PROVE Inv'
  BY <1>1, ReindexStep
<1>2. ASSUME NEW f \in Files, NEW text \in Contents[f], ReindexOnly(f, text) PROVE Inv'
  BY <1>2, ReindexOnlyStep
<1>3. ASSUME NEW f \in Files, DrainColdStart(f) PROVE Inv' BY <1>3, DrainStep
<1>4. ASSUME NEW now \in Scanned, DaemonStarts(now) PROVE Inv' BY <1>4, DaemonStartsStep
<1>5. ASSUME NEW q \in asked, NoAnswer(q) PROVE Inv' BY <1>5, NoAnswerStep
<1>6. ASSUME NEW q \in asked, NEW view \in OnDisk, Answer(q, view) PROVE Inv' BY <1>6, AnswerStep
<1>7. CASE UNCHANGED vars
  BY <1>7 DEF vars, Inv, TypeOK, Asked, Answered, AllCalls, Leads, OneRow
<1> QED BY <1>1, <1>2, <1>3, <1>4, <1>5, <1>6, <1>7 DEF Next

\* A row that came for the last resolution of a file is about the content that is stored, unless no
\* resolver has seen that content, has every call that the server saw, and is the only one about its
\* import: the resolvers of src/lsp delete the rows of a file, ask again, and what was asked before
\* gives rows that say so, while the scan of a daemon's start leaves rows and marks the file.
THEOREM Invariant == Spec => []Inv
BY InvInit, InvNext, PTL DEF Spec

\* get_call_graph hides a call of a function only behind an answer about another call on its lines,
\* behind one to a question of an earlier resolution, or as long as the file is stored with a content
\* that no resolver has seen: over re-indexings with and without resolvers, starts of the daemon whose
\* scan keeps the rows of the server, and the cold start that asks again.
THEOREM CalleesNotLost == Spec => []CalleesShown
<1>1. Inv => CalleesShown
  <2> SUFFICES ASSUME Inv, NEW x \in SymbolRows, NEW c \in CalleeCalls(x), x.file \notin unresolved
               PROVE  \/ \E e \in Callees(x) : e.name = c.callee
                      \/ \E r \in DefinitionRows(x) :
                           r.late \/ \E k \in stored[x.file].calls \ {c} : r.line = k.line /\ r.name = k.callee
    BY DEF CalleesShown
  <2>1. CASE DefinitionRows(x) = {}
    <3>1. Callees(x) = {[name |-> d.callee, file |-> x.file, line |-> d.line] : d \in CalleeCalls(x)}
      BY <2>1 DEF Callees
    <3>2. [name |-> c.callee, file |-> x.file, line |-> c.line] \in Callees(x) BY <3>1
    <3> QED BY <3>2
  <2>2. CASE DefinitionRows(x) # {}
    <3>1. PICK r \in DefinitionRows(x) : TRUE BY <2>2
    <3>2. r \in rows /\ r.kind = "definition" /\ r.file = x.file BY <3>1 DEF DefinitionRows
    <3>3. CASE r.late BY <3>1, <3>3
    <3>4. CASE ~r.late
      <4>1. PICK k \in stored[x.file].calls : k.line = r.line /\ k.callee = r.name
        BY <3>2, <3>4 DEF Inv, Answered, About
      <4>2. CASE k = c
        <5>1. Callees(x) = {[name |-> s.name, file |-> s.other, line |-> s.at] : s \in DefinitionRows(x)}
          BY <2>2 DEF Callees
        <5>2. [name |-> r.name, file |-> r.other, line |-> r.at] \in Callees(x) BY <3>1, <5>1
        <5> QED BY <4>1, <4>2, <5>2
      <4>3. CASE k # c BY <3>1, <4>1, <4>3
      <4> QED BY <4>2, <4>3
    <3> QED BY <3>3, <3>4
  <2> QED BY <2>1, <2>2
<1> QED BY <1>1, Invariant, PTL

\* A symbol gives a place the name of the one around it.
LEMMA EnclosingSome == ASSUME NEW f, NEW line PROVE \E n : n \in Enclosing(f, line)
BY DEF Enclosing

\* Where there is an answer about a symbol that is not excused, every call to it that the server
\* saw is in one.
LEMMA CallInRows ==
  ASSUME Inv, NEW x \in SymbolRows, NEW g \in Files, NEW c \in stored[g].calls,
         c.callee = x.sym.name, c.to = x.file, NEW kind, Calls(kind),
         NEW r \in CallerRows(kind, x), ~Excused(r, x, g)
  PROVE  \E s \in CallerRows(kind, x) : s.other = g /\ s.at = c.line /\ (kind = "incoming" => s.caller = c.caller)
<1>1. /\ r \in rows /\ r.kind = kind /\ r.file = x.file /\ r.name = x.sym.name
      /\ ~r.late /\ r.file \notin unresolved /\ {g, r.file} \subseteq r.seen
  BY DEF CallerRows, Excused
<1>2. \E s \in stored[r.file].symbols : s.from = r.line /\ s.name = r.name
  BY <1>1 DEF Inv, Answered, About, Calls
<1>3. Leads(c, r.file, r.line) BY <1>1, <1>2 DEF Leads
<1>4. PICK s \in rows : Shows(s, r, g, c) BY <1>1, <1>3 DEF Inv, AllCalls
<1>5. s \in CallerRows(kind, x) BY <1>1, <1>4 DEF Shows, CallerRows
<1> QED BY <1>1, <1>4, <1>5 DEF Shows

\* get_call_graph and get_incoming_callers hide a call to a function only behind answers to questions
\* of an earlier resolution, that were given about another text, or as long as the file of the
\* function is stored with a content that no resolver has seen.
THEOREM CallersNotLost == Spec => []CallersShown
<1>1. Inv => CallersShown
  <2> SUFFICES ASSUME Inv, NEW x \in SymbolRows, NEW g \in Files, NEW c \in stored[g].calls,
                      c.callee = x.sym.name, c.to = x.file
               PROVE  /\ \/ \E e \in Callers(x) : e.file = g /\ e.line = c.line
                         \/ \E r \in CallerRows("references", x) : Excused(r, x, g)
                      /\ \/ \E e \in IncomingCallers(x) :
                              (e.file = g /\ e.line = c.line) \/ (e.file = None /\ e.name = c.caller)
                         \/ \E r \in CallerRows("references", x) \cup CallerRows("incoming", x) : Excused(r, x, g)
    BY DEF CallersShown
  <2> DEFINE References == CallerRows("references", x)
             Hierarchy == CallerRows("incoming", x)
             Call == [name |-> c.caller, file |-> g, line |-> c.line]
  <2>1. Call \in ByName(x)
    <3>1. [file |-> g, call |-> c] \in CallerCalls(x) BY DEF CallerCalls
    <3> QED BY <3>1 DEF ByName
  <2>2. ASSUME NEW r \in References, ~Excused(r, x, g)
        PROVE  \E e \in Named(References) : e.file = g /\ e.line = c.line
    <3>1. PICK s \in References : s.other = g /\ s.at = c.line BY <2>2, CallInRows DEF Calls
    <3>2. PICK n : n \in Enclosing(s.other, s.at) BY EnclosingSome
    <3>3. [name |-> n, file |-> s.other, line |-> s.at] \in Named(References) BY <3>2 DEF Named
    <3> QED BY <3>1, <3>3
  <2>3. \/ \E e \in Callers(x) : e.file = g /\ e.line = c.line
        \/ \E r \in References : Excused(r, x, g)
    <3>1. CASE References = {}
      <4>1. Callers(x) = ByName(x) BY <3>1 DEF Callers
      <4> QED BY <4>1, <2>1
    <3>2. CASE References # {}
      <4>1. Callers(x) = Named(References) BY <3>2 DEF Callers
      <4> QED BY <3>2, <4>1, <2>2
    <3> QED BY <3>1, <3>2
  <2>4. \/ \E e \in IncomingCallers(x) : (e.file = g /\ e.line = c.line) \/ (e.file = None /\ e.name = c.caller)
        \/ \E r \in References \cup Hierarchy : Excused(r, x, g)
    <3>1. CASE Hierarchy # {}
      <4>1. IncomingCallers(x) = {[name |-> r.caller, file |-> r.other, line |-> r.at] : r \in Hierarchy}
        BY <3>1 DEF IncomingCallers
      <4>2. PICK r \in Hierarchy : TRUE BY <3>1
      <4>3. CASE Excused(r, x, g) BY <4>2, <4>3
      <4>4. CASE ~Excused(r, x, g)
        <5>1. PICK s \in Hierarchy : s.other = g /\ s.at = c.line BY <4>2, <4>4, CallInRows DEF Calls
        <5>2. [name |-> s.caller, file |-> s.other, line |-> s.at] \in IncomingCallers(x) BY <4>1
        <5> QED BY <5>1, <5>2
      <4> QED BY <4>3, <4>4
    <3>2. CASE Hierarchy = {} /\ References # {}
      <4>1. IncomingCallers(x) = Named(References) BY <3>2 DEF IncomingCallers
      <4> QED BY <3>2, <4>1, <2>2
    <3>3. CASE Hierarchy = {} /\ References = {}
      <4>1. IncomingCallers(x) = {[name |-> e.name, file |-> None, line |-> 0] : e \in ByName(x)}
        BY <3>3 DEF IncomingCallers
      <4>2. [name |-> Call.name, file |-> None, line |-> 0] \in IncomingCallers(x) BY <4>1, <2>1
      <4> QED BY <4>2
    <3> QED BY <3>1, <3>2, <3>3
  <2> QED BY <2>3, <2>4
<1> QED BY <1>1, Invariant, PTL

\* get_dependencies says that a file imports another only if it does, unless the answer was given
\* about another text of it, and lists no import twice, unless one of the two answers a question of
\* an earlier resolution, as the cold start leaves them behind when it asks again.
THEOREM DependenciesAreTrue == Spec => []DependenciesTrue
<1>1. Inv => DependenciesTrue
  <2> SUFFICES ASSUME Inv, NEW r \in rows, r.kind = "import", ~r.late, r.file \in r.seen
               PROVE  /\ \E i \in stored[r.file].imports : i.line = r.line /\ r.other \in {i.to, None}
                      /\ r.other # None => r.file \in ImportedBy(r.other)
                      /\ \A s \in rows : s.kind = "import" /\ s.file = r.file /\ s.line = r.line => s.late \/ s = r
    BY DEF DependenciesTrue
  <2>1. /\ \A s \in rows : Import(s, r.file, r.line) /\ ~s.late => s = r
        /\ \E i \in stored[r.file].imports : i.line = r.line /\ r.other \in {i.to, None}
    BY DEF Inv, OneRow
  <2>2. r.file \in ImportedBy(r.other) BY DEF ImportedBy
  <2> QED BY <2>1, <2>2 DEF Import
<1> QED BY <1>1, Invariant, PTL

=============================================================================
