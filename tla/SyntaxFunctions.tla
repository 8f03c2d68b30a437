-------------------------- MODULE SyntaxFunctions --------------------------
(***************************************************************************)
(* The analysis of one source file by the generic syntax adapter           *)
(* (adapter-tree-sitter): the bounded read of a file that may change       *)
(* meanwhile, the refusal of recovered syntax, the functions with their    *)
(* names, symbols and metrics, the tokens, and the mutations.              *)
(*                                                                         *)
(* The parser is external: a file holds its syntax tree, whose nodes are   *)
(* numbered in the order of the text.  A node is                           *)
(*   [kind, parent, field, named, text, from, to, fault]                   *)
(* where text is a sequence of the segments of a name, from and to are     *)
(* positions, and fault is "none", "error" or "missing".                   *)
(***************************************************************************)
EXTENDS Integers, Sequences, FiniteSets, SequencesExt, FiniteSetsExt

CONSTANTS
    Files,            \* [language, tree, rows, wide, size, test, generated, regular, utf8]
    Tables,           \* the kinds of node of each language, see the operators below
    Kinds,            \* the kinds of node that mean the same in all of them
    Begins(_, _),     \* of two segments: the first one's text begins with the second's
    NameBefore(_, _), \* the order of names
    Limit             \* the smaller of max_source_bytes and the parser's own limit

VARIABLES
    file,             \* what the path leads to; from the read on, what was read
    allow,            \* allow_parse_errors
    phase,            \* "stat", "open", "parse", "functions", "done" or "refused"
    issues,           \* the ParseIssues
    pending,          \* the functions still to record
    walk,             \* the traversal in hand: [of, metric, stack], or Nothing
    measured,         \* its results so far: [complexity, nesting, statements, spans]
    functions,
    output            \* the tokens and the mutations, or Nothing

vars == <<file, allow, phase, issues, pending, walk, measured, functions, output>>
analysis == <<issues, pending, walk, measured, functions, output>>

Nothing == [none |-> TRUE]
Language == Tables[file.language]
CFamily == file.language \in {"c", "cpp", "objective-c"}

----------------------------------------------------------------------------
(* The tree *)

Nodes == DOMAIN file.tree
Kind(n) == file.tree[n].kind
Text(n) == file.tree[n].text
Parent(n) == file.tree[n].parent
Above == LET above[n \in Nodes] == IF Parent(n) = 0 THEN {} ELSE {Parent(n)} \cup above[Parent(n)] IN above
Within(n) == {m \in Nodes : m = n \/ n \in Above[m]}
InOrder(S) == SelectSeq([n \in Nodes |-> n], LAMBDA n : n \in S)
Children(n) == {m \in Nodes : Parent(m) = n}
Named(n) == {m \in Children(n) : file.tree[m].named}
IsLeaf(n) == Children(n) = {}
Fields(n, field) == {m \in Children(n) : file.tree[m].field = field}
HasField(n, field) == Fields(n, field) # {}
Field(n, field) == Min(Fields(n, field))
FirstField(n, fields) ==    \* the node of the first of these fields, or 0
    LET present == {i \in DOMAIN fields : HasField(n, fields[i])}
    IN  IF present = {} THEN 0 ELSE Field(n, fields[Min(present)])
HasAncestor(n, kinds) == \E a \in Above[n] : Kind(a) \in kinds
Covers(n, m) == file.tree[n].from <= file.tree[m].from /\ file.tree[m].to <= file.tree[n].to
Faulty(n) == file.tree[n].fault # "none"
HasError(n) == \E m \in Within(n) : Faulty(m)

Row(position) == Cardinality({b \in file.rows : b < position}) + 1
\* Mutations count characters, spans count bytes.
Column(position) == position - Max({b \in file.rows : b < position} \cup {-1})
Scalars(position) ==
    Column(position) - Cardinality({w \in file.wide : w < position /\ Row(w) = Row(position)})
Span(n) ==
    [start |-> <<Row(file.tree[n].from), Column(file.tree[n].from)>>,
     end |-> <<Row(file.tree[n].to), Column(file.tree[n].to)>>]

IsBoundary(n) == Kind(n) \in Language.boundaries
Nested(root) == {m \in Within(root) \ {root} : IsBoundary(m)}
Owned(root) == {m \in Within(root) : \A b \in Nested(root) : m \notin Within(b)}

----------------------------------------------------------------------------
(* Reading: read_source *)

Refuse == phase' = "refused" /\ UNCHANGED <<file, allow, analysis>>
Proceed(next) == phase' = next /\ UNCHANGED <<file, allow, analysis>>

\* Somebody else replaces the file.
Replace ==
    /\ phase = "open" /\ file' \in Files
    /\ file'.language = file.language /\ UNCHANGED <<allow, phase, analysis>>

Stat == phase = "stat" /\ IF file.regular /\ file.size <= Limit THEN Proceed("open") ELSE Refuse
Read == phase = "open" /\ IF file.size <= Limit /\ file.utf8 THEN Proceed("parse") ELSE Refuse

\* parse_issues: one for each place and kind.
Issue(n) == [kind |-> Kind(n), missing |-> file.tree[n].fault = "missing",
             place |-> <<Row(file.tree[n].from), Scalars(file.tree[n].from), Row(file.tree[n].to), Scalars(file.tree[n].to)>>]
Issues == {Issue(n) : n \in {m \in Nodes : Faulty(m)}}

----------------------------------------------------------------------------
(* Names: function_name, qualified_owner *)

Anonymous == <<"<anonymous>">>

FirstOf(S) == IF S = {} THEN 0 ELSE Min(S)
NamesIn(n) == {m \in Within(n) : Kind(m) \in Kinds.names}
DeclaratorName(declarator) ==
    LET inner == {Field(m, "declarator") :
                    m \in {f \in Within(declarator) : Kind(f) = "function_declarator" /\ HasField(f, "declarator")}}
        usable == {i \in inner : NamesIn(i) # {}}
    IN  IF usable # {} THEN Max(NamesIn(Min(usable))) ELSE FirstOf(NamesIn(declarator))
FirstName(n) ==
    IF HasField(n, "name") THEN Field(n, "name")
    ELSE IF HasField(n, "declarator") /\ DeclaratorName(Field(n, "declarator")) # 0
        THEN DeclaratorName(Field(n, "declarator"))
    ELSE IF HasField(n, "selector") THEN Field(n, "selector") ELSE FirstOf(NamesIn(n))

ImplementationOwner(n) ==
    IF file.language = "rust" /\ Kind(n) = "impl_item" /\ HasField(n, "type")
        THEN Text(Field(n, "type"))
             \o (IF HasField(n, "trait") THEN <<"as">> \o Text(Field(n, "trait")) ELSE <<>>)
        ELSE <<>>
DeclarationOwner(n) ==
    IF Kind(n) \in Language.owners
        THEN IF HasField(n, "name") THEN Text(Field(n, "name"))
             ELSE IF Kind(n) \in Language.modules /\ FirstName(n) # 0 THEN Text(FirstName(n)) ELSE <<>>
        ELSE <<>>
QualifiedOwner(n) ==
    FlattenSeq([i \in DOMAIN InOrder(Above[n]) |->
        LET a == InOrder(Above[n])[i] IN ImplementationOwner(a) \o DeclarationOwner(a)])

\* str::starts_with, of texts whose segments are joined.
StartsWith(name, owner) ==
    /\ Len(owner) <= Len(name)
    /\ \A i \in 1..(Len(owner) - 1) : name[i] = owner[i]
    /\ owner # <<>> => Begins(name[Len(owner)], Last(owner))

Qualified(name, owner) == IF StartsWith(name, owner) THEN name ELSE owner \o name
PlainName(n) == IF FirstName(n) = 0 \/ Text(FirstName(n)) = <<>> THEN Anonymous ELSE Text(FirstName(n))
FunctionName(n) ==
    CASE file.language = "typescript" /\ Kind(n) \in {"arrow_function", "function_expression"}
           /\ HasField(Parent(n), "name") -> Text(Field(Parent(n), "name"))
      [] file.language = "swift" /\ Kind(n) \in DOMAIN Language.special ->
           QualifiedOwner(n) \o Language.special[Kind(n)]
      [] file.language \in {"c", "cpp"} -> PlainName(n)
      [] OTHER -> Qualified(PlainName(n), QualifiedOwner(n))

----------------------------------------------------------------------------
(* Parameters and local bindings *)

ParameterKinds == {"parameters", "formal_parameters", "parameter_list", "parameter_clause"}
SignatureEnd(n) == IF HasField(n, "body") THEN file.tree[Field(n, "body")].from ELSE file.tree[n].to

ParameterChildren(n) ==
    LET children == {m \in Named(n) : Kind(m) \notin Kinds.comments}
    IN  IF CFamily /\ \E m \in children : children = {m} /\ Text(m) = <<"void">> THEN {} ELSE children
Parameters(n) ==
    LET lists == {m \in Within(n) : Kind(m) \in ParameterKinds /\ file.tree[m].to <= SignatureEnd(n)}
    IN  IF HasField(n, "parameters") THEN ParameterChildren(Field(n, "parameters"))
        ELSE IF lists # {} THEN ParameterChildren(Min(lists))
        ELSE {m \in Children(n) : Kind(m) \in {"parameter", "method_parameter"}}

\* collect_binding_identifiers: a node that is one, or all below it but types.
Identifiers ==
    LET identifiers[n \in Nodes] ==
        IF Kind(n) \in Kinds.bindings /\ Text(n) # <<>> THEN {Text(n)}
        ELSE UNION {identifiers[m] : m \in {c \in Named(n) : Kind(c) \notin Kinds.types}}
    IN  identifiers

Declarators == \* c_declarator_bindings
    LET declarators[n \in Nodes] ==
        IF Kind(n) \in Kinds.bindings THEN {n}
        ELSE IF Kind(n) = "structured_binding_declarator" THEN {m \in Named(n) : Kind(m) \in Kinds.bindings}
        ELSE IF HasField(n, "declarator") THEN declarators[Field(n, "declarator")]
        ELSE IF Kind(n) = "parenthesized_declarator" THEN UNION {declarators[m] : m \in Named(n)}
        ELSE {}
    IN  declarators
Bound(nodes) == UNION {Identifiers[m] : m \in nodes}
Declared(n) == Bound(Declarators[n])

ParameterBinding(n) ==
    LET binding == FirstField(n, <<"name", "pattern", "declarator">>)
    IN  IF CFamily /\ HasField(n, "declarator") THEN Declared(Field(n, "declarator"))
        ELSE IF binding # 0 THEN Identifiers[binding]
        ELSE IF Kind(n) \in Kinds.bindings THEN Identifiers[n] ELSE {}

\* BindingCollector::collect
NodeBinding(n) ==
    IF CFamily /\ Kind(n) = "declaration"
        THEN UNION {Declared(IF Kind(d) = "init_declarator" /\ HasField(d, "declarator") THEN Field(d, "declarator") ELSE d) :
                        d \in Fields(n, "declarator")}
    ELSE IF Kind(n) \in DOMAIN Language.locals /\ FirstField(n, Language.locals[Kind(n)]) # 0
        THEN Identifiers[FirstField(n, Language.locals[Kind(n)])]
    ELSE {}

Imported(statement) ==
    UNION {LET names == {m \in Within(i) : Kind(m) \in Kinds.bindings}
           IN  IF Kind(i) = "aliased_import" THEN Bound(Fields(i, "alias"))
               ELSE IF names = {} THEN {}
               ELSE Identifiers[IF Kind(statement) = "import_statement" THEN Min(names) ELSE Max(names)] :
             i \in Fields(statement, "name")}
\* The functions right below are names of the function, what is in them is not.
NestedNames(n) ==
    UNION {Bound(Fields(b, "name")) :
        b \in {x \in Nested(n) : Kind(x) = "function_definition" /\ Above[x] \cap Nested(n) = {}}}
Released(n) ==
    UNION {{Text(m) : m \in {x \in Within(d) : Kind(x) \in Kinds.bindings}} :
        d \in {x \in Owned(n) : Kind(x) \in {"global_statement", "nonlocal_statement"}}}

LocalBindings(n) ==
    LET plain == UNION {ParameterBinding(p) : p \in Parameters(n)} \cup UNION {NodeBinding(m) : m \in Owned(n)}
        imports == {m \in Owned(n) : Kind(m) \in {"import_statement", "import_from_statement"}}
    IN  IF file.language = "python"
            THEN (plain \cup UNION {Imported(s) : s \in imports} \cup NestedNames(n)) \ Released(n)
            ELSE plain

----------------------------------------------------------------------------
(* What a name refers to, and the normalized tokens *)

\* python_comprehension_name_visible: in the body every clause binds; in a
\* clause those before it do, and its own target does.
Binds(clause, name) == HasField(clause, "left") /\ name \in Identifiers[Field(clause, "left")]
VisibleIn(comprehension, n, name) ==
    LET clauses == {c \in Named(comprehension) : Kind(c) = "for_in_clause"}
        holding == {c \in Named(comprehension) : Covers(c, n)}
        before == {c \in clauses : holding # {} /\ c < Min(holding)}
        target == \E c \in clauses \cap holding : HasField(c, "left") /\ Covers(Field(c, "left"), n)
    IN  IF HasField(comprehension, "body") /\ Covers(Field(comprehension, "body"), n)
            THEN \E c \in clauses : Binds(c, name)
            ELSE \/ \E c \in before : Binds(c, name)
                 \/ target /\ Binds(Min(holding), name)
DeclaresParameter(n) == \* c_parameter_binding_at
    LET declarations == {a \in Above[n] : Kind(a) = "parameter_declaration"}
    IN  /\ declarations # {} /\ HasField(Max(declarations), "declarator")
        /\ n \in Declarators[Field(Max(declarations), "declarator")]

IsLocal(n, name, locals) ==
    \/ name \in locals
    \/ file.language = "python" /\ \E a \in Above[n] : Kind(a) \in Kinds.comprehensions /\ VisibleIn(a, n, name)
    \/ CFamily /\ DeclaresParameter(n)

\* A word of Bash is a literal as a number, or as an argument of a command.
IsArgument(n) ==
    LET words == {m \in Named(Parent(n)) : Kind(m) # "variable_assignment"}
    IN  Kind(Parent(n)) = "command" /\ words # {} /\ Min(words) # n
IsLiteral(n) ==
    \/ Kind(n) \in Kinds.strings \cup Kinds.numbers \cup Kinds.booleans
    \/ file.language = "bash" /\ Kind(n) = "word" /\ (Text(n) = <<"1">> \/ IsArgument(n))
    \/ IsLeaf(n) /\ Text(n) \in {<<"true">>, <<"false">>, <<"True">>, <<"False">>, <<"None">>}

Normalized(root, locals) ==
    LET Skipped(m) == Faulty(m) \/ Kind(m) \in Kinds.comments \/ (m # root /\ IsBoundary(m))
        Stops(m) == Skipped(m) \/ IsLiteral(m)
        Reached(m) == \A a \in Above[m] \cap Within(root) : ~Stops(a)
        kept == {m \in Within(root) :
                    /\ Reached(m) /\ ~Skipped(m)
                    /\ IsLiteral(m) \/ (IsLeaf(m) /\ Text(m) # <<>>)}
        Token(m) == IF IsLiteral(m) THEN <<"LITERAL">>
                    ELSE IF Kind(m) \in Kinds.identifiers /\ IsLocal(m, Text(m), locals) THEN <<"LOCAL">> ELSE Text(m)
    IN  [i \in 1..Cardinality(kept) |-> Token(InOrder(kept)[i])]

Body(n) == IF HasField(n, "body") THEN Field(n, "body") ELSE n
CallTarget(n) ==
    LET target == FirstField(n, <<"function", "callee", "name", "macro", "command">>)
    IN  IF target # 0 THEN target ELSE FirstOf(Named(n))
References(n, locals) ==
    LET owned == Owned(Body(n))
        names == {m \in owned : IsLeaf(m) /\ Kind(m) \in Kinds.identifiers}
        targets == {CallTarget(c) : c \in {m \in owned : Kind(m) \in Kinds.calls}} \ {0}
    IN  {Text(m) : m \in {x \in names : Text(x) # <<>> /\ ~IsLocal(x, Text(x), locals)}}
        \cup {Text(m) : m \in {x \in targets : Text(x) # <<>> /\ ~IsLocal(x, <<Text(x)[1]>>, locals)}}

----------------------------------------------------------------------------
(* Symbols *)

SymbolName(n, name) ==
    LET owner == QualifiedOwner(n)
    IN  IF StartsWith(name, owner) THEN name
        ELSE IF Len(name) > 1 /\ name[1] = Last(owner) THEN Front(owner) \o name    \* out of its class, with its name
        ELSE owner \o name

StableSymbol(n, name, locals, normalized) ==
    LET parameters == InOrder(Parameters(n))
    IN  [name |-> IF name = Anonymous THEN name ELSE SymbolName(n, name),
         signature |-> [i \in DOMAIN parameters |-> Normalized(parameters[i], locals)],
         evidence |-> IF name = Anonymous THEN normalized ELSE <<>>,
         suffix |-> <<>>]

\* Wrong: functions with the same tokens get the same suffix.
DisambiguatedByTokens(list) ==
    [i \in DOMAIN list |->
        IF \A j \in DOMAIN list : list[j].symbol = list[i].symbol => j = i THEN list[i]
        ELSE [list[i] EXCEPT !.symbol.suffix = <<list[i].tokens, 0>>]]

\* disambiguate_duplicate_symbols: by the tokens, then by the order.
Disambiguated(list) ==
    [i \in DOMAIN list |->
        LET Same(j) == list[j].symbol = list[i].symbol
            earlier == {j \in 1..(i - 1) : Same(j) /\ list[j].tokens = list[i].tokens}
        IN  IF \A j \in DOMAIN list : Same(j) => j = i THEN list[i]
            ELSE [list[i] EXCEPT !.symbol.suffix = <<list[i].tokens, Cardinality(earlier)>>]]

Visibility(n) ==
    LET words == {Text(m) : m \in {x \in Within(n) : IsLeaf(x) /\ file.tree[x].to <= SignatureEnd(n)}}
        Has(word) == <<word>> \in words
    IN  IF Has("private") \/ Has("fileprivate") \/ Has("protected") THEN "private"
        ELSE IF Has("public") \/ Has("open") \/ Has("export") THEN "public"
        ELSE IF file.language = "rust"
            THEN IF ~Has("pub") THEN "private" ELSE IF Has("(crate)") THEN "crate" ELSE "public"
        ELSE IF CFamily /\ Has("static") THEN "private"
        ELSE IF file.language = "swift" THEN "crate" ELSE "unknown"

Production == ~file.test /\ ~file.generated

----------------------------------------------------------------------------
(* The metrics of a function, one traversal after another *)

LogicalOperators == {<<"&&">>, <<"||">>, <<"and">>, <<"or">>}

\* decision_increment
Decides(n) ==
    LET siblings == {m \in Named(Parent(n)) : m < n}
    IN  CASE file.language = "rust" /\ Kind(n) = "match_arm" ->
                siblings # {} /\ Kind(Max(siblings)) = "match_arm"    \* the first arm is the existing path
          [] file.language = "rust" /\ Kind(n) = "match_pattern" -> HasField(n, "condition")
          [] file.language = "rust" /\ Kind(n) = "let_declaration" -> HasField(n, "alternative")
          [] OTHER -> Kind(n) \in Language.decisions
Paths(n) ==
    (IF Decides(n) THEN 1 ELSE 0) + Cardinality({m \in Children(n) : Text(m) \in LogicalOperators})

IsStatement(n) ==
    \/ Kind(n) \in Language.statements
    \/ Parent(n) # 0 /\ Kind(Parent(n)) \in Language.blocks /\ Kind(n) \notin Language.items

Metrics == <<"complexity", "nesting", "statements", "spans">>
Start(n, metric) == \* nodes are taken from the end of the stack, with the depth around them
    [of |-> n, metric |-> metric, stack |-> [i \in DOMAIN InOrder(Children(n)) |-> <<InOrder(Children(n))[i], 0>>]]
Top == Last(walk.stack)
Walking(metric) == phase = "functions" /\ walk # Nothing /\ walk.metric = metric /\ walk.stack # <<>>
Descend(n, depth) ==
    walk' = [walk EXCEPT !.stack = Front(@) \o [i \in DOMAIN InOrder(Children(n)) |-> <<InOrder(Children(n))[i], depth>>]]
Pass == walk' = [walk EXCEPT !.stack = Front(@)]
Others == <<file, allow, phase, issues, pending, functions, output>>

VisitDecision ==
    /\ Walking("complexity")
    /\ IF IsBoundary(Top[1]) THEN Pass /\ UNCHANGED measured
       ELSE /\ measured' = [measured EXCEPT !.complexity = @ + Paths(Top[1])]
            /\ Descend(Top[1], 0)
    /\ UNCHANGED Others

VisitNesting ==
    /\ Walking("nesting")
    /\ IF IsBoundary(Top[1]) THEN Pass /\ UNCHANGED measured
       ELSE LET depth == IF Kind(Top[1]) \in Language.nesting THEN Top[2] + 1 ELSE Top[2]
            IN  /\ measured' = [measured EXCEPT !.nesting = Max({@, depth})]
                /\ Descend(Top[1], depth)
    /\ UNCHANGED Others

VisitStatement ==
    /\ Walking("statements")
    /\ IF IsBoundary(Top[1]) THEN Pass /\ UNCHANGED measured
       ELSE /\ measured' = [measured EXCEPT !.statements = IF IsStatement(Top[1]) THEN @ + 1 ELSE @]
            /\ Descend(Top[1], 0)
    /\ UNCHANGED Others

\* nested_function_nodes, for nested_coverage_spans and nested_coverage_ranges
VisitNested ==
    /\ Walking("spans")
    /\ IF IsBoundary(Top[1]) THEN measured' = [measured EXCEPT !.spans = @ \cup {Span(Top[1])}] /\ Pass
       ELSE Descend(Top[1], 0) /\ UNCHANGED measured
    /\ UNCHANGED Others

NextMetric ==
    /\ phase = "functions" /\ walk # Nothing /\ walk.stack = <<>> /\ walk.metric # Last(Metrics)
    /\ walk' = Start(walk.of, Metrics[CHOOSE i \in 2..Len(Metrics) : Metrics[i - 1] = walk.metric])
    /\ UNCHANGED <<measured, Others>>

----------------------------------------------------------------------------
(* Functions: extract_functions *)

Reported ==
    {n \in Nodes : Kind(n) \in Language.reported /\ ~HasError(n) /\ ~HasAncestor(n, Language.boundaries)}
\* What a Bash file runs outside of its functions, as a function of its own.
TopLevel ==
    {n \in Named(1) : Kind(n) \notin Language.reported \cup Kinds.comments /\ ~HasError(n)}
HasScript == file.language = "bash" /\ TopLevel # {}

Parse ==
    /\ phase = "parse"
    /\ issues' = Issues
    /\ IF Issues # {} /\ ~allow
           THEN phase' = "refused" /\ UNCHANGED <<pending>>
           ELSE phase' = "functions" /\ pending' = InOrder(Reported) \o (IF HasScript THEN <<1>> ELSE <<>>)
    /\ UNCHANGED <<file, allow, walk, measured, functions, output>>

StartFunction ==
    /\ phase = "functions" /\ walk = Nothing /\ pending # <<>>
    /\ walk' = Start(pending[1], Metrics[1])
    /\ measured' = [complexity |-> 1, nesting |-> 0, statements |-> 0, spans |-> {}]
    /\ UNCHANGED Others

Record(n) ==
    LET script == n \notin Reported
        name == IF script THEN <<"<script>">> ELSE FunctionName(n)
        locals == LocalBindings(n)
        normalized == Normalized(Body(n), locals)
        edges == IF script THEN <<Min(TopLevel), Max(TopLevel)>> ELSE <<n, n>>
    IN  [node |-> n, name |-> name, metrics |-> measured, tokens |-> normalized,
         lines |-> <<Row(file.tree[edges[1]].from), Row(file.tree[edges[2]].to)>>, span |-> Span(n),
         parameters |-> IF script THEN 0 ELSE Cardinality(Parameters(n)),
         symbol |-> IF script THEN [name |-> name, signature |-> <<>>, evidence |-> <<>>, suffix |-> <<>>]
                    ELSE StableSymbol(n, name, locals, normalized),
         references |-> References(n, locals),
         visibility |-> IF script THEN "unknown" ELSE Visibility(n),
         reliable |-> ~file.generated, production |-> Production,
         entry |-> Production /\ (script \/ Last(name) = "main")]

FinishFunction ==
    /\ phase = "functions" /\ walk # Nothing /\ walk.stack = <<>> /\ walk.metric = Last(Metrics)
    /\ functions' = Append(functions, Record(walk.of))
    /\ pending' = Tail(pending)
    /\ walk' = Nothing
    /\ UNCHANGED <<file, allow, phase, issues, measured, output>>

----------------------------------------------------------------------------
(* Tokens and mutations *)

InErrorRegion(n) == \E m \in Above[n] \cup {n} : Faulty(m)
FileTokens ==
    LET kept == {n \in Nodes : IsLeaf(n) /\ ~InErrorRegion(n) /\ Text(n) # <<>>
                                /\ Kind(n) \notin Kinds.comments /\ ~HasAncestor(n, Kinds.comments)}
        Value(n) == IF IsLiteral(n) \/ HasAncestor(n, Kinds.strings \cup Kinds.numbers) THEN <<"LITERAL">> ELSE Text(n)
    IN  [i \in 1..Cardinality(kept) |-> [value |-> Value(InOrder(kept)[i]), line |-> Row(file.tree[InOrder(kept)[i]].from)]]

\* The parser may put a whole tree, but no smaller part, around an error.
InMutationErrorRegion(n) == \E m \in Above[n] \cup {n} : Faulty(m) \/ (HasError(m) /\ Kind(m) \notin Kinds.roots)

Common ==
    {<<"==", "!=">>, <<"!=", "==">>, <<">", "<=">>, <<"<", ">=">>, <<">=", "<">>, <<"<=", ">">>, <<"&&", "||">>,
     <<"||", "&&">>, <<"+", "-">>, <<"-", "+">>, <<"*", "/">>, <<"/", "*">>, <<"true", "false">>, <<"false", "true">>}
ByLanguage(language) ==
    CASE language = "bash" -> {<<"-eq", "-ne">>, <<"-ne", "-eq">>, <<"-gt", "-le">>, <<"-ge", "-lt">>, <<"-lt", "-ge">>, <<"-le", "-gt">>}
      [] language = "python" -> {<<"True", "False">>, <<"False", "True">>, <<"and", "or">>, <<"or", "and">>}
      [] language = "objective-c" -> {<<"YES", "NO">>, <<"NO", "YES">>}
      [] OTHER -> {}
Truths == {"true", "false", "True", "False", "YES", "NO"}
Replacements(n) == {r[2] : r \in {x \in Common \cup ByLanguage(file.language) : Text(n) = <<x[1]>>}}

BinaryContext(n) ==
    IF Kind(Parent(n)) \in Kinds.binary THEN Parent(n)
    ELSE IF Kind(Parent(n)) \in Kinds.wrappers /\ Parent(Parent(n)) # 0 /\ Kind(Parent(Parent(n))) \in Kinds.binary
        THEN Parent(Parent(n))
    ELSE 0
HasOperands(context, n) ==
    /\ \E m \in Children(context) : file.tree[m].fault # "missing" /\ file.tree[m].to <= file.tree[n].from
    /\ \E m \in Children(context) : file.tree[m].fault # "missing" /\ file.tree[m].from >= file.tree[n].to
Fits(n) ==
    IF Text(n)[1] \in Truths
        THEN Kind(n) \in Kinds.booleans \/ Kind(Parent(n)) \in Kinds.booleans
             \/ (file.language = "objective-c" /\ Kind(n) = "identifier")
        ELSE LET context == BinaryContext(n)
             IN  context # 0 /\ ~HasError(context) /\ ~InMutationErrorRegion(context) /\ HasOperands(context, n)

Mutable ==
    {n \in Nodes \ {1} : IsLeaf(n) /\ ~InMutationErrorRegion(n) /\ Replacements(n) # {} /\ ~HasAncestor(n, Kinds.unmutated) /\ Fits(n)}
\* enumerate_mutations: by start, the longest first, without overlaps.
Mutations ==
    LET First(a, b) == \/ file.tree[a].from < file.tree[b].from
                       \/ file.tree[a].from = file.tree[b].from /\ file.tree[a].to > file.tree[b].to
        Choose(chosen, n) ==
            IF chosen # <<>> /\ file.tree[n].from < Last(chosen).to THEN chosen
            ELSE Append(chosen, [node |-> n, from |-> file.tree[n].from, to |-> file.tree[n].to,
                                 replacement |-> CHOOSE r \in Replacements(n) : TRUE,
                                 line |-> Row(file.tree[n].from), column |-> Scalars(file.tree[n].from)])
    IN  FoldLeft(Choose, <<>>, SortSeq(InOrder(Mutable), First))

FinishFile ==
    /\ phase = "functions" /\ walk = Nothing /\ pending = <<>>
    /\ LET list == Disambiguated(functions)
           ByLine(a, b) == a.lines[1] < b.lines[1] \/ (a.lines[1] = b.lines[1] /\ NameBefore(a.name, b.name))
       IN  functions' = [i \in DOMAIN list |->
                            [SortSeq(list, ByLine)[i] EXCEPT !.reliable = @ /\ issues = {}]]
    /\ output' = [tokens |-> FileTokens, mutations |-> Mutations]
    /\ phase' = "done"
    /\ UNCHANGED <<file, allow, issues, pending, walk, measured>>

----------------------------------------------------------------------------
Init ==
    /\ file \in Files /\ allow \in BOOLEAN
    /\ phase = "stat" /\ issues = {} /\ pending = <<>> /\ walk = Nothing /\ measured = Nothing
    /\ functions = <<>> /\ output = Nothing

Visit == VisitDecision \/ VisitNesting \/ VisitStatement \/ VisitNested
Next ==
    \/ Replace \/ Stat \/ Read \/ Parse
    \/ StartFunction \/ Visit \/ NextMetric \/ FinishFunction \/ FinishFile

Spec == Init /\ [][Next]_vars

----------------------------------------------------------------------------
(* Properties *)

Innermost(n) == \* the node whose code n is: the boundary around it, or the file
    LET around == {a \in Above[n] \cup {n} : IsBoundary(a)} IN IF around = {} THEN 1 ELSE Max(around)
WithinSpan(n, span) ==
    LET Before(p, q) == p[1] < q[1] \/ (p[1] = q[1] /\ p[2] <= q[2])
    IN  Before(span.start, Span(n).start) /\ Before(Span(n).end, span.end)

\* Complexity, nesting and coverage of a function are about the same code, its
\* own: a decision counts for the boundary right around it and for nothing else,
\* and what coverage leaves out is what is not measured.
MeasuresItsOwn(f) ==
    LET own == {n \in Within(f.node) \ {f.node} : Innermost(n) = f.node}
        Depth(n) == Cardinality({a \in (Above[n] \cup {n}) \cap own : Kind(a) \in Language.nesting})
    IN  /\ f.metrics.complexity = 1 + FoldLeft(LAMBDA sum, n : sum + Paths(n), 0, InOrder(own))
        /\ f.metrics.nesting = Max({0} \cup {Depth(n) : n \in own})
        /\ f.metrics.statements = Cardinality({n \in own : IsStatement(n)})
        /\ \A n \in Within(f.node) :
              IsLeaf(n) /\ file.tree[n].from < file.tree[n].to =>
                  (Innermost(n) # f.node <=> \E s \in f.metrics.spans : WithinSpan(n, s))

\* Every function is measured by its own code, no two functions of a file share
\* code or a symbol, mutations are apart and outside of what the parser could
\* not read, and what it could not read makes the metrics unreliable.
CodeIsMeasuredOnce ==
    phase = "done" =>
        /\ file.size <= Limit /\ (Issues # {} => allow /\ \A i \in DOMAIN functions : ~functions[i].reliable)
        /\ \A i \in DOMAIN functions : MeasuresItsOwn(functions[i])
        /\ \A i, j \in DOMAIN functions : i < j =>
              /\ functions[i].symbol # functions[j].symbol
              /\ functions[i].lines[1] <= functions[j].lines[1]
              /\ functions[i].node # functions[j].node
              /\ functions[i].node \in Above[functions[j].node] => functions[i].node = 1
        /\ LET list == output.mutations
           IN  \A i \in DOMAIN list :
                  /\ ~InErrorRegion(list[i].node)
                  /\ \A j \in DOMAIN list : i < j => list[i].to <= list[j].from
=============================================================================
