------------------------------ MODULE Filters ------------------------------
(***************************************************************************)
(* What a filter means: the tree of conditions a client posts or types     *)
(* (domain/models.py), the checks of a condition against the catalogue of  *)
(* fields and its compilation to a predicate over rows                     *)
(* (search/compile.py).                                                    *)
(*                                                                         *)
(* A text is a sequence of characters; a keyword of the query language is  *)
(* one character.  A number is the text of its digits, an address a text   *)
(* over digits that ":" opens when it is version 6, a network a text that  *)
(* "/" closes: the addresses of its version that start with what stands    *)
(* before it.                                                              *)
(***************************************************************************)
EXTENDS Integers, Sequences, FiniteSets, SequencesExt

CONSTANTS
    FieldDefs,    \* name -> [type, operators, values, protocol]
    Host,         \* address -> the set of its host name, empty when unknown
    Country,      \* address -> the set of its country, empty when unknown
    MaxInValues,  \* MAX_IN_VALUES
    MaxWildcards, \* MAX_GLOB_WILDCARDS
    MaxDepth,     \* MAX_FILTER_DEPTH
    MaxConditions,\* MAX_FILTER_CONDITIONS
    RowStarts,    \* what a client has typed of a filter row before its values
    ValueChars,   \* the characters it may still type
    MaxRowChars   \* bound: the characters of a row

ASSUME FiltersAssumption ==
    /\ {MaxInValues, MaxWildcards, MaxDepth, MaxConditions} \subseteq Nat \ {0}
    /\ DOMAIN Host = DOMAIN Country

VARIABLES
    raw,     \* the filter row as typed
    answer   \* what it is read as

rvars == <<raw, answer>>

-----------------------------------------------------------------------------
(* Texts.                                                                  *)

Digit == [c \in {"0", "1", "2", "3"} |->
              CASE c = "0" -> 0 [] c = "1" -> 1 [] c = "2" -> 2 [] OTHER -> 3]

IsNumber(text) == text # <<>> /\ \A i \in DOMAIN text : text[i] \in DOMAIN Digit

\* int(text), for a text that is a whole number.
AsInt(text) == FoldLeft(LAMBDA n, c : 10 * n + Digit[c], 0, text)

\* str.casefold.
Fold(text) == [i \in DOMAIN text |->
                  CASE text[i] = "A" -> "a" [] text[i] = "OR" -> "or" [] OTHER -> text[i]]

Version(text) == IF text # <<>> /\ Head(text) = ":" THEN 6 ELSE 4

IsAddress(text) == text \in DOMAIN Host

\* ipaddress.ip_network(text, strict=False): an address is a network of one.
IsNetwork(text) ==
    \/ IsAddress(text)
    \/ /\ text # <<>> /\ Last(text) = "/"
       /\ \E a \in DOMAIN Host : Version(a) = Version(text) /\ IsPrefix(Front(text), a)

InNetwork(address, network) ==
    /\ Version(address) = Version(network)
    /\ IF Last(network) = "/" THEN IsPrefix(Front(network), address) ELSE address = network

\* "*" is any text, "?" any character, and every letter matches in either
\* case; a run of stars is one star.
RECURSIVE GlobMatch(_, _)
GlobMatch(pattern, text) ==
    IF pattern = <<>> THEN text = <<>>
    ELSE IF Head(pattern) = "*"
         THEN \E n \in 0 .. Len(text) : GlobMatch(Tail(pattern), SubSeq(text, n + 1, Len(text)))
         ELSE /\ text # <<>>
              /\ Head(pattern) = "?" \/ Fold(<<Head(pattern)>>) = Fold(<<Head(text)>>)
              /\ GlobMatch(Tail(pattern), Tail(text))

-----------------------------------------------------------------------------
(* Trees of conditions.                                                    *)

Node(kind, field, op, values, parts) ==
    [kind |-> kind, field |-> field, op |-> op, values |-> values, parts |-> parts]

FilterCond(field, op, values) == Node("cond", field, op, values, <<>>)
FilterAll(parts) == Node("all", "", "", <<>>, parts)
FilterAny(parts) == Node("any", "", "", <<>>, parts)
FilterNot(node)  == Node("not", "", "", <<>>, <<node>>)

\* What FilterCond refuses: the wrong number of values, or too many
\* wildcards in a glob.
CheckArity(op, values) ==
    /\ CASE op = "exists"  -> values = <<>>
         [] op = "in"      -> Len(values) \in 1 .. MaxInValues
         [] op = "between" -> Len(values) = 2
         [] OTHER          -> Len(values) = 1
    /\ op = "glob" =>
         Cardinality({i \in DOMAIN values[1] : values[1][i] \in {"*", "?"}}) <= MaxWildcards

RECURSIVE IterConditions(_)
IterConditions(node) ==
    IF node.kind = "cond" THEN <<node>>
    ELSE FlattenSeq([i \in DOMAIN node.parts |-> IterConditions(node.parts[i])])

RECURSIVE FilterDepth(_)
FilterDepth(node) == 1 + FoldLeft(LAMBDA deepest, part : LET d == FilterDepth(part) IN
                                      IF d > deepest THEN d ELSE deepest, 0, node.parts)

ValidFilterTree(node) ==
    FilterDepth(node) <= MaxDepth /\ Len(IterConditions(node)) <= MaxConditions

-----------------------------------------------------------------------------
(* Checks against the catalogue.                                           *)

OperatorAllowed(def, op) == (IF op = "in" THEN "eq" ELSE op) \in def.operators

CheckValue(def, op, value) ==
    IF op = "cidr" THEN IsNetwork(value)
    ELSE IF def.type = "number" THEN IsNumber(value)
    ELSE IF op \in {"glob", "exists"} THEN TRUE
    ELSE IF def.type = "ip" THEN IsAddress(value)
    ELSE def.values # {} => Fold(value) \in {Fold(v) : v \in def.values}

\* The code a condition is refused with, "" when it stands.
ConditionError(cond) ==
    IF cond.field \notin DOMAIN FieldDefs THEN "unknown_field"
    ELSE LET def == FieldDefs[cond.field] IN
         IF ~ OperatorAllowed(def, cond.op) THEN "operator_not_allowed"
         ELSE IF \E i \in DOMAIN cond.values : ~ CheckValue(def, cond.op, cond.values[i])
              THEN "bad_value"
              ELSE ""

-----------------------------------------------------------------------------
(* The compiled predicate.  A row has its protocol, its two addresses, its *)
(* destination port and the values of its indexed attributes.              *)

ValuesOf(field, row) ==
    CASE field = "protocol"    -> {<<row.protocol>>}
      [] field = "src.ip"      -> {row.src}
      [] field = "dst.ip"      -> {row.dst}
      [] field = "dst.port"    -> {row.port}
      [] field = "host"        -> Host[row.src] \cup Host[row.dst]
      [] field = "dst.country" -> Country[row.dst]
      [] OTHER                 -> IF field \in DOMAIN row.attrs THEN row.attrs[field] ELSE {}

InRange(low, high, value) == low <= AsInt(value) /\ AsInt(value) <= high

BetweenMatch(a, b, value) ==
    IF a <= b THEN InRange(a, b, value) ELSE InRange(b, a, value)

EqMatch(def, operand, value) ==
    IF def.type = "number" THEN AsInt(value) = AsInt(operand) ELSE Fold(value) = Fold(operand)

InMatch(def, operands, value) ==
    IF def.type = "number" THEN AsInt(value) \in {AsInt(operands[i]) : i \in DOMAIN operands}
    ELSE Fold(value) \in {Fold(operands[i]) : i \in DOMAIN operands}

ValueMatch(def, cond, value) ==
    LET operand == cond.values[1] IN
    CASE cond.op = "exists"  -> value # <<>>
      [] cond.op = "in"      -> InMatch(def, cond.values, value)
      [] cond.op = "between" -> BetweenMatch(AsInt(operand), AsInt(cond.values[2]), value)
      [] cond.op = "eq"      -> EqMatch(def, operand, value)
      [] cond.op = "glob"    -> GlobMatch(operand, value)
      [] cond.op = "cidr"    -> InNetwork(value, operand)
      [] cond.op = "gte"     -> AsInt(value) >= AsInt(operand)
      [] cond.op = "lte"     -> AsInt(value) <= AsInt(operand)

\* A field named after a protocol is never found on a row of another one.
CompileCondition(cond, row) ==
    LET def == FieldDefs[cond.field] IN
    /\ def.protocol \in {"", row.protocol}
    /\ \E value \in ValuesOf(cond.field, row) : ValueMatch(def, cond, value)

RECURSIVE Compile(_, _)
Compile(node, row) ==
    CASE node.kind = "all"  -> \A i \in DOMAIN node.parts : Compile(node.parts[i], row)
      [] node.kind = "any"  -> \E i \in DOMAIN node.parts : Compile(node.parts[i], row)
      [] node.kind = "not"  -> ~ Compile(node.parts[1], row)
      [] node.kind = "cond" -> CompileCondition(node, row)

Selected(node, rows) == {row \in rows : Compile(node, row)}

-----------------------------------------------------------------------------
(* Filter rows: "<field>:<op>:<values>", the operator negated by "!", the  *)
(* values parted by "," and escaped by "\".  A field or an operator name   *)
(* is one character.                                                       *)

Operators == {"eq", "in", "cidr", "glob", "gte", "lte", "between", "exists"}

\* str.partition: what stands before the first c, and after it.
Partition(source, c) ==
    LET i == SelectInSeq(source, LAMBDA x : x = c) IN
    IF i = 0 THEN [found |-> FALSE, before |-> source, after |-> <<>>]
    ELSE [found |-> TRUE, before |-> SubSeq(source, 1, i - 1),
          after |-> SubSeq(source, i + 1, Len(source))]

SplitStep(state, c) ==
    CASE state.escaped ->
           [state EXCEPT !.current = IF c \in {",", "\\"} THEN Append(@, c) ELSE @ \o <<"\\", c>>,
                         !.escaped = FALSE]
      [] ~ state.escaped /\ c = "\\" -> [state EXCEPT !.escaped = TRUE]
      [] ~ state.escaped /\ c = ","  ->
           [state EXCEPT !.values = Append(@, state.current), !.current = <<>>]
      [] OTHER -> [state EXCEPT !.current = Append(@, c)]

SplitValues(source) ==
    LET end == FoldLeft(SplitStep, [values |-> <<>>, current |-> <<>>, escaped |-> FALSE], source)
    IN  IF source = <<>> THEN <<>>
        ELSE Append(end.values, IF end.escaped THEN Append(end.current, "\\") ELSE end.current)

EscapeValueNotItself(value) ==
    FlattenSeq([i \in DOMAIN value |-> IF value[i] = "," THEN <<"\\", ",">> ELSE <<value[i]>>])

EscapeValue(value) ==
    FlattenSeq([i \in DOMAIN value |->
        IF value[i] \in {",", "\\"} THEN <<"\\", value[i]>> ELSE <<value[i]>>])

FilterRow(field, op, values, negated) ==
    [field |-> field, op |-> op, values |-> values, negated |-> negated]

NoRow == FilterRow("", "", <<>>, FALSE)

SerializeRow(row) ==
    LET escaped == [i \in DOMAIN row.values |-> EscapeValue(row.values[i])]
    IN  <<row.field, ":">> \o (IF row.negated THEN <<"!">> ELSE <<>>) \o <<row.op, ":">>
        \o FlattenSeq([i \in DOMAIN escaped |->
               IF i = 1 THEN escaped[1] ELSE <<",">> \o escaped[i]])

\* The row, or the code it is refused with.
ParseRow(source) ==
    LET byField == Partition(source, ":")
        byOp    == Partition(byField.after, ":")
        negated == byOp.before # <<>> /\ Head(byOp.before) = "!"
        op      == IF negated THEN Tail(byOp.before) ELSE byOp.before
    IN  IF ~ byField.found \/ ~ byOp.found \/ byField.before = <<>>
        THEN [error |-> "bad_filter_param", row |-> NoRow]
        ELSE IF Len(op) # 1 \/ ~ ToSet(op) \subseteq Operators
        THEN [error |-> "operator_not_allowed", row |-> NoRow]
        ELSE [error |-> "", row |-> FilterRow(IF Len(byField.before) = 1 THEN byField.before[1]
                                              ELSE "", op[1], SplitValues(byOp.after), negated)]

\* The condition, refused for its arity or by the catalogue.
CheckedCond(field, op, values) ==
    IF ~ CheckArity(op, values) THEN [error |-> "bad_value", node |-> FilterAll(<<>>)]
    ELSE [error |-> ConditionError(FilterCond(field, op, values)),
          node |-> FilterCond(field, op, values)]

\* Several values of a glob, a network or a bound: any of them.
AnyOfAll(row) ==
    LET conds == [i \in DOMAIN row.values |-> CheckedCond(row.field, row.op, <<row.values[i]>>)]
        bad   == SelectInSeq(conds, LAMBDA c : c.error # "")
    IN  IF conds = <<>> THEN [error |-> "bad_value", node |-> FilterAll(<<>>)]
        ELSE IF bad > 0 THEN conds[bad]
        ELSE [error |-> "", node |-> FilterAll([i \in DOMAIN conds |-> conds[i].node])]

AnyOf(row) ==
    LET conds == [i \in DOMAIN row.values |-> CheckedCond(row.field, row.op, <<row.values[i]>>)]
        bad   == SelectInSeq(conds, LAMBDA c : c.error # "")
    IN  IF conds = <<>> THEN [error |-> "bad_value", node |-> FilterAll(<<>>)]
        ELSE IF bad > 0 THEN conds[bad]
        ELSE [error |-> "", node |-> FilterAny([i \in DOMAIN conds |-> conds[i].node])]

ConditionOf(row) ==
    CASE row.op = "exists" ->
           IF row.values \in {<<>>, <<<<>>>>} THEN CheckedCond(row.field, "exists", <<>>)
           ELSE [error |-> "bad_value", node |-> FilterAll(<<>>)]
      [] row.op \in {"in", "between"} -> CheckedCond(row.field, row.op, row.values)
      [] OTHER ->
           IF Len(row.values) = 1 THEN CheckedCond(row.field, row.op, row.values)
           ELSE IF row.op = "eq" THEN CheckedCond(row.field, "in", row.values)
           ELSE AnyOf(row)

RowToNode(row) ==
    LET c == ConditionOf(row) IN
    IF row.negated /\ c.error = "" THEN [c EXCEPT !.node = FilterNot(c.node)] ELSE c

\* What GET routes make of one row.
NodeFor(source) ==
    LET p == ParseRow(source) IN
    IF p.error # "" THEN [error |-> p.error, row |-> NoRow, node |-> FilterAll(<<>>)]
    ELSE LET c == RowToNode(p.row) IN [error |-> c.error, row |-> p.row, node |-> c.node]

-----------------------------------------------------------------------------
RowsInit == \E start \in RowStarts : raw = start /\ answer = NodeFor(start)

TypeChar(c) ==
    /\ Len(raw) < MaxRowChars
    /\ raw' = Append(raw, c)
    /\ answer' = NodeFor(raw')

RowsNext == \E c \in ValueChars : TypeChar(c)

RowsSpec == RowsInit /\ [][RowsNext]_rvars
=============================================================================
