-------------------------------- MODULE Lql --------------------------------
(***************************************************************************)
(* The query language (search/lql.py): the text is cut into tokens, a      *)
(* recursive descent turns the tokens into a filter, and the filter is     *)
(* printed back in its canonical form.  A position is a place in the text, *)
(* and an error spans the places a client underlines.                      *)
(***************************************************************************)
EXTENDS Filters

CONSTANTS
    Phrases,  \* what is typed at once: each ends with a space
    Openers,  \* what is typed only among the first two phrases
    MaxPhrases

VARIABLES
    text,    \* what has been typed
    parsed,  \* what POST /lql/parse answers for it
    typed    \* how many phrases

lvars == <<text, parsed, typed>>

-----------------------------------------------------------------------------
(* Tokens.                                                                 *)

Keywords == {"and", "or", "not", "in", "cidr", "between", "has"}

\* PUNCTUATION; "!=", ">=" and "<=" are one character each.
Punctuation == {"!=", ">=", "<=", "(", ")", ",", "=", "~"}

BareChar(c) == c \notin Punctuation \cup {" ", "\"", "!"}

SymbolOps == [s \in {"=", "!=", "~", ">=", "<="} |->
                 CASE s \in {"=", "!="} -> "eq" [] s = "~" -> "glob"
                   [] s = ">=" -> "gte" [] s = "<=" -> "lte"]

Token(kind, value, pos, end) == [kind |-> kind, value |-> value, pos |-> pos, end |-> end]

\* Where the token that starts at i ends: a quoted text at its closing
\* quote (0 when there is none), a bare one with its run of characters.
RECURSIVE ClosingQuote(_, _)
ClosingQuote(source, i) ==
    IF i > Len(source) THEN 0
    ELSE IF source[i] = "\"" THEN i
    ELSE ClosingQuote(source, IF source[i] = "\\" /\ i < Len(source) THEN i + 2 ELSE i + 1)

BareEnd(source, i) ==
    CHOOSE j \in i .. Len(source) :
        /\ \A k \in i .. j : BareChar(source[k])
        /\ j = Len(source) \/ ~ BareChar(source[j + 1])

RECURSIVE Unescape(_)
Unescape(quoted) ==
    IF quoted = <<>> THEN <<>>
    ELSE IF Head(quoted) = "\\" /\ Len(quoted) > 1
         THEN <<quoted[2]>> \o Unescape(SubSeq(quoted, 3, Len(quoted)))
         ELSE <<Head(quoted)>> \o Unescape(Tail(quoted))

Quoted(source, i) ==
    LET close == ClosingQuote(source, i + 1) IN
    IF close = 0 THEN Token("error", <<>>, i, Len(source))
    ELSE Token("string", Unescape(SubSeq(source, i + 1, close - 1)), i, close)

NextToken(source, i) ==
    LET c == source[i] IN
    CASE c = "\""          -> Quoted(source, i)
      [] c \in Punctuation -> Token("punct", <<c>>, i, i)
      [] BareChar(c)       -> LET end == BareEnd(source, i)
                              IN  Token("bare", SubSeq(source, i, end), i, end)
      [] OTHER             -> Token("error", <<>>, i, i)

RECURSIVE TokensFrom(_, _)
TokensFrom(source, i) ==
    IF i > Len(source)
    THEN <<Token("end", <<>>, Len(source) + 1, Len(source) + 1)>>
    ELSE IF source[i] = " " THEN TokensFrom(source, i + 1)
    ELSE LET t == NextToken(source, i)
         IN  IF t.kind = "error" THEN <<t>> ELSE <<t>> \o TokensFrom(source, t.end + 1)

Tokenize(source) == TokensFrom(source, 1)

\* A text that is not cut into tokens ends in an error token.
Tokenizes(source) == Last(Tokenize(source)).kind = "end"

\* The keyword a bare token stands for, in either case.
Keyword(t) ==
    IF t.kind = "bare" /\ Len(t.value) = 1 /\ Fold(t.value)[1] \in Keywords
    THEN Fold(t.value)[1] ELSE ""

IsPunct(t, c) == t.kind = "punct" /\ t.value = <<c>>

IsValue(t) == t.kind \in {"bare", "string"}

IsField(t) == t.kind = "bare" /\ Keyword(t) = ""

-----------------------------------------------------------------------------
(* The parser: each rule reads the tokens from i on and answers the filter *)
(* and where it stopped, or the span of the error.                         *)

Nothing == FilterAll(<<>>)

Got(node, i) == [ok |-> TRUE, node |-> node, at |-> i, pos |-> 0, end |-> 0]

Error(pos, end) == [ok |-> FALSE, node |-> Nothing, at |-> 0, pos |-> pos, end |-> end]

ErrorAt(t) == Error(t.pos, t.end)

\* A condition stands when its field, operator and values do; the error of
\* one that does not spans all of it.
Condition(t, i, op, values, next) ==
    LET name  == t[i].value
        field == IF Len(name) > 1 THEN ""
                 ELSE IF name[1] \in DOMAIN FieldDefs THEN name[1] ELSE Fold(name)[1]
    IN  IF CheckArity(op, values) /\ ConditionError(FilterCond(field, op, values)) = ""
        THEN Got(FilterCond(field, op, values), next)
        ELSE Error(t[i].pos, t[next - 1].end)

\* The operator is at i + 1 and its one value at i + 2.
SingleValue(t, i, op) ==
    IF IsValue(t[i + 2]) THEN Condition(t, i, op, <<t[i + 2].value>>, i + 3) ELSE ErrorAt(t[i + 2])

RECURSIVE ParseIn(_, _, _, _)
ParseInAtValue(t, i, values, j) ==
    LET all == Append(values, t[j].value) IN
    CASE IsValue(t[j]) /\ IsPunct(t[j + 1], ",") -> ParseIn(t, i, all, j + 2)
      [] IsValue(t[j]) /\ IsPunct(t[j + 1], ")") -> Condition(t, i, "in", all, j + 2)
      [] OTHER -> ErrorAt(t[j])

ParseIn(t, i, values, j) ==
    IF ~ IsValue(t[j]) THEN ErrorAt(t[j])
    ELSE LET all == Append(values, t[j].value) IN
         IF IsPunct(t[j + 1], ",") THEN ParseIn(t, i, all, j + 2)
         ELSE IF IsPunct(t[j + 1], ")") THEN Condition(t, i, "in", all, j + 2)
         ELSE ErrorAt(t[j + 1])

Dots == <<".", ".">>

\* str.partition(".."): the place of the first ".." in a text, 0 for none.
RangeAt(value) ==
    IF \E k \in 1 .. Len(value) - 1 : SubSeq(value, k, k + 1) = Dots
    THEN CHOOSE k \in 1 .. Len(value) - 1 :
             /\ SubSeq(value, k, k + 1) = Dots
             /\ \A l \in 1 .. k - 1 : SubSeq(value, l, l + 1) # Dots
    ELSE 0

\* Both bounds in one text, or the upper one in the text that follows.
WithHigh(t, i, low, rest, next) ==
    IF rest # <<>> THEN Condition(t, i, "between", <<low, rest>>, next)
    ELSE IF IsValue(t[next]) THEN Condition(t, i, "between", <<low, t[next].value>>, next + 1)
    ELSE ErrorAt(t[next])

ParseBetween(t, i) ==
    LET first == t[i + 2]
        k     == RangeAt(first.value)
    IN  IF ~ IsValue(first) \/ k = 1 THEN ErrorAt(first)
        ELSE IF k > 1
        THEN WithHigh(t, i, SubSeq(first.value, 1, k - 1),
                      SubSeq(first.value, k + 2, Len(first.value)), i + 3)
        ELSE LET separator == t[i + 3] IN
             IF separator.kind = "bare" /\ IsPrefix(Dots, separator.value)
             THEN WithHigh(t, i, first.value,
                           SubSeq(separator.value, 3, Len(separator.value)), i + 4)
             ELSE ErrorAt(separator)

ParseCondition(t, i) ==
    LET op == t[i + 1] IN
    IF ~ IsField(t[i]) THEN ErrorAt(t[i])
    ELSE IF op.kind = "punct" /\ op.value[1] \in DOMAIN SymbolOps
    THEN LET p == SingleValue(t, i, SymbolOps[op.value[1]])
         IN  IF p.ok /\ IsPunct(op, "!=") THEN [p EXCEPT !.node = FilterNot(p.node)] ELSE p
    ELSE CASE Keyword(op) = "in"      -> IF IsPunct(t[i + 2], "(") THEN ParseIn(t, i, <<>>, i + 3)
                                         ELSE ErrorAt(t[i + 2])
           [] Keyword(op) = "cidr"    -> SingleValue(t, i, "cidr")
           [] Keyword(op) = "between" -> ParseBetween(t, i)
           [] OTHER                   -> ErrorAt(op)

\* Two operands that stand side by side are joined as by "and".
StartsUnary(t) ==
    CASE t.kind = "end"   -> FALSE
      [] t.kind = "punct" -> IsPunct(t, "(")
      [] OTHER            -> Keyword(t) \in {"", "not", "has"}

\* What follows a rule's inner p: a negation, a closing parenthesis, another
\* operand of the same kind, the end of the text.
Negated(p) == IF p.ok THEN Got(FilterNot(p.node), p.at) ELSE p

Closed(t, p) ==
    IF ~ p.ok THEN p
    ELSE IF IsPunct(t[p.at], ")") THEN Got(p.node, p.at + 1) ELSE ErrorAt(t[p.at])

Joining(all, node) == IF Len(all) = 1 THEN all[1] ELSE node

RECURSIVE ParseOr(_, _, _), MoreOr(_, _, _), ParseAnd(_, _, _), MoreAnd(_, _, _), ParseUnary(_, _)

ParseUnary(t, i) ==
    CASE Keyword(t[i]) = "not" -> Negated(ParseUnary(t, i + 1))
      [] IsPunct(t[i], "(")    -> Closed(t, ParseOr(t, i + 1, <<>>))
      [] Keyword(t[i]) = "has" -> IF IsField(t[i + 1]) THEN Condition(t, i + 1, "exists", <<>>, i + 2)
                                  ELSE ErrorAt(t[i + 1])
      [] OTHER                 -> ParseCondition(t, i)

ParseAnd(t, i, parts) == MoreAnd(t, parts, ParseUnary(t, i))

MoreAnd(t, parts, p) ==
    IF ~ p.ok THEN p
    ELSE LET all == Append(parts, p.node) IN
         IF Keyword(t[p.at]) = "and" THEN ParseAnd(t, p.at + 1, all)
         ELSE IF StartsUnary(t[p.at]) THEN ParseAnd(t, p.at, all)
         ELSE Got(Joining(all, FilterAll(all)), p.at)

ParseOr(t, i, options) == MoreOr(t, options, ParseAnd(t, i, <<>>))

MoreOr(t, options, p) ==
    IF ~ p.ok THEN p
    ELSE LET all == Append(options, p.node) IN
         IF Keyword(t[p.at]) = "or" THEN ParseOr(t, p.at + 1, all)
         ELSE Got(Joining(all, FilterAny(all)), p.at)

Whole(t, p) == IF p.ok /\ t[p.at].kind # "end" THEN ErrorAt(t[p.at]) ELSE p

ParseTokens(t) ==
    CASE Last(t).kind # "end" -> ErrorAt(Last(t))
      [] t[1].kind = "end"    -> Got(Nothing, 1)
      [] OTHER                -> Whole(t, ParseOr(t, 1, <<>>))

Parse(source) == ParseTokens(Tokenize(source))

-----------------------------------------------------------------------------
(* Printing.                                                               *)

Joined(texts, between) ==
    FoldLeft(LAMBDA line, part : IF line = <<>> THEN part ELSE line \o between \o part, <<>>, texts)

NeedsQuotes(value) ==
    \/ value = <<>>
    \/ \E i \in DOMAIN value : ~ BareChar(value[i])
    \/ Len(value) = 1 /\ Fold(value)[1] \in Keywords

Quote(value) ==
    IF ~ NeedsQuotes(value) THEN value
    ELSE <<"\"">>
         \o FlattenSeq([i \in DOMAIN value |->
                IF value[i] \in {"\\", "\""} THEN <<"\\", value[i]>> ELSE <<value[i]>>])
         \o <<"\"">>

Spaced(words) == Joined(words, <<" ">>)

PrintCondition(cond) ==
    LET values == [i \in DOMAIN cond.values |-> Quote(cond.values[i])]
        field  == <<cond.field>>
    IN  CASE cond.op = "exists"  -> Spaced(<<<<"has">>, field>>)
          [] cond.op = "in"      -> Spaced(<<field, <<"in">>,
                                             <<"(">> \o Joined(values, <<",", " ">>) \o <<")">>>>)
          [] cond.op = "between" -> Spaced(<<field, <<"between">>, values[1], Dots, values[2]>>)
          [] OTHER -> LET symbol == CASE cond.op = "eq" -> "=" [] cond.op = "glob" -> "~"
                                      [] cond.op = "gte" -> ">=" [] cond.op = "lte" -> "<="
                                      [] cond.op = "cidr" -> "cidr"
                      IN  Spaced(<<field, <<symbol>>, values[1]>>)

WrapInAndNever(node, printed) == printed

WrapInAnd(node, printed) ==
    IF node.kind = "any" THEN <<"(">> \o printed \o <<")">> ELSE printed

RECURSIVE Normalize(_)
Normalize(node) ==
    LET printed == [i \in DOMAIN node.parts |-> Normalize(node.parts[i])] IN
    CASE node.kind = "all"  -> Joined([i \in DOMAIN printed |-> WrapInAnd(node.parts[i], printed[i])],
                                      <<" ", "and", " ">>)
      [] node.kind = "any"  -> Joined(printed, <<" ", "or", " ">>)
      [] node.kind = "not"  -> <<"not", " ", "(">> \o printed[1] \o <<")">>
      [] node.kind = "cond" -> PrintCondition(node)

-----------------------------------------------------------------------------
(* A client types a query, phrase by phrase, and has it parsed each time.  *)

\* The error, if any, is where the next phrase could still mend it.
Open == parsed.ok \/ parsed.end >= Len(text)

LqlInit == text = <<>> /\ parsed = Parse(<<>>) /\ typed = 0

TypePhrase(phrase) ==
    /\ typed < MaxPhrases
    /\ Open \/ typed < 2
    /\ text' = text \o phrase
    /\ parsed' = Parse(text')
    /\ typed' = typed + 1

LqlNext == \E phrase \in Phrases \cup (IF typed < 2 THEN Openers ELSE {}) : TypePhrase(phrase)

LqlSpec == LqlInit /\ [][LqlNext]_lvars
=============================================================================
