---------------------------- MODULE QueryParser -----------------------------
(***************************************************************************)
(* parse_query (semfs-core/src/query/parser.rs) with the date and extension*)
(* filters (filter.rs). A query is a sequence of atoms, the pieces of text *)
(* the patterns of the parser tell apart:                                  *)
(*   space   one blank             quote  a quotation mark, all of one kind*)
(*   word    text of no meaning    stop   a stop word such as "eseo"       *)
(*   file    "pail"                made   "jakseonghan", "mandeun"         *)
(*   code    "file" and "code", which are cleaned up but are no stop words *)
(*   ext     a name of a file type go     "Go", "Java"                     *)
(*   year    four digits, nyeon and e     num   fewer than four digits     *)
(*   wide, widenum  the same with digits of another script                 *)
(*   recent  "choegeun"            past   "jinan"     this   "ibeon"       *)
(*   month   "dal", also a unit    day    the other units                  *)
(*   oldest  "oraedoen"            names  "ireumsun"                       *)
(* Adjacent atoms are glued together: no pattern has a word boundary, but  *)
(* for the ends of Go's and Java's. Runs of five digits or more are left   *)
(* out.                                                                    *)
(***************************************************************************)
EXTENDS Integers, Sequences, SequencesExt, FiniteSets, Ordering

CONSTANTS Typed,     \* the atoms of the instance
          Months,    \* the months in which it is now
          MaxAtoms   \* bound: atoms of a query

Atom == {"space", "quote", "word", "stop", "file", "code", "made", "ext", "go", "year",
         "wide", "num", "widenum", "recent", "past", "this", "month", "day", "oldest", "names"}

ASSUME QueryAssumption ==
  Typed \subseteq Atom /\ Months \subseteq 1..12 /\ MaxAtoms \in Nat

VARIABLES input,     \* the query
          qphase,    \* where parse_query is
          rest,      \* `text`: what is left of the query
          dated,     \* the DateRange filter, or {}
          typed,     \* whether there is an Extension filter
          sort,      \* the SortOrder
          semantic   \* semantic_query: a sequence of words

queryVars == <<input, qphase, rest, dated, typed, sort, semantic>>

QueryPhase == {"given", "date", "extension", "words", "parsed", "panicked"}
SortOrder == {"Relevance", "DateDesc", "DateAsc", "NameAsc"}

QueryTypeOK ==
  /\ input \in Seq(Typed) /\ Len(input) <= MaxAtoms /\ qphase \in QueryPhase
  /\ rest \in Seq(Atom) /\ Len(rest) <= Len(input)
  /\ typed \in BOOLEAN /\ sort \in SortOrder
  /\ \A i \in 1..Len(semantic) : semantic[i] # << >> /\ semantic[i] \in Seq(Atom \ {"space"})

QueryInit ==
  /\ input = << >> /\ qphase = "given" /\ rest = << >>
  /\ dated = {} /\ typed = FALSE /\ sort = "Relevance" /\ semantic = << >>

\* Digits side by side are one atom.
Digits == {"year", "wide", "num", "widenum"}

TypeAtom ==
  /\ qphase = "given" /\ Len(input) < MaxAtoms
  /\ \E a \in Typed :
       /\ a \in Digits /\ input # << >> => Last(input) \notin Digits
       /\ input' = Append(input, a)
  /\ UNCHANGED <<qphase, rest, dated, typed, sort, semantic>>

-----------------------------------------------------------------------------
Trim(s) ==
  LET ink == {i \in 1..Len(s) : s[i] # "space"}
  IN  IF ink = {} THEN << >> ELSE SubSeq(s, Min(ink), Max(ink))

\* starts_with and ends_with hold of a single quotation mark too, and then the
\* slice [1..0] panics.
Quoted(s) == s # << >> /\ Head(s) = "quote" /\ Last(s) = "quote"
Unquote(s) == IF Quoted(s) THEN SubSeq(s, 2, Len(s) - 1) ELSE s

RemoveQuotes ==
  /\ qphase = "given"
  /\ LET s == Trim(input) IN
       /\ qphase' = IF Quoted(s) /\ Len(s) = 1 THEN "panicked" ELSE "date"
       /\ rest' = Unquote(s)
  /\ UNCHANGED <<input, dated, typed, sort, semantic>>

-----------------------------------------------------------------------------
\* A match of a pattern is a pair of positions, the first and the last atom.
\* It is cut out. (Mutated form: everything behind it is cut out with it.)
CutRest(s, m) == Trim(SubSeq(s, 1, m[1] - 1))
Cut(s, m) == Trim(SubSeq(s, 1, m[1] - 1) \o SubSeq(s, m[2] + 1, Len(s)))

\* Leftmost: the match that begins first.
First(ms) == CHOOSE m \in ms : \A k \in ms : m[1] <= k[1]

\* The position after the blanks (\s*) at i and on.
Skip(s, i) == Min({j \in i..(Len(s) + 1) : j > Len(s) \/ s[j] # "space"})
IsAt(s, i, atoms) == i <= Len(s) /\ s[i] \in atoms

\* (\d{4})nyeon?e?\s*(made)?: the blanks are taken also when nothing follows.
YearMatches(s) ==
  {<<i, IF IsAt(s, Skip(s, i + 1), {"made"}) THEN Skip(s, i + 1) ELSE Skip(s, i + 1) - 1>> :
     i \in {j \in 1..Len(s) : s[j] \in {"year", "wide"}}}

\* (recent|past)\s*(\d+)\s*(unit)
RecentMatches(s) ==
  {<<i, Skip(s, Skip(s, i + 1) + 1)>> :
     i \in {j \in 1..Len(s) : /\ s[j] \in {"recent", "past"}
                              /\ IsAt(s, Skip(s, j + 1), {"num", "widenum"})
                              /\ IsAt(s, Skip(s, Skip(s, j + 1) + 1), {"month", "day"})}}

\* (pastmonth|this\s*month)
MonthMatches(s) ==
  {<<i, Skip(s, i + 1)>> :
     i \in {j \in 1..Len(s) : /\ s[j] \in {"past", "this"}
                              /\ IsAt(s, Skip(s, j + 1), {"month"})
                              /\ s[j] = "past" => Skip(s, j + 1) = j + 1}}

\* Only "this month" with at most one blank in it is compared equal; anything
\* else that matched is last month.
SaysThis(s, m) == s[m[1]] = "this" /\ m[2] <= m[1] + 2

\* The month meant, <<year, month>> with the present year 0, and the month whose
\* first second ends the range. (Mutated form: January has no last month.)
MeantNoWrap(m, this) == IF this THEN <<0, m>> ELSE <<0, m - 1>>
Meant(m, this) == IF this THEN <<0, m>> ELSE IF m = 1 THEN <<0 - 1, 12>> ELSE <<0, m - 1>>
Following(ym) == IF ym[2] = 12 THEN <<ym[1] + 1, 1>> ELSE <<ym[1], ym[2] + 1>>

\* \d matches the digits of every script, and parse() only ASCII ones.
Number(s, m) == CHOOSE i \in m[1]..m[2] : s[i] \in Digits
Parses(s, m) == s[Number(s, m)] \in {"year", "num"}

ExtractDate ==
  /\ qphase = "date"
  /\ \/ /\ YearMatches(rest) # {}
        /\ LET m == First(YearMatches(rest)) IN
             \/ /\ Parses(rest, m) /\ qphase' = "extension"
                /\ dated' = {[kind |-> "year"]} /\ rest' = Cut(rest, m)
             \/ ~Parses(rest, m) /\ qphase' = "panicked" /\ UNCHANGED <<dated, rest>>
     \/ /\ YearMatches(rest) = {} /\ RecentMatches(rest) # {}
        /\ LET m == First(RecentMatches(rest)) IN
             \/ /\ Parses(rest, m) /\ qphase' = "extension"
                /\ dated' = {[kind |-> "recent"]} /\ rest' = Cut(rest, m)
             \/ ~Parses(rest, m) /\ qphase' = "panicked" /\ UNCHANGED <<dated, rest>>
     \/ /\ YearMatches(rest) = {} /\ RecentMatches(rest) = {} /\ MonthMatches(rest) # {}
        /\ LET m == First(MonthMatches(rest)) IN
             /\ \E now \in Months :
                  LET month == Meant(now, SaysThis(rest, m))
                  IN  dated' = {[kind |-> "month", now |-> now, from |-> month,
                                 until |-> Following(month)]}
             /\ rest' = Cut(rest, m)
        /\ qphase' = "extension"
     \/ /\ YearMatches(rest) = {} /\ RecentMatches(rest) = {} /\ MonthMatches(rest) = {}
        /\ qphase' = "extension" /\ UNCHANGED <<dated, rest>>
  /\ UNCHANGED <<input, typed, sort, semantic>>

\* Where a file type is named: "Go" and "Java" are names before a blank, a
\* quotation mark or the end, the others also inside a word.
Bounded(s, i) == i = Len(s) \/ s[i + 1] \in {"space", "quote"}
Named(s) ==
  {<<i, i>> : i \in {j \in 1..Len(s) : s[j] = "ext" \/ (s[j] = "go" /\ Bounded(s, j))}}

\* Of several names the first in the list of the mappings is cut out: the model
\* does not tell names apart, so it may be any. Every "file" and "code", also
\* inside a word, becomes a blank.
WithoutFile(s) == [i \in 1..Len(s) |-> IF s[i] \in {"file", "code"} THEN "space" ELSE s[i]]

ExtractExtension ==
  /\ qphase = "extension" /\ qphase' = "words"
  /\ \/ /\ typed' = TRUE
        /\ \E m \in Named(rest) : rest' = Trim(WithoutFile(Cut(rest, m)))
     \/ Named(rest) = {} /\ UNCHANGED <<typed, rest>>
  /\ UNCHANGED <<input, dated, sort, semantic>>

-----------------------------------------------------------------------------
\* Where words begin, and where a word that begins at i ends.
Begins(s) == {i \in 1..Len(s) : s[i] # "space" /\ (i = 1 \/ s[i - 1] = "space")}
EndOf(s, i) == Max({j \in i..Len(s) : \A k \in i..j : s[k] # "space"})

WordAt(s, i) == SubSeq(s, i, EndOf(s, i))

\* The words that begin at the given places, and split_whitespace.
WordsAt(s, places) ==
  LET b == Ascending(places) IN [n \in 1..Cardinality(places) |-> WordAt(s, b[n])]
Words(s) == WordsAt(s, Begins(s))

StopWord == {<<"stop">>, <<"file">>, <<"made">>}

\* The order of the tests decides.
SortOf(s) ==
  IF Contains(s, "recent") THEN "DateDesc"
  ELSE IF Contains(s, "oldest") THEN "DateAsc"
  ELSE IF Contains(s, "names") THEN "NameAsc" ELSE "Relevance"

FindWords ==
  /\ qphase = "words" /\ qphase' = "parsed"
  /\ sort' = SortOf(rest)
  /\ semantic' = WordsAt(rest, {i \in Begins(rest) : WordAt(rest, i) \notin StopWord})
  /\ UNCHANGED <<input, rest, dated, typed>>

QueryStep == RemoveQuotes \/ ExtractDate \/ ExtractExtension \/ FindWords
QueryNext == TypeAtom \/ QueryStep
QuerySpec == QueryInit /\ [][QueryNext]_queryVars

-----------------------------------------------------------------------------
Parsed == qphase = "parsed"
Asked == Unquote(Trim(input))

\* A year glued to the word before it takes the blanks behind it along, and
\* joins that word to the next: "report2024 budget" is "reportbudget".
YearJoins ==
  YearMatches(Asked) # {} /\
    LET m == First(YearMatches(Asked)) IN
      m[1] > 1 /\ Asked[m[1] - 1] # "space" /\ m[2] > m[1] /\ m[2] < Len(Asked)

Count(s, w) == Cardinality({i \in 1..Len(s) : s[i] = w})

(* A word that is none of the parser's own is searched for: no filter, no  *)
(* sort order and no stop word takes it along, wherever they stand, unless *)
(* a year was glued to another word (parser.rs:20-66, filter.rs).          *)
PlainWordsKept ==
  Parsed /\ ~YearJoins => Count(semantic, <<"word">>) >= Count(Words(Asked), <<"word">>)

(* What is found in one part of a query does not hide what is in another:  *)
(* a date and a file type are both recognised in any order, and a sort     *)
(* order when its word is not part of the date. The range of a month is    *)
(* one whole month: "last month" ends where this month begins, in January  *)
(* too, and "this month", written with one blank or none, contains the     *)
(* present month (parser.rs:20-42, filter.rs:47-79).                       *)
WholeMonth(d) ==
  LET m == First(MonthMatches(Asked)) IN
    /\ d.from[2] \in 1..12
    /\ IF SaysThis(Asked, m) THEN d.from = <<0, d.now>> /\ d.until = Following(<<0, d.now>>)
       ELSE d.until = <<0, d.now>> /\ Following(d.from) = d.until

FiltersFound ==
  Parsed =>
    /\ Named(Asked) # {} => typed
    /\ typed => Contains(Asked, "ext") \/ Contains(Asked, "go")
    /\ (dated # {}) <=> YearMatches(Asked) \cup RecentMatches(Asked) \cup MonthMatches(Asked) # {}
    /\ sort = "DateDesc" <=>
         Count(Asked, "recent") > (IF dated = {[kind |-> "recent"]}
                                      /\ Asked[First(RecentMatches(Asked))[1]] = "recent"
                                   THEN 1 ELSE 0)
    /\ \A d \in dated : d.kind = "month" => WholeMonth(d)

-----------------------------------------------------------------------------
(* tests/integration_test.rs:375: "Any string input to parse_query should  *)
(* never panic".                                                           *)
NeverPanics == qphase # "panicked"
=============================================================================
