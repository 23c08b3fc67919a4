------------------------------ MODULE FileFilter ------------------------------
(***************************************************************************)
(* The filter of a backup: how a rule is read from text, by the command    *)
(* line (libbackup/src/filter/FilterParser.cpp) and by the window          *)
(* (gui/src/widgets/FilterSetupWidget.cpp), what a rule accepts            *)
(* (FilterRule.cpp) and what all rules together accept                     *)
(* (CompositeFilter.cpp).                                                  *)
(*                                                                         *)
(* An entry is a record with one field for each of the nine dimensions. A  *)
(* row is what the user wrote: include or exclude, a dimension, and the    *)
(* value under it. Values are taken apart at the separators the parsers    *)
(* look for; a glob is the set of the strings it matches (fnmatch), dates  *)
(* are days. Like the class FilterRule, rows and rules have a field for    *)
(* every kind of value and use the one their dimension asks for.           *)
(*                                                                         *)
(* The module has no state.                                                *)
(***************************************************************************)
EXTENDS Integers

CONSTANTS
    Kilo,           \* bytes in a K; 1024 in the code
    IdOf,           \* getpwnam, getgrnam: the function from known names to ids
    Short           \* a date of fewer than ten characters (2024-6-1)

ASSUME KiloAssumption == Kilo \in Nat \ {0}

Times == {"mtime", "atime", "ctime"}
Dimensions == {"path", "name", "type", "size", "owner", "group"} \cup Times

Types == {"f", "d", "l", "p", "b", "c", "s"}

NoType == "none"    \* a typeMask_ of 0
NoId == -1          \* static_cast<uid_t>(-1)
LongAgo == -1       \* the last day of 1899, mktime of an empty tm

-----------------------------------------------------------------------------
(* Values as they are written *)

\* A size: an operator, a number and a unit, or two numbers around a colon (":",
\* with the second one in n2).
SizeText(op, n, unit, n2) == [op |-> op, n |-> n, unit |-> unit, n2 |-> n2]

Multiplier(unit) ==
    CASE unit = "G" -> Kilo * Kilo * Kilo
      [] unit = "M" -> Kilo * Kilo
      [] unit = "K" -> Kilo
      [] unit \in {"B", ""} -> 1

\* A time: "before", "after" or "between", and one or two dates: days, or Short.
TimeText(op, d, d2) == [op |-> op, d |-> d, d2 |-> d2]

-----------------------------------------------------------------------------
(* FilterParser *)

Size(op, v1, v2) == [op |-> op, v1 |-> v1, v2 |-> v2]

\* In a range strtoll stops at a unit, and nothing multiplies.
parseSizeValue(t) ==
    IF t.op = ":" THEN Size("RANGE", t.n, t.n2)
    ELSE Size(CASE t.op \in {"+", ">"} -> "GT"
                [] t.op \in {"-", "<"} -> "LT"
                [] t.op = ">="         -> "GE"
                [] t.op = "<="         -> "LE"
                [] t.op \in {"=", ""}  -> "EQ",
              t.n * Multiplier(t.unit), 0)

parseDate(d) == IF d = Short THEN LongAgo ELSE d

parseTimeValue(t) ==
    [op |-> t.op, v1 |-> parseDate(t.d),
     v2 |-> IF t.op = "between" THEN parseDate(t.d2) ELSE 0]

\* A value that is all digits is an id, anything else a name.
parseId(v) ==
    IF v \in Int THEN v ELSE IF v \in DOMAIN IdOf THEN IdOf[v] ELSE NoId

parseType(v) == IF v \in Types THEN v ELSE NoType

\* Rows that are no rule: an empty value, an unknown dimension, a type of more
\* than one letter, a time without a known operator.
Ignored(row) ==
    \/ row.empty \/ row.dim \notin Dimensions
    \/ row.dim = "type" /\ row.type = "long"
    \/ row.dim \in Times /\ row.time.op \notin {"before", "after", "between"}

parseOne(row) ==
    [action |-> row.action, dim |-> row.dim, glob |-> row.glob,
     type |-> parseType(row.type), time |-> parseTimeValue(row.time),
     size |-> parseSizeValue(row.size), id |-> parseId(row.id)]

\* The options of one command line: every --filter- option that is a rule. The
\* order of the rules does not matter to any use of them.
parse(rows) == {parseOne(row) : row \in {r \in rows : ~ Ignored(r)}}

-----------------------------------------------------------------------------
(* FilterSetupWidget: the same rows, read by other code *)

\* The window tests the first character only, and gives strtoll what follows +, >,
\* - or <, and the whole text otherwise: a '=' that is left over reads as 0.
GuiNumber(t) ==
    IF t.op \in {"=", ">=", "<="} THEN 0 ELSE t.n * Multiplier(t.unit)

GuiSize(t) ==
    IF t.op = ":" THEN Size("RANGE", t.n, t.n2)
    ELSE Size(CASE t.op \in {"+", ">", ">="} -> "GT"
                [] t.op \in {"-", "<", "<="} -> "LT"
                [] t.op \in {"=", ""}        -> "EQ",
              GuiNumber(t), 0)

\* Everything else is read as the command line reads it, but that a Short date in
\* a between ends the program there: stoi throws.
buildFilter(rows) ==
    {[parseOne(row) EXCEPT !.size = GuiSize(row.size)] :
        row \in {r \in rows : ~ Ignored(r)}}

-----------------------------------------------------------------------------
(* FilterRule::matches *)

matchTime(time, t) ==
    \/ time.op = "before"  /\ t < time.v1
    \/ time.op = "after"   /\ t > time.v1
    \/ time.op = "between" /\ time.v1 <= t /\ t <= time.v2

matchSize(size, sz) ==
    \/ size.op = "EQ" /\ sz = size.v1
    \/ size.op = "GT" /\ sz > size.v1
    \/ size.op = "LT" /\ sz < size.v1
    \/ size.op = "GE" /\ sz >= size.v1
    \/ size.op = "LE" /\ sz <= size.v1
    \/ size.op = "RANGE" /\ size.v1 <= sz /\ sz <= size.v2

Hit(rule, info) ==
    LET x == info[rule.dim] IN
    \/ rule.dim \in {"path", "name"} /\ x \in rule.glob
    \/ rule.dim = "type" /\ x = rule.type
    \/ rule.dim \in Times /\ matchTime(rule.time, x)
    \/ rule.dim = "size" /\ matchSize(rule.size, x)
    \/ rule.dim \in {"owner", "group"} /\ x = rule.id

-----------------------------------------------------------------------------
(* CompositeFilter *)

Includes(rules) == {r \in rules : r.action = "include"}

isExcluded(rules, info) == \E r \in rules : r.action = "exclude" /\ Hit(r, info)

Mutant_matches(rules, info) ==                  \* all includes OR'd
    /\ ~ isExcluded(rules, info)
    /\ Includes(rules) = {} \/ \E r \in Includes(rules) : Hit(r, info)

\* No exclude rule hits, and in every dimension that has an include rule one hits.
matches(rules, info) ==
    /\ ~ isExcluded(rules, info)
    /\ \A dim \in {r.dim : r \in Includes(rules)} :
           \E r \in Includes(rules) : r.dim = dim /\ Hit(r, info)

-----------------------------------------------------------------------------
(* What the usage text of the program says the rows mean *)

MeansSize(t, sz) ==
    LET v == t.n * (CASE t.unit = "M" -> Kilo * Kilo [] t.unit = "K" -> Kilo
                      [] t.unit = "G" -> Kilo * Kilo * Kilo [] OTHER -> 1) IN
    CASE t.op \in {"+", ">"} -> sz > v
      [] t.op \in {"-", "<"} -> sz < v
      [] t.op = ">=" -> sz >= v
      [] t.op = "<=" -> sz <= v
      [] t.op \in {"=", ""} -> sz = v
      [] t.op = ":" -> sz \in t.n .. t.n2

MeansTime(t, day) ==
    CASE t.op = "before" -> day < t.d
      [] t.op = "after" -> day > t.d
      [] t.op = "between" -> day \in t.d .. t.d2

MeansRow(row, info) ==
    LET x == info[row.dim] IN
    CASE row.dim \in {"path", "name"} -> x \in row.glob
      [] row.dim = "type" -> x = row.type
      [] row.dim \in Times -> MeansTime(row.time, x)
      [] row.dim = "size" -> MeansSize(row.size, x)
      [] row.dim \in {"owner", "group"} ->
             x = row.id \/ (row.id \in DOMAIN IdOf /\ IdOf[row.id] = x)

\* "same-dimension = OR, cross-dimension = AND, exclude wins"
Documented(rows, info) ==
    LET Chosen(a) == {r \in rows : r.action = a} IN
    /\ \A r \in Chosen("exclude") : ~ MeansRow(r, info)
    /\ \A dim \in Dimensions : Chosen("include") \cap {r \in rows : r.dim = dim} # {} =>
           \E r \in Chosen("include") : r.dim = dim /\ MeansRow(r, info)
=============================================================================
