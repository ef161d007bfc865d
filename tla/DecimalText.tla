----------------------------- MODULE DecimalText -----------------------------
(***************************************************************************)
(* questz.canary.parse_decimal, the one reader of prices for the contract  *)
(* and for the job, and the field shapes that rest on it. A text is a      *)
(* sequence of characters, stripped, with its spaces collapsed.            *)
(***************************************************************************)
EXTENDS Positions

CONSTANTS
  NoValue,    \* parse_decimal's None
  Undeclared  \* a contract that declares no decimal separator

Digit == {"0", "1", "2", "3", "4", "5", "6", "7", "8", "9"}

Sign == {"+", "-"}

DecimalSeparators == {".", ","}

Separator == DecimalSeparators \cup {" "}

ASSUME DecimalAssumption == Undeclared \notin DecimalSeparators

SetMin(S) == CHOOSE n \in S : \A m \in S : n <= m
SetMax(S) == CHOOSE n \in S : \A m \in S : m <= n

DigitsAt(s) == {i \in DOMAIN s : s[i] \in Digit}

SeparatorsAt(s) == DOMAIN s \ DigitsAt(s)

-----------------------------------------------------------------------------
\* The sign at the front, then everything from the first digit or sign to the
\* last digit: what is left of "EUR 5", "5 EUR" and "-EUR 5" without decoration.
Cleaned(text) ==
  LET head   == IF text # << >> /\ text[1] \in Sign THEN 1 ELSE 0
      digits == DigitsAt(text)
      body   == {i \in DOMAIN text : i > head /\ text[i] \in Digit \cup Sign}
  IN  IF digits = {} THEN << >>
      ELSE SubSeq(text, 1, head) \o SubSeq(text, SetMin(body), SetMax(digits))

\* Digits with single separators between them.
IsNumeric(body) ==
  /\ body # << >>
  /\ body[1] \in Digit /\ body[Len(body)] \in Digit
  /\ \A i \in DOMAIN body : body[i] \in Digit \cup Separator
  /\ \A i \in 1 .. Len(body) - 1 : body[i] \in Digit \/ body[i + 1] \in Digit

Digits(s) == Picked(s, DigitsAt(s))

Separators(body) == Picked(body, SeparatorsAt(body))

\* How many digits stand before the first separator, between two, after the last.
Widths(body) ==
  LET at    == Ordered(SeparatorsAt(body), Len(body))
      m     == Len(at)
      to(i) == IF i > m THEN Len(body) + 1 ELSE at[i]
      from(i) == IF i = 1 THEN 0 ELSE at[i - 1]
  IN  [i \in 1 .. m + 1 |-> to(i) - from(i) - 1]

\* 1 to 3 digits, then groups of exactly 3.
Grouped(widths, separators) ==
  \/ separators = << >>
  \/ widths[1] <= 3 /\ \A i \in 2 .. Len(widths) : widths[i] = 3

-----------------------------------------------------------------------------
NoPoint == 0      \* every separator is grouping
Ambiguous == -1   \* _AmbiguousValue

\* Mutant of PointIndex: three digits make a group, whatever is declared.
PointIndexGuessed(separators, last, declared) ==
  IF last = 3 \/ separators[Len(separators)] = " " THEN NoPoint ELSE Len(separators)

\* Which separator is the decimal point.
PointIndex(separators, last, declared) ==
  LET m     == Len(separators)
      used  == Range(separators)
  IN  IF declared # Undeclared
      THEN CASE separators[m] = declared -> m
             [] separators[m] # declared /\ declared \in used -> Ambiguous
             [] declared \notin used -> NoPoint
      ELSE CASE separators[m] = " " -> NoPoint
             [] separators[m] # " " /\ (last # 3 \/ Cardinality(used \ {" "}) > 1) -> m
             [] OTHER -> IF m > 1 THEN NoPoint ELSE Ambiguous

Decimal(negative, whole, fraction) ==
  [negative |-> negative, whole |-> whole, fraction |-> fraction]

\* The number with its point at a separator, or with none.
Read(negative, body, point) ==
  LET at     == Ordered(SeparatorsAt(body), Len(body))
      before == IF point = NoPoint THEN Len(body) ELSE at[point]
  IN  Decimal(negative, Digits(SubSeq(body, 1, before)),
              Digits(SubSeq(body, before + 1, Len(body))))

\* What is left without sign and decoration: a number, or nothing.
Judged(negative, body, declared) ==
  LET separators == Separators(body)
      widths     == Widths(body)
      m          == Len(separators)
      point      == IF m = 0 THEN NoPoint ELSE PointIndex(separators, widths[m + 1], declared)
      grouping   == SubSeq(separators, 1, m - 1)
      wellFormed ==
        CASE point = Ambiguous -> FALSE
          [] point = NoPoint   -> Grouped(widths, separators)
          [] OTHER -> /\ separators[point] \notin Range(grouping)
                      /\ Grouped(SubSeq(widths, 1, m), grouping)
  IN  IF IsNumeric(body) /\ wellFormed THEN Read(negative, body, point) ELSE NoValue

ParseDecimal(text, declared) ==
  LET cleaned == Cleaned(text)
      signed  == cleaned # << >> /\ cleaned[1] \in Sign
      body    == IF signed THEN Tail(cleaned) ELSE cleaned
  IN  Judged(signed /\ cleaned[1] = "-", body, declared)

\* What a field rule asks of a text; the values of an enum are left out.
ShapeOk(shape, text, declared) ==
  LET number == ParseDecimal(text, declared)
  IN  CASE shape = "text"    -> text # << >>
        [] shape = "decimal" -> number # NoValue
        [] shape = "integer" -> number # NoValue /\ Range(number.fraction) \subseteq {"0"}

-----------------------------------------------------------------------------
(* The conventions a price is written in, for the properties.              *)

Conventions ==
  {[point |-> ".", group |-> ","], [point |-> ".", group |-> " "],
   [point |-> ",", group |-> "."], [point |-> ",", group |-> " "]}

\* A text of digits and separators is a price of a convention: at most one point
\* with digits on both sides, and the whole part plain or in groups of three.
WrittenIn(text, c) ==
  LET points == {i \in DOMAIN text : text[i] = c.point}
      whole  == IF points = {} THEN text ELSE SubSeq(text, 1, SetMin(points) - 1)
      rest   == IF points = {} THEN << >>
                ELSE SubSeq(text, SetMin(points) + 1, Len(text))
      groups == {i \in DOMAIN whole : whole[i] \notin Digit}
  IN  /\ Cardinality(points) <= 1
      /\ whole # << >> /\ whole[1] \in Digit
      /\ points # {} => rest # << >> /\ Range(rest) \subseteq Digit
      /\ groups # {} =>
           groups = {i \in DOMAIN whole : (Len(whole) - i + 1) % 4 = 0}
      /\ \A i \in groups : whole[i] = c.group

\* The number a text of a convention stands for.
Reading(text, c) ==
  LET points == {i \in DOMAIN text : text[i] = c.point}
      whole  == IF points = {} THEN text ELSE SubSeq(text, 1, SetMin(points) - 1)
      rest   == IF points = {} THEN << >>
                ELSE SubSeq(text, SetMin(points) + 1, Len(text))
  IN  Decimal(FALSE, Digits(whole), rest)
=============================================================================
