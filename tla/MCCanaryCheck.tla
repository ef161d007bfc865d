--------------------------- MODULE MCCanaryCheck ---------------------------
EXTENDS CanaryCheck, TLC

Rule(selector, min, max, severity) ==
  [selector |-> selector, min |-> min, max |-> max, severity |-> severity]

Field(selector, severity) ==
  [selector |-> selector, shape |-> "decimal", severity |-> severity]

\* As the bundled contract: everything critical, rows awaited.
Strict ==
  [required |-> <<Rule("row", 1, 2, "CRITICAL"), Rule("price", 1, 2, "CRITICAL")>>,
   fields |-> <<Field("price", "CRITICAL")>>, ready_when |-> "row", unsupported |-> "nobody"]

\* Optional rows, no upper bound, and a marker no rule mentions.
Loose ==
  [required |-> <<Rule("row", 0, 1, "CRITICAL"), Rule("price", 1, None, "MAJOR")>>,
   fields |-> <<Field("price", "WARNING")>>, ready_when |-> "row", unsupported |-> "nobody"]

Unsupported == [Strict EXCEPT !.unsupported = "rules"]

UnsupportedContainer == [Strict EXCEPT !.unsupported = "container"]

\* One selector, a lenient count rule and a critical field.
Mixed ==
  [Strict EXCEPT !.required = <<Rule("price", 1, 2, "MAJOR")>>]

SomeContracts == {Strict, Loose, Mixed, Unsupported, UnsupportedContainer}

\* Up to two rows and prices, a misread price, one structural change; behind an
\* interstitial there is at most the marker.
SomePages ==
  {p \in [container : BOOLEAN,
          count     : [{"row", "price"} -> 0 .. 2],
          misshapen : {{}, {<<"price", "decimal">>}},
          structure : {{}, {"added"}, {"removed"}}] :
     /\ p.misshapen # {} => p.count["price"] = 1
     /\ p.structure # {} => p.misshapen = {} /\ p.count["row"] = 1
     /\ ~p.container => p.count["price"] = 0 /\ p.structure = {} /\ p.count["row"] < 2}
=============================================================================
