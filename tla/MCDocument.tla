----------------------------- MODULE MCDocument -----------------------------
EXTENDS Document, TLC

Plain == {}
Testid(value) == {<<"data-testid", value>>}

Step(combinator, tag, equals) ==
  [combinator |-> combinator, compound |-> [tag |-> tag, equals |-> equals, has |-> {}]]

\* [data-testid="items"], "[data-testid=items] li" and "ul > li".
Items    == <<Step("", "", Testid("items"))>>
AnyLi    == <<Step("", "", Testid("items")), Step(" ", "li", {})>>
ListedLi == <<Step("", "ul", {}), Step(">", "li", {})>>

Kind(starts, ends, data, length) ==
  [starts |-> starts, ends |-> ends, data |-> data, length |-> length]

\* A container, a list, two kinds of item.
Lists(length) ==
  Kind({<<"div", Testid("items")>>, <<"ul", Plain>>, <<"li", Plain>>,
         <<"li", {<<"role", "r:7:">>, <<"class", "wide">>}>>},
        {"ul"}, {<<"1">>}, length)

\* Runs inside runs.
Runs(length) == Kind({<<"p", Plain>>, <<"br", Plain>>}, {}, {}, length)

\* Cells left open, tables in cells, a subtree nobody sees.
Tables(length) ==
  Kind({<<"table", Plain>>, <<"tr", Plain>>, <<"td", Plain>>, <<"p", Plain>>,
         <<"svg", Plain>>}, {"table", "td", "svg"}, {<<"1">>}, length)

\* A price, whole or in pieces.
Prices(length) ==
  Kind({<<"span", Plain>>}, {"span"},
        {<<"1">>, <<"1", "1", "1">>, <<".">>, <<",">>, <<" ">>}, length)

SomeAttrs == {Plain, Testid("items"), {<<"role", "r:7:">>, <<"class", "wide">>}}

SomeTags == {"div", "ul", "li", "p", "br", "table", "tr", "td", "svg", "span"}

SomeData == {<<"1">>, <<"1", "1", "1">>, <<".">>, <<",">>, <<" ">>}

SomePages == {Lists(4), Runs(7), Tables(5), Prices(6)}

SomeSelectors == {Items, AnyLi, ListedLi}

SomeRequired == <<AnyLi, ListedLi>>

SomeFields == <<[selector |-> Items, shape |-> "decimal", severity |-> "CRITICAL"]>>

NoSeparator == {Undeclared}
=============================================================================
