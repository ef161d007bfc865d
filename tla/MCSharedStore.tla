---------------------------- MODULE MCSharedStore ----------------------------
EXTENDS SharedStore, TLC

\* One trial at a time, or two.
Strict  == [consecutive |-> 1, total |-> 1, minimum |-> 1, cooldown |-> 1,
            half_open |-> 1, window |-> 1]
Lenient == [Strict EXCEPT !.half_open = 2]

TwoPolicies == {Strict, Lenient}
=============================================================================
