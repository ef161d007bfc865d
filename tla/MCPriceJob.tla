----------------------------- MODULE MCPriceJob -----------------------------
EXTENDS PriceJob, TLC

\* "odd" passes the contract, but has a cell that extract() cannot read.
ThreeVerdicts == [good |-> "OK", odd |-> "OK", changed |-> "DRIFT"]
TwoVerdicts == [good |-> "OK", changed |-> "DRIFT"]

Total(b) == b["site"] + b["driver"] + b["disk"] + b["damage"] + b["crash"]

\* The site changes twice, and one more thing goes wrong.
TwoChanges == {b \in [Trouble -> 0 .. 2] : b["site"] = 2 /\ Total(b) = 3}
=============================================================================
