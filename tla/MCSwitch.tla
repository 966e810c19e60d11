------------------------------ MODULE MCSwitch ------------------------------
EXTENDS Switch

\* All ports have one EDID, or the first port has another one.
MCEdids == {[p \in Ports |-> "a"], [p \in Ports |-> IF p = 0 THEN "b" ELSE "a"]}
\* A unit that was never configured, and a chain of two that shows
\* the second one's port, or the first one's.
Unit(ch) == [ch |-> ch, busy |-> FALSE, edid |-> [c \in 0 .. Channels - 1 |-> "a"]]
MCChains == {<<Unit(Channels), Unit(0)>>, <<Unit(0), Unit(0)>>}
MCFactory == "a"
MCDefault == [p \in Ports |-> "a"]

=============================================================================
