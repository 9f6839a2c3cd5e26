-------------------------- MODULE MCProductionTool --------------------------
EXTENDS ProductionTool, TLC

CONSTANTS wifi, lcd, touch_screen

MCVal == Button \cup {Nowhere} \cup Report

\* tools/test_example.sh reports nineteen percentages and then ok: here ok alone.
ShortScript == [b \in HasCommand |-> <<"ok">>]
NoScript    == [b \in HasCommand |-> <<>>]

\* What other programs send: nothing, or reports on lcd and on no button, with
\* a status and without.
NoExternal   == {}
LcdOk        == {[name |-> lcd, status |-> "ok"]}
LcdReports   == {[name |-> lcd, status |-> s] : s \in {"ok", "50", "missing"}}
                \cup {[name |-> Unknown, status |-> "ok"]}

BlockSymmetry == Permutations(Block)
=============================================================================
