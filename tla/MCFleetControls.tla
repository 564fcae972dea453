--------------------------- MODULE MCFleetControls ---------------------------
EXTENDS FleetControls

\* Everything the operator can send, and what a tester can forge of it.
MCTraffic ==
    [by : {"operator"}, verb : Verbs]
        \cup [by : {"tester"}, verb : {"halt", "30", "retry"}]

\* A guard that allows, and one that would ask before it halts and denies raising.
Says(halt, raise) ==
    [k \in Kinds |-> CASE k = "fleet-halt" -> halt
                        [] k = "fleet-raise-cap" -> raise
                        [] OTHER -> "allow"]
MCPolicies == {Says("allow", "allow"), Says("ask", "deny")}
=============================================================================
