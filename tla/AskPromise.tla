----------------------------- MODULE AskPromise ------------------------------
(***************************************************************************)
(* What `ask` promises its callers, without daemon, queue or ledger: the   *)
(* operator says something about an action at most once that counts, and   *)
(* the verdict is allow only if a policy allowed it or the operator had    *)
(* said allow before.  Deny needs no reason.  Verdicts are final.          *)
(***************************************************************************)
CONSTANTS Askers, Decisions

VARIABLES inner, said, verdict

pvars == <<inner, said, verdict>>

PInit ==
    /\ inner = [a \in Askers |-> "none"]
    /\ said = [a \in Askers |-> "none"]
    /\ verdict = [a \in Askers |-> "none"]

\* The inner policy decides by itself.
Decide(a, d) ==
    /\ inner[a] = "none"
    /\ inner' = [inner EXCEPT ![a] = d]
    /\ verdict' = [verdict EXCEPT ![a] = d]
    /\ UNCHANGED said

\* It leaves the decision to the operator.
Escalate(a) ==
    /\ inner[a] = "none"
    /\ inner' = [inner EXCEPT ![a] = "ask"]
    /\ UNCHANGED <<said, verdict>>

\* He says so once; too late is possible, twice is not.
Say(a, d) ==
    /\ inner[a] = "ask" /\ said[a] = "none"
    /\ said' = [said EXCEPT ![a] = d]
    /\ UNCHANGED <<inner, verdict>>

Conclude(a, d) ==
    /\ inner[a] = "ask" /\ verdict[a] = "none"
    /\ d = "allow" => said[a] = "allow"
    /\ verdict' = [verdict EXCEPT ![a] = d]
    /\ UNCHANGED <<inner, said>>

PNext ==
    \E a \in Askers :
        \/ Escalate(a)
        \/ \E d \in Decisions : Decide(a, d) \/ Say(a, d) \/ Conclude(a, d)

PSpec == PInit /\ [][PNext]_pvars
=============================================================================
