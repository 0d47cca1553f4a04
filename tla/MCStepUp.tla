------------------------------- MODULE MCStepUp -------------------------------
(* Instances of identities and policies for TLC. *)
EXTENDS StepUpProperties

\* a approves under another name of p; q's JWT names b as its UPN
MCKnown == [p |-> {"p"}, q |-> {"q"}]
MCClaimed == [p |-> {}, q |-> {"b"}]
MCAliases == [a |-> {"a", "p"}, b |-> {"b"}]
MCOffset == [a |-> 1, b |-> 0]
MCPolicies == <<[approvers |-> {"a", "b"}, tty |-> TRUE], [approvers |-> {"b"}, tty |-> FALSE]>>

\* calls that race for the directory; approvals and two clocks; approvals and restarts
MCBounds ==
    {[callers |-> {"p"}, made |-> 4, tokens |-> 0, clock |-> 3, policies |-> 1, stops |-> 0],
     [callers |-> {"p", "q"}, made |-> 1, tokens |-> 1, clock |-> 5, policies |-> 1, stops |-> 0],
     [callers |-> {"p", "q"}, made |-> 1, tokens |-> 2, clock |-> 1, policies |-> 2, stops |-> 1]}
=============================================================================
