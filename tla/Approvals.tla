------------------------------ MODULE Approvals ------------------------------
(***************************************************************************)
(* What step-up approval promises, whoever crashes and whatever is retried:*)
(* an approval is given for one intent, is spent before anything reaches   *)
(* the upstream server, and lets at most one call through, for that intent.*)
(* A spent approval never becomes good again: if the gateway fails between *)
(* spending and forwarding, it is lost.                                    *)
(***************************************************************************)
EXTENDS Naturals

CONSTANTS Approval, Intent, NoIntent

VARIABLES
    status,     \* of each approval
    given,      \* the intent each was given for
    forwarded   \* the calls that reached the upstream server, with the approvals they bore

avars == <<status, given, forwarded>>

Move(a, from, to) == status[a] = from /\ status' = [status EXCEPT ![a] = to]

Approve(a, i) ==
    /\ Move(a, "none", "approved")
    /\ given' = [given EXCEPT ![a] = i]
    /\ UNCHANGED forwarded

Spend(a) == Move(a, "approved", "spent") /\ UNCHANGED <<given, forwarded>>
SpendInVain(a) == Move(a, "approved", "lost") /\ UNCHANGED <<given, forwarded>>

Forward(a) ==
    /\ Move(a, "spent", "forwarded")
    /\ forwarded' = forwarded \cup {<<a, given[a]>>}
    /\ UNCHANGED given

\* The outcome of the call is on record.  If it never is, the approval stays forwarded
Settle(a) == Move(a, "forwarded", "settled") /\ UNCHANGED <<given, forwarded>>

\* A crash: whatever was spent and not forwarded
Crash ==
    /\ status' = [a \in Approval |-> IF status[a] = "spent" THEN "lost" ELSE status[a]]
    /\ UNCHANGED <<given, forwarded>>

AInit ==
    /\ status = [a \in Approval |-> "none"]
    /\ given = [a \in Approval |-> NoIntent]
    /\ forwarded = {}

ANext ==
    \/ Crash
    \/ \E a \in Approval : \/ Spend(a) \/ SpendInVain(a) \/ Forward(a) \/ Settle(a)
                           \/ \E i \in Intent : Approve(a, i)

\* What is spent does not stay so
ALive == \A a \in Approval : status[a] = "spent" ~> status[a] # "spent"

ASpec == AInit /\ [][ANext]_avars
AFairSpec == ASpec /\ ALive
=============================================================================
