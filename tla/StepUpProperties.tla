--------------------------- MODULE StepUpProperties ---------------------------
(***************************************************************************)
(* What step-up approval guarantees, and that it implements Approvals.     *)
(***************************************************************************)
EXTENDS StepUp

Asking(k) ==
    \/ k \in [pc: {"list", "create"}, intent: Intent]
    \/ \E S \in SUBSET DOMAIN receipts :
           k \in [pc: {"prune"}, intent: Intent, listing: [S -> Nat], cutoff: Int]
    \/ k \in [pc: {"fill"}, receipt: DOMAIN receipts]
Bearing(k) == k \in [pc: {"commit", "forward", "report"}, intent: Intent, token: DOMAIN tokens,
                     arrived: Nat]
Asked(s) == s \in [pc: {"asked"}, intent: Intent, begun: Nat, iat: Int, ttl: TTLs, interactive: BOOLEAN]

\* Every variable stays in its domain; the receipts and approvals that are referred
\* to have been made.
TypeOK ==
    /\ bound \in Bounds /\ clock \in Nat
    /\ installed \in 1..Len(Policies) /\ loaded \in 1..installed
    /\ up \in BOOLEAN /\ stops \in Nat /\ ledger \in 1..MaxLedgers
    /\ used \subseteq (1..ledger) \X DOMAIN tokens
    /\ receipts \in Seq([intent: Intent, made: Nat, mtime: Nat, whole: BOOLEAN])
    /\ dir \subseteq DOMAIN receipts
    /\ DOMAIN call = Calls /\ DOMAIN session = Approvers
    /\ \A c \in Calls : call[c] = IdleCall \/ Asking(call[c]) \/ Bearing(call[c])
    /\ \A a \in Approvers : session[a] = IdleSession \/ Asked(session[a])
    /\ tokens \in Seq([intent: Intent, approver: Approvers, interactive: BOOLEAN,
                       begun: Nat, iat: Int, exp: Int])
    /\ \A k \in DOMAIN tokens : tokens[k].exp - tokens[k].iat \in 1..MaxTTL
    /\ forwarded \subseteq [call: [token: DOMAIN tokens, intent: Intent], arrived: Nat,
                            policy: 1..Len(Policies), ledger: 1..MaxLedgers]
    /\ settled \subseteq DOMAIN tokens
-----------------------------------------------------------------------------
\* A write that reaches the upstream server was approved for just this principal and
\* these arguments, by somebody who is an approver in the policy that the gateway runs
\* by then and is not the principal under any name, at a terminal if that policy asks
\* for one; no restart, new policy or new ledger in between lets an approval pass that
\* was given under another one.
ApprovedByAnother ==
    \A f \in forwarded :
        LET t == tokens[f.call.token]
            i == f.call.intent
        IN  /\ t.intent = i
            /\ i.policy = f.policy /\ i.ledger = f.ledger
            /\ t.approver \in Policies[f.policy].approvers
            /\ Policies[f.policy].tty => t.interactive
            /\ Aliases[t.approver] \cap (Known[i.principal] \cup Claimed[i.principal]) = {}

\* The call arrived no later after the approver sat down to it than an approval may
\* live, and what two clocks may differ by at either end.
ApprovedLately ==
    \A f \in forwarded : f.arrived <= tokens[f.call.token].begun + MaxTTL + 2 * Skew

\* An approval is not refused for its time while it lives by the gateway's clock,
\* although it was signed by another one.
LivingIsAccepted ==
    \A k \in DOMAIN tokens :
        LET t == tokens[k]
        IN  t.begun <= clock /\ clock <= t.begun + (t.exp - t.iat) /\ up
            /\ IntentOf(t.intent.principal, t.intent.write) = t.intent
            /\ Independent(t.approver, Claimed[t.intent.principal])
            => VerifyApprovalToken(t, t.intent, clock)
-----------------------------------------------------------------------------
\* Concurrent calls that prune by what they have listed before keep the directory at
\* its limit, but for a file for each of them.
DirectoryBounded == Cardinality(dir) <= MaxReceipts + Cardinality(Calls) - 1

\* No receipt is taken away from an approver unless it is fifteen minutes old or there
\* are as many that are no older as the directory holds, itself included.
RecentIsKept ==
    [][\A r \in dir \ dir' :
          \/ receipts[r].made < clock - MaxAge
          \/ MaxReceipts <= Cardinality({s \in DOMAIN receipts :
                                            s = r \/ receipts[s].mtime >= receipts[r].made})]_vars
-----------------------------------------------------------------------------
NoIntent == "none"
Spent(k) == \E l \in 1..MaxLedgers : <<l, k>> \in used
Sending(k) == \E c \in Calls : call[c].pc = "forward" /\ call[c].token = k
Sent(k) == \E f \in forwarded : f.call.token = k
StatusOf(k) ==
    IF k \notin DOMAIN tokens THEN "none"
    ELSE IF k \in settled THEN "settled"
    ELSE IF Sent(k) THEN "forwarded"
    ELSE IF Sending(k) THEN "spent"
    ELSE IF Spent(k) THEN "lost"
    ELSE "approved"
Numbers == 1..MaxTokens
Statuses == [k \in Numbers |-> StatusOf(k)]
Given == [k \in Numbers |-> IF k \in DOMAIN tokens THEN tokens[k].intent ELSE NoIntent]
Reached == {<<f.call.token, f.call.intent>> : f \in forwarded}
Promise == INSTANCE Approvals WITH
    Approval <- Numbers, status <- Statuses, given <- Given, forwarded <- Reached

\* The gateway keeps the promise of Approvals: each approval is spent at most once,
\* lets at most one call through, for its intent, and that only once it is spent,
\* whether calls race with it, the gateway is killed, records cannot be written, or the
\* upstream server times out; and what is spent is soon forwarded or lost.
KeepsPromise == Promise!AFairSpec
=============================================================================
