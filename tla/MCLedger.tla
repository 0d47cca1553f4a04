------------------------------ MODULE MCLedger ------------------------------
(* Instances of the ledger for TLC. *)
EXTENDS LedgerProperties

CONSTANTS p1, p2, alice, bob, t1, sam, admin, audit_role

ASSUME /\ Principals \subseteq {alice, bob} /\ Subjects \subseteq {sam}
       /\ Entitlements \subseteq {admin, audit_role} /\ Tokens \subseteq {t1}

Call(principal, targets, entitlements, token) ==
    [principal |-> principal, targets |-> targets,
     subjects |-> IF entitlements = {} THEN {} ELSE {sam},
     entitlements |-> entitlements, token |-> token]

\* Two grants that exclude each other, the first under a single-use token
GrantWrites == {Call(alice, 1, {admin}, t1), Call(alice, 1, {audit_role}, NoToken)}
\* Plain writes that draw on two budgets, and one that needs a token
BudgetWrites == {Call(alice, 1, {}, t1), Call(alice, 2, {}, NoToken)}

NoStatic == [s \in Subjects |-> {}]
OneRule == {{admin, audit_role}}
TokenExpiry == [t \in Tokens |-> 1]
LateExpiry == [t \in Tokens |-> 3]
Processes == Permutations(Procs)
=============================================================================
