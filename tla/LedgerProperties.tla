-------------------------- MODULE LedgerProperties --------------------------
(***************************************************************************)
(* What the state ledger of Ledger.tla promises its callers.               *)
(***************************************************************************)
EXTENDS Ledger

JobType == [op: {"none", "audit", "challenge", "commit", "revoke", "open", "repair"},
            act: Seq(StateLine), todo: Seq(StateLine),
            dec: Decision, ref: Ref, now: Nat]
Place == {"down", "idle", "write", "wsync", "audit", "async", "hwm", "hsync", "compact", "cut"}
CacheType == [ino: Nat, size: Nat, lines: Seq(StateLine)]

\* Every variable stays in its domain: line and record shapes, sequence numbers,
\* program counters of the critical sections of statedb.go.
TypeOK ==
    /\ audit \in Seq(AuditLine)
    /\ auditSync \in 0..Len(audit)
    /\ db \in [ino: Nat \ {0}, lines: Seq(StateLine)]
    /\ dbSync \in 0..Len(db.lines)
    /\ lock \in Procs \cup {NoProc}
    /\ pc \in [Procs -> Place]
    /\ job \in [Procs -> JobType]
    /\ cache \in [Procs -> CacheType]
    /\ clock \in Nat /\ faults \in Nat
    /\ done \in Seq([op: {"commit", "challenge"}, ref: Ref, now: Nat])
-----------------------------------------------------------------------------
(* The two files *)

\* Whenever the lock is free, `repair` can cut the torn last lines and `serve` can
\* then open the ledger: at most one audit record is missing from audit_hwm, and it
\* is the successor of the one recorded (SPEC 4.6.3, verifyStartupAndRecoverHWM).
Recoverable ==
    lock = NoProc =>
        LET lines == CutState(db.lines)
            log == CutAudit(audit)
        IN  /\ Parses(lines) /\ ChainOK(log)
            /\ \/ AtTail(HwmOf(lines), Len(log))
               \/ OneBehind(HwmOf(lines), Len(log))

\* Without faults, verify-audit succeeds between any two critical sections, however
\* the processes interleave and whoever compacts: the chain is contiguous and
\* audit_hwm is its tail (VerifyAuditCLI).
VerifyAuditPasses ==
    lock = NoProc /\ faults = 0 =>
        Parses(db.lines) /\ ChainOK(audit) /\ AtTail(HwmOf(db.lines), Len(audit))

\* What a process would read through its (dev, ino, size) cache is what is in the
\* file, after any sequence of appends, truncations and renames of other processes
\* and failed appends of its own (withExclusiveLock).
CacheCoherent ==
    \A p \in Procs : pc[p] = "idle" /\ Warm(p) => View(p) = db.lines
-----------------------------------------------------------------------------
(* Approval tokens, grants, budgets *)

Commits == {i \in DOMAIN done : done[i].op = "commit"}

\* An approval token lets at most one write through, whichever processes it is
\* presented to and whatever is compacted or crashes in between.
AtMostOnce ==
    \A i, k \in Commits : i < k /\ done[i].ref.token = done[k].ref.token
                             => done[i].ref.token = NoToken

\* No subject ever holds two entitlements of one separation-of-duty rule, one of
\* them granted through the gateway, in state.db or in any prefix of it a crash
\* could leave.
NoConflictingGrants ==
    \A n \in 0..Len(db.lines) : \A s \in Subjects, C \in Conflicts :
        LET granted == GrantsOf(SubSeq(db.lines, 1, n), s)
        IN  \A e1 \in C \cap granted, e2 \in C \cap (granted \cup Static[s]) : e1 = e2

Settled(s) ==
    {e \in GrantsOf(SubSeq(db.lines, 1, dbSync), s) :
        \A i \in DOMAIN db.lines : i > dbSync => db.lines[i] # Revoke(s, e)}
Revokes(p, s, e) == /\ pc[p] = "write" /\ job[p].op = "revoke"
                    /\ job[p].ref = [subject |-> s, entitlement |-> e]

\* A grant that reached the disk, with no revocation still on its way, is dropped by a revoke-grant for it and by nothing
\* else: no compaction from a stale cache, crash, repair or failed append loses it.
GrantsOnlyRevoked ==
    [][\A s \in Subjects : \A e \in Settled(s) :
          e \in GrantsOf(db.lines, s)' \/ \E p \in Procs : Revokes(p, s, e)]_vars

\* A write that was let through has its own pre_forward_allow record on disk, and
\* neither a crash nor a repair takes it away again.
ForwardIsAudited ==
    \A w \in Writes :
        Cardinality({i \in Commits : done[i].ref = w})
            <= Cardinality({i \in 1..auditSync : audit[i].dec = "allow" /\ audit[i].ref = w})

\* An audited allow never runs ahead of the ledger: the token it consumed is still
\* recorded as consumed, or cannot pass verification any more.
AllowIsCommitted ==
    \A i \in DOMAIN audit : audit[i].dec = "allow" =>
        LET t == audit[i].ref.token
        IN  \/ t = NoToken
            \/ \E k \in DOMAIN db.lines : db.lines[k] = Replay(t)
            \/ clock >= LastUse[t] + Minute

\* An audited revocation is in state.db, or the grant it revokes is not.
RevocationIsKept ==
    lock = NoProc =>
        \A i \in DOMAIN audit : audit[i].dec = "revoked" =>
            LET r == audit[i].ref
            IN  \/ Revoke(r.subject, r.entitlement) \in Range(db.lines)
                \/ r.entitlement \notin GrantsOf(db.lines, r.subject)

Within(i, k, width) == done[k].now <= done[i].now /\ done[i].now < done[k].now + width
CommitsBefore(i, width) ==
    {k \in Commits : done[k].ref.principal = done[i].ref.principal /\ Within(i, k, width)}

TargetsOf(I) == Cardinality(UNION {{k} \X (1..done[k].ref.targets) : k \in I})

\* The writes of one principal let through in any minute, and their targets in any
\* window, stay within the budget, counted by the time each request carries.  A
\* request may be MaxStale old, and a compaction by a newer one has by then dropped
\* what is out of its window: the target window is shorter by that much.
BudgetRespected ==
    \A i \in Commits :
        /\ ~Exceeds(Cardinality(CommitsBefore(i, Minute)), MaxCalls)
        /\ ~Exceeds(TargetsOf(CommitsBefore(i, BudgetWindow - MaxStale)), MaxTargets)

\* The step-up challenges handed out to one principal in any minute, less the age of
\* a request, stay within max_challenges_per_minute.
ChallengeLimit ==
    \A i \in DOMAIN done : done[i].op = "challenge" =>
        ~Exceeds(Cardinality({k \in DOMAIN done : /\ done[k].op = "challenge"
                                                  /\ done[k].ref = done[i].ref
                                                  /\ Within(i, k, Minute - MaxStale)}),
                 MaxChallenges)
=============================================================================
