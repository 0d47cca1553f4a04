------------------------------- MODULE Ledger -------------------------------
(***************************************************************************)
(* The state ledger of the authorization gateway                           *)
(* (src/internal/authz/statedb.go): two append-only files, state.db and    *)
(* audit.jsonl, shared by every process that opens the ledger.             *)
(*                                                                         *)
(*  - A critical section runs under ledgerMu and flock(state.db.lock), is  *)
(*    entered with a per-process cache of parsed records keyed on          *)
(*    (dev, ino, size), and performs its writes and fsyncs one by one.     *)
(*  - A step can be followed by the death of the process (page cache       *)
(*    survives), by a power failure (unsynced lines are lost, the last one *)
(*    may be torn), or can itself fail with an I/O error.                  *)
(*                                                                         *)
(* A file is the sequence of its lines.  A parsed state (parsedLedgerState *)
(* in the code) is the sequence of the records folded into it; its fields  *)
(* are the operators HwmOf, Consumed, InWindow and GrantsOf below.  The    *)
(* hash of an audit record is its position in audit.jsonl: SHA-256 hashes  *)
(* of distinct records are distinct.  ledger_id, gateway_id and the header *)
(* line are constant and left out; so is everything of an audit record     *)
(* but the chain, the decision and what it is about.                       *)
(***************************************************************************)
EXTENDS Naturals, Sequences, FiniteSets, SequencesExt

CONSTANTS
    Procs,          \* processes that open the ledger: gateways and CLI commands
    Principals, Tokens, Subjects, Entitlements,
    Conflicts,      \* SoD rules: sets of entitlements nobody may combine
    Static,         \* Static[s]: subject_existing_entitlements of the policy
    Writes,         \* the write calls clients make
    LastUse,        \* LastUse[t]: expiry of token t plus the clock skew
    Minute,         \* the code's literal 60 s windows and margins
    BudgetWindow, MaxCalls, MaxTargets, MaxChallenges,
    CompactAt,      \* lines of state.db above which an append compacts
    NoToken, NoRef, NoProc

CONSTANTS           \* the environment, and the bounds of a model
    Ops,            \* operations clients issue
    Faults,         \* subset of {"kill", "power", "io"}
    RepairFaults,   \* whether a fault may interrupt the repair command
    ReuseInodes,    \* whether the file system may reuse a freed inode number
    MaxStale,       \* age of the `now` a request carries into the lock
    MaxFaults, MaxAudit, MaxClock

WriteCall == [principal: Principals, targets: Nat, subjects: SUBSET Subjects,
              entitlements: SUBSET Entitlements, token: Tokens \cup {NoToken}]

ASSUME LedgerConstants ==
    /\ NoProc \notin Procs /\ NoToken \notin Tokens
    /\ Writes \subseteq WriteCall
    /\ IsFiniteSet(Subjects) /\ IsFiniteSet(Entitlements)
    /\ NoRef \notin Writes
    /\ Conflicts \subseteq SUBSET Entitlements
    /\ Static \in [Subjects -> SUBSET Entitlements]
    /\ LastUse \in [Tokens -> Nat]
    /\ {Minute, BudgetWindow, MaxCalls, MaxTargets, MaxChallenges, CompactAt,
        MaxStale, MaxFaults, MaxAudit, MaxClock} \subseteq Nat
    /\ Ops \subseteq {"audit", "snapshot", "challenge", "commit", "revoke"}
    /\ Faults \subseteq {"kill", "power", "io"}
    /\ CompactAt > 0
    /\ RepairFaults \in BOOLEAN /\ ReuseInodes \in BOOLEAN

VARIABLES
    audit,      \* audit.jsonl
    auditSync,  \* how many of its lines are known to be on disk
    db,         \* state.db: inode number and lines
    dbSync,     \* how many lines of state.db are known to be on disk
    lock,       \* holder of ledgerMu and the flock on state.db.lock
    pc,         \* where each process is
    job,        \* the critical section each process is in
    cache,      \* cachedIno, cachedSize, cachedState of each process
    clock, faults,
    done        \* ghost: the commits and challenges that returned nil, in order

vars == <<audit, auditSync, db, dbSync, lock, pc, job, cache, clock, faults, done>>
-----------------------------------------------------------------------------
(* Records *)

Torn == [kind |-> "torn"]
Hwm(seq, hash) == [kind |-> "hwm", seq |-> seq, hash |-> hash]
Replay(t) == [kind |-> "replay", key |-> t, exp |-> LastUse[t] + Minute]
Budget(w, now) == [kind |-> "budget", key |-> w.principal, count |-> w.targets,
                   iat |-> now, exp |-> now + BudgetWindow]
\* Variant: a challenge expires when it is issued
ChallengeExpired(p, now) == [kind |-> "challenge", key |-> p, count |-> 1,
                             iat |-> now, exp |-> now]
Challenge(p, now) == [kind |-> "challenge", key |-> p, count |-> 1,
                      iat |-> now, exp |-> now + Minute]
Grant(s, e) == [kind |-> "grant", key |-> s, sub |-> e]
Revoke(s, e) == [kind |-> "revoke", key |-> s, sub |-> e]

StateLine ==
    {Torn} \cup [kind: {"hwm"}, seq: Nat, hash: Nat]
           \cup [kind: {"replay"}, key: Tokens, exp: Nat]
           \cup [kind: {"budget", "challenge"}, key: Principals, count: Nat, iat: Nat, exp: Nat]
           \cup [kind: {"grant", "revoke"}, key: Subjects, sub: Entitlements]

Ref == Writes \cup [subject: Subjects, entitlement: Entitlements]
              \cup [challenged: Principals] \cup {NoRef}
Decision == {"torn", "garbled", "init", "event", "deny", "challenge", "allow", "revoked",
             "recovered", "repaired"}
AuditLine == [seq: Nat, prev: Nat, dec: Decision, ref: Ref]
BadAudit(dec) == [seq |-> 0, prev |-> 0, dec |-> dec, ref |-> NoRef]
-----------------------------------------------------------------------------
(* What a parsed state says *)

IsLastHwm(st, i) == /\ st[i].kind = "hwm"
                    /\ \A k \in DOMAIN st : k > i => st[k].kind # "hwm"
HwmOf(st) == st[CHOOSE i \in DOMAIN st : IsLastHwm(st, i)]

\* Variant: the comparison with the expiry the wrong way round
ConsumedExpired(st, t, now) ==
    \E i \in DOMAIN st : st[i].kind = "replay" /\ st[i].key = t /\ st[i].exp <= now
Consumed(st, t, now) ==
    \E i \in DOMAIN st : st[i].kind = "replay" /\ st[i].key = t /\ st[i].exp >= now

InWindow(st, kind, principal, now, width) ==
    {i \in DOMAIN st : /\ st[i].kind = kind
                       /\ st[i].key = principal
                       /\ st[i].exp > now
                       /\ st[i].iat + width > now}

IsLiveGrant(st, i) ==
    /\ st[i].kind = "grant"
    /\ \A k \in DOMAIN st : k > i => st[k] # Revoke(st[i].key, st[i].sub)
GrantsOf(st, s) == {e \in Entitlements :
                        \E i \in DOMAIN st : st[i] = Grant(s, e) /\ IsLiveGrant(st, i)}

\* applyStateRecordsBytes: every line is whole and audit_hwm never regresses
Parses(st) ==
    /\ \A i \in DOMAIN st : st[i].kind # "torn"
    /\ \E i \in DOMAIN st : st[i].kind = "hwm"
    /\ \A i, k \in DOMAIN st : (i < k /\ st[i].kind = "hwm" /\ st[k].kind = "hwm")
                                  => st[i].seq <= st[k].seq

\* verifyAuditChainFile: seq counts from 1 and prev_hash is the previous record
ChainOK(log) == \A i \in DOMAIN log : /\ log[i].dec \notin {"torn", "garbled"}
                                      /\ log[i].seq = i
                                      /\ log[i].prev + 1 = i

AtTail(h, n) == h.seq = n /\ h.hash = n
OneBehind(h, n) == h.seq + 1 = n /\ h.hash + 1 = n

\* Variant: the grants of the ledger are not consulted
SoDWithinRequest(st, w) ==
    \E s \in w.subjects, C \in Conflicts : \E e1 \in w.entitlements \cap C :
        \E e2 \in C \cap (w.entitlements \cup Static[s]) : e1 # e2

\* CheckSoDRules: a requested entitlement and a different one of the same rule
\* that is requested, static or granted in the ledger
SoDConflict(st, w) ==
    \E s \in w.subjects, C \in Conflicts : \E e1 \in w.entitlements \cap C :
        \E e2 \in C \cap (w.entitlements \cup Static[s] \cup GrantsOf(st, s)) : e1 # e2

\* The sum of the targets of the records I, each of which is counted
Targets(st, I) == Cardinality(UNION {{i} \X (1..st[i].count) : i \in I})
Exceeds(n, max) == max > 0 /\ n > max
\* Variant: the call at hand is not counted
OverBudgetByOne(st, w, now) ==
    \/ Exceeds(Cardinality(InWindow(st, "budget", w.principal, now, Minute)), MaxCalls)
    \/ Exceeds(Targets(st, InWindow(st, "budget", w.principal, now, BudgetWindow)),
               MaxTargets)
OverBudget(st, w, now) ==
    \/ Exceeds(Cardinality(InWindow(st, "budget", w.principal, now, Minute)) + 1, MaxCalls)
    \/ Exceeds(Targets(st, InWindow(st, "budget", w.principal, now, BudgetWindow))
                 + w.targets, MaxTargets)

\* The lines a commit adds, in the order they are buffered
CommitLines(w, now) ==
    LET bound == SetToSeq(w.subjects \X w.entitlements)
    IN  <<Budget(w, now)>>
        \o [i \in DOMAIN bound |-> Grant(bound[i][1], bound[i][2])]
        \o (IF w.token = NoToken THEN <<>> ELSE <<Replay(w.token)>>)

\* Variant: grants, whose records carry no expiry, are taken for expired
KeptUnexpired(st, now) ==
    {i \in DOMAIN st :
        \/ st[i].kind \in {"replay", "budget", "challenge"} /\ st[i].exp > now
        \/ IsLastHwm(st, i)}

\* compactLocked keeps unexpired records, active grants and the last audit_hwm
Kept(st, now) ==
    {i \in DOMAIN st :
        \/ st[i].kind \in {"replay", "budget", "challenge"} /\ st[i].exp > now
        \/ IsLiveGrant(st, i) /\ \A k \in DOMAIN st : k > i => st[k] # st[i]
        \/ IsLastHwm(st, i)}
Compacted(st, now) == LET idx == SetToSeq(Kept(st, now))
                      IN  [k \in DOMAIN idx |-> st[idx[k]]]

-----------------------------------------------------------------------------
(* Critical sections *)

\* Variant: a file that was renamed over is taken for the cached one
WarmBySize(p) == cache[p].ino > 0 /\ cache[p].size <= Len(db.lines)

\* withExclusiveLock: the cached prefix and the bytes behind it, or the whole file
Warm(p) == cache[p].ino = db.ino /\ cache[p].size <= Len(db.lines)
View(p) == IF Warm(p)
           THEN cache[p].lines \o SubSeq(db.lines, cache[p].size + 1, Len(db.lines))
           ELSE db.lines
Loaded(p) == [ino |-> db.ino, size |-> Len(db.lines), lines |-> View(p)]

NoCache == [ino |-> 0, size |-> 0, lines |-> <<>>]
Work(op, st, todo, dec, ref, now) ==
    [op |-> op, act |-> st, todo |-> todo, dec |-> dec, ref |-> ref, now |-> now]
NoJob == Work("none", <<>>, <<>>, "event", NoRef, 0)

\* The `now` of a request was read at most MaxStale before it got the lock
Nows == {t \in 0..clock : t + MaxStale >= clock}

InSection(p) == pc[p] \notin {"down", "idle"}
Start(p, work) ==
    /\ lock' = p
    /\ job' = [job EXCEPT ![p] = work]
    /\ pc' = [pc EXCEPT ![p] = IF work.todo = <<>> THEN "audit" ELSE "write"]
\* A handler gives up; a CLI command or a failed start ends its process
Leave(p) ==
    /\ lock' = NoProc
    /\ job' = [job EXCEPT ![p] = NoJob]
    /\ IF job[p].op \in {"open", "repair"}
       THEN pc' = [pc EXCEPT ![p] = "down"] /\ cache' = [cache EXCEPT ![p] = NoCache]
       ELSE pc' = [pc EXCEPT ![p] = "idle"] /\ UNCHANGED cache

\* A section opened on a state.db that does not parse fails without effect
Enter(p, work) ==
    /\ pc[p] = "idle" /\ lock = NoProc
    /\ Parses(View(p))
    /\ Len(audit) < MaxAudit /\ HwmOf(View(p)).seq < MaxAudit
    /\ Start(p, work)
    /\ cache' = [cache EXCEPT ![p] = Loaded(p)]
    /\ UNCHANGED <<audit, auditSync, db, dbSync, clock, faults, done>>

\* AppendAudit: read results, post-forward results and denials of stages 0 to 3
AppendAudit(p) ==
    /\ "audit" \in Ops
    /\ \E now \in Nows : Enter(p, Work("audit", View(p), <<>>, "event", NoRef, now))

\* ActiveGrantsSnapshot and LedgerID only load the cache
Snapshot(p) ==
    /\ "snapshot" \in Ops
    /\ pc[p] = "idle" /\ lock = NoProc /\ Parses(View(p))
    /\ cache' = [cache EXCEPT ![p] = Loaded(p)]
    /\ UNCHANGED <<audit, auditSync, db, dbSync, lock, pc, job, clock, faults, done>>

RecordChallenge(p, principal, now) ==
    /\ "challenge" \in Ops
    /\ LET st == View(p)
           limited == /\ MaxChallenges > 0
                      /\ Cardinality(InWindow(st, "challenge", principal, now, Minute))
                           >= MaxChallenges
       IN  Enter(p, IF limited
                    THEN Work("audit", st, <<>>, "deny", NoRef, now)
                    ELSE Work("challenge", st, <<Challenge(principal, now)>>,
                              "challenge", [challenged |-> principal], now))

\* CommitWriteAndPreForwardAudit; the token passed VerifyApprovalToken at `now`
CommitWrite(p, w, now) ==
    /\ "commit" \in Ops
    /\ w.token # NoToken => now <= LastUse[w.token]
    /\ LET st == View(p)
           denied == \/ w.token # NoToken /\ Consumed(st, w.token, now)
                     \/ SoDConflict(st, w)
                     \/ OverBudget(st, w, now)
       IN  Enter(p, IF denied
                    THEN Work("audit", st, <<>>, "deny", NoRef, now)
                    ELSE Work("commit", st, CommitLines(w, now), "allow", w, now))

\* RevokeGrantCLI, after its OpenLedger
RevokeGrant(p, s, e) ==
    /\ "revoke" \in Ops
    /\ \E now \in Nows :
          Enter(p, Work("revoke", View(p), <<Revoke(s, e)>>, "revoked",
                        [subject |-> s, entitlement |-> e], now))
-----------------------------------------------------------------------------
(* The writes and fsyncs of a section, in order *)

\* commit and startup fsync what they wrote before they update the cache;
\* revoke-grant updates the cache at once, a challenge only the cached size
WriteState(p) ==
    /\ pc[p] = "write"
    /\ LET j == job[p]
           st == j.act \o j.todo
       IN  /\ db' = [db EXCEPT !.lines = @ \o j.todo]
           /\ IF j.op \in {"commit", "open"}
              THEN /\ pc' = [pc EXCEPT ![p] = "wsync"]
                   /\ UNCHANGED <<job, cache>>
              ELSE /\ pc' = [pc EXCEPT ![p] = "audit"]
                   /\ job' = [job EXCEPT ![p].act = st]
                   /\ cache' = [cache EXCEPT ![p].size = @ + Len(j.todo),
                                             ![p].lines = IF j.op = "revoke" THEN st ELSE @]
    /\ UNCHANGED <<audit, auditSync, dbSync, lock, clock, faults, done>>

\* Variant: no fsync of state.db between the commit and its audit record
SyncStateSkipped(p) ==
    /\ pc[p] = "wsync"
    /\ LET st == job[p].act \o job[p].todo
       IN  /\ job' = [job EXCEPT ![p].act = st]
           /\ cache' = [cache EXCEPT ![p].size = @ + Len(job[p].todo), ![p].lines = st]
    /\ pc' = [pc EXCEPT ![p] = "audit"]
    /\ UNCHANGED <<audit, auditSync, db, dbSync, lock, clock, faults, done>>

SyncState(p) ==
    /\ pc[p] = "wsync"
    /\ LET st == job[p].act \o job[p].todo
       IN  /\ job' = [job EXCEPT ![p].act = st]
           /\ cache' = [cache EXCEPT ![p].size = @ + Len(job[p].todo), ![p].lines = st]
    /\ dbSync' = Len(db.lines)
    /\ pc' = [pc EXCEPT ![p] = "audit"]
    /\ UNCHANGED <<audit, auditSync, db, lock, clock, faults, done>>

\* A line written behind a torn one completes it to one invalid line
Glue(log, line) ==
    IF log # <<>> /\ Last(log).dec = "torn"
    THEN Append(Front(log), BadAudit("garbled")) ELSE Append(log, line)

WriteAudit(p) ==
    /\ pc[p] = "audit"
    /\ LET h == HwmOf(job[p].act)
       IN  audit' = Glue(audit, [seq |-> h.seq + 1, prev |-> h.hash,
                                 dec |-> job[p].dec, ref |-> job[p].ref])
    /\ pc' = [pc EXCEPT ![p] = "async"]
    /\ UNCHANGED <<auditSync, db, dbSync, lock, job, cache, clock, faults, done>>

\* Variant: no fsync of audit.jsonl before audit_hwm is written
SyncAuditSkipped(p) ==
    /\ pc[p] = "async"
    /\ pc' = [pc EXCEPT ![p] = "hwm"]
    /\ UNCHANGED <<audit, auditSync, db, dbSync, lock, job, cache, clock, faults, done>>

SyncAudit(p) ==
    /\ pc[p] = "async"
    /\ auditSync' = Len(audit)
    /\ pc' = [pc EXCEPT ![p] = "hwm"]
    /\ UNCHANGED <<audit, db, dbSync, lock, job, cache, clock, faults, done>>

\* Variant: audit_hwm repeats the sequence number it replaces
NextHwmStuck(p) == Hwm(HwmOf(job[p].act).seq, Len(audit))

NextHwm(p) == Hwm(HwmOf(job[p].act).seq + 1, Len(audit))

WriteHwm(p) ==
    /\ pc[p] = "hwm"
    /\ db' = [db EXCEPT !.lines = Append(@, NextHwm(p))]
    /\ pc' = [pc EXCEPT ![p] = "hsync"]
    /\ UNCHANGED <<audit, auditSync, dbSync, lock, job, cache, clock, faults, done>>

\* The handler returns nil; open continues as a running process
Return(p) ==
    /\ lock' = NoProc
    /\ job' = [job EXCEPT ![p] = NoJob]
    /\ pc' = [pc EXCEPT ![p] = IF job[p].op = "repair" THEN "down" ELSE "idle"]
    /\ done' = IF job[p].op \in {"commit", "challenge"}
               THEN Append(done, [op |-> job[p].op, ref |-> job[p].ref, now |-> job[p].now])
               ELSE done

SyncHwm(p) ==
    /\ pc[p] = "hsync"
    /\ dbSync' = Len(db.lines)
    /\ LET st == Append(job[p].act, NextHwm(p))
           size == cache[p].size + 1
       IN  /\ cache' = [cache EXCEPT ![p] = IF job[p].op = "repair" THEN @
                                            ELSE [@ EXCEPT !.size = size, !.lines = st]]
           /\ IF size > CompactAt
              THEN /\ pc' = [pc EXCEPT ![p] = "compact"]
                   /\ job' = [job EXCEPT ![p].act = st]
                   /\ UNCHANGED <<lock, done>>
              ELSE Return(p)
    /\ UNCHANGED <<audit, auditSync, db, clock, faults>>

NewInodes == {i \in 1..(db.ino + 1) : i # db.ino /\ (i < db.ino => ReuseInodes)}

\* Variant: state.db.tmp is renamed without an fsync
CompactUnsynced(p) ==
    /\ pc[p] = "compact"
    /\ \E i \in NewInodes :
          LET st == Compacted(job[p].act, job[p].now)
          IN  /\ db' = [ino |-> i, lines |-> st]
              /\ cache' = [cache EXCEPT ![p] = [ino |-> i, size |-> Len(st), lines |-> st]]
    /\ Return(p)
    /\ UNCHANGED <<audit, auditSync, dbSync, clock, faults>>

\* Write, fsync and rename of state.db.tmp: other processes are locked out, and a
\* crash leaves either the old or the new file
Compact(p) ==
    /\ pc[p] = "compact"
    /\ \E i \in NewInodes :
          LET st == Compacted(job[p].act, job[p].now)
          IN  /\ db' = [ino |-> i, lines |-> st]
              /\ dbSync' = Len(st)
              /\ cache' = [cache EXCEPT ![p] = [ino |-> i, size |-> Len(st), lines |-> st]]
    /\ Return(p)
    /\ UNCHANGED <<audit, auditSync, clock, faults>>
-----------------------------------------------------------------------------
(* Opening, closing and repairing *)

CanEnterDown(p) == pc[p] = "down" /\ lock = NoProc
FreshCache == [ino |-> db.ino, size |-> Len(db.lines), lines |-> db.lines]

\* OpenLedger when the audit tail is the recorded high-water mark
Open(p) ==
    /\ CanEnterDown(p)
    /\ Parses(db.lines) /\ ChainOK(audit) /\ AtTail(HwmOf(db.lines), Len(audit))
    /\ pc' = [pc EXCEPT ![p] = "idle"]
    /\ cache' = [cache EXCEPT ![p] = FreshCache]
    /\ UNCHANGED <<audit, auditSync, db, dbSync, lock, job, clock, faults, done>>

\* OpenLedger one record behind: catch up on disk, then audit the recovery.  In
\* every other case OpenLedger refuses and the process does not start.
OpenRecover(p) ==
    /\ CanEnterDown(p)
    /\ Parses(db.lines) /\ ChainOK(audit) /\ OneBehind(HwmOf(db.lines), Len(audit))
    /\ Start(p, Work("open", db.lines, <<Hwm(Len(audit), Len(audit))>>,
                     "recovered", NoRef, clock))
    /\ cache' = [cache EXCEPT ![p] = FreshCache]
    /\ UNCHANGED <<audit, auditSync, db, dbSync, clock, faults, done>>

Exit(p) ==
    /\ pc[p] = "idle"
    /\ pc' = [pc EXCEPT ![p] = "down"]
    /\ cache' = [cache EXCEPT ![p] = NoCache]
    /\ UNCHANGED <<audit, auditSync, db, dbSync, lock, job, clock, faults, done>>

\* Variant: repair cuts the last line whether it is valid or not
CutAuditAlways(log) == IF Len(log) > 1 THEN Front(log) ELSE log

\* repair cuts an invalid last line, of state.db first
CutState(lines) == IF Len(lines) > 1 /\ Last(lines).kind = "torn" THEN Front(lines) ELSE lines
CutAudit(log) == IF Len(log) > 1 /\ ~ChainOK(log) THEN Front(log) ELSE log

Openable == /\ Parses(db.lines) /\ ChainOK(audit)
            /\ \/ AtTail(HwmOf(db.lines), Len(audit))
               \/ OneBehind(HwmOf(db.lines), Len(audit))

\* The bound MaxAudit spares a repair of a ledger that serve would not open
RepairState(p) ==
    /\ CanEnterDown(p)
    /\ Len(audit) < MaxAudit \/ ~Openable
    /\ LET lines == CutState(db.lines)
       IN  /\ db' = [db EXCEPT !.lines = lines]
           /\ dbSync' = IF lines = db.lines THEN dbSync ELSE Len(lines)
           /\ IF Parses(lines)
              THEN /\ lock' = p
                   /\ pc' = [pc EXCEPT ![p] = "cut"]
                   /\ job' = [job EXCEPT ![p] =
                                 Work("repair", lines, <<>>, "repaired", NoRef, clock)]
              ELSE UNCHANGED <<lock, pc, job>>
    /\ UNCHANGED <<audit, auditSync, cache, clock, faults, done>>

\* The audit file is cut before the high-water mark is compared.  A record it is
\* behind by is adopted in memory only; the next audit_hwm written covers it.
RepairAudit(p) ==
    /\ pc[p] = "cut"
    /\ LET log == CutAudit(audit)
           h == HwmOf(job[p].act)
           behind == OneBehind(h, Len(log))
       IN  IF ~ChainOK(log)
           THEN Leave(p) /\ UNCHANGED <<audit, auditSync>>
           ELSE /\ audit' = log
                /\ auditSync' = IF log = audit THEN auditSync ELSE Len(log)
                /\ IF AtTail(h, Len(log)) \/ behind
                   THEN /\ pc' = [pc EXCEPT ![p] = "audit"]
                        /\ job' = IF behind
                                  THEN [job EXCEPT ![p].act = Append(@, Hwm(Len(log), Len(log)))]
                                  ELSE job
                        /\ UNCHANGED <<lock, cache>>
                   ELSE Leave(p)
    /\ UNCHANGED <<db, dbSync, clock, faults, done>>
-----------------------------------------------------------------------------
(* Faults *)

MayFault(kind, procs) ==
    /\ kind \in Faults /\ faults < MaxFaults
    /\ faults' = faults + 1
    /\ RepairFaults \/ \A p \in procs : job[p].op # "repair"

\* A failed write leaves a part of its bytes; a failed fsync leaves all of them
PartialWrite(f, lines, torn) ==
    {f \o SubSeq(lines, 1, n) \o t : n \in 0..(Len(lines) - 1), t \in {<<>>, <<torn>>}}

IoError(p) ==
    /\ MayFault("io", {p})
    /\ \/ /\ pc[p] \in {"wsync", "async", "hsync", "cut"}
          /\ UNCHANGED <<audit, db, dbSync>>
       \/ /\ pc[p] \in {"write", "hwm"}
          /\ LET lines == IF pc[p] = "hwm" THEN <<NextHwm(p)>> ELSE job[p].todo
             IN  \E f \in PartialWrite(db.lines, lines, Torn) : db' = [db EXCEPT !.lines = f]
          /\ UNCHANGED <<audit, dbSync>>
       \/ /\ pc[p] = "audit"
          /\ \/ audit' = audit
             \/ audit' = Glue(audit, BadAudit("torn"))
          /\ UNCHANGED <<db, dbSync>>
       \/ /\ pc[p] = "compact"      \* before the rename, or in the stat after it
          /\ \/ UNCHANGED db
             \/ \E i \in NewInodes :
                   db' = [ino |-> i, lines |-> Compacted(job[p].act, job[p].now)]
          /\ dbSync' = Len(db'.lines)
          /\ UNCHANGED audit
    /\ Leave(p)
    /\ UNCHANGED <<auditSync, clock, done>>

\* The process dies: the kernel releases its lock and keeps the page cache
Kill(p) ==
    /\ pc[p] # "down"
    /\ MayFault("kill", {p})
    /\ pc' = [pc EXCEPT ![p] = "down"]
    /\ lock' = IF lock = p THEN NoProc ELSE lock
    /\ job' = [job EXCEPT ![p] = NoJob]
    /\ cache' = [cache EXCEPT ![p] = NoCache]
    /\ UNCHANGED <<audit, auditSync, db, dbSync, clock, done>>

\* The machine dies: of each file a prefix that contains what was synced survives
Survivors(f, sync, torn) ==
    {SubSeq(f, 1, n) : n \in sync..Len(f)}
    \cup {Append(SubSeq(f, 1, n), torn) : n \in sync..(Len(f) - 1)}

PowerFailure ==
    /\ MayFault("power", Procs)
    /\ audit' \in Survivors(audit, auditSync, BadAudit("torn"))
    /\ \E f \in Survivors(db.lines, dbSync, Torn) : db' = [db EXCEPT !.lines = f]
    /\ auditSync' = Len(audit') /\ dbSync' = Len(db'.lines)
    /\ lock' = NoProc
    /\ pc' = [p \in Procs |-> "down"]
    /\ job' = [p \in Procs |-> NoJob]
    /\ cache' = [p \in Procs |-> NoCache]
    /\ UNCHANGED <<clock, done>>

Tick ==
    /\ clock < MaxClock
    /\ clock' = clock + 1
    /\ UNCHANGED <<audit, auditSync, db, dbSync, lock, pc, job, cache, faults, done>>
-----------------------------------------------------------------------------
\* InitState wrote and synced the genesis records of both files
Init ==
    /\ audit = <<[seq |-> 1, prev |-> 0, dec |-> "init", ref |-> NoRef]>>
    /\ auditSync = 1
    /\ db = [ino |-> 1, lines |-> <<Hwm(1, 1)>>]
    /\ dbSync = 1
    /\ lock = NoProc
    /\ pc = [p \in Procs |-> "down"]
    /\ job = [p \in Procs |-> NoJob]
    /\ cache = [p \in Procs |-> NoCache]
    /\ clock = 0 /\ faults = 0
    /\ done = <<>>

Handler(p) ==
    \/ AppendAudit(p) \/ Snapshot(p)
    \/ \E principal \in Principals, now \in Nows : RecordChallenge(p, principal, now)
    \/ \E w \in Writes, now \in Nows : CommitWrite(p, w, now)
    \/ \E s \in Subjects, e \in Entitlements : RevokeGrant(p, s, e)
Lifecycle(p) == Open(p) \/ OpenRecover(p) \/ Exit(p) \/ RepairState(p)
Section(p) == \/ WriteState(p) \/ SyncState(p) \/ WriteAudit(p) \/ SyncAudit(p)
              \/ WriteHwm(p) \/ SyncHwm(p) \/ Compact(p) \/ RepairAudit(p)

Next == \/ \E p \in Procs : Handler(p) \/ Lifecycle(p) \/ Section(p) \/ IoError(p) \/ Kill(p)
        \/ PowerFailure
        \/ Tick

Spec == Init /\ [][Next]_vars
=============================================================================
