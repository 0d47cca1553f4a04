--------------------------- MODULE LedgerCommits -----------------------------
(***************************************************************************)
(* What a commit grants, and, in the second part, what it counts.          *)
(*                                                                         *)
(*  - No subject ever holds two entitlements that exclude each other, in   *)
(*    state.db or in any prefix of it a crash could leave.                 *)
(*  - No approval token lets two writes through, and none is audited as    *)
(*    used before its replay record is on disk.                            *)
(*  - A grant on disk is dropped by its own revocation only.               *)
(*                                                                         *)
(* All rest on CacheInv: CheckSoDRules and the replay check are run on     *)
(* what the cache shows, and only because that is the file do the lines of *)
(* a commit fit the file they are appended to.                             *)
(***************************************************************************)
EXTENDS LedgerFiles

\* What a section is about to write leaves state.db safe, wherever it is cut off.
Pending == \A p \in Procs : pc[p] = "write" => PrefixSafe(job[p].act \o job[p].todo)

GrantsInv == CacheInv /\ PrefixSafe(db.lines) /\ Pending
-----------------------------------------------------------------------------
(* Safe files stay safe *)

LEMMA GrantlessSafe ==
    ASSUME NEW st \in Lines, NEW t \in Lines, PrefixSafe(st),
           \A i \in DOMAIN t : t[i].kind # "grant"
    PROVE  PrefixSafe(st \o t)
BY SafeWhole, GrantlessCompatible, SafeConcat

LEMMA GrantlessRecords ==
    /\ \A i \in DOMAIN <<>> : <<>>[i].kind # "grant"
    /\ \A p \in Principals, now \in Nat : \A i \in DOMAIN <<Challenge(p, now)>> :
          <<Challenge(p, now)>>[i].kind # "grant"
    /\ \A s \in Subjects, e \in Entitlements : \A i \in DOMAIN <<Revoke(s, e)>> :
          <<Revoke(s, e)>>[i].kind # "grant"
    /\ \A n \in Nat, m \in Nat : \A i \in DOMAIN <<Hwm(n, m)>> : <<Hwm(n, m)>>[i].kind # "grant"
BY DEF Challenge, Revoke, Hwm

\* The lines that reach the file before a write fails are a prefix of all of them,
\* possibly with a torn one behind.
LEMMA PartialSafe ==
    ASSUME NEW f \in Lines, NEW lines \in Lines, NEW g, IsPartial(g, f, lines, Torn),
           PrefixSafe(f \o lines)
    PROVE  PrefixSafe(g)
<1>1. PICK n \in 0..Len(lines), t \in {<<>>, <<Torn>>} : g = f \o (SubSeq(lines, 1, n) \o t)
  BY Zenon DEF IsPartial
<1> DEFINE all == f \o lines
           x == SubSeq(lines, 1, n)
           m == Len(f) + n
<1>2. /\ all \in Lines /\ Len(all) = Len(f) + Len(lines) /\ Len(f) \in Nat /\ Len(lines) \in Nat
      /\ \A i \in 1..(Len(f) + Len(lines)) : all[i] = IF i <= Len(f) THEN f[i] ELSE lines[i - Len(f)]
  BY ConcatProperties DEF Lines
<1>3. x \in Lines /\ Len(x) = n /\ \A i \in 1..n : x[i] = lines[i]
  <2>1. \A i \in 1..n : lines[i] \in StateLine
    BY <1>2 DEF Lines
  <2> QED BY <2>1, SubSeqProperties DEF Lines
<1> HIDE DEF x, all
<1>4. /\ f \o x \in Lines /\ Len(f \o x) = m
      /\ \A i \in 1..m : (f \o x)[i] = IF i <= Len(f) THEN f[i] ELSE x[i - Len(f)]
  BY <1>3, ConcatAt
<1>5. m \in 0..Len(all)
  BY <1>2
<1> HIDE DEF m
<1>6. /\ SubSeq(all, 1, m) \in Lines /\ Len(SubSeq(all, 1, m)) = m
      /\ \A i \in 1..m : SubSeq(all, 1, m)[i] = all[i]
  <2>1. \A i \in 1..m : all[i] \in StateLine
    BY <1>2, <1>5 DEF Lines
  <2> QED BY <1>5, <2>1, SubSeqProperties DEF Lines
<1>7. SubSeq(all, 1, m) = f \o x
  <2>1. \A i \in 1..m : SubSeq(all, 1, m)[i] = (f \o x)[i]
    <3> SUFFICES ASSUME NEW i \in 1..m PROVE SubSeq(all, 1, m)[i] = (f \o x)[i]
      OBVIOUS
    <3>1. SubSeq(all, 1, m)[i] = all[i]
      BY <1>6
    <3>2. all[i] = IF i <= Len(f) THEN f[i] ELSE lines[i - Len(f)]
      <4>1. i \in 1..(Len(f) + Len(lines))
        BY <1>2 DEF m
      <4> QED BY <1>2, <4>1
    <3>3. (f \o x)[i] = IF i <= Len(f) THEN f[i] ELSE x[i - Len(f)]
      BY <1>4
    <3>4. CASE i <= Len(f)
      BY <3>1, <3>2, <3>3, <3>4
    <3>5. CASE ~(i <= Len(f))
      <4>1. i - Len(f) \in 1..n
        BY <1>2, <3>5 DEF m
      <4>2. x[i - Len(f)] = lines[i - Len(f)]
        BY <1>3, <4>1
      <4> QED BY <3>1, <3>2, <3>3, <3>5, <4>2
    <3> QED BY <3>4, <3>5
  <2> QED BY <1>4, <1>6, <2>1, SeqEqual DEF Lines
<1>8. PrefixSafe(f \o x) /\ PrefixSafe(Append(f \o x, Torn))
  BY <1>2, <1>5, <1>7, PrefixSafePrefix DEF all
<1>9. CASE t = <<>>
  <2>1. x \o <<>> = x
    BY <1>3, ConcatEmptySeq DEF Lines
  <2> QED BY <1>1, <1>8, <1>9, <2>1 DEF x
<1>10. CASE t = <<Torn>>
  <2>1. x \o <<Torn>> = Append(x, Torn) /\ f \o Append(x, Torn) = Append(f \o x, Torn)
    BY <1>2, <1>3, BadLinesType DEF Lines
  <2> QED BY <1>1, <1>8, <1>10, <2>1 DEF x
<1> QED BY <1>9, <1>10

LEMMA SurvivorsSafe ==
    ASSUME NEW f \in Lines, NEW sync \in 0..Len(f), PrefixSafe(f),
           NEW g \in Survivors(f, sync, Torn)
    PROVE  PrefixSafe(g)
<1>1. Len(f) \in Nat
  BY DEF Lines
<1>2. CASE g \in {SubSeq(f, 1, n) : n \in sync..Len(f)}
  <2>1. PICK n \in sync..Len(f) : g = SubSeq(f, 1, n)
    BY <1>2, Zenon
  <2>2. n \in 0..Len(f)
    BY <1>1
  <2> QED BY <2>1, <2>2, PrefixSafePrefix
<1>3. CASE g \in {Append(SubSeq(f, 1, n), Torn) : n \in sync..(Len(f) - 1)}
  <2>1. PICK n \in sync..(Len(f) - 1) : g = Append(SubSeq(f, 1, n), Torn)
    BY <1>3, Zenon
  <2>2. n \in 0..Len(f)
    BY <1>1
  <2> QED BY <2>1, <2>2, PrefixSafePrefix
<1> QED BY <1>2, <1>3, Zenon DEF Survivors

LEMMA CutSafe ==
    ASSUME NEW f \in Lines, PrefixSafe(f)
    PROVE  PrefixSafe(CutState(f))
<1>1. CASE Len(f) > 1
  <2>1. Len(f) - 1 \in 0..Len(f)
    BY <1>1 DEF Lines
  <2>2. Front(f) = SubSeq(f, 1, Len(f) - 1)
    BY DEF Front
  <2>3. PrefixSafe(Front(f))
    BY <2>1, <2>2, PrefixSafePrefix
  <2> QED BY <2>3 DEF CutState
<1>2. CASE ~(Len(f) > 1)
  BY <1>2 DEF CutState
<1> QED BY <1>1, <1>2

LEMMA EmptySafe == PrefixSafe(<<>>) /\ <<>> \in Lines
<1>1. <<>> \in Lines /\ \A s : GrantsOf(<<>>, s) = {}
  BY DEF Lines, GrantsOf
<1>2. Safe(<<>>)
  BY <1>1 DEF Safe
<1>3. Len(<<>>) = 0 /\ SubSeq(<<>>, 1, 0) = <<>>
  BY SubSeqEmpty
<1>4. \A n \in 0..Len(<<>>) : SubSeq(<<>>, 1, n) = <<>>
  BY <1>3
<1> QED BY <1>1, <1>2, <1>4 DEF PrefixSafe

\* The audit_hwm record a section ends with grants nothing.
LEMMA HwmSafe ==
    ASSUME GrantsInv, NEW p \in Procs, InSection(p)
    PROVE  /\ PrefixSafe(Append(db.lines, NextHwm(p)))
           /\ PrefixSafe(db.lines \o <<NextHwm(p)>>)
           /\ <<NextHwm(p)>> \in Lines
<1>1. db.lines \in Lines
  BY DEF GrantsInv, CacheInv, TypeInv, TypeOK, Lines
<1>2. NextHwm(p) \in StateLine
  BY NextType DEF GrantsInv, CacheInv
<1>3. <<NextHwm(p)>> \in Lines /\ \A i \in DOMAIN <<NextHwm(p)>> : <<NextHwm(p)>>[i].kind # "grant"
  BY <1>2 DEF Lines, NextHwm, Hwm
<1>4. Append(db.lines, NextHwm(p)) = db.lines \o <<NextHwm(p)>>
  BY <1>1, <1>2 DEF Lines
<1> QED BY <1>1, <1>3, <1>4, GrantlessSafe DEF GrantsInv
-----------------------------------------------------------------------------
(* Preservation by the steps *)

\* A section starts with a job that fits the file, or with nothing to write to it.
LEMMA HandlerSafe ==
    ASSUME GrantsInv, NEW p \in Procs, Handler(p)
    PROVE  PrefixSafe(db.lines)' /\ Pending'
<1>1. /\ db.lines \in Lines /\ pc \in [Procs -> Place] /\ job \in [Procs -> JobType]
      /\ Nows \subseteq Nat
  BY NowsType DEF GrantsInv, CacheInv, TypeInv, TypeOK, Lines
<1>2. pc[p] = "idle" /\ UNCHANGED db
  BY DEF Handler, AppendAudit, Snapshot, RecordChallenge, CommitWrite, RevokeGrant, Enter
<1>3. View(p) = db.lines
  BY <1>2, ViewIsFile DEF GrantsInv
<1>4. PrefixSafe(db.lines)'
  BY <1>2 DEF GrantsInv
<1>5. ASSUME NEW work, Enter(p, work),
             work.todo = <<>> \/ PrefixSafe(work.act \o work.todo)
      PROVE  Pending'
  <2>1. /\ job' = [job EXCEPT ![p] = work]
        /\ pc' = [pc EXCEPT ![p] = IF work.todo = <<>> THEN "audit" ELSE "write"]
    BY <1>5 DEF Enter, Start
  <2>2. /\ job'[p] = work
        /\ pc'[p] = "write" => work.todo # <<>>
        /\ \A q \in Procs : q # p => job'[q] = job[q] /\ pc'[q] = pc[q]
    BY <1>1, <2>1
  <2> SUFFICES ASSUME NEW q \in Procs, pc'[q] = "write"
               PROVE  PrefixSafe(job'[q].act \o job'[q].todo)
    BY DEF Pending
  <2>3. CASE q = p
    BY <1>5, <2>2, <2>3
  <2>4. CASE q # p
    BY <2>2, <2>4 DEF GrantsInv, Pending
  <2> QED BY <2>3, <2>4
<1>6. ASSUME NEW now \in Nows, NEW dec,
             Enter(p, Work("audit", View(p), <<>>, dec, NoRef, now))
      PROVE  Pending'
  <2> DEFINE work == Work("audit", View(p), <<>>, dec, NoRef, now)
  <2>1. Enter(p, work) /\ work.todo = <<>>
    BY <1>6 DEF Work
  <2> HIDE DEF work
  <2> QED BY <1>5, <2>1
<1>7. CASE AppendAudit(p)
  BY <1>4, <1>6, <1>7 DEF AppendAudit
<1>8. CASE Snapshot(p)
  BY <1>8 DEF Snapshot, Pending, GrantsInv
<1>9. ASSUME NEW principal \in Principals, NEW now \in Nows, RecordChallenge(p, principal, now)
      PROVE  Pending'
  <2> DEFINE t == <<Challenge(principal, now)>>
             asked == Work("challenge", View(p), t, "challenge", [challenged |-> principal], now)
  <2>1. Enter(p, asked) \/ Enter(p, Work("audit", View(p), <<>>, "deny", NoRef, now))
    BY <1>9 DEF RecordChallenge
  <2>2. t \in Lines /\ \A i \in DOMAIN t : t[i].kind # "grant"
    <3>1. now \in Nat /\ now + Minute \in Nat
      BY <1>1, LedgerConstants
    <3>2. Challenge(principal, now) \in StateLine
      BY <3>1 DEF Challenge, StateLine
    <3> QED BY <3>1, <3>2, GrantlessRecords DEF Lines
  <2>3. asked.act = View(p) /\ asked.todo = t
    BY DEF Work
  <2> HIDE DEF asked, t
  <2>4. PrefixSafe(asked.act \o asked.todo)
    BY <1>1, <1>3, <2>2, <2>3, GrantlessSafe DEF GrantsInv
  <2> QED BY <1>5, <1>6, <2>1, <2>4
<1>10. ASSUME NEW w \in Writes, NEW now \in Nows, CommitWrite(p, w, now)
       PROVE  Pending'
  <2> DEFINE t == CommitLines(w, now)
             passed == Work("commit", View(p), t, "allow", w, now)
  <2>1. \/ Enter(p, passed) /\ ~SoDConflict(View(p), w)
        \/ Enter(p, Work("audit", View(p), <<>>, "deny", NoRef, now))
    BY <1>10 DEF CommitWrite
  <2>2. t \in Lines /\ now \in Nat
    BY <1>1, CommitAdds
  <2>3. passed.act = View(p) /\ passed.todo = t
    BY DEF Work
  <2>4. ASSUME ~SoDConflict(View(p), w) PROVE PrefixSafe(db.lines \o t)
    <3>1. Safe(db.lines)
      BY <1>1, SafeWhole DEF GrantsInv
    <3>2. Compatible(db.lines, t)
      BY <1>1, <1>3, <2>2, <2>4, <3>1, CommitCompatible
    <3> QED BY <1>1, <2>2, <3>2, SafeConcat DEF GrantsInv
  <2> HIDE DEF passed, t
  <2> QED BY <1>3, <1>5, <1>6, <2>1, <2>3, <2>4
<1>11. ASSUME NEW s \in Subjects, NEW e \in Entitlements, RevokeGrant(p, s, e)
       PROVE  Pending'
  <2>1. PICK now \in Nows : Enter(p, Work("revoke", View(p), <<Revoke(s, e)>>, "revoked",
                                          [subject |-> s, entitlement |-> e], now))
    BY <1>11 DEF RevokeGrant
  <2> DEFINE t == <<Revoke(s, e)>>
             work == Work("revoke", View(p), t, "revoked",
                          [subject |-> s, entitlement |-> e], now)
  <2>2. Enter(p, work)
    BY <2>1
  <2>3. t \in Lines /\ \A i \in DOMAIN t : t[i].kind # "grant"
    <3>1. Revoke(s, e) \in StateLine
      BY DEF Revoke, StateLine
    <3> QED BY <3>1, GrantlessRecords DEF Lines
  <2>4. work.act = View(p) /\ work.todo = t
    BY DEF Work
  <2> HIDE DEF work, t
  <2>5. PrefixSafe(work.act \o work.todo)
    BY <1>1, <1>3, <2>3, <2>4, GrantlessSafe DEF GrantsInv
  <2> QED BY <1>5, <2>2, <2>5
<1> QED BY <1>4, <1>7, <1>8, <1>9, <1>10, <1>11 DEF Handler

LEMMA LifecycleSafe ==
    ASSUME GrantsInv, NEW p \in Procs, Lifecycle(p)
    PROVE  PrefixSafe(db.lines)' /\ Pending'
<1>1. /\ db \in [ino: Nat \ {0}, lines: Seq(StateLine)] /\ db.lines \in Lines
      /\ pc \in [Procs -> Place] /\ job \in [Procs -> JobType] /\ Len(audit) \in Nat
  BY DEF GrantsInv, CacheInv, TypeInv, TypeOK, Lines
<1>2. CASE Open(p) \/ Exit(p)
  <2>1. /\ UNCHANGED <<db, job>> /\ \A q \in Procs : q # p => pc'[q] = pc[q]
        /\ pc'[p] \in {"idle", "down"}
    BY <1>1, <1>2 DEF Open, Exit
  <2> QED BY <2>1 DEF GrantsInv, Pending
<1>3. CASE OpenRecover(p)
  <2> DEFINE t == <<Hwm(Len(audit), Len(audit))>>
             work == Work("open", db.lines, t, "recovered", NoRef, clock)
  <2>1. UNCHANGED db /\ Start(p, work)
    BY <1>3 DEF OpenRecover
  <2>2. t \in Lines /\ \A i \in DOMAIN t : t[i].kind # "grant"
    <3>1. Hwm(Len(audit), Len(audit)) \in StateLine
      BY <1>1 DEF Hwm, StateLine
    <3> QED BY <1>1, <3>1, GrantlessRecords DEF Lines
  <2>3. work.act = db.lines /\ work.todo = t
    BY DEF Work
  <2> HIDE DEF work, t
  <2>4. PrefixSafe(work.act \o work.todo)
    BY <1>1, <2>2, <2>3, GrantlessSafe DEF GrantsInv
  <2>5. /\ job'[p] = work
        /\ \A q \in Procs : q # p => job'[q] = job[q] /\ pc'[q] = pc[q]
    BY <1>1, <2>1 DEF Start
  <2> QED BY <2>1, <2>4, <2>5 DEF GrantsInv, Pending
<1>4. CASE RepairState(p)
  <2>1. /\ pc[p] = "down" /\ db'.lines = CutState(db.lines)
        /\ \A q \in Procs : q # p => job'[q] = job[q] /\ pc'[q] = pc[q]
        /\ pc'[p] \in {"cut", "down"}
    BY <1>1, <1>4 DEF RepairState, CanEnterDown
  <2>2. PrefixSafe(db.lines)'
    BY <1>1, <2>1, CutSafe DEF GrantsInv
  <2> QED BY <2>1, <2>2 DEF GrantsInv, Pending
<1> QED BY <1>2, <1>3, <1>4 DEF Lifecycle

LEMMA SectionSafe ==
    ASSUME GrantsInv, NEW p \in Procs, Section(p)
    PROVE  PrefixSafe(db.lines)' /\ Pending'
<1> DEFINE j == job[p]
<1>1. /\ db \in [ino: Nat \ {0}, lines: Seq(StateLine)] /\ db.lines \in Lines
      /\ pc \in [Procs -> Place] /\ job \in [Procs -> JobType]
      /\ j.act \in Lines /\ j.todo \in Lines /\ j.now \in Nat
  BY DEF GrantsInv, CacheInv, TypeInv, TypeOK, Lines, JobType
<1>2. /\ pc[p] \in {"write", "compact"} => j.op # "repair" /\ db.lines = j.act
  BY DEF GrantsInv, CacheInv, Coherent, InSection, RepairSection, AppendSection
<1>3. Pending'
  <2>1. \A q \in Procs : q # p => pc'[q] = pc[q] /\ job'[q] = job[q]
    BY <1>1 DEF Section, WriteState, SyncState, WriteAudit, SyncAudit, WriteHwm,
                SyncHwm, Compact, RepairAudit, Return, Leave
  <2>2. pc'[p] # "write"
    BY <1>1 DEF Section, WriteState, SyncState, WriteAudit, SyncAudit, WriteHwm,
                SyncHwm, Compact, RepairAudit, Return, Leave
  <2> QED BY <2>1, <2>2 DEF GrantsInv, Pending
<1>4. CASE WriteState(p)
  <2>1. pc[p] = "write" /\ db'.lines = db.lines \o j.todo
    BY <1>1, <1>4 DEF WriteState
  <2> QED BY <1>2, <1>3, <2>1 DEF GrantsInv, Pending
<1>5. CASE WriteHwm(p)
  <2>1. pc[p] = "hwm" /\ db'.lines = Append(db.lines, NextHwm(p))
    BY <1>1, <1>5 DEF WriteHwm
  <2>2. PrefixSafe(Append(db.lines, NextHwm(p)))
    BY <2>1, HwmSafe DEF InSection
  <2> QED BY <1>3, <2>1, <2>2
<1>6. CASE Compact(p)
  <2>1. pc[p] = "compact" /\ db'.lines = Compacted(j.act, j.now)
    BY <1>6 DEF Compact
  <2>2. Safe(j.act)
    BY <1>1, <1>2, <2>1, SafeWhole DEF GrantsInv
  <2> QED BY <1>1, <1>3, <2>1, <2>2, CompactedSafe
<1>7. CASE SyncState(p) \/ WriteAudit(p) \/ SyncAudit(p) \/ SyncHwm(p) \/ RepairAudit(p)
  <2>1. UNCHANGED db
    BY <1>7 DEF SyncState, WriteAudit, SyncAudit, SyncHwm, RepairAudit
  <2> QED BY <1>3, <2>1 DEF GrantsInv
<1> QED BY <1>4, <1>5, <1>6, <1>7 DEF Section

\* A write or a rename that fails leaves less than one that succeeds.
LEMMA IoErrorSafe ==
    ASSUME GrantsInv, NEW p \in Procs, IoError(p)
    PROVE  PrefixSafe(db.lines)' /\ Pending'
<1> DEFINE j == job[p]
<1>1. /\ db \in [ino: Nat \ {0}, lines: Seq(StateLine)] /\ db.lines \in Lines
      /\ pc \in [Procs -> Place] /\ job \in [Procs -> JobType]
      /\ j.act \in Lines /\ j.todo \in Lines /\ j.now \in Nat
  BY DEF GrantsInv, CacheInv, TypeInv, TypeOK, Lines, JobType
<1>2. /\ pc[p] \in {"write", "compact"} => j.op # "repair" /\ db.lines = j.act
  BY DEF GrantsInv, CacheInv, Coherent, InSection, RepairSection, AppendSection
<1>3. Pending'
  <2>1. \A q \in Procs : q # p => pc'[q] = pc[q] /\ job'[q] = job[q]
    BY <1>1 DEF IoError, Leave
  <2>2. pc'[p] # "write"
    BY <1>1 DEF IoError, Leave
  <2> QED BY <2>1, <2>2 DEF GrantsInv, Pending
<1>4. CASE UNCHANGED db
  BY <1>3, <1>4 DEF GrantsInv
<1>5. ASSUME NEW lines \in Lines, PrefixSafe(db.lines \o lines),
             \E f \in PartialWrite(db.lines, lines, Torn) : db' = [db EXCEPT !.lines = f]
      PROVE  PrefixSafe(db.lines)'
  <2>1. PICK f \in PartialWrite(db.lines, lines, Torn) : db' = [db EXCEPT !.lines = f]
    BY <1>5
  <2>2. db.lines \in Seq(StateLine) /\ lines \in Seq(StateLine) /\ Torn \in StateLine
    BY <1>1, BadLinesType DEF Lines
  <2>3. IsPartial(f, db.lines, lines, Torn)
    BY <2>2, PartialType
  <2>4. PrefixSafe(f)
    BY <1>1, <1>5, <2>3, PartialSafe
  <2> QED BY <1>1, <2>1, <2>4
<1>6. CASE /\ pc[p] = "write"
           /\ \E f \in PartialWrite(db.lines, j.todo, Torn) : db' = [db EXCEPT !.lines = f]
  <2>1. PrefixSafe(db.lines \o j.todo)
    BY <1>2, <1>6 DEF GrantsInv, Pending
  <2> QED BY <1>1, <1>3, <1>5, <1>6, <2>1
<1>7. CASE /\ pc[p] = "hwm"
           /\ \E f \in PartialWrite(db.lines, <<NextHwm(p)>>, Torn) : db' = [db EXCEPT !.lines = f]
  <2>1. PrefixSafe(db.lines \o <<NextHwm(p)>>) /\ <<NextHwm(p)>> \in Lines
    BY <1>7, HwmSafe DEF InSection
  <2> HIDE DEF j
  <2> QED BY <1>3, <1>5, <1>7, <2>1
<1>8. CASE /\ pc[p] = "compact"
           /\ \E i \in NewInodes : db' = [ino |-> i, lines |-> Compacted(j.act, j.now)]
  <2>1. db'.lines = Compacted(j.act, j.now)
    BY <1>8
  <2>2. Safe(j.act)
    BY <1>1, <1>2, <1>8, SafeWhole DEF GrantsInv
  <2> QED BY <1>1, <1>3, <2>1, <2>2, CompactedSafe
<1> QED BY <1>4, <1>6, <1>7, <1>8 DEF IoError

LEMMA CrashSafe ==
    ASSUME GrantsInv, \/ \E p \in Procs : Kill(p)
                      \/ PowerFailure
                      \/ Tick
                      \/ UNCHANGED vars
    PROVE  PrefixSafe(db.lines)' /\ Pending'
<1>1. /\ db \in [ino: Nat \ {0}, lines: Seq(StateLine)] /\ db.lines \in Lines
      /\ pc \in [Procs -> Place] /\ job \in [Procs -> JobType] /\ dbSync \in 0..Len(db.lines)
  BY DEF GrantsInv, CacheInv, TypeInv, TypeOK, Lines
<1>2. ASSUME NEW p \in Procs, Kill(p) PROVE PrefixSafe(db.lines)' /\ Pending'
  <2>1. /\ UNCHANGED db /\ pc'[p] = "down"
        /\ \A q \in Procs : q # p => pc'[q] = pc[q] /\ job'[q] = job[q]
    BY <1>1, <1>2 DEF Kill
  <2> QED BY <2>1 DEF GrantsInv, Pending
<1>3. CASE PowerFailure
  <2>1. PICK f \in Survivors(db.lines, dbSync, Torn) : db' = [db EXCEPT !.lines = f]
    BY <1>3 DEF PowerFailure
  <2>2. PrefixSafe(f)
    BY <1>1, SurvivorsSafe DEF GrantsInv
  <2>3. \A q \in Procs : pc'[q] # "write"
    BY <1>3 DEF PowerFailure
  <2> QED BY <1>1, <2>1, <2>2, <2>3 DEF Pending
<1>4. CASE Tick \/ UNCHANGED vars
  <2>1. UNCHANGED <<db, pc, job>>
    BY <1>4 DEF Tick, vars
  <2> QED BY <2>1 DEF GrantsInv, Pending
<1> QED BY <1>2, <1>3, <1>4
-----------------------------------------------------------------------------
LEMMA GrantsInit == Init => GrantsInv
<1> SUFFICES ASSUME Init PROVE GrantsInv
  OBVIOUS
<1>1. <<Hwm(1, 1)>> \in Lines
  BY DEF Lines, StateLine, Hwm
<1>2. PrefixSafe(<<>> \o <<Hwm(1, 1)>>)
  BY <1>1, EmptySafe, GrantlessRecords, GrantlessSafe
<1>3. <<>> \o <<Hwm(1, 1)>> = <<Hwm(1, 1)>>
  BY <1>1, ConcatEmptySeq DEF Lines
<1>4. Pending
  BY DEF Init, Pending
<1> QED BY <1>2, <1>3, <1>4, CacheInit DEF Init, GrantsInv

\* No file a process works on, and none a crash leaves, breaks a rule: the invariant
\* behind NoConflictingGrants.
THEOREM LedgerGrantsInv ==
    ASSUME ~ReuseInodes, "challenge" \notin Ops \/ "io" \notin Faults
    PROVE  Spec => []GrantsInv
<1>1. ASSUME GrantsInv, [Next]_vars PROVE GrantsInv'
  <2>1. CacheInv'
    BY <1>1, CacheStep DEF GrantsInv
  <2>2. PrefixSafe(db.lines)' /\ Pending'
    BY <1>1, HandlerSafe, LifecycleSafe, SectionSafe, IoErrorSafe, CrashSafe DEF Next
  <2> QED BY <2>1, <2>2 DEF GrantsInv
<1> QED BY <1>1, GrantsInit, PTL DEF Spec

\* NoConflictingGrants of run LedgerCrash, for every set of rules, subjects and
\* processes: CheckSoDRules inside the commit's critical section is enough.
THEOREM LedgerNoConflictingGrants ==
    ASSUME ~ReuseInodes, "challenge" \notin Ops \/ "io" \notin Faults
    PROVE  Spec => []NoConflictingGrants
<1>1. GrantsInv => NoConflictingGrants
  BY DEF GrantsInv, PrefixSafe, Safe, NoConflictingGrants
<1> QED BY <1>1, LedgerGrantsInv, PTL
-----------------------------------------------------------------------------
(* Approval tokens *)

\* A token nobody can use again: its replay record is on disk, or compactLocked may
\* have dropped the record because no request that still presents the token is left.
Held(t) == t = NoToken \/ /\ t \in Tokens
                          /\ \/ \E i \in 1..dbSync : db.lines[i] = Replay(t)
                             \/ clock >= LastUse[t] + Minute

\* A commit carries a token no commit before it used, and writes its replay record
\* before anything is audited.
TokenJob(p) ==
    LET j == job[p]
    IN  /\ j.now <= clock
        /\ (j.dec = "allow") <=> (j.op = "commit")
        /\ ~InSection(p) => j = NoJob
        /\ j.op = "commit" =>
              /\ j.ref.token \in Tokens \cup {NoToken}
              /\ IF pc[p] \in {"write", "wsync"}
                 THEN j.ref.token = NoToken \/ \E i \in DOMAIN j.todo : j.todo[i] = Replay(j.ref.token)
                 ELSE Held(j.ref.token)
              /\ \A i \in Commits : done[i].ref.token = j.ref.token => j.ref.token = NoToken

ReplayInv ==
    /\ CacheInv
    /\ \A p \in Procs : TokenJob(p)
    /\ \A i \in Commits : Held(done[i].ref.token)
    /\ \A i \in DOMAIN audit : audit[i].dec = "allow" => Held(audit[i].ref.token)
    /\ AtMostOnce

\* A step that keeps the records on disk where they are.
Lasting == \A i \in 1..dbSync : db.lines[i].kind # "torn" =>
               i <= dbSync' /\ db'.lines[i] = db.lines[i]

\* A step that renames a compacted file over state.db.
Compacting(p) == /\ pc[p] = "compact" /\ UNCHANGED clock
                 /\ db'.lines = Compacted(job[p].act, job[p].now) /\ dbSync' = Len(db'.lines)

\* The grants a commit binds are lines of state.db.
LEMMA BoundGrants ==
    ASSUME NEW w \in Writes
    PROVE  LET bound == SetToSeq(w.subjects \X w.entitlements)
           IN  [i \in DOMAIN bound |-> Grant(bound[i][1], bound[i][2])] \in Lines
<1> DEFINE bound == SetToSeq(w.subjects \X w.entitlements)
           n == Cardinality(w.subjects \X w.entitlements)
<1>1. w.subjects \in SUBSET Subjects /\ w.entitlements \in SUBSET Entitlements
  BY LedgerConstants DEF WriteCall
<1>2. IsFiniteSet(w.subjects \X w.entitlements)
  BY <1>1, LedgerConstants, FS_Subset, FS_Product
<1>3. bound \in [1..n -> w.subjects \X w.entitlements] /\ n \in Nat
  BY <1>2, ListOf
<1> HIDE DEF bound, n
<1>4. \A i \in 1..n : Grant(bound[i][1], bound[i][2]) \in StateLine
  BY <1>1, <1>3 DEF Grant, StateLine
<1>5. [i \in DOMAIN bound |-> Grant(bound[i][1], bound[i][2])] \in Lines
  BY <1>3, <1>4, SeqDef DEF Lines
<1> QED BY <1>5 DEF bound

LEMMA CommitSpends ==
    ASSUME NEW w \in Writes, NEW now \in Nat, w.token # NoToken
    PROVE  \E i \in DOMAIN CommitLines(w, now) : CommitLines(w, now)[i] = Replay(w.token)
<1> DEFINE bound == SetToSeq(w.subjects \X w.entitlements)
           grants == [i \in DOMAIN bound |-> Grant(bound[i][1], bound[i][2])]
<1>1. w.principal \in Principals /\ w.targets \in Nat /\ w.token \in Tokens
  BY LedgerConstants DEF WriteCall
<1>2. grants \in Lines
  BY BoundGrants
<1>3. Budget(w, now) \in StateLine /\ Replay(w.token) \in StateLine
  BY <1>1, LedgerConstants DEF Budget, Replay, StateLine
<1>4. CommitLines(w, now) = (<<Budget(w, now)>> \o grants) \o <<Replay(w.token)>>
  BY DEF CommitLines
<1> HIDE DEF grants
<1> DEFINE front == <<Budget(w, now)>> \o grants
<1>5. front \in Lines
  <2>1. <<Budget(w, now)>> \in Lines
    BY <1>3 DEF Lines
  <2> QED BY <1>2, <2>1, ConcatProperties DEF Lines
<1>6. CommitLines(w, now) = front \o <<Replay(w.token)>>
  BY <1>4
<1> HIDE DEF front
<1>7. <<Replay(w.token)>> \in Lines /\ Len(<<Replay(w.token)>>) = 1
  BY <1>3 DEF Lines
<1>8. /\ front \o <<Replay(w.token)>> \in Lines /\ Len(front) \in Nat
      /\ Len(front \o <<Replay(w.token)>>) = Len(front) + 1
      /\ (front \o <<Replay(w.token)>>)[Len(front) + 1] = Replay(w.token)
  BY <1>5, <1>7, ConcatAt
<1> QED BY <1>6, <1>8 DEF Lines

\* compactLocked keeps a replay record until it expires.
LEMMA CompactSpares ==
    ASSUME NEW st \in Lines, NEW now \in Nat, NEW t \in Tokens,
           \E i \in DOMAIN st : st[i] = Replay(t)
    PROVE  \/ \E k \in 1..Len(Compacted(st, now)) : Compacted(st, now)[k] = Replay(t)
           \/ now >= LastUse[t] + Minute
<1> DEFINE K == Kept(st, now)
<1>1. PICK i \in DOMAIN st : st[i] = Replay(t)
  OBVIOUS
<1>2. LastUse[t] + Minute \in Nat
  BY LedgerConstants
<1>3. CASE LastUse[t] + Minute > now
  <2>1. i \in K
    BY <1>1, <1>3 DEF Kept, Replay
  <2>2. K \subseteq 1..Len(st) /\ Len(st) \in Nat
    BY DEF Kept, Lines
  <2>3. IsFiniteSet(K)
    <3>1. IsFiniteSet(1..Len(st))
      BY <2>2, FS_Interval
    <3> QED BY <2>2, <3>1, FS_Subset
  <2> HIDE DEF K
  <2> DEFINE idx == SetToSeq(K)
             n == Cardinality(K)
  <2>4. n \in Nat /\ idx \in [1..n -> K] /\ \E k \in 1..n : idx[k] = i
    BY <2>1, <2>3, ListAll
  <2>5. Compacted(st, now) = [k \in DOMAIN idx |-> st[idx[k]]]
    BY DEF Compacted, K
  <2>6. Compacted(st, now) \in Lines
    BY CompactKeeps
  <2> HIDE DEF idx, n
  <2>7. PICK k \in 1..n : idx[k] = i
    BY <2>4
  <2>8. DOMAIN Compacted(st, now) = 1..n /\ Compacted(st, now)[k] = Replay(t)
    BY <1>1, <2>4, <2>5, <2>7
  <2>9. DOMAIN Compacted(st, now) = 1..Len(Compacted(st, now))
    BY <2>6 DEF Lines
  <2> QED BY <2>7, <2>8, <2>9, Zenon
<1> QED BY <1>2, <1>3

\* What a step must leave in place for a used token to stay used.
LEMMA HeldLasts ==
    ASSUME TypeOK, TypeOK', Lasting, clock' >= clock, NEW t, Held(t)
    PROVE  Held(t)'
<1>1. dbSync \in Nat /\ dbSync' \in Nat /\ clock \in Nat /\ clock' \in Nat
  <2>1. Len(db.lines) \in Nat /\ dbSync \in 0..Len(db.lines) /\ clock \in Nat
    BY DEF TypeOK
  <2>2. Len(db'.lines) \in Nat /\ dbSync' \in 0..Len(db'.lines) /\ clock' \in Nat
    BY DEF TypeOK
  <2> QED BY <2>1, <2>2
<1>2. CASE t = NoToken
  BY <1>2 DEF Held
<1>3. CASE t \in Tokens /\ \E i \in 1..dbSync : db.lines[i] = Replay(t)
  <2>1. PICK i \in 1..dbSync : db.lines[i] = Replay(t)
    BY <1>3
  <2>2. i <= dbSync' /\ db'.lines[i] = Replay(t)
    BY <2>1 DEF Lasting, Replay
  <2>3. i \in 1..dbSync'
    BY <1>1, <2>1, <2>2
  <2> QED BY <1>3, <2>2, <2>3 DEF Held
<1>4. CASE t \in Tokens /\ clock >= LastUse[t] + Minute
  <2>1. LastUse[t] + Minute \in Nat
    BY <1>4, LedgerConstants
  <2>2. clock' >= LastUse[t] + Minute
    BY <1>1, <1>4, <2>1
  <2> QED BY <1>4, <2>2 DEF Held
<1> QED BY <1>2, <1>3, <1>4 DEF Held

LEMMA AppendLasts ==
    ASSUME TypeOK, NEW x \in Lines, db'.lines = db.lines \o x, dbSync' \in Nat, dbSync' >= dbSync
    PROVE  Lasting
<1>1. db.lines \in Lines /\ dbSync \in 0..Len(db.lines) /\ Len(db.lines) \in Nat
  BY DEF TypeOK, Lines
<1>2. \A i \in 1..Len(db.lines) : (db.lines \o x)[i] = db.lines[i]
  BY <1>1, ConcatAt
<1>3. \A i \in 1..dbSync : i \in 1..Len(db.lines) /\ i <= dbSync'
  BY <1>1
<1> QED BY <1>2, <1>3 DEF Lasting

LEMMA SurvivorsLast ==
    ASSUME TypeOK, NEW f \in Survivors(db.lines, dbSync, Torn),
           db'.lines = f, dbSync' = Len(f)
    PROVE  Lasting
<1>1. db.lines \in Lines /\ dbSync \in 0..Len(db.lines) /\ Len(db.lines) \in Nat
  BY DEF TypeOK, Lines
<1>2. ASSUME NEW n \in 0..Len(db.lines)
      PROVE  /\ SubSeq(db.lines, 1, n) \in Lines /\ Len(SubSeq(db.lines, 1, n)) = n
             /\ \A i \in 1..n : SubSeq(db.lines, 1, n)[i] = db.lines[i]
  <2>1. n \in Nat /\ \A i \in 1..n : db.lines[i] \in StateLine
    BY <1>1 DEF Lines
  <2> QED BY <2>1, SubSeqProperties DEF Lines
<1>3. CASE f \in {SubSeq(db.lines, 1, n) : n \in dbSync..Len(db.lines)}
  <2>1. PICK n \in dbSync..Len(db.lines) : f = SubSeq(db.lines, 1, n)
    BY <1>3, Zenon
  <2>2. n \in 0..Len(db.lines) /\ n >= dbSync
    BY <1>1
  <2>3. Len(f) = n /\ \A i \in 1..n : f[i] = db.lines[i]
    BY <1>2, <2>1, <2>2
  <2>4. \A i \in 1..dbSync : i \in 1..n
    BY <1>1, <2>2
  <2> QED BY <2>2, <2>3, <2>4 DEF Lasting
<1>4. CASE f \in {Append(SubSeq(db.lines, 1, n), Torn) : n \in dbSync..(Len(db.lines) - 1)}
  <2>1. PICK n \in dbSync..(Len(db.lines) - 1) : f = Append(SubSeq(db.lines, 1, n), Torn)
    BY <1>4, Zenon
  <2>2. n \in 0..Len(db.lines) /\ n >= dbSync
    BY <1>1
  <2> DEFINE g == SubSeq(db.lines, 1, n)
  <2>3. g \in Lines /\ Len(g) = n /\ \A i \in 1..n : g[i] = db.lines[i]
    BY <1>2, <2>2
  <2> HIDE DEF g
  <2>4. Torn \in StateLine
    BY BadLinesType
  <2>5. Len(Append(g, Torn)) = n + 1 /\ \A i \in 1..n : Append(g, Torn)[i] = g[i]
    BY <2>3, <2>4 DEF Lines
  <2>6. Len(f) = n + 1 /\ \A i \in 1..n : f[i] = db.lines[i]
    BY <2>1, <2>3, <2>5 DEF g
  <2>7. \A i \in 1..dbSync : i \in 1..n /\ i <= n + 1
    BY <1>1, <2>2
  <2> QED BY <2>6, <2>7 DEF Lasting
<1> QED BY <1>3, <1>4, Zenon DEF Survivors

LEMMA CutLasts ==
    ASSUME TypeOK, db'.lines = CutState(db.lines),
           dbSync' = IF CutState(db.lines) = db.lines THEN dbSync ELSE Len(CutState(db.lines))
    PROVE  Lasting
<1>1. db.lines \in Lines /\ dbSync \in 0..Len(db.lines) /\ Len(db.lines) \in Nat
  BY DEF TypeOK, Lines
<1>2. CASE CutState(db.lines) = db.lines
  BY <1>1, <1>2 DEF Lasting
<1>3. CASE CutState(db.lines) # db.lines
  <2> DEFINE m == Len(db.lines) - 1
  <2>1. Len(db.lines) > 1 /\ Last(db.lines).kind = "torn" /\ CutState(db.lines) = Front(db.lines)
    BY <1>3 DEF CutState
  <2>2. m \in Nat /\ \A i \in 1..m : db.lines[i] \in StateLine
    BY <1>1, <2>1 DEF Lines
  <2>3. Front(db.lines) = SubSeq(db.lines, 1, m)
    BY DEF Front
  <2> HIDE DEF m
  <2>4. Len(Front(db.lines)) = m /\ \A i \in 1..m : Front(db.lines)[i] = db.lines[i]
    BY <1>1, <2>2, <2>3, SubSeqProperties DEF Lines
  <2>5. \A i \in 1..dbSync : db.lines[i].kind # "torn" => i \in 1..m
    BY <1>1, <2>1 DEF m, Last
  <2> QED BY <1>3, <2>1, <2>2, <2>4, <2>5 DEF Lasting
<1> QED BY <1>2, <1>3

LEMMA CompactHolds ==
    ASSUME ReplayInv, NEW p \in Procs, pc[p] = "compact",
           db'.lines = Compacted(job[p].act, job[p].now), dbSync' = Len(db'.lines),
           UNCHANGED clock, NEW t, Held(t)
    PROVE  Held(t)'
<1>1. /\ db.lines \in Lines /\ dbSync \in 0..Len(db.lines) /\ Len(db.lines) \in Nat
      /\ job[p] \in JobType /\ clock \in Nat
  BY DEF ReplayInv, CacheInv, TypeInv, TypeOK, Lines
<1>2. db.lines = job[p].act /\ job[p].now \in Nat /\ job[p].now <= clock
  BY <1>1 DEF ReplayInv, TokenJob, CacheInv, Coherent, InSection, RepairSection, AppendSection, JobType
<1>3. CASE t = NoToken \/ (t \in Tokens /\ clock >= LastUse[t] + Minute)
  BY <1>3 DEF Held
<1>4. CASE t \in Tokens /\ \E i \in 1..dbSync : db.lines[i] = Replay(t)
  <2>1. \E i \in DOMAIN db.lines : db.lines[i] = Replay(t)
    BY <1>1, <1>4 DEF Lines
  <2>2. \/ \E k \in 1..Len(Compacted(db.lines, job[p].now)) :
              Compacted(db.lines, job[p].now)[k] = Replay(t)
        \/ job[p].now >= LastUse[t] + Minute
    BY <1>1, <1>2, <1>4, <2>1, CompactSpares
  <2>3. LastUse[t] + Minute \in Nat
    BY <1>4, LedgerConstants
  <2>4. CASE job[p].now >= LastUse[t] + Minute
    <3>1. clock >= LastUse[t] + Minute
      BY <1>1, <1>2, <2>3, <2>4
    <3> QED BY <1>4, <3>1 DEF Held
  <2>5. CASE \E k \in 1..Len(Compacted(db.lines, job[p].now)) :
                Compacted(db.lines, job[p].now)[k] = Replay(t)
    <3>1. \E k \in 1..dbSync' : db'.lines[k] = Replay(t)
      BY <1>2, <2>5
    <3> QED BY <1>4, <3>1 DEF Held
  <2> QED BY <2>2, <2>4, <2>5
<1> QED BY <1>3, <1>4 DEF Held

\* Whatever happens to state.db, the records on disk stay where they are or are compacted.
LEMMA StepLasts ==
    ASSUME TypeInv, TypeOK', [Next]_vars
    PROVE  /\ clock' >= clock
           /\ Lasting \/ \E p \in Procs : Compacting(p)
<1> DEFINE Good == clock' >= clock /\ (Lasting \/ \E p \in Procs : Compacting(p))
<1>1. /\ TypeOK /\ TypeInv /\ db.lines \in Lines /\ dbSync \in 0..Len(db.lines)
      /\ Len(db.lines) \in Nat /\ dbSync \in Nat /\ clock \in Nat
      /\ db \in [ino: Nat \ {0}, lines: Seq(StateLine)]
      /\ job \in [Procs -> JobType]
  BY DEF TypeInv, TypeOK, Lines
<1>2. ASSUME UNCHANGED <<db, dbSync>>, clock' >= clock PROVE Good
  BY <1>1, <1>2 DEF Lasting
<1>3. ASSUME NEW x \in Lines, db'.lines = db.lines \o x, dbSync' \in Nat, dbSync' >= dbSync,
             UNCHANGED clock
      PROVE  Good
  BY <1>1, <1>3, AppendLasts
<1>4. ASSUME UNCHANGED <<db, clock>>, dbSync' = Len(db.lines) PROVE Good
  <2>1. db.lines \o <<>> = db.lines /\ <<>> \in Lines
    BY <1>1, ConcatEmptySeq DEF Lines
  <2> QED BY <1>1, <1>3, <1>4, <2>1
<1>5. ASSUME NEW p \in Procs, Handler(p) PROVE Good
  <2>1. UNCHANGED <<db, dbSync, clock>>
    BY <1>5 DEF Handler, AppendAudit, Snapshot, RecordChallenge, CommitWrite, RevokeGrant, Enter
  <2> QED BY <1>1, <1>2, <2>1
<1>6. ASSUME NEW p \in Procs, Lifecycle(p) PROVE Good
  <2>1. CASE Open(p) \/ OpenRecover(p) \/ Exit(p)
    BY <1>1, <1>2, <2>1 DEF Open, OpenRecover, Exit
  <2>2. CASE RepairState(p)
    <3>1. /\ db'.lines = CutState(db.lines) /\ UNCHANGED clock
          /\ dbSync' = IF CutState(db.lines) = db.lines THEN dbSync ELSE Len(CutState(db.lines))
      BY <1>1, <2>2 DEF RepairState
    <3> QED BY <1>1, <3>1, CutLasts
  <2> QED BY <1>6, <2>1, <2>2 DEF Lifecycle
<1>7. ASSUME NEW p \in Procs, Section(p) PROVE Good
  <2>1. CASE WriteState(p)
    <3>1. job[p].todo \in Lines
      BY <1>1 DEF JobType, Lines
    <3>2. db'.lines = db.lines \o job[p].todo /\ UNCHANGED <<dbSync, clock>>
      BY <1>1, <2>1 DEF WriteState
    <3>3. dbSync' \in Nat /\ dbSync' >= dbSync /\ UNCHANGED clock
      BY <1>1, <3>2
    <3> QED BY <1>3, <3>1, <3>2, <3>3, Zenon
  <2>2. CASE SyncState(p) \/ SyncHwm(p)
    BY <1>4, <2>2 DEF SyncState, SyncHwm
  <2>3. CASE WriteAudit(p) \/ SyncAudit(p) \/ RepairAudit(p)
    BY <1>1, <1>2, <2>3 DEF WriteAudit, SyncAudit, RepairAudit
  <2>4. CASE WriteHwm(p)
    <3>1. NextHwm(p) \in StateLine
      BY <1>1, <2>4, NextType DEF WriteHwm, InSection
    <3>2. db'.lines = db.lines \o <<NextHwm(p)>> /\ <<NextHwm(p)>> \in Lines
          /\ UNCHANGED <<dbSync, clock>>
      BY <1>1, <2>4, <3>1 DEF WriteHwm, Lines
    <3>3. dbSync' \in Nat /\ dbSync' >= dbSync /\ UNCHANGED clock
      BY <1>1, <3>2
    <3> QED BY <1>3, <3>2, <3>3, Zenon
  <2>5. CASE Compact(p)
    <3>1. /\ pc[p] = "compact" /\ db'.lines = Compacted(job[p].act, job[p].now)
          /\ dbSync' = Len(db'.lines) /\ UNCHANGED clock
      BY <2>5 DEF Compact
    <3> QED BY <1>1, <3>1 DEF Compacting
  <2> QED BY <1>7, <2>1, <2>2, <2>3, <2>4, <2>5 DEF Section
<1>8. ASSUME NEW p \in Procs, IoError(p) PROVE Good
  <2>1. UNCHANGED clock
    BY <1>8 DEF IoError
  <2>2. CASE UNCHANGED <<db, dbSync>>
    BY <1>1, <1>2, <2>1, <2>2
  <2>3. ASSUME NEW lines \in Lines, UNCHANGED dbSync,
               \E f \in PartialWrite(db.lines, lines, Torn) : db' = [db EXCEPT !.lines = f]
        PROVE  Good
    <3>1. PICK f \in PartialWrite(db.lines, lines, Torn) : db' = [db EXCEPT !.lines = f]
      BY <2>3
    <3>2. lines \in Seq(StateLine) /\ Torn \in StateLine /\ db.lines \in Seq(StateLine)
      BY <1>1, BadLinesType DEF Lines
    <3>3. IsPartial(f, db.lines, lines, Torn)
      BY <3>2, PartialType
    <3>4. PICK n \in 0..Len(lines), u \in {<<>>, <<Torn>>} : f = db.lines \o (SubSeq(lines, 1, n) \o u)
      BY <3>3, Zenon DEF IsPartial
    <3>5. SubSeq(lines, 1, n) \in Seq(StateLine) /\ u \in Seq(StateLine)
      <4>1. <<>> \in Seq(StateLine) /\ <<Torn>> \in Seq(StateLine)
        BY <3>2
      <4>2. SubSeq(lines, 1, n) \in Seq(StateLine)
        BY <3>2, PrefixType
      <4> QED BY <4>1, <4>2, Zenon
    <3>6. SubSeq(lines, 1, n) \o u \in Lines
      BY <3>5, ConcatProperties DEF Lines
    <3>7. db'.lines = f
      BY <1>1, <3>1
    <3>8. dbSync' \in Nat /\ dbSync' >= dbSync
      BY <1>1, <2>3
    <3> QED BY <1>3, <2>1, <3>4, <3>6, <3>7, <3>8, Zenon
  <2>4. CASE /\ pc[p] = "write" /\ UNCHANGED dbSync
             /\ \E f \in PartialWrite(db.lines, job[p].todo, Torn) : db' = [db EXCEPT !.lines = f]
    <3>1. job[p].todo \in Lines
      BY <1>1 DEF JobType, Lines
    <3> QED BY <2>3, <2>4, <3>1
  <2>5. CASE /\ pc[p] = "hwm" /\ UNCHANGED dbSync
             /\ \E f \in PartialWrite(db.lines, <<NextHwm(p)>>, Torn) : db' = [db EXCEPT !.lines = f]
    <3>1. NextHwm(p) \in StateLine
      BY <1>1, <2>5, NextType DEF InSection
    <3>2. <<NextHwm(p)>> \in Lines
      BY <3>1 DEF Lines
    <3> QED BY <2>3, <2>5, <3>2
  <2>6. CASE pc[p] = "compact" /\ UNCHANGED db /\ dbSync' = Len(db'.lines)
    BY <1>4, <2>1, <2>6
  <2>7. CASE /\ pc[p] = "compact" /\ dbSync' = Len(db'.lines)
             /\ \E i \in NewInodes : db' = [ino |-> i, lines |-> Compacted(job[p].act, job[p].now)]
    <3>1. db'.lines = Compacted(job[p].act, job[p].now)
      BY <2>7
    <3> QED BY <1>1, <2>1, <2>7, <3>1 DEF Compacting
  <2> QED BY <1>8, <2>2, <2>4, <2>5, <2>6, <2>7 DEF IoError
<1>9. CASE (\E p \in Procs : Kill(p)) \/ Tick \/ UNCHANGED vars
  <2>1. UNCHANGED <<db, dbSync>> /\ (clock' = clock \/ clock' = clock + 1)
    BY <1>9 DEF Kill, Tick, vars
  <2> QED BY <1>1, <1>2, <2>1
<1>10. CASE PowerFailure
  <2>1. PICK f \in Survivors(db.lines, dbSync, Torn) : db' = [db EXCEPT !.lines = f]
    BY <1>10 DEF PowerFailure
  <2>2. db'.lines = f /\ dbSync' = Len(f) /\ UNCHANGED clock
    BY <1>1, <1>10, <2>1 DEF PowerFailure
  <2> QED BY <1>1, <2>1, <2>2, SurvivorsLast
<1> QED BY <1>5, <1>6, <1>7, <1>8, <1>9, <1>10 DEF Next

\* No step lets a token be used that could not be used before it.
LEMMA HeldKept ==
    ASSUME ReplayInv, TypeOK', [Next]_vars, NEW t, Held(t)
    PROVE  Held(t)'
<1>1. TypeInv /\ TypeOK
  BY DEF ReplayInv, CacheInv, TypeInv
<1>2. clock' >= clock /\ (Lasting \/ \E p \in Procs : Compacting(p))
  BY <1>1, StepLasts
<1>3. CASE Lasting
  BY <1>1, <1>2, <1>3, HeldLasts
<1>4. CASE \E p \in Procs : Compacting(p)
  BY <1>4, CompactHolds DEF Compacting
<1> QED BY <1>2, <1>3, <1>4

\* An allow in `f` is one of `log`, or `line`.
Drawn(f, log, line) == \A i \in DOMAIN f : f[i].dec = "allow" =>
                           f[i] = line \/ \E k \in DOMAIN log : f[i] = log[k]

LEMMA PrefixDrawn ==
    ASSUME NEW log \in Seq(AuditLine), NEW n \in 0..Len(log), NEW line, NEW torn \in AuditLine,
           torn.dec # "allow"
    PROVE  /\ Drawn(SubSeq(log, 1, n), log, line)
           /\ Drawn(Append(SubSeq(log, 1, n), torn), log, line)
           /\ SubSeq(log, 1, n) \in Seq(AuditLine)
<1>1. n \in Nat /\ n <= Len(log) /\ \A i \in 1..n : log[i] \in AuditLine
  OBVIOUS
<1> DEFINE g == SubSeq(log, 1, n)
<1>2. g \in Seq(AuditLine) /\ Len(g) = n /\ \A i \in 1..n : g[i] = log[i]
  BY <1>1, SubSeqProperties
<1> HIDE DEF g
<1>3. /\ Append(g, torn) \in Seq(AuditLine) /\ Len(Append(g, torn)) = n + 1
      /\ Append(g, torn)[n + 1] = torn
      /\ \A i \in 1..n : Append(g, torn)[i] = g[i]
  BY <1>1, <1>2
<1>4. \A i \in 1..n : i \in DOMAIN log
  BY <1>1
<1>5. Drawn(g, log, line)
  BY <1>2, <1>4 DEF Drawn
<1>6. \A i \in DOMAIN Append(g, torn) : i \in 1..n \/ i = n + 1
  BY <1>1, <1>3
<1>7. Drawn(Append(g, torn), log, line)
  BY <1>2, <1>3, <1>4, <1>6 DEF Drawn
<1> QED BY <1>2, <1>5, <1>7 DEF g

LEMMA GlueDrawn ==
    ASSUME NEW log \in Seq(AuditLine), NEW line \in AuditLine
    PROVE  Drawn(Glue(log, line), log, line)
<1>1. BadAudit("garbled") \in AuditLine /\ BadAudit("garbled").dec # "allow"
  BY DEF BadAudit, AuditLine, Decision, Ref
<1>2. CASE log # <<>> /\ Last(log).dec = "torn"
  <2>1. Len(log) - 1 \in 0..Len(log)
    BY <1>2
  <2>2. Front(log) = SubSeq(log, 1, Len(log) - 1)
    BY DEF Front
  <2> QED BY <1>1, <1>2, <2>1, <2>2, PrefixDrawn DEF Glue
<1>3. CASE ~(log # <<>> /\ Last(log).dec = "torn")
  <2>1. Glue(log, line) = Append(log, line)
    BY <1>3 DEF Glue
  <2>2. /\ Len(log) \in Nat /\ DOMAIN Append(log, line) = 1..(Len(log) + 1)
        /\ Append(log, line)[Len(log) + 1] = line
        /\ \A i \in 1..Len(log) : Append(log, line)[i] = log[i] /\ i \in DOMAIN log
    OBVIOUS
  <2>3. \A i \in 1..(Len(log) + 1) : i \in 1..Len(log) \/ i = Len(log) + 1
    BY <2>2
  <2> QED BY <2>1, <2>2, <2>3 DEF Drawn
<1> QED BY <1>2, <1>3

\* An audited allow is one that was there, or that of the commit at hand.
LEMMA AuditDrawn ==
    ASSUME TypeInv, [Next]_vars
    PROVE  \/ Drawn(audit', audit, BadAudit("torn"))
           \/ \E p \in Procs : /\ pc[p] = "audit"
                               /\ Drawn(audit', audit,
                                        [seq |-> HwmOf(job[p].act).seq + 1,
                                         prev |-> HwmOf(job[p].act).hash,
                                         dec |-> job[p].dec, ref |-> job[p].ref])
<1> DEFINE torn == BadAudit("torn")
           Old == Drawn(audit', audit, torn)
<1>1. /\ audit \in Seq(AuditLine) /\ Len(audit) \in Nat /\ auditSync \in 0..Len(audit)
      /\ torn \in AuditLine /\ torn.dec # "allow"
  BY BadLinesType DEF TypeInv, TypeOK, BadAudit
<1>2. ASSUME UNCHANGED audit PROVE Old
  BY <1>2 DEF Drawn
<1> HIDE DEF torn
<1>3. ASSUME NEW p \in Procs, Handler(p) \/ Lifecycle(p) \/ Kill(p) PROVE Old
  BY <1>2, <1>3 DEF Handler, AppendAudit, Snapshot, RecordChallenge, CommitWrite, RevokeGrant,
                    Enter, Lifecycle, Open, OpenRecover, Exit, RepairState, Kill
<1>4. ASSUME NEW p \in Procs, Section(p)
      PROVE  \/ Old
             \/ /\ pc[p] = "audit"
                /\ Drawn(audit', audit,
                         [seq |-> HwmOf(job[p].act).seq + 1, prev |-> HwmOf(job[p].act).hash,
                          dec |-> job[p].dec, ref |-> job[p].ref])
  <2>1. CASE WriteAudit(p)
    <3> DEFINE line == [seq |-> HwmOf(job[p].act).seq + 1, prev |-> HwmOf(job[p].act).hash,
                        dec |-> job[p].dec, ref |-> job[p].ref]
    <3>1. pc[p] = "audit" /\ audit' = Glue(audit, line)
      BY <2>1 DEF WriteAudit
    <3>2. line \in AuditLine
      BY <3>1, NextType DEF InSection
    <3> HIDE DEF line
    <3>3. Drawn(audit', audit, line)
      BY <1>1, <3>1, <3>2, GlueDrawn
    <3> QED BY <3>1, <3>3 DEF line
  <2>2. CASE RepairAudit(p)
    <3>1. UNCHANGED audit \/ audit' = CutAudit(audit)
      BY <2>2 DEF RepairAudit
    <3>2. CASE audit' = CutAudit(audit) /\ Len(audit) > 1
      <4>1. Len(audit) - 1 \in 0..Len(audit)
        BY <1>1, <3>2
      <4>2. Front(audit) = SubSeq(audit, 1, Len(audit) - 1)
        BY DEF Front
      <4>3. UNCHANGED audit \/ audit' = Front(audit)
        BY <3>2 DEF CutAudit
      <4> QED BY <1>1, <1>2, <4>1, <4>2, <4>3, PrefixDrawn
    <3>3. CASE audit' = CutAudit(audit) /\ ~(Len(audit) > 1)
      BY <1>2, <3>3 DEF CutAudit
    <3> QED BY <1>2, <3>1, <3>2, <3>3
  <2>3. CASE WriteState(p) \/ SyncState(p) \/ SyncAudit(p) \/ WriteHwm(p) \/ SyncHwm(p) \/ Compact(p)
    <3>1. UNCHANGED audit
      BY <2>3 DEF WriteState, SyncState, SyncAudit, WriteHwm, SyncHwm, Compact
    <3> QED BY <1>2, <3>1
  <2> QED BY <1>4, <2>1, <2>2, <2>3 DEF Section
<1>5. ASSUME NEW p \in Procs, IoError(p) PROVE Old
  <2>1. UNCHANGED audit \/ audit' = Glue(audit, torn)
    BY <1>5 DEF IoError, torn
  <2> QED BY <1>1, <1>2, <2>1, GlueDrawn
<1>6. CASE PowerFailure
  <2>1. audit' \in Survivors(audit, auditSync, torn)
    BY <1>6 DEF PowerFailure, torn
  <2>2. CASE audit' \in {SubSeq(audit, 1, n) : n \in auditSync..Len(audit)}
    <3>1. PICK n \in auditSync..Len(audit) : audit' = SubSeq(audit, 1, n)
      BY <2>2, Zenon
    <3>2. n \in 0..Len(audit)
      BY <1>1
    <3> QED BY <1>1, <3>1, <3>2, PrefixDrawn
  <2>3. CASE audit' \in {Append(SubSeq(audit, 1, n), torn) : n \in auditSync..(Len(audit) - 1)}
    <3>1. PICK n \in auditSync..(Len(audit) - 1) : audit' = Append(SubSeq(audit, 1, n), torn)
      BY <2>3, Zenon
    <3>2. n \in 0..Len(audit)
      BY <1>1
    <3> QED BY <1>1, <3>1, <3>2, PrefixDrawn
  <2> QED BY <2>1, <2>2, <2>3, Zenon DEF Survivors
<1>7. CASE Tick \/ UNCHANGED vars
  <2>1. UNCHANGED audit
    BY <1>7 DEF Tick, vars
  <2> QED BY <1>2, <2>1 DEF torn
<1> QED BY <1>3, <1>4, <1>5, <1>6, <1>7 DEF Next, torn

\* AllowIsCommitted, in its inductive form.
LEMMA AuditHeld ==
    ASSUME ReplayInv, TypeOK', [Next]_vars
    PROVE  (\A i \in DOMAIN audit : audit[i].dec = "allow" => Held(audit[i].ref.token))'
<1> SUFFICES ASSUME NEW i \in DOMAIN audit', audit'[i].dec = "allow"
             PROVE  Held(audit[i].ref.token)'
  OBVIOUS
<1>1. PICK r : r = audit'[i] /\ r.dec = "allow"
  OBVIOUS
<1>2. PICK t : t = r.ref.token
  OBVIOUS
<1>3. Held(t)
  <2>1. CASE \E k \in DOMAIN audit : audit'[i] = audit[k]
    BY <1>1, <1>2, <2>1 DEF ReplayInv
  <2>2. CASE ~\E k \in DOMAIN audit : audit'[i] = audit[k]
    <3>1. BadAudit("torn").dec # "allow"
      BY DEF BadAudit
    <3>2. PICK p \in Procs : pc[p] = "audit" /\ r.dec = job[p].dec /\ r.ref = job[p].ref
      BY <1>1, <2>2, <3>1, AuditDrawn DEF ReplayInv, CacheInv, Drawn
    <3>3. job[p].op = "commit" /\ TokenJob(p)
      BY <1>1, <3>2 DEF ReplayInv, TokenJob
    <3> QED BY <1>2, <3>2, <3>3 DEF TokenJob
  <2> QED BY <2>1, <2>2
<1>4. Held(t)'
  BY <1>3, HeldKept
<1> QED BY <1>1, <1>2, <1>4 DEF Held
-----------------------------------------------------------------------------
(* A token lets at most one write through *)

\* A commit returns with its replay record on disk, under a token not used before.
LEMMA DoneHeld ==
    ASSUME ReplayInv, TypeOK', [Next]_vars
    PROVE  (\A i \in Commits : Held(done[i].ref.token))' /\ AtMostOnce'
<1>1. done \in Seq([op: {"commit", "challenge"}, ref: Ref, now: Nat]) /\ Len(done) \in Nat
      /\ job \in [Procs -> JobType]
  BY DEF ReplayInv, CacheInv, TypeInv, TypeOK
<1>2. \/ UNCHANGED done
      \/ \E p \in Procs :
            /\ pc[p] \in {"hsync", "compact"}
            /\ job[p].op \in {"commit", "challenge"}
            /\ done' = Append(done, [op |-> job[p].op, ref |-> job[p].ref, now |-> job[p].now])
  <2>1. ASSUME NEW p \in Procs, Handler(p) \/ Lifecycle(p) \/ IoError(p) \/ Kill(p)
        PROVE  UNCHANGED done
    BY <2>1 DEF Handler, AppendAudit, Snapshot, RecordChallenge, CommitWrite, RevokeGrant,
                Enter, Lifecycle, Open, OpenRecover, Exit, RepairState, IoError, Kill
  <2>2. ASSUME NEW p \in Procs, Section(p)
        PROVE  \/ UNCHANGED done
               \/ /\ pc[p] \in {"hsync", "compact"}
                  /\ job[p].op \in {"commit", "challenge"}
                  /\ done' = Append(done, [op |-> job[p].op, ref |-> job[p].ref, now |-> job[p].now])
    BY <2>2 DEF Section, WriteState, SyncState, WriteAudit, SyncAudit, WriteHwm, SyncHwm,
                Compact, RepairAudit, Return
  <2>3. CASE PowerFailure \/ Tick \/ UNCHANGED vars
    BY <2>3 DEF PowerFailure, Tick, vars
  <2> QED BY <2>1, <2>2, <2>3, Zenon DEF Next
<1>3. CASE UNCHANGED done
  <2>1. Commits' = Commits
    BY <1>3 DEF Commits
  <2>2. ASSUME NEW i \in Commits PROVE Held(done[i].ref.token)'
    <3>1. PICK t : t = done[i].ref.token
      OBVIOUS
    <3>2. Held(t)
      BY <3>1 DEF ReplayInv
    <3>3. Held(t)'
      BY <3>2, HeldKept
    <3> QED BY <1>3, <3>1, <3>3 DEF Held
  <2>3. AtMostOnce'
    BY <1>3, <2>1 DEF AtMostOnce, ReplayInv
  <2> QED BY <2>1, <2>2, <2>3
<1>4. ASSUME NEW p \in Procs, pc[p] \in {"hsync", "compact"},
             job[p].op \in {"commit", "challenge"},
             done' = Append(done, [op |-> job[p].op, ref |-> job[p].ref, now |-> job[p].now])
      PROVE  (\A i \in Commits : Held(done[i].ref.token))' /\ AtMostOnce'
  <2> DEFINE r == [op |-> job[p].op, ref |-> job[p].ref, now |-> job[p].now]
             n == Len(done)
  <2>1. r \in [op: {"commit", "challenge"}, ref: Ref, now: Nat]
    BY <1>1, <1>4 DEF JobType
  <2>2. /\ DOMAIN done' = 1..(n + 1) /\ done'[n + 1] = r /\ n \in Nat
        /\ \A i \in 1..n : done'[i] = done[i]
        /\ DOMAIN done = 1..n
    BY <1>1, <1>4, <2>1
  <2>3. PICK t : t = job[p].ref.token
    OBVIOUS
  <2>4. r.op = job[p].op /\ r.ref.token = t
    BY <2>3
  <2> HIDE DEF r, n
  <2>5. job[p].op = "commit" => Held(t) /\ \A i \in Commits : done[i].ref.token = t => t = NoToken
    BY <1>4, <2>3 DEF ReplayInv, TokenJob
  <2>6. \A i \in Commits' : \/ i \in Commits /\ done'[i] = done[i] /\ i \in 1..n
                            \/ i = n + 1 /\ job[p].op = "commit" /\ done'[i].ref.token = t
    BY <2>2, <2>4 DEF Commits
  <2>7. ASSUME NEW i \in Commits' PROVE Held(done[i].ref.token)'
    <3>1. PICK u : u = done'[i].ref.token
      OBVIOUS
    <3>2. Held(u)
      BY <2>5, <2>6, <3>1 DEF ReplayInv
    <3>3. Held(u)'
      BY <3>2, HeldKept
    <3> QED BY <3>1, <3>3 DEF Held
  <2>8. ASSUME NEW i \in Commits', NEW k \in Commits', i < k,
               done'[i].ref.token = done'[k].ref.token
        PROVE  done'[i].ref.token = NoToken
    <3>1. CASE k = n + 1
      <4>1. i \in Commits /\ done'[i] = done[i]
        BY <2>2, <2>6, <2>8, <3>1
      <4>2. job[p].op = "commit" /\ done'[k].ref.token = t
        BY <2>2, <2>6, <3>1
      <4> QED BY <2>5, <2>8, <4>1, <4>2
    <3>2. CASE k # n + 1
      <4>1. k \in Commits /\ k \in 1..n /\ done'[k] = done[k]
        BY <2>6, <3>2
      <4>2. i \in Commits /\ done'[i] = done[i]
        BY <2>2, <2>6, <2>8, <4>1
      <4> QED BY <2>8, <4>1, <4>2 DEF ReplayInv, AtMostOnce
    <3> QED BY <3>1, <3>2
  <2>9. AtMostOnce'
    BY <2>8 DEF AtMostOnce
  <2> QED BY <2>7, <2>9
<1> QED BY <1>2, <1>3, <1>4

\* What a step must leave in place for the job of a process to stay in order.
LEMMA JobKept ==
    ASSUME ReplayInv, TypeOK', [Next]_vars, NEW q \in Procs, clock' >= clock,
           (pc'[q] = pc[q] /\ job'[q] = job[q]) \/ job'[q] = NoJob,
           UNCHANGED done \/ job[q].op # "commit"
    PROVE  TokenJob(q)'
<1>1. /\ job[q] \in JobType /\ clock \in Nat /\ clock' \in Nat /\ job[q].now \in Nat
      /\ TokenJob(q)
  <2>1. clock' \in Nat
    BY DEF TypeOK
  <2>2. job[q] \in JobType /\ clock \in Nat /\ TokenJob(q)
    BY DEF ReplayInv, CacheInv, TypeInv, TypeOK
  <2> QED BY <2>1, <2>2 DEF JobType
<1>2. CASE job'[q] = NoJob
  BY <1>1, <1>2 DEF TokenJob, NoJob, Work
<1>3. CASE pc'[q] = pc[q] /\ job'[q] = job[q]
  <2>1. PICK t : t = job[q].ref.token
    OBVIOUS
  <2>2. Held(t) => Held(t)'
    BY HeldKept
  <2>3. /\ job'[q].now <= clock'
        /\ (job'[q].dec = "allow") <=> (job'[q].op = "commit")
        /\ ~InSection(q)' => job'[q] = NoJob
    BY <1>1, <1>3 DEF TokenJob, InSection
  <2>4. ASSUME job'[q].op = "commit"
        PROVE  /\ t \in Tokens \cup {NoToken}
               /\ IF pc'[q] \in {"write", "wsync"}
                  THEN t = NoToken \/ \E i \in DOMAIN job'[q].todo : job'[q].todo[i] = Replay(t)
                  ELSE Held(t)'
               /\ \A i \in Commits' : done'[i].ref.token = t => t = NoToken
    <3>1. UNCHANGED done /\ Commits' = Commits
      BY <1>3, <2>4 DEF Commits
    <3> QED BY <1>1, <1>3, <2>1, <2>2, <2>4, <3>1 DEF TokenJob
  <2>5. t = job'[q].ref.token
    BY <1>3, <2>1
  <2>6. Held(t)' => Held(job[q].ref.token)'
    BY <2>5 DEF Held
  <2> QED BY <2>3, <2>4, <2>5, <2>6 DEF TokenJob
<1> QED BY <1>2, <1>3

\* A section that is just entered.
LEMMA JobStarted ==
    ASSUME NEW p \in Procs, NEW work \in JobType, TypeOK', UNCHANGED <<clock, done>>,
           pc \in [Procs -> Place], job \in [Procs -> JobType], clock \in Nat,
           Start(p, work), work.now <= clock, (work.dec = "allow") <=> (work.op = "commit"),
           work.op = "commit" =>
              /\ work.ref.token \in Tokens \cup {NoToken}
              /\ \/ work.ref.token = NoToken
                 \/ \E i \in DOMAIN work.todo : work.todo[i] = Replay(work.ref.token)
              /\ \A i \in Commits : done[i].ref.token = work.ref.token => work.ref.token = NoToken
    PROVE  TokenJob(p)'
<1>1. /\ job'[p] = work
      /\ pc'[p] = IF work.todo = <<>> THEN "audit" ELSE "write"
      /\ Commits' = Commits
  BY DEF Start, Commits
<1>2. InSection(p)'
  BY <1>1 DEF InSection
<1>3. CASE work.todo = <<>>
  <2>1. work.op = "commit" => work.ref.token = NoToken
    BY <1>3
  <2>2. work.op = "commit" => Held(work.ref.token)'
    BY <1>1, <2>1 DEF Held
  <2> QED BY <1>1, <1>2, <1>3, <2>1, <2>2 DEF TokenJob, Held
<1>4. CASE work.todo # <<>>
  BY <1>1, <1>2, <1>4 DEF TokenJob
<1> QED BY <1>3, <1>4

\* A token that passes VerifyApprovalToken and Consumed was never used: its record
\* would be in the file, or the request too old to carry it.
LEMMA FreshToken ==
    ASSUME ReplayInv, MaxStale < Minute, NEW w \in Writes, NEW now \in Nows,
           w.token # NoToken, now <= LastUse[w.token], ~Consumed(db.lines, w.token, now)
    PROVE  \A i \in Commits : done[i].ref.token # w.token
<1>1. /\ dbSync \in 0..Len(db.lines) /\ Len(db.lines) \in Nat /\ clock \in Nat
      /\ db.lines \in Lines
  BY DEF ReplayInv, CacheInv, TypeInv, TypeOK, Lines
<1>2. w.token \in Tokens
  BY LedgerConstants DEF WriteCall
<1>3. LastUse[w.token] \in Nat /\ MaxStale \in Nat /\ Minute \in Nat
  BY <1>2, LedgerConstants
<1>4. now \in Nat /\ now + MaxStale >= clock
  BY <1>1 DEF Nows
<1>5. ~Held(w.token)
  <2>1. ~(clock >= LastUse[w.token] + Minute)
    BY <1>1, <1>3, <1>4
  <2>2. ASSUME NEW i \in 1..dbSync, db.lines[i] = Replay(w.token) PROVE FALSE
    <3>1. i \in DOMAIN db.lines
      BY <1>1 DEF Lines
    <3>2. /\ db.lines[i].kind = "replay" /\ db.lines[i].key = w.token
          /\ db.lines[i].exp = LastUse[w.token] + Minute
      BY <2>2 DEF Replay
    <3>3. LastUse[w.token] + Minute >= now
      BY <1>3, <1>4
    <3> QED BY <3>1, <3>2, <3>3 DEF Consumed
  <2> QED BY <2>1, <2>2 DEF Held
<1> QED BY <1>5 DEF ReplayInv

LEMMA HandlerTokens ==
    ASSUME ReplayInv, TypeOK', MaxStale < Minute, NEW p \in Procs, Handler(p)
    PROVE  \A q \in Procs : TokenJob(q)'
<1>1. /\ pc \in [Procs -> Place] /\ job \in [Procs -> JobType] /\ clock \in Nat
      /\ \A now \in Nows : now \in Nat /\ now <= clock
      /\ View(p) \in Lines
  BY ViewType DEF ReplayInv, CacheInv, TypeInv, TypeOK, Nows
<1>2. /\ \A q \in Procs : q # p => pc'[q] = pc[q] /\ job'[q] = job[q]
      /\ UNCHANGED <<clock, done>> /\ pc[p] = "idle"
  BY <1>1 DEF Handler, AppendAudit, Snapshot, RecordChallenge, CommitWrite, RevokeGrant, Enter, Start
<1>3. View(p) = db.lines
  BY <1>2, ViewIsFile DEF ReplayInv
<1>4. [Next]_vars
  BY DEF Next
<1>5. \A q \in Procs : q # p => TokenJob(q)'
  <2> SUFFICES ASSUME NEW q \in Procs, q # p PROVE TokenJob(q)'
    OBVIOUS
  <2>1. clock' >= clock
    BY <1>1, <1>2
  <2> QED BY <1>2, <1>4, <2>1, JobKept
<1>6. ASSUME NEW work \in JobType, Enter(p, work), work.now <= clock,
             (work.dec = "allow") <=> (work.op = "commit"),
             work.op = "commit" =>
                /\ work.ref.token \in Tokens \cup {NoToken}
                /\ \/ work.ref.token = NoToken
                   \/ \E i \in DOMAIN work.todo : work.todo[i] = Replay(work.ref.token)
                /\ \A i \in Commits : done[i].ref.token = work.ref.token => work.ref.token = NoToken
      PROVE  TokenJob(p)'
  BY <1>1, <1>2, <1>6, JobStarted DEF Enter
<1>7. ASSUME NEW now \in Nows, NEW dec \in {"event", "deny"},
             Enter(p, Work("audit", View(p), <<>>, dec, NoRef, now))
      PROVE  TokenJob(p)'
  <2> DEFINE work == Work("audit", View(p), <<>>, dec, NoRef, now)
  <2>1. /\ work \in JobType /\ work.now = now /\ work.dec # "allow" /\ work.op = "audit"
    BY <1>1 DEF Work, JobType, Decision, Ref, Lines
  <2> HIDE DEF work
  <2>2. Enter(p, work) /\ work.now <= clock
    BY <1>1, <1>7, <2>1 DEF work
  <2> QED BY <1>6, <2>1, <2>2
<1>8. CASE AppendAudit(p)
  <2>1. PICK now \in Nows : Enter(p, Work("audit", View(p), <<>>, "event", NoRef, now))
    BY <1>8 DEF AppendAudit
  <2> QED BY <1>5, <1>7, <2>1
<1>9. CASE Snapshot(p)
  <2>1. UNCHANGED <<pc, job, clock, done>>
    BY <1>9 DEF Snapshot
  <2>2. clock' >= clock /\ pc'[p] = pc[p] /\ job'[p] = job[p]
    BY <1>1, <2>1
  <2> QED BY <1>4, <2>1, <2>2, JobKept
<1>10. ASSUME NEW principal \in Principals, NEW now \in Nows, RecordChallenge(p, principal, now)
       PROVE  TokenJob(p)'
  <2> DEFINE t == <<Challenge(principal, now)>>
             asked == Work("challenge", View(p), t, "challenge", [challenged |-> principal], now)
  <2>1. Enter(p, asked) \/ Enter(p, Work("audit", View(p), <<>>, "deny", NoRef, now))
    BY <1>10 DEF RecordChallenge
  <2>2. t \in Lines
    <3>1. now \in Nat /\ now + Minute \in Nat
      BY <1>1, LedgerConstants
    <3>2. Challenge(principal, now) \in StateLine
      BY <3>1 DEF Challenge, StateLine
    <3> QED BY <3>2 DEF Lines
  <2> HIDE DEF t
  <2>3. asked \in JobType /\ asked.now = now /\ asked.dec # "allow" /\ asked.op = "challenge"
    BY <1>1, <2>2 DEF Work, JobType, Decision, Ref, Lines
  <2>4. asked.now <= clock
    BY <1>1, <2>3
  <2> HIDE DEF asked
  <2> QED BY <1>6, <1>7, <2>1, <2>3, <2>4
<1>11. ASSUME NEW w \in Writes, NEW now \in Nows, CommitWrite(p, w, now)
       PROVE  TokenJob(p)'
  <2> DEFINE t == CommitLines(w, now)
             passed == Work("commit", View(p), t, "allow", w, now)
  <2>1. \/ /\ Enter(p, passed)
           /\ w.token # NoToken => now <= LastUse[w.token] /\ ~Consumed(View(p), w.token, now)
        \/ Enter(p, Work("audit", View(p), <<>>, "deny", NoRef, now))
    BY <1>11 DEF CommitWrite
  <2>2. t \in Lines /\ now \in Nat /\ w.token \in Tokens \cup {NoToken}
        /\ (w.token # NoToken => \E i \in DOMAIN t : t[i] = Replay(w.token))
    <3>1. w \in WriteCall
      BY LedgerConstants
    <3> QED BY <1>1, <3>1, CommitAdds, CommitSpends DEF WriteCall
  <2> HIDE DEF t
  <2>3. /\ passed \in JobType /\ passed.now = now /\ passed.dec = "allow" /\ passed.op = "commit"
        /\ passed.todo = t /\ passed.ref = w
    BY <1>1, <2>2 DEF Work, JobType, Decision, Ref, Lines
  <2>4. passed.now <= clock
    BY <1>1, <2>3
  <2> HIDE DEF passed
  <2>5. CASE /\ Enter(p, passed)
             /\ w.token # NoToken => now <= LastUse[w.token] /\ ~Consumed(View(p), w.token, now)
    <3>1. \A i \in Commits : done[i].ref.token = w.token => w.token = NoToken
      BY <1>3, <2>5, FreshToken
    <3> QED BY <1>6, <2>2, <2>3, <2>4, <2>5, <3>1
  <2> QED BY <1>7, <2>1, <2>5
<1>12. ASSUME NEW s \in Subjects, NEW e \in Entitlements, RevokeGrant(p, s, e)
       PROVE  TokenJob(p)'
  <2>1. PICK now \in Nows : Enter(p, Work("revoke", View(p), <<Revoke(s, e)>>, "revoked",
                                          [subject |-> s, entitlement |-> e], now))
    BY <1>12 DEF RevokeGrant
  <2> DEFINE work == Work("revoke", View(p), <<Revoke(s, e)>>, "revoked",
                          [subject |-> s, entitlement |-> e], now)
  <2>2. <<Revoke(s, e)>> \in Lines
    BY DEF Revoke, StateLine, Lines
  <2>3. work \in JobType /\ work.now = now /\ work.dec # "allow" /\ work.op = "revoke"
    BY <1>1, <2>2 DEF Work, JobType, Decision, Ref, Lines
  <2> HIDE DEF work
  <2>4. Enter(p, work) /\ work.now <= clock
    BY <1>1, <2>1, <2>3 DEF work
  <2> QED BY <1>6, <2>3, <2>4
<1>13. TokenJob(p)'
  BY <1>8, <1>9, <1>10, <1>11, <1>12 DEF Handler
<1> QED BY <1>5, <1>13

LEMMA LifecycleTokens ==
    ASSUME ReplayInv, TypeOK', NEW p \in Procs, Lifecycle(p)
    PROVE  \A q \in Procs : TokenJob(q)'
<1>1. /\ pc \in [Procs -> Place] /\ job \in [Procs -> JobType] /\ clock \in Nat
      /\ db.lines \in Lines /\ audit \in Seq(AuditLine) /\ Len(audit) \in Nat
  BY DEF ReplayInv, CacheInv, TypeInv, TypeOK, Lines
<1>2. /\ \A q \in Procs : q # p => pc'[q] = pc[q] /\ job'[q] = job[q]
      /\ UNCHANGED <<clock, done>>
  BY <1>1 DEF Lifecycle, Open, OpenRecover, Exit, RepairState, Start
<1>3. [Next]_vars /\ clock' >= clock
  BY <1>1, <1>2 DEF Next
<1>4. \A q \in Procs : q # p => TokenJob(q)'
  BY <1>2, <1>3, JobKept
<1>5. CASE Open(p) \/ Exit(p)
  <2>1. pc[p] \in {"down", "idle"} /\ UNCHANGED job
    BY <1>5 DEF Open, Exit, CanEnterDown
  <2>2. job'[p] = NoJob
    BY <2>1 DEF ReplayInv, TokenJob, InSection
  <2> QED BY <1>2, <1>3, <1>4, <2>2, JobKept
<1>6. CASE OpenRecover(p)
  <2> DEFINE work == Work("open", db.lines, <<Hwm(Len(audit), Len(audit))>>,
                          "recovered", NoRef, clock)
  <2>1. Hwm(Len(audit), Len(audit)) \in StateLine
    BY <1>1 DEF Hwm, StateLine
  <2>2. work \in JobType /\ work.now = clock /\ work.dec # "allow" /\ work.op = "open"
    BY <1>1, <2>1 DEF Work, JobType, Decision, Ref, Lines
  <2>3. Start(p, work)
    BY <1>6 DEF OpenRecover
  <2> HIDE DEF work
  <2>4. work.now <= clock
    BY <1>1, <2>2
  <2> QED BY <1>1, <1>2, <1>4, <2>2, <2>3, <2>4, JobStarted
<1>7. CASE RepairState(p)
  <2>1. \/ UNCHANGED <<pc, job>>
        \/ /\ pc'[p] = "cut"
           /\ job'[p] = Work("repair", CutState(db.lines), <<>>, "repaired", NoRef, clock)
    BY <1>1, <1>7 DEF RepairState
  <2>2. CASE UNCHANGED <<pc, job>>
    BY <1>2, <1>3, <1>4, <2>2, JobKept
  <2>3. CASE /\ pc'[p] = "cut"
             /\ job'[p] = Work("repair", CutState(db.lines), <<>>, "repaired", NoRef, clock)
    <3>1. /\ job'[p].now = clock /\ job'[p].dec # "allow" /\ job'[p].op = "repair"
      BY <2>3 DEF Work
    <3>2. job'[p].now <= clock' /\ InSection(p)'
      BY <1>1, <1>2, <2>3, <3>1 DEF InSection
    <3> QED BY <1>4, <3>1, <3>2 DEF TokenJob
  <2> QED BY <2>1, <2>2, <2>3
<1> QED BY <1>5, <1>6, <1>7 DEF Lifecycle

\* A section goes on with the same request, or is over.
LEMMA SectionTokens ==
    ASSUME ReplayInv, TypeOK', NEW p \in Procs, Section(p)
    PROVE  \A q \in Procs : TokenJob(q)'
<1> DEFINE j == job[p]
<1>1. /\ pc \in [Procs -> Place] /\ job \in [Procs -> JobType] /\ clock \in Nat
      /\ db.lines \in Lines /\ j.act \in Lines /\ j.todo \in Lines /\ dbSync' \in Nat
  <2>1. dbSync' \in 0..Len(db'.lines) /\ Len(db'.lines) \in Nat
    BY DEF TypeOK
  <2>2. /\ pc \in [Procs -> Place] /\ job \in [Procs -> JobType] /\ clock \in Nat
        /\ db.lines \in Lines
    BY DEF ReplayInv, CacheInv, TypeInv, TypeOK, Lines
  <2>3. j.act \in Lines /\ j.todo \in Lines
    BY <2>2 DEF Lines, JobType
  <2> QED BY <2>1, <2>2, <2>3
<1>2. /\ \A q \in Procs : q # p => pc'[q] = pc[q] /\ job'[q] = job[q]
      /\ UNCHANGED clock /\ InSection(p)
  BY <1>1 DEF Section, WriteState, SyncState, WriteAudit, SyncAudit, WriteHwm, SyncHwm,
              Compact, RepairAudit, Return, Leave, InSection
<1>3. [Next]_vars /\ clock' >= clock
  BY <1>1, <1>2 DEF Next
<1>4. \A q \in Procs : q # p => TokenJob(q)'
  <2> SUFFICES ASSUME NEW q \in Procs, q # p PROVE TokenJob(q)'
    OBVIOUS
  <2>1. ~InSection(q)
    BY <1>2 DEF ReplayInv, CacheInv, Coherent
  <2>2. job[q].op # "commit"
    BY <2>1 DEF ReplayInv, TokenJob, NoJob, Work
  <2> QED BY <1>2, <1>3, <2>2, JobKept
<1>5. TokenJob(p) /\ j.now \in Nat /\ (j.op = "repair" => pc[p] \notin {"write", "wsync", "compact"})
      /\ (j.op # "repair" => pc[p] # "cut" /\ (pc[p] = "wsync" => db.lines = j.act \o j.todo))
  BY <1>1, <1>2 DEF ReplayInv, CacheInv, Coherent, RepairSection, AppendSection, JobType
<1>6. ASSUME job'[p] = NoJob PROVE TokenJob(p)'
  BY <1>1, <1>2, <1>6 DEF TokenJob, NoJob, Work
<1>7. PICK t : t = j.ref.token
  OBVIOUS
<1>8. ASSUME UNCHANGED done, InSection(p)', job'[p] = [j EXCEPT !.act = job'[p].act],
             j.op = "commit" =>
                \/ pc[p] \in {"write", "wsync"} /\ pc'[p] \in {"write", "wsync"}
                \/ pc[p] \notin {"write", "wsync"} /\ pc'[p] \notin {"write", "wsync"}
                \/ pc'[p] \notin {"write", "wsync"} /\ Held(t)'
      PROVE  TokenJob(p)'
  <2>1. /\ job'[p].op = j.op /\ job'[p].todo = j.todo /\ job'[p].dec = j.dec
        /\ job'[p].ref = j.ref /\ job'[p].now = j.now
    BY <1>1, <1>8 DEF JobType
  <2>2. Held(t) => Held(t)'
    BY <1>3, HeldKept
  <2>3. Held(t)' => Held(job[p].ref.token)'
    BY <1>7, <2>1 DEF Held
  <2>4. Commits' = Commits
    BY <1>8 DEF Commits
  <2>5. ASSUME j.op = "commit"
        PROVE  /\ t \in Tokens \cup {NoToken}
               /\ IF pc'[p] \in {"write", "wsync"}
                  THEN t = NoToken \/ \E i \in DOMAIN j.todo : j.todo[i] = Replay(t)
                  ELSE Held(t)'
               /\ \A i \in Commits' : done'[i].ref.token = t => t = NoToken
    BY <1>5, <1>7, <1>8, <2>2, <2>4, <2>5 DEF TokenJob
  <2>6. /\ job'[p].now <= clock'
        /\ (job'[p].dec = "allow") <=> (job'[p].op = "commit")
    BY <1>2, <1>5, <2>1 DEF TokenJob
  <2>7. t = job'[p].ref.token
    BY <1>7, <2>1
  <2> HIDE DEF j
  <2> QED BY <1>8, <2>1, <2>3, <2>5, <2>6, <2>7 DEF TokenJob
<1>9. j = [j EXCEPT !.act = j.act] /\ \A x : [j EXCEPT !.act = x].act = x
  BY <1>1 DEF JobType
<1>10. CASE WriteState(p)
  <2>1. /\ pc[p] = "write" /\ UNCHANGED done
        /\ \/ j.op \in {"commit", "open"} /\ pc'[p] = "wsync" /\ job'[p] = j
           \/ j.op \notin {"commit", "open"} /\ pc'[p] = "audit" /\ job'[p] = [j EXCEPT !.act = j.act \o j.todo]
    BY <1>1, <1>10 DEF WriteState
  <2>2. InSection(p)'
    BY <2>1 DEF InSection
  <2>3. job'[p] = [j EXCEPT !.act = job'[p].act]
    BY <1>9, <2>1
  <2> QED BY <1>4, <1>8, <2>1, <2>2, <2>3
<1>11. CASE SyncState(p)
  <2>1. /\ pc[p] = "wsync" /\ UNCHANGED done /\ pc'[p] = "audit" /\ UNCHANGED db
        /\ job'[p] = [j EXCEPT !.act = j.act \o j.todo] /\ dbSync' = Len(db.lines)
    BY <1>1, <1>11 DEF SyncState
  <2>2. InSection(p)'
    BY <2>1 DEF InSection
  <2>3. job'[p] = [j EXCEPT !.act = job'[p].act]
    BY <1>9, <2>1
  <2>4. ASSUME j.op = "commit" PROVE Held(t)'
    <3>1. t \in Tokens \cup {NoToken} /\ (t = NoToken \/ \E i \in DOMAIN j.todo : j.todo[i] = Replay(t))
      BY <1>5, <1>7, <2>1, <2>4 DEF TokenJob
    <3>2. CASE t = NoToken
      BY <3>2 DEF Held
    <3>3. CASE t \in Tokens /\ \E i \in DOMAIN j.todo : j.todo[i] = Replay(t)
      <4>1. PICK i \in DOMAIN j.todo : j.todo[i] = Replay(t)
        BY <3>3
      <4>2. db.lines = j.act \o j.todo
        BY <1>5, <2>1, <2>4
      <4> HIDE DEF j
      <4>3. /\ Len(j.act \o j.todo) = Len(j.act) + Len(j.todo) /\ Len(j.act) \in Nat /\ Len(j.todo) \in Nat
            /\ \A k \in 1..(Len(j.act) + Len(j.todo)) :
                  (j.act \o j.todo)[k] = IF k <= Len(j.act) THEN j.act[k] ELSE j.todo[k - Len(j.act)]
        BY <1>1, ConcatAt
      <4>4. i \in 1..Len(j.todo)
        BY <1>1, <4>1 DEF Lines
      <4> DEFINE k == Len(j.act) + i
      <4>5. k \in 1..(Len(j.act) + Len(j.todo)) /\ ~(k <= Len(j.act)) /\ k - Len(j.act) = i
        <5>1. Len(j.act) \in Nat /\ Len(j.todo) \in Nat
          BY <4>3
        <5>2. \A a, b \in Nat : \A x \in 1..b :
                 a + x \in 1..(a + b) /\ ~(a + x <= a) /\ (a + x) - a = x
          OBVIOUS
        <5> QED BY <4>4, <5>1, <5>2, Zenon
      <4> HIDE DEF k
      <4>6. db.lines[k] = Replay(t) /\ k \in 1..dbSync'
        BY <2>1, <4>1, <4>2, <4>3, <4>5
      <4>7. db'.lines[k] = Replay(t)
        BY <2>1, <4>6
      <4> QED BY <3>3, <4>6, <4>7 DEF Held
    <3> QED BY <3>1, <3>2, <3>3
  <2> QED BY <1>4, <1>8, <2>1, <2>2, <2>3, <2>4
<1>12. CASE WriteAudit(p) \/ SyncAudit(p) \/ WriteHwm(p)
  <2>1. /\ pc[p] \in {"audit", "async", "hwm"} /\ pc'[p] \in {"async", "hwm", "hsync"}
        /\ UNCHANGED <<job, done>>
    BY <1>1, <1>12 DEF WriteAudit, SyncAudit, WriteHwm
  <2>2. InSection(p)'
    BY <2>1 DEF InSection
  <2> QED BY <1>4, <1>8, <1>9, <2>1, <2>2
<1>13. CASE SyncHwm(p)
  <2>1. \/ job'[p] = NoJob
        \/ /\ pc[p] = "hsync" /\ pc'[p] = "compact" /\ UNCHANGED done
           /\ job'[p] = [j EXCEPT !.act = Append(j.act, NextHwm(p))]
    BY <1>1, <1>13 DEF SyncHwm, Return
  <2>2. CASE /\ pc[p] = "hsync" /\ pc'[p] = "compact" /\ UNCHANGED done
             /\ job'[p] = [j EXCEPT !.act = Append(j.act, NextHwm(p))]
    <3>1. InSection(p)'
      BY <2>2 DEF InSection
    <3>2. job'[p] = [j EXCEPT !.act = job'[p].act]
      BY <1>9, <2>2
    <3> QED BY <1>4, <1>8, <2>2, <3>1, <3>2
  <2> QED BY <1>4, <1>6, <2>1, <2>2
<1>14. CASE Compact(p)
  <2>1. job'[p] = NoJob
    BY <1>1, <1>14 DEF Compact, Return
  <2> QED BY <1>4, <1>6, <2>1
<1>15. CASE RepairAudit(p)
  <2>1. \/ job'[p] = NoJob
        \/ /\ pc[p] = "cut" /\ pc'[p] = "audit" /\ UNCHANGED done
           /\ \/ job'[p] = j
              \/ \E x : job'[p] = [j EXCEPT !.act = x]
    BY <1>1, <1>15 DEF RepairAudit, Leave
  <2>2. CASE /\ pc[p] = "cut" /\ pc'[p] = "audit" /\ UNCHANGED done
             /\ \/ job'[p] = j
                \/ \E x : job'[p] = [j EXCEPT !.act = x]
    <3>1. InSection(p)'
      BY <2>2 DEF InSection
    <3>2. job'[p] = [j EXCEPT !.act = job'[p].act]
      BY <1>9, <2>2
    <3> QED BY <1>4, <1>8, <2>2, <3>1, <3>2
  <2> QED BY <1>4, <1>6, <2>1, <2>2
<1> QED BY <1>10, <1>11, <1>12, <1>13, <1>14, <1>15 DEF Section

LEMMA FaultTokens ==
    ASSUME ReplayInv, TypeOK',
           \/ \E p \in Procs : IoError(p) \/ Kill(p)
           \/ PowerFailure
           \/ Tick
           \/ UNCHANGED vars
    PROVE  \A q \in Procs : TokenJob(q)'
<1>1. /\ pc \in [Procs -> Place] /\ job \in [Procs -> JobType] /\ clock \in Nat
  BY DEF ReplayInv, CacheInv, TypeInv, TypeOK
<1>2. [Next]_vars
  BY DEF Next
<1>3. UNCHANGED done /\ (clock' = clock \/ clock' = clock + 1)
  BY DEF IoError, Kill, PowerFailure, Tick, vars
<1>4. clock' >= clock
  BY <1>1, <1>3
<1>5. \A q \in Procs : (pc'[q] = pc[q] /\ job'[q] = job[q]) \/ job'[q] = NoJob
  <2>1. ASSUME NEW p \in Procs, IoError(p) \/ Kill(p)
        PROVE  \A q \in Procs : (pc'[q] = pc[q] /\ job'[q] = job[q]) \/ job'[q] = NoJob
    BY <1>1, <2>1 DEF IoError, Kill, Leave
  <2>2. CASE PowerFailure
    BY <2>2 DEF PowerFailure
  <2>3. CASE Tick \/ UNCHANGED vars
    BY <2>3 DEF Tick, vars
  <2> QED BY <2>1, <2>2, <2>3
<1> QED BY <1>2, <1>3, <1>4, <1>5, JobKept
-----------------------------------------------------------------------------
LEMMA ReplayInit == Init => ReplayInv
<1> SUFFICES ASSUME Init PROVE ReplayInv
  OBVIOUS
<1>1. CacheInv
  BY CacheInit
<1>2. \A p \in Procs : TokenJob(p)
  BY DEF Init, TokenJob, NoJob, Work
<1>3. Commits = {}
  BY DEF Init, Commits
<1>4. \A i \in DOMAIN audit : audit[i].dec # "allow"
  BY DEF Init
<1> QED BY <1>1, <1>2, <1>3, <1>4 DEF ReplayInv, AtMostOnce

\* Whatever was let through or audited under a token, the token cannot be used again:
\* the invariant behind AtMostOnce and AllowIsCommitted.  Run LedgerStale refutes
\* AtMostOnce when a request may be as old as the margin on replay records.
THEOREM LedgerReplayInv ==
    ASSUME ~ReuseInodes, "challenge" \notin Ops \/ "io" \notin Faults, MaxStale < Minute
    PROVE  Spec => []ReplayInv
<1>1. ASSUME ReplayInv, [Next]_vars PROVE ReplayInv'
  <2>1. CacheInv'
    BY <1>1, CacheStep DEF ReplayInv
  <2>2. TypeOK'
    BY <2>1 DEF CacheInv, TypeInv
  <2>3. \A q \in Procs : TokenJob(q)'
    BY <1>1, <2>2, HandlerTokens, LifecycleTokens, SectionTokens, FaultTokens DEF Next
  <2>4. (\A i \in Commits : Held(done[i].ref.token))' /\ AtMostOnce'
    BY <1>1, <2>2, DoneHeld
  <2>5. (\A i \in DOMAIN audit : audit[i].dec = "allow" => Held(audit[i].ref.token))'
    BY <1>1, <2>2, AuditHeld
  <2> QED BY <2>1, <2>3, <2>4, <2>5 DEF ReplayInv
<1> QED BY <1>1, ReplayInit, PTL DEF Spec

\* AtMostOnce of run LedgerTime, for every number of processes, tokens and requests:
\* the replay check of CommitWriteAndPreForwardAudit survives compactions, crashes,
\* power failures and repairs.
THEOREM LedgerAtMostOnce ==
    ASSUME ~ReuseInodes, "challenge" \notin Ops \/ "io" \notin Faults, MaxStale < Minute
    PROVE  Spec => []AtMostOnce
<1>1. ReplayInv => AtMostOnce
  BY DEF ReplayInv
<1> QED BY <1>1, LedgerReplayInv, PTL

\* AllowIsCommitted of run LedgerPower: an audited allow is never ahead of the replay
\* record of its token, whatever a power failure takes.
THEOREM LedgerAllowIsCommitted ==
    ASSUME ~ReuseInodes, "challenge" \notin Ops \/ "io" \notin Faults, MaxStale < Minute
    PROVE  Spec => []AllowIsCommitted
<1>1. ReplayInv => AllowIsCommitted
  <2> SUFFICES ASSUME ReplayInv, NEW i \in DOMAIN audit, audit[i].dec = "allow"
               PROVE  \/ audit[i].ref.token = NoToken
                      \/ \E k \in DOMAIN db.lines : db.lines[k] = Replay(audit[i].ref.token)
                      \/ clock >= LastUse[audit[i].ref.token] + Minute
    BY DEF AllowIsCommitted
  <2>1. Held(audit[i].ref.token)
    BY DEF ReplayInv
  <2>2. db.lines \in Seq(StateLine) /\ dbSync \in 0..Len(db.lines)
    BY DEF ReplayInv, CacheInv, TypeInv, TypeOK
  <2>3. 1..dbSync \subseteq DOMAIN db.lines
    BY <2>2
  <2> QED BY <2>1, <2>3 DEF Held
<1> QED BY <1>1, LedgerReplayInv, PTL

-----------------------------------------------------------------------------
(* Grants that are on disk *)

\* Among the first n lines of f there is the grant, and no revocation of it behind.
Holds(f, n, s, e) ==
    \E i \in 1..n : /\ f[i] = Grant(s, e)
                    /\ \A k \in 1..Len(f) : k > i => f[k] # Revoke(s, e)
RevokesNot(x, s, e) == \A k \in DOMAIN x : x[k] # Revoke(s, e)

\* The largest index of a set
LEMMA LastIndex ==
    ASSUME NEW n \in Nat, NEW S \in SUBSET (1..n), NEW x \in S
    PROVE  \E m \in S : \A k \in S : ~(k > m)
<1> DEFINE Behind == {d \in Nat : \E i \in S : d = n - i}
           Less == {ss \in Nat \X Nat : ss[1] < ss[2]}
<1>1. \A i \in S : n - i \in Behind /\ i \in Nat
  OBVIOUS
<1>2. PICK d \in Behind : \A c \in Behind : ~ (<<c, d>> \in Less)
  <2>1. IsWellFoundedOn(Less, Nat)
    BY NatLessThanWellFounded DEF OpToRel
  <2>2. Behind \subseteq Nat /\ Behind # {}
    BY <1>1
  <2> HIDE DEF Behind, Less
  <2> QED BY <2>1, <2>2, WFMin
<1>3. \A c \in Behind : ~(c < d)
  BY <1>2
<1>4. PICK m \in S : d = n - m
  OBVIOUS
<1>5. ASSUME NEW k \in S, k > m PROVE FALSE
  <2>1. n - k \in Behind /\ n - k < d
    BY <1>1, <1>4, <1>5
  <2> QED BY <2>1, <1>3
<1> QED BY <1>5

LEMMA SettledHolds ==
    ASSUME TypeOK, NEW s \in Subjects, NEW e \in Settled(s)
    PROVE  e \in Entitlements /\ Holds(db.lines, dbSync, s, e)
<1> DEFINE f == SubSeq(db.lines, 1, dbSync)
<1>1. db.lines \in Lines /\ dbSync \in 0..Len(db.lines) /\ Len(db.lines) \in Nat
  BY DEF TypeOK, Lines
<1>2. f \in Lines /\ Len(f) = dbSync /\ \A i \in 1..dbSync : f[i] = db.lines[i]
  <2>1. dbSync \in Nat /\ \A i \in 1..dbSync : db.lines[i] \in StateLine
    BY <1>1 DEF Lines
  <2> QED BY <2>1, SubSeqProperties DEF Lines
<1>3. e \in GrantsOf(f, s) /\ \A i \in DOMAIN db.lines : i > dbSync => db.lines[i] # Revoke(s, e)
  BY DEF Settled
<1> HIDE DEF f
<1>4. PICK i \in DOMAIN f : f[i] = Grant(s, e) /\ IsLiveGrant(f, i)
  BY <1>3 DEF GrantsOf
<1>5. i \in 1..dbSync /\ db.lines[i] = Grant(s, e)
  BY <1>2, <1>4 DEF Lines
<1>6. ASSUME NEW k \in 1..Len(db.lines), k > i PROVE db.lines[k] # Revoke(s, e)
  <2>1. CASE k > dbSync
    BY <1>1, <1>3, <2>1 DEF Lines
  <2>2. CASE ~(k > dbSync)
    <3>1. k \in DOMAIN f /\ f[k] = db.lines[k]
      BY <1>1, <1>2, <2>2 DEF Lines
    <3> QED BY <1>4, <1>6, <3>1 DEF IsLiveGrant, Grant
  <2> QED BY <2>1, <2>2
<1> QED BY <1>3, <1>5, <1>6 DEF Holds, GrantsOf

LEMMA HoldsGrants ==
    ASSUME NEW f \in Lines, NEW n \in 0..Len(f), NEW s, NEW e \in Entitlements, Holds(f, n, s, e)
    PROVE  e \in GrantsOf(f, s)
<1>1. Len(f) \in Nat /\ DOMAIN f = 1..Len(f)
  BY DEF Lines
<1>2. PICK i \in 1..n : /\ f[i] = Grant(s, e)
                        /\ \A k \in 1..Len(f) : k > i => f[k] # Revoke(s, e)
  BY DEF Holds
<1>3. i \in DOMAIN f /\ IsLiveGrant(f, i)
  BY <1>1, <1>2 DEF IsLiveGrant, Grant
<1> QED BY <1>2, <1>3 DEF GrantsOf

LEMMA HoldsBehind ==
    ASSUME NEW f \in Lines, NEW x \in Lines, NEW n \in 0..Len(f), NEW s, NEW e,
           Holds(f, n, s, e), RevokesNot(x, s, e)
    PROVE  f \o x \in Lines /\ n \in 0..Len(f \o x) /\ Holds(f \o x, n, s, e)
<1>1. /\ f \o x \in Lines /\ Len(f \o x) = Len(f) + Len(x) /\ Len(f) \in Nat /\ Len(x) \in Nat
      /\ \A i \in 1..(Len(f) + Len(x)) : (f \o x)[i] = IF i <= Len(f) THEN f[i] ELSE x[i - Len(f)]
  BY ConcatAt
<1>2. PICK i \in 1..n : /\ f[i] = Grant(s, e)
                        /\ \A k \in 1..Len(f) : k > i => f[k] # Revoke(s, e)
  BY DEF Holds
<1>3. (f \o x)[i] = Grant(s, e)
  BY <1>1, <1>2
<1>4. ASSUME NEW k \in 1..(Len(f) + Len(x)), k > i PROVE (f \o x)[k] # Revoke(s, e)
  <2>1. CASE k <= Len(f)
    BY <1>1, <1>2, <1>4, <2>1
  <2>2. CASE ~(k <= Len(f))
    <3>1. k - Len(f) \in DOMAIN x /\ (f \o x)[k] = x[k - Len(f)]
      BY <1>1, <2>2 DEF Lines
    <3> QED BY <3>1 DEF RevokesNot
  <2> QED BY <2>1, <2>2
<1> QED BY <1>1, <1>3, <1>4 DEF Holds

LEMMA HoldsBefore ==
    ASSUME NEW f \in Lines, NEW n \in 0..Len(f), NEW m \in n..Len(f), NEW s, NEW e, Holds(f, n, s, e)
    PROVE  /\ SubSeq(f, 1, m) \in Lines /\ n \in 0..Len(SubSeq(f, 1, m))
           /\ Holds(SubSeq(f, 1, m), n, s, e)
<1>1. Len(f) \in Nat /\ m \in Nat /\ \A i \in 1..m : f[i] \in StateLine
  BY DEF Lines
<1> DEFINE g == SubSeq(f, 1, m)
<1>2. g \in Lines /\ Len(g) = m /\ \A i \in 1..m : g[i] = f[i]
  BY <1>1, SubSeqProperties DEF Lines
<1> HIDE DEF g
<1>3. PICK i \in 1..n : /\ f[i] = Grant(s, e)
                        /\ \A k \in 1..Len(f) : k > i => f[k] # Revoke(s, e)
  BY DEF Holds
<1>4. g[i] = Grant(s, e) /\ \A k \in 1..m : k > i => g[k] # Revoke(s, e)
  BY <1>1, <1>2, <1>3
<1>5. Holds(g, n, s, e)
  BY <1>2, <1>4 DEF Holds
<1> QED BY <1>1, <1>2, <1>5 DEF g

\* compactLocked writes a grant once, where it was last, and writes no revocations.
LEMMA HoldsCompacted ==
    ASSUME NEW f \in Lines, NEW d \in 0..Len(f), NEW now \in Nat, NEW s, NEW e, Holds(f, d, s, e)
    PROVE  /\ Compacted(f, now) \in Lines
           /\ Holds(Compacted(f, now), Len(Compacted(f, now)), s, e)
<1> DEFINE g == Compacted(f, now)
           K == Kept(f, now)
<1>n. PICK n, idx : ListedBy(g, f, K, n, idx)
  BY KeptList, Zenon
<1>0. /\ n \in Nat /\ idx \in [1..n -> K]
      /\ g \in Lines /\ Len(g) = n
      /\ \A k \in 1..n : g[k] = f[idx[k]]
      /\ \A i \in K : \E k \in 1..n : idx[k] = i
  BY <1>n DEF ListedBy
<1> DEFINE Granting == {i \in 1..Len(f) : f[i] = Grant(s, e)}
<1>1. Len(f) \in Nat /\ DOMAIN f = 1..Len(f)
  BY DEF Lines
<1>2. PICK i \in 1..d : /\ f[i] = Grant(s, e)
                        /\ \A k \in 1..Len(f) : k > i => f[k] # Revoke(s, e)
  BY DEF Holds
<1>3. i \in Granting
  BY <1>1, <1>2
<1>4. PICK j \in Granting : \A k \in Granting : ~(k > j)
  <2>1. Granting \in SUBSET (1..Len(f))
    OBVIOUS
  <2> HIDE DEF Granting
  <2> QED BY <1>1, <1>3, <2>1, LastIndex
<1>5. ~(i > j) /\ j \in 1..Len(f) /\ f[j] = Grant(s, e)
  BY <1>3, <1>4
<1>6. \A k \in 1..Len(f) : k > j => f[k] # Revoke(s, e) /\ f[k] # f[j]
  BY <1>1, <1>2, <1>4, <1>5
<1>7. j \in K
  BY <1>1, <1>5, <1>6 DEF Kept, IsLiveGrant, Grant
<1>8. \A k \in K : f[k] # Revoke(s, e)
  BY DEF Kept, IsLiveGrant, IsLastHwm, Revoke
<1> HIDE DEF g
<1>9. PICK l \in 1..n : idx[l] = j
  BY <1>7, <1>0
<1>10. g[l] = Grant(s, e) /\ \A k \in 1..n : g[k] # Revoke(s, e)
  BY <1>5, <1>8, <1>0, <1>9
<1>11. Holds(g, Len(g), s, e)
  BY <1>0, <1>10 DEF Holds
<1> QED BY <1>0, <1>11 DEF g

\* What a failed write or a power failure leaves of a file
LEMMA HoldsPartly ==
    ASSUME NEW f \in Lines, NEW n \in 0..Len(f), NEW lines \in Lines, NEW s, NEW e,
           Holds(f, n, s, e), RevokesNot(lines, s, e), NEW g \in PartialWrite(f, lines, Torn)
    PROVE  g \in Lines /\ n \in 0..Len(g) /\ Holds(g, n, s, e)
<1>1. IsPartial(g, f, lines, Torn)
  <2>1. f \in Seq(StateLine) /\ lines \in Seq(StateLine) /\ Torn \in StateLine
    BY BadLinesType DEF Lines
  <2> QED BY <2>1, PartialType
<1>2. PICK m \in 0..Len(lines), t \in {<<>>, <<Torn>>} : g = f \o (SubSeq(lines, 1, m) \o t)
  BY <1>1, Zenon DEF IsPartial
<1> DEFINE x == SubSeq(lines, 1, m)
<1>3. x \in Lines /\ Len(x) = m /\ \A i \in 1..m : x[i] = lines[i] /\ i \in DOMAIN lines
  <2>1. m \in Nat /\ \A i \in 1..m : lines[i] \in StateLine /\ i \in DOMAIN lines
    BY DEF Lines
  <2> QED BY <2>1, SubSeqProperties DEF Lines
<1> HIDE DEF x
<1>4. t \in Lines /\ \A i \in 1..Len(t) : t[i] = Torn
  <2>1. CASE t = <<>>
    BY <2>1 DEF Lines
  <2>2. CASE t = <<Torn>>
    BY <2>2, BadLinesType DEF Lines
  <2> QED BY <2>1, <2>2
<1>5. /\ x \o t \in Lines /\ Len(x \o t) = m + Len(t) /\ Len(t) \in Nat
      /\ \A i \in 1..(m + Len(t)) : (x \o t)[i] = IF i <= m THEN x[i] ELSE t[i - m]
  BY <1>3, <1>4, ConcatAt
<1>6. RevokesNot(x \o t, s, e)
  <2> SUFFICES ASSUME NEW k \in 1..(m + Len(t)) PROVE (x \o t)[k] # Revoke(s, e)
    BY <1>5 DEF RevokesNot, Lines
  <2>1. CASE k <= m
    BY <1>3, <1>5, <2>1 DEF RevokesNot
  <2>2. CASE ~(k <= m)
    <3>1. k - m \in 1..Len(t) /\ (x \o t)[k] = t[k - m]
      BY <1>5, <2>2
    <3> QED BY <3>1, <1>4 DEF Torn, Revoke
  <2> QED BY <2>1, <2>2
<1>7. g = f \o (x \o t)
  BY <1>2 DEF x
<1> QED BY <1>5, <1>6, <1>7, HoldsBehind

LEMMA HoldsSurviving ==
    ASSUME NEW f \in Lines, NEW n \in 0..Len(f), NEW s, NEW e, Holds(f, n, s, e),
           NEW g \in Survivors(f, n, Torn)
    PROVE  g \in Lines /\ n \in 0..Len(g) /\ Holds(g, n, s, e)
<1>1. Len(f) \in Nat /\ Torn \in StateLine
  BY BadLinesType DEF Lines
<1>2. CASE g \in {SubSeq(f, 1, m) : m \in n..Len(f)}
  <2>1. PICK m \in n..Len(f) : g = SubSeq(f, 1, m)
    BY <1>2, Zenon
  <2> QED BY <2>1, HoldsBefore
<1>3. CASE g \in {Append(SubSeq(f, 1, m), Torn) : m \in n..(Len(f) - 1)}
  <2>1. PICK m \in n..(Len(f) - 1) : g = Append(SubSeq(f, 1, m), Torn)
    BY <1>3, Zenon
  <2> DEFINE h == SubSeq(f, 1, m)
  <2>2. m \in n..Len(f)
    BY <1>1
  <2>3. h \in Lines /\ n \in 0..Len(h) /\ Holds(h, n, s, e)
    BY <2>2, HoldsBefore
  <2>4. g = Append(h, Torn)
    BY <2>1
  <2> HIDE DEF h
  <2>5. <<Torn>> \in Lines /\ RevokesNot(<<Torn>>, s, e) /\ g = h \o <<Torn>>
    BY <1>1, <2>3, <2>4 DEF Lines, RevokesNot, Torn, Revoke
  <2> QED BY <2>3, <2>5, HoldsBehind
<1> QED BY <1>2, <1>3, Zenon DEF Survivors

LEMMA HoldsCut ==
    ASSUME NEW f \in Lines, NEW n \in 0..Len(f), NEW s, NEW e, Holds(f, n, s, e)
    PROVE  \E m \in 0..Len(CutState(f)) : CutState(f) \in Lines /\ Holds(CutState(f), m, s, e)
<1>1. CASE CutState(f) = f
  BY <1>1
<1>2. CASE CutState(f) # f
  <2>1. Len(f) > 1 /\ Last(f).kind = "torn" /\ CutState(f) = Front(f)
    BY <1>2 DEF CutState
  <2>2. Front(f) = SubSeq(f, 1, Len(f) - 1) /\ f[Len(f)].kind = "torn" /\ Len(f) \in Nat
    BY <2>1 DEF Front, Last, Lines
  <2>3. PICK i \in 1..n : /\ f[i] = Grant(s, e)
                          /\ \A k \in 1..Len(f) : k > i => f[k] # Revoke(s, e)
    BY DEF Holds
  <2>4. i # Len(f)
    BY <2>2, <2>3 DEF Grant
  <2>5. i \in 0..Len(f) /\ Len(f) - 1 \in i..Len(f)
    BY <2>2, <2>4
  <2>6. Holds(f, i, s, e)
    BY <2>2, <2>3, <2>5 DEF Holds
  <2> DEFINE m == Len(f) - 1
  <2>7. /\ SubSeq(f, 1, m) \in Lines /\ i \in 0..Len(SubSeq(f, 1, m))
        /\ Holds(SubSeq(f, 1, m), i, s, e)
    BY <2>5, <2>6, HoldsBefore
  <2> QED BY <2>1, <2>2, <2>7
<1> QED BY <1>1, <1>2

\* Only a revocation writes one, and the one it is about.
RevokesOwn(p) == pc[p] = "write" =>
    \A s \in Subjects, e \in Entitlements : RevokesNot(job[p].todo, s, e) \/ Revokes(p, s, e)
RevokesInv == CacheInv /\ \A p \in Procs : RevokesOwn(p)

LEMMA RevokesRecords ==
    ASSUME NEW s, NEW e
    PROVE  /\ RevokesNot(<<>>, s, e)
           /\ \A p \in Principals, now \in Nat : RevokesNot(<<Challenge(p, now)>>, s, e)
           /\ \A n, h \in Nat : RevokesNot(<<Hwm(n, h)>>, s, e)
           /\ \A w \in Writes, now \in Nat : RevokesNot(CommitLines(w, now), s, e)
<1>1. \A w \in Writes, now \in Nat : RevokesNot(CommitLines(w, now), s, e)
  BY CommitAdds DEF RevokesNot, Revoke
<1> QED BY <1>1 DEF RevokesNot, Challenge, Hwm, Revoke

LEMMA RevokesStep == RevokesInv /\ [Next]_vars => \A p \in Procs : RevokesOwn(p)'
<1> SUFFICES ASSUME RevokesInv, [Next]_vars PROVE \A p \in Procs : RevokesOwn(p)'
  OBVIOUS
<1>0. /\ TypeInv /\ pc \in [Procs -> Place] /\ job \in [Procs -> JobType] /\ Nows \subseteq Nat
      /\ Len(audit) \in Nat
  BY NowsType DEF RevokesInv, CacheInv, TypeInv, TypeOK
<1>1. ASSUME NEW q \in Procs, pc'[q] = pc[q], job'[q] = job[q] PROVE RevokesOwn(q)'
  <2>1. pc[q] = "write" =>
            \A s \in Subjects, e \in Entitlements :
                \/ RevokesNot(job[q].todo, s, e)
                \/ job[q].op = "revoke" /\ job[q].ref = [subject |-> s, entitlement |-> e]
    BY DEF RevokesInv, RevokesOwn, Revokes
  <2>2. pc'[q] = "write" =>
            \A s \in Subjects, e \in Entitlements :
                \/ RevokesNot(job'[q].todo, s, e)
                \/ job'[q].op = "revoke" /\ job'[q].ref = [subject |-> s, entitlement |-> e]
    BY <1>1, <2>1
  <2> QED BY <2>2 DEF RevokesOwn, Revokes
<1>2. ASSUME NEW q \in Procs, pc'[q] # "write" PROVE RevokesOwn(q)'
  BY <1>2 DEF RevokesOwn
<1>3. ASSUME NEW p \in Procs, Handler(p) PROVE \A q \in Procs : RevokesOwn(q)'
  <2>1. CASE Snapshot(p)
    BY <1>1, <2>1 DEF Snapshot
  <2>2. CASE ~Snapshot(p)
    <3>1. PICK work \in JobType :
              /\ Enter(p, work) /\ work.act = View(p) /\ work.now \in Nows
              /\ \/ Records(work)
                 \/ \E principal \in Principals : Asks(work, principal)
                 \/ \E w \in Writes : LetsThrough(work, w)
                 \/ \E s \in Subjects, e \in Entitlements : TakesBack(work, s, e)
      BY <1>0, <1>3, <2>2, HandlerWork
    <3>2. /\ job'[p] = work /\ pc'[p] = (IF work.todo = <<>> THEN "audit" ELSE "write")
          /\ \A q \in Procs : q # p => job'[q] = job[q] /\ pc'[q] = pc[q]
      BY <1>0, <3>1 DEF Enter, Start
    <3>3. ASSUME NEW s \in Subjects, NEW e \in Entitlements
          PROVE  \/ RevokesNot(work.todo, s, e)
                 \/ work.op = "revoke" /\ work.ref = [subject |-> s, entitlement |-> e]
      <4>1. work.now \in Nat
        BY <1>0, <3>1
      <4>2. CASE Records(work) \/ \E principal \in Principals : Asks(work, principal)
        <5>1. work.todo = <<>> \/ \E principal \in Principals : work.todo = <<Challenge(principal, work.now)>>
          BY <4>2 DEF Records, Asks
        <5>2. RevokesNot(<<>>, s, e)
              /\ \A principal \in Principals : RevokesNot(<<Challenge(principal, work.now)>>, s, e)
          BY <4>1, RevokesRecords
        <5> QED BY <5>1, <5>2
      <4>3. CASE \E w \in Writes : LetsThrough(work, w)
        <5>1. PICK w \in Writes : work.todo = CommitLines(w, work.now)
          BY <4>3 DEF LetsThrough
        <5>2. RevokesNot(CommitLines(w, work.now), s, e)
          BY <4>1, RevokesRecords
        <5> QED BY <5>1, <5>2
      <4>4. CASE \E s2 \in Subjects, e2 \in Entitlements : TakesBack(work, s2, e2)
        <5>1. PICK s2 \in Subjects, e2 \in Entitlements : TakesBack(work, s2, e2)
          BY <4>4
        <5>2. CASE s2 = s /\ e2 = e
          BY <5>1, <5>2 DEF TakesBack
        <5>3. CASE ~(s2 = s /\ e2 = e)
          <6>1. work.todo = <<Revoke(s2, e2)>> /\ Revoke(s2, e2) # Revoke(s, e)
            BY <5>1, <5>3 DEF TakesBack, Revoke
          <6>2. \A r : r # Revoke(s, e) => RevokesNot(<<r>>, s, e)
            BY DEF RevokesNot
          <6> QED BY <6>1, <6>2
        <5> QED BY <5>2, <5>3
      <4> QED BY <3>1, <4>2, <4>3, <4>4
    <3>4. RevokesOwn(p)'
      BY <3>2, <3>3 DEF RevokesOwn, Revokes
    <3> QED BY <1>1, <3>2, <3>4
  <2> QED BY <2>1, <2>2
<1>4. ASSUME NEW p \in Procs, OpenRecover(p) PROVE \A q \in Procs : RevokesOwn(q)'
  <2> DEFINE t == <<Hwm(Len(audit), Len(audit))>>
             work == Work("open", db.lines, t, "recovered", NoRef, clock)
  <2>1. Start(p, work) /\ work.todo = t
    BY <1>4 DEF OpenRecover, Work
  <2>2. \A s, e : RevokesNot(t, s, e)
    BY <1>0, RevokesRecords
  <2> HIDE DEF work, t
  <2>3. job'[p] = work /\ \A q \in Procs : q # p => job'[q] = job[q] /\ pc'[q] = pc[q]
    BY <1>0, <2>1 DEF Start
  <2>4. RevokesOwn(p)'
    BY <2>1, <2>2, <2>3 DEF RevokesOwn
  <2> QED BY <1>1, <2>3, <2>4
<1>5. ASSUME NEW p \in Procs,
             Open(p) \/ Exit(p) \/ RepairState(p) \/ Section(p) \/ IoError(p) \/ Kill(p)
      PROVE  \A q \in Procs : RevokesOwn(q)'
  <2>1. CASE Open(p) \/ Exit(p) \/ RepairState(p)
    <3>1. pc'[p] # "write" /\ \A q \in Procs : q # p => job'[q] = job[q] /\ pc'[q] = pc[q]
      BY <1>0, <2>1 DEF Open, Exit, RepairState, CanEnterDown
    <3> QED BY <1>1, <1>2, <3>1
  <2>2. CASE Section(p)
    <3>1. pc'[p] # "write" /\ \A q \in Procs : q # p => job'[q] = job[q] /\ pc'[q] = pc[q]
      BY <1>0, <2>2 DEF Section, WriteState, SyncState, WriteAudit, SyncAudit, WriteHwm,
                       SyncHwm, Compact, RepairAudit, Return, Leave
    <3> QED BY <1>1, <1>2, <3>1
  <2>3. CASE IoError(p) \/ Kill(p)
    <3>1. pc'[p] # "write" /\ \A q \in Procs : q # p => job'[q] = job[q] /\ pc'[q] = pc[q]
      BY <1>0, <2>3 DEF IoError, Kill, Leave
    <3> QED BY <1>1, <1>2, <3>1
  <2> QED BY <1>5, <2>1, <2>2, <2>3
<1>6. CASE PowerFailure
  BY <1>2, <1>6 DEF PowerFailure
<1>7. CASE Tick \/ UNCHANGED vars
  BY <1>1, <1>7 DEF Tick, vars
<1> QED BY <1>3, <1>4, <1>5, <1>6, <1>7 DEF Next, Lifecycle

LEMMA GrantStays ==
    ASSUME RevokesInv, [Next]_vars, NEW s \in Subjects, NEW e \in Settled(s),
           \A p \in Procs : ~Revokes(p, s, e)
    PROVE  e \in GrantsOf(db'.lines, s)
<1>1. /\ db \in [ino: Nat \ {0}, lines: Seq(StateLine)] /\ db.lines \in Lines
      /\ dbSync \in 0..Len(db.lines) /\ Len(db.lines) \in Nat /\ job \in [Procs -> JobType]
      /\ TypeOK
  BY DEF RevokesInv, CacheInv, TypeInv, TypeOK, Lines
<1>2. e \in Entitlements /\ Holds(db.lines, dbSync, s, e)
  BY <1>1, SettledHolds
<1>3. ASSUME NEW f \in Lines, NEW n \in 0..Len(f), Holds(f, n, s, e), db'.lines = f
      PROVE  e \in GrantsOf(db'.lines, s)
  BY <1>2, <1>3, HoldsGrants
<1>4. CASE UNCHANGED db
  BY <1>1, <1>2, <1>3, <1>4
<1>5. ASSUME NEW p \in Procs, WriteState(p) PROVE e \in GrantsOf(db'.lines, s)
  <2>1. db'.lines = db.lines \o job[p].todo /\ pc[p] = "write"
    BY <1>1, <1>5 DEF WriteState
  <2>2. RevokesNot(job[p].todo, s, e) /\ job[p].todo \in Lines
    BY <1>1, <1>2, <2>1 DEF RevokesInv, RevokesOwn, JobType, Lines
  <2> QED BY <1>1, <1>2, <1>3, <2>1, <2>2, HoldsBehind
<1>6. ASSUME NEW p \in Procs, InSection(p)
      PROVE  <<NextHwm(p)>> \in Lines /\ RevokesNot(<<NextHwm(p)>>, s, e) /\ NextHwm(p) \in StateLine
  <2>1. NextHwm(p) \in StateLine
    BY <1>6, NextType DEF RevokesInv, CacheInv
  <2> QED BY <2>1 DEF Lines, RevokesNot, NextHwm, Hwm, Revoke
<1>7. ASSUME NEW p \in Procs, WriteHwm(p) PROVE e \in GrantsOf(db'.lines, s)
  <2>1. db'.lines = Append(db.lines, NextHwm(p)) /\ InSection(p)
    BY <1>1, <1>7 DEF WriteHwm, InSection
  <2>2. db'.lines = db.lines \o <<NextHwm(p)>>
    BY <1>1, <1>6, <2>1 DEF Lines
  <2> QED BY <1>1, <1>2, <1>3, <1>6, <2>1, <2>2, HoldsBehind
<1>8. ASSUME NEW p \in Procs, pc[p] = "compact", db'.lines = Compacted(job[p].act, job[p].now)
      PROVE  e \in GrantsOf(db'.lines, s)
  <2>1. db.lines = job[p].act /\ job[p].now \in Nat
    BY <1>1, <1>8 DEF RevokesInv, CacheInv, Coherent, InSection, RepairSection, AppendSection, JobType
  <2> DEFINE f == Compacted(db.lines, job[p].now)
  <2>2. f \in Lines /\ Holds(f, Len(f), s, e)
    BY <1>1, <1>2, <2>1, HoldsCompacted
  <2>3. db'.lines = f
    BY <1>8, <2>1
  <2> HIDE DEF f
  <2>4. Len(f) \in 0..Len(f)
    BY <2>2 DEF Lines
  <2> QED BY <1>3, <2>2, <2>3, <2>4
<1>9. ASSUME NEW p \in Procs, Compact(p) PROVE e \in GrantsOf(db'.lines, s)
  <2>1. pc[p] = "compact" /\ db'.lines = Compacted(job[p].act, job[p].now)
    BY <1>9 DEF Compact
  <2> QED BY <1>8, <2>1
<1>10. ASSUME NEW p \in Procs, IoError(p) PROVE e \in GrantsOf(db'.lines, s)
  <2>1. ASSUME NEW lines \in Lines, RevokesNot(lines, s, e),
               \E f \in PartialWrite(db.lines, lines, Torn) : db' = [db EXCEPT !.lines = f]
        PROVE  e \in GrantsOf(db'.lines, s)
    <3>1. PICK f \in PartialWrite(db.lines, lines, Torn) : db' = [db EXCEPT !.lines = f]
      BY <2>1
    <3>2. f \in Lines /\ dbSync \in 0..Len(f) /\ Holds(f, dbSync, s, e)
      BY <1>1, <1>2, <2>1, HoldsPartly
    <3>3. db'.lines = f
      BY <1>1, <3>1
    <3> QED BY <1>3, <3>2, <3>3
  <2>2. CASE /\ pc[p] = "write"
             /\ \E f \in PartialWrite(db.lines, job[p].todo, Torn) : db' = [db EXCEPT !.lines = f]
    <3>1. RevokesNot(job[p].todo, s, e) /\ job[p].todo \in Lines
      BY <1>1, <1>2, <2>2 DEF RevokesInv, RevokesOwn, JobType, Lines
    <3> QED BY <2>1, <2>2, <3>1
  <2>3. CASE /\ pc[p] = "hwm"
             /\ \E f \in PartialWrite(db.lines, <<NextHwm(p)>>, Torn) : db' = [db EXCEPT !.lines = f]
    <3>1. <<NextHwm(p)>> \in Lines /\ RevokesNot(<<NextHwm(p)>>, s, e)
      BY <1>6, <2>3 DEF InSection
    <3> QED BY <2>1, <2>3, <3>1
  <2>4. CASE /\ pc[p] = "compact"
             /\ \E i \in NewInodes : db' = [ino |-> i, lines |-> Compacted(job[p].act, job[p].now)]
    <3>1. db'.lines = Compacted(job[p].act, job[p].now)
      BY <2>4
    <3> QED BY <1>8, <2>4, <3>1
  <2> QED BY <1>4, <1>10, <2>2, <2>3, <2>4 DEF IoError
<1>11. ASSUME NEW p \in Procs, RepairState(p) PROVE e \in GrantsOf(db'.lines, s)
  <2>1. db'.lines = CutState(db.lines)
    BY <1>1, <1>11 DEF RepairState
  <2> DEFINE f == CutState(db.lines)
  <2>2. \E m \in 0..Len(f) : f \in Lines /\ Holds(f, m, s, e)
    BY <1>1, <1>2, HoldsCut
  <2> HIDE DEF f
  <2>3. db'.lines = f
    BY <2>1 DEF f
  <2> QED BY <1>3, <2>2, <2>3
<1>12. CASE PowerFailure
  <2>1. PICK f \in Survivors(db.lines, dbSync, Torn) : db' = [db EXCEPT !.lines = f]
    BY <1>12 DEF PowerFailure
  <2>2. f \in Lines /\ dbSync \in 0..Len(f) /\ Holds(f, dbSync, s, e)
    BY <1>1, <1>2, HoldsSurviving
  <2>3. db'.lines = f
    BY <1>1, <2>1
  <2> QED BY <1>3, <2>2, <2>3
<1>13. \/ UNCHANGED db \/ PowerFailure
       \/ \E p \in Procs : \/ WriteState(p) \/ WriteHwm(p) \/ Compact(p) \/ IoError(p)
                           \/ RepairState(p)
  <2>1. ASSUME NEW p \in Procs, Handler(p) PROVE UNCHANGED db
    BY <2>1 DEF Handler, AppendAudit, Snapshot, RecordChallenge, CommitWrite, RevokeGrant, Enter
  <2>2. ASSUME NEW p \in Procs, Open(p) \/ OpenRecover(p) \/ Exit(p) PROVE UNCHANGED db
    BY <2>2 DEF Open, OpenRecover, Exit
  <2>3. ASSUME NEW p \in Procs,
               SyncState(p) \/ WriteAudit(p) \/ SyncAudit(p) \/ SyncHwm(p) \/ RepairAudit(p) \/ Kill(p)
        PROVE  UNCHANGED db
    BY <2>3 DEF SyncState, WriteAudit, SyncAudit, SyncHwm, RepairAudit, Kill
  <2>4. CASE Tick \/ UNCHANGED vars
    BY <2>4 DEF Tick, vars
  <2> QED BY <2>1, <2>2, <2>3, <2>4 DEF Next, Lifecycle, Section
<1> QED BY <1>4, <1>5, <1>7, <1>9, <1>10, <1>11, <1>12, <1>13

\* GrantsOnlyRevoked of run LedgerCrash, for every number of processes, every order of
\* grants and revocations, and every crash or failed write between them.
THEOREM LedgerGrantsOnlyRevoked ==
    ASSUME ~ReuseInodes, "challenge" \notin Ops \/ "io" \notin Faults
    PROVE  Spec => GrantsOnlyRevoked
<1>1. Init => RevokesInv
  BY CacheInit DEF Init, RevokesInv, RevokesOwn
<1>2. RevokesInv /\ [Next]_vars => RevokesInv'
  BY CacheStep, RevokesStep DEF RevokesInv
<1>3. RevokesInv /\ [Next]_vars =>
          [\A s \in Subjects : \A e \in Settled(s) :
              e \in GrantsOf(db.lines, s)' \/ \E p \in Procs : Revokes(p, s, e)]_vars
  <2> SUFFICES ASSUME RevokesInv, [Next]_vars, NEW s \in Subjects, NEW e \in Settled(s),
                      \A p \in Procs : ~Revokes(p, s, e)
               PROVE  e \in GrantsOf(db.lines, s)'
    OBVIOUS
  <2>1. e \in GrantsOf(db'.lines, s)
    BY GrantStays
  <2> QED BY <2>1 DEF GrantsOf, IsLiveGrant
<1> QED BY <1>1, <1>2, <1>3, PTL DEF Spec, GrantsOnlyRevoked
-----------------------------------------------------------------------------
(***************************************************************************)
(* The quotas of max_challenges_per_minute, max_write_calls_per_minute and *)
(* max_write_targets_per_window hold, whatever crashes, compactions and    *)
(* repairs come between two calls.                                         *)
(*                                                                         *)
(* What was let through is counted by the records it left in state.db.     *)
(* The invariant is that the history of what was let through is found      *)
(* there: there is an injection that takes each entry not yet expired to   *)
(* its own record among the lines that no power failure takes.  So a call  *)
(* that finds room in the file finds room in the history, and keeps it     *)
(* until it returns: it holds the lock.                                    *)
(***************************************************************************)

History == Seq([op: {"commit", "challenge"}, ref: Ref, now: Nat])
Payer(e) == IF e.op = "challenge" THEN e.ref.challenged ELSE e.ref.principal
Life(op) == IF op = "challenge" THEN Minute ELSE BudgetWindow
RecordOf(e) == IF e.op = "challenge" THEN Challenge(e.ref.challenged, e.now) ELSE Budget(e.ref, e.now)

\* f finds the record of each entry of D that has not expired by clk in the first n lines of st.
Live(D, clk) == {k \in DOMAIN D : D[k].now + Life(D[k].op) > clk}
Finds(f, D, st, n, clk) ==
    /\ \A k \in Live(D, clk) : f[k] \in 1..n /\ st[f[k]] = RecordOf(D[k])
    /\ \A k, l \in Live(D, clk) : f[k] = f[l] => k = l
Recorded(D, st, n, clk) == \E f : Finds(f, D, st, n, clk)

\* An entry that says what the model's histories and jobs say.
Proper(e) == /\ e.now \in Nat
             /\ \/ e.op = "challenge" /\ \E a \in Principals : e.ref = [challenged |-> a]
                \/ e.op = "commit" /\ e.ref \in Writes

LEMMA RecordFields ==
    ASSUME NEW e, Proper(e)
    PROVE  /\ RecordOf(e) \in StateLine
           /\ RecordOf(e).kind = IF e.op = "challenge" THEN "challenge" ELSE "budget"
           /\ RecordOf(e).key = Payer(e) /\ RecordOf(e).iat = e.now
           /\ RecordOf(e).exp = e.now + Life(e.op)
           /\ RecordOf(e).count = IF e.op = "challenge" THEN 1 ELSE e.ref.targets
           /\ Payer(e) \in Principals /\ Life(e.op) \in Nat /\ e.now + Life(e.op) \in Nat
<1>1. Minute \in Nat /\ BudgetWindow \in Nat /\ e.now \in Nat
      /\ e.now + Minute \in Nat /\ e.now + BudgetWindow \in Nat
  BY LedgerConstants DEF Proper
<1>2. CASE e.op = "challenge" /\ \E a \in Principals : e.ref = [challenged |-> a]
  BY <1>1, <1>2 DEF RecordOf, Payer, Life, Challenge, StateLine
<1>3. CASE e.op = "commit" /\ e.ref \in Writes
  <2>1. e.ref \in WriteCall
    BY <1>3, LedgerConstants
  <2>2. e.ref.principal \in Principals /\ e.ref.targets \in Nat
    BY <2>1 DEF WriteCall
  <2> QED BY <1>1, <1>3, <2>2 DEF RecordOf, Payer, Life, Budget, StateLine
<1> QED BY <1>2, <1>3 DEF Proper

\* Records stay found when those on disk are kept and time passes.
LEMMA RecordsLast ==
    ASSUME NEW D, NEW st, NEW n \in Nat, NEW clk \in Nat, NEW st2, NEW n2 \in Nat, NEW clk2 \in Nat,
           \A k \in DOMAIN D : Proper(D[k]), Recorded(D, st, n, clk), clk <= clk2,
           \A i \in 1..n : st[i].kind # "torn" => i <= n2 /\ st2[i] = st[i]
    PROVE  Recorded(D, st2, n2, clk2)
<1>1. PICK f : Finds(f, D, st, n, clk)
  BY DEF Recorded
<1>2. Live(D, clk2) \subseteq Live(D, clk)
  <2> SUFFICES ASSUME NEW k \in Live(D, clk2) PROVE k \in Live(D, clk)
    OBVIOUS
  <2>1. k \in DOMAIN D /\ D[k].now + Life(D[k].op) > clk2
    BY DEF Live
  <2>2. D[k].now + Life(D[k].op) \in Nat
    BY <2>1, RecordFields
  <2>3. D[k].now + Life(D[k].op) > clk
    BY <2>1, <2>2
  <2> QED BY <2>1, <2>3 DEF Live
<1>3. ASSUME NEW k \in Live(D, clk2) PROVE f[k] \in 1..n2 /\ st2[f[k]] = RecordOf(D[k])
  <2>1. f[k] \in 1..n /\ st[f[k]] = RecordOf(D[k]) /\ Proper(D[k])
    BY <1>1, <1>2 DEF Finds, Live
  <2>2. st[f[k]].kind # "torn"
    BY <2>1, RecordFields
  <2>3. f[k] <= n2 /\ st2[f[k]] = st[f[k]]
    BY <2>1, <2>2
  <2> QED BY <2>1, <2>3
<1>4. Finds(f, D, st2, n2, clk2)
  BY <1>1, <1>2, <1>3 DEF Finds
<1> QED BY <1>4 DEF Recorded

\* A compaction drops no record before its time.
LEMMA RecordsCompact ==
    ASSUME NEW D, NEW st \in Lines, NEW n \in 0..Len(st), NEW clk \in Nat, NEW now \in Nat, now <= clk,
           \A k \in DOMAIN D : Proper(D[k]), Recorded(D, st, n, clk)
    PROVE  Recorded(D, Compacted(st, now), Len(Compacted(st, now)), clk)
<1>1. PICK f : Finds(f, D, st, n, clk)
  BY DEF Recorded
<1>2. PICK m, idx : ListedBy(Compacted(st, now), st, Kept(st, now), m, idx)
  BY KeptList, Zenon
<1>3. ASSUME NEW k \in Live(D, clk) PROVE f[k] \in Kept(st, now)
  <2>1. f[k] \in 1..n /\ st[f[k]] = RecordOf(D[k]) /\ Proper(D[k])
        /\ D[k].now + Life(D[k].op) > clk
    BY <1>1 DEF Finds, Live
  <2>2. st[f[k]].kind \in {"budget", "challenge"} /\ st[f[k]].exp = D[k].now + Life(D[k].op)
        /\ D[k].now + Life(D[k].op) \in Nat
    BY <2>1, RecordFields
  <2>3. st[f[k]].exp > now
    BY <2>1, <2>2
  <2>4. Len(st) \in Nat /\ DOMAIN st = 1..Len(st)
    BY DEF Lines
  <2>5. f[k] \in DOMAIN st
    BY <2>1, <2>4
  <2> QED BY <2>2, <2>3, <2>5 DEF Kept
<1> DEFINE c == Compacted(st, now)
           g == [k \in Live(D, clk) |-> CHOOSE j \in 1..m : idx[j] = f[k]]
<1>4. c \in Lines /\ Len(c) = m /\ \A j \in 1..m : c[j] = st[idx[j]]
  BY <1>2 DEF ListedBy
<1> HIDE DEF c
<1>5. ASSUME NEW k \in Live(D, clk) PROVE g[k] \in 1..m /\ idx[g[k]] = f[k]
  <2>1. \E j \in 1..m : idx[j] = f[k]
    BY <1>2, <1>3 DEF ListedBy
  <2> QED BY <2>1
<1>6. \A k \in Live(D, clk) : g[k] \in 1..m /\ c[g[k]] = RecordOf(D[k])
  BY <1>1, <1>4, <1>5 DEF Finds
<1>7. \A k, l \in Live(D, clk) : g[k] = g[l] => k = l
  <2> HIDE DEF g
  <2> QED BY <1>1, <1>5 DEF Finds
<1> HIDE DEF g
<1>8. Finds(g, D, c, Len(c), clk)
  BY <1>4, <1>6, <1>7 DEF Finds
<1> QED BY <1>8 DEF Recorded, c

\* An entry whose record is behind those of the others is found as well.
LEMMA RecordsGrow ==
    ASSUME NEW D \in History, NEW st, NEW n \in Nat, NEW m \in Nat, n <= m, NEW clk \in Nat,
           Recorded(D, st, n, clk), NEW e \in [op: {"commit", "challenge"}, ref: Ref, now: Nat],
           NEW g \in (n + 1)..m, st[g] = RecordOf(e)
    PROVE  Recorded(Append(D, e), st, m, clk)
<1>1. PICK f : Finds(f, D, st, n, clk)
  BY DEF Recorded
<1> DEFINE E == Append(D, e)
           last == Len(D) + 1
           h == [k \in Live(E, clk) |-> IF k = last THEN g ELSE f[k]]
<1>2. /\ Len(D) \in Nat /\ DOMAIN D = 1..Len(D) /\ DOMAIN E = 1..last /\ E[last] = e
      /\ \A k \in 1..Len(D) : E[k] = D[k]
  BY DEF History
<1> HIDE DEF E, last
<1>3. \A k \in Live(E, clk) : k = last \/ (k \in Live(D, clk) /\ k # last /\ E[k] = D[k])
  BY <1>2 DEF Live, last
<1>4. ASSUME NEW k \in Live(D, clk) PROVE f[k] \in 1..n /\ f[k] # g /\ f[k] \in 1..m
  <2>1. f[k] \in 1..n
    BY <1>1 DEF Finds
  <2> QED BY <2>1
<1>5. g \in 1..m
  OBVIOUS
<1>6. ASSUME NEW k \in Live(E, clk) PROVE h[k] \in 1..m /\ st[h[k]] = RecordOf(E[k])
  <2>1. CASE k = last
    BY <1>2, <1>5, <2>1
  <2>2. CASE k # last
    BY <1>1, <1>3, <1>4, <2>2 DEF Finds
  <2> QED BY <2>1, <2>2
<1>7. ASSUME NEW k \in Live(E, clk), NEW l \in Live(E, clk), h[k] = h[l] PROVE k = l
  BY <1>1, <1>3, <1>4, <1>7 DEF Finds
<1> HIDE DEF h
<1>8. Finds(h, E, st, m, clk)
  BY <1>6, <1>7 DEF Finds
<1> QED BY <1>8 DEF Recorded, E

\* The three quotas: what they count, over how long, how much of it, and what of it the
\* records on disk show.
Meters == {"challenges", "calls", "targets"}
OpOf(m) == IF m = "challenges" THEN "challenge" ELSE "commit"
KindOf(m) == IF m = "challenges" THEN "challenge" ELSE "budget"
Width(m) == IF m = "calls" THEN Minute
            ELSE IF m = "challenges" THEN Minute - MaxStale ELSE BudgetWindow - MaxStale
Span(m) == IF m = "targets" THEN BudgetWindow ELSE Minute
Most(m) == IF m = "challenges" THEN MaxChallenges ELSE IF m = "calls" THEN MaxCalls ELSE MaxTargets
Weight(m, e) == IF m = "targets" THEN e.ref.targets ELSE 1

Units(I, w) == UNION {{k} \X (1..w[k]) : k \in I}
Around(m, D, a, T) == {k \in DOMAIN D : /\ D[k].op = OpOf(m) /\ Payer(D[k]) = a
                                        /\ D[k].now <= T /\ T < D[k].now + Width(m)}
Used(m, D, a, T) == Units(Around(m, D, a, T), [k \in DOMAIN D |-> Weight(m, D[k])])
Shown(m, st, a, now) == Units(InWindow(st, KindOf(m), a, now, Span(m)),
                              [i \in DOMAIN st |-> IF m = "targets" THEN st[i].count ELSE 1])

\* What is used may grow by w from `now` on.
Room(m, D, a, now, w) == Most(m) > 0 =>
    \A T \in Nat : T >= now => Cardinality(Used(m, D, a, T)) + w <= Most(m)
Respects(m, D) == \A i \in DOMAIN D : D[i].op = OpOf(m) =>
    ~Exceeds(Cardinality(Used(m, D, Payer(D[i]), D[i].now)), Most(m))

LEMMA MeterTypes ==
    ASSUME NEW m \in Meters
    PROVE  /\ Width(m) \in Int /\ Span(m) \in Nat /\ Most(m) \in Nat /\ MaxStale \in Nat
           /\ \A e : Proper(e) /\ e.op = OpOf(m) => Weight(m, e) \in Nat
<1>1. /\ Minute \in Nat /\ BudgetWindow \in Nat /\ MaxStale \in Nat
      /\ MaxChallenges \in Nat /\ MaxCalls \in Nat /\ MaxTargets \in Nat
  BY LedgerConstants
<1>2. \A r \in Writes : r.targets \in Nat
  BY LedgerConstants DEF WriteCall
<1> QED BY <1>1, <1>2 DEF Meters, Width, Span, Most, Weight, OpOf, Proper

LEMMA UnitIn ==
    ASSUME NEW I, NEW w, NEW x
    PROVE  x \in Units(I, w) <=> \E k \in I : \E j \in 1..w[k] : x = <<k, j>>
<1>1. ASSUME x \in Units(I, w) PROVE \E k \in I : \E j \in 1..w[k] : x = <<k, j>>
  <2>1. PICK k \in I : x \in {k} \X (1..w[k])
    BY <1>1, Zenon DEF Units
  <2>2. PICK j \in 1..w[k] : x = <<k, j>>
    BY <2>1
  <2> QED BY <2>2
<1>2. ASSUME NEW k \in I, NEW j \in 1..w[k], x = <<k, j>> PROVE x \in Units(I, w)
  <2>1. x \in {k} \X (1..w[k])
    BY <1>2
  <2> QED BY <2>1, Zenon DEF Units
<1> QED BY <1>1, <1>2

LEMMA UnitsFinite ==
    ASSUME NEW I, IsFiniteSet(I), NEW w, \A k \in I : w[k] \in Nat
    PROVE  IsFiniteSet(Units(I, w)) /\ Cardinality(Units(I, w)) \in Nat
<1> DEFINE B(k) == {k} \X (1..w[k])
           F == {B(k) : k \in I}
<1>1. IsFiniteSet(F)
  <2> DEFINE h == [k \in I |-> B(k)]
  <2> HIDE DEF B
  <2>1. h \in Surjection(I, F)
    BY DEF Surjection
  <2> HIDE DEF h, F
  <2> QED BY <2>1, FS_Surjection
<1>2. ASSUME NEW k \in I PROVE IsFiniteSet(B(k))
  <2>1. IsFiniteSet({k})
    BY FS_Singleton
  <2>2. w[k] \in Int /\ 1 \in Int
    BY <1>2
  <2>3. IsFiniteSet(1..w[k])
    BY <2>2, FS_Interval
  <2> QED BY <2>1, <2>3, FS_Product
<1>3. \A S \in F : IsFiniteSet(S)
  BY <1>2, Zenon
<1>4. IsFiniteSet(UNION F)
  BY <1>1, <1>3, FS_UNION
<1>5. Units(I, w) = UNION F
  BY DEF Units
<1> QED BY <1>4, <1>5, FS_CardinalityType

\* Where everything weighs one, weights are counts.
LEMMA UnitsOfOne ==
    ASSUME NEW I, IsFiniteSet(I), NEW w, \A k \in I : w[k] = 1
    PROVE  Cardinality(Units(I, w)) = Cardinality(I)
<1> DEFINE f == [k \in I |-> <<k, 1>>]
<1>1. \A x : x \in Units(I, w) <=> \E k \in I : \E j \in 1..w[k] : x = <<k, j>>
  BY UnitIn
<1>2. \A k \in I : <<k, 1>> \in Units(I, w)
  BY <1>1
<1>3. \A x \in Units(I, w) : \E k \in I : x = <<k, 1>>
  <2> SUFFICES ASSUME NEW x \in Units(I, w) PROVE \E k \in I : x = <<k, 1>>
    OBVIOUS
  <2>1. PICK k \in I : \E j \in 1..w[k] : x = <<k, j>>
    BY <1>1
  <2>2. PICK j \in 1..w[k] : x = <<k, j>>
    BY <2>1
  <2>3. j = 1
    OBVIOUS
  <2> QED BY <2>2, <2>3
<1> DEFINE U == Units(I, w)
<1> HIDE DEF U
<1>4. f \in Bijection(I, U)
  BY <1>2, <1>3 DEF U, Bijection, Injection, Surjection, IsInjective
<1>5. ExistsBijection(I, U)
  BY <1>4 DEF ExistsBijection
<1>6. Cardinality(I) = Cardinality(U)
  BY <1>5, FS_Bijection
<1> QED BY <1>6 DEF U

\* What is used after `now` was recorded and still counts then: the call that is let
\* through now finds it all.
LEMMA UsedIsShown ==
    ASSUME NEW m \in Meters, m = "calls" => Minute + MaxStale <= BudgetWindow,
           NEW D \in History, \A k \in DOMAIN D : Proper(D[k]),
           NEW st \in Lines, NEW n \in 0..Len(st), NEW clk \in Nat, Recorded(D, st, n, clk),
           NEW now \in Nat, now <= clk, now + MaxStale >= clk,
           NEW a \in Principals, NEW T \in Nat, T >= now
    PROVE  Cardinality(Used(m, D, a, T)) <= Cardinality(Shown(m, st, a, now))
<1>1. PICK f : Finds(f, D, st, n, clk)
  BY DEF Recorded
<1> DEFINE A == Around(m, D, a, T)
           W == InWindow(st, KindOf(m), a, now, Span(m))
           u == [k \in DOMAIN D |-> Weight(m, D[k])]
           v == [i \in DOMAIN st |-> IF m = "targets" THEN st[i].count ELSE 1]
<1>2. Len(st) \in Nat /\ DOMAIN st = 1..Len(st) /\ n <= Len(st) /\ n \in Nat
  BY DEF Lines
<1>3. /\ Minute \in Nat /\ BudgetWindow \in Nat /\ MaxStale \in Nat
  BY LedgerConstants
<1>4. ASSUME NEW k \in A
      PROVE  f[k] \in W /\ u[k] = v[f[k]] /\ k \in Live(D, clk)
  <2>1. /\ k \in DOMAIN D /\ D[k].op = OpOf(m) /\ Payer(D[k]) = a /\ Proper(D[k])
        /\ D[k].now <= T /\ T < D[k].now + Width(m)
    BY DEF Around
  <2>2. D[k].now \in Nat
    BY <2>1 DEF Proper
  <2>3. Width(m) + MaxStale <= Life(OpOf(m)) /\ Width(m) <= Span(m) /\ Width(m) \in Int
        /\ Life(OpOf(m)) \in Nat /\ Span(m) \in Nat
    BY <1>3 DEF Meters, Width, Life, OpOf, Span
  <2>4. D[k].now + Life(OpOf(m)) > clk /\ D[k].now + Span(m) > now
        /\ D[k].now + Life(OpOf(m)) > now
    BY <1>3, <2>1, <2>2, <2>3
  <2>5. k \in Live(D, clk)
    BY <2>1, <2>4 DEF Live
  <2>6. f[k] \in 1..n /\ st[f[k]] = RecordOf(D[k])
    BY <1>1, <2>5 DEF Finds
  <2>7. f[k] \in DOMAIN st
    BY <1>2, <2>6
  <2>8. /\ st[f[k]].kind = KindOf(m) /\ st[f[k]].key = a /\ st[f[k]].iat = D[k].now
        /\ st[f[k]].exp = D[k].now + Life(OpOf(m))
        /\ m = "targets" => st[f[k]].count = D[k].ref.targets
    BY <2>1, <2>6, RecordFields DEF KindOf, OpOf, Meters
  <2>9. f[k] \in W
    BY <2>4, <2>7, <2>8 DEF InWindow
  <2>10. u[k] = v[f[k]]
    BY <2>1, <2>7, <2>8 DEF Weight
  <2> QED BY <2>5, <2>9, <2>10
<1>5. IsFiniteSet(W) /\ \A i \in W : v[i] \in Nat
  <2>1. IsFiniteSet(W)
    <3>1. IsFiniteSet(1..Len(st))
      BY <1>2, FS_Interval
    <3>2. W \subseteq 1..Len(st)
      BY <1>2 DEF InWindow
    <3> QED BY <3>1, <3>2, FS_Subset
  <2>2. ASSUME NEW i \in W PROVE v[i] \in Nat
    <3>1. i \in DOMAIN st /\ st[i] \in StateLine /\ st[i].kind = KindOf(m)
      BY <1>2 DEF InWindow, Lines
    <3>2. st[i].kind = "budget" => st[i].count \in Nat
      BY <3>1 DEF StateLine, Torn
    <3>3. m = "targets" => st[i].count \in Nat
      BY <3>1, <3>2 DEF KindOf
    <3> QED BY <3>1, <3>3
  <2> QED BY <2>1, <2>2
<1> HIDE DEF u, v, W, A
<1>6. IsFiniteSet(Units(W, v))
  BY <1>5, UnitsFinite
<1>7. /\ \A x : x \in Units(A, u) <=> \E k \in A : \E j \in 1..u[k] : x = <<k, j>>
      /\ \A x : x \in Units(W, v) <=> \E k \in W : \E j \in 1..v[k] : x = <<k, j>>
  BY UnitIn
<1> DEFINE U == Units(A, u)
           V == Units(W, v)
           g == [x \in U |-> <<f[x[1]], x[2]>>]
<1> HIDE DEF U, V
<1>8. ASSUME NEW x \in U
      PROVE  x[1] \in A /\ x = <<x[1], x[2]>> /\ <<f[x[1]], x[2]>> \in V
  <2>1. PICK k \in A : \E j \in 1..u[k] : x = <<k, j>>
    BY <1>7 DEF U
  <2>2. PICK j \in 1..u[k] : x = <<k, j>>
    BY <2>1
  <2>3. f[k] \in W /\ j \in 1..v[f[k]]
    BY <1>4, <2>2
  <2>4. <<f[k], j>> \in V
    BY <1>7, <2>3 DEF V
  <2> QED BY <2>2, <2>4
<1>9. ASSUME NEW x \in U, NEW y \in U, g[x] = g[y] PROVE x = y
  <2>1. f[x[1]] = f[y[1]] /\ x[2] = y[2]
    BY <1>9
  <2>2. x[1] = y[1]
    BY <1>1, <1>4, <1>8, <2>1 DEF Finds
  <2> QED BY <1>8, <2>1, <2>2
<1>10. g \in [U -> V]
  BY <1>8
<1> HIDE DEF g
<1>11. g \in Injection(U, V)
  BY <1>9, <1>10 DEF Injection, IsInjective
<1>12. Cardinality(U) <= Cardinality(V)
  BY <1>6, <1>11, FS_Injection DEF V
<1>13. Used(m, D, a, T) = U /\ Shown(m, st, a, now) = V
  BY DEF Used, Shown, U, V, A, W, u, v
<1> QED BY <1>12, <1>13

LEMMA AroundFinite ==
    ASSUME NEW m, NEW D \in History, NEW a, NEW T
    PROVE  IsFiniteSet(Around(m, D, a, T))
<1>1. Len(D) \in Nat /\ DOMAIN D = 1..Len(D)
  BY DEF History
<1>2. IsFiniteSet(1..Len(D))
  BY <1>1, FS_Interval
<1>3. Around(m, D, a, T) \subseteq 1..Len(D)
  BY <1>1 DEF Around
<1> QED BY <1>2, <1>3, FS_Subset

LEMMA UsedFinite ==
    ASSUME NEW m \in Meters, NEW D \in History, \A k \in DOMAIN D : Proper(D[k]), NEW a, NEW T
    PROVE  IsFiniteSet(Used(m, D, a, T)) /\ Cardinality(Used(m, D, a, T)) \in Nat
<1> DEFINE A == Around(m, D, a, T)
           u == [k \in DOMAIN D |-> Weight(m, D[k])]
<1>1. IsFiniteSet(A)
  BY AroundFinite
<1>2. \A k \in A : u[k] \in Nat
  BY MeterTypes DEF Around
<1> HIDE DEF A, u
<1>3. IsFiniteSet(Units(A, u)) /\ Cardinality(Units(A, u)) \in Nat
  BY <1>1, <1>2, UnitsFinite
<1> QED BY <1>3 DEF Used, A, u

\* An entry for which there is room keeps the quota.
LEMMA QuotaGrows ==
    ASSUME NEW m \in Meters, NEW D \in History, \A k \in DOMAIN D : Proper(D[k]), Respects(m, D),
           NEW e \in [op: {"commit", "challenge"}, ref: Ref, now: Nat], Proper(e),
           e.op = OpOf(m) => Room(m, D, Payer(e), e.now, Weight(m, e))
    PROVE  Respects(m, Append(D, e))
<1> DEFINE E == Append(D, e)
           last == Len(D) + 1
<1>1. /\ Len(D) \in Nat /\ DOMAIN D = 1..Len(D) /\ DOMAIN E = 1..last /\ E[last] = e
      /\ \A k \in 1..Len(D) : E[k] = D[k] /\ k # last /\ k \in DOMAIN E
  BY DEF History
<1> HIDE DEF E
<1>2. \A k \in DOMAIN E : k = last \/ (k \in DOMAIN D /\ E[k] = D[k])
  BY <1>1
<1> HIDE DEF last
<1>3. ASSUME NEW i \in DOMAIN E, E[i].op = OpOf(m), Most(m) > 0
      PROVE  Cardinality(Used(m, E, Payer(E[i]), E[i].now)) <= Most(m)
  <2>1. PICK a, T : a = Payer(E[i]) /\ T = E[i].now
    OBVIOUS
  <2> DEFINE old == Used(m, D, a, T)
             new == Used(m, E, a, T)
             own == {last} \X (1..Weight(m, e))
             u == [k \in DOMAIN D |-> Weight(m, D[k])]
             v == [k \in DOMAIN E |-> Weight(m, E[k])]
  <2>2. IsFiniteSet(old) /\ Cardinality(old) \in Nat /\ Most(m) \in Nat
    BY UsedFinite, MeterTypes
  <2>3. last \in DOMAIN E
    BY <1>1 DEF last
  <2>4. \A k \in Around(m, E, a, T) :
            \/ k = last /\ v[k] = Weight(m, e)
            \/ k \in Around(m, D, a, T) /\ v[k] = u[k]
    BY <1>1, <1>2, <2>3 DEF Around
  <2>5. old = Units(Around(m, D, a, T), u) /\ new = Units(Around(m, E, a, T), v)
    BY DEF Used
  <2> HIDE DEF u, v, old, new
  <2>6. ASSUME NEW x \in new PROVE x \in old \/ (last \in Around(m, E, a, T) /\ x \in own)
    <3>1. \E k \in Around(m, E, a, T) : \E j \in 1..v[k] : x = <<k, j>>
      BY <2>5, UnitIn
    <3>2. PICK k \in Around(m, E, a, T) : \E j \in 1..v[k] : x = <<k, j>>
      BY <3>1
    <3>3. PICK j \in 1..v[k] : x = <<k, j>>
      BY <3>2
    <3>4. CASE k = last /\ v[k] = Weight(m, e)
      BY <3>2, <3>3, <3>4
    <3>5. CASE k \in Around(m, D, a, T) /\ v[k] = u[k]
      <4>1. x \in Units(Around(m, D, a, T), u)
        BY <3>3, <3>5, UnitIn
      <4> QED BY <2>5, <4>1
    <3> QED BY <2>4, <3>4, <3>5
  <2>7. CASE last \notin Around(m, E, a, T)
    <3>1. new \subseteq old
      BY <2>6, <2>7
    <3>2. Cardinality(new) <= Cardinality(old) /\ IsFiniteSet(new)
      BY <2>2, <3>1, FS_Subset
    <3>3. Cardinality(new) \in Nat
      BY <3>2, FS_CardinalityType
    <3>4. CASE i = last
      <4>1. e.op = OpOf(m) /\ a = Payer(e) /\ T = e.now
        BY <1>1, <1>3, <2>1, <3>4
      <4>2. T \in Nat /\ T >= e.now /\ Weight(m, e) \in Nat
        BY <4>1, MeterTypes DEF Proper
      <4>3. Cardinality(old) + Weight(m, e) <= Most(m)
        BY <1>3, <4>1, <4>2 DEF Room, old
      <4>4. Cardinality(new) <= Most(m)
        BY <2>2, <3>2, <3>3, <4>2, <4>3
      <4> QED BY <2>1, <4>4 DEF new
    <3>5. CASE i # last
      <4>1. i \in DOMAIN D /\ D[i].op = OpOf(m) /\ a = Payer(D[i]) /\ T = D[i].now
        BY <1>2, <1>3, <2>1, <3>5
      <4>2. ~Exceeds(Cardinality(old), Most(m))
        BY <4>1 DEF Respects, old
      <4>3. Cardinality(new) <= Most(m)
        BY <1>3, <2>2, <3>2, <3>3, <4>2 DEF Exceeds
      <4> QED BY <2>1, <4>3 DEF new
    <3> QED BY <3>4, <3>5
  <2>8. CASE last \in Around(m, E, a, T)
    <3>1. e.op = OpOf(m) /\ Payer(e) = a /\ e.now <= T
      BY <1>1, <2>8 DEF Around
    <3>2. T \in Nat /\ Weight(m, e) \in Nat
      BY <1>2, <1>1, <1>3, <2>1, <3>1, MeterTypes DEF Proper
    <3>3. Cardinality(old) + Weight(m, e) <= Most(m)
      BY <1>3, <3>1, <3>2 DEF Room, old
    <3> DEFINE w == Weight(m, e)
    <3> HIDE DEF w
    <3>4. w \in Nat /\ own = {last} \X (1..w)
      BY <3>2 DEF w
    <3>5. IsFiniteSet(1..w) /\ Cardinality(1..w) = w
      <4>1. IsFiniteSet(1..w) /\ Cardinality(1..w) = IF 1 > w THEN 0 ELSE w - 1 + 1
        BY <3>4, FS_Interval
      <4> QED BY <3>4, <4>1
    <3>6. IsFiniteSet({last}) /\ Cardinality({last}) = 1
      BY FS_Singleton
    <3>7. IsFiniteSet(own) /\ Cardinality(own) = 1 * w
      BY <3>4, <3>5, <3>6, FS_Product
    <3> HIDE DEF own
    <3>8. /\ IsFiniteSet(old \cup own)
          /\ Cardinality(old \cup own) = Cardinality(old) + Cardinality(own) - Cardinality(old \cap own)
      BY <2>2, <3>7, FS_Union
    <3>9. IsFiniteSet(old \cap own)
      BY <2>2, FS_Intersection
    <3>10. Cardinality(old \cap own) \in Nat
      BY <3>9, FS_CardinalityType
    <3>11. new \subseteq old \cup own
      BY <2>6
    <3>12. Cardinality(new) <= Cardinality(old \cup own) /\ IsFiniteSet(new)
      BY <3>8, <3>11, FS_Subset
    <3>13. Cardinality(new) \in Nat
      BY <3>12, FS_CardinalityType
    <3>14. Cardinality(old \cup own) <= Cardinality(old) + w
      BY <2>2, <3>4, <3>7, <3>8, <3>10
    <3>15. Cardinality(new) <= Most(m)
      BY <2>2, <3>3, <3>4, <3>7, <3>8, <3>10, <3>12, <3>13, <3>14 DEF w
    <3> QED BY <2>1, <3>15 DEF new
  <2> QED BY <2>7, <2>8
<1>4. \A i \in DOMAIN E : E[i].op = OpOf(m) => \A n \in Nat :
          (Most(m) > 0 => n <= Most(m)) => ~Exceeds(n, Most(m))
  BY MeterTypes DEF Exceeds
<1>5. ASSUME NEW i \in DOMAIN E, E[i].op = OpOf(m)
      PROVE  ~Exceeds(Cardinality(Used(m, E, Payer(E[i]), E[i].now)), Most(m))
  <2>1. E \in History /\ \A k \in DOMAIN E : Proper(E[k])
    BY <1>1, <1>2 DEF History, E
  <2>2. Cardinality(Used(m, E, Payer(E[i]), E[i].now)) \in Nat
    BY <2>1, UsedFinite
  <2> QED BY <1>3, <1>4, <1>5, <2>2
<1> QED BY <1>5 DEF Respects, E

LEMMA WindowFinite ==
    ASSUME NEW st \in Lines, NEW kind, NEW a, NEW now, NEW width
    PROVE  /\ IsFiniteSet(InWindow(st, kind, a, now, width))
           /\ Cardinality(InWindow(st, kind, a, now, width)) \in Nat
<1>1. Len(st) \in Nat /\ DOMAIN st = 1..Len(st)
  BY DEF Lines
<1>2. IsFiniteSet(1..Len(st))
  BY <1>1, FS_Interval
<1>3. InWindow(st, kind, a, now, width) \subseteq 1..Len(st)
  BY <1>1 DEF InWindow
<1> QED BY <1>2, <1>3, FS_Subset, FS_CardinalityType

LEMMA CountNat ==
    ASSUME NEW st \in Lines, NEW a, NEW now, NEW width,
           NEW i \in InWindow(st, "budget", a, now, width)
    PROVE  st[i].count \in Nat
<1>1. st[i] \in StateLine /\ st[i].kind = "budget"
  BY DEF InWindow, Lines
<1> QED BY <1>1 DEF StateLine, Torn

LEMMA CommitCharges ==
    ASSUME NEW w \in Writes, NEW now \in Nat
    PROVE  \E i \in DOMAIN CommitLines(w, now) : CommitLines(w, now)[i] = Budget(w, now)
<1> DEFINE bound == SetToSeq(w.subjects \X w.entitlements)
           grants == [i \in DOMAIN bound |-> Grant(bound[i][1], bound[i][2])]
           spent == IF w.token = NoToken THEN <<>> ELSE <<Replay(w.token)>>
           b == Budget(w, now)
<1>1. w.principal \in Principals /\ w.targets \in Nat /\ w.token \in Tokens \cup {NoToken}
  BY LedgerConstants DEF WriteCall
<1>2. grants \in Lines
  BY BoundGrants
<1>3. b \in StateLine /\ (w.token # NoToken => Replay(w.token) \in StateLine)
  BY <1>1, LedgerConstants DEF Budget, Replay, StateLine
<1>4. spent \in Lines
  BY <1>3 DEF Lines
<1>5. CommitLines(w, now) = (<<b>> \o grants) \o spent
  BY DEF CommitLines
<1> HIDE DEF grants, spent, b
<1>6. <<b>> \in Lines /\ Len(<<b>>) = 1 /\ <<b>>[1] = b
  BY <1>3 DEF Lines
<1> DEFINE front == <<b>> \o grants
<1>7. front \in Lines /\ Len(front) = 1 + Len(grants) /\ Len(grants) \in Nat
  BY <1>2, <1>6, ConcatAt
<1>8. front[1] = b
  BY <1>2, <1>6, <1>7, ConcatAt
<1> HIDE DEF front
<1>9. /\ front \o spent \in Lines /\ Len(front \o spent) = Len(front) + Len(spent)
      /\ Len(spent) \in Nat
      /\ \A i \in 1..(Len(front) + Len(spent)) : i <= Len(front) => (front \o spent)[i] = front[i]
  BY <1>4, <1>7, ConcatAt
<1>10. 1 \in 1..(Len(front) + Len(spent)) /\ 1 <= Len(front)
  BY <1>7, <1>9
<1>11. 1 \in DOMAIN (front \o spent) /\ (front \o spent)[1] = b
  BY <1>8, <1>9, <1>10 DEF Lines
<1> QED BY <1>5, <1>11 DEF front, b

\* A challenge that is not refused has room, and so has a commit within its budget.
LEMMA ChallengeRoom ==
    ASSUME NEW D \in History, \A k \in DOMAIN D : Proper(D[k]),
           NEW st \in Lines, NEW n \in 0..Len(st), NEW clk \in Nat, Recorded(D, st, n, clk),
           NEW now \in Nat, now <= clk, now + MaxStale >= clk, NEW a \in Principals,
           ~(MaxChallenges > 0 /\
               Cardinality(InWindow(st, "challenge", a, now, Minute)) >= MaxChallenges)
    PROVE  Room("challenges", D, a, now, 1)
<1> DEFINE W == InWindow(st, "challenge", a, now, Minute)
           v == [i \in DOMAIN st |-> IF "challenges" = "targets" THEN st[i].count ELSE 1]
<1>1. SUFFICES ASSUME MaxChallenges > 0, NEW T \in Nat, T >= now
               PROVE  Cardinality(Used("challenges", D, a, T)) + 1 <= MaxChallenges
  BY DEF Room, Most
<1>2. Cardinality(Used("challenges", D, a, T)) <= Cardinality(Shown("challenges", st, a, now))
      /\ Cardinality(Used("challenges", D, a, T)) \in Nat
  BY <1>1, UsedIsShown, UsedFinite DEF Meters
<1>3. IsFiniteSet(W) /\ Cardinality(W) \in Nat
  BY WindowFinite
<1>4. Shown("challenges", st, a, now) = Units(W, v)
  BY DEF Shown, KindOf, Span
<1>5. \A i \in W : v[i] = 1
  BY DEF InWindow
<1> HIDE DEF W, v
<1>6. Cardinality(Units(W, v)) = Cardinality(W)
  BY <1>3, <1>5, UnitsOfOne
<1>7. MaxChallenges \in Nat /\ Cardinality(W) < MaxChallenges
  BY <1>1, <1>3, LedgerConstants DEF W
<1> QED BY <1>2, <1>3, <1>4, <1>6, <1>7

LEMMA CommitRoom ==
    ASSUME NEW D \in History, \A k \in DOMAIN D : Proper(D[k]),
           NEW st \in Lines, NEW n \in 0..Len(st), NEW clk \in Nat, Recorded(D, st, n, clk),
           NEW now \in Nat, now <= clk, now + MaxStale >= clk,
           NEW w \in Writes, ~OverBudget(st, w, now)
    PROVE  /\ Minute + MaxStale <= BudgetWindow => Room("calls", D, w.principal, now, 1)
           /\ Room("targets", D, w.principal, now, w.targets)
<1> DEFINE a == w.principal
           W == InWindow(st, "budget", a, now, Minute)
           B == InWindow(st, "budget", a, now, BudgetWindow)
           v == [i \in DOMAIN st |-> IF "calls" = "targets" THEN st[i].count ELSE 1]
           c == [i \in DOMAIN st |-> IF "targets" = "targets" THEN st[i].count ELSE 1]
<1>1. w.principal \in Principals /\ w.targets \in Nat /\ MaxCalls \in Nat /\ MaxTargets \in Nat
  BY LedgerConstants DEF WriteCall
<1>2. IsFiniteSet(W) /\ Cardinality(W) \in Nat
  BY WindowFinite
<1>3. ~Exceeds(Cardinality(W) + 1, MaxCalls) /\ ~Exceeds(Targets(st, B) + w.targets, MaxTargets)
  BY DEF OverBudget
<1>4. ASSUME Minute + MaxStale <= BudgetWindow, MaxCalls > 0, NEW T \in Nat, T >= now
      PROVE  Cardinality(Used("calls", D, a, T)) + 1 <= MaxCalls
  <2>1. Cardinality(Used("calls", D, a, T)) <= Cardinality(Shown("calls", st, a, now))
        /\ Cardinality(Used("calls", D, a, T)) \in Nat
    BY <1>1, <1>4, UsedIsShown, UsedFinite DEF Meters
  <2>2. Shown("calls", st, a, now) = Units(W, v)
    BY DEF Shown, KindOf, Span
  <2>3. \A i \in W : v[i] = 1
    BY DEF InWindow
  <2> HIDE DEF W, v, a
  <2>4. Cardinality(Units(W, v)) = Cardinality(W)
    BY <1>2, <2>3, UnitsOfOne
  <2>5. Cardinality(W) + 1 <= MaxCalls
    BY <1>1, <1>2, <1>3, <1>4 DEF Exceeds
  <2> QED BY <1>1, <1>2, <2>1, <2>2, <2>4, <2>5
<1>5. ASSUME MaxTargets > 0, NEW T \in Nat, T >= now
      PROVE  Cardinality(Used("targets", D, a, T)) + w.targets <= MaxTargets
  <2>1. Cardinality(Used("targets", D, a, T)) <= Cardinality(Shown("targets", st, a, now))
        /\ Cardinality(Used("targets", D, a, T)) \in Nat
    BY <1>1, <1>5, UsedIsShown, UsedFinite DEF Meters
  <2>2. Shown("targets", st, a, now) = Units(B, c)
    BY DEF Shown, KindOf, Span
  <2>3. IsFiniteSet(B) /\ \A i \in B : c[i] = st[i].count /\ c[i] \in Nat
    <3>1. \A i \in B : c[i] = st[i].count
      BY DEF InWindow
    <3>2. \A i \in B : st[i].count \in Nat
      BY CountNat
    <3> QED BY <3>1, <3>2, WindowFinite
  <2>4. Units(B, c) = UNION {{i} \X (1..st[i].count) : i \in B}
    <3>1. \A i \in B : {i} \X (1..c[i]) = {i} \X (1..st[i].count)
      BY <2>3
    <3> HIDE DEF c, B
    <3> QED BY <3>1 DEF Units
  <2>5. Targets(st, B) = Cardinality(Units(B, c))
    BY <2>4 DEF Targets
  <2> HIDE DEF B, c, a
  <2>6. Cardinality(Units(B, c)) \in Nat
    BY <2>3, UnitsFinite
  <2>7. Cardinality(Units(B, c)) + w.targets <= MaxTargets
    BY <1>1, <1>3, <1>5, <2>5, <2>6 DEF Exceeds
  <2> QED BY <1>1, <2>1, <2>2, <2>6, <2>7
<1> QED BY <1>4, <1>5 DEF Room, Most

-----------------------------------------------------------------------------
(* The record of a section on its way to the disk *)

Counted(p) == job[p].op \in {"commit", "challenge"}
Entry(p) == [op |-> job[p].op, ref |-> job[p].ref, now |-> job[p].now]
Midway == {"audit", "async", "hwm", "hsync"}

\* A commit has its record on disk once its fsync is done, a challenge with the fsync of
\* audit_hwm: until then the record is behind what is on disk.
Sure(p) == IF job[p].op = "commit" THEN Midway \cup {"compact"} ELSE {"compact"}
Loose(p) == IF job[p].op = "commit" THEN {"wsync"} ELSE Midway
RecordJob(p) ==
    /\ job[p].now <= clock
    /\ Counted(p) =>
          /\ Proper(Entry(p)) /\ pc[p] \in {"write"} \cup Sure(p) \cup Loose(p)
          /\ pc[p] = "write" => \E i \in DOMAIN job[p].todo : job[p].todo[i] = RecordOf(Entry(p))
          /\ pc[p] \in Loose(p) =>
                \E g \in (dbSync + 1)..Len(db.lines) : db.lines[g] = RecordOf(Entry(p))
          /\ pc[p] \in Sure(p) => Recorded(Append(done, Entry(p)), db.lines, dbSync, clock)

RecordsInv ==
    /\ CacheInv
    /\ \A k \in DOMAIN done : Proper(done[k])
    /\ Recorded(done, db.lines, dbSync, clock)
    /\ \A p \in Procs : RecordJob(p)

LEMMA RecordTypes ==
    ASSUME RecordsInv
    PROVE  /\ TypeInv /\ TypeOK /\ done \in History /\ db.lines \in Lines
           /\ dbSync \in 0..Len(db.lines) /\ Len(db.lines) \in Nat /\ dbSync \in Nat /\ clock \in Nat
           /\ pc \in [Procs -> Place] /\ job \in [Procs -> JobType]
           /\ db \in [ino: Nat \ {0}, lines: Seq(StateLine)]
<1>1. TypeInv /\ TypeOK
  BY DEF RecordsInv, CacheInv, TypeInv
<1>2. db.lines \in Lines /\ Len(db.lines) \in Nat /\ dbSync \in 0..Len(db.lines)
  BY <1>1 DEF TypeOK, Lines
<1> QED BY <1>1, <1>2 DEF TypeOK, History

\* Only who holds the lock has a record on its way.
LEMMA CountedAlone ==
    ASSUME RecordsInv, NEW p \in Procs, Counted(p)
    PROVE  InSection(p) /\ lock = p /\ pc[p] \notin {"down", "idle"}
<1>1. pc[p] \in {"write"} \cup Sure(p) \cup Loose(p)
  BY DEF RecordsInv, RecordJob
<1>2. pc[p] \notin {"down", "idle"}
  BY <1>1 DEF Sure, Loose, Midway
<1>3. InSection(p)
  BY <1>2 DEF InSection
<1> QED BY <1>2, <1>3 DEF RecordsInv, CacheInv, Coherent

\* What has been recorded stays recorded.
LEMMA RecordedStays ==
    ASSUME RecordsInv, TypeOK', [Next]_vars, NEW D, \A k \in DOMAIN D : Proper(D[k]),
           Recorded(D, db.lines, dbSync, clock)
    PROVE  Recorded(D, db'.lines, dbSync', clock')
<1>1. /\ TypeInv /\ db.lines \in Lines /\ dbSync \in 0..Len(db.lines) /\ dbSync \in Nat
      /\ clock \in Nat /\ job \in [Procs -> JobType]
  BY RecordTypes
<1>2. dbSync' \in Nat /\ clock' \in Nat
  <2>1. Len(db'.lines) \in Nat /\ dbSync' \in 0..Len(db'.lines) /\ clock' \in Nat
    BY DEF TypeOK
  <2> QED BY <2>1
<1>3. clock' >= clock /\ (Lasting \/ \E p \in Procs : Compacting(p))
  BY <1>1, StepLasts
<1>4. CASE Lasting
  <2>1. \A i \in 1..dbSync : db.lines[i].kind # "torn" => i <= dbSync' /\ db'.lines[i] = db.lines[i]
    BY <1>4 DEF Lasting
  <2> QED BY <1>1, <1>2, <1>3, <2>1, RecordsLast
<1>5. ASSUME NEW p \in Procs, Compacting(p) PROVE Recorded(D, db'.lines, dbSync', clock')
  <2>1. /\ pc[p] = "compact" /\ clock' = clock
        /\ db'.lines = Compacted(job[p].act, job[p].now) /\ dbSync' = Len(db'.lines)
    BY <1>5 DEF Compacting
  <2>2. job[p].now \in Nat /\ job[p].now <= clock
    BY <1>1 DEF RecordsInv, RecordJob, JobType
  <2>3. db.lines = job[p].act
    BY <2>1 DEF RecordsInv, CacheInv, Coherent, InSection, RepairSection, AppendSection
  <2> QED BY <1>1, <2>1, <2>2, <2>3, RecordsCompact
<1> QED BY <1>3, <1>4, <1>5

\* What returns, and what its return does.
LEMMA DoneGrows ==
    ASSUME TypeOK, [Next]_vars
    PROVE  \/ UNCHANGED done
           \/ \E p \in Procs :
                 /\ Counted(p) /\ done' = Append(done, Entry(p)) /\ job' = [job EXCEPT ![p] = NoJob]
                 /\ \/ pc[p] = "compact"
                    \/ pc[p] = "hsync" /\ UNCHANGED <<db, clock>> /\ dbSync' = Len(db.lines)
<1>1. ASSUME NEW p \in Procs, Handler(p) \/ Lifecycle(p) \/ IoError(p) \/ Kill(p)
      PROVE  UNCHANGED done
  BY <1>1 DEF Handler, AppendAudit, Snapshot, RecordChallenge, CommitWrite, RevokeGrant,
              Enter, Lifecycle, Open, OpenRecover, Exit, RepairState, IoError, Kill
<1>2. ASSUME NEW p \in Procs, WriteState(p) \/ SyncState(p) \/ WriteAudit(p) \/ SyncAudit(p)
                              \/ WriteHwm(p) \/ RepairAudit(p)
      PROVE  UNCHANGED done
  BY <1>2 DEF WriteState, SyncState, WriteAudit, SyncAudit, WriteHwm, RepairAudit
<1>3. ASSUME NEW p \in Procs, SyncHwm(p) \/ Compact(p)
      PROVE  \/ UNCHANGED done
             \/ /\ Counted(p) /\ done' = Append(done, Entry(p)) /\ job' = [job EXCEPT ![p] = NoJob]
                /\ \/ pc[p] = "compact"
                   \/ pc[p] = "hsync" /\ UNCHANGED <<db, clock>> /\ dbSync' = Len(db.lines)
  BY <1>3 DEF SyncHwm, Compact, Return, Counted, Entry
<1>4. CASE PowerFailure \/ Tick \/ UNCHANGED vars
  BY <1>4 DEF PowerFailure, Tick, vars
<1> QED BY <1>1, <1>2, <1>3, <1>4, Zenon DEF Next, Section

\* A record on disk stays there, and one behind those on disk is synced with them.
LEMMA SureStays ==
    ASSUME RecordsInv, TypeOK', [Next]_vars, NEW p \in Procs, Counted(p),
           \/ pc[p] \in Sure(p)
           \/ pc[p] \in Loose(p) /\ UNCHANGED <<db, clock>> /\ dbSync' = Len(db.lines)
    PROVE  /\ Recorded(Append(done, Entry(p)), db'.lines, dbSync', clock')
           /\ Append(done, Entry(p)) \in History
           /\ \A k \in DOMAIN Append(done, Entry(p)) : Proper(Append(done, Entry(p))[k])
<1>1. /\ TypeOK /\ done \in History /\ db.lines \in Lines /\ dbSync \in 0..Len(db.lines)
      /\ Len(db.lines) \in Nat /\ dbSync \in Nat /\ clock \in Nat /\ job \in [Procs -> JobType]
  BY RecordTypes
<1> DEFINE e == Entry(p)
           D == Append(done, e)
<1>2. Proper(e) /\ e \in [op: {"commit", "challenge"}, ref: Ref, now: Nat]
  BY <1>1 DEF RecordsInv, RecordJob, Entry, Counted, JobType
<1> HIDE DEF e
<1>3. D \in History /\ \A k \in DOMAIN D : Proper(D[k])
  <2>1. D \in History /\ \A k \in DOMAIN D : D[k] = e \/ (k \in DOMAIN done /\ D[k] = done[k])
    BY <1>1, <1>2 DEF History
  <2> QED BY <1>2, <2>1 DEF RecordsInv
<1>4. CASE pc[p] \in Sure(p)
  <2>1. Recorded(D, db.lines, dbSync, clock)
    BY <1>4 DEF RecordsInv, RecordJob, e
  <2> HIDE DEF D
  <2>2. Recorded(D, db'.lines, dbSync', clock')
    BY <1>3, <2>1, RecordedStays
  <2> QED BY <1>3, <2>2 DEF D, e
<1>5. CASE pc[p] \in Loose(p) /\ UNCHANGED <<db, clock>> /\ dbSync' = Len(db.lines)
  <2>1. PICK g \in (dbSync + 1)..Len(db.lines) : db.lines[g] = RecordOf(e)
    BY <1>5 DEF RecordsInv, RecordJob, e
  <2>2. Recorded(done, db.lines, dbSync, clock) /\ dbSync <= Len(db.lines)
    BY <1>1 DEF RecordsInv
  <2>3. Recorded(D, db.lines, Len(db.lines), clock)
    BY <1>1, <1>2, <2>1, <2>2, RecordsGrow
  <2>4. Recorded(D, db'.lines, dbSync', clock')
    BY <1>5, <2>3
  <2> QED BY <1>3, <2>4 DEF e
<1> QED BY <1>4, <1>5

LEMMA HistoryKept ==
    ASSUME RecordsInv, TypeOK', [Next]_vars
    PROVE  /\ \A k \in DOMAIN done' : Proper(done'[k])
           /\ Recorded(done', db'.lines, dbSync', clock')
<1>1. CASE UNCHANGED done
  <2>1. Recorded(done, db'.lines, dbSync', clock')
    BY RecordedStays DEF RecordsInv
  <2> QED BY <1>1, <2>1 DEF RecordsInv
<1>2. ASSUME NEW p \in Procs, Counted(p), done' = Append(done, Entry(p)),
             \/ pc[p] = "compact"
             \/ pc[p] = "hsync" /\ UNCHANGED <<db, clock>> /\ dbSync' = Len(db.lines)
      PROVE  /\ \A k \in DOMAIN done' : Proper(done'[k])
             /\ Recorded(done', db'.lines, dbSync', clock')
  <2>1. \/ pc[p] \in Sure(p)
        \/ pc[p] \in Loose(p) /\ UNCHANGED <<db, clock>> /\ dbSync' = Len(db.lines)
    BY <1>2 DEF Sure, Loose, Midway
  <2> DEFINE D == Append(done, Entry(p))
  <2>2. Recorded(D, db'.lines, dbSync', clock') /\ \A k \in DOMAIN D : Proper(D[k])
    BY <1>2, <2>1, SureStays
  <2> QED BY <1>2, <2>2
<1> QED BY <1>1, <1>2, DoneGrows, RecordTypes
-----------------------------------------------------------------------------
(* How a section comes to count, and goes on *)

\* A challenge or a commit is let through, with its record still to be written.
Issues(p) == \E a \in Principals, now \in Nows :
    /\ ~(MaxChallenges > 0 /\
           Cardinality(InWindow(db.lines, "challenge", a, now, Minute)) >= MaxChallenges)
    /\ job'[p] = Work("challenge", db.lines, <<Challenge(a, now)>>, "challenge",
                      [challenged |-> a], now)
Charges(p) == \E w \in Writes, now \in Nows :
    /\ ~OverBudget(db.lines, w, now)
    /\ job'[p] = Work("commit", db.lines, CommitLines(w, now), "allow", w, now)
Begins(p) == /\ Issues(p) \/ Charges(p)
             /\ pc'[p] = "write" /\ UNCHANGED <<db, dbSync, clock, done>>

\* A step that leaves the section where it is, as far as its record is concerned.
Stands(p) == /\ UNCHANGED <<db, dbSync, done>> /\ clock' >= clock /\ job'[p] = job[p]
             /\ pc'[p] = pc[p] \/ {pc[p], pc'[p]} \subseteq Midway

\* The steps that write or sync its record.
Proceeds(p) == WriteState(p) \/ SyncState(p) \/ WriteHwm(p) \/ SyncHwm(p)

LEMMA HandlerCounts ==
    ASSUME RecordsInv, NEW p \in Procs, Handler(p), NEW q \in Procs, Counted(q)'
    PROVE  q = p /\ Begins(p)
<1>1. /\ pc \in [Procs -> Place] /\ job \in [Procs -> JobType]
  BY RecordTypes
<1>2. /\ pc[p] = "idle" /\ lock = NoProc /\ UNCHANGED <<db, dbSync, clock, done>>
      /\ \A r \in Procs : r # p => job'[r] = job[r]
  BY <1>1 DEF Handler, AppendAudit, Snapshot, RecordChallenge, CommitWrite, RevokeGrant, Enter, Start
<1>3. View(p) = db.lines
  BY <1>2, ViewIsFile DEF RecordsInv
<1>4. \A r \in Procs : ~Counted(r)
  <2> SUFFICES ASSUME NEW r \in Procs, Counted(r) PROVE FALSE
    OBVIOUS
  <2>1. lock = r
    BY CountedAlone
  <2> QED BY <1>2, <2>1, LedgerConstants
<1>5. q = p
  BY <1>2, <1>4 DEF Counted
<1>6. ASSUME NEW work, Enter(p, work)
      PROVE  job'[p] = work /\ pc'[p] = IF work.todo = <<>> THEN "audit" ELSE "write"
  BY <1>1, <1>6 DEF Enter, Start
<1>7. ASSUME NEW work, Enter(p, work), work.op \notin {"commit", "challenge"} PROVE FALSE
  BY <1>5, <1>6, <1>7 DEF Counted
<1>8. CASE AppendAudit(p) \/ Snapshot(p) \/ \E s \in Subjects, e \in Entitlements : RevokeGrant(p, s, e)
  <2>1. CASE Snapshot(p)
    BY <1>4, <1>5, <2>1 DEF Snapshot, Counted
  <2>2. CASE AppendAudit(p)
    <3>1. PICK now \in Nows : Enter(p, Work("audit", View(p), <<>>, "event", NoRef, now))
      BY <2>2 DEF AppendAudit
    <3> QED BY <1>7, <3>1 DEF Work
  <2>3. ASSUME NEW s \in Subjects, NEW e \in Entitlements, RevokeGrant(p, s, e) PROVE FALSE
    <3>1. PICK now \in Nows : Enter(p, Work("revoke", View(p), <<Revoke(s, e)>>, "revoked",
                                            [subject |-> s, entitlement |-> e], now))
      BY <2>3 DEF RevokeGrant
    <3> QED BY <1>7, <3>1 DEF Work
  <2> QED BY <1>8, <2>1, <2>2, <2>3
<1>9. ASSUME NEW a \in Principals, NEW now \in Nows, RecordChallenge(p, a, now) PROVE Begins(p)
  <2> DEFINE full == /\ MaxChallenges > 0
                     /\ Cardinality(InWindow(db.lines, "challenge", a, now, Minute)) >= MaxChallenges
             asked == Work("challenge", db.lines, <<Challenge(a, now)>>, "challenge",
                           [challenged |-> a], now)
  <2>1. Enter(p, IF full THEN Work("audit", db.lines, <<>>, "deny", NoRef, now) ELSE asked)
    BY <1>3, <1>9 DEF RecordChallenge
  <2>2. ~full
    BY <1>7, <2>1 DEF Work
  <2>3. Enter(p, asked) /\ asked.todo # <<>>
    BY <2>1, <2>2 DEF Work
  <2>4. job'[p] = asked /\ pc'[p] = "write"
    BY <1>6, <2>3
  <2> QED BY <1>2, <2>2, <2>4 DEF Begins, Issues
<1>10. ASSUME NEW w \in Writes, NEW now \in Nows, CommitWrite(p, w, now) PROVE Begins(p)
  <2> DEFINE passed == Work("commit", db.lines, CommitLines(w, now), "allow", w, now)
  <2>1. \/ Enter(p, Work("audit", db.lines, <<>>, "deny", NoRef, now))
        \/ Enter(p, passed) /\ ~OverBudget(db.lines, w, now)
    BY <1>3, <1>10 DEF CommitWrite
  <2>2. Enter(p, passed) /\ ~OverBudget(db.lines, w, now)
    BY <1>7, <2>1 DEF Work
  <2>3. passed.todo # <<>>
    <3>1. now \in Nat
      BY DEF Nows
    <3>2. \E i \in DOMAIN CommitLines(w, now) : CommitLines(w, now)[i] = Budget(w, now)
      BY <3>1, CommitCharges
    <3> QED BY <3>2 DEF Work
  <2> HIDE DEF passed
  <2>4. job'[p] = passed /\ pc'[p] = "write"
    BY <1>6, <2>2, <2>3
  <2> QED BY <1>2, <2>2, <2>4 DEF Begins, Charges, passed
<1> QED BY <1>5, <1>8, <1>9, <1>10 DEF Handler

\* A step of a section, and its end, change no more of its job than what it acts on.
LEMMA SectionJobs ==
    ASSUME NEW p \in Procs, Section(p) \/ IoError(p) \/ Kill(p)
    PROVE  \/ job' = job \/ job' = [job EXCEPT ![p] = NoJob]
           \/ \E act : job' = [job EXCEPT ![p].act = act]
<1>1. CASE WriteState(p)
  BY <1>1 DEF WriteState
<1>2. CASE SyncState(p)
  BY <1>2 DEF SyncState
<1>3. CASE WriteAudit(p) \/ SyncAudit(p) \/ WriteHwm(p)
  BY <1>3 DEF WriteAudit, SyncAudit, WriteHwm
<1>4. CASE SyncHwm(p)
  BY <1>4 DEF SyncHwm, Return
<1>5. CASE Compact(p) \/ IoError(p) \/ Kill(p)
  BY <1>5 DEF Compact, IoError, Kill, Return, Leave
<1>6. CASE RepairAudit(p)
  BY <1>6 DEF RepairAudit, Leave
<1> QED BY <1>1, <1>2, <1>3, <1>4, <1>5, <1>6 DEF Section

\* Whatever else is done, a section stays as it is or takes one of its own steps.
LEMMA CountedSteps ==
    ASSUME RecordsInv, TypeOK', [Next]_vars, NEW q \in Procs, Counted(q)'
    PROVE  Begins(q) \/ (Counted(q) /\ (Stands(q) \/ Proceeds(q)))
<1>1. /\ TypeOK /\ pc \in [Procs -> Place] /\ job \in [Procs -> JobType] /\ clock \in Nat
  BY RecordTypes
<1>2. ~Counted(q) => job[q].op \notin {"commit", "challenge"}
  BY DEF Counted
<1>3. job'[q] # NoJob /\ job'[q].op \in {"commit", "challenge"}
  BY DEF Counted, NoJob, Work
<1>4. ASSUME NEW p \in Procs, Handler(p) PROVE Begins(q)
  BY <1>4, HandlerCounts
<1>5. Counted(q) => lock = q /\ q # NoProc
  BY CountedAlone, LedgerConstants
<1>6. ASSUME NEW p \in Procs, Lifecycle(p) PROVE Counted(q) /\ Stands(q)
  <2>1. CASE Open(p) \/ Exit(p)
    <3>1. /\ UNCHANGED <<db, dbSync, done, clock, job>> /\ pc[p] \in {"down", "idle"}
          /\ \A r \in Procs : r # p => pc'[r] = pc[r]
      BY <1>1, <2>1 DEF Open, Exit, CanEnterDown
    <3>2. Counted(q)
      BY <1>3, <3>1 DEF Counted
    <3>3. q # p
      BY <3>1, <3>2, CountedAlone
    <3> QED BY <1>1, <3>1, <3>2, <3>3 DEF Stands
  <2>2. CASE OpenRecover(p) \/ RepairState(p)
    <3>1. lock = NoProc /\ (job'[q] = job[q] \/ job'[q].op \in {"open", "repair"})
      BY <1>1, <2>2 DEF OpenRecover, RepairState, CanEnterDown, Start, Work
    <3>2. Counted(q)
      BY <1>3, <3>1 DEF Counted
    <3> QED BY <1>5, <3>1, <3>2
  <2> QED BY <1>6, <2>1, <2>2 DEF Lifecycle
<1>7. ASSUME NEW p \in Procs, Section(p) PROVE Counted(q) /\ (Stands(q) \/ Proceeds(q))
  <2>1. InSection(p)
    BY <1>7 DEF Section, WriteState, SyncState, WriteAudit, SyncAudit, WriteHwm, SyncHwm, Compact,
                RepairAudit, InSection
  <2>2. \A r \in Procs : r # p => job'[r] = job[r]
    BY <1>1, <1>7, SectionJobs
  <2>3. job'[p].op = job[p].op \/ job'[p] = NoJob
    BY <1>1, <1>7, SectionJobs DEF JobType
  <2>4. Counted(q)
    BY <1>3, <2>2, <2>3 DEF Counted
  <2>5. lock = p
    BY <2>1 DEF RecordsInv, CacheInv, Coherent
  <2>6. q = p
    BY <1>5, <2>4, <2>5
  <2>7. CASE WriteAudit(p) \/ SyncAudit(p)
    BY <1>1, <2>4, <2>6, <2>7 DEF WriteAudit, SyncAudit, Stands, Midway
  <2>8. CASE RepairAudit(p)
    <3>1. pc[p] = "cut"
      BY <2>8 DEF RepairAudit
    <3>2. pc[q] \in {"write"} \cup Sure(q) \cup Loose(q)
      BY <2>4 DEF RecordsInv, RecordJob
    <3> QED BY <2>6, <3>1, <3>2 DEF Sure, Loose, Midway
  <2>9. CASE Compact(p)
    BY <1>1, <1>3, <2>6, <2>9 DEF Compact, Return
  <2> QED BY <1>7, <2>4, <2>6, <2>7, <2>8, <2>9 DEF Section, Proceeds
<1>8. ASSUME NEW p \in Procs, IoError(p) \/ Kill(p) PROVE Counted(q) /\ Stands(q)
  <2>1. job' = [job EXCEPT ![p] = NoJob]
    BY <1>8 DEF IoError, Kill, Leave
  <2>2. q # p /\ Counted(q)
    BY <1>1, <1>3, <2>1 DEF Counted
  <2>3. CASE IoError(p)
    <3>1. InSection(p)
      BY <2>3 DEF IoError, InSection
    <3>2. lock = p
      BY <3>1 DEF RecordsInv, CacheInv, Coherent
    <3> QED BY <1>5, <2>2, <3>2
  <2>4. CASE Kill(p)
    BY <1>1, <2>1, <2>2, <2>4 DEF Kill, Stands
  <2> QED BY <1>8, <2>3, <2>4
<1>9. CASE PowerFailure
  BY <1>3, <1>9 DEF PowerFailure
<1>10. CASE Tick \/ UNCHANGED vars
  BY <1>1, <1>10 DEF Tick, vars, Stands, Counted
<1> QED BY <1>4, <1>6, <1>7, <1>8, <1>9, <1>10 DEF Next

-----------------------------------------------------------------------------
LEMMA BegunRecord ==
    ASSUME RecordsInv, TypeOK', [Next]_vars, NEW p \in Procs, Begins(p)
    PROVE  RecordJob(p)'
<1>1. /\ clock \in Nat /\ clock' = clock /\ pc'[p] = "write"
      /\ \A now \in Nows : now \in Nat /\ now <= clock
  BY RecordTypes DEF Begins, Nows
<1>2. CASE Issues(p)
  <2>1. PICK a \in Principals, now \in Nows :
               job'[p] = Work("challenge", db.lines, <<Challenge(a, now)>>, "challenge",
                              [challenged |-> a], now)
    BY <1>2 DEF Issues
  <2> DEFINE e == [op |-> "challenge", ref |-> [challenged |-> a], now |-> now]
  <2>2. Entry(p)' = e /\ job'[p].now <= clock' /\ job'[p].todo = <<Challenge(a, now)>>
        /\ job'[p].op = "challenge"
    BY <1>1, <2>1 DEF Entry, Work
  <2>3. Proper(e) /\ RecordOf(e) = Challenge(a, now)
    BY <1>1 DEF Proper, RecordOf
  <2>4. 1 \in DOMAIN job'[p].todo /\ job'[p].todo[1] = Challenge(a, now)
    BY <2>2
  <2> HIDE DEF e
  <2>5. Proper(Entry(p))' /\ \E i \in DOMAIN job'[p].todo : job'[p].todo[i] = RecordOf(Entry(p))'
    <3>1. Proper(Entry(p))' /\ RecordOf(Entry(p))' = Challenge(a, now)
      BY <2>2, <2>3 DEF Proper, RecordOf
    <3> QED BY <2>4, <3>1
  <2> QED BY <1>1, <2>2, <2>5 DEF RecordJob, Sure, Loose, Midway
<1>3. CASE Charges(p)
  <2>1. PICK w \in Writes, now \in Nows :
               job'[p] = Work("commit", db.lines, CommitLines(w, now), "allow", w, now)
    BY <1>3 DEF Charges
  <2> DEFINE e == [op |-> "commit", ref |-> w, now |-> now]
  <2>2. Entry(p)' = e /\ job'[p].now <= clock' /\ job'[p].todo = CommitLines(w, now)
        /\ job'[p].op = "commit"
    BY <1>1, <2>1 DEF Entry, Work
  <2>3. Proper(e) /\ RecordOf(e) = Budget(w, now)
    BY <1>1 DEF Proper, RecordOf
  <2>4. \E i \in DOMAIN job'[p].todo : job'[p].todo[i] = Budget(w, now)
    BY <1>1, <2>2, CommitCharges
  <2> HIDE DEF e
  <2>5. Proper(Entry(p))' /\ \E i \in DOMAIN job'[p].todo : job'[p].todo[i] = RecordOf(Entry(p))'
    <3>1. Proper(Entry(p))' /\ RecordOf(Entry(p))' = Budget(w, now)
      BY <2>2, <2>3 DEF Proper, RecordOf
    <3> QED BY <2>4, <3>1
  <2> QED BY <1>1, <2>2, <2>5 DEF RecordJob, Sure, Loose, Midway
<1> QED BY <1>2, <1>3 DEF Begins

LEMMA StandingRecord ==
    ASSUME RecordsInv, TypeOK', [Next]_vars, NEW p \in Procs, Counted(p), Stands(p)
    PROVE  RecordJob(p)'
<1>1. /\ clock \in Nat /\ job[p] \in JobType /\ clock' \in Nat /\ clock' >= clock
  BY RecordTypes DEF Stands, TypeOK
<1>2. PICK e : e = Entry(p) /\ e = Entry(p)'
  BY DEF Stands, Entry
<1>3. /\ Proper(e) /\ job'[p] = job[p] /\ Counted(p)' /\ pc[p] \in {"write"} \cup Sure(p) \cup Loose(p)
      /\ Sure(p)' = Sure(p) /\ Loose(p)' = Loose(p)
      /\ UNCHANGED <<db, dbSync, done>>
  BY <1>2 DEF RecordsInv, RecordJob, Stands, Counted, Sure, Loose
<1>4. /\ pc'[p] = "write" <=> pc[p] = "write"
      /\ pc'[p] \in Sure(p) <=> pc[p] \in Sure(p)
      /\ pc'[p] \in Loose(p) <=> pc[p] \in Loose(p)
  BY DEF Stands, Midway, Sure, Loose
<1>5. job'[p].now <= clock'
  <2>1. job[p].now \in Nat /\ job[p].now <= clock
    BY <1>1 DEF RecordsInv, RecordJob, JobType
  <2> QED BY <1>1, <1>3, <2>1
<1>6. pc[p] = "write" => \E i \in DOMAIN job[p].todo : job[p].todo[i] = RecordOf(e)
  BY <1>2 DEF RecordsInv, RecordJob
<1>7. pc[p] \in Loose(p) => \E g \in (dbSync + 1)..Len(db.lines) : db.lines[g] = RecordOf(e)
  BY <1>2 DEF RecordsInv, RecordJob
<1>8. ASSUME pc[p] \in Sure(p) PROVE Recorded(Append(done, e), db'.lines, dbSync', clock')
  BY <1>2, <1>8, SureStays
<1>9. Proper(Entry(p))' /\ RecordOf(Entry(p))' = RecordOf(e) /\ Append(done, Entry(p))' = Append(done, e)
  BY <1>2, <1>3 DEF Proper, RecordOf
<1>10. Recorded(Append(done, Entry(p)), db.lines, dbSync, clock)' <=>
           Recorded(Append(done, e), db'.lines, dbSync', clock')
  BY <1>9 DEF Recorded, Finds, Live, RecordOf, Challenge, Budget, Life
<1> QED BY <1>3, <1>4, <1>5, <1>6, <1>7, <1>8, <1>9, <1>10 DEF RecordJob

\* No section goes by a time that is yet to come.
LEMMA JobIsPast ==
    ASSUME RecordsInv, TypeOK', [Next]_vars, NEW q \in Procs
    PROVE  job'[q].now <= clock'
<1>1. /\ TypeInv /\ clock \in Nat /\ clock' \in Nat /\ job \in [Procs -> JobType]
      /\ pc \in [Procs -> Place]
      /\ \A r \in Procs : job[r].now \in Nat /\ job[r].now <= clock
      /\ \A now \in Nows : now \in Nat /\ now <= clock
  <2>1. /\ TypeInv /\ clock \in Nat /\ job \in [Procs -> JobType] /\ pc \in [Procs -> Place]
    BY RecordTypes
  <2>2. clock' \in Nat
    BY DEF TypeOK
  <2>3. \A r \in Procs : job[r].now \in Nat
    BY <2>1 DEF JobType
  <2>4. \A r \in Procs : job[r].now <= clock
    BY DEF RecordsInv, RecordJob
  <2>5. \A now \in Nows : now \in Nat /\ now <= clock
    BY <2>1 DEF Nows
  <2> QED BY <2>1, <2>2, <2>3, <2>4, <2>5
<1>2. clock' >= clock
  BY <1>1, StepLasts
<1>3. ASSUME job'[q].now = job[q].now \/ job'[q].now = 0 \/ job'[q].now = clock
             \/ \E now \in Nows : job'[q].now = now
      PROVE  job'[q].now <= clock'
  BY <1>1, <1>2, <1>3
<1>4. ASSUME NEW p \in Procs, Handler(p) PROVE job'[q].now <= clock'
  <2>1. CASE Snapshot(p)
    BY <1>3, <2>1 DEF Snapshot
  <2>2. ASSUME NEW work, Enter(p, work), \E now \in Nows : work.now = now
        PROVE  job'[q].now <= clock'
    <3>1. job' = [job EXCEPT ![p] = work]
      BY <2>2 DEF Enter, Start
    <3>2. job'[q] = job[q] \/ job'[q] = work
      BY <1>1, <3>1
    <3> QED BY <1>3, <2>2, <3>2
  <2>3. CASE AppendAudit(p)
    <3>1. PICK now \in Nows : Enter(p, Work("audit", View(p), <<>>, "event", NoRef, now))
      BY <2>3 DEF AppendAudit
    <3> QED BY <2>2, <3>1 DEF Work
  <2>4. ASSUME NEW a \in Principals, NEW now \in Nows, RecordChallenge(p, a, now)
        PROVE  job'[q].now <= clock'
    <3>1. \/ Enter(p, Work("audit", View(p), <<>>, "deny", NoRef, now))
          \/ Enter(p, Work("challenge", View(p), <<Challenge(a, now)>>, "challenge",
                           [challenged |-> a], now))
      BY <2>4 DEF RecordChallenge
    <3> QED BY <2>2, <3>1 DEF Work
  <2>5. ASSUME NEW w \in Writes, NEW now \in Nows, CommitWrite(p, w, now)
        PROVE  job'[q].now <= clock'
    <3>1. \/ Enter(p, Work("audit", View(p), <<>>, "deny", NoRef, now))
          \/ Enter(p, Work("commit", View(p), CommitLines(w, now), "allow", w, now))
      BY <2>5 DEF CommitWrite
    <3> QED BY <2>2, <3>1 DEF Work
  <2>6. ASSUME NEW s \in Subjects, NEW e \in Entitlements, RevokeGrant(p, s, e)
        PROVE  job'[q].now <= clock'
    <3>1. PICK now \in Nows : Enter(p, Work("revoke", View(p), <<Revoke(s, e)>>, "revoked",
                                            [subject |-> s, entitlement |-> e], now))
      BY <2>6 DEF RevokeGrant
    <3> QED BY <2>2, <3>1 DEF Work
  <2> QED BY <1>4, <2>1, <2>3, <2>4, <2>5, <2>6 DEF Handler
<1>5. ASSUME NEW p \in Procs, Lifecycle(p) PROVE job'[q].now <= clock'
  <2>1. job'[q].now = job[q].now \/ job'[q].now = clock
    BY <1>1, <1>5 DEF Lifecycle, Open, OpenRecover, Exit, RepairState, Start, Work
  <2> QED BY <1>3, <2>1
<1>6. ASSUME NEW p \in Procs, Section(p) \/ IoError(p) \/ Kill(p) PROVE job'[q].now <= clock'
  <2>1. job'[q].now = job[q].now \/ job'[q].now = 0
    <3>1. \/ job' = job \/ job' = [job EXCEPT ![p] = NoJob]
          \/ \E act : job' = [job EXCEPT ![p].act = act]
      BY <1>6, SectionJobs
    <3> QED BY <1>1, <3>1 DEF NoJob, Work, JobType
  <2> QED BY <1>3, <2>1
<1>7. CASE PowerFailure \/ Tick \/ UNCHANGED vars
  <2>1. job'[q].now = job[q].now \/ job'[q].now = 0
    BY <1>7 DEF PowerFailure, Tick, vars, NoJob, Work
  <2> QED BY <1>3, <2>1
<1> QED BY <1>4, <1>5, <1>6, <1>7 DEF Next

\* A section that counts goes on with the request it was let through with.
LEMMA SectionKeeps ==
    ASSUME RecordsInv, [Next]_vars, NEW p \in Procs, Counted(p)', Stands(p) \/ Proceeds(p)
    PROVE  /\ job'[p].op = job[p].op /\ job'[p].ref = job[p].ref /\ job'[p].now = job[p].now
           /\ UNCHANGED done /\ (Proceeds(p) => UNCHANGED clock)
<1>1. job \in [Procs -> JobType]
  BY RecordTypes
<1>2. CASE Stands(p) /\ ~Proceeds(p)
  BY <1>2 DEF Stands
<1>3. CASE Proceeds(p)
  <2>1. job' = job \/ \E act : job' = [job EXCEPT ![p].act = act]
    <3>1. job' # [job EXCEPT ![p] = NoJob]
      BY <1>1 DEF Counted, NoJob, Work
    <3> QED BY <1>3, <3>1, SectionJobs DEF Proceeds, Section
  <2>2. ~Return(p)
    BY <1>1 DEF Return, Counted, NoJob, Work
  <2>3. UNCHANGED <<clock, done>>
    BY <1>3, <2>2 DEF Proceeds, WriteState, SyncState, WriteHwm, SyncHwm
  <2> QED BY <1>1, <2>1, <2>3 DEF JobType
<1> QED BY <1>2, <1>3

LEMMA ProceedingRecord ==
    ASSUME RecordsInv, TypeOK', [Next]_vars, NEW p \in Procs, Counted(p), Counted(p)', Proceeds(p)
    PROVE  RecordJob(p)'
<1>1. /\ clock \in Nat /\ pc \in [Procs -> Place] /\ job \in [Procs -> JobType]
      /\ db \in [ino: Nat \ {0}, lines: Seq(StateLine)]
      /\ db.lines \in Lines /\ Len(db.lines) \in Nat /\ dbSync \in 0..Len(db.lines)
      /\ dbSync \in Nat /\ TypeInv
  BY RecordTypes
<1>2. /\ job'[p].op = job[p].op /\ job'[p].ref = job[p].ref /\ job'[p].now = job[p].now
      /\ UNCHANGED <<clock, done>>
  BY SectionKeeps
<1>3. PICK e : e = Entry(p) /\ e = Entry(p)'
  BY <1>2 DEF Entry
<1>4. /\ Proper(e) /\ Sure(p)' = Sure(p) /\ Loose(p)' = Loose(p) /\ job'[p].now <= clock'
      /\ pc[p] \in {"write"} \cup Sure(p) \cup Loose(p)
  BY <1>2, <1>3 DEF RecordsInv, RecordJob, Sure, Loose
<1> DEFINE Behind == \E g \in (dbSync' + 1)..Len(db'.lines) : db'.lines[g] = RecordOf(e)
           OnDisk == Recorded(Append(done, e), db'.lines, dbSync', clock')
<1>5. ASSUME \/ pc[p] \in Sure(p)
             \/ pc[p] \in Loose(p) /\ UNCHANGED db /\ dbSync' = Len(db.lines)
      PROVE  OnDisk
  BY <1>2, <1>3, <1>5, SureStays
<1>6. \/ pc'[p] \in Loose(p) /\ pc'[p] \notin Sure(p) /\ pc'[p] # "write" /\ Behind
      \/ pc'[p] \in Sure(p) /\ pc'[p] \notin Loose(p) /\ pc'[p] # "write" /\ OnDisk
  <2>1. CASE WriteState(p)
    <3>1. /\ pc[p] = "write" /\ db'.lines = db.lines \o job[p].todo /\ UNCHANGED dbSync
          /\ pc'[p] = IF job[p].op \in {"commit", "open"} THEN "wsync" ELSE "audit"
      BY <1>1, <2>1 DEF WriteState
    <3>2. PICK i \in DOMAIN job[p].todo : job[p].todo[i] = RecordOf(e)
      BY <1>3, <3>1 DEF RecordsInv, RecordJob
    <3> DEFINE x == job[p].todo
    <3>3. x \in Lines /\ i \in 1..Len(x) /\ Len(x) \in Nat
      BY <1>1, <3>2 DEF JobType, Lines
    <3> HIDE DEF x
    <3>4. /\ Len(db.lines \o x) = Len(db.lines) + Len(x)
          /\ \A k \in 1..(Len(db.lines) + Len(x)) :
                (db.lines \o x)[k] = IF k <= Len(db.lines) THEN db.lines[k] ELSE x[k - Len(db.lines)]
      BY <1>1, <3>3, ConcatAt
    <3> DEFINE g == Len(db.lines) + i
    <3>5. /\ g \in 1..(Len(db.lines) + Len(x)) /\ ~(g <= Len(db.lines)) /\ g - Len(db.lines) = i
          /\ g \in (dbSync + 1)..(Len(db.lines) + Len(x))
      BY <1>1, <3>3
    <3>6. (db.lines \o x)[g] = RecordOf(e)
      BY <3>2, <3>4, <3>5 DEF x
    <3>7. Behind
      BY <3>1, <3>4, <3>5, <3>6 DEF x
    <3> QED BY <3>1, <3>7 DEF Counted, Sure, Loose, Midway
  <2>2. CASE SyncState(p)
    <3>1. pc[p] = "wsync" /\ pc'[p] = "audit" /\ UNCHANGED db /\ dbSync' = Len(db.lines)
      BY <1>1, <2>2 DEF SyncState
    <3>2. job[p].op = "commit" /\ pc[p] \in Loose(p)
      BY <1>4, <3>1 DEF Counted, Sure, Loose, Midway
    <3>3. OnDisk
      BY <1>5, <3>1, <3>2
    <3> QED BY <3>1, <3>2, <3>3 DEF Sure, Loose, Midway
  <2>3. CASE WriteHwm(p)
    <3>1. /\ pc[p] = "hwm" /\ pc'[p] = "hsync" /\ UNCHANGED dbSync
          /\ db'.lines = Append(db.lines, NextHwm(p))
      BY <1>1, <2>3 DEF WriteHwm
    <3>2. CASE job[p].op = "commit"
      <4>1. OnDisk
        BY <1>5, <3>1, <3>2 DEF Sure, Midway
      <4> QED BY <3>1, <3>2, <4>1 DEF Sure, Loose, Midway
    <3>3. CASE job[p].op # "commit"
      <4>1. PICK g \in (dbSync + 1)..Len(db.lines) : db.lines[g] = RecordOf(e)
        BY <1>3, <3>1, <3>3 DEF RecordsInv, RecordJob, Loose, Midway
      <4>2. NextHwm(p) \in StateLine
        BY <1>1, <3>1, NextType DEF InSection
      <4>3. /\ Len(db'.lines) = Len(db.lines) + 1
            /\ \A k \in 1..Len(db.lines) : db'.lines[k] = db.lines[k]
        BY <1>1, <3>1, <4>2 DEF Lines
      <4>4. g \in 1..Len(db.lines) /\ g \in (dbSync' + 1)..Len(db'.lines)
        BY <1>1, <3>1, <4>1, <4>3
      <4>5. Behind
        BY <4>1, <4>3, <4>4
      <4> QED BY <3>1, <3>3, <4>5 DEF Sure, Loose, Midway
    <3> QED BY <3>2, <3>3
  <2>4. CASE SyncHwm(p)
    <3>1. pc[p] = "hsync" /\ UNCHANGED db /\ dbSync' = Len(db.lines)
      BY <2>4 DEF SyncHwm
    <3>2. pc'[p] = "compact"
      BY <1>1, <2>4 DEF SyncHwm, Return, Counted, NoJob, Work
    <3>3. OnDisk
      BY <1>5, <3>1 DEF Sure, Loose, Midway
    <3> QED BY <3>2, <3>3 DEF Sure, Loose, Midway
  <2> QED BY <2>1, <2>2, <2>3, <2>4 DEF Proceeds
<1>7. Proper(Entry(p))' /\ RecordOf(Entry(p))' = RecordOf(e) /\ Append(done, Entry(p))' = Append(done, e)
  BY <1>2, <1>3, <1>4 DEF Proper, RecordOf
<1>8. Recorded(Append(done, Entry(p)), db.lines, dbSync, clock)' <=> OnDisk
  BY <1>7 DEF Recorded, Finds, Live, RecordOf, Challenge, Budget, Life
<1> QED BY <1>4, <1>6, <1>7, <1>8 DEF RecordJob

\* Records are found on disk, whatever the processes, clocks and faults.
LEMMA RecordsStep ==
    ASSUME RecordsInv, CacheInv', [Next]_vars
    PROVE  RecordsInv'
<1>1. TypeOK' /\ clock \in Nat /\ clock' \in Nat
  BY RecordTypes DEF CacheInv, TypeInv, TypeOK
<1>2. ASSUME NEW p \in Procs PROVE RecordJob(p)'
  <2>1. CASE Counted(p)'
    BY <1>1, <2>1, CountedSteps, BegunRecord, StandingRecord, ProceedingRecord
  <2>2. CASE ~Counted(p)'
    <3>1. job'[p].now <= clock'
      BY <1>1, JobIsPast
    <3> QED BY <2>2, <3>1 DEF RecordJob
  <2> QED BY <2>1, <2>2
<1>3. (\A k \in DOMAIN done : Proper(done[k]))' /\ Recorded(done, db.lines, dbSync, clock)'
  <2>1. /\ \A k \in DOMAIN done' : Proper(done'[k])
        /\ Recorded(done', db'.lines, dbSync', clock')
    BY <1>1, HistoryKept
  <2> QED BY <2>1 DEF Proper, Recorded, Finds, Live, RecordOf, Challenge, Budget, Life
<1> QED BY <1>2, <1>3 DEF RecordsInv

-----------------------------------------------------------------------------
(* The room that a section was let through with *)

RoomJob(m, p) == job[p].op = OpOf(m) =>
    Room(m, done, Payer(Entry(p)), job[p].now, Weight(m, Entry(p)))
QuotaInv(m) == Respects(m, done) /\ \A p \in Procs : RoomJob(m, p)

\* A budget window that does not outlast a minute by the age of a request loses writes that
\* the last minute still counts.
Lasts(m) == m = "calls" => Minute + MaxStale <= BudgetWindow
QuotasInv == RecordsInv /\ \A m \in Meters : Lasts(m) => QuotaInv(m)

LEMMA BegunRoom ==
    ASSUME RecordsInv, NEW p \in Procs, Begins(p),
           NEW m \in Meters, m = "calls" => Minute + MaxStale <= BudgetWindow
    PROVE  RoomJob(m, p)'
<1>1. /\ done \in History /\ db.lines \in Lines /\ dbSync \in 0..Len(db.lines) /\ clock \in Nat
      /\ \A k \in DOMAIN done : Proper(done[k])
      /\ Recorded(done, db.lines, dbSync, clock)
  BY RecordTypes DEF RecordsInv
<1>2. \A now \in Nows : now \in Nat /\ now <= clock /\ now + MaxStale >= clock
  BY <1>1, LedgerConstants DEF Nows
<1>3. done' = done
  BY DEF Begins
<1>4. SUFFICES ASSUME NEW e, e = Entry(p)', e.op = OpOf(m)
               PROVE  Room(m, done, Payer(e), e.now, Weight(m, e))
  <2>1. PICK e : e = Entry(p)'
    OBVIOUS
  <2>2. e.op = job'[p].op /\ e.now = job'[p].now
    BY <2>1 DEF Entry
  <2>3. job'[p].op = OpOf(m) => Room(m, done', Payer(e), job'[p].now, Weight(m, e))
    BY <1>3, <2>1, <2>2
  <2> QED BY <2>1, <2>3 DEF RoomJob, Room, Used, Units, Around, Weight, Payer, OpOf, Most, Width
<1>5. CASE Issues(p)
  <2>1. PICK a \in Principals, now \in Nows :
            /\ ~(MaxChallenges > 0 /\
                   Cardinality(InWindow(db.lines, "challenge", a, now, Minute)) >= MaxChallenges)
            /\ job'[p] = Work("challenge", db.lines, <<Challenge(a, now)>>, "challenge",
                              [challenged |-> a], now)
    BY <1>5 DEF Issues
  <2>2. e = [op |-> "challenge", ref |-> [challenged |-> a], now |-> now]
    BY <1>4, <2>1 DEF Entry, Work
  <2>3. m = "challenges" /\ Payer(e) = a /\ e.now = now /\ Weight(m, e) = 1
    BY <1>4, <2>2 DEF Meters, OpOf, Payer, Weight
  <2>4. Room("challenges", done, a, now, 1)
    BY <1>1, <1>2, <2>1, ChallengeRoom
  <2> QED BY <2>3, <2>4
<1>6. CASE Charges(p)
  <2>1. PICK w \in Writes, now \in Nows :
            /\ ~OverBudget(db.lines, w, now)
            /\ job'[p] = Work("commit", db.lines, CommitLines(w, now), "allow", w, now)
    BY <1>6 DEF Charges
  <2>2. e = [op |-> "commit", ref |-> w, now |-> now]
    BY <1>4, <2>1 DEF Entry, Work
  <2>3. /\ m \in {"calls", "targets"} /\ Payer(e) = w.principal /\ e.now = now
        /\ Weight(m, e) = IF m = "targets" THEN w.targets ELSE 1
    BY <1>4, <2>2 DEF Meters, OpOf, Payer, Weight
  <2>4. /\ Minute + MaxStale <= BudgetWindow => Room("calls", done, w.principal, now, 1)
        /\ Room("targets", done, w.principal, now, w.targets)
    BY <1>1, <1>2, <2>1, CommitRoom
  <2> QED BY <2>3, <2>4
<1> QED BY <1>5, <1>6 DEF Begins

\* The room of a section stays: no other returns while it holds the lock.
LEMMA RoomStays ==
    ASSUME RecordsInv, TypeOK', [Next]_vars, NEW m \in Meters, QuotaInv(m), NEW q \in Procs,
           Counted(q), Stands(q) \/ Proceeds(q), Counted(q)'
    PROVE  RoomJob(m, q)'
<1>1. /\ job'[q].op = job[q].op /\ job'[q].ref = job[q].ref /\ job'[q].now = job[q].now
      /\ UNCHANGED done
  BY SectionKeeps
<1>2. PICK e : e = Entry(q) /\ e = Entry(q)'
  BY <1>1 DEF Entry
<1>3. job'[q].op = OpOf(m) => Room(m, done', Payer(e), job'[q].now, Weight(m, e))
  BY <1>1, <1>2 DEF QuotaInv, RoomJob
<1> QED BY <1>2, <1>3 DEF RoomJob, Room, Used, Units, Around, Weight, Payer, OpOf, Most, Width

LEMMA QuotaStep ==
    ASSUME RecordsInv, TypeOK', [Next]_vars,
           NEW m \in Meters, m = "calls" => Minute + MaxStale <= BudgetWindow, QuotaInv(m)
    PROVE  QuotaInv(m)'
<1>1. ASSUME NEW p \in Procs PROVE RoomJob(m, p)'
  <2>1. CASE Counted(p)'
    BY <2>1, CountedSteps, BegunRoom, RoomStays
  <2>2. CASE ~Counted(p)'
    BY <2>2 DEF RoomJob, Counted, OpOf, Meters
  <2> QED BY <2>1, <2>2
<1>2. Respects(m, done')
  <2>1. CASE UNCHANGED done
    BY <2>1 DEF QuotaInv
  <2>2. ASSUME NEW p \in Procs, Counted(p), done' = Append(done, Entry(p))
        PROVE  Respects(m, done')
    <3> DEFINE e == Entry(p)
    <3>1. done \in History /\ job \in [Procs -> JobType] /\ \A k \in DOMAIN done : Proper(done[k])
      BY RecordTypes DEF RecordsInv
    <3>2. Proper(e) /\ e \in [op: {"commit", "challenge"}, ref: Ref, now: Nat]
      BY <2>2, <3>1 DEF RecordsInv, RecordJob, Entry, Counted, JobType
    <3>3. e.op = OpOf(m) => Room(m, done, Payer(e), e.now, Weight(m, e))
      BY DEF QuotaInv, RoomJob, Entry
    <3> HIDE DEF e
    <3>4. Respects(m, Append(done, e))
      BY <3>1, <3>2, <3>3, QuotaGrows DEF QuotaInv
    <3> QED BY <2>2, <3>4 DEF e
  <2> QED BY <2>1, <2>2, DoneGrows, RecordTypes
<1>3. Respects(m, done)'
  BY <1>2 DEF Respects, Used, Units, Around, Weight, Payer, OpOf, Most, Width, Exceeds
<1> QED BY <1>1, <1>3 DEF QuotaInv

\* What was let through is on disk as long as it counts, and each section that counts has
\* the room it was let through with: the invariant behind the theorems below.
THEOREM LedgerQuotasInv ==
    ASSUME ~ReuseInodes, "challenge" \notin Ops \/ "io" \notin Faults
    PROVE  Spec => []QuotasInv
<1>1. Init => QuotasInv
  <2> SUFFICES ASSUME Init PROVE QuotasInv
    OBVIOUS
  <2>1. CacheInv
    BY CacheInit
  <2>2. done = <<>> /\ clock = 0 /\ \A p \in Procs : job[p] = NoJob
    BY DEF Init
  <2>3. DOMAIN done = {} /\ \A D : DOMAIN D = {} => Live(D, clock) = {}
    BY <2>2 DEF Live
  <2>4. Recorded(done, db.lines, dbSync, clock)
    BY <2>3 DEF Recorded, Finds
  <2>5. \A p \in Procs : job[p].now <= clock /\ ~Counted(p)
    BY <2>2 DEF NoJob, Work, Counted
  <2>6. \A m \in Meters : \A p \in Procs : RoomJob(m, p)
    BY <2>5 DEF RoomJob, Counted, OpOf
  <2> QED BY <2>1, <2>3, <2>4, <2>5, <2>6 DEF QuotasInv, RecordsInv, RecordJob, QuotaInv, Respects
<1>2. QuotasInv /\ [Next]_vars => QuotasInv'
  <2> SUFFICES ASSUME QuotasInv, [Next]_vars PROVE QuotasInv'
    OBVIOUS
  <2>1. RecordsInv /\ \A m \in Meters : Lasts(m) => QuotaInv(m)
    BY DEF QuotasInv
  <2>2. CacheInv'
    BY <2>1, CacheStep DEF RecordsInv
  <2>3. TypeOK'
    BY <2>2 DEF CacheInv, TypeInv
  <2>4. RecordsInv'
    BY <2>1, <2>2, RecordsStep
  <2>5. ASSUME NEW m \in Meters, Lasts(m) PROVE QuotaInv(m)'
    BY <2>1, <2>3, <2>5, QuotaStep DEF Lasts
  <2>6. (\A m \in Meters : Lasts(m) => QuotaInv(m))'
    BY <2>5 DEF Lasts
  <2> QED BY <2>4, <2>6 DEF QuotasInv
<1> QED BY <1>1, <1>2, PTL DEF Spec

\* ChallengeLimit of run LedgerTime, for every limit, every number of processes and every
\* fault: the challenges that RecordChallenge counts on disk are all those handed out.
THEOREM LedgerChallengeLimit ==
    ASSUME ~ReuseInodes, "challenge" \notin Ops \/ "io" \notin Faults
    PROVE  Spec => []ChallengeLimit
<1>1. QuotasInv => ChallengeLimit
  <2> SUFFICES ASSUME RecordsInv, QuotaInv("challenges"),
                      NEW i \in DOMAIN done, done[i].op = "challenge"
               PROVE  ~Exceeds(Cardinality({k \in DOMAIN done :
                                               /\ done[k].op = "challenge"
                                               /\ done[k].ref = done[i].ref
                                               /\ Within(i, k, Minute - MaxStale)}),
                               MaxChallenges)
    BY DEF ChallengeLimit, QuotasInv, Meters, Lasts
  <2>1. /\ done \in History /\ \A k \in DOMAIN done : Proper(done[k])
    BY RecordTypes DEF RecordsInv
  <2> DEFINE S == {k \in DOMAIN done : /\ done[k].op = "challenge"
                                       /\ done[k].ref = done[i].ref
                                       /\ Within(i, k, Minute - MaxStale)}
             A == Around("challenges", done, Payer(done[i]), done[i].now)
             u == [k \in DOMAIN done |-> Weight("challenges", done[k])]
  <2>2. ASSUME NEW k \in DOMAIN done, done[k].op = "challenge"
        PROVE  done[k].ref = done[i].ref <=> Payer(done[k]) = Payer(done[i])
    <3>1. PICK a \in Principals : done[i].ref = [challenged |-> a]
      BY <2>1 DEF Proper
    <3>2. PICK b \in Principals : done[k].ref = [challenged |-> b]
      BY <2>1, <2>2 DEF Proper
    <3> QED BY <2>2, <3>1, <3>2 DEF Payer
  <2>3. S = A
    BY <2>2 DEF Around, Within, OpOf, Width
  <2>4. \A k \in A : u[k] = 1
    BY DEF Weight, Around
  <2>5. IsFiniteSet(A)
    BY <2>1, AroundFinite
  <2>6. Used("challenges", done, Payer(done[i]), done[i].now) = Units(A, u)
    BY DEF Used
  <2> HIDE DEF S, A, u
  <2>7. Cardinality(Units(A, u)) = Cardinality(S)
    BY <2>3, <2>4, <2>5, UnitsOfOne
  <2>8. ~Exceeds(Cardinality(Units(A, u)), MaxChallenges)
    BY <2>6 DEF QuotaInv, Respects, OpOf, Most
  <2> QED BY <2>7, <2>8 DEF S
<1> QED BY <1>1, LedgerQuotasInv, PTL

\* BudgetRespected of run LedgerTime, for every budget.  That the budget window outlasts
\* a minute by the age of a request is what its first part rests on: a shorter window
\* lets a compaction drop a write that the last minute still counts.
THEOREM LedgerBudgetRespected ==
    ASSUME ~ReuseInodes, "challenge" \notin Ops \/ "io" \notin Faults,
           Minute + MaxStale <= BudgetWindow
    PROVE  Spec => []BudgetRespected
<1>1. QuotasInv => BudgetRespected
  <2> SUFFICES ASSUME RecordsInv, QuotaInv("calls"), QuotaInv("targets"), NEW i \in Commits
               PROVE  /\ ~Exceeds(Cardinality(CommitsBefore(i, Minute)), MaxCalls)
                      /\ ~Exceeds(TargetsOf(CommitsBefore(i, BudgetWindow - MaxStale)), MaxTargets)
    BY DEF BudgetRespected, QuotasInv, Meters, Lasts
  <2>1. /\ done \in History /\ \A k \in DOMAIN done : Proper(done[k])
        /\ i \in DOMAIN done /\ done[i].op = "commit"
    BY RecordTypes DEF RecordsInv, Commits
  <2> DEFINE a == Payer(done[i])
             now == done[i].now
  <2>2. /\ CommitsBefore(i, Minute) = Around("calls", done, a, now)
        /\ CommitsBefore(i, BudgetWindow - MaxStale) = Around("targets", done, a, now)
    <3>1. \A k \in Commits : Payer(done[k]) = done[k].ref.principal
      BY DEF Commits, Payer
    <3> QED BY <2>1, <3>1 DEF CommitsBefore, Commits, Around, Within, OpOf, Width
  <2> HIDE DEF a, now
  <2>3. ~Exceeds(Cardinality(CommitsBefore(i, Minute)), MaxCalls)
    <3> DEFINE A == Around("calls", done, a, now)
               u == [k \in DOMAIN done |-> Weight("calls", done[k])]
    <3>1. \A k \in A : u[k] = 1
      BY DEF Weight, Around
    <3>2. IsFiniteSet(A)
      BY <2>1, AroundFinite
    <3>3. Used("calls", done, a, now) = Units(A, u)
      BY DEF Used
    <3> HIDE DEF A, u
    <3>4. Cardinality(Units(A, u)) = Cardinality(A)
      BY <3>1, <3>2, UnitsOfOne
    <3>5. ~Exceeds(Cardinality(Units(A, u)), MaxCalls)
      BY <2>1, <3>3 DEF QuotaInv, Respects, OpOf, Most, a, now
    <3> QED BY <2>2, <3>4, <3>5 DEF A
  <2>4. ~Exceeds(TargetsOf(CommitsBefore(i, BudgetWindow - MaxStale)), MaxTargets)
    <3> DEFINE A == Around("targets", done, a, now)
               u == [k \in DOMAIN done |-> Weight("targets", done[k])]
    <3>1. \A k \in A : {k} \X (1..u[k]) = {k} \X (1..done[k].ref.targets)
      BY DEF Weight, Around
    <3>2. Used("targets", done, a, now) = Units(A, u)
      BY DEF Used
    <3> HIDE DEF A, u
    <3>3. Units(A, u) = UNION {{k} \X (1..done[k].ref.targets) : k \in A}
      BY <3>1 DEF Units
    <3>4. Cardinality(Units(A, u)) = TargetsOf(A)
      BY <3>3 DEF TargetsOf
    <3>5. ~Exceeds(Cardinality(Units(A, u)), MaxTargets)
      BY <2>1, <3>2 DEF QuotaInv, Respects, OpOf, Most, a, now
    <3> QED BY <2>2, <3>4, <3>5 DEF A
  <2> QED BY <2>3, <2>4
<1> QED BY <1>1, LedgerQuotasInv, PTL
=============================================================================
