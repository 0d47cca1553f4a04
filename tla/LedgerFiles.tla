---------------------------- MODULE LedgerFiles ------------------------------
(***************************************************************************)
(* The files of the ledger: the caches show them (first part), and they    *)
(* agree with each other (second part).                                    *)
(*                                                                         *)
(* Facts about the operators Ledger.tla is built from - what the last      *)
(* audit_hwm is, which lines a commit adds and a compaction keeps - the    *)
(* type correctness of Ledger.tla, and the coherence of its caches: the    *)
(* (dev, ino, size) cache of withExclusiveLock never shows anything but    *)
(* the file, for every number of processes, crashes and I/O errors.        *)
(*                                                                         *)
(* Coherence needs two hypotheses, and TLC refutes CacheCoherent without   *)
(* either: no inode number is used again by a compaction (ReuseInodes),    *)
(* and no I/O error follows the write of a step-up challenge, after which  *)
(* the code has advanced cachedSize over a record it did not fold into     *)
(* cachedState.                                                            *)
(***************************************************************************)
EXTENDS LedgerProperties, SequenceTheorems, FiniteSetTheorems, TLAPS

HwmLine == [kind: {"hwm"}, seq: Nat, hash: Nat]
Lines == Seq(StateLine)
HasHwm(st) == \E i \in DOMAIN st : st[i].kind = "hwm"
Whole(st) == \A i \in DOMAIN st : st[i].kind # "torn"

\* A line is told apart by its kind.
LEMMA LineKinds ==
    ASSUME NEW l \in StateLine
    PROVE  /\ l.kind \in {"torn", "hwm", "replay", "budget", "challenge", "grant", "revoke"}
           /\ l.kind = "hwm" => l \in HwmLine
           /\ l.kind = "grant" => \E s \in Subjects, e \in Entitlements : l = Grant(s, e)
BY DEF StateLine, Torn, HwmLine, Grant

\* The code reads the state record by record, so its HWMSeq and HWMHash are those of
\* the last audit_hwm: there is one whenever there is any.
LEMMA LastHwm ==
    ASSUME NEW st \in Lines, HasHwm(st)
    PROVE  /\ \E i \in DOMAIN st : IsLastHwm(st, i) /\ HwmOf(st) = st[i]
           /\ HwmOf(st) \in HwmLine
<1> DEFINE Behind == {n \in Nat : \E i \in DOMAIN st : st[i].kind = "hwm" /\ n = Len(st) - i}
<1>1. Len(st) \in Nat /\ DOMAIN st = 1..Len(st)
  BY DEF Lines
<1>2. PICK i0 \in DOMAIN st : st[i0].kind = "hwm"
  BY DEF HasHwm
<1>3. Len(st) - i0 \in Behind
  BY <1>1, <1>2
<1> DEFINE Less == {ss \in Nat \X Nat : ss[1] < ss[2]}
<1>4. PICK n \in Behind : \A m \in Behind : ~ (<<m, n>> \in Less)
  <2>1. IsWellFoundedOn(Less, Nat)
    BY NatLessThanWellFounded DEF OpToRel
  <2>2. Behind \subseteq Nat /\ Behind # {}
    BY <1>3
  <2> HIDE DEF Behind, Less
  <2> QED BY <2>1, <2>2, WFMin
<1>5. \A m \in Behind : ~ (m < n)
  BY <1>4
<1>6. PICK i \in DOMAIN st : st[i].kind = "hwm" /\ n = Len(st) - i
  OBVIOUS
<1>7. IsLastHwm(st, i)
  <2> SUFFICES ASSUME NEW k \in DOMAIN st, k > i, st[k].kind = "hwm"
               PROVE  FALSE
    BY <1>6 DEF IsLastHwm
  <2>1. Len(st) - k \in Behind
    BY <1>1
  <2> QED BY <2>1, <1>1, <1>5, <1>6
<1>8. PICK h \in DOMAIN st : IsLastHwm(st, h) /\ HwmOf(st) = st[h]
  BY <1>7 DEF HwmOf
<1>9. st[h] \in StateLine
  BY <1>1 DEF Lines
<1> QED BY <1>8, <1>9, LineKinds DEF IsLastHwm

\* SetToSeq lists the members of a finite set.
LEMMA ListOf ==
    ASSUME NEW S, IsFiniteSet(S)
    PROVE  /\ SetToSeq(S) \in [1..Cardinality(S) -> S]
           /\ Cardinality(S) \in Nat
           /\ DOMAIN SetToSeq(S) = 1..Cardinality(S)
<1>1. Cardinality(S) \in Nat /\ ExistsBijection(1..Cardinality(S), S)
  BY FS_CardinalityType
<1>2. \E f \in [1..Cardinality(S) -> S] : IsInjective(f)
  BY <1>1 DEF ExistsBijection, Bijection, Injection
<1> QED BY <1>1, <1>2 DEF SetToSeq

\* SetToSeq lists every member of a finite set, once.
LEMMA ListAll ==
    ASSUME NEW S, IsFiniteSet(S)
    PROVE  /\ Cardinality(S) \in Nat
           /\ SetToSeq(S) \in [1..Cardinality(S) -> S]
           /\ \A x \in S : \E k \in 1..Cardinality(S) : SetToSeq(S)[k] = x
           /\ \A i, k \in 1..Cardinality(S) : SetToSeq(S)[i] = SetToSeq(S)[k] => i = k
<1> DEFINE n == Cardinality(S)
           f == SetToSeq(S)
<1>1. n \in Nat /\ ExistsBijection(1..n, S)
  BY FS_CardinalityType
<1>2. \E g \in [1..n -> S] : IsInjective(g)
  BY <1>1 DEF ExistsBijection, Bijection, Injection
<1>3. f \in [1..n -> S] /\ IsInjective(f)
  BY <1>2 DEF SetToSeq
<1> HIDE DEF f
<1>4. f \in Injection(1..n, S)
  BY <1>3 DEF Injection
<1>5. IsFiniteSet(1..n) /\ Cardinality(1..n) = n
  BY <1>1, FS_Interval
<1>6. f \in Surjection(1..n, S)
  BY <1>4, <1>5, FS_Injection
<1>7. \A i, k \in 1..n : f[i] = f[k] => i = k
  BY <1>3 DEF IsInjective
<1> QED BY <1>1, <1>3, <1>6, <1>7 DEF Surjection, f

\* The lines of two sequences, one behind the other.
LEMMA ConcatAt ==
    ASSUME NEW f \in Lines, NEW x \in Lines
    PROVE  /\ f \o x \in Lines /\ Len(f \o x) = Len(f) + Len(x)
           /\ Len(f) \in Nat /\ Len(x) \in Nat
           /\ \A i \in 1..(Len(f) + Len(x)) :
                 (f \o x)[i] = IF i <= Len(f) THEN f[i] ELSE x[i - Len(f)]
BY ConcatProperties DEF Lines

\* The lines a commit buffers: state records, and no grants but the requested ones.
LEMMA CommitAdds ==
    ASSUME NEW w \in Writes, NEW now \in Nat
    PROVE  /\ CommitLines(w, now) \in Lines
           /\ Whole(CommitLines(w, now))
           /\ \A i \in DOMAIN CommitLines(w, now) :
                 CommitLines(w, now)[i].kind \in {"budget", "replay", "grant"}
           /\ \A i \in DOMAIN CommitLines(w, now) :
                 CommitLines(w, now)[i].kind = "grant" =>
                     \E s \in w.subjects, e \in w.entitlements :
                         CommitLines(w, now)[i] = Grant(s, e)
<1> DEFINE bound == SetToSeq(w.subjects \X w.entitlements)
           grants == [i \in DOMAIN bound |-> Grant(bound[i][1], bound[i][2])]
           used == IF w.token = NoToken THEN <<>> ELSE <<Replay(w.token)>>
           Pairs == {Grant(s, e) : s \in w.subjects, e \in w.entitlements}
<1>1. /\ w.principal \in Principals /\ w.targets \in Nat
      /\ w.subjects \in SUBSET Subjects /\ w.entitlements \in SUBSET Entitlements
      /\ w.token \in Tokens \cup {NoToken}
  BY LedgerConstants DEF WriteCall
<1>2. IsFiniteSet(w.subjects \X w.entitlements)
  BY <1>1, LedgerConstants, FS_Subset, FS_Product
<1>3. /\ bound \in [1..Cardinality(w.subjects \X w.entitlements)
                        -> w.subjects \X w.entitlements]
      /\ Cardinality(w.subjects \X w.entitlements) \in Nat
  BY <1>2, ListOf
<1>4. grants \in Seq(Pairs) /\ Pairs \subseteq StateLine
  <2>1. \A i \in DOMAIN bound : grants[i] \in Pairs
    BY <1>3
  <2>2. Pairs \subseteq StateLine
    BY <1>1 DEF Grant, StateLine
  <2> DEFINE n == Cardinality(w.subjects \X w.entitlements)
  <2>3. DOMAIN bound = 1..n
    BY <1>3
  <2> HIDE DEF Pairs, bound, n
  <2>4. grants \in [1..n -> Pairs]
    BY <2>1, <2>3
  <2> HIDE DEF grants
  <2>5. n \in Nat
    BY <1>3 DEF n
  <2> QED BY <2>2, <2>4, <2>5, SeqDef
<1>5. Budget(w, now) \in StateLine /\ Budget(w, now).kind = "budget"
  BY <1>1, LedgerConstants DEF Budget, StateLine
<1>6. used \in Lines /\ \A i \in DOMAIN used : used[i].kind = "replay"
  <2>1. CASE w.token = NoToken
    BY <2>1 DEF Lines
  <2>2. CASE w.token # NoToken
    <3>1. Replay(w.token) \in StateLine /\ Replay(w.token).kind = "replay"
      BY <2>2, <1>1, LedgerConstants DEF Replay, StateLine
    <3> QED BY <2>2, <3>1 DEF Lines
  <2> QED BY <2>1, <2>2
<1>7. grants \in Lines
  BY <1>4, SeqMonotonic DEF Lines
<1>8. CommitLines(w, now) = <<Budget(w, now)>> \o grants \o used
  BY DEF CommitLines
<1> HIDE DEF used, grants, Pairs, bound
<1>9. /\ <<Budget(w, now)>> \o grants \o used \in Lines
      /\ \A i \in DOMAIN (<<Budget(w, now)>> \o grants \o used) :
            LET l == (<<Budget(w, now)>> \o grants \o used)[i]
            IN  l.kind \in {"budget", "replay"} \/ l \in Pairs
  <2>1. /\ <<Budget(w, now)>> \in Lines /\ Len(<<Budget(w, now)>>) = 1
        /\ <<Budget(w, now)>>[1] = Budget(w, now)
    BY <1>5 DEF Lines
  <2>2. \A i \in 1..Len(grants) : grants[i] \in Pairs
    BY <1>4
  <2>3. /\ <<Budget(w, now)>> \o grants \in Lines
        /\ \A i \in 1..Len(<<Budget(w, now)>> \o grants) :
              LET l == (<<Budget(w, now)>> \o grants)[i]
              IN  l.kind = "budget" \/ l \in Pairs
    BY <2>1, <2>2, <1>5, <1>7, ConcatProperties DEF Lines
  <2> DEFINE front == <<Budget(w, now)>> \o grants
  <2> HIDE DEF front
  <2>4. /\ front \o used \in Lines
        /\ DOMAIN (front \o used) = 1..(Len(front) + Len(used))
        /\ Len(front) \in Nat /\ Len(used) \in Nat
        /\ \A i \in 1..(Len(front) + Len(used)) :
              (front \o used)[i] = IF i <= Len(front) THEN front[i] ELSE used[i - Len(front)]
    BY <2>3, <1>6, ConcatProperties DEF Lines, front
  <2> QED BY <2>3, <2>4, <1>6 DEF Lines, front
<1>10. \A l \in Pairs : /\ l.kind = "grant"
                         /\ \E s \in w.subjects, e \in w.entitlements : l = Grant(s, e)
  BY DEF Pairs, Grant
<1>11. /\ CommitLines(w, now) \in Lines
       /\ \A i \in DOMAIN CommitLines(w, now) :
             \/ CommitLines(w, now)[i].kind \in {"budget", "replay"}
             \/ CommitLines(w, now)[i] \in Pairs
  BY <1>8, <1>9
<1> QED BY <1>10, <1>11 DEF Whole

\* The lines a compaction keeps are lines of the file.
LEMMA CompactKeeps ==
    ASSUME NEW st \in Lines, NEW now \in Nat
    PROVE  /\ Compacted(st, now) \in Lines
           /\ \A k \in DOMAIN Compacted(st, now) :
                 \E i \in Kept(st, now) : Compacted(st, now)[k] = st[i]
<1>1. Kept(st, now) \subseteq 1..Len(st) /\ Len(st) \in Nat
  BY DEF Kept, Lines
<1>2. IsFiniteSet(Kept(st, now))
  <2>1. IsFiniteSet(1..Len(st))
    BY <1>1, FS_Interval
  <2> QED BY <1>1, <2>1, FS_Subset
<1>3. /\ SetToSeq(Kept(st, now)) \in [1..Cardinality(Kept(st, now)) -> Kept(st, now)]
      /\ Cardinality(Kept(st, now)) \in Nat
  BY <1>2, ListOf
<1>4. \A i \in Kept(st, now) : st[i] \in StateLine
  BY <1>1 DEF Lines
<1> QED BY <1>3, <1>4 DEF Compacted, Lines

\* The n lines of f are those of st with an index in K, in the order of idx.
ListedBy(f, st, K, n, idx) ==
    /\ n \in Nat /\ idx \in [1..n -> K]
    /\ f \in Lines /\ Len(f) = n
    /\ \A k \in 1..n : f[k] = st[idx[k]]
    /\ \A i \in K : \E k \in 1..n : idx[k] = i
    /\ \A i, k \in 1..n : idx[i] = idx[k] => i = k

\* A compaction lists the lines it keeps.
LEMMA KeptList ==
    ASSUME NEW st \in Lines, NEW now \in Nat
    PROVE  \E n, idx : ListedBy(Compacted(st, now), st, Kept(st, now), n, idx)
<1> DEFINE K == Kept(st, now)
           n == Cardinality(K)
           idx == SetToSeq(K)
<1>1. K \subseteq 1..Len(st) /\ Len(st) \in Nat
  BY DEF Kept, Lines
<1>2. IsFiniteSet(K)
  <2>1. IsFiniteSet(1..Len(st))
    BY <1>1, FS_Interval
  <2> QED BY <1>1, <2>1, FS_Subset
<1> HIDE DEF K
<1>3. /\ n \in Nat /\ idx \in [1..n -> K]
      /\ \A x \in K : \E k \in 1..n : idx[k] = x
      /\ \A i, k \in 1..n : idx[i] = idx[k] => i = k
  BY <1>2, ListAll, Zenon
<1>4. Compacted(st, now) = [k \in DOMAIN idx |-> st[idx[k]]]
  BY DEF Compacted, K
<1>5. Compacted(st, now) \in Lines
  BY CompactKeeps
<1> HIDE DEF idx, n
<1>6. DOMAIN Compacted(st, now) = 1..n /\ \A k \in 1..n : Compacted(st, now)[k] = st[idx[k]]
  BY <1>3, <1>4
<1>7. Len(Compacted(st, now)) = n
  BY <1>3, <1>5, <1>6 DEF Lines
<1>8. ListedBy(Compacted(st, now), st, K, n, idx)
  BY <1>3, <1>5, <1>6, <1>7 DEF ListedBy
<1> QED BY <1>8, Zenon DEF K
-----------------------------------------------------------------------------
(* Separation of duty *)

Safe(st) ==
    \A s \in Subjects, C \in Conflicts :
        \A e1 \in C \cap GrantsOf(st, s), e2 \in C \cap (GrantsOf(st, s) \cup Static[s]) :
            e1 = e2
PrefixSafe(st) == \A n \in 0..Len(st) : Safe(SubSeq(st, 1, n))
Granted(t, s) == {e \in Entitlements : \E i \in DOMAIN t : t[i] = Grant(s, e)}
Compatible(st, t) ==
    \A s \in Subjects, C \in Conflicts :
        LET g == GrantsOf(st, s) \cup Granted(t, s)
        IN  \A e1 \in C \cap g, e2 \in C \cap (g \cup Static[s]) : e1 = e2

\* Appending lines grants nothing but what the lines grant.
LEMMA GrantsOfConcat ==
    ASSUME NEW st \in Lines, NEW t \in Lines, NEW s
    PROVE  GrantsOf(st \o t, s) \subseteq GrantsOf(st, s) \cup Granted(t, s)
<1> SUFFICES ASSUME NEW e \in Entitlements, NEW i \in DOMAIN (st \o t),
                    (st \o t)[i] = Grant(s, e), IsLiveGrant(st \o t, i)
             PROVE  e \in GrantsOf(st, s) \cup Granted(t, s)
  BY DEF GrantsOf
<1>1. /\ Len(st) \in Nat /\ Len(t) \in Nat
      /\ DOMAIN st = 1..Len(st) /\ DOMAIN t = 1..Len(t)
      /\ DOMAIN (st \o t) = 1..(Len(st) + Len(t))
      /\ \A k \in 1..(Len(st) + Len(t)) :
            (st \o t)[k] = IF k <= Len(st) THEN st[k] ELSE t[k - Len(st)]
  BY ConcatProperties DEF Lines
<1>2. CASE i <= Len(st)
  <2>1. st[i] = Grant(s, e) /\ i \in DOMAIN st
    BY <1>1, <1>2
  <2>2. \A k \in DOMAIN st : k > i => st[k] # Revoke(st[i].key, st[i].sub)
    BY <1>1, <1>2, <2>1 DEF IsLiveGrant
  <2>3. IsLiveGrant(st, i)
    BY <2>1, <2>2 DEF IsLiveGrant, Grant
  <2> QED BY <2>1, <2>3 DEF GrantsOf
<1>3. CASE i > Len(st)
  BY <1>1, <1>3 DEF Granted
<1> QED BY <1>1, <1>2, <1>3

\* Lines compatible with a safe file extend it safely, wherever a crash cuts them off.
LEMMA SafeConcat ==
    ASSUME NEW st \in Lines, NEW t \in Lines, PrefixSafe(st), Compatible(st, t)
    PROVE  PrefixSafe(st \o t)
<1>1. /\ Len(st) \in Nat /\ Len(t) \in Nat /\ Len(st \o t) = Len(st) + Len(t)
      /\ st \o t \in Lines
      /\ \A k \in 1..(Len(st) + Len(t)) :
            (st \o t)[k] = IF k <= Len(st) THEN st[k] ELSE t[k - Len(st)]
  BY ConcatProperties DEF Lines
<1> SUFFICES ASSUME NEW n \in 0..(Len(st) + Len(t))
             PROVE  Safe(SubSeq(st \o t, 1, n))
  BY <1>1 DEF PrefixSafe
<1>2. /\ SubSeq(st \o t, 1, n) \in Lines /\ Len(SubSeq(st \o t, 1, n)) = n
      /\ \A i \in 1..n : SubSeq(st \o t, 1, n)[i] = (st \o t)[i]
  BY <1>1, SubSeqProperties DEF Lines
<1>3. CASE n <= Len(st)
  <2>1. /\ SubSeq(st, 1, n) \in Lines /\ Len(SubSeq(st, 1, n)) = n
        /\ \A i \in 1..n : SubSeq(st, 1, n)[i] = st[i]
    BY <1>1, <1>3, SubSeqProperties DEF Lines
  <2>2. SubSeq(st \o t, 1, n) = SubSeq(st, 1, n)
    BY <1>1, <1>2, <1>3, <2>1, SeqEqual DEF Lines
  <2>3. n \in 0..Len(st)
    BY <1>1, <1>3
  <2> QED BY <2>2, <2>3, Zenon DEF PrefixSafe
<1>4. CASE n > Len(st)
  <2> DEFINE u == SubSeq(t, 1, n - Len(st))
  <2>1. /\ u \in Lines /\ Len(u) = n - Len(st) /\ DOMAIN u = 1..(n - Len(st))
        /\ \A i \in 1..(n - Len(st)) : u[i] = t[i]
    BY <1>1, <1>4, SubSeqProperties DEF Lines
  <2> HIDE DEF u
  <2>2. /\ st \o u \in Lines /\ Len(st \o u) = n
        /\ \A k \in 1..n : (st \o u)[k] = IF k <= Len(st) THEN st[k] ELSE u[k - Len(st)]
    BY <1>1, <2>1, ConcatProperties DEF Lines
  <2>3. SubSeq(st \o t, 1, n) = st \o u
    <3>1. \A k \in 1..n : SubSeq(st \o t, 1, n)[k] = (st \o u)[k]
      BY <1>1, <1>2, <1>4, <2>1, <2>2
    <3> QED BY <1>2, <2>2, <3>1, SeqEqual DEF Lines
  <2>4. \A s : Granted(u, s) \subseteq Granted(t, s)
    BY <1>1, <1>4, <2>1 DEF Granted, Lines
  <2>5. \A s : GrantsOf(st \o u, s) \subseteq GrantsOf(st, s) \cup Granted(t, s)
    BY <2>1, <2>4, GrantsOfConcat
  <2> QED BY <2>3, <2>5 DEF Safe, Compatible
<1> QED BY <1>1, <1>3, <1>4

\* A safe file is safe as it stands, not only in what a crash leaves of it.
LEMMA SafeWhole ==
    ASSUME NEW st \in Lines, PrefixSafe(st)
    PROVE  Safe(st)
<1>1. Len(st) \in 0..Len(st) /\ SubSeq(st, 1, Len(st)) = st
  BY SubSeqFull DEF Lines
<1> QED BY <1>1, Zenon DEF PrefixSafe

\* Records that are no grants never break a rule.
LEMMA GrantlessCompatible ==
    ASSUME NEW st \in Lines, NEW t \in Lines, Safe(st),
           \A i \in DOMAIN t : t[i].kind # "grant"
    PROVE  Compatible(st, t)
<1>1. \A s : Granted(t, s) = {}
  BY DEF Granted, Grant
<1> QED BY <1>1 DEF Safe, Compatible

\* Neither does a commit that passed CheckSoDRules.
LEMMA CommitCompatible ==
    ASSUME NEW st \in Lines, NEW w \in Writes, NEW now \in Nat,
           Safe(st), ~SoDConflict(st, w)
    PROVE  Compatible(st, CommitLines(w, now))
<1> DEFINE t == CommitLines(w, now)
<1>1. \A s : \A e \in Granted(t, s) : s \in w.subjects /\ e \in w.entitlements
  <2> SUFFICES ASSUME NEW s, NEW e \in Entitlements, NEW i \in DOMAIN t, t[i] = Grant(s, e)
               PROVE  s \in w.subjects /\ e \in w.entitlements
    BY DEF Granted
  <2>1. PICK x \in w.subjects, y \in w.entitlements : t[i] = Grant(x, y)
    BY CommitAdds DEF Grant
  <2> QED BY <2>1 DEF Grant
<1> HIDE DEF t
<1> SUFFICES ASSUME NEW s \in Subjects, NEW C \in Conflicts,
                    NEW e1 \in C \cap (GrantsOf(st, s) \cup Granted(t, s)),
                    NEW e2 \in C \cap (GrantsOf(st, s) \cup Granted(t, s) \cup Static[s])
             PROVE  e1 = e2
  BY DEF Compatible, t
<1>2. CASE e1 \in Granted(t, s)
  <2>1. s \in w.subjects /\ e1 \in w.entitlements \cap C
    BY <1>1, <1>2
  <2>2. e2 \in C \cap (w.entitlements \cup Static[s] \cup GrantsOf(st, s))
    BY <1>1
  <2> QED BY <2>1, <2>2 DEF SoDConflict
<1>3. CASE e1 \in GrantsOf(st, s) /\ e2 \in Granted(t, s)
  <2>1. s \in w.subjects /\ e2 \in w.entitlements \cap C
    BY <1>1, <1>3
  <2>2. e1 \in C \cap (w.entitlements \cup Static[s] \cup GrantsOf(st, s))
    BY <1>3
  <2> QED BY <2>1, <2>2 DEF SoDConflict
<1>4. CASE e1 \in GrantsOf(st, s) /\ e2 \in GrantsOf(st, s) \cup Static[s]
  BY <1>4 DEF Safe
<1> QED BY <1>2, <1>3, <1>4

\* A compaction keeps the grants that were not revoked and revives none.
LEMMA CompactedSafe ==
    ASSUME NEW st \in Lines, NEW now \in Nat, Safe(st)
    PROVE  PrefixSafe(Compacted(st, now))
<1> DEFINE t == Compacted(st, now)
<1>1. t \in Lines
  BY CompactKeeps
<1>2. \A s : Granted(t, s) \subseteq GrantsOf(st, s)
  <2> SUFFICES ASSUME NEW s, NEW e \in Entitlements, NEW k \in DOMAIN t, t[k] = Grant(s, e)
               PROVE  e \in GrantsOf(st, s)
    BY DEF Granted
  <2>1. PICK i \in Kept(st, now) : t[k] = st[i]
    BY CompactKeeps
  <2>2. IsLiveGrant(st, i) /\ i \in DOMAIN st
    BY <2>1 DEF Kept, Grant, IsLastHwm
  <2> QED BY <2>1, <2>2 DEF GrantsOf
<1> HIDE DEF t
<1>3. <<>> \in Lines /\ \A s : GrantsOf(<<>>, s) = {}
  BY DEF Lines, GrantsOf
<1>4. PrefixSafe(<<>>)
  <2>1. Safe(<<>>)
    BY <1>3 DEF Safe
  <2>2. Len(<<>>) = 0 /\ SubSeq(<<>>, 1, 0) = <<>>
    BY SubSeqEmpty
  <2>3. \A n \in 0..Len(<<>>) : SubSeq(<<>>, 1, n) = <<>>
    BY <2>2
  <2> QED BY <2>1, <2>3 DEF PrefixSafe
<1>5. Compatible(<<>>, t)
  BY <1>2, <1>3 DEF Compatible, Safe
<1>6. <<>> \o t = t
  BY <1>1, ConcatEmptySeq DEF Lines
<1> QED BY <1>1, <1>3, <1>4, <1>5, <1>6, SafeConcat DEF t

\* What a crash or a repair leaves of a safe file is safe.
LEMMA PrefixSafePrefix ==
    ASSUME NEW st \in Lines, PrefixSafe(st), NEW n \in 0..Len(st)
    PROVE  PrefixSafe(SubSeq(st, 1, n)) /\ PrefixSafe(Append(SubSeq(st, 1, n), Torn))
<1> DEFINE f == SubSeq(st, 1, n)
<1>1. f \in Lines /\ Len(f) = n
  BY SubSeqProperties DEF Lines
<1>2. PrefixSafe(f)
  <2> SUFFICES ASSUME NEW m \in 0..n
               PROVE  Safe(SubSeq(f, 1, m))
    BY <1>1 DEF PrefixSafe
  <2>1. SubSeq(f, 1, m) = SubSeq(st, 1, m) /\ m \in 0..Len(st)
    BY SubSeqOfSubSeq DEF Lines
  <2> QED BY <2>1 DEF PrefixSafe
<1>3. /\ <<Torn>> \in Lines /\ \A i \in DOMAIN <<Torn>> : <<Torn>>[i].kind # "grant"
      /\ Append(f, Torn) = f \o <<Torn>>
  BY <1>1 DEF Lines, StateLine, Torn
<1> HIDE DEF f
<1>4. PrefixSafe(f \o <<Torn>>)
  BY <1>1, <1>2, <1>3, SafeWhole, GrantlessCompatible, SafeConcat
<1> QED BY <1>2, <1>3, <1>4 DEF f
-----------------------------------------------------------------------------
(* Type correctness *)

\* TypeOK is not inductive by itself: the record appended by a critical section is
\* numbered after the last audit_hwm of its state, so there must be one.
HwmKnown == \A p \in Procs : InSection(p) => HasHwm(job[p].act)
TypeInv == TypeOK /\ HwmKnown

LEMMA TypeInit == Init => TypeInv
<1> SUFFICES ASSUME Init PROVE TypeInv
  OBVIOUS
<1>1. Hwm(1, 1) \in StateLine /\ [seq |-> 1, prev |-> 0, dec |-> "init", ref |-> NoRef] \in AuditLine
  BY DEF Hwm, StateLine, AuditLine, Decision, Ref
<1>2. NoJob \in JobType /\ NoCache \in CacheType
  BY DEF NoJob, Work, NoCache, JobType, CacheType, Decision, Ref
<1>3. HwmKnown
  BY DEF Init, HwmKnown, InSection
<1>4. TypeOK
  BY <1>1, <1>2 DEF Init, TypeOK, Place
<1> QED BY <1>3, <1>4 DEF TypeInv

\* What withExclusiveLock hands to a section is a sequence of state records.
LEMMA ViewType ==
    ASSUME TypeOK, NEW p \in Procs
    PROVE  View(p) \in Lines /\ Loaded(p) \in CacheType
<1>1. db.lines \in Seq(StateLine) /\ cache[p].lines \in Seq(StateLine) /\ cache[p].size \in Nat
      /\ db.ino \in Nat
  BY DEF TypeOK, Place, CacheType
<1>2. SubSeq(db.lines, cache[p].size + 1, Len(db.lines)) \in Seq(StateLine)
  BY <1>1, SubSeqProperties
<1>3. View(p) \in Lines
  BY <1>1, <1>2, ConcatProperties DEF View, Lines
<1> QED BY <1>1, <1>3 DEF Loaded, CacheType, Lines

LEMMA AppendType ==
    ASSUME NEW S, NEW f \in Seq(S), NEW e \in S
    PROVE  Append(f, e) \in Seq(S) /\ Len(Append(f, e)) = Len(f) + 1 /\ Len(f) \in Nat
OBVIOUS

\* state.db after a write: the same file with other lines.
LEMMA DbType ==
    ASSUME NEW d \in [ino: Nat \ {0}, lines: Seq(StateLine)], NEW x \in Seq(StateLine)
    PROVE  /\ [d EXCEPT !.lines = x] \in [ino: Nat \ {0}, lines: Seq(StateLine)]
           /\ [d EXCEPT !.lines = x].lines = x /\ [d EXCEPT !.lines = x].ino = d.ino
OBVIOUS

LEMMA CachedType ==
    ASSUME NEW c \in CacheType, NEW n \in Nat, NEW x \in Lines
    PROVE  [c EXCEPT !.size = @ + n, !.lines = x] \in CacheType
<1>1. c \in [ino: Nat, size: Nat, lines: Seq(StateLine)]
  BY DEF CacheType
<1>2. c.size + n \in Nat
  BY <1>1
<1> QED BY <1>1, <1>2 DEF CacheType, Lines

LEMMA FrontType ==
    ASSUME NEW S, NEW f \in Seq(S), Len(f) > 0
    PROVE  Front(f) \in Seq(S) /\ Len(Front(f)) = Len(f) - 1
<1> DEFINE n == Len(f) - 1
<1>1. n \in Nat /\ \A i \in 1..n : f[i] \in S
  OBVIOUS
<1>2. Front(f) = SubSeq(f, 1, n)
  BY DEF Front
<1> HIDE DEF n
<1>3. SubSeq(f, 1, n) \in Seq(S) /\ Len(SubSeq(f, 1, n)) = n
  BY <1>1, SubSeqProperties
<1> QED BY <1>2, <1>3 DEF n

\* A record is appended to audit.jsonl whole, or completes the torn one before it.
LEMMA GlueType ==
    ASSUME NEW log \in Seq(AuditLine), NEW line \in AuditLine
    PROVE  Glue(log, line) \in Seq(AuditLine) /\ Len(Glue(log, line)) >= Len(log)
<1>1. CASE log # <<>> /\ Last(log).dec = "torn"
  <2>1. Len(log) \in Nat \ {0}
    BY <1>1
  <2>2. Front(log) \in Seq(AuditLine) /\ Len(Front(log)) = Len(log) - 1
    BY <2>1, FrontType
  <2>3. BadAudit("garbled") \in AuditLine
    BY DEF BadAudit, AuditLine, Decision, Ref
  <2> QED BY <1>1, <2>1, <2>2, <2>3 DEF Glue
<1>2. CASE ~(log # <<>> /\ Last(log).dec = "torn")
  BY <1>2 DEF Glue
<1> QED BY <1>1, <1>2

LEMMA NowsType == ASSUME TypeOK PROVE Nows \subseteq Nat
BY DEF TypeOK, Place, Nows

-----------------------------------------------------------------------------
(* What the handlers enter their section with *)

\* A record for the audit chain alone: reads, results and denials
Records(work) == /\ work.op = "audit" /\ work.todo = <<>>
                 /\ work.dec \in {"event", "deny"} /\ work.ref = NoRef

Asks(work, principal) ==
    /\ work.op = "challenge" /\ work.dec = "challenge"
    /\ work.todo = <<Challenge(principal, work.now)>>
    /\ work.ref = [challenged |-> principal]
    /\ MaxChallenges > 0 =>
          ~(Cardinality(InWindow(work.act, "challenge", principal, work.now, Minute)) >= MaxChallenges)

LetsThrough(work, w) ==
    /\ work.op = "commit" /\ work.dec = "allow" /\ work.ref = w
    /\ work.todo = CommitLines(w, work.now)
    /\ w.token # NoToken => work.now <= LastUse[w.token] /\ ~Consumed(work.act, w.token, work.now)
    /\ ~SoDConflict(work.act, w) /\ ~OverBudget(work.act, w, work.now)

TakesBack(work, s, e) ==
    /\ work.op = "revoke" /\ work.dec = "revoked" /\ work.todo = <<Revoke(s, e)>>
    /\ work.ref = [subject |-> s, entitlement |-> e]

\* A handler loads the cache, or enters a section to record an event, to ask for an
\* approval, to let a write through or to revoke a grant.
LEMMA HandlerWork ==
    ASSUME TypeInv, NEW p \in Procs, Handler(p), ~Snapshot(p)
    PROVE  \E work \in JobType :
              /\ Enter(p, work) /\ work.act = View(p) /\ work.now \in Nows
              /\ \/ Records(work)
                 \/ \E principal \in Principals : Asks(work, principal)
                 \/ \E w \in Writes : LetsThrough(work, w)
                 \/ \E s \in Subjects, e \in Entitlements : TakesBack(work, s, e)
<1> DEFINE Goal == \E work \in JobType :
              /\ Enter(p, work) /\ work.act = View(p) /\ work.now \in Nows
              /\ \/ Records(work)
                 \/ \E principal \in Principals : Asks(work, principal)
                 \/ \E w \in Writes : LetsThrough(work, w)
                 \/ \E s \in Subjects, e \in Entitlements : TakesBack(work, s, e)
<1>1. View(p) \in Seq(StateLine) /\ <<>> \in Seq(StateLine) /\ Nows \subseteq Nat
  BY ViewType, NowsType DEF TypeInv, Lines
<1>2. ASSUME NEW now \in Nows, NEW dec \in {"event", "deny"},
             Enter(p, Work("audit", View(p), <<>>, dec, NoRef, now))
      PROVE  Goal
  <2> DEFINE work == Work("audit", View(p), <<>>, dec, NoRef, now)
  <2>1. work \in JobType
    BY <1>1 DEF Work, JobType, Decision, Ref
  <2>2. work.act = View(p) /\ work.now = now /\ Records(work)
    BY DEF Work, Records
  <2> QED BY <1>2, <2>1, <2>2
<1>3. CASE AppendAudit(p)
  BY <1>2, <1>3 DEF AppendAudit
<1>4. ASSUME NEW principal \in Principals, NEW now \in Nows, RecordChallenge(p, principal, now)
      PROVE  Goal
  <2> DEFINE work == Work("challenge", View(p), <<Challenge(principal, now)>>, "challenge",
                          [challenged |-> principal], now)
             limited == /\ MaxChallenges > 0
                        /\ Cardinality(InWindow(View(p), "challenge", principal, now, Minute))
                             >= MaxChallenges
  <2>1. IF limited THEN Enter(p, Work("audit", View(p), <<>>, "deny", NoRef, now)) ELSE Enter(p, work)
    BY <1>4 DEF RecordChallenge
  <2>2. now \in Nat /\ now + Minute \in Nat
    BY <1>1, LedgerConstants
  <2>3. Challenge(principal, now) \in StateLine
    BY <2>2 DEF Challenge, StateLine
  <2>4. work \in JobType
    BY <1>1, <2>2, <2>3 DEF Work, JobType, Decision, Ref
  <2>5. CASE ~limited
    <3>1. work.act = View(p) /\ work.now = now /\ Asks(work, principal)
      BY <2>5 DEF Work, Asks
    <3> HIDE DEF work
    <3> QED BY <2>1, <2>4, <2>5, <3>1
  <2> QED BY <1>2, <2>1, <2>5
<1>5. ASSUME NEW w \in Writes, NEW now \in Nows, CommitWrite(p, w, now)
      PROVE  Goal
  <2> DEFINE work == Work("commit", View(p), CommitLines(w, now), "allow", w, now)
             denied == \/ w.token # NoToken /\ Consumed(View(p), w.token, now)
                       \/ SoDConflict(View(p), w)
                       \/ OverBudget(View(p), w, now)
  <2>1. /\ IF denied THEN Enter(p, Work("audit", View(p), <<>>, "deny", NoRef, now))
                     ELSE Enter(p, work)
        /\ w.token # NoToken => now <= LastUse[w.token]
    BY <1>5 DEF CommitWrite
  <2>2. work \in JobType
    BY <1>1, CommitAdds DEF Work, JobType, Decision, Ref, Lines
  <2>3. CASE ~denied
    <3>1. work.act = View(p) /\ work.now = now /\ LetsThrough(work, w)
      BY <2>1, <2>3 DEF Work, LetsThrough
    <3> HIDE DEF work
    <3> QED BY <2>1, <2>2, <2>3, <3>1
  <2> QED BY <1>2, <2>1, <2>3
<1>6. ASSUME NEW s \in Subjects, NEW e \in Entitlements, RevokeGrant(p, s, e)
      PROVE  Goal
  <2>1. PICK now \in Nows : Enter(p, Work("revoke", View(p), <<Revoke(s, e)>>, "revoked",
                                          [subject |-> s, entitlement |-> e], now))
    BY <1>6 DEF RevokeGrant
  <2> DEFINE work == Work("revoke", View(p), <<Revoke(s, e)>>, "revoked",
                          [subject |-> s, entitlement |-> e], now)
  <2>2. Revoke(s, e) \in StateLine
    BY DEF Revoke, StateLine
  <2>3. work \in JobType
    BY <1>1, <2>2 DEF Work, JobType, Decision, Ref
  <2>4. work.act = View(p) /\ work.now = now /\ TakesBack(work, s, e)
    BY DEF Work, TakesBack
  <2> QED BY <2>1, <2>3, <2>4
<1> QED BY <1>3, <1>4, <1>5, <1>6 DEF Handler
-----------------------------------------------------------------------------
(* Preservation by the steps *)

\* Entering a section keeps the types, if the section is given a state that parses.
LEMMA EnterType ==
    ASSUME TypeInv, NEW p \in Procs, NEW work \in JobType, HasHwm(work.act), Enter(p, work)
    PROVE  TypeInv'
<1>1. Loaded(p) \in CacheType
  BY ViewType DEF TypeInv
<1>2. TypeOK'
  BY <1>1 DEF TypeInv, TypeOK, Place, Enter, Start
<1>3. HwmKnown'
  BY DEF TypeInv, TypeOK, Place, HwmKnown, InSection, Enter, Start
<1> QED BY <1>2, <1>3 DEF TypeInv

LEMMA HandlerType ==
    ASSUME TypeInv, NEW p \in Procs, Handler(p)
    PROVE  TypeInv'
<1> DEFINE st == View(p)
<1>1. st \in Seq(StateLine) /\ <<>> \in Seq(StateLine)
  BY ViewType DEF TypeInv, Lines
<1>2. Parses(st) => HasHwm(st)
  BY DEF Parses, HasHwm
<1>3. Nows \subseteq Nat
  BY NowsType DEF TypeInv
<1> HIDE DEF st
<1>4. CASE AppendAudit(p)
  <2>1. PICK now \in Nows : Enter(p, Work("audit", st, <<>>, "event", NoRef, now))
    BY <1>4 DEF AppendAudit, st
  <2>2. Work("audit", st, <<>>, "event", NoRef, now) \in JobType
    BY <1>1, <1>3 DEF Work, JobType, Decision, Ref
  <2>3. HasHwm(Work("audit", st, <<>>, "event", NoRef, now).act)
    BY <1>2, <2>1 DEF Enter, Work, st
  <2> QED BY <2>1, <2>2, <2>3, EnterType
<1>5. CASE Snapshot(p)
  <2>1. Loaded(p) \in CacheType
    BY ViewType DEF TypeInv
  <2>2. TypeOK'
    BY <1>5, <2>1 DEF TypeInv, TypeOK, Place, Snapshot
  <2>3. HwmKnown'
    BY <1>5 DEF TypeInv, HwmKnown, InSection, Snapshot
  <2> QED BY <2>2, <2>3 DEF TypeInv
<1>6. ASSUME NEW principal \in Principals, NEW now \in Nows, RecordChallenge(p, principal, now)
      PROVE  TypeInv'
  <2> DEFINE denied == Work("audit", st, <<>>, "deny", NoRef, now)
             asked == Work("challenge", st, <<Challenge(principal, now)>>, "challenge",
                           [challenged |-> principal], now)
  <2>1. now \in Nat /\ now + Minute \in Nat
    BY <1>3, LedgerConstants
  <2>2. Challenge(principal, now) \in StateLine
    BY <2>1 DEF Challenge, StateLine
  <2>3. denied \in JobType /\ asked \in JobType /\ denied.act = st /\ asked.act = st
    BY <1>1, <2>1, <2>2 DEF Work, JobType, Decision, Ref
  <2>4. (Enter(p, denied) \/ Enter(p, asked)) /\ HasHwm(st)
    BY <1>2, <1>6 DEF RecordChallenge, Enter, st
  <2> HIDE DEF denied, asked
  <2> QED BY <2>3, <2>4, EnterType
<1>7. ASSUME NEW w \in Writes, NEW now \in Nows, CommitWrite(p, w, now)
      PROVE  TypeInv'
  <2> DEFINE denied == Work("audit", st, <<>>, "deny", NoRef, now)
             passed == Work("commit", st, CommitLines(w, now), "allow", w, now)
  <2>1. now \in Nat /\ CommitLines(w, now) \in Seq(StateLine)
    BY <1>3, CommitAdds DEF Lines
  <2>2. denied \in JobType /\ passed \in JobType /\ denied.act = st /\ passed.act = st
    BY <1>1, <2>1 DEF Work, JobType, Decision, Ref
  <2>3. (Enter(p, denied) \/ Enter(p, passed)) /\ HasHwm(st)
    BY <1>2, <1>7 DEF CommitWrite, Enter, st
  <2> HIDE DEF denied, passed
  <2> QED BY <2>2, <2>3, EnterType
<1>8. ASSUME NEW s \in Subjects, NEW e \in Entitlements, RevokeGrant(p, s, e)
      PROVE  TypeInv'
  <2>1. PICK now \in Nows : Enter(p, Work("revoke", st, <<Revoke(s, e)>>, "revoked",
                                          [subject |-> s, entitlement |-> e], now))
    BY <1>8 DEF RevokeGrant, st
  <2> DEFINE work == Work("revoke", st, <<Revoke(s, e)>>, "revoked",
                          [subject |-> s, entitlement |-> e], now)
  <2>2. Revoke(s, e) \in StateLine
    BY DEF Revoke, StateLine
  <2>3. work \in JobType /\ work.act = st
    BY <1>1, <1>3, <2>2 DEF Work, JobType, Decision, Ref
  <2>4. Enter(p, work) /\ HasHwm(st)
    BY <1>2, <2>1 DEF Enter, st
  <2> HIDE DEF work
  <2> QED BY <2>3, <2>4, EnterType
<1> QED BY <1>4, <1>5, <1>6, <1>7, <1>8 DEF Handler

LEMMA LifecycleType ==
    ASSUME TypeInv, NEW p \in Procs, Lifecycle(p)
    PROVE  TypeInv'
<1> USE DEF TypeInv
<1>1. FreshCache \in CacheType /\ NoCache \in CacheType
  BY DEF FreshCache, NoCache, CacheType, TypeOK, Place
<1>2. CASE Open(p)
  BY <1>1, <1>2 DEF TypeOK, Place, HwmKnown, InSection, Open, CanEnterDown
<1>3. CASE OpenRecover(p)
  <2> DEFINE work == Work("open", db.lines, <<Hwm(Len(audit), Len(audit))>>,
                          "recovered", NoRef, clock)
  <2>1. Hwm(Len(audit), Len(audit)) \in StateLine
    BY DEF Hwm, StateLine, TypeOK, Place
  <2>2. work \in JobType /\ work.act = db.lines
    BY <2>1 DEF Work, JobType, Decision, Ref, TypeOK, Place
  <2>3. HasHwm(work.act)
    BY <1>3, <2>2 DEF OpenRecover, Parses, HasHwm
  <2> HIDE DEF work
  <2>4. Start(p, work)
    BY <1>3 DEF OpenRecover, work
  <2>5. TypeOK'
    BY <1>1, <1>3, <2>2, <2>4 DEF TypeOK, Place, OpenRecover, Start
  <2>6. HwmKnown'
    BY <1>3, <2>2, <2>3, <2>4 DEF TypeOK, Place, HwmKnown, InSection, OpenRecover, Start
  <2> QED BY <2>5, <2>6
<1>4. CASE Exit(p)
  BY <1>1, <1>4 DEF TypeOK, Place, HwmKnown, InSection, Exit
<1>5. CASE RepairState(p)
  <2> DEFINE lines == CutState(db.lines)
             work == Work("repair", lines, <<>>, "repaired", NoRef, clock)
  <2>1. lines \in Seq(StateLine)
    BY FrontType DEF CutState, TypeOK, Place
  <2> HIDE DEF lines
  <2>2. work \in JobType /\ work.act = lines
    BY <2>1 DEF Work, JobType, Decision, Ref, TypeOK, Place
  <2>3. Parses(lines) => HasHwm(lines)
    BY DEF Parses, HasHwm
  <2> HIDE DEF work
  <2>4. /\ db' = [db EXCEPT !.lines = lines]
        /\ dbSync' = (IF lines = db.lines THEN dbSync ELSE Len(lines))
        /\ \/ /\ Parses(lines) /\ lock' = p /\ pc' = [pc EXCEPT ![p] = "cut"]
              /\ job' = [job EXCEPT ![p] = work]
           \/ UNCHANGED <<lock, pc, job>>
        /\ UNCHANGED <<audit, auditSync, cache, clock, faults, done>>
    BY <1>5 DEF RepairState, lines, work
  <2>5. /\ db' \in [ino: Nat \ {0}, lines: Seq(StateLine)] /\ db'.lines = lines
        /\ dbSync' \in 0..Len(lines)
    BY <2>1, <2>4 DEF TypeOK, Place
  <2>6. /\ lock' \in Procs \cup {NoProc} /\ job' \in [Procs -> JobType]
        /\ pc' \in [Procs -> Place]
    BY <2>2, <2>4 DEF TypeOK, Place
  <2>7. TypeOK'
    BY <2>4, <2>5, <2>6 DEF TypeOK, Place
  <2>8. HwmKnown'
    BY <2>2, <2>3, <2>4 DEF TypeOK, Place, HwmKnown, InSection
  <2> QED BY <2>7, <2>8
<1> QED BY <1>2, <1>3, <1>4, <1>5 DEF Lifecycle

\* The record the section appends, and the audit_hwm that covers it.
LEMMA NextType ==
    ASSUME TypeInv, NEW p \in Procs, InSection(p)
    PROVE  /\ NextHwm(p) \in HwmLine /\ NextHwm(p) \in StateLine
           /\ [seq |-> HwmOf(job[p].act).seq + 1, prev |-> HwmOf(job[p].act).hash,
               dec |-> job[p].dec, ref |-> job[p].ref] \in AuditLine
<1>1. job[p] \in JobType /\ Len(audit) \in Nat
  BY DEF TypeInv, TypeOK, Place
<1>2. HwmOf(job[p].act) \in HwmLine
  BY <1>1, LastHwm DEF TypeInv, HwmKnown, JobType, Lines
<1>3. NextHwm(p) \in HwmLine
  BY <1>1, <1>2 DEF NextHwm, Hwm, HwmLine
<1> QED BY <1>1, <1>2, <1>3 DEF HwmLine, StateLine, AuditLine, JobType

\* A state keeps its audit_hwm when records are appended to it.
LEMMA HwmAppended ==
    ASSUME NEW st \in Lines, NEW t \in Lines, HasHwm(st)
    PROVE  /\ st \o t \in Lines /\ HasHwm(st \o t)
           /\ Len(st \o t) = Len(st) + Len(t) /\ Len(st) \in Nat /\ Len(t) \in Nat
<1>1. /\ st \o t \in Lines /\ Len(st \o t) = Len(st) + Len(t)
      /\ Len(st) \in Nat /\ Len(t) \in Nat
      /\ \A i \in 1..Len(st) : (st \o t)[i] = st[i]
  BY ConcatProperties DEF Lines
<1> QED BY <1>1 DEF HasHwm, Lines

LEMMA LeaveType ==
    ASSUME TypeInv, NEW p \in Procs, Leave(p)
    PROVE  /\ lock' \in Procs \cup {NoProc}
           /\ job' \in [Procs -> JobType] /\ cache' \in [Procs -> CacheType]
           /\ \E place \in {"down", "idle"} : pc' = [pc EXCEPT ![p] = place]
           /\ HwmKnown'
<1>1. NoJob \in JobType /\ NoCache \in CacheType
  BY DEF NoJob, Work, NoCache, JobType, CacheType, Decision, Ref
<1>2. \E place \in {"down", "idle"} : pc' = [pc EXCEPT ![p] = place]
  BY DEF Leave
<1>3. job' = [job EXCEPT ![p] = NoJob]
  BY DEF Leave
<1>4. HwmKnown'
  BY <1>2, <1>3 DEF TypeInv, TypeOK, Place, HwmKnown, InSection
<1> QED BY <1>1, <1>2, <1>4, ZenonT(60) DEF TypeInv, TypeOK, Place, Leave

LEMMA ReturnType ==
    ASSUME TypeInv, NEW p \in Procs, InSection(p), Return(p)
    PROVE  /\ lock' \in Procs \cup {NoProc}
           /\ job' \in [Procs -> JobType]
           /\ \E place \in {"down", "idle"} : pc' = [pc EXCEPT ![p] = place]
           /\ done' \in Seq([op: {"commit", "challenge"}, ref: Ref, now: Nat])
           /\ HwmKnown'
<1>1. NoJob \in JobType
  BY DEF NoJob, Work, JobType, Decision, Ref
<1>2. \E place \in {"down", "idle"} : pc' = [pc EXCEPT ![p] = place]
  BY DEF Return
<1>3. HwmKnown'
  BY <1>2 DEF Return, TypeInv, TypeOK, Place, HwmKnown, InSection
<1>4. job[p] \in JobType
  BY DEF TypeInv, TypeOK, Place
<1>5. done' \in Seq([op: {"commit", "challenge"}, ref: Ref, now: Nat])
  <2> DEFINE entry == [op |-> job[p].op, ref |-> job[p].ref, now |-> job[p].now]
  <2>1. job[p].op \in {"commit", "challenge"} =>
            entry \in [op: {"commit", "challenge"}, ref: Ref, now: Nat]
    BY <1>4 DEF JobType
  <2>2. /\ done \in Seq([op: {"commit", "challenge"}, ref: Ref, now: Nat])
        /\ done' = IF job[p].op \in {"commit", "challenge"} THEN Append(done, entry) ELSE done
    BY DEF Return, TypeInv, TypeOK
  <2> HIDE DEF entry
  <2> QED BY <2>1, <2>2, AppendType
<1> QED BY <1>1, <1>2, <1>3, <1>5 DEF Return, TypeInv, TypeOK, Place

LEMMA SectionType ==
    ASSUME TypeInv, NEW p \in Procs, Section(p)
    PROVE  TypeInv'
<1> DEFINE j == job[p]
           st == j.act \o j.todo
<1>1. InSection(p)
  BY DEF Section, InSection, WriteState, SyncState, WriteAudit, SyncAudit, WriteHwm,
         SyncHwm, Compact, RepairAudit
<1>2. /\ j \in JobType /\ j.act \in Lines /\ j.todo \in Lines /\ HasHwm(j.act)
      /\ cache[p] \in CacheType
  BY <1>1 DEF TypeInv, TypeOK, Place, HwmKnown, JobType, Lines
<1>3. st \in Lines /\ HasHwm(st) /\ Len(j.todo) \in Nat
  BY <1>2, HwmAppended
<1>4. [j EXCEPT !.act = st] \in JobType
  BY <1>2, <1>3 DEF JobType, Lines
<1>5. \A n \in Nat, x \in Lines :
          [cache[p] EXCEPT !.size = @ + n, !.lines = x] \in CacheType
  BY <1>2, CachedType
<1>6. NextHwm(p) \in StateLine
  BY <1>1, NextType
<1>7. CASE WriteState(p)
  <2>1. /\ db' = [db EXCEPT !.lines = @ \o j.todo]
        /\ UNCHANGED <<audit, auditSync, dbSync, lock, clock, faults, done>>
    BY <1>7 DEF WriteState
  <2>2. /\ db' \in [ino: Nat \ {0}, lines: Seq(StateLine)]
        /\ dbSync' \in 0..Len(db'.lines)
    <3>1. /\ db.lines \o j.todo \in Seq(StateLine)
          /\ Len(db.lines \o j.todo) >= Len(db.lines)
      BY <1>2, ConcatProperties DEF TypeInv, TypeOK, Lines
    <3> HIDE DEF j
    <3>2. db \in [ino: Nat \ {0}, lines: Seq(StateLine)] /\ dbSync \in 0..Len(db.lines)
      BY DEF TypeInv, TypeOK
    <3>3. db' \in [ino: Nat \ {0}, lines: Seq(StateLine)] /\ db'.lines = db.lines \o j.todo
      BY <2>1, <3>1, <3>2, DbType
    <3> QED BY <2>1, <3>1, <3>2, <3>3
  <2>3. CASE j.op \in {"commit", "open"}
    <3>1. pc' = [pc EXCEPT ![p] = "wsync"] /\ UNCHANGED <<job, cache>>
      BY <1>7, <2>3 DEF WriteState
    <3>2. TypeOK'
      BY <2>1, <2>2, <3>1 DEF TypeInv, TypeOK, Place
    <3>3. HwmKnown'
      BY <1>2, <3>1 DEF TypeInv, TypeOK, Place, HwmKnown, InSection
    <3> QED BY <3>2, <3>3 DEF TypeInv
  <2>4. CASE j.op \notin {"commit", "open"}
    <3> DEFINE x == IF j.op = "revoke" THEN st ELSE cache[p].lines
    <3>1. /\ pc' = [pc EXCEPT ![p] = "audit"]
          /\ job' = [job EXCEPT ![p].act = st]
          /\ cache' = [cache EXCEPT ![p].size = @ + Len(j.todo), ![p].lines = x]
      BY <1>7, <2>4 DEF WriteState
    <3>2. x \in Lines
      BY <1>2, <1>3 DEF CacheType, Lines
    <3> HIDE DEF x, st, j
    <3>3. cache' \in [Procs -> CacheType]
      BY <1>3, <1>5, <3>1, <3>2 DEF TypeInv, TypeOK, Place
    <3>4. job' \in [Procs -> JobType]
      BY <1>4, <3>1 DEF TypeInv, TypeOK, Place, j
    <3>5. TypeOK'
      BY <2>1, <2>2, <3>1, <3>3, <3>4 DEF TypeInv, TypeOK, Place
    <3>6. HwmKnown'
      BY <1>2, <1>3, <3>1 DEF TypeInv, TypeOK, Place, HwmKnown, InSection, j, JobType
    <3> QED BY <3>5, <3>6 DEF TypeInv
  <2> QED BY <2>3, <2>4
<1>8. CASE SyncState(p)
  <2>1. /\ pc' = [pc EXCEPT ![p] = "audit"]
        /\ job' = [job EXCEPT ![p].act = st]
        /\ cache' = [cache EXCEPT ![p].size = @ + Len(j.todo), ![p].lines = st]
        /\ dbSync' = Len(db.lines)
        /\ UNCHANGED <<audit, auditSync, db, lock, clock, faults, done>>
    BY <1>8 DEF SyncState
  <2> HIDE DEF st, j
  <2>2. cache' \in [Procs -> CacheType]
    BY <1>3, <1>5, <2>1 DEF TypeInv, TypeOK, Place
  <2>3. job' \in [Procs -> JobType]
    BY <1>4, <2>1 DEF TypeInv, TypeOK, Place, j
  <2>4. TypeOK'
    BY <2>1, <2>2, <2>3 DEF TypeInv, TypeOK, Place
  <2>5. HwmKnown'
    BY <1>2, <1>3, <2>1 DEF TypeInv, TypeOK, Place, HwmKnown, InSection, j, JobType
  <2> QED BY <2>4, <2>5 DEF TypeInv
<1>9. CASE WriteAudit(p)
  <2> DEFINE line == [seq |-> HwmOf(j.act).seq + 1, prev |-> HwmOf(j.act).hash,
                      dec |-> j.dec, ref |-> j.ref]
  <2>1. line \in AuditLine
    BY <1>1, NextType
  <2>2. /\ audit' = Glue(audit, line) /\ pc' = [pc EXCEPT ![p] = "async"]
        /\ UNCHANGED <<auditSync, db, dbSync, lock, job, cache, clock, faults, done>>
    BY <1>9 DEF WriteAudit
  <2> HIDE DEF line
  <2>3. audit' \in Seq(AuditLine) /\ auditSync' \in 0..Len(audit')
    BY <2>1, <2>2, GlueType DEF TypeInv, TypeOK, Place
  <2>4. TypeOK'
    BY <2>2, <2>3 DEF TypeInv, TypeOK, Place
  <2>5. HwmKnown'
    BY <1>2, <2>2 DEF TypeInv, TypeOK, Place, HwmKnown, InSection
  <2> QED BY <2>4, <2>5 DEF TypeInv
<1>10. CASE SyncAudit(p)
  <2>1. TypeOK'
    BY <1>10 DEF SyncAudit, TypeInv, TypeOK, Place
  <2>2. HwmKnown'
    BY <1>2, <1>10 DEF SyncAudit, TypeInv, TypeOK, Place, HwmKnown, InSection
  <2> QED BY <2>1, <2>2 DEF TypeInv
<1>11. CASE WriteHwm(p)
  <2>1. /\ db' = [db EXCEPT !.lines = Append(@, NextHwm(p))]
        /\ pc' = [pc EXCEPT ![p] = "hsync"]
        /\ UNCHANGED <<audit, auditSync, dbSync, lock, job, cache, clock, faults, done>>
    BY <1>11 DEF WriteHwm
  <2>2. /\ db' \in [ino: Nat \ {0}, lines: Seq(StateLine)]
        /\ dbSync' \in 0..Len(db'.lines)
    <3>1. db \in [ino: Nat \ {0}, lines: Seq(StateLine)] /\ dbSync \in 0..Len(db.lines)
      BY DEF TypeInv, TypeOK
    <3>2. /\ Append(db.lines, NextHwm(p)) \in Seq(StateLine)
          /\ Len(Append(db.lines, NextHwm(p))) = Len(db.lines) + 1 /\ Len(db.lines) \in Nat
      BY <1>6, <3>1, AppendType
    <3>3. /\ db' \in [ino: Nat \ {0}, lines: Seq(StateLine)]
          /\ db'.lines = Append(db.lines, NextHwm(p))
      BY <2>1, <3>1, <3>2, DbType
    <3> QED BY <2>1, <3>1, <3>2, <3>3
  <2>3. TypeOK'
    BY <2>1, <2>2 DEF TypeInv, TypeOK, Place
  <2>4. HwmKnown'
    BY <1>2, <2>1 DEF TypeInv, TypeOK, Place, HwmKnown, InSection
  <2> QED BY <2>3, <2>4 DEF TypeInv
<1>12. CASE SyncHwm(p)
  <2> DEFINE next == Append(j.act, NextHwm(p))
             size == cache[p].size + 1
  <2>1. next \in Lines /\ HasHwm(next) /\ size \in Nat
    <3>1. next \in Lines /\ size \in Nat
      BY <1>2, <1>6 DEF Lines, CacheType
    <3>2. HasHwm(next)
      BY <1>2, <1>6 DEF Lines, HasHwm
    <3> QED BY <3>1, <3>2
  <2>2. [j EXCEPT !.act = next] \in JobType
    BY <1>2, <2>1 DEF JobType, Lines
  <2>3. [cache[p] EXCEPT !.size = size, !.lines = next] \in CacheType
    BY <1>2, <2>1 DEF CacheType, Lines
  <2>4. /\ cache' = [cache EXCEPT ![p] = IF j.op = "repair" THEN @
                                          ELSE [@ EXCEPT !.size = size, !.lines = next]]
        /\ dbSync' = Len(db.lines)
        /\ UNCHANGED <<audit, auditSync, db, clock, faults>>
        /\ \/ /\ pc' = [pc EXCEPT ![p] = "compact"] /\ job' = [job EXCEPT ![p].act = next]
              /\ UNCHANGED <<lock, done>>
           \/ Return(p)
    BY <1>12 DEF SyncHwm
  <2> HIDE DEF next, size, j
  <2>5. cache' \in [Procs -> CacheType]
    BY <2>3, <2>4 DEF TypeInv, TypeOK, Place
  <2>6. CASE Return(p)
    <3>1. /\ lock' \in Procs \cup {NoProc} /\ job' \in [Procs -> JobType]
          /\ \E place \in {"down", "idle"} : pc' = [pc EXCEPT ![p] = place]
          /\ done' \in Seq([op: {"commit", "challenge"}, ref: Ref, now: Nat])
          /\ HwmKnown'
      BY <1>1, <2>6, ReturnType
    <3>2. dbSync' \in 0..Len(db.lines) /\ UNCHANGED <<audit, auditSync, db, clock, faults>>
      BY <2>4 DEF TypeInv, TypeOK
    <3>3. pc' \in [Procs -> Place]
      BY <3>1 DEF TypeInv, TypeOK, Place
    <3>4. TypeOK'
      BY <2>5, <3>1, <3>2, <3>3 DEF TypeInv, TypeOK
    <3> QED BY <3>1, <3>4 DEF TypeInv
  <2>7. CASE /\ pc' = [pc EXCEPT ![p] = "compact"] /\ job' = [job EXCEPT ![p].act = next]
             /\ UNCHANGED <<lock, done>>
    <3>1. job' \in [Procs -> JobType]
      BY <2>2, <2>7 DEF TypeInv, TypeOK, Place, j
    <3>2. TypeOK'
      BY <2>4, <2>5, <2>7, <3>1 DEF TypeInv, TypeOK, Place
    <3>3. HwmKnown'
      BY <1>2, <2>1, <2>7 DEF TypeInv, TypeOK, Place, HwmKnown, InSection, j, JobType
    <3> QED BY <3>2, <3>3 DEF TypeInv
  <2> QED BY <2>4, <2>6, <2>7
<1>13. CASE Compact(p)
  <2> DEFINE next == Compacted(j.act, j.now)
  <2>1. PICK i \in NewInodes : /\ db' = [ino |-> i, lines |-> next]
                               /\ dbSync' = Len(next)
                               /\ cache' = [cache EXCEPT ![p] = [ino |-> i, size |-> Len(next),
                                                                 lines |-> next]]
    BY <1>13 DEF Compact
  <2>2. next \in Lines /\ i \in Nat \ {0}
    BY <1>2, CompactKeeps DEF JobType, NewInodes, TypeInv, TypeOK, Place
  <2> HIDE DEF next
  <2>3. [ino |-> i, size |-> Len(next), lines |-> next] \in CacheType
    BY <2>2 DEF CacheType, Lines
  <2>4. Return(p) /\ UNCHANGED <<audit, auditSync, clock, faults>>
    BY <1>13 DEF Compact
  <2>5. cache' \in [Procs -> CacheType]
    BY <2>1, <2>3 DEF TypeInv, TypeOK
  <2>6. /\ db' \in [ino: Nat \ {0}, lines: Seq(StateLine)]
        /\ dbSync' \in 0..Len(db'.lines)
    BY <2>1, <2>2 DEF Lines
  <2>7. TypeOK'
    BY <1>1, <2>4, <2>5, <2>6, ReturnType DEF TypeInv, TypeOK, Place
  <2> QED BY <1>1, <2>4, <2>7, ReturnType DEF TypeInv
<1>14. CASE RepairAudit(p)
  <2> DEFINE log == CutAudit(audit)
             tail == Hwm(Len(log), Len(log))
  <2>1. log \in Seq(AuditLine)
    BY FrontType DEF CutAudit, TypeInv, TypeOK, Place
  <2>2. tail \in StateLine
    BY <2>1 DEF Hwm, StateLine
  <2>3. Append(j.act, tail) \in Lines /\ HasHwm(Append(j.act, tail))
    BY <1>2, <2>2 DEF Lines, HasHwm
  <2>4. [j EXCEPT !.act = Append(@, tail)] \in JobType
    BY <1>2, <2>3 DEF JobType, Lines
  <2> HIDE DEF tail
  <2>5. /\ \/ UNCHANGED <<audit, auditSync>>
           \/ audit' = log /\ auditSync' = IF log = audit THEN auditSync ELSE Len(log)
        /\ UNCHANGED <<db, dbSync, clock, faults, done>>
        /\ \/ Leave(p)
           \/ /\ pc' = [pc EXCEPT ![p] = "audit"] /\ UNCHANGED <<lock, cache>>
              /\ \/ job' = [job EXCEPT ![p].act = Append(@, tail)]
                 \/ job' = job
    BY <1>14 DEF RepairAudit, tail
  <2> HIDE DEF log, j
  <2>6. audit' \in Seq(AuditLine) /\ auditSync' \in 0..Len(audit')
    BY <2>1, <2>5 DEF TypeInv, TypeOK, Place
  <2>7. CASE Leave(p)
    BY <2>5, <2>6, <2>7, LeaveType DEF TypeInv, TypeOK, Place
  <2>8. CASE /\ pc' = [pc EXCEPT ![p] = "audit"] /\ UNCHANGED <<lock, cache>>
             /\ \/ job' = [job EXCEPT ![p].act = Append(@, tail)]
                \/ job' = job
    <3>1. job' \in [Procs -> JobType]
      BY <2>4, <2>8 DEF TypeInv, TypeOK, Place, j
    <3>2. TypeOK'
      BY <2>5, <2>6, <2>8, <3>1 DEF TypeInv, TypeOK, Place
    <3>3. HasHwm(job'[p].act) /\ \A q \in Procs : q # p => job'[q] = job[q] /\ pc'[q] = pc[q]
      BY <1>2, <2>3, <2>8, ZenonT(60) DEF TypeInv, TypeOK, j, JobType
    <3>4. HwmKnown'
      BY <3>3 DEF TypeInv, HwmKnown, InSection
    <3> QED BY <3>2, <3>4 DEF TypeInv
  <2> QED BY <2>5, <2>7, <2>8
<1> QED BY <1>7, <1>8, <1>9, <1>10, <1>11, <1>12, <1>13, <1>14 DEF Section

LEMMA PrefixType ==
    ASSUME NEW S, NEW f \in Seq(S), NEW n \in 0..Len(f)
    PROVE  SubSeq(f, 1, n) \in Seq(S) /\ Len(SubSeq(f, 1, n)) = n
<1>1. n \in Nat /\ \A i \in 1..n : f[i] \in S
  OBVIOUS
<1> QED BY <1>1, SubSeqProperties

LEMMA AppendTwice ==
    ASSUME NEW S, NEW f \in Seq(S), NEW x \in Seq(S), NEW t \in Seq(S)
    PROVE  /\ f \o x \o t \in Seq(S) /\ Len(f \o x \o t) >= Len(f)
           /\ x \o t \in Seq(S)
<1>1. f \o x \in Seq(S) /\ x \o t \in Seq(S) /\ f \o x \o t \in Seq(S)
  BY ConcatProperties
<1>2. Len(f \o x \o t) = Len(f) + Len(x) + Len(t)
  BY <1>1, ConcatProperties
<1> QED BY <1>1, <1>2

\* A file to which a part of what was to be written was added.
IsPartial(g, f, lines, torn) ==
    \E n \in 0..Len(lines), t \in {<<>>, <<torn>>} : g = f \o (SubSeq(lines, 1, n) \o t)

\* What a failed write or a power failure leaves of a file is lines, the last of
\* which may be torn.
LEMMA PartialType ==
    ASSUME NEW S, NEW f \in Seq(S), NEW lines \in Seq(S), NEW torn \in S
    PROVE  \A g \in PartialWrite(f, lines, torn) :
              /\ g \in Seq(S) /\ Len(g) >= Len(f)
              /\ IsPartial(g, f, lines, torn)
<1>1. \A x, u \in Seq(S) : /\ f \o x \o u \in Seq(S) /\ Len(f \o x \o u) >= Len(f)
                           /\ x \o u \in Seq(S) /\ f \o x \o u = f \o (x \o u)
  <2> SUFFICES ASSUME NEW x \in Seq(S), NEW u \in Seq(S)
               PROVE  /\ f \o x \o u \in Seq(S) /\ Len(f \o x \o u) >= Len(f)
                      /\ x \o u \in Seq(S) /\ f \o x \o u = f \o (x \o u)
    OBVIOUS
  <2>1. f \o x \o u = f \o (x \o u)
    BY ConcatAssociative
  <2>2. f \o x \o u \in Seq(S) /\ Len(f \o x \o u) >= Len(f) /\ x \o u \in Seq(S)
    BY AppendTwice
  <2> QED BY <2>1, <2>2
<1>2. \A n \in 0..(Len(lines) - 1) : n \in 0..Len(lines) /\ SubSeq(lines, 1, n) \in Seq(S)
  BY PrefixType
<1>3. <<>> \in Seq(S) /\ <<torn>> \in Seq(S)
  OBVIOUS
<1> SUFFICES ASSUME NEW g \in PartialWrite(f, lines, torn)
             PROVE  /\ g \in Seq(S) /\ Len(g) >= Len(f)
                    /\ IsPartial(g, f, lines, torn)
  OBVIOUS
<1>4. PICK n \in 0..(Len(lines) - 1), t \in {<<>>, <<torn>>} : g = f \o SubSeq(lines, 1, n) \o t
  BY DEF PartialWrite
<1>5. n \in 0..Len(lines) /\ SubSeq(lines, 1, n) \in Seq(S) /\ t \in Seq(S)
  BY <1>2, <1>3, Zenon
<1>6. /\ g \in Seq(S) /\ Len(g) >= Len(f) /\ g = f \o (SubSeq(lines, 1, n) \o t)
  BY <1>1, <1>4, <1>5, Zenon
<1>7. IsPartial(g, f, lines, torn)
  BY <1>5, <1>6, Zenon DEF IsPartial
<1> QED BY <1>6, <1>7

LEMMA SurvivorsType ==
    ASSUME NEW S, NEW f \in Seq(S), NEW sync \in 0..Len(f), NEW torn \in S
    PROVE  \A g \in Survivors(f, sync, torn) : g \in Seq(S)
<1>1. \A n \in sync..Len(f) : SubSeq(f, 1, n) \in Seq(S)
  BY PrefixType
<1>2. \A n \in sync..(Len(f) - 1) : Append(SubSeq(f, 1, n), torn) \in Seq(S)
  BY <1>1, AppendType
<1> QED BY <1>1, <1>2 DEF Survivors

LEMMA BadLinesType == Torn \in StateLine /\ BadAudit("torn") \in AuditLine
BY DEF Torn, StateLine, BadAudit, AuditLine, Decision, Ref

LEMMA IoErrorType ==
    ASSUME TypeInv, NEW p \in Procs, IoError(p)
    PROVE  TypeInv'
<1>1. /\ InSection(p) /\ job[p] \in JobType /\ NextHwm(p) \in StateLine
  <2>1. InSection(p)
    BY DEF IoError, InSection
  <2> QED BY <2>1, NextType DEF TypeInv, TypeOK
<1>2. /\ db \in [ino: Nat \ {0}, lines: Seq(StateLine)] /\ dbSync \in 0..Len(db.lines)
      /\ audit \in Seq(AuditLine) /\ auditSync \in 0..Len(audit)
  BY DEF TypeInv, TypeOK
<1>3. Leave(p) /\ UNCHANGED <<auditSync, clock, done>> /\ faults' = faults + 1
  BY DEF IoError, MayFault
<1>4. /\ lock' \in Procs \cup {NoProc}
      /\ job' \in [Procs -> JobType] /\ cache' \in [Procs -> CacheType]
      /\ HwmKnown'
  BY <1>3, LeaveType
<1>5. pc' \in [Procs -> Place]
  BY <1>3, LeaveType DEF TypeInv, TypeOK, Place
<1>6. /\ db' \in [ino: Nat \ {0}, lines: Seq(StateLine)] /\ dbSync' \in 0..Len(db'.lines)
      /\ audit' \in Seq(AuditLine) /\ auditSync \in 0..Len(audit')
  <2>1. CASE UNCHANGED <<audit, db, dbSync>>
    BY <1>2, <2>1
  <2> DEFINE todo == IF pc[p] = "hwm" THEN <<NextHwm(p)>> ELSE job[p].todo
  <2>2. CASE /\ \E f \in PartialWrite(db.lines, todo, Torn) : db' = [db EXCEPT !.lines = f]
             /\ UNCHANGED <<audit, dbSync>>
    <3>1. PICK f \in PartialWrite(db.lines, todo, Torn) : db' = [db EXCEPT !.lines = f]
      BY <2>2
    <3>2. todo \in Seq(StateLine)
      BY <1>1 DEF JobType
    <3> HIDE DEF todo
    <3>3. f \in Seq(StateLine) /\ Len(f) >= Len(db.lines)
      BY <1>2, <3>2, BadLinesType, PartialType
    <3>4. db' \in [ino: Nat \ {0}, lines: Seq(StateLine)] /\ db'.lines = f
      BY <1>2, <3>1, <3>3, DbType
    <3> QED BY <1>2, <2>2, <3>3, <3>4
  <2>3. CASE /\ audit' = audit \/ audit' = Glue(audit, BadAudit("torn"))
             /\ UNCHANGED <<db, dbSync>>
    BY <1>2, <2>3, BadLinesType, GlueType
  <2>4. CASE /\ \/ UNCHANGED db
                \/ \E i \in NewInodes :
                      db' = [ino |-> i, lines |-> Compacted(job[p].act, job[p].now)]
             /\ dbSync' = Len(db'.lines)
             /\ UNCHANGED audit
    <3>1. Compacted(job[p].act, job[p].now) \in Seq(StateLine)
      BY <1>1, CompactKeeps DEF JobType, Lines
    <3>2. \A i \in NewInodes : i \in Nat \ {0}
      BY <1>2 DEF NewInodes
    <3> QED BY <1>2, <2>4, <3>1, <3>2
  <2>5. \/ UNCHANGED <<audit, db, dbSync>>
        \/ /\ \E f \in PartialWrite(db.lines, todo, Torn) : db' = [db EXCEPT !.lines = f]
           /\ UNCHANGED <<audit, dbSync>>
        \/ /\ audit' = audit \/ audit' = Glue(audit, BadAudit("torn"))
           /\ UNCHANGED <<db, dbSync>>
        \/ /\ \/ UNCHANGED db
              \/ \E i \in NewInodes :
                    db' = [ino |-> i, lines |-> Compacted(job[p].act, job[p].now)]
           /\ dbSync' = Len(db'.lines)
           /\ UNCHANGED audit
    BY DEF IoError
  <2> HIDE DEF todo
  <2> QED BY <2>1, <2>2, <2>3, <2>4, <2>5
<1>7. TypeOK'
  BY <1>3, <1>4, <1>5, <1>6 DEF TypeInv, TypeOK
<1> QED BY <1>4, <1>7 DEF TypeInv

LEMMA CrashType ==
    ASSUME TypeInv, \/ \E p \in Procs : Kill(p)
                    \/ PowerFailure
                    \/ Tick
                    \/ UNCHANGED vars
    PROVE  TypeInv'
<1>1. NoJob \in JobType /\ NoCache \in CacheType
  BY DEF NoJob, Work, NoCache, JobType, CacheType, Decision, Ref
<1>2. ASSUME NEW p \in Procs, Kill(p) PROVE TypeInv'
  <2>1. TypeOK'
    BY <1>1, <1>2 DEF TypeInv, TypeOK, Place, Kill, MayFault
  <2>2. HwmKnown'
    BY <1>2 DEF TypeInv, TypeOK, HwmKnown, InSection, Kill
  <2> QED BY <2>1, <2>2 DEF TypeInv
<1>3. CASE PowerFailure
  <2>1. /\ db \in [ino: Nat \ {0}, lines: Seq(StateLine)] /\ dbSync \in 0..Len(db.lines)
        /\ audit \in Seq(AuditLine) /\ auditSync \in 0..Len(audit)
    BY DEF TypeInv, TypeOK
  <2>2. audit' \in Seq(AuditLine) /\ auditSync' \in 0..Len(audit')
    BY <1>3, <2>1, SurvivorsType, BadLinesType DEF PowerFailure
  <2>3. db' \in [ino: Nat \ {0}, lines: Seq(StateLine)] /\ dbSync' \in 0..Len(db'.lines)
    <3>1. PICK f \in Survivors(db.lines, dbSync, Torn) : db' = [db EXCEPT !.lines = f]
      BY <1>3 DEF PowerFailure
    <3>2. f \in Seq(StateLine)
      BY <2>1, SurvivorsType, BadLinesType
    <3>3. db' \in [ino: Nat \ {0}, lines: Seq(StateLine)]
      BY <2>1, <3>1, <3>2, DbType
    <3> QED BY <1>3, <3>3 DEF PowerFailure
  <2>4. /\ lock' = NoProc /\ UNCHANGED <<clock, done>> /\ faults' = faults + 1
        /\ pc' \in [Procs -> Place] /\ job' \in [Procs -> JobType]
        /\ cache' \in [Procs -> CacheType]
    BY <1>1, <1>3 DEF Place, PowerFailure, MayFault
  <2>6. TypeOK'
    BY <2>2, <2>3, <2>4 DEF TypeInv, TypeOK
  <2>5. HwmKnown'
    BY <1>3 DEF HwmKnown, InSection, PowerFailure
  <2> QED BY <2>6, <2>5 DEF TypeInv
<1>4. CASE Tick
  <2>1. TypeOK'
    BY <1>4 DEF TypeInv, TypeOK, Tick
  <2>2. HwmKnown'
    BY <1>4 DEF TypeInv, HwmKnown, InSection, Tick
  <2> QED BY <2>1, <2>2 DEF TypeInv
<1>5. CASE UNCHANGED vars
  <2>1. TypeOK'
    BY <1>5 DEF TypeInv, TypeOK, vars
  <2>2. HwmKnown'
    BY <1>5 DEF TypeInv, HwmKnown, InSection, vars
  <2> QED BY <2>1, <2>2 DEF TypeInv
<1> QED BY <1>2, <1>3, <1>4, <1>5

LEMMA TypeStep == TypeInv /\ [Next]_vars => TypeInv'
BY HandlerType, LifecycleType, SectionType, IoErrorType, CrashType DEF Next

\* The ledger files, the caches and the sections stay well formed, and every section
\* that numbers an audit record knows the audit_hwm it follows, however many processes,
\* crashes and I/O errors there are.
THEOREM LedgerTypeInv == Spec => []TypeInv
<1>1. Spec => []TypeInv
  BY TypeInit, TypeStep, PTL DEF Spec
<1> QED BY <1>1

\* TypeOK of MCLedger's runs, for every number of processes and every bound.
THEOREM LedgerTypeOK == Spec => []TypeOK
<1>1. TypeInv => TypeOK
  BY DEF TypeInv
<1> QED BY <1>1, LedgerTypeInv, PTL

-----------------------------------------------------------------------------
(* The cache of a process *)

\* A cache of the present file holds the records of its first `size` bytes.
Mirrors(p) == cache[p].ino = db.ino =>
    /\ cache[p].size <= Len(db.lines)
    /\ cache[p].lines = SubSeq(db.lines, 1, cache[p].size)

\* A repair works on the files alone.
RepairSection(p) == /\ cache[p] = NoCache
                    /\ pc[p] \in {"cut", "audit", "async", "hwm", "hsync"}

\* Any other section knows what is in state.db at each of its steps.
AppendSection(p) ==
    LET j == job[p]
    IN  /\ pc[p] # "cut"
        /\ pc[p] = "write" => j.op \in {"commit", "open", "revoke", "challenge"}
        /\ j.op = "challenge" => "challenge" \in Ops
        /\ Whole(j.act) /\ Whole(j.todo)
        /\ cache[p].ino = db.ino /\ cache[p].size = Len(j.act)
        /\ j.op # "challenge" \/ pc[p] \in {"write", "compact"} => cache[p].lines = j.act
        /\ db.lines = CASE pc[p] = "wsync" -> j.act \o j.todo
                        [] pc[p] = "hsync" -> Append(j.act, NextHwm(p))
                        [] OTHER -> j.act

Coherent(p) ==
    /\ cache[p].ino <= db.ino
    /\ Whole(cache[p].lines)
    /\ pc[p] = "down" => cache[p] = NoCache
    /\ pc[p] = "idle" => Mirrors(p)
    /\ InSection(p) => /\ lock = p
                       /\ IF job[p].op = "repair" THEN RepairSection(p) ELSE AppendSection(p)

CacheInv == TypeInv /\ \A p \in Procs : Coherent(p)
-----------------------------------------------------------------------------
(* Facts about files that grow *)

LEMMA PrefixOfConcat ==
    ASSUME NEW f \in Lines, NEW x \in Lines, NEW n \in Nat, n <= Len(f)
    PROVE  /\ SubSeq(f \o x, 1, n) = SubSeq(f, 1, n)
           /\ n <= Len(f \o x)
<1>1. /\ Len(f) \in Nat /\ Len(x) \in Nat /\ Len(f \o x) = Len(f) + Len(x) /\ f \o x \in Lines
      /\ \A i \in 1..Len(f) : (f \o x)[i] = f[i]
  BY ConcatProperties DEF Lines
<1>2. /\ SubSeq(f \o x, 1, n) \in Lines /\ Len(SubSeq(f \o x, 1, n)) = n
      /\ \A i \in 1..n : SubSeq(f \o x, 1, n)[i] = (f \o x)[i]
  BY <1>1, SubSeqProperties DEF Lines
<1>3. /\ SubSeq(f, 1, n) \in Lines /\ Len(SubSeq(f, 1, n)) = n
      /\ \A i \in 1..n : SubSeq(f, 1, n)[i] = f[i]
  BY <1>1, SubSeqProperties DEF Lines
<1> QED BY <1>1, <1>2, <1>3, SeqEqual DEF Lines

LEMMA PrefixOfFront ==
    ASSUME NEW f \in Lines, Len(f) > 0, Last(f).kind = "torn",
           NEW n \in Nat, n <= Len(f), Whole(SubSeq(f, 1, n))
    PROVE  n <= Len(Front(f)) /\ SubSeq(Front(f), 1, n) = SubSeq(f, 1, n)
<1>1. Len(f) \in Nat /\ \A i \in 1..n : f[i] \in StateLine
  BY DEF Lines
<1>2. /\ SubSeq(f, 1, n) \in Lines /\ Len(SubSeq(f, 1, n)) = n
      /\ \A i \in 1..n : SubSeq(f, 1, n)[i] = f[i]
  BY <1>1, SubSeqProperties DEF Lines
<1>3. n # Len(f)
  <2> SUFFICES ASSUME n = Len(f) PROVE FALSE
    OBVIOUS
  <2>1. SubSeq(f, 1, n)[n].kind = "torn" /\ n \in DOMAIN SubSeq(f, 1, n)
    BY <1>1, <1>2 DEF Last, Lines
  <2> QED BY <2>1 DEF Whole
<1>4. n <= Len(f) - 1 /\ Front(f) = SubSeq(f, 1, Len(f) - 1)
  BY <1>1, <1>3 DEF Front
<1>5. /\ Front(f) \in Lines /\ Len(Front(f)) = Len(f) - 1
      /\ \A i \in 1..(Len(f) - 1) : Front(f)[i] = f[i]
  <2> DEFINE m == Len(f) - 1
  <2>1. m \in Nat /\ \A i \in 1..m : f[i] \in StateLine
    BY <1>1 DEF Lines
  <2> HIDE DEF m
  <2>2. /\ SubSeq(f, 1, m) \in Lines /\ Len(SubSeq(f, 1, m)) = m
        /\ \A i \in 1..m : SubSeq(f, 1, m)[i] = f[i]
    BY <2>1, SubSeqProperties DEF Lines
  <2> QED BY <1>4, <2>2 DEF m
<1>6. /\ SubSeq(Front(f), 1, n) \in Lines /\ Len(SubSeq(Front(f), 1, n)) = n
      /\ \A i \in 1..n : SubSeq(Front(f), 1, n)[i] = Front(f)[i]
  BY <1>1, <1>4, <1>5, SubSeqProperties DEF Lines
<1>7. \A i \in 1..n : SubSeq(Front(f), 1, n)[i] = SubSeq(f, 1, n)[i]
  BY <1>1, <1>2, <1>4, <1>5, <1>6
<1> QED BY <1>2, <1>4, <1>5, <1>6, <1>7, SeqEqual DEF Lines

LEMMA WholeConcat ==
    ASSUME NEW f \in Lines, NEW x \in Lines, Whole(f), Whole(x)
    PROVE  f \o x \in Lines /\ Len(f \o x) = Len(f) + Len(x) /\ Whole(f \o x)
<1>1. /\ Len(f) \in Nat /\ Len(x) \in Nat /\ Len(f \o x) = Len(f) + Len(x) /\ f \o x \in Lines
      /\ \A i \in 1..(Len(f) + Len(x)) : (f \o x)[i] = IF i <= Len(f) THEN f[i] ELSE x[i - Len(f)]
  BY ConcatProperties DEF Lines
<1> QED BY <1>1 DEF Whole, Lines

LEMMA WholeCompacted ==
    ASSUME NEW st \in Lines, NEW now \in Nat, Whole(st)
    PROVE  Whole(Compacted(st, now))
BY CompactKeeps DEF Whole, Kept, IsLiveGrant, IsLastHwm

LEMMA WholeRecords ==
    /\ Whole(<<>>)
    /\ \A p \in Principals, now \in Nat : Whole(<<Challenge(p, now)>>)
    /\ \A s \in Subjects, e \in Entitlements : Whole(<<Revoke(s, e)>>)
    /\ \A n \in Nat, m \in Nat : Whole(<<Hwm(n, m)>>)
BY DEF Whole, Challenge, Revoke, Hwm
-----------------------------------------------------------------------------
(* What the actions of one process mean for the others *)

\* The changes a section makes to state.db: it appends lines, cuts a torn last line,
\* or renames a compacted file over it.
FileStep ==
    \/ db'.ino = db.ino /\ \E x \in Lines : db'.lines = db.lines \o x
    \/ /\ db'.ino = db.ino /\ Len(db.lines) > 0
       /\ Last(db.lines).kind = "torn" /\ db'.lines = Front(db.lines)
    \/ db'.ino > db.ino

LEMMA OthersKeep ==
    ASSUME CacheInv, NEW p \in Procs, lock \in {p, NoProc}, FileStep, TypeOK',
           NEW q \in Procs, q # p,
           pc'[q] = pc[q], job'[q] = job[q], cache'[q] = cache[q]
    PROVE  Coherent(q)'
<1>1. Coherent(q) /\ ~InSection(q)
  BY LedgerConstants DEF CacheInv, Coherent
<1>2. ~InSection(q)'
  BY <1>1 DEF InSection
<1>3. /\ cache[q] \in CacheType /\ db.ino \in Nat /\ db'.ino \in Nat
      /\ db.lines \in Lines /\ db'.lines \in Lines
  BY DEF CacheInv, TypeInv, TypeOK, Lines
<1>4. cache'[q].ino <= db'.ino
  BY <1>1, <1>3 DEF FileStep, Coherent, CacheType
<1>5. ASSUME pc[q] = "idle" PROVE Mirrors(q)'
  <2>1. Mirrors(q) /\ Whole(cache[q].lines) /\ cache[q].ino <= db.ino
    BY <1>1, <1>5 DEF Coherent
  <2>2. CASE db'.ino = db.ino /\ \E x \in Lines : db'.lines = db.lines \o x
    BY <1>3, <2>1, <2>2, PrefixOfConcat DEF Mirrors, CacheType
  <2>3. CASE /\ db'.ino = db.ino /\ Len(db.lines) > 0
             /\ Last(db.lines).kind = "torn" /\ db'.lines = Front(db.lines)
    BY <1>3, <2>1, <2>3, PrefixOfFront DEF Mirrors, CacheType
  <2>4. CASE db'.ino > db.ino
    BY <1>3, <2>1, <2>4 DEF Mirrors, CacheType
  <2> QED BY <2>2, <2>3, <2>4 DEF FileStep
<1> QED BY <1>1, <1>2, <1>4, <1>5 DEF Coherent

LEMMA NoFileStep ==
    ASSUME TypeOK, UNCHANGED db
    PROVE  FileStep
<1>1. db.lines \in Seq(StateLine)
  BY DEF TypeOK
<1>2. db.lines \o <<>> = db.lines /\ <<>> \in Lines
  BY <1>1, ConcatEmptySeq DEF Lines
<1> QED BY <1>2 DEF FileStep

\* What an idle process reads under the lock is the file.
LEMMA ViewIsFile ==
    ASSUME CacheInv, NEW p \in Procs, pc[p] = "idle"
    PROVE  /\ View(p) = db.lines
           /\ Loaded(p) = [ino |-> db.ino, size |-> Len(db.lines), lines |-> db.lines]
<1>1. Mirrors(p) /\ db.lines \in Seq(StateLine) /\ cache[p].size \in Nat
  BY DEF CacheInv, Coherent, TypeInv, TypeOK, CacheType
<1>2. CASE Warm(p)
  <2>1. /\ cache[p].lines = SubSeq(db.lines, 1, cache[p].size)
        /\ cache[p].size <= Len(db.lines)
    BY <1>1, <1>2 DEF Warm, Mirrors
  <2>2. SubSeq(db.lines, 1, cache[p].size) \o SubSeq(db.lines, cache[p].size + 1, Len(db.lines))
            = SubSeq(db.lines, 1, Len(db.lines))
    <3> DEFINE k == cache[p].size
    <3>1. /\ 1 \in 1..Len(db.lines) + 1 /\ k \in (1 - 1)..Len(db.lines)
          /\ Len(db.lines) \in k..Len(db.lines)
      BY <1>1, <2>1
    <3> HIDE DEF k
    <3>2. SubSeq(db.lines, 1, k) \o SubSeq(db.lines, k + 1, Len(db.lines))
              = SubSeq(db.lines, 1, Len(db.lines))
      BY <1>1, <3>1, ConcatAdjacentSubSeq
    <3> QED BY <3>2 DEF k
  <2>3. SubSeq(db.lines, 1, Len(db.lines)) = db.lines
    BY <1>1, SubSeqFull
  <2> QED BY <1>2, <2>1, <2>2, <2>3 DEF View, Loaded
<1>3. CASE ~Warm(p)
  BY <1>3 DEF View, Loaded
<1> QED BY <1>2, <1>3
-----------------------------------------------------------------------------
(* One lemma per kind of step *)

LEMMA EnterCoherent ==
    ASSUME CacheInv, TypeInv', NEW p \in Procs, NEW work \in JobType, Enter(p, work),
           work.act = View(p), Whole(work.todo), work.op # "repair",
           work.op = "challenge" => "challenge" \in Ops,
           work.todo = <<>> \/ work.op \in {"commit", "open", "revoke", "challenge"},
           work.op = "challenge" => work.todo # <<>>
    PROVE  \A q \in Procs : Coherent(q)'
<1>1. /\ pc[p] = "idle" /\ lock = NoProc /\ lock' = p /\ Parses(View(p))
      /\ job' = [job EXCEPT ![p] = work]
      /\ pc' = [pc EXCEPT ![p] = IF work.todo = <<>> THEN "audit" ELSE "write"]
      /\ cache' = [cache EXCEPT ![p] = Loaded(p)]
      /\ UNCHANGED <<audit, db>>
  BY DEF Enter, Start
<1>2. /\ View(p) = db.lines
      /\ Loaded(p) = [ino |-> db.ino, size |-> Len(db.lines), lines |-> db.lines]
  BY <1>1, ViewIsFile
<1>3. Whole(db.lines)
  BY <1>1, <1>2 DEF Parses, Whole
<1>4. /\ job'[p] = work /\ cache'[p] = Loaded(p) /\ pc'[p] \in {"audit", "write"}
      /\ pc'[p] = "write" <=> work.todo # <<>>
  BY <1>1, SMTT(30) DEF CacheInv, TypeInv, TypeOK
<1>5. AppendSection(p)'
  BY <1>1, <1>2, <1>3, <1>4 DEF AppendSection
<1>6. Coherent(p)'
  BY <1>1, <1>2, <1>3, <1>4, <1>5, SMTT(30) DEF Coherent, CacheInv, TypeInv, TypeOK
<1>7. ASSUME NEW q \in Procs, q # p PROVE Coherent(q)'
  BY <1>1, <1>7, NoFileStep, OthersKeep DEF CacheInv, TypeInv, TypeOK
<1> QED BY <1>6, <1>7

LEMMA HandlerCoherent ==
    ASSUME CacheInv, TypeInv', NEW p \in Procs, Handler(p)
    PROVE  \A q \in Procs : Coherent(q)'
<1> DEFINE st == View(p)
<1>1. st \in Seq(StateLine) /\ <<>> \in Seq(StateLine)
  BY ViewType DEF CacheInv, TypeInv, Lines
<1>2. Nows \subseteq Nat
  BY NowsType DEF CacheInv, TypeInv
<1> HIDE DEF st
<1>3. ASSUME NEW now \in Nat, NEW dec \in {"event", "deny"},
             Enter(p, Work("audit", st, <<>>, dec, NoRef, now))
      PROVE  \A q \in Procs : Coherent(q)'
  <2> DEFINE work == Work("audit", st, <<>>, dec, NoRef, now)
  <2>1. work \in JobType /\ work.act = st /\ work.todo = <<>> /\ work.op = "audit"
    BY <1>1 DEF Work, JobType, Decision, Ref
  <2>2. Enter(p, work)
    BY <1>3
  <2>3. Whole(work.todo)
    BY <2>1, WholeRecords
  <2> HIDE DEF work
  <2> QED BY <2>1, <2>2, <2>3, EnterCoherent DEF st
<1>4. CASE AppendAudit(p)
  BY <1>2, <1>3, <1>4 DEF AppendAudit, st
<1>5. CASE Snapshot(p)
  <2>1. /\ pc[p] = "idle" /\ lock = NoProc /\ Parses(View(p))
        /\ cache' = [cache EXCEPT ![p] = Loaded(p)]
        /\ UNCHANGED <<audit, db, lock, pc, job>>
    BY <1>5 DEF Snapshot
  <2>2. /\ View(p) = db.lines
        /\ Loaded(p) = [ino |-> db.ino, size |-> Len(db.lines), lines |-> db.lines]
    BY <2>1, ViewIsFile
  <2>3. /\ cache'[p] = [ino |-> db.ino, size |-> Len(db.lines), lines |-> db.lines]
        /\ db.lines \in Seq(StateLine) /\ db.ino \in Nat
    BY <2>1, <2>2 DEF CacheInv, TypeInv, TypeOK
  <2>4. Mirrors(p)'
    BY <2>1, <2>3, SubSeqFull DEF Mirrors
  <2>5. Whole(db.lines) /\ ~InSection(p)'
    BY <2>1, <2>2 DEF Parses, Whole, InSection
  <2>6. Coherent(p)'
    BY <2>1, <2>3, <2>4, <2>5 DEF Coherent
  <2>7. ASSUME NEW q \in Procs, q # p PROVE Coherent(q)'
    BY <2>1, <2>7, NoFileStep, OthersKeep DEF CacheInv, TypeInv, TypeOK
  <2> QED BY <2>6, <2>7
<1>6. ASSUME NEW principal \in Principals, NEW now \in Nows, RecordChallenge(p, principal, now)
      PROVE  \A q \in Procs : Coherent(q)'
  <2> DEFINE asked == Work("challenge", st, <<Challenge(principal, now)>>, "challenge",
                           [challenged |-> principal], now)
  <2>1. now \in Nat /\ now + Minute \in Nat
    BY <1>2, LedgerConstants
  <2>2. Challenge(principal, now) \in StateLine
    BY <2>1 DEF Challenge, StateLine
  <2>3. /\ asked \in JobType /\ asked.act = st /\ asked.todo = <<Challenge(principal, now)>>
        /\ asked.op = "challenge"
    BY <1>1, <2>1, <2>2 DEF Work, JobType, Decision, Ref
  <2>4. /\ Enter(p, asked) \/ Enter(p, Work("audit", st, <<>>, "deny", NoRef, now))
        /\ "challenge" \in Ops
    BY <1>6 DEF RecordChallenge, st
  <2> HIDE DEF asked
  <2>5. CASE Enter(p, asked)
    <3>1. Whole(asked.todo) /\ asked.todo # <<>>
      BY <2>1, <2>3, WholeRecords
    <3> QED BY <2>3, <2>4, <2>5, <3>1, EnterCoherent DEF st
  <2> QED BY <1>3, <2>1, <2>4, <2>5
<1>7. ASSUME NEW w \in Writes, NEW now \in Nows, CommitWrite(p, w, now)
      PROVE  \A q \in Procs : Coherent(q)'
  <2> DEFINE passed == Work("commit", st, CommitLines(w, now), "allow", w, now)
  <2>1. now \in Nat /\ CommitLines(w, now) \in Seq(StateLine) /\ Whole(CommitLines(w, now))
    BY <1>2, CommitAdds DEF Lines
  <2>2. /\ passed \in JobType /\ passed.act = st /\ passed.todo = CommitLines(w, now)
        /\ passed.op = "commit"
    BY <1>1, <2>1 DEF Work, JobType, Decision, Ref
  <2>3. Enter(p, passed) \/ Enter(p, Work("audit", st, <<>>, "deny", NoRef, now))
    BY <1>7 DEF CommitWrite, st
  <2> HIDE DEF passed
  <2>4. CASE Enter(p, passed)
    BY <2>1, <2>2, <2>4, EnterCoherent DEF st
  <2> QED BY <1>3, <2>1, <2>3, <2>4
<1>8. ASSUME NEW s \in Subjects, NEW e \in Entitlements, RevokeGrant(p, s, e)
      PROVE  \A q \in Procs : Coherent(q)'
  <2>1. PICK now \in Nows : Enter(p, Work("revoke", st, <<Revoke(s, e)>>, "revoked",
                                          [subject |-> s, entitlement |-> e], now))
    BY <1>8 DEF RevokeGrant, st
  <2> DEFINE work == Work("revoke", st, <<Revoke(s, e)>>, "revoked",
                          [subject |-> s, entitlement |-> e], now)
  <2>2. Revoke(s, e) \in StateLine
    BY DEF Revoke, StateLine
  <2>3. /\ work \in JobType /\ work.act = st /\ work.todo = <<Revoke(s, e)>>
        /\ work.op = "revoke"
    BY <1>1, <1>2, <2>2 DEF Work, JobType, Decision, Ref
  <2>4. Enter(p, work)
    BY <2>1
  <2> HIDE DEF work
  <2> QED BY <2>3, <2>4, EnterCoherent, WholeRecords DEF st
<1> QED BY <1>4, <1>5, <1>6, <1>7, <1>8 DEF Handler

LEMMA LifecycleCoherent ==
    ASSUME CacheInv, TypeInv', NEW p \in Procs, Lifecycle(p)
    PROVE  \A q \in Procs : Coherent(q)'
<1>1. /\ Coherent(p) /\ db.lines \in Seq(StateLine) /\ db.ino \in Nat /\ Len(audit) \in Nat
      /\ pc \in [Procs -> Place] /\ cache \in [Procs -> CacheType] /\ job \in [Procs -> JobType]
  BY SMTT(30) DEF CacheInv, TypeInv, TypeOK
<1>2. /\ Parses(db.lines) => Whole(db.lines)
      /\ FreshCache = [ino |-> db.ino, size |-> Len(db.lines), lines |-> db.lines]
      /\ SubSeq(db.lines, 1, Len(db.lines)) = db.lines
  BY <1>1, SubSeqFull DEF Parses, Whole, FreshCache
<1>3. NoCache.ino = 0 /\ Whole(NoCache.lines)
  BY WholeRecords DEF NoCache
<1>4. CASE Open(p)
  <2>1. /\ pc'[p] = "idle" /\ cache'[p] = FreshCache /\ UNCHANGED <<db, lock, job>>
        /\ lock = NoProc /\ Parses(db.lines)
        /\ \A q \in Procs : q # p => pc'[q] = pc[q] /\ cache'[q] = cache[q]
    BY <1>1, <1>4 DEF Open, CanEnterDown
  <2>2. Coherent(p)'
    BY <1>1, <1>2, <2>1 DEF Coherent, Mirrors, InSection
  <2>3. ASSUME NEW q \in Procs, q # p PROVE Coherent(q)'
    BY <2>1, <2>3, NoFileStep, OthersKeep DEF CacheInv, TypeInv
  <2> QED BY <2>2, <2>3
<1>5. CASE OpenRecover(p)
  <2> DEFINE work == Work("open", db.lines, <<Hwm(Len(audit), Len(audit))>>,
                          "recovered", NoRef, clock)
  <2>1. /\ lock = NoProc /\ Parses(db.lines) /\ UNCHANGED <<audit, db>>
        /\ lock' = p /\ job' = [job EXCEPT ![p] = work]
        /\ pc' = [pc EXCEPT ![p] = IF work.todo = <<>> THEN "audit" ELSE "write"]
        /\ cache' = [cache EXCEPT ![p] = FreshCache]
    BY <1>5 DEF OpenRecover, CanEnterDown, Start
  <2>2. work.op = "open" /\ work.act = db.lines /\ work.todo # <<>> /\ Whole(work.todo)
    BY <1>1, WholeRecords DEF Work
  <2> HIDE DEF work
  <2>3. job'[p] = work /\ pc'[p] = "write" /\ cache'[p] = FreshCache
    BY <1>1, <2>1, <2>2
  <2>4. AppendSection(p)'
    BY <1>2, <2>1, <2>2, <2>3 DEF AppendSection
  <2>5. Coherent(p)'
    BY <1>1, <1>2, <2>1, <2>2, <2>3, <2>4 DEF Coherent
  <2>6. ASSUME NEW q \in Procs, q # p PROVE Coherent(q)'
    BY <1>1, <2>1, <2>6, NoFileStep, OthersKeep DEF CacheInv, TypeInv
  <2> QED BY <2>5, <2>6
<1>6. CASE RepairState(p)
  <2> DEFINE lines == CutState(db.lines)
             work == Work("repair", lines, <<>>, "repaired", NoRef, clock)
  <2>1. /\ pc[p] = "down" /\ lock = NoProc /\ cache' = cache /\ audit' = audit
        /\ db' = [db EXCEPT !.lines = lines]
        /\ \/ lock' = p /\ pc' = [pc EXCEPT ![p] = "cut"] /\ job' = [job EXCEPT ![p] = work]
           \/ UNCHANGED <<lock, pc, job>>
    BY <1>6 DEF RepairState, CanEnterDown
  <2>2. work.op = "repair"
    BY DEF Work
  <2>3. db'.ino = db.ino /\ db'.lines = lines
    BY <2>1 DEF CacheInv, TypeInv, TypeOK
  <2>4. FileStep
    <3>1. CASE lines = db.lines
      <4>1. db.lines \o <<>> = db.lines /\ <<>> \in Lines
        BY <1>1, ConcatEmptySeq DEF Lines
      <4> QED BY <2>3, <3>1, <4>1 DEF FileStep
    <3>2. CASE lines # db.lines
      BY <2>3, <3>2 DEF FileStep, CutState
    <3> QED BY <3>1, <3>2
  <2> HIDE DEF lines, work
  <2>5. Coherent(p)'
    <3>1. cache'[p] = NoCache /\ db'.ino \in Nat
      BY <1>1, <2>1, <2>3 DEF Coherent
    <3>2. CASE lock' = p /\ pc' = [pc EXCEPT ![p] = "cut"] /\ job' = [job EXCEPT ![p] = work]
      <4>1. pc'[p] = "cut" /\ job'[p].op = "repair"
        BY <1>1, <2>2, <3>2
      <4> QED BY <1>3, <3>1, <3>2, <4>1 DEF Coherent, RepairSection
    <3>3. CASE UNCHANGED <<lock, pc, job>>
      BY <1>3, <2>1, <3>1, <3>3 DEF Coherent, InSection
    <3> QED BY <2>1, <3>2, <3>3
  <2>6. ASSUME NEW q \in Procs, q # p PROVE Coherent(q)'
    BY <1>1, <2>1, <2>4, <2>6, OthersKeep DEF CacheInv, TypeInv
  <2> QED BY <2>5, <2>6
<1>7. CASE Exit(p)
  <2>1. /\ pc'[p] = "down" /\ cache'[p] = NoCache /\ UNCHANGED <<audit, db, lock, job>>
        /\ \A q \in Procs : q # p => pc'[q] = pc[q] /\ cache'[q] = cache[q]
    BY <1>1, <1>7 DEF Exit
  <2>2. Coherent(p)'
    BY <1>1, <1>3, <2>1 DEF Coherent, InSection
  <2>3. ASSUME NEW q \in Procs, q # p PROVE Coherent(q)'
    BY <2>1, <2>3 DEF CacheInv, Coherent, Mirrors, InSection, RepairSection, AppendSection, NextHwm
  <2> QED BY <2>2, <2>3
<1> QED BY <1>4, <1>5, <1>6, <1>7 DEF Lifecycle

\* A section that gives up leaves a cache behind that is still a prefix of the file,
\* or, if it is the start of a process or a repair, no process.
LEMMA LeaveCoherent ==
    ASSUME CacheInv, TypeInv', NEW p \in Procs, Leave(p), FileStep, InSection(p),
           job[p].op # "challenge"
    PROVE  \A q \in Procs : Coherent(q)'
<1>1. /\ Coherent(p) /\ db.lines \in Lines /\ db.ino \in Nat
      /\ db'.lines \in Lines /\ db'.ino \in Nat
      /\ pc \in [Procs -> Place] /\ cache \in [Procs -> CacheType] /\ job[p] \in JobType
      /\ job \in [Procs -> JobType]
  BY DEF CacheInv, TypeInv, TypeOK, Lines
<1>2. /\ lock = p /\ lock' = NoProc /\ job' = [job EXCEPT ![p] = NoJob]
      /\ \A q \in Procs : q # p => pc'[q] = pc[q] /\ job'[q] = job[q] /\ cache'[q] = cache[q]
  BY <1>1 DEF Leave, Coherent
<1>3. Coherent(p)'
  <2>1. CASE job[p].op \in {"open", "repair"}
    <3>1. pc'[p] = "down" /\ cache'[p] = NoCache
      BY <1>1, <2>1 DEF Leave
    <3> QED BY <1>1, <3>1, WholeRecords DEF Coherent, InSection, NoCache
  <2>2. CASE job[p].op \notin {"open", "repair"}
    <3>1. pc'[p] = "idle" /\ cache'[p] = cache[p] /\ AppendSection(p)
      BY <1>1, <2>2 DEF Leave, Coherent
    <3>2. /\ cache[p].ino = db.ino /\ cache[p].lines = job[p].act
          /\ cache[p].size = Len(job[p].act) /\ job[p].act \in Lines /\ job[p].todo \in Lines
      BY <1>1, <3>1 DEF AppendSection, JobType, Lines
    <3>3. Mirrors(p)
      <4>1. \/ db.lines = job[p].act \o job[p].todo
            \/ db.lines = Append(job[p].act, NextHwm(p))
            \/ db.lines = job[p].act
        BY <3>1 DEF AppendSection
      <4>2. <<NextHwm(p)>> \in Lines
            /\ Append(job[p].act, NextHwm(p)) = job[p].act \o <<NextHwm(p)>>
        <5>1. NextHwm(p) \in StateLine
          BY NextType DEF CacheInv
        <5>2. job[p].act \in Seq(StateLine)
          BY <3>2 DEF Lines
        <5> QED BY <5>1, <5>2, SMTT(30) DEF Lines
      <4>3. /\ Len(job[p].act) \in Nat
            /\ SubSeq(job[p].act, 1, Len(job[p].act)) = job[p].act
        BY <3>2, SubSeqFull DEF Lines
      <4>4. CASE db.lines = job[p].act \o job[p].todo
        <5>1. /\ SubSeq(job[p].act \o job[p].todo, 1, Len(job[p].act))
                    = SubSeq(job[p].act, 1, Len(job[p].act))
              /\ Len(job[p].act) <= Len(job[p].act \o job[p].todo)
          <6> DEFINE a == job[p].act
                     t == job[p].todo
          <6>1. a \in Lines /\ t \in Lines /\ Len(a) \in Nat /\ Len(a) <= Len(a)
            BY <3>2, <4>3
          <6> HIDE DEF a, t
          <6>2. SubSeq(a \o t, 1, Len(a)) = SubSeq(a, 1, Len(a)) /\ Len(a) <= Len(a \o t)
            BY <6>1, PrefixOfConcat
          <6> QED BY <6>2 DEF a, t
        <5> QED BY <3>2, <4>3, <4>4, <5>1 DEF Mirrors
      <4>5. CASE db.lines = Append(job[p].act, NextHwm(p))
        <5>1. /\ SubSeq(job[p].act \o <<NextHwm(p)>>, 1, Len(job[p].act))
                    = SubSeq(job[p].act, 1, Len(job[p].act))
              /\ Len(job[p].act) <= Len(job[p].act \o <<NextHwm(p)>>)
          BY <3>2, <4>2, <4>3, PrefixOfConcat
        <5> QED BY <3>2, <4>2, <4>3, <4>5, <5>1 DEF Mirrors
      <4>6. CASE db.lines = job[p].act
        BY <3>2, <4>3, <4>6 DEF Mirrors
      <4> QED BY <4>1, <4>4, <4>5, <4>6
    <3>4. Whole(cache[p].lines) /\ cache[p].size \in Nat
      BY <1>1 DEF Coherent, CacheType
    <3>5. Mirrors(p)'
      <4>1. CASE db'.ino = db.ino /\ \E x \in Lines : db'.lines = db.lines \o x
        BY <1>1, <3>1, <3>2, <3>3, <3>4, <4>1, PrefixOfConcat, SMTT(30) DEF Mirrors
      <4>2. CASE /\ db'.ino = db.ino /\ Len(db.lines) > 0
                 /\ Last(db.lines).kind = "torn" /\ db'.lines = Front(db.lines)
        BY <1>1, <3>1, <3>2, <3>3, <3>4, <4>2, PrefixOfFront DEF Mirrors
      <4>3. CASE db'.ino > db.ino
        BY <1>1, <3>1, <3>2, <4>3 DEF Mirrors
      <4> QED BY <4>1, <4>2, <4>3 DEF FileStep
    <3>6. db'.ino >= db.ino
      BY <1>1 DEF FileStep
    <3> QED BY <1>1, <3>1, <3>2, <3>4, <3>5, <3>6 DEF Coherent, InSection
  <2> QED BY <2>1, <2>2
<1>4. ASSUME NEW q \in Procs, q # p PROVE Coherent(q)'
  BY <1>2, <1>4, OthersKeep DEF TypeInv
<1> QED BY <1>3, <1>4

LEMMA SectionCoherent ==
    ASSUME CacheInv, TypeInv', NEW p \in Procs, Section(p), ~ReuseInodes
    PROVE  \A q \in Procs : Coherent(q)'
<1> DEFINE j == job[p]
<1>1. InSection(p)
  BY DEF Section, InSection, WriteState, SyncState, WriteAudit, SyncAudit, WriteHwm,
         SyncHwm, Compact, RepairAudit
<1>2. /\ db.lines \in Lines /\ db.ino \in Nat /\ cache[p] \in CacheType /\ j \in JobType
      /\ j.act \in Lines /\ j.todo \in Lines /\ j.now \in Nat
      /\ pc \in [Procs -> Place] /\ cache \in [Procs -> CacheType] /\ job \in [Procs -> JobType]
      /\ db \in [ino: Nat \ {0}, lines: Seq(StateLine)]
  BY DEF CacheInv, TypeInv, TypeOK, JobType, Lines
<1>3. /\ cache[p].ino <= db.ino /\ Whole(cache[p].lines) /\ lock = p
      /\ j.op = "repair" => RepairSection(p)
      /\ j.op # "repair" => AppendSection(p)
  BY <1>1 DEF CacheInv, Coherent
<1>4. NextHwm(p) \in StateLine /\ <<NextHwm(p)>> \in Lines
  <2>1. NextHwm(p) \in StateLine
    BY <1>1, NextType DEF CacheInv
  <2> QED BY <2>1 DEF Lines
<1>5. NewInodes = {db.ino + 1}
  BY <1>2 DEF NewInodes
\* Whatever the step, it is enough to look at the process that takes it.
<1>6. SUFFICES /\ Coherent(p)' /\ FileStep
               /\ \A q \in Procs : q # p => pc'[q] = pc[q] /\ job'[q] = job[q] /\ cache'[q] = cache[q]
  BY <1>3, OthersKeep DEF TypeInv
<1>7. CASE WriteState(p)
  <2>1. /\ pc[p] = "write" /\ AppendSection(p) /\ j.op \in {"commit", "open", "revoke", "challenge"}
    BY <1>3, <1>7 DEF WriteState, RepairSection, AppendSection
  <2>2. /\ db.lines = j.act /\ cache[p].ino = db.ino /\ cache[p].size = Len(j.act)
        /\ cache[p].lines = j.act /\ Whole(j.act) /\ Whole(j.todo)
        /\ j.op = "challenge" => "challenge" \in Ops
    BY <2>1 DEF AppendSection
  <2> DEFINE st == j.act \o j.todo
  <2>3. st \in Lines /\ Len(st) = Len(j.act) + Len(j.todo) /\ Whole(st)
    BY <1>2, <2>2, WholeConcat
  <2>4. /\ db'.ino = db.ino /\ db'.lines = st /\ lock' = lock
        /\ \A q \in Procs : q # p => pc'[q] = pc[q] /\ job'[q] = job[q] /\ cache'[q] = cache[q]
    BY <1>2, <1>7, <2>2 DEF WriteState
  <2>5. FileStep
    BY <1>2, <2>2, <2>4 DEF FileStep
  <2>6. CASE j.op \in {"commit", "open"}
    <3>1. pc'[p] = "wsync" /\ job'[p] = j /\ cache'[p] = cache[p]
      BY <1>2, <1>7, <2>6 DEF WriteState
    <3> HIDE DEF j
    <3>2. AppendSection(p)'
      BY <2>2, <2>4, <2>6, <3>1 DEF AppendSection
    <3> QED BY <1>2, <1>3, <2>4, <2>5, <2>6, <3>1, <3>2 DEF Coherent
  <2>7. CASE j.op \notin {"commit", "open"}
    <3>1. /\ pc'[p] = "audit" /\ job'[p] = [j EXCEPT !.act = st]
          /\ cache'[p] = [cache[p] EXCEPT !.size = @ + Len(j.todo),
                                          !.lines = IF j.op = "revoke" THEN st ELSE @]
      BY <1>2, <1>7, <2>7 DEF WriteState
    <3>2. /\ job'[p].act = st /\ job'[p].todo = j.todo /\ job'[p].op = j.op
          /\ cache'[p].size = Len(st) /\ cache'[p].ino = db.ino
          /\ cache'[p].lines = IF j.op = "revoke" THEN st ELSE j.act
      BY <1>2, <2>2, <2>3, <3>1 DEF JobType, CacheType
    <3> HIDE DEF j, st
    <3>3. AppendSection(p)'
      BY <2>1, <2>2, <2>3, <2>4, <2>7, <3>1, <3>2 DEF AppendSection
    <3> QED BY <1>2, <1>3, <2>1, <2>2, <2>3, <2>4, <2>5, <2>7, <3>1, <3>2, <3>3 DEF Coherent
  <2> QED BY <2>6, <2>7
<1>8. CASE SyncState(p)
  <2>1. /\ pc[p] = "wsync" /\ AppendSection(p) /\ j.op # "repair"
    BY <1>3, <1>8 DEF SyncState, RepairSection
  <2> DEFINE st == j.act \o j.todo
  <2>2. /\ db.lines = st /\ cache[p].ino = db.ino /\ cache[p].size = Len(j.act)
        /\ Whole(j.act) /\ Whole(j.todo)
        /\ j.op = "challenge" => "challenge" \in Ops
    BY <2>1 DEF AppendSection
  <2>3. st \in Lines /\ Len(st) = Len(j.act) + Len(j.todo) /\ Whole(st)
    BY <1>2, <2>2, WholeConcat
  <2>4. /\ UNCHANGED db /\ lock' = lock /\ pc'[p] = "audit" /\ job'[p] = [j EXCEPT !.act = st]
        /\ cache'[p] = [cache[p] EXCEPT !.size = @ + Len(j.todo), !.lines = st]
        /\ \A q \in Procs : q # p => pc'[q] = pc[q] /\ job'[q] = job[q] /\ cache'[q] = cache[q]
    BY <1>2, <1>8 DEF SyncState
  <2>5. /\ job'[p].act = st /\ job'[p].todo = j.todo /\ job'[p].op = j.op
        /\ cache'[p].size = Len(st) /\ cache'[p].ino = db.ino /\ cache'[p].lines = st
    BY <1>2, <2>2, <2>3, <2>4 DEF JobType, CacheType
  <2>6. FileStep
    BY <2>4, NoFileStep DEF CacheInv, TypeInv
  <2> HIDE DEF j, st
  <2>7. AppendSection(p)'
    <3>1. /\ pc'[p] = "audit" /\ db'.lines = st /\ db'.ino = db.ino
          /\ Whole(st) /\ Whole(j.todo)
      BY <2>2, <2>3, <2>4
    <3> QED BY <2>2, <2>5, <3>1 DEF AppendSection
  <2> QED BY <1>2, <1>3, <2>1, <2>2, <2>3, <2>4, <2>5, <2>6, <2>7 DEF Coherent
<1>9. CASE WriteAudit(p) \/ SyncAudit(p)
  <2>1. /\ pc[p] \in {"audit", "async"} /\ pc'[p] \in {"async", "hwm"}
        /\ UNCHANGED <<db, lock, job, cache>>
        /\ \A q \in Procs : q # p => pc'[q] = pc[q]
    BY <1>2, <1>9 DEF WriteAudit, SyncAudit
  <2>2. j.op = "repair" => RepairSection(p)'
    BY <1>3, <2>1 DEF RepairSection
  <2>3. j.op # "repair" => AppendSection(p)'
    BY <1>3, <2>1 DEF AppendSection
  <2>4. FileStep
    BY <2>1, NoFileStep DEF CacheInv, TypeInv
  <2> QED BY <1>3, <2>1, <2>2, <2>3, <2>4 DEF Coherent
<1>10. CASE WriteHwm(p)
  <2>1. /\ pc[p] = "hwm" /\ pc'[p] = "hsync" /\ UNCHANGED <<audit, lock, job, cache>>
        /\ db'.ino = db.ino /\ db'.lines = Append(db.lines, NextHwm(p))
        /\ \A q \in Procs : q # p => pc'[q] = pc[q]
    BY <1>2, <1>10 DEF WriteHwm
  <2>2. j.op = "repair" => RepairSection(p)'
    BY <1>3, <2>1 DEF RepairSection
  <2>3. NextHwm(p)' = NextHwm(p)
    BY <2>1 DEF NextHwm
  <2>4. j.op # "repair" => AppendSection(p)'
    BY <1>3, <2>1, <2>3 DEF AppendSection
  <2>5. Append(db.lines, NextHwm(p)) = db.lines \o <<NextHwm(p)>>
    BY <1>2, <1>4 DEF Lines
  <2>6. FileStep
    BY <1>4, <2>1, <2>5 DEF FileStep
  <2> QED BY <1>3, <2>1, <2>2, <2>4, <2>6 DEF Coherent
<1>11. CASE SyncHwm(p)
  <2> DEFINE st == Append(j.act, NextHwm(p))
  <2>1. /\ pc[p] = "hsync" /\ UNCHANGED <<audit, db>>
        /\ cache'[p] = IF j.op = "repair" THEN cache[p]
                       ELSE [cache[p] EXCEPT !.size = cache[p].size + 1, !.lines = st]
        /\ IF cache[p].size + 1 > CompactAt
           THEN pc'[p] = "compact" /\ job'[p] = [j EXCEPT !.act = st] /\ lock' = lock
           ELSE Return(p)
        /\ \A q \in Procs : q # p => pc'[q] = pc[q] /\ job'[q] = job[q] /\ cache'[q] = cache[q]
    BY <1>2, <1>11 DEF SyncHwm, Return
  <2>2. FileStep
    BY <2>1, NoFileStep DEF CacheInv, TypeInv
  <2>3. CASE j.op = "repair"
    <3>1. cache'[p] = NoCache /\ cache[p].size = 0
      BY <1>3, <2>1, <2>3 DEF RepairSection, NoCache
    <3>2. pc'[p] = "down"
      BY <1>2, <2>1, <2>3, <3>1, LedgerConstants DEF Return
    <3>3. NoCache.ino <= db'.ino /\ Whole(NoCache.lines)
      BY <1>2, <2>1, WholeRecords DEF NoCache
    <3>4. Coherent(p)'
      BY <3>1, <3>2, <3>3 DEF Coherent, InSection
    <3> QED BY <2>1, <2>2, <3>4
  <2>4. CASE j.op # "repair"
    <3>1. /\ db.lines = st /\ cache[p].ino = db.ino /\ cache[p].size = Len(j.act)
          /\ Whole(j.act) /\ Whole(j.todo)
          /\ j.op = "challenge" => "challenge" \in Ops
      BY <1>3, <2>1, <2>4 DEF AppendSection
    <3>2. st \in Lines /\ Len(st) = Len(j.act) + 1 /\ st = j.act \o <<NextHwm(p)>>
      BY <1>2, <1>4, SMTT(30) DEF Lines
    <3>3. Whole(<<NextHwm(p)>>)
      BY DEF Whole, NextHwm, Hwm
    <3>4. Whole(st)
      <4>1. Whole(j.act \o <<NextHwm(p)>>)
        BY <1>2, <1>4, <3>1, <3>3, WholeConcat
      <4> QED BY <3>2, <4>1
    <3>5. cache'[p].ino = db.ino /\ cache'[p].size = Len(st) /\ cache'[p].lines = st
      BY <1>2, <2>1, <2>4, <3>1, <3>2 DEF CacheType
    <3>6. CASE Return(p)
      <4>1. pc'[p] = "idle"
        BY <1>2, <2>4, <3>6 DEF Return
      <4> HIDE DEF st
      <4>2. Mirrors(p)'
        <5>1. SubSeq(st, 1, Len(st)) = st /\ Len(st) \in Nat
          BY <3>2, SubSeqFull DEF Lines
        <5>2. db'.lines = st
          BY <2>1, <3>1
        <5> QED BY <3>5, <5>1, <5>2 DEF Mirrors
      <4> QED BY <1>2, <2>1, <2>2, <3>4, <3>5, <4>1, <4>2 DEF Coherent, InSection
    <3>7. CASE pc'[p] = "compact" /\ job'[p] = [j EXCEPT !.act = st] /\ lock' = lock
      <4>1. job'[p].act = st /\ job'[p].todo = j.todo /\ job'[p].op = j.op
        BY <1>2, <3>7 DEF JobType
      <4> HIDE DEF st, j
      <4>2. AppendSection(p)'
        <5>1. /\ pc'[p] = "compact" /\ db'.lines = st /\ db'.ino = db.ino
              /\ Whole(j.todo)
              /\ j.op = "challenge" => "challenge" \in Ops
          BY <2>1, <3>1, <3>7
        <5> QED BY <3>4, <3>5, <4>1, <5>1 DEF AppendSection
      <4> QED BY <1>2, <1>3, <2>1, <2>2, <2>4, <3>4, <3>5, <3>7, <4>1, <4>2 DEF Coherent
    <3> QED BY <2>1, <3>6, <3>7
  <2> QED BY <2>3, <2>4
<1>12. CASE Compact(p)
  <2> DEFINE st == Compacted(j.act, j.now)
             i == db.ino + 1
  <2>1. /\ pc[p] = "compact" /\ db' = [ino |-> i, lines |-> st] /\ Return(p)
        /\ cache' = [cache EXCEPT ![p] = [ino |-> i, size |-> Len(st), lines |-> st]]
    BY <1>5, <1>12 DEF Compact
  <2>2. j.op # "repair" /\ Whole(j.act)
    BY <1>3, <2>1 DEF RepairSection, AppendSection
  <2>3. st \in Lines /\ Whole(st) /\ Len(st) \in Nat
    <3>1. st \in Lines
      BY <1>2, CompactKeeps
    <3>2. Whole(st)
      BY <1>2, <2>2, WholeCompacted
    <3> QED BY <3>1, <3>2 DEF Lines
  <2>4. /\ pc'[p] = "idle" /\ cache'[p] = [ino |-> i, size |-> Len(st), lines |-> st]
        /\ \A q \in Procs : q # p => pc'[q] = pc[q] /\ job'[q] = job[q] /\ cache'[q] = cache[q]
    BY <1>2, <2>1, <2>2 DEF Return
  <2> HIDE DEF st
  <2>5. FileStep /\ i \in Nat
    BY <1>2, <2>1 DEF FileStep
  <2> HIDE DEF i
  <2>6. Mirrors(p)'
    BY <2>1, <2>3, <2>4, SubSeqFull DEF Mirrors, Lines
  <2> QED BY <2>1, <2>3, <2>4, <2>5, <2>6 DEF Coherent, InSection
<1>13. CASE RepairAudit(p)
  <2>1. j.op = "repair" /\ cache[p] = NoCache /\ pc[p] = "cut"
    BY <1>3, <1>13 DEF RepairAudit, AppendSection, RepairSection
  <2>2. /\ UNCHANGED db
        /\ \/ Leave(p)
           \/ /\ pc' = [pc EXCEPT ![p] = "audit"] /\ UNCHANGED <<lock, cache>>
              /\ \E x \in Lines : job' = [job EXCEPT ![p].act = x]
    <3>1. \A log \in Seq(AuditLine) : Append(j.act, Hwm(Len(log), Len(log))) \in Lines
      BY <1>2 DEF Lines, StateLine, Hwm
    <3>2. CutAudit(audit) \in Seq(AuditLine)
      BY FrontType DEF CutAudit, CacheInv, TypeInv, TypeOK
    <3>3. job' = job => job' = [job EXCEPT ![p].act = j.act]
      BY <1>2 DEF JobType
    <3> QED BY <1>2, <1>13, <3>1, <3>2, <3>3 DEF RepairAudit
  <2>3. FileStep
    BY <2>2, NoFileStep DEF CacheInv, TypeInv
  <2>4. CASE Leave(p)
    <3>1. Coherent(p)'
      BY <1>1, <2>1, <2>3, <2>4, LeaveCoherent
    <3>2. \A q \in Procs : q # p => pc'[q] = pc[q] /\ job'[q] = job[q] /\ cache'[q] = cache[q]
      BY <1>2, <2>4 DEF Leave
    <3> QED BY <2>3, <3>1, <3>2
  <2>5. CASE /\ pc' = [pc EXCEPT ![p] = "audit"] /\ UNCHANGED <<lock, cache>>
             /\ \E x \in Lines : job' = [job EXCEPT ![p].act = x]
    <3>1. /\ pc'[p] = "audit" /\ job'[p].op = "repair"
          /\ \A q \in Procs : q # p => pc'[q] = pc[q] /\ job'[q] = job[q]
      BY <1>2, <2>1, <2>5 DEF JobType
    <3>2. RepairSection(p)'
      BY <2>1, <2>5, <3>1 DEF RepairSection
    <3> QED BY <1>3, <2>2, <2>3, <2>5, <3>1, <3>2 DEF Coherent
  <2> QED BY <2>2, <2>4, <2>5
<1> QED BY <1>7, <1>8, <1>9, <1>10, <1>11, <1>12, <1>13 DEF Section

\* A failed write or rename changes the file like a successful one, only less.
LEMMA IoErrorCoherent ==
    ASSUME CacheInv, TypeInv', NEW p \in Procs, IoError(p), ~ReuseInodes,
           "challenge" \notin Ops \/ "io" \notin Faults
    PROVE  \A q \in Procs : Coherent(q)'
<1>1. InSection(p) /\ Leave(p) /\ "io" \in Faults
  BY DEF IoError, MayFault, InSection
<1>2. /\ db \in [ino: Nat \ {0}, lines: Seq(StateLine)] /\ job[p] \in JobType
      /\ NextHwm(p) \in StateLine
  BY <1>1, NextType DEF CacheInv, TypeInv, TypeOK
<1>3. job[p].op # "challenge"
  BY <1>1 DEF CacheInv, Coherent, AppendSection
<1>4. FileStep
  <2>1. CASE UNCHANGED db
    BY <2>1, NoFileStep DEF CacheInv, TypeInv
  <2>2. ASSUME NEW lines \in Seq(StateLine),
               \E f \in PartialWrite(db.lines, lines, Torn) : db' = [db EXCEPT !.lines = f]
        PROVE  FileStep
    <3>0. PICK f \in PartialWrite(db.lines, lines, Torn) : db' = [db EXCEPT !.lines = f]
      BY <2>2
    <3>1. \E x \in Lines : f = db.lines \o x
      <4>1. db.lines \in Seq(StateLine) /\ Torn \in StateLine
        BY <1>2, BadLinesType
      <4>2. IsPartial(f, db.lines, lines, Torn)
        BY <4>1, PartialType
      <4>3. PICK n \in 0..Len(lines), t \in {<<>>, <<Torn>>} :
                f = db.lines \o (SubSeq(lines, 1, n) \o t)
        BY <4>2, Zenon DEF IsPartial
      <4>4. SubSeq(lines, 1, n) \in Seq(StateLine)
        BY PrefixType
      <4>5. <<>> \in Seq(StateLine) /\ <<Torn>> \in Seq(StateLine)
        BY <4>1
      <4>6. t \in Seq(StateLine)
        BY <4>5, Zenon
      <4>7. SubSeq(lines, 1, n) \o t \in Lines
        BY <4>4, <4>6, ConcatProperties DEF Lines
      <4> QED BY <4>3, <4>7, Zenon
    <3>2. db'.ino = db.ino /\ db'.lines = f
      BY <1>2, <3>0
    <3> QED BY <3>1, <3>2 DEF FileStep
  <2>3. CASE \E i \in NewInodes : db' = [ino |-> i, lines |-> Compacted(job[p].act, job[p].now)]
    BY <1>2, <2>3 DEF NewInodes, FileStep
  <2>4. <<NextHwm(p)>> \in Seq(StateLine) /\ job[p].todo \in Seq(StateLine)
    BY <1>2 DEF JobType
  <2> DEFINE todo == IF pc[p] = "hwm" THEN <<NextHwm(p)>> ELSE job[p].todo
  <2>5. todo \in Seq(StateLine)
    BY <2>4
  <2>6. \/ UNCHANGED db
        \/ \E f \in PartialWrite(db.lines, todo, Torn) : db' = [db EXCEPT !.lines = f]
        \/ \E i \in NewInodes : db' = [ino |-> i, lines |-> Compacted(job[p].act, job[p].now)]
    BY DEF IoError
  <2> HIDE DEF todo
  <2> QED BY <2>1, <2>2, <2>3, <2>5, <2>6
<1> QED BY <1>1, <1>3, <1>4, LeaveCoherent

LEMMA CrashCoherent ==
    ASSUME CacheInv, TypeInv', \/ \E p \in Procs : Kill(p)
                               \/ PowerFailure
                               \/ Tick
                               \/ UNCHANGED vars
    PROVE  \A q \in Procs : Coherent(q)'
<1>1. /\ db.ino \in Nat /\ db'.ino \in Nat
      /\ pc \in [Procs -> Place] /\ cache \in [Procs -> CacheType] /\ job \in [Procs -> JobType]
  BY DEF CacheInv, TypeInv, TypeOK
<1>2. \A n \in Nat : NoCache.ino <= n /\ Whole(NoCache.lines)
  BY WholeRecords DEF NoCache
<1>3. ASSUME NEW p \in Procs, Kill(p) PROVE \A q \in Procs : Coherent(q)'
  <2>1. /\ pc'[p] = "down" /\ cache'[p] = NoCache /\ UNCHANGED <<audit, db>>
        /\ lock' = IF lock = p THEN NoProc ELSE lock
        /\ \A q \in Procs : q # p => pc'[q] = pc[q] /\ job'[q] = job[q] /\ cache'[q] = cache[q]
    BY <1>1, <1>3 DEF Kill
  <2>2. Coherent(p)'
    BY <1>1, <1>2, <2>1 DEF Coherent, InSection
  <2>3. ASSUME NEW q \in Procs, q # p PROVE Coherent(q)'
    BY <2>1, <2>3 DEF CacheInv, Coherent, Mirrors, InSection, RepairSection, AppendSection, NextHwm
  <2> QED BY <2>2, <2>3
<1>4. CASE PowerFailure
  <2> SUFFICES ASSUME NEW q \in Procs PROVE Coherent(q)'
    OBVIOUS
  <2>1. pc'[q] = "down" /\ cache'[q] = NoCache
    BY <1>4 DEF PowerFailure
  <2> QED BY <1>1, <1>2, <2>1 DEF Coherent, InSection
<1>5. CASE Tick \/ UNCHANGED vars
  <2>1. UNCHANGED <<audit, db, lock, pc, job, cache>>
    BY <1>5 DEF Tick, vars
  <2> QED BY <2>1 DEF CacheInv, Coherent, Mirrors, InSection, RepairSection, AppendSection, NextHwm
<1> QED BY <1>3, <1>4, <1>5
-----------------------------------------------------------------------------
LEMMA CacheInit == Init => CacheInv
<1> SUFFICES ASSUME Init PROVE CacheInv
  OBVIOUS
<1>1. \A p \in Procs : Coherent(p)
  BY WholeRecords DEF Init, Coherent, InSection, NoCache
<1> QED BY <1>1, TypeInit DEF CacheInv

LEMMA CacheStep ==
    ASSUME ~ReuseInodes, "challenge" \notin Ops \/ "io" \notin Faults
    PROVE  CacheInv /\ [Next]_vars => CacheInv'
<1> SUFFICES ASSUME CacheInv, [Next]_vars PROVE CacheInv'
  OBVIOUS
<1>1. TypeInv'
  BY TypeStep DEF CacheInv
<1>2. \A q \in Procs : Coherent(q)'
  BY <1>1, HandlerCoherent, LifecycleCoherent, SectionCoherent, IoErrorCoherent, CrashCoherent
  DEF Next
<1> QED BY <1>1, <1>2 DEF CacheInv

\* A critical section starts from the content of state.db and, step by step, knows
\* what it has made of it: the invariant behind CacheCoherent.
THEOREM LedgerCacheInv ==
    ASSUME ~ReuseInodes, "challenge" \notin Ops \/ "io" \notin Faults
    PROVE  Spec => []CacheInv
<1>1. CacheInv /\ [Next]_vars => CacheInv'
  BY CacheStep
<1> QED BY <1>1, CacheInit, PTL DEF Spec

\* CacheCoherent of run LedgerCrash, for every number of processes, every policy and
\* every sequence of crashes: withExclusiveLock never serves stale records.
THEOREM LedgerCacheCoherent ==
    ASSUME ~ReuseInodes, "challenge" \notin Ops \/ "io" \notin Faults
    PROVE  Spec => []CacheCoherent
<1>1. CacheInv => CacheCoherent
  BY ViewIsFile DEF CacheCoherent
<1> QED BY <1>1, LedgerCacheInv, PTL
-----------------------------------------------------------------------------
(***************************************************************************)
(* The two files of the ledger agree, at every step of every section.      *)
(*                                                                         *)
(*  - The audit chain is contiguous and audit_hwm is its tail, or one      *)
(*    record behind it, in whatever a power failure leaves of the files,   *)
(*    so that repair and serve can always go on from there.                *)
(*  - A write that was let through has its own record in the part of the   *)
(*    audit file that no power failure takes.                              *)
(*                                                                         *)
(* Both need that a process which dies takes the machine with it.  After a *)
(* kill or an I/O error the page cache keeps a record the next section     *)
(* does not expect: run LedgerFork refutes Recoverable with one kill.      *)
(***************************************************************************)

\* The last audit_hwm among the first n lines of st speaks of k audit records.
AtMark(st, n, k) ==
    \E i \in 1..n : /\ st[i] = Hwm(k, k)
                    /\ \A j \in (i + 1)..n : st[j].kind # "hwm"
Markless(st) == \A i \in DOMAIN st : st[i].kind # "hwm"
-----------------------------------------------------------------------------
(* State records: audit_hwm in a file that grows, is cut off or compacted *)

LEMMA MarkIsLast ==
    ASSUME NEW st \in Lines, NEW k \in Nat, AtMark(st, Len(st), k)
    PROVE  HwmOf(st) = Hwm(k, k) /\ HasHwm(st) /\ HwmOf(st).seq = k /\ HwmOf(st).hash = k
<1>1. Len(st) \in Nat /\ DOMAIN st = 1..Len(st)
  BY DEF Lines
<1>2. PICK i \in 1..Len(st) : /\ st[i] = Hwm(k, k)
                              /\ \A j \in (i + 1)..Len(st) : st[j].kind # "hwm"
  BY DEF AtMark
<1>3. st[i].kind = "hwm"
  BY <1>2 DEF Hwm
<1>4. HasHwm(st)
  BY <1>1, <1>3 DEF HasHwm
<1>5. PICK h \in DOMAIN st : IsLastHwm(st, h) /\ HwmOf(st) = st[h]
  BY <1>4, LastHwm
<1>6. h = i
  <2>1. ~(i > h)
    BY <1>1, <1>3, <1>5 DEF IsLastHwm
  <2>2. ~(h > i)
    BY <1>1, <1>2, <1>5 DEF IsLastHwm
  <2> QED BY <1>1, <2>1, <2>2
<1> QED BY <1>2, <1>4, <1>5, <1>6 DEF Hwm

LEMMA MarkBehind ==
    ASSUME NEW st \in Lines, NEW t \in Lines, NEW n \in 0..Len(st), NEW k, AtMark(st, n, k)
    PROVE  AtMark(st \o t, n, k)
<1>1. /\ Len(st) \in Nat
      /\ \A i \in 1..Len(st) : (st \o t)[i] = st[i]
  BY ConcatAt
<1> QED BY <1>1 DEF AtMark

LEMMA MarkKept ==
    ASSUME NEW st \in Lines, NEW t \in Lines, Markless(t), NEW k, AtMark(st, Len(st), k),
           NEW n \in Len(st)..Len(st \o t)
    PROVE  AtMark(st \o t, n, k)
<1>1. /\ Len(st) \in Nat /\ Len(t) \in Nat /\ Len(st \o t) = Len(st) + Len(t)
      /\ DOMAIN t = 1..Len(t)
      /\ \A i \in 1..(Len(st) + Len(t)) :
            (st \o t)[i] = IF i <= Len(st) THEN st[i] ELSE t[i - Len(st)]
  BY ConcatAt DEF Lines
<1>2. PICK i \in 1..Len(st) : /\ st[i] = Hwm(k, k)
                              /\ \A j \in (i + 1)..Len(st) : st[j].kind # "hwm"
  BY DEF AtMark
<1>3. i \in 1..n /\ (st \o t)[i] = Hwm(k, k)
  BY <1>1, <1>2
<1>4. \A j \in (i + 1)..n : (st \o t)[j].kind # "hwm"
  <2> SUFFICES ASSUME NEW j \in (i + 1)..n PROVE (st \o t)[j].kind # "hwm"
    OBVIOUS
  <2>1. CASE j <= Len(st)
    BY <1>1, <1>2, <2>1
  <2>2. CASE ~(j <= Len(st))
    <3>1. j - Len(st) \in 1..Len(t) /\ j \in 1..(Len(st) + Len(t))
      BY <1>1, <2>2
    <3> QED BY <1>1, <2>2, <3>1 DEF Markless
  <2> QED BY <2>1, <2>2
<1> QED BY <1>3, <1>4 DEF AtMark

LEMMA MarkNew ==
    ASSUME NEW st \in Lines, NEW k \in Nat
    PROVE  /\ AtMark(Append(st, Hwm(k, k)), Len(st) + 1, k)
           /\ Append(st, Hwm(k, k)) \in Lines /\ Len(Append(st, Hwm(k, k))) = Len(st) + 1
           /\ Append(st, Hwm(k, k)) = st \o <<Hwm(k, k)>>
           /\ <<Hwm(k, k)>> \in Lines /\ Len(st) \in Nat
<1>1. Hwm(k, k) \in StateLine
  BY DEF Hwm, StateLine
<1>2. /\ Append(st, Hwm(k, k)) \in Lines /\ Len(Append(st, Hwm(k, k))) = Len(st) + 1
      /\ Append(st, Hwm(k, k))[Len(st) + 1] = Hwm(k, k)
      /\ Append(st, Hwm(k, k)) = st \o <<Hwm(k, k)>>
      /\ <<Hwm(k, k)>> \in Lines /\ Len(st) \in Nat
  BY <1>1 DEF Lines
<1> QED BY <1>2 DEF AtMark

LEMMA MarkCut ==
    ASSUME NEW st \in Lines, NEW n \in 0..Len(st), NEW k, AtMark(st, n, k)
    PROVE  /\ AtMark(SubSeq(st, 1, n), n, k)
           /\ SubSeq(st, 1, n) \in Lines /\ Len(SubSeq(st, 1, n)) = n /\ n > 0
<1>1. n \in Nat /\ Len(st) \in Nat /\ \A i \in 1..n : st[i] \in StateLine
  BY DEF Lines
<1>2. /\ SubSeq(st, 1, n) \in Lines /\ Len(SubSeq(st, 1, n)) = n
      /\ \A i \in 1..n : SubSeq(st, 1, n)[i] = st[i]
  BY <1>1, SubSeqProperties DEF Lines
<1>3. PICK i \in 1..n : /\ st[i] = Hwm(k, k)
                        /\ \A j \in (i + 1)..n : st[j].kind # "hwm"
  BY DEF AtMark
<1>4. SubSeq(st, 1, n)[i] = Hwm(k, k)
  BY <1>2, <1>3
<1>5. \A j \in (i + 1)..n : SubSeq(st, 1, n)[j].kind # "hwm"
  BY <1>1, <1>2, <1>3
<1> QED BY <1>1, <1>2, <1>3, <1>4, <1>5 DEF AtMark

LEMMA ParsesHwm ==
    ASSUME NEW st \in Lines, Parses(st) PROVE HasHwm(st) /\ Whole(st)
BY DEF Parses, HasHwm, Whole

\* A prefix that holds an audit_hwm parses like the file it was cut from.
LEMMA ParsesCut ==
    ASSUME NEW st \in Lines, Parses(st), NEW n \in 0..Len(st), NEW k, AtMark(st, n, k)
    PROVE  Parses(SubSeq(st, 1, n))
<1> DEFINE f == SubSeq(st, 1, n)
<1>1. n \in Nat /\ Len(st) \in Nat /\ DOMAIN st = 1..Len(st)
      /\ \A i \in 1..n : st[i] \in StateLine
  BY DEF Lines
<1>2. DOMAIN f = 1..n /\ \A i \in 1..n : f[i] = st[i] /\ i \in DOMAIN st
  BY <1>1, SubSeqProperties DEF Lines
<1> HIDE DEF f
<1>3. PICK h \in 1..n : st[h] = Hwm(k, k)
  BY DEF AtMark
<1>4. h \in DOMAIN f /\ f[h].kind = "hwm"
  BY <1>2, <1>3 DEF Hwm
<1> QED BY <1>2, <1>4 DEF Parses, f

\* So does a file to which records were appended, if no audit_hwm falls behind.
LEMMA ParsesConcat ==
    ASSUME NEW st \in Lines, Parses(st), NEW t \in Lines, Whole(t), Markless(t)
    PROVE  Parses(st \o t)
<1>1. /\ Len(st) \in Nat /\ Len(t) \in Nat /\ DOMAIN st = 1..Len(st) /\ DOMAIN t = 1..Len(t)
      /\ DOMAIN (st \o t) = 1..(Len(st) + Len(t))
      /\ \A i \in 1..(Len(st) + Len(t)) :
            (st \o t)[i] = IF i <= Len(st) THEN st[i] ELSE t[i - Len(st)]
  BY ConcatAt DEF Lines
<1>2. \A i \in DOMAIN (st \o t) : /\ (st \o t)[i].kind # "torn"
                                  /\ (st \o t)[i].kind = "hwm" => i \in DOMAIN st /\ (st \o t)[i] = st[i]
  <2> SUFFICES ASSUME NEW i \in 1..(Len(st) + Len(t))
               PROVE  /\ (st \o t)[i].kind # "torn"
                      /\ (st \o t)[i].kind = "hwm" => i \in DOMAIN st /\ (st \o t)[i] = st[i]
    BY <1>1
  <2>1. CASE i <= Len(st)
    BY <1>1, <2>1 DEF Parses
  <2>2. CASE ~(i <= Len(st))
    <3>1. i - Len(st) \in DOMAIN t
      BY <1>1, <2>2
    <3> QED BY <1>1, <2>2, <3>1 DEF Whole, Markless
  <2> QED BY <2>1, <2>2
<1>3. \E i \in DOMAIN (st \o t) : (st \o t)[i].kind = "hwm"
  <2>1. PICK i \in DOMAIN st : st[i].kind = "hwm"
    BY DEF Parses
  <2> QED BY <1>1, <2>1
<1> QED BY <1>2, <1>3 DEF Parses

LEMMA ParsesNext ==
    ASSUME NEW st \in Lines, Parses(st), NEW m \in Nat, AtMark(st, Len(st), m),
           NEW k \in Nat, m <= k
    PROVE  Parses(Append(st, Hwm(k, k)))
<1> DEFINE g == Append(st, Hwm(k, k))
           n == Len(st)
<1>1. /\ n \in Nat /\ DOMAIN st = 1..n /\ DOMAIN g = 1..(n + 1)
      /\ g[n + 1] = Hwm(k, k) /\ \A i \in 1..n : g[i] = st[i]
  BY MarkNew DEF Lines
<1>2. PICK h \in 1..n : st[h] = Hwm(m, m) /\ \A j \in (h + 1)..n : st[j].kind # "hwm"
  BY DEF AtMark
<1>3. \A i \in 1..n : st[i].kind = "hwm" => st[i] \in HwmLine /\ st[i].seq <= m
  <2> SUFFICES ASSUME NEW i \in 1..n, st[i].kind = "hwm"
               PROVE  st[i] \in HwmLine /\ st[i].seq <= m
    OBVIOUS
  <2>1. st[i] \in HwmLine
    BY <1>1, LineKinds DEF Lines
  <2>2. i <= h
    BY <1>1, <1>2
  <2>3. CASE i = h
    BY <1>2, <2>1, <2>3 DEF Hwm, HwmLine
  <2>4. CASE i < h
    BY <1>1, <1>2, <2>1, <2>4 DEF Parses, Hwm
  <2> QED BY <1>1, <2>1, <2>2, <2>3, <2>4
<1> HIDE DEF g, n
<1>4. /\ Hwm(k, k).kind = "hwm" /\ Hwm(k, k).seq = k
  BY DEF Hwm
<1>5. \A i \in DOMAIN g : g[i].kind # "torn"
  BY <1>1, <1>4 DEF Parses
<1>6. n + 1 \in DOMAIN g /\ g[n + 1].kind = "hwm"
  BY <1>1, <1>4
<1>7. ASSUME NEW i \in DOMAIN g, NEW j \in DOMAIN g, i < j,
             g[i].kind = "hwm", g[j].kind = "hwm"
      PROVE  g[i].seq <= g[j].seq
  <2>1. i \in 1..n
    BY <1>1, <1>7
  <2>2. CASE j \in 1..n
    BY <1>1, <1>7, <2>1, <2>2 DEF Parses
  <2>3. CASE j = n + 1
    <3>1. g[i] = st[i] /\ st[i].seq <= m /\ st[i].seq \in Nat /\ g[j].seq = k
      BY <1>1, <1>3, <1>4, <1>7, <2>1, <2>3 DEF HwmLine
    <3> QED BY <3>1
  <2> QED BY <1>1, <2>2, <2>3
<1> QED BY <1>5, <1>6, <1>7 DEF Parses, g

\* A compaction keeps one audit_hwm, the last.
LEMMA CompactMarks ==
    ASSUME NEW st \in Lines, NEW now \in Nat, Parses(st), NEW m \in Nat,
           AtMark(st, Len(st), m)
    PROVE  /\ Parses(Compacted(st, now)) /\ Compacted(st, now) \in Lines
           /\ AtMark(Compacted(st, now), Len(Compacted(st, now)), m)
<1> DEFINE f == Compacted(st, now)
           K == Kept(st, now)
<1>0. PICK n, idx : ListedBy(f, st, K, n, idx)
  BY KeptList, Zenon
<1>1. /\ n \in Nat /\ idx \in [1..n -> K]
      /\ f \in Lines /\ Len(f) = n
      /\ \A k \in 1..n : f[k] = st[idx[k]]
      /\ \A i \in K : \E k \in 1..n : idx[k] = i
      /\ \A i, k \in 1..n : idx[i] = idx[k] => i = k
  BY <1>0 DEF ListedBy
<1>2. DOMAIN f = 1..n /\ DOMAIN st = 1..Len(st) /\ Len(st) \in Nat
  BY <1>1 DEF Lines
<1>3. PICK h \in 1..Len(st) : st[h] = Hwm(m, m) /\ \A j \in (h + 1)..Len(st) : st[j].kind # "hwm"
  BY DEF AtMark
<1>4. st[h].kind = "hwm" /\ \A k \in DOMAIN st : k > h => st[k].kind # "hwm"
  BY <1>2, <1>3 DEF Hwm
<1>5. h \in K
  BY <1>2, <1>4 DEF Kept, IsLastHwm
<1>6. \A i \in K : i \in DOMAIN st /\ (st[i].kind = "hwm" => i = h)
  <2> SUFFICES ASSUME NEW i \in K PROVE i \in DOMAIN st /\ (st[i].kind = "hwm" => i = h)
    OBVIOUS
  <2>1. i \in DOMAIN st
    BY DEF Kept
  <2>2. ASSUME st[i].kind = "hwm" PROVE i = h
    <3>1. IsLastHwm(st, i)
      BY <2>2 DEF Kept, IsLiveGrant
    <3>2. ~(h > i) /\ ~(i > h)
      BY <1>2, <1>3, <1>4, <2>1, <2>2, <3>1 DEF IsLastHwm
    <3> QED BY <1>2, <2>1, <3>2
  <2> QED BY <2>1, <2>2
<1> HIDE DEF f, K
<1>7. PICK k \in 1..n : idx[k] = h
  BY <1>1, <1>5
<1>8. \A i \in 1..n : f[i] = st[idx[i]] /\ idx[i] \in K
  BY <1>1
<1>9. \A i \in 1..n : f[i].kind = "hwm" => i = k
  BY <1>1, <1>6, <1>7, <1>8
<1>10. f[k] = Hwm(m, m) /\ f[k].kind = "hwm"
  BY <1>3, <1>4, <1>7, <1>8
<1>11. AtMark(f, Len(f), m)
  BY <1>1, <1>9, <1>10 DEF AtMark
<1>12. \A i \in 1..n : f[i].kind # "torn"
  BY <1>6, <1>8 DEF Parses
<1>13. Parses(f)
  BY <1>2, <1>9, <1>10, <1>12 DEF Parses
<1> QED BY <1>1, <1>11, <1>13 DEF f

\* What a power failure leaves of a file, once repair has cut a torn last line off.
LEMMA StateSurvives ==
    ASSUME NEW st \in Lines, Whole(st), NEW sync \in 0..Len(st), sync > 0,
           NEW g \in Survivors(st, sync, Torn)
    PROVE  g \in Lines /\ \E n \in sync..Len(st) : CutState(g) = SubSeq(st, 1, n)
<1>1. Len(st) \in Nat /\ Torn \in StateLine
  BY BadLinesType DEF Lines
<1>2. ASSUME NEW n \in sync..Len(st)
      PROVE  /\ SubSeq(st, 1, n) \in Lines /\ Len(SubSeq(st, 1, n)) = n /\ n > 0 /\ n \in Nat
             /\ \A i \in 1..n : SubSeq(st, 1, n)[i].kind # "torn"
  <2>1. n \in Nat /\ n > 0 /\ \A i \in 1..n : st[i] \in StateLine /\ i \in DOMAIN st
    BY <1>1 DEF Lines
  <2>2. /\ SubSeq(st, 1, n) \in Lines /\ Len(SubSeq(st, 1, n)) = n
        /\ \A i \in 1..n : SubSeq(st, 1, n)[i] = st[i]
    BY <2>1, SubSeqProperties DEF Lines
  <2> QED BY <2>1, <2>2 DEF Whole
<1>3. CASE g \in {SubSeq(st, 1, n) : n \in sync..Len(st)}
  <2>1. PICK n \in sync..Len(st) : g = SubSeq(st, 1, n)
    BY <1>3, Zenon
  <2>2. g \in Lines /\ Len(g) = n /\ n > 0 /\ n \in Nat /\ \A i \in 1..n : g[i].kind # "torn"
    BY <1>2, <2>1
  <2>3. Last(g).kind # "torn"
    BY <2>2 DEF Last
  <2> QED BY <2>1, <2>2, <2>3 DEF CutState
<1>4. CASE g \in {Append(SubSeq(st, 1, n), Torn) : n \in sync..(Len(st) - 1)}
  <2>1. PICK n \in sync..(Len(st) - 1) : g = Append(SubSeq(st, 1, n), Torn)
    BY <1>4, Zenon
  <2>2. n \in sync..Len(st)
    BY <1>1
  <2> DEFINE f == SubSeq(st, 1, n)
  <2>3. f \in Lines /\ Len(f) = n /\ n > 0 /\ n \in Nat
    BY <1>2, <2>2
  <2> HIDE DEF f
  <2>4. Append(f, Torn) \in Lines /\ Len(Append(f, Torn)) = n + 1 /\ Append(f, Torn)[n + 1] = Torn
    BY <1>1, <2>3 DEF Lines
  <2>5. Front(Append(f, Torn)) = f
    <3>1. /\ Front(Append(f, Torn)) \in Seq(StateLine) /\ Len(Front(Append(f, Torn))) = n
          /\ \A i \in 1..n : Front(Append(f, Torn))[i] = Append(f, Torn)[i]
      <4>1. Front(Append(f, Torn)) = SubSeq(Append(f, Torn), 1, n)
        BY <2>3, <2>4 DEF Front
      <4>2. \A i \in 1..n : Append(f, Torn)[i] \in StateLine
        BY <2>3, <2>4 DEF Lines
      <4> QED BY <2>3, <4>1, <4>2, SubSeqProperties
    <3>2. \A i \in 1..n : Append(f, Torn)[i] = f[i]
      BY <1>1, <2>3 DEF Lines
    <3> QED BY <2>3, <3>1, <3>2, SeqEqual DEF Lines
  <2>6. g = Append(f, Torn)
    BY <2>1 DEF f
  <2>7. Last(g).kind = "torn" /\ Len(g) > 1
    BY <2>3, <2>4, <2>6 DEF Last, Torn
  <2>8. CutState(g) = f
    BY <2>5, <2>6, <2>7 DEF CutState
  <2> QED BY <2>2, <2>4, <2>6, <2>8 DEF f
<1> QED BY <1>3, <1>4, Zenon DEF Survivors

LEMMA CutWhole ==
    ASSUME NEW st \in Lines, Whole(st)
    PROVE  CutState(st) = st
<1>1. CASE Len(st) > 1
  <2>1. Last(st).kind # "torn"
    BY <1>1 DEF Whole, Last, Lines
  <2> QED BY <2>1 DEF CutState
<1>2. CASE ~(Len(st) > 1)
  BY <1>2 DEF CutState
<1> QED BY <1>1, <1>2
-----------------------------------------------------------------------------
(* Audit records: the chain in a file that grows or is cut off *)

Log == Seq(AuditLine)

LEMMA ChainCut ==
    ASSUME NEW log \in Log, ChainOK(log), NEW n \in 0..Len(log)
    PROVE  /\ SubSeq(log, 1, n) \in Log /\ Len(SubSeq(log, 1, n)) = n
           /\ \A i \in 1..n : SubSeq(log, 1, n)[i] = log[i]
           /\ ChainOK(SubSeq(log, 1, n))
<1>1. n \in Nat /\ \A i \in 1..n : log[i] \in AuditLine /\ i \in DOMAIN log
  BY DEF Log
<1>2. /\ SubSeq(log, 1, n) \in Log /\ Len(SubSeq(log, 1, n)) = n
      /\ \A i \in 1..n : SubSeq(log, 1, n)[i] = log[i]
      /\ DOMAIN SubSeq(log, 1, n) = 1..n
  BY <1>1, SubSeqProperties DEF Log
<1> QED BY <1>1, <1>2 DEF ChainOK

\* A contiguous chain ends in no torn line, so the next record is appended whole.
LEMMA ChainNext ==
    ASSUME NEW log \in Log, ChainOK(log), NEW line \in AuditLine,
           line.seq = Len(log) + 1, line.prev = Len(log), line.dec \notin {"torn", "garbled"}
    PROVE  /\ Glue(log, line) \in Log /\ Len(Glue(log, line)) = Len(log) + 1
           /\ Glue(log, line)[Len(log) + 1] = line /\ Len(log) \in Nat
           /\ \A i \in 1..Len(log) : Glue(log, line)[i] = log[i]
           /\ ChainOK(Glue(log, line))
<1>1. ~(log # <<>> /\ Last(log).dec = "torn")
  BY DEF Last, ChainOK, Log
<1>2. Glue(log, line) = Append(log, line)
  BY <1>1 DEF Glue
<1>3. /\ Append(log, line) \in Log /\ Len(Append(log, line)) = Len(log) + 1
      /\ Append(log, line)[Len(log) + 1] = line /\ Len(log) \in Nat
      /\ \A i \in 1..Len(log) : Append(log, line)[i] = log[i] /\ i \in DOMAIN log
      /\ DOMAIN Append(log, line) = 1..(Len(log) + 1)
  BY DEF Log
<1> HIDE DEF Log
<1>4. \A i \in 1..(Len(log) + 1) : i \in 1..Len(log) \/ i = Len(log) + 1
  BY <1>3
<1>5. ChainOK(Append(log, line))
  BY <1>3, <1>4 DEF ChainOK
<1> QED BY <1>2, <1>3, <1>5

LEMMA CutChain ==
    ASSUME NEW log \in Log, ChainOK(log) PROVE CutAudit(log) = log
BY DEF CutAudit

\* repair takes nothing away but a torn line, which is no record of a write.
TornCut(log) == CutAudit(log) = log \/ (Len(log) > 1 /\ CutAudit(log) = Front(log)
                                          /\ Last(log).dec # "allow")

LEMMA LogSurvives ==
    ASSUME NEW log \in Log, ChainOK(log), NEW sync \in 1..Len(log),
           NEW g \in Survivors(log, sync, BadAudit("torn"))
    PROVE  /\ g \in Log /\ Len(g) >= sync /\ \A i \in 1..sync : g[i] = log[i]
           /\ TornCut(g)
           /\ \E n \in sync..Len(log) : CutAudit(g) = SubSeq(log, 1, n)
<1>1. Len(log) \in Nat /\ BadAudit("torn") \in AuditLine /\ BadAudit("torn").dec = "torn"
  BY BadLinesType DEF Log, BadAudit
<1>2. ASSUME NEW n \in sync..Len(log)
      PROVE  /\ SubSeq(log, 1, n) \in Log /\ Len(SubSeq(log, 1, n)) = n
             /\ \A i \in 1..n : SubSeq(log, 1, n)[i] = log[i]
             /\ ChainOK(SubSeq(log, 1, n)) /\ n \in Nat /\ n > 0 /\ n >= sync
  <2>1. n \in 0..Len(log) /\ n \in Nat /\ n > 0 /\ n >= sync
    BY <1>1
  <2> QED BY <2>1, ChainCut
<1>3. CASE g \in {SubSeq(log, 1, n) : n \in sync..Len(log)}
  <2>1. PICK n \in sync..Len(log) : g = SubSeq(log, 1, n)
    BY <1>3, Zenon
  <2>2. /\ g \in Log /\ Len(g) = n /\ \A i \in 1..n : g[i] = log[i]
        /\ ChainOK(g) /\ n \in Nat /\ n >= sync
    BY <1>2, <2>1
  <2>3. CutAudit(g) = g
    BY <2>2, CutChain
  <2> QED BY <2>1, <2>2, <2>3 DEF TornCut
<1>4. CASE g \in {Append(SubSeq(log, 1, n), BadAudit("torn")) : n \in sync..(Len(log) - 1)}
  <2>1. PICK n \in sync..(Len(log) - 1) : g = Append(SubSeq(log, 1, n), BadAudit("torn"))
    BY <1>4, Zenon
  <2>2. n \in sync..Len(log)
    BY <1>1
  <2> DEFINE f == SubSeq(log, 1, n)
             torn == BadAudit("torn")
  <2>3. /\ f \in Log /\ Len(f) = n /\ \A i \in 1..n : f[i] = log[i]
        /\ n \in Nat /\ n > 0 /\ n >= sync
    BY <1>2, <2>2
  <2> HIDE DEF f, torn
  <2>4. torn \in AuditLine /\ torn.dec = "torn"
    BY <1>1 DEF torn
  <2>5. /\ Append(f, torn) \in Log /\ Len(Append(f, torn)) = n + 1
        /\ Append(f, torn)[n + 1] = torn /\ \A i \in 1..n : Append(f, torn)[i] = f[i]
    BY <2>3, <2>4 DEF Log
  <2>6. Front(Append(f, torn)) = f
    <3>1. /\ Front(Append(f, torn)) \in Seq(AuditLine) /\ Len(Front(Append(f, torn))) = n
          /\ \A i \in 1..n : Front(Append(f, torn))[i] = Append(f, torn)[i]
      <4>1. Front(Append(f, torn)) = SubSeq(Append(f, torn), 1, n)
        BY <2>3, <2>5 DEF Front
      <4>2. \A i \in 1..n : Append(f, torn)[i] \in AuditLine
        BY <2>3, <2>5 DEF Log
      <4> QED BY <2>3, <4>1, <4>2, SubSeqProperties
    <3> QED BY <2>3, <2>5, <3>1, SeqEqual DEF Log
  <2>7. g = Append(f, torn)
    BY <2>1 DEF f, torn
  <2>8. Last(g).dec = "torn" /\ Len(g) > 1
    BY <2>3, <2>4, <2>5, <2>7 DEF Last
  <2>9. ~ChainOK(g)
    <3>1. n + 1 \in DOMAIN g /\ g[n + 1].dec = "torn"
      BY <2>3, <2>4, <2>5, <2>7 DEF Log
    <3> QED BY <3>1 DEF ChainOK
  <2>10. CutAudit(g) = Front(g) /\ Front(g) = f
    BY <2>6, <2>7, <2>8, <2>9 DEF CutAudit
  <2>11. /\ g \in Log /\ Len(g) >= sync
         /\ \A i \in 1..sync : i \in 1..n
    BY <2>3, <2>5, <2>7
  <2> QED BY <2>2, <2>3, <2>5, <2>7, <2>8, <2>10, <2>11 DEF f, TornCut
<1> QED BY <1>3, <1>4, Zenon DEF Survivors
-----------------------------------------------------------------------------
(* The invariant *)

\* verify-audit succeeds on these files.
Agree(lines, log) == /\ Parses(lines) /\ ChainOK(log) /\ Len(log) > 0
                     /\ AtMark(lines, Len(lines), Len(log))

\* repair makes these files fit for serve.
Mendable(lines, log) ==
    /\ Parses(lines) /\ ChainOK(log) /\ Len(log) > 0
    /\ \E k \in {Len(log), Len(log) - 1} : AtMark(lines, Len(lines), k)

\* The faults the invariant survives: none, or power failures that spare a repair.
Mild == faults = 0 \/ (Faults \subseteq {"power"} /\ ~RepairFaults)

AtRest ==
    /\ dbSync = Len(db.lines) /\ auditSync = Len(audit)
    /\ Mendable(CutState(db.lines), CutAudit(audit)) /\ TornCut(audit)
    /\ faults = 0 \/ (\E p \in Procs : pc[p] = "idle") => Agree(db.lines, audit)

\* How many audit records audit_hwm speaks of in state.db as it is, and in what a
\* power failure may leave of it.
Mark(p) == IF \/ job[p].op = "open" /\ pc[p] = "write"
              \/ pc[p] \in {"async", "hwm"}
           THEN Len(audit) - 1 ELSE Len(audit)
OldMark(p) == IF \/ job[p].op = "open" /\ pc[p] \in {"write", "wsync"}
                 \/ pc[p] \in {"async", "hwm", "hsync"}
              THEN Len(audit) - 1 ELSE Len(audit)
AuditSynced(p) == auditSync = IF pc[p] = "async" THEN Len(audit) - 1 ELSE Len(audit)

Appending(p) ==
    /\ Parses(db.lines) /\ ChainOK(audit) /\ AuditSynced(p) /\ auditSync > 0
    /\ \A n \in dbSync..Len(db.lines) :
          AtMark(db.lines, n, IF n = Len(db.lines) THEN Mark(p) ELSE OldMark(p))
    /\ pc[p] = "write" => IF job[p].op = "open"
                          THEN job[p].todo = <<Hwm(Len(audit), Len(audit))>>
                          ELSE Markless(job[p].todo)

Repairing(p) ==
    LET st == job[p].act
    IN  IF pc[p] = "cut"
        THEN /\ st = db.lines /\ auditSync = Len(audit)
             /\ Mendable(db.lines, CutAudit(audit)) /\ TornCut(audit)
        ELSE /\ Parses(db.lines) /\ ChainOK(audit) /\ AuditSynced(p) /\ auditSync > 0
             /\ \E k \in 0..Len(audit) : AtMark(db.lines, Len(db.lines), k)
             /\ pc[p] = "audit" => AtMark(st, Len(st), Len(audit))
             /\ pc[p] \in {"async", "hwm"} => AtMark(st, Len(st), Len(audit) - 1)
             /\ pc[p] = "hsync" => AtMark(db.lines, Len(db.lines), Len(audit))

Sound(p) == /\ job[p].dec \notin {"torn", "garbled"}
            /\ IF job[p].op = "repair" THEN Repairing(p) ELSE Appending(p)

Consistent == /\ \A p \in Procs : InSection(p) => Sound(p)
              /\ (\A p \in Procs : ~InSection(p)) => AtRest
ChainInv == CacheInv /\ (Mild => Consistent)
-----------------------------------------------------------------------------
(* Files that agree, and what a power failure leaves of them *)

LEMMA AgreeMends ==
    ASSUME NEW lines \in Lines, NEW log \in Log, Agree(lines, log)
    PROVE  /\ CutState(lines) = lines /\ CutAudit(log) = log
           /\ Mendable(CutState(lines), CutAudit(log)) /\ TornCut(log)
<1>1. CutState(lines) = lines
  BY ParsesHwm, CutWhole DEF Agree
<1>2. CutAudit(log) = log
  BY CutChain DEF Agree
<1> QED BY <1>1, <1>2 DEF Agree, Mendable, TornCut

LEMMA CrashMends ==
    ASSUME NEW lines \in Lines, NEW log \in Log, Parses(lines), ChainOK(log),
           NEW sync \in 0..Len(lines), NEW async \in 1..Len(log),
           \A n \in sync..Len(lines), m \in async..Len(log) :
               \E k \in {m, m - 1} : AtMark(lines, n, k),
           NEW f \in Survivors(lines, sync, Torn),
           NEW g \in Survivors(log, async, BadAudit("torn"))
    PROVE  Mendable(CutState(f), CutAudit(g)) /\ TornCut(g) /\ f \in Lines /\ g \in Log
<1>1. Len(lines) \in Nat /\ Len(log) \in Nat
  BY DEF Lines, Log
<1>2. sync > 0
  <2>1. sync \in sync..Len(lines) /\ async \in async..Len(log)
    BY <1>1
  <2>2. PICK k : AtMark(lines, sync, k)
    BY <2>1
  <2> QED BY <1>1, <2>2 DEF AtMark
<1>3. f \in Lines /\ \E n \in sync..Len(lines) : CutState(f) = SubSeq(lines, 1, n)
  BY <1>2, ParsesHwm, StateSurvives
<1>4. PICK n \in sync..Len(lines) : CutState(f) = SubSeq(lines, 1, n)
  BY <1>3
<1>5. g \in Log /\ TornCut(g) /\ \E m \in async..Len(log) : CutAudit(g) = SubSeq(log, 1, m)
  BY LogSurvives
<1>6. PICK m \in async..Len(log) : CutAudit(g) = SubSeq(log, 1, m)
  BY <1>5
<1>7. PICK k \in {m, m - 1} : AtMark(lines, n, k)
  OBVIOUS
<1>8. n \in 0..Len(lines) /\ m \in 0..Len(log) /\ m > 0
  BY <1>1
<1>9. /\ AtMark(SubSeq(lines, 1, n), Len(SubSeq(lines, 1, n)), k)
      /\ Parses(SubSeq(lines, 1, n))
  <2>1. AtMark(SubSeq(lines, 1, n), n, k) /\ Len(SubSeq(lines, 1, n)) = n
    BY <1>7, <1>8, MarkCut
  <2>2. Parses(SubSeq(lines, 1, n))
    BY <1>7, <1>8, ParsesCut
  <2> QED BY <2>1, <2>2
<1>10. ChainOK(SubSeq(log, 1, m)) /\ Len(SubSeq(log, 1, m)) = m
  BY <1>8, ChainCut
<1> QED BY <1>3, <1>4, <1>5, <1>6, <1>7, <1>8, <1>9, <1>10 DEF Mendable
-----------------------------------------------------------------------------
(* The steps *)

\* Only the process that holds the lock is in a section.
LEMMA OneInSection ==
    ASSUME CacheInv, NEW p \in Procs, InSection(p) \/ lock = NoProc,
           \A q \in Procs : q # p => pc'[q] = pc[q]
    PROVE  /\ \A q \in Procs : q # p => ~InSection(q) /\ ~InSection(q)'
           /\ lock = NoProc => ~InSection(p)
<1>1. \A q \in Procs : InSection(q) => lock = q
  BY DEF CacheInv, Coherent
<1> QED BY <1>1, LedgerConstants DEF InSection

LEMMA SectionStarts ==
    ASSUME CacheInv, NEW p \in Procs, NEW work, lock = NoProc, pc[p] \in {"down", "idle"},
           Start(p, work), UNCHANGED <<audit, auditSync, db, dbSync>>,
           dbSync = Len(db.lines), auditSync = Len(audit), Len(audit) > 0,
           Parses(db.lines), ChainOK(audit),
           work.dec \notin {"torn", "garbled"}, work.op # "repair",
           \/ /\ work.op = "open" /\ work.todo = <<Hwm(Len(audit), Len(audit))>>
              /\ AtMark(db.lines, Len(db.lines), Len(audit) - 1)
           \/ /\ work.op # "open" /\ Markless(work.todo)
              /\ AtMark(db.lines, Len(db.lines), Len(audit))
    PROVE  Consistent'
<1>1. /\ db.lines \in Lines /\ audit \in Log /\ Len(audit) \in Nat /\ Len(db.lines) \in Nat
      /\ pc \in [Procs -> Place] /\ job \in [Procs -> JobType]
  BY DEF CacheInv, TypeInv, TypeOK, Lines, Log
<1>2. /\ job'[p] = work /\ pc'[p] = (IF work.todo = <<>> THEN "audit" ELSE "write")
      /\ \A q \in Procs : q # p => pc'[q] = pc[q]
  BY <1>1 DEF Start
<1>3. \A q \in Procs : q # p => ~InSection(q)'
  BY <1>2, OneInSection
<1>4. /\ pc'[p] \in {"audit", "write"} /\ InSection(p)'
      /\ work.op = "open" => pc'[p] = "write"
  <2>1. <<Hwm(Len(audit), Len(audit))>> # <<>>
    OBVIOUS
  <2> QED BY <1>2, <2>1 DEF InSection
<1>5. \A n \in dbSync..Len(db.lines) : n = Len(db.lines)
  BY <1>1
<1>6. Mark(p)' = IF work.op = "open" THEN Len(audit) - 1 ELSE Len(audit)
  BY <1>2, <1>4 DEF Mark
<1>7. AuditSynced(p)'
  BY <1>4 DEF AuditSynced
<1>8. Appending(p)'
  BY <1>2, <1>5, <1>6, <1>7 DEF Appending
<1>9. Sound(p)'
  BY <1>2, <1>8 DEF Sound
<1> QED BY <1>3, <1>4, <1>9 DEF Consistent

LEMMA HandlerConsistent ==
    ASSUME CacheInv, Consistent, NEW p \in Procs, Handler(p)
    PROVE  Consistent'
<1>1. /\ db.lines \in Lines /\ audit \in Log /\ TypeInv
      /\ pc \in [Procs -> Place]
  BY DEF CacheInv, TypeInv, TypeOK, Lines, Log
<1>2. CASE Snapshot(p)
  <2>1. UNCHANGED <<audit, auditSync, db, dbSync, pc, job, faults>>
    BY <1>2 DEF Snapshot
  <2> QED BY <2>1 DEF Consistent, InSection, Sound, Appending, Repairing, AtRest, Mark, OldMark,
                      AuditSynced
<1>3. CASE ~Snapshot(p)
  <2>1. PICK work \in JobType :
              /\ Enter(p, work) /\ work.act = View(p) /\ work.now \in Nows
              /\ \/ Records(work)
                 \/ \E principal \in Principals : Asks(work, principal)
                 \/ \E w \in Writes : LetsThrough(work, w)
                 \/ \E s \in Subjects, e \in Entitlements : TakesBack(work, s, e)
    BY <1>1, <1>3, HandlerWork
  <2>2. /\ pc[p] = "idle" /\ lock = NoProc /\ Start(p, work)
        /\ UNCHANGED <<audit, auditSync, db, dbSync>>
    BY <2>1 DEF Enter
  <2>3. \A q \in Procs : ~InSection(q)
    BY <2>2, LedgerConstants DEF CacheInv, Coherent
  <2>4. AtRest /\ Agree(db.lines, audit)
    BY <2>2, <2>3 DEF Consistent, AtRest
  <2>5. work.now \in Nat
    BY <2>1 DEF JobType
  <2> DEFINE Fits == /\ work.op \notin {"open", "repair"} /\ work.dec \notin {"torn", "garbled"}
                     /\ Markless(work.todo)
  <2>6. Fits
    <3>1. CASE Records(work)
      BY <3>1 DEF Records, Markless
    <3>2. ASSUME NEW principal \in Principals, Asks(work, principal) PROVE Fits
      BY <3>2 DEF Asks, Markless, Challenge
    <3>3. ASSUME NEW w \in Writes, LetsThrough(work, w) PROVE Fits
      <4>1. Markless(work.todo)
        BY <2>5, <3>3, CommitAdds DEF LetsThrough, Markless
      <4> QED BY <3>3, <4>1 DEF LetsThrough
    <3>4. ASSUME NEW s \in Subjects, NEW e \in Entitlements, TakesBack(work, s, e) PROVE Fits
      BY <3>4 DEF TakesBack, Markless, Revoke
    <3> QED BY <2>1, <3>1, <3>2, <3>3, <3>4
  <2> QED BY <2>2, <2>4, <2>6, SectionStarts DEF AtRest, Agree
<1> QED BY <1>2, <1>3

\* Files at rest that serve accepts as they are.
LEMMA RestMark ==
    ASSUME NEW lines \in Lines, NEW log \in Log, Parses(lines), ChainOK(log),
           Mendable(CutState(lines), CutAudit(log))
    PROVE  /\ Len(log) \in Nat /\ Len(log) > 0
           /\ AtTail(HwmOf(lines), Len(log)) => Agree(lines, log)
           /\ OneBehind(HwmOf(lines), Len(log)) => AtMark(lines, Len(lines), Len(log) - 1)
<1>1. CutState(lines) = lines /\ CutAudit(log) = log
  BY ParsesHwm, CutWhole, CutChain
<1>2. Len(log) > 0 /\ Len(log) \in Nat
  BY <1>1 DEF Mendable, Log
<1>3. PICK k \in {Len(log), Len(log) - 1} : AtMark(lines, Len(lines), k)
  BY <1>1 DEF Mendable
<1>4. k \in Nat /\ HwmOf(lines).seq = k
  BY <1>2, <1>3, MarkIsLast
<1>5. AtTail(HwmOf(lines), Len(log)) => k = Len(log)
  BY <1>4 DEF AtTail
<1>6. OneBehind(HwmOf(lines), Len(log)) => k = Len(log) - 1
  BY <1>2, <1>4 DEF OneBehind
<1> QED BY <1>2, <1>3, <1>5, <1>6 DEF Agree

LEMMA LifecycleConsistent ==
    ASSUME CacheInv, Consistent, NEW p \in Procs, Lifecycle(p)
    PROVE  Consistent'
<1>1. /\ db.lines \in Lines /\ audit \in Log /\ db.ino \in Nat
      /\ pc \in [Procs -> Place] /\ job \in [Procs -> JobType]
      /\ DOMAIN db = {"ino", "lines"}
  BY DEF CacheInv, TypeInv, TypeOK, Lines, Log
<1>2. ASSUME lock = NoProc PROVE AtRest /\ \A q \in Procs : ~InSection(q)
  BY <1>2, LedgerConstants DEF CacheInv, Coherent, Consistent
<1>3. CASE Open(p)
  <2>1. /\ lock = NoProc /\ Parses(db.lines) /\ ChainOK(audit)
        /\ AtTail(HwmOf(db.lines), Len(audit))
        /\ pc' = [pc EXCEPT ![p] = "idle"] /\ UNCHANGED <<audit, auditSync, db, dbSync>>
    BY <1>3 DEF Open, CanEnterDown
  <2>2. AtRest /\ \A q \in Procs : ~InSection(q)'
    BY <1>1, <1>2, <2>1 DEF InSection
  <2>3. Agree(db.lines, audit)
    BY <1>1, <2>1, <2>2, RestMark DEF AtRest
  <2>4. AtRest'
    BY <2>1, <2>2, <2>3 DEF AtRest
  <2> QED BY <2>2, <2>4 DEF Consistent
<1>4. CASE OpenRecover(p)
  <2> DEFINE work == Work("open", db.lines, <<Hwm(Len(audit), Len(audit))>>,
                          "recovered", NoRef, clock)
  <2>1. /\ lock = NoProc /\ pc[p] = "down" /\ Parses(db.lines) /\ ChainOK(audit)
        /\ OneBehind(HwmOf(db.lines), Len(audit)) /\ Start(p, work)
        /\ UNCHANGED <<audit, auditSync, db, dbSync>>
    BY <1>4 DEF OpenRecover, CanEnterDown
  <2>2. AtRest
    BY <1>2, <2>1
  <2>3. AtMark(db.lines, Len(db.lines), Len(audit) - 1) /\ Len(audit) > 0
    BY <1>1, <2>1, <2>2, RestMark DEF AtRest
  <2>4. /\ work.op = "open" /\ work.dec = "recovered"
        /\ work.todo = <<Hwm(Len(audit), Len(audit))>>
    BY DEF Work
  <2> HIDE DEF work
  <2> QED BY <2>1, <2>2, <2>3, <2>4, SectionStarts DEF AtRest
<1>5. CASE Exit(p)
  <2>1. /\ pc[p] = "idle" /\ pc' = [pc EXCEPT ![p] = "down"]
        /\ UNCHANGED <<audit, auditSync, db, dbSync, job, faults>>
    BY <1>5 DEF Exit
  <2>2. /\ \A q \in Procs : q # p => pc'[q] = pc[q]
        /\ pc'[p] = "down" /\ ~InSection(p) /\ ~InSection(p)'
    BY <1>1, <2>1 DEF InSection
  <2>3. ASSUME NEW q \in Procs, InSection(q)' PROVE Sound(q)'
    <3>1. InSection(q) /\ pc'[q] = pc[q]
      BY <2>2, <2>3 DEF InSection
    <3>2. Sound(q)
      BY <3>1 DEF Consistent
    <3> QED BY <2>1, <3>1, <3>2 DEF Sound, Appending, Repairing, Mark, OldMark, AuditSynced
  <2>4. ASSUME \A q \in Procs : ~InSection(q)' PROVE AtRest'
    <3>1. AtRest
      BY <2>2, <2>4 DEF Consistent, InSection
    <3>2. Agree(db.lines, audit)
      BY <2>1, <3>1 DEF AtRest
    <3> QED BY <2>1, <3>1, <3>2 DEF AtRest
  <2> QED BY <2>3, <2>4 DEF Consistent
<1>6. CASE RepairState(p)
  <2> DEFINE lines == CutState(db.lines)
             work == Work("repair", lines, <<>>, "repaired", NoRef, clock)
  <2>1. /\ lock = NoProc /\ pc[p] = "down" /\ db' = [db EXCEPT !.lines = lines]
        /\ Parses(lines) => /\ pc' = [pc EXCEPT ![p] = "cut"]
                            /\ job' = [job EXCEPT ![p] = work]
        /\ UNCHANGED <<audit, auditSync>>
    BY <1>6 DEF RepairState, CanEnterDown
  <2>2. AtRest /\ \A q \in Procs : ~InSection(q)
    BY <1>2, <2>1
  <2>3. Mendable(lines, CutAudit(audit)) /\ TornCut(audit) /\ auditSync = Len(audit)
    BY <2>2 DEF AtRest
  <2>4. Parses(lines)
    BY <2>3 DEF Mendable
  <2>5. db'.lines = lines
    BY <1>1, <2>1
  <2>6. work.op = "repair" /\ work.dec = "repaired" /\ work.act = lines
    BY DEF Work
  <2> HIDE DEF work, lines
  <2>7. /\ pc'[p] = "cut" /\ job'[p] = work
        /\ \A q \in Procs : q # p => pc'[q] = pc[q]
    BY <1>1, <2>1, <2>4
  <2>8. Repairing(p)'
    BY <2>1, <2>3, <2>5, <2>6, <2>7 DEF Repairing
  <2>9. Sound(p)'
    BY <2>6, <2>7, <2>8 DEF Sound
  <2>10. InSection(p)' /\ \A q \in Procs : q # p => ~InSection(q)'
    BY <2>2, <2>7 DEF InSection
  <2> QED BY <2>9, <2>10 DEF Consistent
<1> QED BY <1>3, <1>4, <1>5, <1>6 DEF Lifecycle

\* What a section starts a step with.
LEMMA InMidst ==
    ASSUME CacheInv, Consistent, NEW p \in Procs, InSection(p)
    PROVE  /\ db.lines \in Lines /\ audit \in Log /\ Len(audit) \in Nat /\ Len(db.lines) \in Nat
           /\ dbSync \in 0..Len(db.lines) /\ auditSync \in Nat
           /\ pc \in [Procs -> Place] /\ job \in [Procs -> JobType] /\ job[p] \in JobType
           /\ job[p].act \in Lines /\ job[p].todo \in Lines
           /\ DOMAIN db = {"ino", "lines"}
           /\ Sound(p)
           /\ IF job[p].op = "repair" THEN RepairSection(p) ELSE AppendSection(p)
<1>1. Sound(p) /\ TypeOK /\ Coherent(p)
  BY DEF CacheInv, TypeInv, Consistent
<1>2. audit \in Log /\ db \in [ino: Nat \ {0}, lines: Lines]
  BY <1>1 DEF TypeOK, Lines, Log
<1>3. Len(audit) \in Nat /\ Len(db.lines) \in Nat
  BY <1>2 DEF Lines, Log
<1>4. auditSync \in 0..Len(audit) /\ dbSync \in 0..Len(db.lines)
  BY <1>1 DEF TypeOK
<1>5. pc \in [Procs -> Place] /\ job \in [Procs -> JobType]
  BY <1>1 DEF TypeOK
<1>6. job[p].act \in Lines /\ job[p].todo \in Lines
  BY <1>5 DEF JobType, Lines
<1> QED BY <1>1, <1>2, <1>3, <1>4, <1>5, <1>6 DEF Coherent

LEMMA GoesOn ==
    ASSUME CacheInv, NEW p \in Procs, InSection(p),
           \A q \in Procs : q # p => pc'[q] = pc[q],
           InSection(p)' => Sound(p)', ~InSection(p)' => AtRest'
    PROVE  Consistent'
<1>1. \A q \in Procs : q # p => ~InSection(q)'
  BY OneInSection
<1> QED BY <1>1 DEF Consistent

LEMMA WriteStateConsistent ==
    ASSUME CacheInv, Consistent, NEW p \in Procs, WriteState(p)
    PROVE  Consistent'
<1> DEFINE j == job[p]
           L == Len(db.lines)
           A == Len(audit)
<1>1. pc[p] = "write" /\ InSection(p)
  BY DEF WriteState, InSection
<1>2. /\ db.lines \in Lines /\ audit \in Log /\ A \in Nat /\ L \in Nat
      /\ dbSync \in 0..L /\ pc \in [Procs -> Place] /\ job \in [Procs -> JobType]
      /\ j.todo \in Lines /\ DOMAIN db = {"ino", "lines"} /\ j \in JobType
      /\ Sound(p) /\ j.op # "repair" /\ AppendSection(p)
  BY <1>1, InMidst DEF RepairSection
<1>3. /\ Parses(db.lines) /\ ChainOK(audit) /\ auditSync = A /\ auditSync > 0
      /\ \A n \in dbSync..L : AtMark(db.lines, n, IF n = L THEN Mark(p) ELSE OldMark(p))
      /\ IF j.op = "open" THEN j.todo = <<Hwm(A, A)>> ELSE Markless(j.todo)
      /\ j.dec \notin {"torn", "garbled"}
  BY <1>1, <1>2 DEF Sound, Appending, AuditSynced
<1>4. /\ UNCHANGED <<audit, auditSync, dbSync>> /\ db'.lines = db.lines \o j.todo
      /\ pc'[p] \in {"wsync", "audit"} /\ (j.op = "open" => pc'[p] = "wsync")
      /\ job'[p].op = j.op /\ job'[p].dec = j.dec
      /\ \A q \in Procs : q # p => pc'[q] = pc[q]
  <2>1. /\ UNCHANGED <<audit, auditSync, dbSync>> /\ db' = [db EXCEPT !.lines = @ \o j.todo]
    BY DEF WriteState
  <2>2. CASE j.op \in {"commit", "open"}
    BY <1>2, <2>1, <2>2 DEF WriteState
  <2>3. CASE j.op \notin {"commit", "open"}
    <3>1. /\ pc' = [pc EXCEPT ![p] = "audit"]
          /\ job' = [job EXCEPT ![p].act = j.act \o j.todo]
      BY <2>3 DEF WriteState
    <3>2. job'[p] = [j EXCEPT !.act = j.act \o j.todo]
      BY <1>2, <3>1
    <3> QED BY <1>2, <2>1, <2>3, <3>1, <3>2 DEF JobType
  <2> QED BY <2>2, <2>3
<1>5. /\ Len(db'.lines) = L + Len(j.todo) /\ Len(j.todo) \in Nat
  BY <1>2, <1>4, ConcatAt
<1>6. /\ Mark(p)' = A
      /\ OldMark(p)' = IF j.op = "open" THEN A - 1 ELSE A
      /\ Mark(p) = OldMark(p)' /\ OldMark(p) = OldMark(p)'
  BY <1>1, <1>4 DEF Mark, OldMark
<1>7. \A n \in dbSync..L : AtMark(db.lines, n, OldMark(p)')
  BY <1>3, <1>6
<1>8. ASSUME NEW n \in dbSync..L PROVE AtMark(db'.lines, n, OldMark(p)')
  <2>1. n \in 0..L
    BY <1>2
  <2> QED BY <1>2, <1>4, <1>7, <2>1, MarkBehind
<1>9. L \in dbSync..L
  BY <1>2
<1>10. Parses(db'.lines) /\ \A n \in (L + 1)..Len(db'.lines) :
                                AtMark(db'.lines, n, IF n = Len(db'.lines) THEN A ELSE OldMark(p)')
  <2>1. CASE j.op = "open"
    <3>1. j.todo = <<Hwm(A, A)>>
      BY <1>3, <2>1
    <3>2. db'.lines = Append(db.lines, Hwm(A, A)) /\ Len(db'.lines) = L + 1
      BY <1>2, <1>4, <3>1, MarkNew
    <3>3. AtMark(db'.lines, L + 1, A)
      BY <1>2, <3>2, MarkNew
    <3>4. AtMark(db.lines, L, A - 1) /\ A - 1 \in Nat /\ A - 1 <= A
      BY <1>2, <1>3, <1>6, <1>7, <1>9, <2>1
    <3>5. Parses(db'.lines)
      BY <1>2, <1>3, <3>2, <3>4, ParsesNext
    <3> QED BY <1>2, <3>2, <3>3, <3>5
  <2>2. CASE j.op # "open"
    <3>1. Markless(j.todo) /\ Whole(j.todo)
      BY <1>2, <1>3, <2>2 DEF AppendSection
    <3>2. Parses(db'.lines)
      BY <1>2, <1>3, <1>4, <3>1, ParsesConcat
    <3>3. AtMark(db.lines, L, A) /\ OldMark(p)' = A
      BY <1>6, <1>7, <1>9, <2>2
    <3>4. ASSUME NEW n \in (L + 1)..Len(db'.lines) PROVE AtMark(db'.lines, n, A)
      <4>1. n \in L..Len(db.lines \o j.todo)
        BY <1>2, <1>4, <1>5
      <4> QED BY <1>2, <1>4, <3>1, <3>3, <4>1, MarkKept
    <3> QED BY <3>2, <3>3, <3>4
  <2> QED BY <2>1, <2>2
<1>11. \A n \in dbSync..Len(db'.lines) :
           AtMark(db'.lines, n, IF n = Len(db'.lines) THEN A ELSE OldMark(p)')
  <2> SUFFICES ASSUME NEW n \in dbSync..Len(db'.lines)
               PROVE  AtMark(db'.lines, n, IF n = Len(db'.lines) THEN A ELSE OldMark(p)')
    OBVIOUS
  <2>1. CASE n > L
    BY <1>2, <1>5, <1>10, <2>1
  <2>2. CASE n <= L
    <3>1. n \in dbSync..L
      BY <1>2, <1>5, <2>2
    <3>2. AtMark(db'.lines, n, OldMark(p)')
      BY <1>8, <3>1
    <3>3. n = Len(db'.lines) => OldMark(p)' = A
      <4>1. ASSUME n = Len(db'.lines), j.op = "open" PROVE FALSE
        <5>1. Len(<<Hwm(A, A)>>) = 1
          OBVIOUS
        <5>2. Len(j.todo) = 1
          BY <1>3, <4>1, <5>1
        <5> QED BY <1>2, <1>5, <2>2, <4>1, <5>2
      <4> QED BY <1>6, <4>1
    <3> QED BY <3>2, <3>3
  <2> QED BY <1>2, <1>5, <2>1, <2>2
<1>12. Appending(p)'
  BY <1>3, <1>4, <1>6, <1>10, <1>11 DEF Appending, AuditSynced
<1>13. InSection(p)' /\ Sound(p)'
  BY <1>2, <1>3, <1>4, <1>12 DEF Sound, InSection
<1> QED BY <1>1, <1>4, <1>13, GoesOn

LEMMA SyncStateConsistent ==
    ASSUME CacheInv, Consistent, NEW p \in Procs, SyncState(p)
    PROVE  Consistent'
<1> DEFINE j == job[p]
           L == Len(db.lines)
           A == Len(audit)
<1>1. pc[p] = "wsync" /\ InSection(p)
  BY DEF SyncState, InSection
<1>2. /\ A \in Nat /\ L \in Nat
      /\ dbSync \in 0..L /\ pc \in [Procs -> Place] /\ job \in [Procs -> JobType]
      /\ j \in JobType /\ Sound(p) /\ j.op # "repair"
  BY <1>1, InMidst DEF RepairSection
<1>3. /\ Parses(db.lines) /\ ChainOK(audit) /\ auditSync = A /\ auditSync > 0
      /\ \A n \in dbSync..L : AtMark(db.lines, n, IF n = L THEN Mark(p) ELSE OldMark(p))
      /\ j.dec \notin {"torn", "garbled"}
  BY <1>1, <1>2 DEF Sound, Appending, AuditSynced
<1>4. /\ UNCHANGED <<audit, auditSync, db>> /\ dbSync' = L
      /\ pc' = [pc EXCEPT ![p] = "audit"]
      /\ job' = [job EXCEPT ![p].act = j.act \o j.todo]
  BY DEF SyncState
<1>5. job'[p] = [j EXCEPT !.act = j.act \o j.todo]
  BY <1>2, <1>4
<1>6. /\ job'[p].op = j.op /\ job'[p].dec = j.dec /\ pc'[p] = "audit"
      /\ \A q \in Procs : q # p => pc'[q] = pc[q]
  BY <1>2, <1>4, <1>5 DEF JobType
<1>7. L \in dbSync..L /\ Mark(p) = A /\ Mark(p)' = A
  BY <1>1, <1>2, <1>4, <1>6 DEF Mark
<1>8. AtMark(db.lines, L, A)
  BY <1>3, <1>7
<1>9. \A n \in dbSync'..L : n = L
  BY <1>2, <1>4
<1>10. Appending(p)'
  BY <1>3, <1>4, <1>6, <1>7, <1>8, <1>9 DEF Appending, AuditSynced
<1>11. InSection(p)' /\ Sound(p)'
  BY <1>2, <1>3, <1>6, <1>10 DEF Sound, InSection
<1> QED BY <1>1, <1>6, <1>11, GoesOn

\* The record a section adds to the chain is its next one, written whole.
LEMMA NextRecord ==
    ASSUME CacheInv, Consistent, NEW p \in Procs, WriteAudit(p)
    PROVE  /\ Parses(db.lines) /\ auditSync = Len(audit) /\ auditSync > 0
           /\ AtMark(job[p].act, Len(job[p].act), Len(audit))
           /\ job[p].op = "repair" => \E k \in 0..Len(audit) : AtMark(db.lines, Len(db.lines), k)
           /\ job[p].op # "repair" =>
                 \A n \in dbSync..Len(db.lines) : AtMark(db.lines, n, Len(audit))
           /\ job[p].dec \notin {"torn", "garbled"} /\ InSection(p) /\ Len(audit) \in Nat
           /\ ChainOK(audit') /\ Len(audit') = Len(audit) + 1
           /\ \A i \in 1..Len(audit) : audit'[i] = audit[i]
           /\ audit'[Len(audit) + 1].dec = job[p].dec /\ audit'[Len(audit) + 1].ref = job[p].ref
           /\ pc'[p] = "async" /\ (\A q \in Procs : q # p => pc'[q] = pc[q])
           /\ UNCHANGED <<auditSync, db, dbSync, job>>
<1> DEFINE j == job[p]
           h == HwmOf(j.act)
           A == Len(audit)
           L == Len(db.lines)
           line == [seq |-> h.seq + 1, prev |-> h.hash, dec |-> j.dec, ref |-> j.ref]
<1>1. pc[p] = "audit" /\ InSection(p)
  BY DEF WriteAudit, InSection
<1>2. /\ db.lines \in Lines /\ audit \in Log /\ A \in Nat /\ L \in Nat
      /\ dbSync \in 0..L /\ pc \in [Procs -> Place] /\ j.act \in Lines
      /\ j \in JobType /\ Sound(p)
      /\ IF j.op = "repair" THEN RepairSection(p) ELSE AppendSection(p)
  BY <1>1, InMidst
<1>3. L \in dbSync..L /\ A \in 0..A
  BY <1>2
<1>4. /\ Parses(db.lines) /\ ChainOK(audit) /\ auditSync = A /\ auditSync > 0
      /\ AtMark(j.act, Len(j.act), A) /\ j.dec \notin {"torn", "garbled"}
      /\ j.op = "repair" => \E k \in 0..A : AtMark(db.lines, L, k)
      /\ j.op # "repair" => \A n \in dbSync..L : AtMark(db.lines, n, A)
  <2>1. CASE j.op = "repair"
    BY <1>1, <1>2, <2>1 DEF Sound, Repairing, AuditSynced
  <2>2. CASE j.op # "repair"
    <3>1. /\ Parses(db.lines) /\ ChainOK(audit) /\ auditSync = A /\ auditSync > 0
          /\ j.dec \notin {"torn", "garbled"} /\ j.act = db.lines
          /\ \A n \in dbSync..L : AtMark(db.lines, n, A)
      BY <1>1, <1>2, <2>2 DEF Sound, Appending, AuditSynced, AppendSection, Mark, OldMark
    <3> QED BY <1>3, <2>2, <3>1
  <2> QED BY <2>1, <2>2
<1>5. h.seq = A /\ h.hash = A
  BY <1>2, <1>4, MarkIsLast
<1>6. line \in AuditLine /\ line.seq = A + 1 /\ line.prev = A
      /\ line.dec = j.dec /\ line.ref = j.ref
  BY <1>2, <1>5 DEF AuditLine, JobType
<1>7. /\ audit' = Glue(audit, line) /\ pc' = [pc EXCEPT ![p] = "async"]
      /\ UNCHANGED <<auditSync, db, dbSync, job>>
  BY DEF WriteAudit
<1> HIDE DEF line
<1>8. /\ ChainOK(audit') /\ Len(audit') = A + 1 /\ audit'[A + 1] = line
      /\ \A i \in 1..A : audit'[i] = audit[i]
  BY <1>2, <1>4, <1>6, <1>7, ChainNext
<1>9. pc'[p] = "async" /\ \A q \in Procs : q # p => pc'[q] = pc[q]
  BY <1>2, <1>7
<1> QED BY <1>1, <1>2, <1>4, <1>6, <1>7, <1>8, <1>9

LEMMA WriteAuditConsistent ==
    ASSUME CacheInv, Consistent, NEW p \in Procs, WriteAudit(p)
    PROVE  Consistent'
<1> DEFINE j == job[p]
           A == Len(audit)
           L == Len(db.lines)
<1>1. InSection(p) /\ A \in Nat
  BY NextRecord
<1>2. /\ Parses(db.lines) /\ auditSync = A /\ auditSync > 0
      /\ AtMark(j.act, Len(j.act), A) /\ j.dec \notin {"torn", "garbled"}
      /\ j.op = "repair" => \E k \in 0..A : AtMark(db.lines, L, k)
      /\ j.op # "repair" => \A n \in dbSync..L : AtMark(db.lines, n, A)
  BY NextRecord
<1>3. UNCHANGED <<auditSync, db, dbSync, job>>
  BY NextRecord
<1>4. ChainOK(audit') /\ Len(audit') = A + 1
  BY NextRecord
<1>5. pc'[p] = "async" /\ \A q \in Procs : q # p => pc'[q] = pc[q]
  BY NextRecord
<1>6. AuditSynced(p)'
  BY <1>1, <1>2, <1>3, <1>4, <1>5 DEF AuditSynced
<1>7. Len(audit') - 1 = A
  BY <1>1, <1>4
<1>8. CASE j.op = "repair"
  <2>1. \E k \in 0..Len(audit') : AtMark(db.lines, L, k)
    BY <1>1, <1>2, <1>4, <1>8
  <2>2. Repairing(p)'
    BY <1>2, <1>3, <1>4, <1>5, <1>6, <1>7, <2>1 DEF Repairing
  <2>3. Sound(p)' /\ InSection(p)'
    BY <1>2, <1>3, <1>5, <1>8, <2>2 DEF Sound, InSection
  <2> QED BY <1>1, <1>5, <2>3, GoesOn
<1>9. CASE j.op # "repair"
  <2>1. Mark(p)' = A /\ OldMark(p)' = A
    BY <1>3, <1>5, <1>7 DEF Mark, OldMark
  <2>2. Appending(p)'
    BY <1>2, <1>3, <1>4, <1>5, <1>6, <1>9, <2>1 DEF Appending
  <2>3. Sound(p)' /\ InSection(p)'
    BY <1>2, <1>3, <1>5, <1>9, <2>2 DEF Sound, InSection
  <2> QED BY <1>1, <1>5, <2>3, GoesOn
<1> QED BY <1>8, <1>9

LEMMA SyncAuditConsistent ==
    ASSUME CacheInv, Consistent, NEW p \in Procs, SyncAudit(p)
    PROVE  Consistent'
<1>1. pc[p] = "async" /\ InSection(p)
  BY DEF SyncAudit, InSection
<1>2. Sound(p) /\ pc \in [Procs -> Place] /\ Len(audit) \in Nat
  BY <1>1, InMidst
<1>3. /\ UNCHANGED <<audit, db, dbSync, job>> /\ auditSync' = Len(audit)
      /\ pc' = [pc EXCEPT ![p] = "hwm"]
  BY DEF SyncAudit
<1>4. /\ pc'[p] = "hwm" /\ InSection(p)' /\ \A q \in Procs : q # p => pc'[q] = pc[q]
  BY <1>2, <1>3 DEF InSection
<1>5. Len(audit) > 0
  BY <1>1, <1>2 DEF Sound, Repairing, Appending, AuditSynced
<1>6. AuditSynced(p)' /\ Mark(p)' = Mark(p) /\ OldMark(p)' = OldMark(p)
  BY <1>1, <1>3, <1>4 DEF AuditSynced, Mark, OldMark
<1>7. Sound(p)'
  BY <1>1, <1>2, <1>3, <1>4, <1>5, <1>6 DEF Sound, Repairing, Appending
<1> QED BY <1>1, <1>4, <1>7, GoesOn

LEMMA WriteHwmConsistent ==
    ASSUME CacheInv, Consistent, NEW p \in Procs, WriteHwm(p)
    PROVE  Consistent'
<1> DEFINE j == job[p]
           A == Len(audit)
           L == Len(db.lines)
<1>1. pc[p] = "hwm" /\ InSection(p)
  BY DEF WriteHwm, InSection
<1>2. /\ db.lines \in Lines /\ audit \in Log /\ A \in Nat /\ L \in Nat
      /\ dbSync \in 0..L /\ pc \in [Procs -> Place] /\ j.act \in Lines
      /\ DOMAIN db = {"ino", "lines"} /\ Sound(p)
      /\ IF j.op = "repair" THEN RepairSection(p) ELSE AppendSection(p)
  BY <1>1, InMidst
<1>3. L \in dbSync..L
  BY <1>2
<1>4. /\ Parses(db.lines) /\ ChainOK(audit) /\ auditSync = A /\ auditSync > 0
      /\ AtMark(j.act, Len(j.act), A - 1) /\ j.dec \notin {"torn", "garbled"}
      /\ \E k \in 0..A : AtMark(db.lines, L, k)
      /\ j.op # "repair" => \A n \in dbSync..L : AtMark(db.lines, n, A - 1)
  <2>1. CASE j.op = "repair"
    BY <1>1, <1>2, <2>1 DEF Sound, Repairing, AuditSynced
  <2>2. CASE j.op # "repair"
    <3>1. /\ Parses(db.lines) /\ ChainOK(audit) /\ auditSync = A /\ auditSync > 0
          /\ j.dec \notin {"torn", "garbled"} /\ j.act = db.lines
          /\ \A n \in dbSync..L : AtMark(db.lines, n, A - 1)
      BY <1>1, <1>2, <2>2 DEF Sound, Appending, AuditSynced, AppendSection, Mark, OldMark
    <3>2. A - 1 \in 0..A
      BY <1>2, <3>1
    <3> QED BY <1>3, <2>2, <3>1, <3>2
  <2> QED BY <2>1, <2>2
<1>5. A - 1 \in Nat /\ (A - 1) + 1 = A
  BY <1>2, <1>4
<1>6. NextHwm(p) = Hwm(A, A)
  <2>1. HwmOf(j.act).seq = A - 1
    BY <1>2, <1>4, <1>5, MarkIsLast
  <2> QED BY <1>5, <2>1 DEF NextHwm
<1>7. /\ UNCHANGED <<audit, auditSync, dbSync, job>>
      /\ db'.lines = Append(db.lines, Hwm(A, A))
      /\ pc'[p] = "hsync" /\ \A q \in Procs : q # p => pc'[q] = pc[q]
  BY <1>2, <1>6 DEF WriteHwm
<1>8. Len(db'.lines) = L + 1 /\ AtMark(db'.lines, L + 1, A)
  BY <1>2, <1>7, MarkNew
<1>9. Parses(db'.lines)
  <2>1. PICK k \in 0..A : AtMark(db.lines, L, k)
    BY <1>4
  <2>2. k \in Nat /\ k <= A
    BY <1>2
  <2> QED BY <1>2, <1>4, <1>7, <2>1, <2>2, ParsesNext
<1>10. AuditSynced(p)'
  BY <1>4, <1>7 DEF AuditSynced
<1>11. CASE j.op = "repair"
  <2>1. A \in 0..A
    BY <1>2
  <2>2. Repairing(p)'
    BY <1>4, <1>7, <1>8, <1>9, <1>10, <2>1 DEF Repairing
  <2>3. Sound(p)' /\ InSection(p)'
    BY <1>4, <1>7, <1>11, <2>2 DEF Sound, InSection
  <2> QED BY <1>1, <1>7, <2>3, GoesOn
<1>12. CASE j.op # "repair"
  <2>1. Mark(p)' = A /\ OldMark(p)' = A - 1
    BY <1>7 DEF Mark, OldMark
  <2>2. ASSUME NEW n \in dbSync..(L + 1)
        PROVE  AtMark(db'.lines, n, IF n = L + 1 THEN A ELSE A - 1)
    <3>1. CASE n = L + 1
      BY <1>8, <3>1
    <3>2. CASE n # L + 1
      <4>1. n \in 0..L /\ n \in dbSync..L
        BY <1>2, <3>2
      <4>2. AtMark(db.lines, n, A - 1)
        BY <1>4, <1>12, <4>1
      <4>3. db'.lines = db.lines \o <<Hwm(A, A)>> /\ <<Hwm(A, A)>> \in Lines
        BY <1>2, <1>7, MarkNew
      <4> QED BY <1>2, <3>2, <4>1, <4>2, <4>3, MarkBehind
    <3> QED BY <3>1, <3>2
  <2>3. Appending(p)'
    BY <1>4, <1>7, <1>8, <1>9, <1>10, <2>1, <2>2 DEF Appending
  <2>4. Sound(p)' /\ InSection(p)'
    BY <1>4, <1>7, <1>12, <2>3 DEF Sound, InSection
  <2> QED BY <1>1, <1>7, <2>4, GoesOn
<1> QED BY <1>11, <1>12

\* A section ends with files verify-audit accepts.
LEMMA AgreeRests ==
    ASSUME TypeOK', Agree(db.lines, audit)', dbSync' = Len(db'.lines), auditSync' = Len(audit')
    PROVE  AtRest'
<1>1. db'.lines \in Lines /\ audit' \in Log
  BY DEF TypeOK, Lines, Log
<1>2. Agree(db'.lines, audit')
  OBVIOUS
<1>3. Mendable(CutState(db'.lines), CutAudit(audit')) /\ TornCut(audit')
  BY <1>1, <1>2, AgreeMends
<1> QED BY <1>2, <1>3 DEF AtRest

LEMMA SyncHwmConsistent ==
    ASSUME CacheInv, TypeOK', Consistent, NEW p \in Procs, SyncHwm(p)
    PROVE  Consistent'
<1> DEFINE j == job[p]
           A == Len(audit)
           L == Len(db.lines)
           st == Append(j.act, NextHwm(p))
<1>1. pc[p] = "hsync" /\ InSection(p)
  BY DEF SyncHwm, InSection
<1>2. /\ db.lines \in Lines /\ audit \in Log /\ A \in Nat /\ L \in Nat
      /\ dbSync \in 0..L /\ pc \in [Procs -> Place] /\ job \in [Procs -> JobType]
      /\ j \in JobType /\ Sound(p) /\ (j.op = "repair" => RepairSection(p))
  BY <1>1, InMidst
<1>3. L \in dbSync..L
  BY <1>2
<1>4. /\ Parses(db.lines) /\ ChainOK(audit) /\ auditSync = A /\ A > 0
      /\ AtMark(db.lines, L, A) /\ j.dec \notin {"torn", "garbled"}
  BY <1>1, <1>2, <1>3 DEF Sound, Repairing, Appending, AuditSynced, Mark
<1>5. Agree(db.lines, audit)
  BY <1>4 DEF Agree
<1>6. /\ UNCHANGED <<audit, auditSync, db>> /\ dbSync' = L
      /\ IF cache[p].size + 1 > CompactAt
         THEN pc' = [pc EXCEPT ![p] = "compact"] /\ job' = [job EXCEPT ![p].act = st]
         ELSE Return(p)
  BY DEF SyncHwm
<1>7. CASE cache[p].size + 1 > CompactAt
  <2>1. j.op # "repair"
    BY <1>2, <1>7, LedgerConstants DEF RepairSection, NoCache
  <2>2. job'[p] = [j EXCEPT !.act = st]
    BY <1>2, <1>6, <1>7
  <2>3. /\ pc'[p] = "compact" /\ job'[p].op = j.op /\ job'[p].dec = j.dec
        /\ \A q \in Procs : q # p => pc'[q] = pc[q]
    BY <1>2, <1>6, <1>7, <2>2 DEF JobType
  <2>4. Mark(p)' = A /\ \A n \in dbSync'..L : n = L
    BY <1>2, <1>6, <2>3 DEF Mark
  <2>5. Appending(p)'
    BY <1>4, <1>6, <2>3, <2>4 DEF Appending, AuditSynced
  <2>6. Sound(p)' /\ InSection(p)'
    BY <1>4, <2>1, <2>3, <2>5 DEF Sound, InSection
  <2> QED BY <1>1, <2>3, <2>6, GoesOn
<1>8. CASE Return(p)
  <2>1. ~InSection(p)' /\ \A q \in Procs : q # p => pc'[q] = pc[q]
    BY <1>2, <1>8 DEF Return, InSection
  <2>2. AtRest'
    BY <1>4, <1>5, <1>6, AgreeRests
  <2> QED BY <1>1, <2>1, <2>2, GoesOn
<1> QED BY <1>6, <1>7, <1>8

LEMMA CompactConsistent ==
    ASSUME CacheInv, TypeOK', Consistent, NEW p \in Procs, Compact(p)
    PROVE  Consistent'
<1> DEFINE j == job[p]
           A == Len(audit)
           L == Len(db.lines)
           st == Compacted(j.act, j.now)
<1>1. pc[p] = "compact" /\ InSection(p)
  BY DEF Compact, InSection
<1>2. /\ db.lines \in Lines /\ audit \in Log /\ A \in Nat /\ L \in Nat
      /\ dbSync \in 0..L /\ pc \in [Procs -> Place] /\ j \in JobType
      /\ Sound(p) /\ j.op # "repair" /\ AppendSection(p)
  BY <1>1, InMidst DEF RepairSection
<1>3. L \in dbSync..L
  BY <1>2
<1>4. /\ Parses(db.lines) /\ ChainOK(audit) /\ auditSync = A /\ A > 0
      /\ AtMark(db.lines, L, A) /\ j.act = db.lines
  BY <1>1, <1>2, <1>3 DEF Sound, Appending, AuditSynced, Mark, AppendSection
<1>5. Parses(st) /\ AtMark(st, Len(st), A)
  BY <1>2, <1>4, CompactMarks DEF JobType
<1>6. db'.lines = st /\ dbSync' = Len(st) /\ Return(p) /\ UNCHANGED <<audit, auditSync>>
  BY DEF Compact
<1> HIDE DEF st
<1>7. ~InSection(p)' /\ \A q \in Procs : q # p => pc'[q] = pc[q]
  BY <1>2, <1>6 DEF Return, InSection
<1>8. Agree(db.lines, audit)'
  BY <1>4, <1>5, <1>6 DEF Agree
<1>9. AtRest'
  BY <1>4, <1>6, <1>8, AgreeRests
<1> QED BY <1>1, <1>7, <1>9, GoesOn

LEMMA RepairAuditConsistent ==
    ASSUME CacheInv, Consistent, NEW p \in Procs, RepairAudit(p)
    PROVE  Consistent'
<1> DEFINE j == job[p]
           log == CutAudit(audit)
           A == Len(log)
           L == Len(db.lines)
           h == HwmOf(j.act)
<1>1. pc[p] = "cut" /\ InSection(p)
  BY DEF RepairAudit, InSection
<1>2. /\ db.lines \in Lines /\ L \in Nat
      /\ pc \in [Procs -> Place] /\ job \in [Procs -> JobType]
      /\ j \in JobType /\ j.act \in Lines /\ Sound(p) /\ j.op = "repair"
  BY <1>1, InMidst DEF AppendSection
<1>3. /\ j.act = db.lines /\ auditSync = Len(audit) /\ Mendable(db.lines, log)
      /\ j.dec \notin {"torn", "garbled"}
  BY <1>1, <1>2 DEF Sound, Repairing
<1>4. /\ Parses(db.lines) /\ ChainOK(log) /\ A > 0
      /\ \E k \in {A, A - 1} : AtMark(db.lines, L, k)
  BY <1>3 DEF Mendable
<1>5. A \in Nat
  <2>1. log \in Seq(AuditLine)
    BY FrontType DEF CutAudit, CacheInv, TypeInv, TypeOK
  <2> QED BY <2>1
<1> HIDE DEF log
<1>6. PICK k \in {A, A - 1} : AtMark(db.lines, L, k)
  BY <1>4
<1>7. h.seq = k /\ h.hash = k /\ k \in Nat /\ A - 1 \in Nat
  BY <1>2, <1>3, <1>4, <1>5, <1>6, MarkIsLast
<1>8. /\ k = A => AtTail(h, A) /\ ~OneBehind(h, A)
      /\ k = A - 1 => OneBehind(h, A)
  BY <1>5, <1>7 DEF AtTail, OneBehind
<1> HIDE DEF h
<1>9. /\ audit' = log /\ auditSync' = (IF log = audit THEN auditSync ELSE A)
      /\ pc' = [pc EXCEPT ![p] = "audit"] /\ UNCHANGED <<db, dbSync>>
      /\ job' = IF OneBehind(h, A) THEN [job EXCEPT ![p].act = Append(@, Hwm(A, A))] ELSE job
  BY <1>4, <1>6, <1>8 DEF RepairAudit, log, h
<1>10. /\ job'[p].op = "repair" /\ job'[p].dec = j.dec
       /\ job'[p].act = IF OneBehind(h, A) THEN Append(j.act, Hwm(A, A)) ELSE j.act
  <2>1. CASE OneBehind(h, A)
    <3>1. job'[p] = [j EXCEPT !.act = Append(@, Hwm(A, A))]
      BY <1>2, <1>9, <2>1
    <3> QED BY <1>2, <2>1, <3>1 DEF JobType
  <2>2. CASE ~OneBehind(h, A)
    BY <1>2, <1>9, <2>2
  <2> QED BY <2>1, <2>2
<1>11. AtMark(job'[p].act, Len(job'[p].act), A)
  <2>1. CASE OneBehind(h, A)
    <3>1. /\ AtMark(Append(j.act, Hwm(A, A)), Len(j.act) + 1, A)
          /\ Len(Append(j.act, Hwm(A, A))) = Len(j.act) + 1
      BY <1>2, <1>5, MarkNew
    <3> QED BY <1>10, <2>1, <3>1
  <2>2. CASE ~OneBehind(h, A)
    BY <1>3, <1>6, <1>8, <1>10, <2>2
  <2> QED BY <2>1, <2>2
<1>12. auditSync' = A
  BY <1>3, <1>9
<1>13. \E i \in 0..A : AtMark(db.lines, L, i)
  BY <1>5, <1>6, <1>7
<1>14. pc'[p] = "audit" /\ \A q \in Procs : q # p => pc'[q] = pc[q]
  BY <1>2, <1>9
<1>15. Repairing(p)'
  BY <1>4, <1>9, <1>11, <1>12, <1>13, <1>14 DEF Repairing, AuditSynced
<1>16. Sound(p)' /\ InSection(p)'
  BY <1>3, <1>10, <1>14, <1>15 DEF Sound, InSection
<1> QED BY <1>1, <1>14, <1>16, GoesOn

LEMMA SectionConsistent ==
    ASSUME CacheInv, TypeOK', Consistent, NEW p \in Procs, Section(p)
    PROVE  Consistent'
BY WriteStateConsistent, SyncStateConsistent, WriteAuditConsistent, SyncAuditConsistent,
   WriteHwmConsistent, SyncHwmConsistent, CompactConsistent, RepairAuditConsistent
DEF Section

\* The machine dies in the middle of a section, or between two.
LEMMA CrashConsistent ==
    ASSUME CacheInv, Consistent, ~RepairFaults, PowerFailure
    PROVE  Consistent'
<1> DEFINE L == Len(db.lines)
           A == Len(audit)
<1>1. /\ db.lines \in Lines /\ audit \in Log /\ L \in Nat /\ A \in Nat
      /\ DOMAIN db = {"ino", "lines"} /\ faults \in Nat
  <2>1. db.lines \in Lines /\ audit \in Log /\ DOMAIN db = {"ino", "lines"} /\ faults \in Nat
    BY DEF CacheInv, TypeInv, TypeOK, Lines, Log
  <2> QED BY <2>1 DEF Lines, Log
<1>2. PICK f \in Survivors(db.lines, dbSync, Torn) : db' = [db EXCEPT !.lines = f]
  BY DEF PowerFailure
<1>3. PICK g \in Survivors(audit, auditSync, BadAudit("torn")) : audit' = g
  BY DEF PowerFailure
<1>4. /\ db'.lines = f /\ dbSync' = Len(db'.lines) /\ auditSync' = Len(audit')
      /\ faults' = faults + 1 /\ faults' # 0
      /\ \A p \in Procs : pc'[p] = "down" /\ job[p].op # "repair"
  BY <1>1, <1>2 DEF PowerFailure, MayFault
<1>5. Mendable(CutState(f), CutAudit(g)) /\ TornCut(g)
  <2>1. ASSUME NEW p \in Procs, InSection(p)
        PROVE  Mendable(CutState(f), CutAudit(g)) /\ TornCut(g)
    <3>1. /\ dbSync \in 0..L /\ auditSync \in Nat /\ Sound(p)
      BY <2>1, InMidst
    <3>2. /\ Parses(db.lines) /\ ChainOK(audit) /\ AuditSynced(p) /\ auditSync > 0
          /\ \A n \in dbSync..L : AtMark(db.lines, n, IF n = L THEN Mark(p) ELSE OldMark(p))
      BY <1>4, <3>1 DEF Sound, Appending
    <3>3. auditSync \in 1..A
      BY <1>1, <3>1, <3>2 DEF AuditSynced
    <3>4. \A m \in auditSync..A : Mark(p) \in {m, m - 1} /\ OldMark(p) \in {m, m - 1}
      <4>1. CASE pc[p] = "async"
        <5>1. Mark(p) = A - 1 /\ OldMark(p) = A - 1 /\ auditSync = A - 1
          BY <3>2, <4>1 DEF Mark, OldMark, AuditSynced
        <5> QED BY <1>1, <5>1
      <4>2. CASE pc[p] # "async"
        <5>1. Mark(p) \in {A, A - 1} /\ OldMark(p) \in {A, A - 1} /\ auditSync = A
          BY <3>2, <4>2 DEF Mark, OldMark, AuditSynced
        <5> QED BY <1>1, <5>1
      <4> QED BY <4>1, <4>2
    <3>5. \A n \in dbSync..L, m \in auditSync..A : \E k \in {m, m - 1} : AtMark(db.lines, n, k)
      BY <3>2, <3>4
    <3> QED BY <1>1, <3>1, <3>2, <3>3, <3>5, CrashMends
  <2>2. ASSUME \A p \in Procs : ~InSection(p)
        PROVE  Mendable(CutState(f), CutAudit(g)) /\ TornCut(g)
    <3>1. AtRest
      BY <2>2 DEF Consistent
    <3>2. dbSync = L /\ auditSync = A
      BY <3>1 DEF AtRest
    <3>3. f = db.lines
      <4>1. \A n \in L..L : SubSeq(db.lines, 1, n) = db.lines
        BY <1>1, SubSeqFull DEF Lines
      <4>2. L..(L - 1) = {}
        BY <1>1
      <4> QED BY <3>2, <4>1, <4>2, Zenon DEF Survivors
    <3>4. g = audit
      <4>1. \A n \in A..A : SubSeq(audit, 1, n) = audit
        BY <1>1, SubSeqFull DEF Log
      <4>2. A..(A - 1) = {}
        BY <1>1
      <4> QED BY <3>2, <4>1, <4>2, Zenon DEF Survivors
    <3> QED BY <3>1, <3>3, <3>4 DEF AtRest
  <2> QED BY <2>1, <2>2
<1>6. \A p \in Procs : ~InSection(p)' /\ pc'[p] # "idle"
  BY <1>4 DEF InSection
<1>7. AtRest'
  BY <1>3, <1>4, <1>5, <1>6 DEF AtRest
<1> QED BY <1>6, <1>7 DEF Consistent

LEMMA ChainInit == Init => ChainInv
<1> SUFFICES ASSUME Init PROVE ChainInv
  OBVIOUS
<1> DEFINE log == <<[seq |-> 1, prev |-> 0, dec |-> "init", ref |-> NoRef]>>
           st == <<Hwm(1, 1)>>
<1>1. CacheInv
  BY CacheInit
<1>2. audit = log /\ db.lines = st /\ dbSync = 1 /\ auditSync = 1
  BY DEF Init
<1>3. st[1] = Hwm(1, 1) /\ Len(st) = 1 /\ DOMAIN st = 1..1
  OBVIOUS
<1>4. /\ log[1].seq = 1 /\ log[1].prev = 0 /\ log[1].dec = "init"
      /\ Len(log) = 1 /\ DOMAIN log = 1..1
  OBVIOUS
<1> HIDE DEF st, log
<1>5. AtMark(st, 1, 1)
  BY <1>3 DEF AtMark
<1>6. Parses(st)
  BY <1>3 DEF Parses, Hwm
<1>7. ChainOK(log)
  BY <1>4 DEF ChainOK
<1>8. st \in Lines /\ log \in Log
  BY <1>1, <1>2 DEF CacheInv, TypeInv, TypeOK, Lines, Log
<1>9. Agree(st, log)
  BY <1>3, <1>4, <1>5, <1>6, <1>7 DEF Agree
<1>10. AtRest
  BY <1>2, <1>3, <1>4, <1>8, <1>9, AgreeMends DEF AtRest
<1>11. \A p \in Procs : ~InSection(p)
  BY DEF Init, InSection
<1> QED BY <1>1, <1>10, <1>11 DEF ChainInv, Consistent

LEMMA ChainStep ==
    ASSUME ~ReuseInodes, "challenge" \notin Ops \/ "io" \notin Faults
    PROVE  ChainInv /\ [Next]_vars => ChainInv'
<1> SUFFICES ASSUME ChainInv, [Next]_vars, Mild' PROVE Consistent'
  BY CacheStep DEF ChainInv
<1>1. CacheInv /\ CacheInv' /\ TypeOK' /\ faults \in Nat
  BY CacheStep DEF ChainInv, CacheInv, TypeInv, TypeOK
<1>2. ASSUME faults' = faults PROVE Consistent
  BY <1>2 DEF Mild, ChainInv
<1>3. ASSUME NEW kind, NEW procs, MayFault(kind, procs)
      PROVE  kind = "power" /\ ~RepairFaults /\ Consistent
  <2>1. faults' # 0 /\ kind \in Faults
    BY <1>1, <1>3 DEF MayFault
  <2> QED BY <2>1 DEF Mild, ChainInv
<1>4. ASSUME NEW p \in Procs, Handler(p) PROVE Consistent'
  <2>1. faults' = faults
    BY <1>4 DEF Handler, AppendAudit, Snapshot, RecordChallenge, CommitWrite, RevokeGrant, Enter
  <2> QED BY <1>1, <1>2, <1>4, <2>1, HandlerConsistent
<1>5. ASSUME NEW p \in Procs, Lifecycle(p) PROVE Consistent'
  <2>1. faults' = faults
    BY <1>5 DEF Lifecycle, Open, OpenRecover, Exit, RepairState
  <2> QED BY <1>1, <1>2, <1>5, <2>1, LifecycleConsistent
<1>6. ASSUME NEW p \in Procs, Section(p) PROVE Consistent'
  <2>1. faults' = faults
    BY <1>6 DEF Section, WriteState, SyncState, WriteAudit, SyncAudit, WriteHwm, SyncHwm,
                Compact, RepairAudit
  <2> QED BY <1>1, <1>2, <1>6, <2>1, SectionConsistent
<1>7. ASSUME NEW p \in Procs, IoError(p) \/ Kill(p) PROVE FALSE
  BY <1>3, <1>7 DEF IoError, Kill
<1>8. CASE PowerFailure
  BY <1>1, <1>3, <1>8, CrashConsistent DEF PowerFailure
<1>9. CASE Tick \/ UNCHANGED vars
  <2>1. UNCHANGED <<audit, auditSync, db, dbSync, lock, pc, job, faults>>
    BY <1>9 DEF Tick, vars
  <2>2. Consistent
    BY <1>2, <2>1
  <2> QED BY <2>1, <2>2 DEF Consistent, InSection, Sound, Appending, Repairing, AtRest, Mark,
                            OldMark, AuditSynced
<1> QED BY <1>4, <1>5, <1>6, <1>7, <1>8, <1>9 DEF Next

\* Every section keeps state.db and audit.jsonl within one record of each other, in
\* memory and in whatever a power failure leaves: the invariant behind the theorems
\* below.
THEOREM LedgerChainInv ==
    ASSUME ~ReuseInodes, "challenge" \notin Ops \/ "io" \notin Faults
    PROVE  Spec => []ChainInv
<1>1. ChainInv /\ [Next]_vars => ChainInv'
  BY ChainStep
<1> QED BY <1>1, ChainInit, PTL DEF Spec

\* VerifyAuditPasses of run LedgerTime, for every number of processes and every
\* policy: without faults verify-audit succeeds between any two sections.
THEOREM LedgerVerifyAuditPasses ==
    ASSUME ~ReuseInodes, "challenge" \notin Ops \/ "io" \notin Faults
    PROVE  Spec => []VerifyAuditPasses
<1>1. ChainInv => VerifyAuditPasses
  <2> SUFFICES ASSUME ChainInv, lock = NoProc, faults = 0
               PROVE  Parses(db.lines) /\ ChainOK(audit) /\ AtTail(HwmOf(db.lines), Len(audit))
    BY DEF VerifyAuditPasses
  <2>1. Consistent /\ CacheInv
    BY DEF ChainInv, Mild
  <2>2. \A p \in Procs : ~InSection(p)
    BY <2>1, LedgerConstants DEF CacheInv, Coherent
  <2>3. Agree(db.lines, audit)
    BY <2>1, <2>2 DEF Consistent, AtRest
  <2>4. db.lines \in Lines /\ Len(audit) \in Nat
    BY <2>1 DEF CacheInv, TypeInv, TypeOK, Lines
  <2>5. HwmOf(db.lines).seq = Len(audit) /\ HwmOf(db.lines).hash = Len(audit)
    BY <2>3, <2>4, MarkIsLast DEF Agree
  <2> QED BY <2>3, <2>5 DEF Agree, AtTail
<1> QED BY <1>1, LedgerChainInv, PTL

\* Recoverable of run LedgerPower, for every number of processes and power failures:
\* repair and serve always go on from what a power failure leaves.
THEOREM LedgerRecoverable ==
    ASSUME ~ReuseInodes, Faults \subseteq {"power"}, ~RepairFaults
    PROVE  Spec => []Recoverable
<1>1. ChainInv => Recoverable
  <2> SUFFICES ASSUME ChainInv, lock = NoProc
               PROVE  LET lines == CutState(db.lines)
                          log == CutAudit(audit)
                      IN  /\ Parses(lines) /\ ChainOK(log)
                          /\ \/ AtTail(HwmOf(lines), Len(log))
                             \/ OneBehind(HwmOf(lines), Len(log))
    BY DEF Recoverable
  <2>1. Consistent /\ CacheInv
    BY DEF ChainInv, Mild
  <2>2. \A p \in Procs : ~InSection(p)
    BY <2>1, LedgerConstants DEF CacheInv, Coherent
  <2> DEFINE lines == CutState(db.lines)
             log == CutAudit(audit)
  <2>3. Mendable(lines, log)
    BY <2>1, <2>2 DEF Consistent, AtRest
  <2>4. lines \in Lines /\ Len(log) \in Nat
    <3>1. db.lines \in Seq(StateLine) /\ audit \in Seq(AuditLine)
      BY <2>1 DEF CacheInv, TypeInv, TypeOK
    <3>2. lines \in Seq(StateLine) /\ log \in Seq(AuditLine)
      BY <3>1, FrontType DEF CutState, CutAudit
    <3> QED BY <3>2 DEF Lines
  <2> HIDE DEF lines, log
  <2>5. PICK k \in {Len(log), Len(log) - 1} : AtMark(lines, Len(lines), k)
    BY <2>3 DEF Mendable
  <2>6. k \in Nat /\ Len(log) > 0
    BY <2>3, <2>4, <2>5 DEF Mendable
  <2>7. HwmOf(lines).seq = k /\ HwmOf(lines).hash = k
    BY <2>4, <2>5, <2>6, MarkIsLast
  <2>8. AtTail(HwmOf(lines), Len(log)) \/ OneBehind(HwmOf(lines), Len(log))
    BY <2>4, <2>5, <2>6, <2>7 DEF AtTail, OneBehind
  <2>9. Parses(lines) /\ ChainOK(log)
    BY <2>3 DEF Mendable
  <2> QED BY <2>8, <2>9 DEF lines, log
<1>2. "challenge" \notin Ops \/ "io" \notin Faults
  OBVIOUS
<1> QED BY <1>1, <1>2, LedgerChainInv, PTL

-----------------------------------------------------------------------------
(* Every write that was let through has its record *)

Allows(log, n, w) == {i \in 1..n : log[i].dec = "allow" /\ log[i].ref = w}
Forwards(d, w) == {i \in DOMAIN d : d[i].op = "commit" /\ d[i].ref = w}

\* A commit whose record is on disk and which has not returned yet.
Owing(p, w) == /\ pc[p] \in {"hwm", "hsync", "compact"}
               /\ job[p].op = "commit" /\ job[p].ref = w
Owed(w) == IF \E p \in Procs : Owing(p, w) THEN 1 ELSE 0
Balanced(w) == Cardinality(Forwards(done, w)) + Owed(w)
                   <= Cardinality(Allows(audit, auditSync, w))

CommitKnown(p) == (InSection(p) /\ job[p].op = "commit") =>
    /\ job[p].dec = "allow" /\ job[p].ref \in Writes
    /\ pc[p] = "async" => /\ audit[Len(audit)].dec = "allow"
                          /\ audit[Len(audit)].ref = job[p].ref

Audited == (\A p \in Procs : CommitKnown(p)) /\ \A w \in Writes : Balanced(w)
AuditedInv == CacheInv /\ Consistent /\ Audited

LEMMA AllowsType ==
    ASSUME NEW log, NEW n \in Nat, NEW w
    PROVE  IsFiniteSet(Allows(log, n, w)) /\ Cardinality(Allows(log, n, w)) \in Nat
<1>1. IsFiniteSet(1..n) /\ Allows(log, n, w) \subseteq 1..n
  BY FS_Interval DEF Allows
<1> QED BY <1>1, FS_Subset, FS_CardinalityType

LEMMA CountsType ==
    ASSUME TypeOK, NEW w
    PROVE  /\ IsFiniteSet(Forwards(done, w)) /\ Cardinality(Forwards(done, w)) \in Nat
           /\ IsFiniteSet(Allows(audit, auditSync, w))
           /\ Cardinality(Allows(audit, auditSync, w)) \in Nat
           /\ Owed(w) \in {0, 1} /\ Len(done) \in Nat /\ auditSync \in Nat /\ Len(audit) \in Nat
<1>1. /\ Len(done) \in Nat /\ DOMAIN done = 1..Len(done) /\ Len(audit) \in Nat
      /\ auditSync \in Nat
  <2>1. done \in Seq([op: {"commit", "challenge"}, ref: Ref, now: Nat]) /\ audit \in Seq(AuditLine)
    BY DEF TypeOK
  <2>2. auditSync \in 0..Len(audit)
    BY DEF TypeOK
  <2>3. Len(audit) \in Nat
    BY <2>1
  <2> QED BY <2>1, <2>2, <2>3
<1>2. IsFiniteSet(1..Len(done)) /\ Forwards(done, w) \subseteq 1..Len(done)
  BY <1>1, FS_Interval DEF Forwards
<1>3. IsFiniteSet(Forwards(done, w))
  BY <1>2, FS_Subset
<1> QED BY <1>1, <1>3, AllowsType, FS_CardinalityType DEF Owed

\* No record of an allow leaves the part of audit.jsonl that is on disk.
RecordsStay == \A w \in Writes : Allows(audit, auditSync, w) \subseteq Allows(audit, auditSync, w)'

\* No write comes back, and no commit comes to owe its return.
LEMMA BalanceKept ==
    ASSUME AuditedInv, TypeOK', RecordsStay, NEW w \in Writes,
           Forwards(done', w) = Forwards(done, w),
           \A p \in Procs : Owing(p, w)' => Owing(p, w)
    PROVE  Balanced(w)'
<1> DEFINE a == Allows(audit, auditSync, w)
           b == Allows(audit', auditSync', w)
           f == Forwards(done, w)
<1>1. TypeOK
  BY DEF AuditedInv, CacheInv, TypeInv
<1>2. /\ Cardinality(f) \in Nat /\ IsFiniteSet(a) /\ Cardinality(a) \in Nat /\ Owed(w) \in {0, 1}
  BY <1>1, CountsType
<1>3. auditSync' \in Nat
  BY DEF TypeOK
<1>4. IsFiniteSet(b) /\ Cardinality(b) \in Nat
  BY <1>3, AllowsType
<1>5. a \subseteq b
  BY DEF RecordsStay, Allows
<1>6. Cardinality(a) <= Cardinality(b)
  BY <1>4, <1>5, FS_Subset
<1>7. Owed(w)' \in {0, 1} /\ Owed(w)' <= Owed(w)
  BY DEF Owed
<1>8. Cardinality(f) + Owed(w) <= Cardinality(a)
  BY DEF AuditedInv, Audited, Balanced
<1>9. Forwards(done', w) = f
  OBVIOUS
<1> HIDE DEF a, b, f
<1>10. Cardinality(f) + Owed(w)' <= Cardinality(b)
  BY <1>2, <1>4, <1>6, <1>7, <1>8
<1> QED BY <1>9, <1>10 DEF Balanced, b

\* A step of one process that lets no write come back.
LEMMA AuditedKept ==
    ASSUME AuditedInv, TypeOK', RecordsStay, NEW p \in Procs, InSection(p) \/ lock = NoProc,
           \A q \in Procs : q # p => pc'[q] = pc[q],
           \A w \in Writes : Forwards(done', w) = Forwards(done, w),
           \A w \in Writes : Owing(p, w)' => Owing(p, w),
           CommitKnown(p)'
    PROVE  Audited'
<1>1. \A q \in Procs : q # p => ~InSection(q)'
  BY OneInSection DEF AuditedInv
<1>2. \A q \in Procs, w \in Writes : Owing(q, w)' => Owing(q, w)
  BY <1>1 DEF Owing, InSection
<1>3. \A w \in Writes : Balanced(w)'
  BY <1>2, BalanceKept
<1>4. \A q \in Procs : CommitKnown(q)'
  BY <1>1 DEF CommitKnown
<1> QED BY <1>3, <1>4 DEF Audited

\* A section that stays away from audit.jsonl keeps what the job stands for.
LEMMA JobGoesOn ==
    ASSUME AuditedInv, TypeOK', UNCHANGED <<audit, auditSync, done>>, NEW p \in Procs,
           InSection(p), \A q \in Procs : q # p => pc'[q] = pc[q],
           job'[p].op = job[p].op, job'[p].dec = job[p].dec, job'[p].ref = job[p].ref,
           pc'[p] # "async",
           pc'[p] \in {"hwm", "hsync", "compact"} => pc[p] \in {"hwm", "hsync", "compact"}
    PROVE  Audited'
<1>1. RecordsStay
  BY DEF RecordsStay, Allows
<1>2. CommitKnown(p)'
  BY DEF AuditedInv, Audited, CommitKnown
<1>3. \A w \in Writes : Owing(p, w)' => Owing(p, w)
  BY DEF Owing
<1> QED BY <1>1, <1>2, <1>3, AuditedKept

LEMMA HandlerAudited ==
    ASSUME AuditedInv, TypeOK', NEW p \in Procs, Handler(p)
    PROVE  Audited'
<1>1. TypeInv /\ pc \in [Procs -> Place] /\ job \in [Procs -> JobType]
  BY DEF AuditedInv, CacheInv, TypeInv, TypeOK
<1>2. CASE Snapshot(p)
  <2>1. UNCHANGED <<audit, auditSync, done, pc, job>>
    BY <1>2 DEF Snapshot
  <2> QED BY <2>1 DEF AuditedInv, Audited, CommitKnown, Balanced, Owed, Owing, InSection
<1>3. CASE ~Snapshot(p)
  <2>1. PICK work \in JobType :
              /\ Enter(p, work) /\ work.act = View(p) /\ work.now \in Nows
              /\ \/ Records(work)
                 \/ \E principal \in Principals : Asks(work, principal)
                 \/ \E w \in Writes : LetsThrough(work, w)
                 \/ \E s \in Subjects, e \in Entitlements : TakesBack(work, s, e)
    BY <1>1, <1>3, HandlerWork
  <2>2. /\ lock = NoProc /\ UNCHANGED <<audit, auditSync, done>>
        /\ job'[p] = work /\ pc'[p] \in {"write", "audit"}
        /\ \A q \in Procs : q # p => pc'[q] = pc[q]
    BY <1>1, <2>1 DEF Enter, Start
  <2>3. work.op = "commit" => work.dec = "allow" /\ work.ref \in Writes
    BY <2>1 DEF Records, Asks, LetsThrough, TakesBack
  <2>4. CommitKnown(p)' /\ RecordsStay /\ \A w : ~Owing(p, w)'
    BY <2>2, <2>3 DEF CommitKnown, RecordsStay, Allows, Owing
  <2> QED BY <2>2, <2>4, AuditedKept
<1> QED BY <1>2, <1>3

LEMMA LifecycleAudited ==
    ASSUME AuditedInv, TypeOK', NEW p \in Procs, Lifecycle(p)
    PROVE  Audited'
<1>1. pc \in [Procs -> Place] /\ job \in [Procs -> JobType]
  BY DEF AuditedInv, CacheInv, TypeInv, TypeOK
<1>2. UNCHANGED <<audit, auditSync, done>> /\ RecordsStay
  BY DEF Lifecycle, Open, OpenRecover, Exit, RepairState, RecordsStay, Allows
<1>3. CASE Open(p) \/ OpenRecover(p) \/ RepairState(p)
  <2>1. /\ lock = NoProc /\ pc[p] = "down"
    BY <1>3 DEF Open, OpenRecover, RepairState, CanEnterDown
  <2> DEFINE Quiet == /\ \A q \in Procs : q # p => pc'[q] = pc[q]
                      /\ pc'[p] \in {"down", "idle", "write", "audit", "cut"}
                      /\ InSection(p)' => job'[p].op # "commit"
  <2>2. ASSUME Open(p) PROVE Quiet
    BY <1>1, <2>2 DEF Open, InSection
  <2>3. ASSUME OpenRecover(p) PROVE Quiet
    <3>1. PICK work : work.op = "open" /\ Start(p, work)
      BY <2>3 DEF OpenRecover, Work
    <3> QED BY <1>1, <3>1 DEF Start
  <2>4. ASSUME RepairState(p) PROVE Quiet
    <3> DEFINE work == Work("repair", CutState(db.lines), <<>>, "repaired", NoRef, clock)
    <3>1. \/ UNCHANGED <<pc, job>>
          \/ pc' = [pc EXCEPT ![p] = "cut"] /\ job' = [job EXCEPT ![p] = work]
      BY <2>4 DEF RepairState
    <3>2. work.op = "repair"
      BY DEF Work
    <3> HIDE DEF work
    <3> QED BY <1>1, <2>1, <3>1, <3>2 DEF InSection
  <2>5. Quiet
    BY <1>3, <2>2, <2>3, <2>4
  <2>6. CommitKnown(p)' /\ \A w : ~Owing(p, w)'
    BY <2>5 DEF CommitKnown, Owing
  <2> QED BY <1>2, <2>1, <2>5, <2>6, AuditedKept
<1>4. CASE Exit(p)
  <2>1. pc' = [pc EXCEPT ![p] = "down"] /\ pc[p] = "idle" /\ UNCHANGED job
    BY <1>4 DEF Exit
  <2>2. \A q \in Procs : pc'[q] = pc[q] \/ pc'[q] = "down"
    BY <1>1, <2>1
  <2>3. \A q \in Procs : CommitKnown(q)' /\ \A w : Owing(q, w)' => Owing(q, w)
    BY <1>2, <2>1, <2>2 DEF CommitKnown, Owing, InSection, AuditedInv, Audited
  <2> QED BY <1>2, <2>3, BalanceKept DEF Audited
<1> QED BY <1>3, <1>4 DEF Lifecycle

\* The write a commit lets through, and no other, comes back.
LEMMA ReturnAudited ==
    ASSUME AuditedInv, TypeOK', NEW p \in Procs, pc[p] \in {"hsync", "compact"}, Return(p),
           UNCHANGED <<audit, auditSync>>
    PROVE  Audited'
<1> DEFINE n == Len(done)
           r == [op |-> job[p].op, ref |-> job[p].ref, now |-> job[p].now]
<1>1. /\ TypeOK /\ pc \in [Procs -> Place] /\ job[p] \in JobType
      /\ done \in Seq([op: {"commit", "challenge"}, ref: Ref, now: Nat]) /\ n \in Nat
  BY CountsType DEF AuditedInv, CacheInv, TypeInv, TypeOK
<1>2. /\ InSection(p) /\ ~InSection(p)' /\ \A q \in Procs : q # p => pc'[q] = pc[q]
  BY <1>1 DEF Return, InSection
<1>3. CommitKnown(p)' /\ (\A w : ~Owing(p, w)') /\ RecordsStay
  BY <1>2 DEF CommitKnown, Owing, InSection, RecordsStay, Allows
<1>4. CASE job[p].op # "commit"
  <2>1. \A w : Forwards(done', w) = Forwards(done, w)
    <3>1. CASE job[p].op = "challenge"
      <4>1. done' = Append(done, r) /\ r \in [op: {"commit", "challenge"}, ref: Ref, now: Nat]
        BY <1>1, <3>1 DEF Return, JobType
      <4>2. r.op # "commit"
        BY <1>4
      <4> HIDE DEF r
      <4>3. /\ DOMAIN done' = 1..(n + 1) /\ done'[n + 1] = r /\ DOMAIN done = 1..n
            /\ \A i \in 1..n : done'[i] = done[i]
        BY <1>1, <4>1
      <4> QED BY <1>1, <4>2, <4>3 DEF Forwards
    <3>2. CASE job[p].op # "challenge"
      BY <1>4, <3>2 DEF Return
    <3> QED BY <3>1, <3>2
  <2> QED BY <1>2, <1>3, <2>1, AuditedKept
<1>5. CASE job[p].op = "commit"
  <2>1. done' = Append(done, r) /\ r \in [op: {"commit", "challenge"}, ref: Ref, now: Nat]
    BY <1>1, <1>5 DEF Return, JobType
  <2> PICK w0 : w0 = job[p].ref
    OBVIOUS
  <2>2. r.op = "commit" /\ r.ref = w0
    BY <1>5
  <2> HIDE DEF r
  <2>3. /\ DOMAIN done' = 1..(n + 1) /\ done'[n + 1] = r /\ DOMAIN done = 1..n
        /\ \A i \in 1..n : done'[i] = done[i]
    BY <1>1, <2>1
  <2>4. w0 \in Writes /\ Balanced(w0)
    BY <1>2, <1>5 DEF AuditedInv, Audited, CommitKnown
  <2>5. Owed(w0) = 1
    BY <1>5 DEF Owed, Owing
  <2>6. \A q \in Procs : \A w : ~Owing(q, w)'
    <3>1. \A q \in Procs : ~InSection(q)'
      BY <1>2, OneInSection DEF AuditedInv
    <3> QED BY <3>1 DEF Owing, InSection
  <2>7. /\ Forwards(done', w0) = Forwards(done, w0) \cup {n + 1}
        /\ n + 1 \notin Forwards(done, w0)
        /\ \A w : w # w0 => Forwards(done', w) = Forwards(done, w)
    <3>1. \A i \in 1..(n + 1) : i \in 1..n \/ i = n + 1
      BY <1>1
    <3>2. n + 1 \notin 1..n /\ 1..n \subseteq 1..(n + 1) /\ n + 1 \in 1..(n + 1)
      BY <1>1
    <3> HIDE DEF n
    <3> QED BY <2>2, <2>3, <3>1, <3>2 DEF Forwards
  <2>8. Cardinality(Forwards(done', w0)) = Cardinality(Forwards(done, w0)) + 1
    BY <1>1, <2>7, CountsType, FS_AddElement
  <2>9. Owed(w0)' = 0
    BY <2>6 DEF Owed
  <2>10. Balanced(w0)'
    BY <1>1, <2>4, <2>5, <2>8, <2>9, CountsType DEF Balanced
  <2>11. ASSUME NEW w \in Writes, w # w0 PROVE Balanced(w)'
    BY <1>3, <2>6, <2>7, <2>11, BalanceKept
  <2>12. \A q \in Procs : CommitKnown(q)'
    <3>1. \A q \in Procs : ~InSection(q)'
      BY <1>2, OneInSection DEF AuditedInv
    <3> QED BY <3>1 DEF CommitKnown
  <2> QED BY <2>10, <2>11, <2>12 DEF Audited
<1> QED BY <1>4, <1>5

\* The fsync of audit.jsonl brings the record of a commit to disk before it returns.
LEMMA SyncAuditAudited ==
    ASSUME AuditedInv, TypeOK', NEW p \in Procs, SyncAudit(p)
    PROVE  Audited'
<1> DEFINE A == Len(audit)
<1>1. pc[p] = "async" /\ InSection(p)
  BY DEF SyncAudit, InSection
<1>2. /\ pc \in [Procs -> Place] /\ Sound(p) /\ A \in Nat /\ auditSync \in Nat
  BY <1>1, InMidst DEF AuditedInv
<1>3. auditSync = A - 1 /\ auditSync > 0
  BY <1>1, <1>2 DEF Sound, Repairing, Appending, AuditSynced
<1>4. /\ UNCHANGED <<audit, done, job>> /\ auditSync' = A
      /\ pc'[p] = "hwm" /\ \A q \in Procs : q # p => pc'[q] = pc[q]
  BY <1>2 DEF SyncAudit
<1>5. RecordsStay
  BY <1>2, <1>3, <1>4 DEF RecordsStay, Allows
<1>6. CommitKnown(p)' /\ Forwards(done', job[p].ref) = Forwards(done, job[p].ref)
  BY <1>1, <1>4 DEF CommitKnown, InSection, AuditedInv, Audited
<1>7. CASE job[p].op # "commit"
  <2>1. \A w : ~Owing(p, w)'
    BY <1>4, <1>7 DEF Owing
  <2>2. \A w \in Writes : Forwards(done', w) = Forwards(done, w)
    BY <1>4
  <2> QED BY <1>1, <1>4, <1>5, <1>6, <2>1, <2>2, AuditedKept
<1>8. CASE job[p].op = "commit"
  <2> PICK w0 : w0 = job[p].ref
    OBVIOUS
  <2>1. w0 \in Writes /\ audit[A].dec = "allow" /\ audit[A].ref = w0
    BY <1>1, <1>8 DEF AuditedInv, Audited, CommitKnown
  <2>2. \A q \in Procs : q # p => ~InSection(q) /\ ~InSection(q)'
    BY <1>1, <1>4, OneInSection DEF AuditedInv
  <2>3. \A q \in Procs, w \in Writes : Owing(q, w)' => Owing(q, w) \/ w = w0
    BY <1>4, <2>2 DEF Owing, InSection
  <2>4. ASSUME NEW w \in Writes, w # w0 PROVE Balanced(w)'
    BY <1>4, <1>5, <2>3, <2>4, BalanceKept
  <2>5. Balanced(w0)'
    <3>1. Owed(w0) = 0
      BY <1>1, <2>2 DEF Owed, Owing, InSection
    <3>2. Owed(w0)' \in {0, 1}
      BY DEF Owed
    <3>3. /\ Allows(audit', auditSync', w0) = Allows(audit, auditSync, w0) \cup {A}
          /\ A \notin Allows(audit, auditSync, w0)
      BY <1>2, <1>3, <1>4, <2>1 DEF Allows
    <3>4. Cardinality(Allows(audit', auditSync', w0)) = Cardinality(Allows(audit, auditSync, w0)) + 1
      BY <1>2, <3>3, AllowsType, FS_AddElement
    <3>5. Balanced(w0) /\ Cardinality(Forwards(done, w0)) \in Nat
      BY <2>1, CountsType DEF AuditedInv, Audited, CacheInv, TypeInv
    <3>6. Cardinality(Allows(audit, auditSync, w0)) \in Nat /\ Forwards(done', w0) = Forwards(done, w0)
      BY <1>2, <1>4, AllowsType
    <3> QED BY <3>1, <3>2, <3>4, <3>5, <3>6 DEF Balanced
  <2>6. \A q \in Procs : CommitKnown(q)'
    BY <1>6, <2>2 DEF CommitKnown
  <2> QED BY <2>4, <2>5, <2>6 DEF Audited
<1> QED BY <1>7, <1>8

LEMMA WriteAuditAudited ==
    ASSUME AuditedInv, TypeOK', NEW p \in Procs, WriteAudit(p)
    PROVE  Audited'
<1>1. /\ auditSync = Len(audit) /\ InSection(p) /\ Len(audit) \in Nat
      /\ Len(audit') = Len(audit) + 1
      /\ \A i \in 1..Len(audit) : audit'[i] = audit[i]
      /\ audit'[Len(audit) + 1].dec = job[p].dec /\ audit'[Len(audit) + 1].ref = job[p].ref
      /\ pc'[p] = "async" /\ (\A q \in Procs : q # p => pc'[q] = pc[q])
      /\ UNCHANGED <<auditSync, job>>
  BY NextRecord DEF AuditedInv
<1>2. UNCHANGED done
  BY DEF WriteAudit
<1>3. RecordsStay /\ \A w : ~Owing(p, w)'
  BY <1>1 DEF RecordsStay, Allows, Owing
<1>4. CommitKnown(p)'
  BY <1>1 DEF CommitKnown, AuditedInv, Audited
<1> QED BY <1>1, <1>2, <1>3, <1>4, AuditedKept

\* What repair cuts off is no record.
LEMMA RepairAuditAudited ==
    ASSUME AuditedInv, TypeOK', NEW p \in Procs, RepairAudit(p)
    PROVE  Audited'
<1> DEFINE A == Len(audit)
<1>1. pc[p] = "cut" /\ InSection(p)
  BY DEF RepairAudit, InSection
<1>2. /\ audit \in Log /\ A \in Nat /\ pc \in [Procs -> Place] /\ job \in [Procs -> JobType]
      /\ Sound(p) /\ job[p].op = "repair"
  BY <1>1, InMidst DEF AppendSection, AuditedInv
<1>3. auditSync = A /\ TornCut(audit) /\ ChainOK(CutAudit(audit))
  BY <1>1, <1>2 DEF Sound, Repairing, Mendable
<1>4. /\ audit' = CutAudit(audit) /\ UNCHANGED done
      /\ auditSync' = IF CutAudit(audit) = audit THEN A ELSE Len(CutAudit(audit))
  BY <1>3 DEF RepairAudit
<1>5. RecordsStay
  <2>1. CASE CutAudit(audit) = audit
    BY <1>3, <1>4, <2>1 DEF RecordsStay, Allows
  <2>2. CASE CutAudit(audit) # audit
    <3>1. A > 1 /\ audit' = Front(audit) /\ auditSync' = Len(Front(audit)) /\ audit[A].dec # "allow"
      BY <1>3, <1>4, <2>2 DEF TornCut, Last
    <3>2. Len(Front(audit)) = A - 1 /\ \A i \in 1..(A - 1) : Front(audit)[i] = audit[i]
      <4>1. A - 1 \in Nat /\ \A i \in 1..(A - 1) : audit[i] \in AuditLine
        BY <1>2, <3>1 DEF Log
      <4>2. Front(audit) = SubSeq(audit, 1, A - 1)
        BY DEF Front
      <4> HIDE DEF A
      <4> QED BY <4>1, <4>2, SubSeqProperties
    <3>3. \A i \in 1..A : i # A => i \in 1..(A - 1)
      BY <1>2
    <3> QED BY <1>3, <3>1, <3>2, <3>3 DEF RecordsStay, Allows
  <2> QED BY <2>1, <2>2
<1>6. /\ \A q \in Procs : q # p => pc'[q] = pc[q]
      /\ pc'[p] \in {"audit", "down"} /\ (pc'[p] = "audit" => job'[p].op = "repair")
  <2>1. CASE Leave(p)
    BY <1>2, <2>1 DEF Leave
  <2>2. CASE ~Leave(p)
    <3>1. pc' = [pc EXCEPT ![p] = "audit"]
      BY <1>3, <2>2 DEF RepairAudit
    <3>2. job'[p].op = job[p].op
      <4>1. \/ job' = job
            \/ job' = [job EXCEPT ![p].act = Append(@, Hwm(Len(CutAudit(audit)), Len(CutAudit(audit))))]
        BY <1>3, <2>2 DEF RepairAudit
      <4>2. CASE job' = job
        BY <4>2
      <4>3. CASE job' # job
        <5>1. job'[p] = [job[p] EXCEPT !.act =
                             Append(@, Hwm(Len(CutAudit(audit)), Len(CutAudit(audit))))]
          BY <1>2, <4>1, <4>3
        <5> QED BY <1>2, <5>1 DEF JobType
      <4> QED BY <4>2, <4>3
    <3> QED BY <1>2, <3>1, <3>2
  <2> QED BY <2>1, <2>2
<1>7. CommitKnown(p)' /\ \A w : ~Owing(p, w)'
  BY <1>6 DEF CommitKnown, Owing, InSection
<1> QED BY <1>1, <1>4, <1>5, <1>6, <1>7, AuditedKept

LEMMA SectionAudited ==
    ASSUME AuditedInv, TypeOK', NEW p \in Procs, Section(p)
    PROVE  Audited'
<1>1. /\ pc \in [Procs -> Place] /\ job \in [Procs -> JobType] /\ job[p] \in JobType
  BY DEF AuditedInv, CacheInv, TypeInv, TypeOK
<1>2. CASE WriteState(p) \/ SyncState(p)
  <2>1. /\ UNCHANGED <<audit, auditSync, done>> /\ InSection(p)
        /\ \/ pc' = [pc EXCEPT ![p] = "wsync"] /\ UNCHANGED job
           \/ /\ pc' = [pc EXCEPT ![p] = "audit"]
              /\ job' = [job EXCEPT ![p].act = job[p].act \o job[p].todo]
    BY <1>2 DEF WriteState, SyncState, InSection
  <2>2. CASE pc' = [pc EXCEPT ![p] = "wsync"] /\ UNCHANGED job
    BY <1>1, <2>1, <2>2, JobGoesOn
  <2>3. CASE /\ pc' = [pc EXCEPT ![p] = "audit"]
             /\ job' = [job EXCEPT ![p].act = job[p].act \o job[p].todo]
    <3>1. job'[p] = [job[p] EXCEPT !.act = job[p].act \o job[p].todo]
      BY <1>1, <2>3
    <3>2. job'[p].op = job[p].op /\ job'[p].dec = job[p].dec /\ job'[p].ref = job[p].ref
      BY <1>1, <3>1 DEF JobType
    <3> QED BY <1>1, <2>1, <2>3, <3>2, JobGoesOn
  <2> QED BY <2>1, <2>2, <2>3
<1>3. CASE WriteHwm(p)
  <2>1. /\ UNCHANGED <<audit, auditSync, done, job>> /\ pc[p] = "hwm" /\ InSection(p)
        /\ pc' = [pc EXCEPT ![p] = "hsync"]
    BY <1>3 DEF WriteHwm, InSection
  <2> QED BY <1>1, <2>1, JobGoesOn
<1>4. CASE SyncHwm(p)
  <2> DEFINE st == Append(job[p].act, NextHwm(p))
  <2>1. /\ UNCHANGED <<audit, auditSync>> /\ pc[p] = "hsync" /\ InSection(p)
        /\ \/ /\ pc' = [pc EXCEPT ![p] = "compact"] /\ UNCHANGED done
              /\ job' = [job EXCEPT ![p].act = st]
           \/ Return(p)
    BY <1>4 DEF SyncHwm, InSection
  <2> HIDE DEF st
  <2>2. CASE /\ pc' = [pc EXCEPT ![p] = "compact"] /\ UNCHANGED done
             /\ job' = [job EXCEPT ![p].act = st]
    <3>1. job'[p] = [job[p] EXCEPT !.act = st]
      BY <1>1, <2>2
    <3>2. job'[p].op = job[p].op /\ job'[p].dec = job[p].dec /\ job'[p].ref = job[p].ref
      BY <1>1, <3>1 DEF JobType
    <3> QED BY <1>1, <2>1, <2>2, <3>2, JobGoesOn
  <2> QED BY <2>1, <2>2, ReturnAudited
<1>5. CASE Compact(p)
  <2>1. pc[p] = "compact" /\ Return(p) /\ UNCHANGED <<audit, auditSync>>
    BY <1>5 DEF Compact
  <2> QED BY <2>1, ReturnAudited
<1> QED BY <1>2, <1>3, <1>4, <1>5, WriteAuditAudited, SyncAuditAudited, RepairAuditAudited
        DEF Section

LEMMA CrashAudited ==
    ASSUME AuditedInv, TypeOK', ~RepairFaults, PowerFailure
    PROVE  Audited'
<1>1. /\ audit' \in Survivors(audit, auditSync, BadAudit("torn")) /\ auditSync' = Len(audit')
      /\ UNCHANGED done /\ \A p \in Procs : pc'[p] = "down" /\ job[p].op # "repair"
  BY DEF PowerFailure, MayFault
<1>2. audit \in Log /\ Len(audit) \in Nat /\ TypeOK
  BY CountsType DEF AuditedInv, CacheInv, TypeInv, TypeOK, Log
<1>3. PICK g \in Survivors(audit, auditSync, BadAudit("torn")) : audit' = g
  BY <1>1
<1>4. auditSync \in Nat /\ Len(g) \in Nat /\ Len(g) >= auditSync
      /\ \A i \in 1..auditSync : g[i] = audit[i]
  <2>0. auditSync \in Nat /\ Len(g) \in Nat
    BY <1>3, CountsType DEF AuditedInv, CacheInv, TypeInv, TypeOK
  <2>1. ASSUME NEW p \in Procs, InSection(p)
        PROVE  Len(g) >= auditSync /\ \A i \in 1..auditSync : g[i] = audit[i]
    <3>1. auditSync \in Nat /\ Sound(p)
      BY <2>1, InMidst DEF AuditedInv
    <3>2. ChainOK(audit) /\ AuditSynced(p) /\ auditSync > 0
      BY <1>1, <3>1 DEF Sound, Appending
    <3>3. auditSync \in 1..Len(audit)
      BY <1>2, <3>1, <3>2 DEF AuditSynced
    <3> QED BY <1>2, <3>2, <3>3, LogSurvives
  <2>2. ASSUME \A p \in Procs : ~InSection(p)
        PROVE  Len(g) >= auditSync /\ \A i \in 1..auditSync : g[i] = audit[i]
    <3>1. auditSync = Len(audit)
      BY <2>2 DEF AuditedInv, Consistent, AtRest
    <3>2. g = audit
      <4>1. \A n \in Len(audit)..Len(audit) : SubSeq(audit, 1, n) = audit
        BY <1>2, SubSeqFull DEF Log
      <4>2. Len(audit)..(Len(audit) - 1) = {}
        BY <1>2
      <4> QED BY <3>1, <4>1, <4>2, Zenon DEF Survivors
    <3> QED BY <1>2, <3>1, <3>2
  <2> QED BY <2>0, <2>1, <2>2
<1>5. RecordsStay
  BY <1>1, <1>3, <1>4 DEF RecordsStay, Allows
<1>6. \A p \in Procs : /\ CommitKnown(p)'
                       /\ \A w : ~Owing(p, w)'
  BY <1>1 DEF CommitKnown, Owing, InSection
<1>7. \A w \in Writes : Balanced(w)'
  BY <1>1, <1>5, <1>6, BalanceKept
<1> QED BY <1>6, <1>7 DEF Audited

LEMMA AuditedStep ==
    ASSUME ~ReuseInodes, Faults \subseteq {"power"}, ~RepairFaults
    PROVE  AuditedInv /\ [Next]_vars => AuditedInv'
<1> SUFFICES ASSUME AuditedInv, [Next]_vars PROVE AuditedInv'
  OBVIOUS
<1>1. "challenge" \notin Ops \/ "io" \notin Faults
  OBVIOUS
<1>2. ChainInv'
  BY <1>1, ChainStep DEF ChainInv, AuditedInv
<1>3. CacheInv' /\ Consistent' /\ TypeOK'
  BY <1>2 DEF ChainInv, Mild, CacheInv, TypeInv
<1>4. ASSUME NEW p \in Procs, IoError(p) \/ Kill(p) PROVE FALSE
  BY <1>4 DEF IoError, Kill, MayFault
<1>5. CASE Tick \/ UNCHANGED vars
  <2>1. UNCHANGED <<audit, auditSync, pc, job, done>>
    BY <1>5 DEF Tick, vars
  <2> QED BY <1>3, <2>1 DEF AuditedInv, Audited, CommitKnown, Balanced, Owed, Owing, InSection
<1>6. CASE ~(Tick \/ UNCHANGED vars)
  <2>1. Audited'
    BY <1>3, <1>4, <1>6, HandlerAudited, LifecycleAudited, SectionAudited, CrashAudited DEF Next
  <2> QED BY <1>3, <2>1 DEF AuditedInv
<1> QED BY <1>5, <1>6

\* ForwardIsAudited of run LedgerPower, for every number of processes, writes and power
\* failures: a commit returns only when its own record is on disk for good.
THEOREM LedgerForwardIsAudited ==
    ASSUME ~ReuseInodes, Faults \subseteq {"power"}, ~RepairFaults
    PROVE  Spec => []ForwardIsAudited
<1>1. Init => AuditedInv
  <2> SUFFICES ASSUME Init PROVE AuditedInv
    OBVIOUS
  <2>1. CacheInv /\ Consistent
    BY ChainInit DEF ChainInv, Mild
  <2>2. \A w : Forwards(done, w) = {} /\ Owed(w) = 0
    BY DEF Init, Forwards, Owed, Owing
  <2>3. \A w \in Writes : Balanced(w)
    <3> SUFFICES ASSUME NEW w \in Writes PROVE Balanced(w)
      OBVIOUS
    <3>1. Cardinality(Allows(audit, auditSync, w)) \in Nat
      BY <2>1, CountsType DEF CacheInv, TypeInv
    <3> QED BY <2>2, <3>1, FS_EmptySet DEF Balanced
  <2> QED BY <2>1, <2>3 DEF AuditedInv, Audited, CommitKnown, Init, InSection
<1>2. AuditedInv /\ [Next]_vars => AuditedInv'
  BY AuditedStep
<1>3. AuditedInv => ForwardIsAudited
  <2> SUFFICES ASSUME AuditedInv, NEW w \in Writes
               PROVE  Cardinality({i \in Commits : done[i].ref = w})
                          <= Cardinality({i \in 1..auditSync : audit[i].dec = "allow" /\ audit[i].ref = w})
    BY DEF ForwardIsAudited
  <2>1. /\ {i \in Commits : done[i].ref = w} = Forwards(done, w)
        /\ {i \in 1..auditSync : audit[i].dec = "allow" /\ audit[i].ref = w} = Allows(audit, auditSync, w)
    BY DEF Commits, Forwards, Allows
  <2>2. /\ Cardinality(Forwards(done, w)) \in Nat /\ Owed(w) \in {0, 1}
        /\ Cardinality(Allows(audit, auditSync, w)) \in Nat
    BY CountsType DEF AuditedInv, CacheInv, TypeInv
  <2>3. Balanced(w)
    BY DEF AuditedInv, Audited
  <2>4. Cardinality(Forwards(done, w)) <= Cardinality(Allows(audit, auditSync, w))
    BY <2>2, <2>3 DEF Balanced
  <2> QED BY <2>1, <2>4
<1> QED BY <1>1, <1>2, <1>3, PTL DEF Spec
=============================================================================
