---------------------------- MODULE GatewayProofs ----------------------------
(***************************************************************************)
(* Proofs that epochMu is held by those whose code is inside, that nobody  *)
(* verifies or poisons beside a call, that nothing is sent once poisoned,  *)
(* and that a changed tool list is noticed, for any number of requests,    *)
(* pages and notifications.                                                *)
(***************************************************************************)
EXTENDS GatewayProperties, TLAPS

LEMMA PagesNat == Pages \in Nat /\ 1 \in 1..(Pages + 1) /\ NoCall \notin Calls
BY GatewayConstants

\* TypeOK, by what the actions change together
UpstreamTyped ==
    /\ phase \in {"starting", "pinned", "serving", "failed"} /\ boot \in 1..(Pages + 1)
    /\ manifest \in [1..Pages -> BOOLEAN]
    /\ pending \in Nat /\ process \in {"running", "exited"} /\ drained \in BOOLEAN
GenerationsTyped == notified \in Nat /\ verified \in 0..notified
FlagsTyped == poisoned \in BOOLEAN /\ dead \in BOOLEAN
LockTyped == writer \in Calls \cup {NoCall} /\ readers \subseteq Calls
CallsTyped == pc \in [Calls -> Label] /\ kind \in [Calls -> Kinds \cup {"none"}]
DifferTyped == differ \in [Calls -> SUBSET (1..Pages)]
Snap == [g: Nat, page: 1..(Pages + 1), ok: BOOLEAN]
SnapTyped == snap \in [Calls -> Snap]

\* A generation that was read has been announced, and the first one at the start
Announced == notified >= 1 /\ \A c \in Calls : snap[c].g <= notified

LEMMA TypeParts ==
    TypeOK <=> /\ UpstreamTyped /\ GenerationsTyped /\ FlagsTyped /\ LockTyped /\ CallsTyped
               /\ SnapTyped /\ DifferTyped
BY DEF TypeOK, UpstreamTyped, GenerationsTyped, FlagsTyped, LockTyped, CallsTyped, SnapTyped, Snap,
       DifferTyped
-----------------------------------------------------------------------------
(* Types *)

LEMMA GotoTyped ==
    ASSUME CallsTyped, NEW c \in Calls, NEW l \in Label, Goto(c, l) PROVE CallsTyped'
BY DEF CallsTyped, Goto

LEMMA UnlockTyped ==
    ASSUME CallsTyped, LockTyped, NEW c \in Calls, NEW l \in Label, Unlock(c, l)
    PROVE  CallsTyped' /\ LockTyped'
BY DEF CallsTyped, LockTyped, Unlock, Waiting, Label

LEMMA RUnlockTyped ==
    ASSUME CallsTyped, LockTyped, NEW c \in Calls, NEW l \in Label, RUnlock(c, l)
    PROVE  CallsTyped' /\ LockTyped'
BY GotoTyped DEF LockTyped, RUnlock

\* How a call may move on, and what may happen to the lock with it
Moves(c) ==
    \/ \E l \in Label : Goto(c, l) /\ UNCHANGED lock
    \/ \E l \in Label : Unlock(c, l)
    \/ \E l \in Label : RUnlock(c, l)
    \/ Arrive(c) \/ Claim(c) \/ RLock(c)

LEMMA ProceedMoves ==
    ASSUME NEW c \in Calls, Fetching(c), Proceed(c) PROVE Moves(c)
<1>1. CASE pc[c] = "fetch0"
  BY <1>1 DEF Proceed, Moves, Label
<1>2. CASE pc[c] = "fetchR"
  BY <1>2 DEF Proceed, Moves, Label
<1>3. CASE pc[c] = "fetchW"
  BY <1>3 DEF Proceed, Moves, Label
<1> QED BY <1>1, <1>2, <1>3 DEF Fetching

LEMMA NextMoves ==
    [Next]_vars => UNCHANGED <<lock, pc, kind>> \/ \E c \in Calls : Moves(c)
<1> SUFFICES ASSUME [Next]_vars
             PROVE  UNCHANGED <<lock, pc, kind>> \/ \E c \in Calls : Moves(c)
  OBVIOUS
<1>1. CASE UNCHANGED vars \/ Upstream \/ Startup \/ \E c \in Calls : FetchPage(c)
  BY <1>1 DEF vars, lock, Upstream, Startup, ChangeManifest, OnToolListChanged, UpstreamExit,
              OnUpstreamProcessExit, StartPage, StartVerified, Publish, FetchPage
<1>2. ASSUME NEW c \in Calls, Reverify(c) PROVE Moves(c)
  BY <1>2 DEF Reverify, Moves, Label
<1>3. ASSUME NEW c \in Calls, FetchFails(c) \/ Poison(c) PROVE Moves(c)
  BY <1>3 DEF FetchFails, Poison, Moves, Label
<1>4. ASSUME NEW c \in Calls, Verified(c) PROVE Moves(c)
  BY <1>4, ProceedMoves DEF Verified, Fetched
<1>5. ASSUME NEW c \in Calls, Stage0(c) \/ Compare(c) \/ Stages(c) \/ Send(c) PROVE Moves(c)
  BY <1>5 DEF Stage0, Compare, Stages, Send, Moves, Label
<1>6. ASSUME NEW c \in Calls, Check(c) \/ Commit(c) \/ Answer(c) \/ Report(c) PROVE Moves(c)
  BY <1>6 DEF Check, Commit, Answer, Report, Moves, Label
<1>7. ASSUME NEW c \in Calls, Arrive(c) \/ Claim(c) \/ RLock(c) PROVE Moves(c)
  BY <1>7 DEF Moves
<1> QED BY <1>1, <1>2, <1>3, <1>4, <1>5, <1>6, <1>7 DEF Next, Step

LEMMA LockStep == TypeOK /\ [Next]_vars => CallsTyped' /\ LockTyped'
<1> SUFFICES ASSUME TypeOK, [Next]_vars PROVE CallsTyped' /\ LockTyped'
  OBVIOUS
<1>0. CallsTyped /\ LockTyped
  BY TypeParts
<1>1. CASE UNCHANGED <<lock, pc, kind>>
  BY <1>0, <1>1 DEF CallsTyped, LockTyped, lock
<1>2. ASSUME NEW c \in Calls, NEW l \in Label, Goto(c, l), UNCHANGED lock
      PROVE  CallsTyped' /\ LockTyped'
  BY <1>0, <1>2, GotoTyped DEF LockTyped, lock
<1>3. ASSUME NEW c \in Calls, Arrive(c) PROVE CallsTyped' /\ LockTyped'
  BY <1>0, <1>3 DEF CallsTyped, LockTyped, Arrive, lock, Label
<1>4. ASSUME NEW c \in Calls, Claim(c) PROVE CallsTyped' /\ LockTyped'
  <2>1. PICK l \in Label : Goto(c, l)
    BY <1>4 DEF Claim, Label
  <2> QED BY <1>0, <1>4, <2>1, GotoTyped DEF LockTyped, Claim
<1>5. ASSUME NEW c \in Calls, RLock(c) PROVE CallsTyped' /\ LockTyped'
  <2>1. PICK l \in Label : Goto(c, l)
    BY <1>5 DEF RLock, Label
  <2> QED BY <1>0, <1>5, <2>1, GotoTyped DEF LockTyped, RLock
<1> QED BY <1>0, <1>1, <1>2, <1>3, <1>4, <1>5, NextMoves, UnlockTyped, RUnlockTyped DEF Moves

LEMMA UpstreamStep == TypeOK /\ [Next]_vars => UpstreamTyped' /\ FlagsTyped'
<1> SUFFICES ASSUME TypeOK, [Next]_vars PROVE UpstreamTyped' /\ FlagsTyped'
  OBVIOUS
<1>0. UpstreamTyped /\ FlagsTyped
  BY TypeParts
<1>1. CASE UNCHANGED vars \/ Upstream
  <2>1. CASE UNCHANGED vars \/ UpstreamExit \/ OnUpstreamProcessExit
    BY <1>0, <2>1 DEF vars, flags, UpstreamTyped, FlagsTyped, UpstreamExit, OnUpstreamProcessExit
  <2>2. CASE ChangeManifest
    BY <1>0, <2>2 DEF flags, UpstreamTyped, FlagsTyped, ChangeManifest
  <2>3. CASE OnToolListChanged
    BY <1>0, <2>3 DEF UpstreamTyped, FlagsTyped, OnToolListChanged
  <2> QED BY <1>1, <2>1, <2>2, <2>3 DEF Upstream
<1>2. CASE Startup
  BY <1>0, <1>2, PagesNat DEF upstream, flags, UpstreamTyped, FlagsTyped, Startup, StartPage,
                              StartVerified, Publish
<1>3. ASSUME NEW c \in Calls, Arrive(c) \/ Claim(c) \/ Reverify(c) \/ FetchPage(c)
      PROVE  UpstreamTyped' /\ FlagsTyped'
  BY <1>0, <1>3 DEF upstream, flags, UpstreamTyped, FlagsTyped, Arrive, Claim, Reverify, FetchPage
<1>4. ASSUME NEW c \in Calls, FetchFails(c) \/ Verified(c) \/ Poison(c)
      PROVE  UpstreamTyped' /\ FlagsTyped'
  BY <1>0, <1>4 DEF upstream, UpstreamTyped, FlagsTyped, FetchFails, Verified, Poison
<1>5. ASSUME NEW c \in Calls, Stage0(c) \/ Compare(c) \/ Stages(c) \/ RLock(c) \/ Check(c)
      PROVE  UpstreamTyped' /\ FlagsTyped'
  BY <1>0, <1>5 DEF upstream, flags, UpstreamTyped, FlagsTyped, Stage0, Compare, Stages, RLock, Check
<1>6. ASSUME NEW c \in Calls, Commit(c) \/ Send(c) \/ Answer(c) \/ Report(c)
      PROVE  UpstreamTyped' /\ FlagsTyped'
  BY <1>0, <1>6 DEF upstream, flags, UpstreamTyped, FlagsTyped, Commit, Send, Answer, Report
<1> QED BY <1>1, <1>2, <1>3, <1>4, <1>5, <1>6 DEF Next, Step

\* Where the generations and what a request knows of them may change
LEMMA GenerationCases ==
    ASSUME [Next]_vars
    PROVE  \/ UNCHANGED <<notified, verified, snap>>
           \/ OnToolListChanged \/ StartVerified
           \/ \E c \in Calls : \/ Verified(c) \/ Stage0(c) \/ FetchPage(c) \/ Reverify(c)
                               \/ snap' = [snap EXCEPT ![c] = NoSnap]
                                  /\ UNCHANGED <<notified, verified>>
<1>1. CASE UNCHANGED vars \/ Upstream \/ Startup
  BY <1>1 DEF vars, flags, Upstream, Startup, ChangeManifest, UpstreamExit, OnUpstreamProcessExit,
              StartPage, Publish
<1>2. ASSUME NEW c \in Calls, FetchFails(c) \/ Poison(c) \/ Compare(c)
      PROVE  snap' = [snap EXCEPT ![c] = NoSnap] /\ UNCHANGED <<notified, verified>>
  BY <1>2 DEF flags, FetchFails, Poison, Compare
<1>3. ASSUME NEW c \in Calls, \/ Arrive(c) \/ Claim(c) \/ Stages(c) \/ RLock(c) \/ Check(c)
                              \/ Commit(c) \/ Send(c) \/ Answer(c) \/ Report(c)
      PROVE  UNCHANGED <<notified, verified, snap>>
  BY <1>3 DEF flags, Arrive, Claim, Stages, RLock, Check, Commit, Send, Answer, Report
<1> QED BY <1>1, <1>2, <1>3 DEF Next, Step

LEMMA SnapMoved ==
    ASSUME TypeOK, Announced, notified' = notified, NEW c \in Calls, NEW s \in Snap,
           snap' = [snap EXCEPT ![c] = s], s.g <= notified
    PROVE  SnapTyped' /\ Announced'
BY DEF TypeOK, SnapTyped, Announced, Snap

LEMMA GenerationStep ==
    TypeOK /\ Announced /\ [Next]_vars => GenerationsTyped' /\ SnapTyped' /\ Announced'
<1> SUFFICES ASSUME TypeOK, Announced, [Next]_vars
             PROVE  GenerationsTyped' /\ SnapTyped' /\ Announced'
  OBVIOUS
<1>0. GenerationsTyped /\ SnapTyped /\ \A c \in Calls : snap[c] \in Snap
  BY TypeParts DEF SnapTyped
<1>a. NoSnap \in Snap /\ NoSnap.g <= notified
  BY <1>0, PagesNat DEF NoSnap, Snap, GenerationsTyped
<1>1. CASE UNCHANGED <<notified, verified, snap>>
  BY <1>0, <1>1 DEF GenerationsTyped, SnapTyped, Announced
<1>2. CASE OnToolListChanged
  <2>1. notified' \in {notified, notified + 1} /\ verified' = verified /\ snap' = snap
    BY <1>2 DEF OnToolListChanged
  <2>2. \A c \in Calls : snap[c].g \in Nat
    BY <1>0 DEF Snap
  <2> QED BY <1>0, <2>1, <2>2 DEF GenerationsTyped, SnapTyped, Announced
<1>3. CASE StartVerified
  BY <1>0, <1>3 DEF StartVerified, GenerationsTyped, SnapTyped, Announced
<1>4. ASSUME NEW c \in Calls, snap' = [snap EXCEPT ![c] = NoSnap], notified' = notified,
             verified' = verified \/ verified' = snap[c].g
      PROVE  GenerationsTyped' /\ SnapTyped' /\ Announced'
  <2>1. SnapTyped' /\ Announced'
    BY <1>a, <1>4, SnapMoved
  <2>2. snap[c].g \in 0..notified
    BY <1>0 DEF Announced, Snap, GenerationsTyped
  <2> QED BY <1>0, <1>4, <2>1, <2>2 DEF GenerationsTyped
<1>5. ASSUME NEW c \in Calls, NEW s \in Snap, s.g <= notified,
             snap' = [snap EXCEPT ![c] = s], UNCHANGED <<notified, verified>>
      PROVE  GenerationsTyped' /\ SnapTyped' /\ Announced'
  <2>1. SnapTyped' /\ Announced'
    BY <1>5, SnapMoved
  <2> QED BY <1>0, <1>5, <2>1 DEF GenerationsTyped
<1>6. ASSUME NEW c \in Calls, Stage0(c)
      PROVE  GenerationsTyped' /\ SnapTyped' /\ Announced'
  <2>1. PICK s \in Snap : s.g = notified /\ snap' = [snap EXCEPT ![c] = s]
    BY <1>0, <1>6 DEF Stage0, Snap, GenerationsTyped
  <2>2. s.g <= notified
    BY <1>0, <2>1 DEF GenerationsTyped
  <2>3. UNCHANGED <<notified, verified>>
    BY <1>6 DEF Stage0, flags
  <2> QED BY <1>5, <2>1, <2>2, <2>3
<1>7. ASSUME NEW c \in Calls, FetchPage(c)
      PROVE  GenerationsTyped' /\ SnapTyped' /\ Announced'
  <2>1. snap[c].page + 1 \in 1..(Pages + 1) /\ manifest[snap[c].page] \in BOOLEAN
    BY <1>0, <1>7, PagesNat DEF FetchPage, Snap, TypeOK
  <2>2. PICK s : /\ s = [snap[c] EXCEPT !.page = @ + 1, !.ok = @ /\ manifest[snap[c].page]]
                 /\ snap' = [snap EXCEPT ![c] = s]
    BY <1>7 DEF FetchPage
  <2>3. s \in Snap /\ s.g = snap[c].g
    BY <1>0, <2>1, <2>2 DEF Snap
  <2> QED BY <1>5, <1>7, <2>2, <2>3 DEF FetchPage, flags, Announced
<1>8. ASSUME NEW c \in Calls, Reverify(c)
      PROVE  GenerationsTyped' /\ SnapTyped' /\ Announced'
  <2>1. UNCHANGED <<notified, verified>>
    BY <1>8 DEF Reverify, flags
  <2>2. CASE snap' = snap
    BY <1>1, <2>1, <2>2
  <2>3. CASE snap' # snap
    <3>1. PICK s : /\ s = [g |-> notified, page |-> 1, ok |-> TRUE]
                   /\ snap' = [snap EXCEPT ![c] = s]
      BY <1>8, <2>3 DEF Reverify
    <3>2. s \in Snap /\ s.g <= notified
      BY <1>0, <3>1, PagesNat DEF Snap, GenerationsTyped
    <3> QED BY <1>5, <2>1, <3>1, <3>2
  <2> QED BY <2>2, <2>3
<1>9. ASSUME NEW c \in Calls, Verified(c)
      PROVE  GenerationsTyped' /\ SnapTyped' /\ Announced'
  BY <1>4, <1>9 DEF Verified
<1> QED BY <1>1, <1>2, <1>3, <1>4, <1>6, <1>7, <1>8, <1>9, GenerationCases

LEMMA DifferStep == TypeOK /\ [Next]_vars => DifferTyped'
<1> SUFFICES ASSUME DifferTyped, Watch \/ UNCHANGED differ PROVE DifferTyped'
  BY TypeParts DEF Next, vars
<1>1. Differing' \in SUBSET (1..Pages)
  BY DEF Differing
<1>2. CASE Watch
  BY <1>1, <1>2 DEF Watch, DifferTyped
<1> QED BY <1>2 DEF DifferTyped

LEMMA TypeStep == TypeOK /\ Announced /\ [Next]_vars => TypeOK' /\ Announced'
<1> SUFFICES ASSUME TypeOK, Announced, [Next]_vars
             PROVE  /\ UpstreamTyped' /\ GenerationsTyped' /\ FlagsTyped' /\ LockTyped'
                    /\ CallsTyped' /\ SnapTyped' /\ DifferTyped' /\ Announced'
  BY TypeParts DEF TypeOK, UpstreamTyped, GenerationsTyped, FlagsTyped, LockTyped, CallsTyped,
                   SnapTyped, Snap, DifferTyped
<1> QED BY LockStep, UpstreamStep, GenerationStep, DifferStep

LEMMA TypeInit == Init => TypeOK /\ Announced
<1> SUFFICES ASSUME Init PROVE TypeOK /\ Announced
  OBVIOUS
<1>1. UpstreamTyped /\ GenerationsTyped /\ FlagsTyped /\ LockTyped
  <2>1. manifest \in [1..Pages -> BOOLEAN] /\ boot \in 1..(Pages + 1)
    BY PagesNat DEF Init
  <2>2. notified \in Nat /\ verified \in 0..notified /\ pending \in Nat
    BY DEF Init
  <2> QED BY <2>1, <2>2 DEF Init, UpstreamTyped, GenerationsTyped, FlagsTyped, LockTyped
<1>2. CallsTyped
  BY DEF Init, CallsTyped, Label
<1>3. NoSnap \in Snap /\ NoSnap.g = 0
  BY PagesNat DEF NoSnap, Snap
<1>4. SnapTyped /\ Announced
  BY <1>3 DEF Init, SnapTyped, Announced
<1>5. DifferTyped
  BY DEF Init, DifferTyped
<1> QED BY <1>1, <1>2, <1>4, <1>5, TypeParts

\* TypeOK of run GatewayCalls, for any requests and pages; verifiedGen takes no value that
\* notifiedGen never had because what a request reads of notifiedGen stays below it.
THEOREM GatewayTypeOK == Spec => []TypeOK
BY TypeInit, TypeStep, PTL DEF Spec
-----------------------------------------------------------------------------
(* The lock *)

Draining == {"drain0", "drainR", "drainW"}
\* What a request of each kind passes through
KindInv(c) ==
    /\ pc[c] # "idle" => kind[c] \in Kinds
    /\ pc[c] \in {"rlock", "rwait", "check", "lockR", "drainR", "fetchR"} => kind[c] = "read"
    /\ pc[c] \in {"lockW", "drainW", "fetchW", "commit"} => kind[c] = "write"
    /\ pc[c] \in {"stages", "call", "calling", "report"} => kind[c] # "list"
\* A writer that has seen the readers out is alone
HoldInv(c) ==
    /\ Writes(c) <=> writer = c
    /\ Reads(c) <=> c \in readers
    /\ Writes(c) /\ pc[c] \notin Draining => readers = {}
LockInv == \A c \in Calls : KindInv(c) /\ HoldInv(c)

Others(c) == \A d \in Calls \ {c} : pc'[d] = pc[d] /\ kind'[d] = kind[d]

LEMMA GotoMoves ==
    ASSUME TypeOK, NEW c \in Calls, NEW l, Goto(c, l)
    PROVE  /\ Others(c) /\ pc'[c] = l
           /\ kind'[c] = IF l = "idle" THEN "none" ELSE kind[c]
BY DEF TypeOK, Goto, Others

\* c goes on and holds what it held
LEMMA HoldsOn ==
    ASSUME TypeOK, LockInv, NEW c \in Calls, Others(c), UNCHANGED lock, KindInv(c)',
           Reads(c)' <=> Reads(c), Writes(c)' <=> Writes(c),
           Writes(c)' /\ pc'[c] \notin Draining => readers = {}
    PROVE  LockInv'
<1>1. HoldInv(c)'
  BY DEF LockInv, HoldInv, lock
<1>2. ASSUME NEW d \in Calls \ {c} PROVE KindInv(d)' /\ HoldInv(d)'
  BY <1>2 DEF LockInv, KindInv, HoldInv, Others, lock, Reads, Writes
<1> QED BY <1>1, <1>2 DEF LockInv

\* c takes or gives up the read lock; it takes it only if there is no writer
LEMMA ReadersChange ==
    ASSUME TypeOK, LockInv, NEW c \in Calls, Others(c), UNCHANGED writer, KindInv(c)',
           Reads(c)' <=> c \in readers', ~Writes(c), ~Writes(c)',
           readers' = readers \ {c} \/ (readers' = readers \cup {c} /\ writer = NoCall)
    PROVE  LockInv'
<1>1. HoldInv(c)'
  BY DEF LockInv, HoldInv
<1>2. ASSUME NEW d \in Calls \ {c} PROVE KindInv(d)' /\ HoldInv(d)'
  <2>1. KindInv(d) /\ HoldInv(d) /\ pc'[d] = pc[d] /\ kind'[d] = kind[d] /\ writer' = writer
    BY <1>2 DEF LockInv, Others
  <2>2. d \in readers' <=> d \in readers
    BY <1>2
  <2>3. (Reads(d)' <=> Reads(d)) /\ (Writes(d)' <=> Writes(d)) /\ KindInv(d)'
    BY <2>1 DEF Reads, Writes, KindInv
  <2>4. writer = d => readers' \subseteq readers
    BY <1>2, PagesNat
  <2> QED BY <2>1, <2>2, <2>3, <2>4 DEF HoldInv
<1> QED BY <1>1, <1>2 DEF LockInv

LEMMA ClaimKeeps == ASSUME TypeOK, LockInv, NEW c \in Calls, Claim(c) PROVE LockInv'
<1>1. PICK l \in Draining : /\ Goto(c, l)
                            /\ l = CASE pc[c] = "lock0" -> "drain0" [] pc[c] = "lockR" -> "drainR"
                                     [] OTHER -> "drainW"
  BY DEF Claim, Draining
<1>2. /\ Others(c) /\ pc'[c] = l /\ kind'[c] = kind[c]
      /\ writer = NoCall /\ writer' = c /\ readers' = readers
  BY <1>1, GotoMoves DEF Claim, Draining
<1>3. KindInv(c) /\ HoldInv(c) /\ pc[c] \in {"lock0", "lockR", "lockW"}
  BY DEF LockInv, Claim
<1>4. KindInv(c)'
  BY <1>1, <1>2, <1>3 DEF KindInv
<1>5. HoldInv(c)'
  BY <1>1, <1>2, <1>3 DEF HoldInv, Reads, Writes, Inside, Sending, Draining
<1>6. ASSUME NEW d \in Calls \ {c} PROVE KindInv(d)' /\ HoldInv(d)'
  BY <1>2, <1>6, PagesNat DEF LockInv, KindInv, HoldInv, Others, Reads, Writes
<1> QED BY <1>4, <1>5, <1>6 DEF LockInv

\* The writer leaves, and the readers that waited for it are let in.
LEMMA UnlockKeeps ==
    ASSUME TypeOK, LockInv, NEW c \in Calls, NEW l \in {"idle", "stages", "rlock"}, Unlock(c, l),
           writer = c, l = "stages" => kind[c] # "list", l = "rlock" => kind[c] = "read"
    PROVE  LockInv'
<1>1. KindInv(c) /\ HoldInv(c) /\ Writes(c)
  BY DEF LockInv, HoldInv
<1>2. c \notin Waiting /\ pc[c] # "idle"
  BY <1>1 DEF Writes, Waiting, Inside, Sending
<1>3. pc'[c] = l /\ kind'[c] = IF l = "idle" THEN "none" ELSE kind[c]
  BY <1>2 DEF Unlock, TypeOK
<1>4. writer' = NoCall /\ readers' = readers \cup Waiting
  BY DEF Unlock
<1>5. KindInv(c)'
  BY <1>1, <1>2, <1>3 DEF KindInv
<1>6. ~Writes(c)' /\ ~Reads(c)' /\ c \notin readers'
  BY <1>1, <1>2, <1>3, <1>4 DEF HoldInv, Writes, Reads, Inside, Sending
<1>7. ASSUME NEW d \in Calls \ {c} PROVE KindInv(d)' /\ HoldInv(d)'
  <2>1. KindInv(d) /\ HoldInv(d) /\ kind'[d] = kind[d] /\ ~Writes(d)
    BY <1>7 DEF LockInv, HoldInv, Unlock, TypeOK
  <2>2. CASE d \in Waiting
    <3>1. pc[d] = "rwait" /\ pc'[d] = "check" /\ d \in readers'
      BY <1>4, <1>7, <2>2 DEF Waiting, Unlock
    <3> QED BY <1>4, <2>1, <3>1, PagesNat DEF KindInv, HoldInv, Reads, Writes, Inside, Sending
  <2>3. CASE d \notin Waiting
    <3>1. pc'[d] = pc[d] /\ (d \in readers' <=> d \in readers)
      BY <1>4, <1>7, <2>3 DEF Unlock
    <3> QED BY <1>4, <2>1, <3>1, PagesNat DEF KindInv, HoldInv, Reads, Writes
  <2> QED BY <2>2, <2>3
<1>8. HoldInv(c)'
  BY <1>4, <1>6, PagesNat DEF HoldInv
<1> QED BY <1>5, <1>7, <1>8 DEF LockInv

\* A request whose code is in a section holds the lock, and alone once it is past the drain.
LEMMA Holder ==
    ASSUME LockInv, NEW c \in Calls
    PROVE  /\ KindInv(c)
           /\ Fetching(c) \/ pc[c] \in Draining \/ pc[c] = "commit" => writer = c
           /\ Fetching(c) \/ pc[c] = "commit" => readers = {}
           /\ pc[c] \in Sending /\ kind[c] = "write" => writer = c /\ readers = {}
           /\ pc[c] = "check" => c \in readers
           /\ pc[c] \in {"call", "calling"} /\ kind[c] = "read" => c \in readers
BY DEF LockInv, HoldInv, Writes, Reads, Inside, Sending, Draining, Fetching

LEMMA GotoKeeps ==
    ASSUME TypeOK, LockInv, NEW c \in Calls, NEW l, Goto(c, l), UNCHANGED lock,
           \/ pc[c] \in {"stage0", "compare", "stages", "rlock"} /\ l \in {"compare", "lock0", "idle"}
           \/ pc[c] = "compare" /\ l = "stages" /\ kind[c] # "list"
           \/ pc[c] = "stages" /\ l = "rlock" /\ kind[c] = "read"
           \/ pc[c] = "stages" /\ l = "lockW" /\ kind[c] # "read"
           \/ pc[c] = "rlock" /\ l = "rwait"
           \/ pc[c] = "fetchW" /\ l = "commit"
           \/ pc[c] \in {"commit", "check"} /\ l = "call"
           \/ pc[c] = "call" /\ l = "calling"
           \/ pc[c] = "calling" /\ l = "report" /\ kind[c] # "read"
           \/ pc[c] = "report" /\ l = "idle" /\ kind[c] = "read"
           \/ /\ readers = {}
              /\ \/ pc[c] = "drain0" /\ l = "fetch0"
                 \/ pc[c] = "drainR" /\ l = "fetchR"
                 \/ pc[c] = "drainW" /\ l = "fetchW"
    PROVE  LockInv'
<1>1. Others(c) /\ pc'[c] = l /\ kind'[c] = IF l = "idle" THEN "none" ELSE kind[c]
  BY GotoMoves
<1>2. KindInv(c) /\ HoldInv(c)
  BY DEF LockInv
<1>3. KindInv(c)'
  BY <1>1, <1>2 DEF KindInv, Kinds
<1>4. (Reads(c)' <=> Reads(c)) /\ (Writes(c)' <=> Writes(c))
  BY <1>1, <1>2 DEF KindInv, Kinds, Reads, Writes, Inside, Sending
<1>5. Writes(c)' /\ pc'[c] \notin Draining => readers = {}
  BY <1>1, <1>2, <1>4 DEF HoldInv, Draining, Writes, Inside, Sending
<1> QED BY <1>1, <1>3, <1>4, <1>5, HoldsOn

LEMMA RUnlockKeeps ==
    ASSUME TypeOK, LockInv, NEW c \in Calls, NEW l, RUnlock(c, l),
           \/ pc[c] = "check" /\ l \in {"idle", "lockR"}
           \/ pc[c] = "calling" /\ l = "report" /\ kind[c] = "read"
    PROVE  LockInv'
<1>1. Others(c) /\ pc'[c] = l /\ kind'[c] = IF l = "idle" THEN "none" ELSE kind[c]
  BY GotoMoves DEF RUnlock
<1>2. KindInv(c)
  BY DEF LockInv
<1>3. KindInv(c)'
  BY <1>1, <1>2 DEF KindInv, Kinds
<1>4. ~Writes(c) /\ ~Writes(c)' /\ ~Reads(c)'
  BY <1>1, <1>2 DEF KindInv, Writes, Reads, Inside, Sending
<1>5. readers' = readers \ {c} /\ writer' = writer
  BY DEF RUnlock
<1> QED BY <1>1, <1>3, <1>4, <1>5, ReadersChange

LEMMA LockInvStep == TypeOK /\ LockInv /\ [Next]_vars => LockInv'
<1> SUFFICES ASSUME TypeOK, LockInv, [Next]_vars PROVE LockInv'
  OBVIOUS
<1>1. CASE UNCHANGED <<lock, pc, kind>>
  BY <1>1 DEF lock, LockInv, KindInv, HoldInv, Reads, Writes
<1>2. CASE UNCHANGED vars \/ Upstream \/ Startup \/ \E c \in Calls : FetchPage(c)
  BY <1>1, <1>2 DEF vars, lock, Upstream, Startup, ChangeManifest, OnToolListChanged, UpstreamExit,
                    OnUpstreamProcessExit, StartPage, StartVerified, Publish, FetchPage
<1>3. ASSUME NEW c \in Calls, Reverify(c) PROVE LockInv'
  BY <1>3, GotoKeeps, UnlockKeeps DEF Reverify
<1>4. ASSUME NEW c \in Calls, FetchFails(c) \/ Poison(c) PROVE LockInv'
  <2>1. Unlock(c, "idle") /\ Fetching(c)
    BY <1>4 DEF FetchFails, Poison
  <2> QED BY <2>1, Holder, UnlockKeeps
<1>5. ASSUME NEW c \in Calls, Verified(c) PROVE LockInv'
  <2>1. Fetching(c) /\ Proceed(c) /\ writer = c /\ KindInv(c)
    BY <1>5, Holder DEF Verified, Fetched
  <2>2. CASE pc[c] = "fetch0"
    BY <2>1, <2>2, UnlockKeeps DEF Proceed
  <2>3. CASE pc[c] = "fetchR"
    BY <2>1, <2>3, UnlockKeeps DEF Proceed, KindInv
  <2>4. CASE pc[c] = "fetchW"
    BY <2>1, <2>4, GotoKeeps DEF Proceed
  <2> QED BY <2>1, <2>2, <2>3, <2>4 DEF Fetching
<1>6. ASSUME NEW c \in Calls, Arrive(c) PROVE LockInv'
  <2>1. /\ Others(c) /\ pc[c] = "idle" /\ pc'[c] = "stage0" /\ kind'[c] \in Kinds
        /\ UNCHANGED lock
    BY <1>6 DEF Arrive, Others, TypeOK
  <2>2. KindInv(c)'
    BY <2>1 DEF KindInv
  <2>3. ~Reads(c) /\ ~Reads(c)' /\ ~Writes(c) /\ ~Writes(c)'
    BY <2>1 DEF Reads, Writes, Inside, Sending
  <2> QED BY <2>1, <2>2, <2>3, HoldsOn
<1>7. ASSUME NEW c \in Calls, Stage0(c) \/ Compare(c) \/ Stages(c) \/ Send(c) PROVE LockInv'
  BY <1>7, GotoKeeps DEF Stage0, Compare, Stages, Send
<1>8. ASSUME NEW c \in Calls, RLock(c) PROVE LockInv'
  <2>1. KindInv(c) /\ pc[c] = "rlock"
    BY <1>8 DEF LockInv, RLock
  <2>2. CASE ~CanRead
    BY <1>8, <2>2, GotoKeeps DEF RLock, lock
  <2>3. CASE CanRead
    <3>1. /\ Others(c) /\ pc'[c] = "check" /\ kind'[c] = kind[c]
          /\ readers' = readers \cup {c} /\ writer = NoCall /\ writer' = writer
      BY <1>8, <2>3, GotoMoves DEF RLock, CanRead
    <3>2. KindInv(c)' /\ Reads(c)' /\ ~Writes(c) /\ ~Writes(c)'
      BY <2>1, <3>1 DEF KindInv, Reads, Writes, Inside, Sending
    <3> QED BY <3>1, <3>2, ReadersChange
  <2> QED BY <2>2, <2>3
<1>9. ASSUME NEW c \in Calls, Check(c) PROVE LockInv'
  BY <1>9, GotoKeeps, RUnlockKeeps DEF Check
<1>10. ASSUME NEW c \in Calls, Commit(c) PROVE LockInv'
  BY <1>10, GotoKeeps, UnlockKeeps, Holder DEF Commit
<1>11. ASSUME NEW c \in Calls, Answer(c) PROVE LockInv'
  BY <1>11, GotoKeeps, RUnlockKeeps DEF Answer, lock
<1>12. ASSUME NEW c \in Calls, Report(c) PROVE LockInv'
  <2>1. KindInv(c) /\ pc[c] = "report"
    BY <1>12 DEF LockInv, Report
  <2>2. CASE kind[c] = "read"
    BY <1>12, <2>2, GotoKeeps DEF Report
  <2>3. CASE kind[c] # "read"
    <3>1. kind[c] = "write" /\ Unlock(c, "idle")
      BY <1>12, <2>1, <2>3 DEF Report, KindInv, Kinds
    <3> QED BY <2>1, <3>1, Holder, UnlockKeeps DEF Sending
  <2> QED BY <2>2, <2>3
<1> QED BY <1>2, <1>3, <1>4, <1>5, <1>6, <1>7, <1>8, <1>9, <1>10, <1>11, <1>12, ClaimKeeps
        DEF Next, Step
-----------------------------------------------------------------------------
(* Calls that were cleared *)

\* A request moves by its own steps, or is let in where it waited.
LEMMA OwnSteps ==
    ASSUME TypeOK, [Next]_vars, NEW c \in Calls, pc'[c] # pc[c]
    PROVE  pc'[c] = "check" \/ Arrive(c) \/ Claim(c) \/ Step(c)
<1>1. ASSUME NEW d \in Calls, d # c, Moves(d) PROVE pc'[c] = "check"
  <2>1. ASSUME NEW l, Goto(d, l) PROVE pc'[c] = pc[c]
    BY <1>1, <2>1 DEF Goto, TypeOK
  <2>2. ASSUME NEW l, Unlock(d, l) PROVE pc'[c] = pc[c] \/ pc'[c] = "check"
    BY <1>1, <2>2 DEF Unlock
  <2>3. ASSUME Arrive(d) PROVE pc'[c] = pc[c]
    BY <1>1, <2>3 DEF Arrive, TypeOK
  <2> QED BY <1>1, <2>1, <2>2, <2>3 DEF Moves, Claim, RLock, RUnlock
<1>2. \/ UNCHANGED pc
      \/ \E d \in Calls : Moves(d) /\ (Arrive(d) \/ Claim(d) \/ Step(d))
  <2>1. CASE UNCHANGED vars \/ Upstream \/ Startup
    BY <2>1 DEF vars, Upstream, Startup, ChangeManifest, OnToolListChanged, UpstreamExit,
                OnUpstreamProcessExit, StartPage, StartVerified, Publish
  <2>2. ASSUME NEW d \in Calls, Arrive(d) \/ Claim(d) \/ Step(d) PROVE UNCHANGED pc \/ Moves(d)
    <3>1. CASE Reverify(d) \/ FetchFails(d) \/ Poison(d)
      BY <3>1 DEF Reverify, FetchFails, Poison, Moves, Label
    <3>2. CASE Verified(d)
      BY <3>2, ProceedMoves DEF Verified, Fetched
    <3>3. CASE Stage0(d) \/ Compare(d) \/ Stages(d) \/ Send(d) \/ FetchPage(d)
      BY <3>3 DEF Stage0, Compare, Stages, Send, FetchPage, Moves, Label
    <3>4. CASE Check(d) \/ Commit(d) \/ Answer(d) \/ Report(d)
      BY <3>4 DEF Check, Commit, Answer, Report, Moves, Label
    <3> QED BY <2>2, <3>1, <3>2, <3>3, <3>4 DEF Step, Moves
  <2> QED BY <2>1, <2>2 DEF Next
<1> QED BY <1>1, <1>2

\* How a request comes to where it must not be poisoned or out of date
LEMMA Entries ==
    ASSUME TypeOK, [Next]_vars, NEW c \in Calls, pc'[c] # pc[c]
    PROVE  /\ pc'[c] \in {"fetch0", "fetchR", "fetchW"} => ~poisoned /\ snap'[c].page = 1
           /\ pc'[c] = "commit" => Fetched(c) /\ snap[c].ok
           /\ pc'[c] = "call" => \/ pc[c] = "commit"
                                 \/ pc[c] = "check" /\ ~poisoned /\ ~Dirty
<1>1. ASSUME NEW l, Goto(c, l) \/ Unlock(c, l) \/ RUnlock(c, l) PROVE pc'[c] = l
  BY <1>1 DEF Goto, Unlock, RUnlock, TypeOK
<1>2. CASE Arrive(c)
  BY <1>2 DEF Arrive, TypeOK
<1>3. CASE Claim(c)
  BY <1>1, <1>3 DEF Claim
<1>4. CASE Reverify(c)
  BY <1>1, <1>4 DEF Reverify, TypeOK
<1>5. CASE FetchFails(c) \/ Poison(c)
  BY <1>1, <1>5 DEF FetchFails, Poison
<1>6. CASE Verified(c)
  BY <1>1, <1>6 DEF Verified, Proceed, Fetched, Fetching
<1>7. CASE Stage0(c) \/ Compare(c) \/ Stages(c) \/ Send(c) \/ RLock(c)
  BY <1>1, <1>7 DEF Stage0, Compare, Stages, Send, RLock
<1>8. CASE Check(c) \/ Commit(c) \/ Answer(c) \/ Report(c)
  BY <1>1, <1>8 DEF Check, Commit, Answer, Report
<1>9. CASE FetchPage(c)
  BY <1>9 DEF FetchPage
<1> QED BY <1>2, <1>3, <1>4, <1>5, <1>6, <1>7, <1>8, <1>9, OwnSteps DEF Step

UnpoisonedInv ==
    \A c \in Calls : Fetching(c) \/ pc[c] \in {"commit", "call"} => ~poisoned

\* Whoever verifies is alone: with the fetch of another no call is under way.
LEMMA AloneAtFetch ==
    ASSUME LockInv, NEW c \in Calls, Fetching(c) \/ pc[c] = "commit", NEW d \in Calls \ {c}
    PROVE  ~Fetching(d) /\ pc[d] \notin {"commit", "call", "calling"}
<1>1. writer = c /\ readers = {}
  BY Holder
<1>2. ~Fetching(d) /\ pc[d] # "commit"
  BY <1>1, Holder
<1>3. pc[d] \in {"call", "calling"} => kind[d] \in {"read", "write"}
  BY Holder DEF KindInv, Kinds
<1>4. pc[d] \notin {"call", "calling"}
  BY <1>1, <1>3, Holder DEF Sending
<1> QED BY <1>2, <1>4

LEMMA UnpoisonedStep == TypeOK /\ LockInv /\ UnpoisonedInv /\ [Next]_vars => UnpoisonedInv'
<1> SUFFICES ASSUME TypeOK, LockInv, UnpoisonedInv, [Next]_vars,
                    NEW c \in Calls, Fetching(c)' \/ pc'[c] \in {"commit", "call"}
             PROVE  ~poisoned'
  BY DEF UnpoisonedInv
<1>1. ~poisoned
  <2>1. CASE pc'[c] = pc[c]
    BY <2>1 DEF UnpoisonedInv, Fetching
  <2>2. CASE pc'[c] # pc[c]
    BY <2>2, Entries DEF UnpoisonedInv, Fetching, Fetched
  <2> QED BY <2>1, <2>2
<1>2. ASSUME NEW d \in Calls, Poison(d) PROVE FALSE
  <2>1. CASE d = c
    BY <1>2, <2>1 DEF Poison, Unlock, TypeOK, Fetching
  <2>2. CASE d # c
    <3>1. pc'[c] = pc[c]
      BY <1>2, <2>2 DEF Poison, Unlock, Waiting, Fetching
    <3> QED BY <1>2, <2>2, <3>1, AloneAtFetch DEF Poison, Fetching
  <2> QED BY <2>1, <2>2
<1>3. poisoned' = poisoned \/ \E d \in Calls : Poison(d)
  <2>1. CASE UNCHANGED vars \/ Upstream \/ Startup
    BY <2>1 DEF vars, flags, Upstream, Startup, ChangeManifest, OnToolListChanged, UpstreamExit,
                OnUpstreamProcessExit, StartPage, StartVerified, Publish
  <2>2. ASSUME NEW d \in Calls, Arrive(d) \/ Claim(d) \/ Step(d), ~Poison(d)
        PROVE  poisoned' = poisoned
    BY <2>2 DEF flags, Step, Arrive, Claim, Reverify, FetchPage, FetchFails, Verified, Stage0,
                Compare, Stages, RLock, Check, Commit, Send, Answer, Report
  <2> QED BY <2>1, <2>2 DEF Next
<1> QED BY <1>1, <1>2, <1>3
-----------------------------------------------------------------------------
(* The tool list *)

\* What a request knows of the list moves page by page, once it fetches it.
LEMMA SnapMoves ==
    ASSUME TypeOK, [Next]_vars, NEW c \in Calls
    PROVE  \/ snap'[c] = snap[c] \/ snap'[c] = NoSnap
           \/ FetchPage(c) \/ Reverify(c) \/ Stage0(c)
<1>0. snap \in [Calls -> Snap]
  BY TypeParts DEF SnapTyped
<1>1. ASSUME NEW d \in Calls, NEW e, snap' = [snap EXCEPT ![d] = e], d # c
      PROVE  snap'[c] = snap[c]
  BY <1>0, <1>1
<1>2. ASSUME NEW d \in Calls, snap' = [snap EXCEPT ![d] = NoSnap] \/ Verified(d)
      PROVE  snap'[c] = snap[c] \/ snap'[c] = NoSnap
  BY <1>0, <1>2 DEF Verified
<1>3. ASSUME NEW d \in Calls, FetchPage(d) \/ Reverify(d) \/ Stage0(d), d # c
      PROVE  snap'[c] = snap[c]
  BY <1>0, <1>3 DEF FetchPage, Reverify, Stage0
<1> QED BY <1>2, <1>3, GenerationCases DEF OnToolListChanged, StartVerified

LEMMA PageFetched ==
    ASSUME TypeOK, [Next]_vars, NEW c \in Calls, Fetching(c)', snap'[c].page # 1
    PROVE  /\ pc'[c] = pc[c] /\ Fetching(c)
           /\ \/ snap'[c] = snap[c]
              \/ /\ snap'[c].g = snap[c].g /\ snap'[c].page = snap[c].page + 1
                 /\ snap'[c].ok <=> snap[c].ok /\ manifest[snap[c].page]
<1>0. snap \in [Calls -> Snap]
  BY TypeParts DEF SnapTyped
<1>1. pc'[c] = pc[c] /\ Fetching(c)
  BY Entries DEF Fetching
<1>2. CASE FetchPage(c)
  <2>1. PICK s \in Snap : s = snap[c]
    BY <1>0
  <2>2. snap'[c] = [s EXCEPT !.page = @ + 1, !.ok = @ /\ manifest[s.page]]
    BY <1>0, <1>2, <2>1 DEF FetchPage
  <2> QED BY <1>1, <2>1, <2>2 DEF Snap
<1>3. ~Reverify(c) /\ ~Stage0(c)
  BY <1>1 DEF Reverify, Stage0, Fetching
<1>4. snap'[c] # NoSnap
  BY DEF NoSnap
<1> QED BY <1>1, <1>2, <1>3, <1>4, SnapMoves

\* What a request has fetched is as pinned if nothing was announced since
FetchedInv(c) ==
    Fetching(c) /\ snap[c].ok /\ snap[c].g = notified /\ pending = 0 =>
        \A n \in 1..Pages : n < snap[c].page => manifest[n]
DriftInv ==
    /\ phase # "serving" => Pinned /\ pending = 0
    /\ DriftIsNoticed
    /\ \A c \in Calls : FetchedInv(c)

LEMMA VerifiedIsPinned ==
    ASSUME TypeOK, NEW c \in Calls, FetchedInv(c), Fetched(c), snap[c].ok,
           snap[c].g = notified, pending = 0
    PROVE  Pinned
<1>1. snap[c].page \in Nat /\ Pages \in Nat /\ snap[c].page > Pages
  BY PagesNat DEF TypeOK, Fetched
<1>2. \A n \in 1..Pages : n < snap[c].page
  BY <1>1
<1> QED BY <1>2 DEF FetchedInv, Fetched, Pinned

LEMMA FetchedStep ==
    ASSUME TypeOK, Announced, DriftInv, [Next]_vars, UNCHANGED <<notified, pending, manifest>>,
           NEW c \in Calls
    PROVE  FetchedInv(c)'
<1> SUFFICES ASSUME Fetching(c)', snap'[c].ok, snap'[c].g = notified, pending = 0,
                    NEW n \in 1..Pages, n < snap'[c].page
             PROVE  manifest[n]
  BY DEF FetchedInv
<1>0. FetchedInv(c) /\ snap[c] \in Snap
  BY TypeParts DEF DriftInv, SnapTyped
<1>1. snap'[c].page # 1
  BY PagesNat
<1>2. CASE snap'[c] = snap[c]
  BY <1>0, <1>1, <1>2, PageFetched DEF FetchedInv
<1>3. CASE snap'[c].page = snap[c].page + 1
  <2>1. n < snap[c].page \/ n = snap[c].page
    BY <1>0, <1>3, PagesNat DEF Snap
  <2>2. snap'[c] # snap[c]
    BY <1>0, <1>3 DEF Snap
  <2> QED BY <1>0, <1>1, <2>1, <2>2, PageFetched DEF FetchedInv
<1> QED BY <1>1, <1>2, <1>3, PageFetched

\* A manifest changes, and a notification arrives, only while the gateway serves.
LEMMA DriftStep ==
    ASSUME ~EarlyNotices, TypeOK, Announced, DriftInv, [Next]_vars
    PROVE  DriftInv'
<1>0. /\ pending \in Nat /\ notified \in Nat /\ verified \in 0..notified
      /\ \A c \in Calls : snap[c] \in Snap
  BY DEF TypeOK, Snap
<1>1. CASE ChangeManifest
  <2>1. phase' = "serving" /\ pending' # 0
    BY <1>0, <1>1 DEF ChangeManifest
  <2> QED BY <2>1 DEF DriftInv, DriftIsNoticed, FetchedInv
<1>2. CASE OnToolListChanged
  <2>1. phase' = "serving" /\ notified' = notified + 1 /\ verified' = verified /\ snap' = snap
    BY <1>0, <1>2 DEF OnToolListChanged, DriftInv
  <2>2. Dirty'
    BY <1>0, <2>1 DEF Dirty
  <2>3. \A c \in Calls : snap'[c].g # notified'
    BY <1>0, <2>1 DEF Announced, Snap
  <2> QED BY <2>1, <2>2, <2>3 DEF DriftInv, DriftIsNoticed, FetchedInv
<1>3. ASSUME UNCHANGED <<notified, pending, manifest>>,
             phase' = "serving" => phase = "serving" \/ Pinned,
             phase' # "serving" => phase # "serving",
             phase' = "serving" => \/ verified' = verified
                                   \/ \E c \in Calls : Verified(c)
      PROVE  DriftInv'
  <2>1. \A c \in Calls : FetchedInv(c)'
    BY <1>3, FetchedStep
  <2>2. phase' # "serving" => Pinned' /\ pending' = 0
    BY <1>3 DEF DriftInv, Pinned
  <2>3. DriftIsNoticed'
    <3> SUFFICES ASSUME phase' = "serving", verified' = notified, pending = 0 PROVE Pinned
      BY <1>3 DEF DriftIsNoticed, Dirty, Pinned
    <3>1. CASE verified' = verified
      BY <1>3, <3>1 DEF DriftInv, DriftIsNoticed, Dirty
    <3>2. ASSUME NEW c \in Calls, Verified(c) PROVE Pinned
      BY <3>2, VerifiedIsPinned DEF Verified, DriftInv
    <3> QED BY <1>3, <3>1, <3>2
  <2> QED BY <2>1, <2>2, <2>3 DEF DriftInv
<1>4. CASE UNCHANGED vars \/ UpstreamExit \/ OnUpstreamProcessExit \/ Startup
  <2>1. /\ UNCHANGED <<notified, pending, manifest>>
        /\ phase' = "serving" => phase = "serving" \/ phase = "pinned"
        /\ phase' # "serving" => phase # "serving"
        /\ phase' = "serving" => verified' = verified
    BY <1>4 DEF vars, upstream, flags, UpstreamExit, OnUpstreamProcessExit, Startup, StartPage,
                StartVerified, Publish
  <2> QED BY <1>3, <2>1 DEF DriftInv
<1>5. ASSUME NEW c \in Calls, Arrive(c) \/ Claim(c) \/ Step(c) PROVE DriftInv'
  <2>1. UNCHANGED <<notified, pending, manifest, phase>>
    <3>1. CASE Arrive(c) \/ Claim(c) \/ Reverify(c) \/ FetchPage(c) \/ FetchFails(c) \/ Verified(c)
      BY <3>1 DEF upstream, flags, Arrive, Claim, Reverify, FetchPage, FetchFails, Verified
    <3>2. CASE Poison(c) \/ Stage0(c) \/ Compare(c) \/ Stages(c) \/ RLock(c)
      BY <3>2 DEF upstream, flags, Poison, Stage0, Compare, Stages, RLock
    <3>3. CASE Check(c) \/ Commit(c) \/ Send(c) \/ Answer(c) \/ Report(c)
      BY <3>3 DEF upstream, flags, Check, Commit, Send, Answer, Report
    <3> QED BY <1>5, <3>1, <3>2, <3>3 DEF Step
  <2>2. verified' = verified \/ Verified(c)
    BY <1>5 DEF flags, Step, Arrive, Claim, Reverify, FetchPage, FetchFails, Poison, Stage0,
                Compare, Stages, RLock, Check, Commit, Send, Answer, Report
  <2> QED BY <1>3, <2>1, <2>2
<1> QED BY <1>1, <1>2, <1>4, <1>5 DEF Next, Upstream
-----------------------------------------------------------------------------
GatewayInv == TypeOK /\ Announced /\ LockInv /\ UnpoisonedInv

LEMMA GatewayInvariant == Spec => []GatewayInv
<1>1. Init => GatewayInv
  <2> SUFFICES ASSUME Init PROVE LockInv /\ UnpoisonedInv
    BY TypeInit DEF GatewayInv
  <2>1. \A c \in Calls : pc[c] = "idle" /\ c # writer /\ readers = {}
    BY PagesNat DEF Init
  <2> QED BY <2>1 DEF LockInv, KindInv, HoldInv, Reads, Writes, Inside, Sending, UnpoisonedInv,
                      Fetching
<1>2. GatewayInv /\ [Next]_vars => GatewayInv'
  BY TypeStep, LockInvStep, UnpoisonedStep DEF GatewayInv
<1> QED BY <1>1, <1>2, PTL DEF Spec

\* LocksReleased of run GatewayCalls: what each return leaves of epochMu is right for any
\* number of requests, given that only reads take the read lock and that a writer that has
\* seen the readers out stays without any (KindInv, HoldInv).
THEOREM GatewayLocksReleased == Spec => []LocksReleased
<1>1. GatewayInv => LocksReleased
  BY DEF GatewayInv, LockInv, HoldInv, LocksReleased, TypeOK
<1> QED BY <1>1, GatewayInvariant, PTL

\* CallsAreExclusive of run GatewayCalls, for any number of requests.
THEOREM GatewayCallsAreExclusive == Spec => []CallsAreExclusive
<1>1. ASSUME GatewayInv, NEW c \in AtUpstream, NEW d \in Calls \ {c}
      PROVE  /\ ~Fetching(d) /\ pc[d] # "commit"
             /\ d \in AtUpstream => kind[c] = "read" /\ kind[d] = "read"
  <2>1. c \in Calls /\ pc[c] \in {"call", "calling"} /\ LockInv
    BY <1>1 DEF AtUpstream, GatewayInv
  <2>2. ~Fetching(d) /\ pc[d] # "commit"
    BY <1>1, <2>1, AloneAtFetch
  <2>3. \A e \in AtUpstream : /\ kind[e] = "read" => e \in readers
                              /\ kind[e] # "read" => writer = e /\ readers = {}
    BY <2>1, Holder DEF AtUpstream, KindInv, Kinds, Sending
  <2> QED BY <1>1, <2>2, <2>3
<1>2. GatewayInv => CallsAreExclusive
  BY <1>1 DEF CallsAreExclusive
<1> QED BY <1>2, GatewayInvariant, PTL

\* NothingAfterPoison of run GatewayCalls: only one that verifies can poison, and from a
\* call's last check until it is sent nobody verifies.
THEOREM GatewayNothingAfterPoison == Spec => NothingAfterPoison
<1>1. GatewayInv => \A c \in Calls : pc[c] = "call" => ~poisoned
  BY DEF GatewayInv, UnpoisonedInv
<1>2. GatewayInv => [\A c \in Calls : pc[c] = "call" /\ pc'[c] = "calling" => ~poisoned]_vars
  BY <1>1
<1> QED BY <1>2, GatewayInvariant, PTL DEF NothingAfterPoison

LEMMA DriftInvariant == ASSUME ~EarlyNotices PROVE Spec => []DriftInv
<1>1. Init => DriftInv
  <2> SUFFICES ASSUME Init PROVE DriftInv
    OBVIOUS
  <2>1. Pinned /\ pending = 0 /\ phase # "serving"
    BY DEF Init, Pinned
  <2>2. \A c \in Calls : ~Fetching(c)
    BY DEF Init, Fetching
  <2> QED BY <2>1, <2>2 DEF DriftInv, DriftIsNoticed, FetchedInv
<1>2. GatewayInv /\ DriftInv /\ [Next]_vars => DriftInv'
  BY DriftStep DEF GatewayInv
<1> QED BY <1>1, <1>2, GatewayInvariant, PTL DEF Spec

\* DriftIsNoticed of run GatewayCalls, for any pages and notifications, unless the upstream
\* server changes before the gateway serves, which run GatewayEarly is about.
THEOREM GatewayDriftIsNoticed == ASSUME ~EarlyNotices PROVE Spec => []DriftIsNoticed
<1>1. DriftInv => DriftIsNoticed
  BY DEF DriftInv
<1> QED BY <1>1, DriftInvariant, PTL

\* NoReadOnNoticedDrift of run GatewayCalls, with the same hypothesis: a read is let through
\* when the generations agree, and then nothing that was announced is left unverified.
THEOREM GatewayNoReadOnNoticedDrift == ASSUME ~EarlyNotices PROVE Spec => NoReadOnNoticedDrift
<1>1. ASSUME GatewayInv, DriftInv, [Next]_vars, NEW c \in Calls,
             pc[c] = "check", pc'[c] = "call", pending = 0
      PROVE  Pinned
  BY <1>1, Entries DEF DriftInv, DriftIsNoticed, GatewayInv
<1>2. GatewayInv /\ DriftInv /\ [Next]_vars =>
          [\A c \in Calls : pc[c] = "check" /\ pc'[c] = "call" /\ pending = 0 => Pinned]_vars
  BY <1>1
<1>3. Spec => [][Next]_vars
  BY PTL DEF Spec
<1> QED BY <1>2, <1>3, GatewayInvariant, DriftInvariant, PTL DEF NoReadOnNoticedDrift
-----------------------------------------------------------------------------
(* Writes *)

\* A page that has differed since the fetch began either is still to come or has shown
WatchedInv ==
    \A c \in Calls : Fetching(c) =>
        /\ differ[c] \subseteq Differing
        /\ snap[c].ok => \A n \in differ[c] : n >= snap[c].page

LEMMA WatchedStep == TypeOK /\ WatchedInv /\ [Next]_vars => WatchedInv'
<1> SUFFICES ASSUME TypeOK, WatchedInv, [Next]_vars, NEW c \in Calls, Fetching(c)'
             PROVE  /\ differ'[c] \subseteq Differing'
                    /\ snap'[c].ok => \A n \in differ'[c] : n >= snap'[c].page
  BY DEF WatchedInv
<1>0. snap[c] \in Snap /\ differ \in [Calls -> SUBSET (1..Pages)]
  BY TypeParts DEF SnapTyped, DifferTyped
<1>1. CASE UNCHANGED vars
  BY <1>1 DEF vars, WatchedInv, Fetching, Differing
<1>2. CASE Watch
  <2>1. /\ differ'[c] \subseteq Differing'
        /\ Fetching(c) => differ'[c] \subseteq differ[c]
    BY <1>2 DEF Watch
  <2>2. ASSUME snap'[c].ok, NEW n \in differ'[c] PROVE n >= snap'[c].page
    <3>0. n \in 1..Pages /\ Pages \in Nat
      BY <2>1, PagesNat DEF Differing
    <3>1. CASE snap'[c].page = 1
      BY <3>0, <3>1
    <3>2. CASE snap'[c].page # 1
      <4>1. Fetching(c) /\ n \in differ[c] /\ n \in Differing
        BY <2>1, <3>2, PageFetched DEF WatchedInv
      <4>2. CASE snap'[c] = snap[c]
        BY <2>2, <4>1, <4>2 DEF WatchedInv
      <4>3. CASE /\ snap'[c].page = snap[c].page + 1
                 /\ snap[c].ok /\ manifest[snap[c].page]
        <5>1. n >= snap[c].page /\ n # snap[c].page
          BY <4>1, <4>3 DEF WatchedInv, Differing
        <5> QED BY <1>0, <3>0, <4>3, <5>1 DEF Snap
      <4> QED BY <2>2, <3>2, <4>2, <4>3, PageFetched
    <3> QED BY <3>1, <3>2
  <2> QED BY <2>1, <2>2
<1> QED BY <1>1, <1>2 DEF Next

\* NoWriteOnDrift of run GatewayCalls: a write reads every page of the list itself once it
\* holds the lock, so a page that differs all along is found, announced or not.
THEOREM GatewayNoWriteOnDrift == Spec => NoWriteOnDrift
<1>1. Init => WatchedInv
  BY DEF Init, WatchedInv, Fetching
<1>2. ASSUME GatewayInv, WatchedInv, [Next]_vars, NEW c \in Calls,
             pc[c] # "commit", pc'[c] = "commit"
      PROVE  snap[c].page > Pages /\ differ[c] = {}
  <2>1. Fetching(c) /\ snap[c].page > Pages /\ snap[c].ok
    BY <1>2, Entries DEF GatewayInv, Fetched
  <2>2. differ[c] \subseteq 1..Pages /\ snap[c].page \in Nat /\ Pages \in Nat
    BY <1>2, PagesNat, TypeParts DEF GatewayInv, DifferTyped, SnapTyped, Snap
  <2>3. \A n \in differ[c] : n >= snap[c].page /\ n <= Pages
    BY <1>2, <2>1, <2>2 DEF WatchedInv
  <2> QED BY <2>1, <2>2, <2>3
<1>3. GatewayInv /\ WatchedInv /\ [Next]_vars =>
          [\A c \in Calls : pc[c] # "commit" /\ pc'[c] = "commit" =>
               snap[c].page > Pages /\ differ[c] = {}]_vars
  BY <1>2
<1>4. GatewayInv /\ WatchedInv /\ [Next]_vars => WatchedInv'
  BY WatchedStep DEF GatewayInv
<1>5. Spec => Init /\ [][Next]_vars
  BY DEF Spec
<1> QED BY <1>1, <1>3, <1>4, <1>5, GatewayInvariant, PTL DEF NoWriteOnDrift
=============================================================================
