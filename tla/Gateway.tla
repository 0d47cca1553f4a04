------------------------------- MODULE Gateway -------------------------------
(***************************************************************************)
(* The request pipeline of one authorization gateway                       *)
(* (src/internal/authz/proxy.go, pin.go): concurrent host requests, the    *)
(* generation counters that track changes of the upstream tool list, and   *)
(* the reader/writer lock epochMu under which calls are forwarded.         *)
(*                                                                         *)
(* The upstream server may change its tool list page by page, announce it  *)
(* with a notification that is delivered later, and exit at any time.  The *)
(* ledger's part in a request is in Ledger.tla; here its outcome is free.  *)
(* The policy loader refuses write tools unless manifests are re-verified  *)
(* before every write, so that switch is not modelled.                     *)
(***************************************************************************)
EXTENDS Naturals, FiniteSets

CONSTANTS
    Calls,          \* goroutines serving host requests
    Pages,          \* pages of the upstream tool list: 1..Pages
    MaxGen,         \* bound on notifications
    EarlyNotices,   \* whether the upstream may change before the gateway serves
    NoCall

ASSUME GatewayConstants == /\ NoCall \notin Calls
                           /\ Pages \in Nat \ {0} /\ MaxGen \in Nat
                           /\ EarlyNotices \in BOOLEAN

VARIABLES
    phase,          \* of ServeStdio: "starting", "pinned", "serving", "failed"
    boot,           \* next page of the start-up verification
    manifest,       \* upstream: whether each page is as pinned in the lockfile
    pending,        \* notifications on their way
    process,        \* the upstream process: "running" or "exited"
    drained,        \* whether its stderr has ended and onExit was called
    notified, verified, poisoned, dead,
    writer,         \* the goroutine that holds epochMu, or drains its readers
    readers,        \* the goroutines that hold its read lock
    pc, kind,
    snap,           \* reverifyManifestLocked: g, the next page, all pages as pinned
    differ          \* ghost: pages that have not been as pinned ever since a fetch began

vars == <<phase, boot, manifest, pending, process, drained, notified, verified, poisoned, dead,
          writer, readers, pc, kind, snap, differ>>
upstream == <<manifest, pending, process, drained>>
flags == <<notified, verified, poisoned, dead>>
lock == <<writer, readers>>

Kinds == {"list", "read", "write"}
Pinned == \A n \in 1..Pages : manifest[n]
NoSnap == [g |-> 0, page |-> 1, ok |-> TRUE]
Dirty == notified # verified
\* c goes on at l; a call that is answered is no longer of a kind
Goto(c, l) ==
    /\ pc' = [pc EXCEPT ![c] = l]
    /\ kind' = IF l = "idle" THEN [kind EXCEPT ![c] = "none"] ELSE kind
-----------------------------------------------------------------------------
(* The upstream server and its callbacks *)

ChangeManifest ==
    /\ process = "running" /\ notified + pending < MaxGen
    /\ phase = "serving" \/ EarlyNotices
    /\ manifest' \in [1..Pages -> BOOLEAN]
    /\ pending' = pending + 1
    /\ UNCHANGED <<phase, boot, process, drained, flags, lock, pc, kind, snap>>

\* The callback of StartUpstreamSubprocess drops what arrives before gwRef is set
OnToolListChanged ==
    /\ pending > 0
    /\ pending' = pending - 1
    /\ notified' = IF phase = "serving" THEN notified + 1 ELSE notified
    /\ UNCHANGED <<phase, boot, manifest, process, drained, verified, poisoned, dead, lock, pc,
                    kind, snap>>

UpstreamExit ==
    /\ process = "running"
    /\ process' = "exited"
    /\ UNCHANGED <<phase, boot, manifest, pending, drained, flags, lock, pc, kind, snap>>

\* drainAndRedactChildStderr: the process exited, or only closed its stderr
OnUpstreamProcessExit ==
    /\ ~drained
    /\ drained' = TRUE
    /\ dead' = (dead \/ phase = "serving")
    /\ UNCHANGED <<phase, boot, manifest, pending, process, notified, verified, poisoned, lock, pc,
                    kind, snap>>

\* NewGateway: the tool list is fetched and compared before the gateway exists; any
\* difference or error ends the program
StartPage ==
    /\ phase = "starting" /\ boot <= Pages
    /\ \/ /\ process = "running" /\ manifest[boot]
          /\ boot' = boot + 1 /\ UNCHANGED phase
       \/ phase' = "failed" /\ UNCHANGED boot
    /\ UNCHANGED <<upstream, flags, lock, pc, kind, snap>>

StartVerified ==
    /\ phase = "starting" /\ boot > Pages
    /\ phase' = "pinned"
    /\ verified' = 1
    /\ UNCHANGED <<boot, upstream, notified, poisoned, dead, lock, pc, kind, snap>>

\* ServeStdio: gwRef.Store, then the host server runs
Publish ==
    /\ phase = "pinned"
    /\ phase' = "serving"
    /\ UNCHANGED <<boot, upstream, flags, lock, pc, kind, snap>>
-----------------------------------------------------------------------------
(* epochMu, a sync.RWMutex: a writer claims it, keeps new readers out and waits *)
(* for those inside; when it leaves, the readers that wait go before a writer   *)

CanRead == writer = NoCall
Claim(c) ==
    /\ pc[c] \in {"lock0", "lockR", "lockW"}
    /\ writer = NoCall
    /\ writer' = c
    /\ Goto(c, CASE pc[c] = "lock0" -> "drain0" [] pc[c] = "lockR" -> "drainR"
                 [] OTHER -> "drainW")
    /\ UNCHANGED <<phase, boot, upstream, flags, readers, snap>>

Waiting == {c \in Calls : pc[c] = "rwait"}
\* Unlock, after which c goes on at l
Unlock(c, l) ==
    /\ writer' = NoCall
    /\ readers' = readers \cup Waiting
    /\ pc' = [d \in Calls |-> IF d = c THEN l ELSE IF d \in Waiting THEN "check" ELSE pc[d]]
    /\ kind' = IF l = "idle" THEN [kind EXCEPT ![c] = "none"] ELSE kind

RLock(c) ==
    /\ pc[c] = "rlock"
    /\ IF CanRead
       THEN readers' = readers \cup {c} /\ Goto(c, "check")
       ELSE Goto(c, "rwait") /\ UNCHANGED readers
    /\ UNCHANGED <<phase, boot, upstream, flags, writer, snap>>

RUnlock(c, l) == readers' = readers \ {c} /\ Goto(c, l) /\ UNCHANGED writer
-----------------------------------------------------------------------------
(* reverifyManifestLocked *)

\* Where a goroutine goes once its manifest is verified, and whether it keeps the lock
Proceed(c) ==
    CASE pc[c] = "fetch0" -> Unlock(c, IF kind[c] = "list" THEN "idle" ELSE "stages")
      [] pc[c] = "fetchR" -> Unlock(c, "rlock")
      [] pc[c] = "fetchW" -> Goto(c, "commit") /\ UNCHANGED lock

\* The lock is held and free of readers
Reverify(c) ==
    /\ writer = c /\ readers = {}
    /\ pc[c] \in {"drain0", "drainR", "drainW"}
    /\ IF poisoned \/ dead
       THEN Unlock(c, "idle") /\ UNCHANGED snap
       ELSE /\ snap' = [snap EXCEPT ![c] = [g |-> notified, page |-> 1, ok |-> TRUE]]
            /\ Goto(c, CASE pc[c] = "drain0" -> "fetch0" [] pc[c] = "drainR" -> "fetchR"
                         [] OTHER -> "fetchW")
            /\ UNCHANGED lock
    /\ UNCHANGED <<phase, boot, upstream, flags>>

Fetching(c) == pc[c] \in {"fetch0", "fetchR", "fetchW"}
\* Variant: what was found of earlier pages is forgotten
FetchPageLast(c) ==
    /\ Fetching(c) /\ snap[c].page <= Pages /\ process = "running"
    /\ snap' = [snap EXCEPT ![c].page = @ + 1, ![c].ok = manifest[snap[c].page]]
    /\ UNCHANGED <<phase, boot, upstream, flags, lock, pc, kind>>

\* FetchAndCanonicalizeUpstreamTools: one tools/list request per page
FetchPage(c) ==
    /\ Fetching(c) /\ snap[c].page <= Pages /\ process = "running"
    /\ snap' = [snap EXCEPT ![c].page = @ + 1, ![c].ok = @ /\ manifest[snap[c].page]]
    /\ UNCHANGED <<phase, boot, upstream, flags, lock, pc, kind>>

\* Every error of tools/list, a timeout and a request cancelled by the host
\* included, is ErrUpstreamProcessTerminated
FetchFails(c) ==
    /\ Fetching(c) /\ snap[c].page <= Pages
    /\ dead' = TRUE
    /\ Unlock(c, "idle")
    /\ snap' = [snap EXCEPT ![c] = NoSnap]
    /\ UNCHANGED <<phase, boot, upstream, notified, verified, poisoned>>

\* VerifyManifestAgainstLockfile, then verifiedGen.Store(g)
Fetched(c) == Fetching(c) /\ snap[c].page > Pages
\* Variants: the generation is read again after the fetch; the verification counts as
\* a generation; it is not stored
VerifiedLate(c) ==
    /\ Fetched(c) /\ snap[c].ok
    /\ verified' = notified
    /\ snap' = [snap EXCEPT ![c] = NoSnap]
    /\ Proceed(c)
    /\ UNCHANGED <<phase, boot, upstream, notified, poisoned, dead>>
VerifiedBumped(c) ==
    /\ Fetched(c) /\ snap[c].ok
    /\ verified' = snap[c].g + 1
    /\ snap' = [snap EXCEPT ![c] = NoSnap]
    /\ Proceed(c)
    /\ UNCHANGED <<phase, boot, upstream, notified, poisoned, dead>>
VerifiedForgotten(c) ==
    /\ Fetched(c) /\ snap[c].ok
    /\ snap' = [snap EXCEPT ![c] = NoSnap]
    /\ Proceed(c)
    /\ UNCHANGED <<phase, boot, upstream, flags>>
Verified(c) ==
    /\ Fetched(c) /\ snap[c].ok
    /\ verified' = snap[c].g
    /\ snap' = [snap EXCEPT ![c] = NoSnap]
    /\ Proceed(c)
    /\ UNCHANGED <<phase, boot, upstream, notified, poisoned, dead>>

\* poisonUpstreamLocked, at once for a malformed page, behind the last page for one
\* that differs: closing the session kills the process
Poison(c) ==
    /\ Fetching(c) /\ ~snap[c].ok
    /\ poisoned' = TRUE
    /\ process' = "exited"
    /\ snap' = [snap EXCEPT ![c] = NoSnap]
    /\ Unlock(c, "idle")
    /\ UNCHANGED <<phase, boot, manifest, pending, drained, notified, verified, dead>>
-----------------------------------------------------------------------------
(* EvaluateToolCall and HandleToolsList *)

Arrive(c) ==
    /\ phase = "serving" /\ pc[c] = "idle"
    /\ ~poisoned /\ ~dead        \* or it is refused at once
    /\ kind' \in {[kind EXCEPT ![c] = k] : k \in Kinds}
    /\ pc' = [pc EXCEPT ![c] = "stage0"]
    /\ UNCHANGED <<phase, boot, upstream, flags, lock, snap>>

\* The two counters are loaded one after the other, and without the lock
Stage0(c) ==
    /\ pc[c] = "stage0"
    /\ snap' = [snap EXCEPT ![c].g = notified]
    /\ Goto(c, "compare")
    /\ UNCHANGED <<phase, boot, upstream, flags, lock>>
Compare(c) ==
    /\ pc[c] = "compare"
    /\ Goto(c, IF snap[c].g # verified THEN "lock0"
               ELSE IF kind[c] = "list" THEN "idle" ELSE "stages")
    /\ snap' = [snap EXCEPT ![c] = NoSnap]
    /\ UNCHANGED <<phase, boot, upstream, flags, lock>>

\* Stages 1 to 3 and the step-up of stage 4 deny the call or let it on
Stages(c) ==
    /\ pc[c] = "stages"
    /\ \/ Goto(c, "idle")
       \/ Goto(c, IF kind[c] = "read" THEN "rlock" ELSE "lockW")
    /\ UNCHANGED <<phase, boot, upstream, flags, lock, snap>>

\* Variants: what was checked in stage 0 is not checked again under the read lock
CheckUnpoisoned(c) ==
    /\ pc[c] = "check"
    /\ IF dead THEN RUnlock(c, "idle")
       ELSE IF Dirty THEN RUnlock(c, "lockR")
       ELSE Goto(c, "call") /\ UNCHANGED lock
    /\ UNCHANGED <<phase, boot, upstream, flags, snap>>
CheckUnnoticed(c) ==
    /\ pc[c] = "check"
    /\ IF poisoned \/ dead THEN RUnlock(c, "idle") ELSE Goto(c, "call") /\ UNCHANGED lock
    /\ UNCHANGED <<phase, boot, upstream, flags, snap>>
\* Variant: the read lock is released before the call
CheckReleased(c) ==
    /\ pc[c] = "check"
    /\ RUnlock(c, IF poisoned \/ dead THEN "idle" ELSE IF Dirty THEN "lockR" ELSE "call")
    /\ UNCHANGED <<phase, boot, upstream, flags, snap>>

\* executeReadCall, under the read lock, which keeps verifiedGen and poisoned still
Check(c) ==
    /\ pc[c] = "check"
    /\ IF poisoned \/ dead THEN RUnlock(c, "idle")
       ELSE IF Dirty THEN RUnlock(c, "lockR")
       ELSE Goto(c, "call") /\ UNCHANGED lock
    /\ UNCHANGED <<phase, boot, upstream, flags, snap>>

\* CommitWriteAndPreForwardAudit succeeds, or the write is refused
Commit(c) ==
    /\ pc[c] = "commit"
    /\ \/ Goto(c, "call") /\ UNCHANGED lock
       \/ Unlock(c, "idle")
    /\ UNCHANGED <<phase, boot, upstream, flags, snap>>

Send(c) ==
    /\ pc[c] = "call"
    /\ Goto(c, "calling")
    /\ UNCHANGED <<phase, boot, upstream, flags, lock, snap>>

\* callUpstreamSession: a result, a timeout, a cancellation, or a broken session
Answer(c) ==
    /\ pc[c] = "calling"
    /\ dead' \in {dead, TRUE}
    /\ IF kind[c] = "read" THEN RUnlock(c, "report") ELSE Goto(c, "report") /\ UNCHANGED lock
    /\ UNCHANGED <<phase, boot, upstream, notified, verified, poisoned, snap>>

\* The result is audited and returned; a write gives up the lock
Report(c) ==
    /\ pc[c] = "report"
    /\ IF kind[c] = "read" THEN Goto(c, "idle") /\ UNCHANGED lock ELSE Unlock(c, "idle")
    /\ UNCHANGED <<phase, boot, upstream, flags, snap>>
-----------------------------------------------------------------------------
\* The fetch of c begins where it snapshots g
Differing == {n \in 1..Pages : ~manifest[n]}
Watch == differ' = [c \in Calls |-> IF ~Fetching(c)' THEN {}
                                    ELSE IF Fetching(c) THEN differ[c] \cap Differing'
                                    ELSE Differing']

Init ==
    /\ phase = "starting" /\ boot = 1
    /\ manifest = [n \in 1..Pages |-> TRUE]
    /\ pending = 0 /\ process = "running" /\ drained = FALSE
    /\ notified = 1 /\ verified = 0
    /\ poisoned = FALSE /\ dead = FALSE
    /\ writer = NoCall /\ readers = {}
    /\ pc = [c \in Calls |-> "idle"]
    /\ kind = [c \in Calls |-> "none"]
    /\ snap = [c \in Calls |-> NoSnap]
    /\ differ = [c \in Calls |-> {}]

Upstream == ChangeManifest \/ OnToolListChanged \/ UpstreamExit \/ OnUpstreamProcessExit
Startup == StartPage \/ StartVerified \/ Publish
Step(c) == \/ Reverify(c) \/ FetchPage(c) \/ FetchFails(c) \/ Verified(c) \/ Poison(c)
           \/ Stage0(c) \/ Compare(c) \/ Stages(c) \/ RLock(c) \/ Check(c)
           \/ Commit(c) \/ Send(c) \/ Answer(c) \/ Report(c)

Next == /\ Upstream \/ Startup \/ \E c \in Calls : Arrive(c) \/ Claim(c) \/ Step(c)
        /\ Watch

Spec == Init /\ [][Next]_vars

\* Goroutines run, upstream calls end at their timeout, and the mutex inside a
\* sync.RWMutex hands itself to those that have waited for long
FairSpec == Spec /\ \A c \in Calls : WF_vars(Step(c) /\ Watch) /\ SF_vars(Claim(c) /\ Watch)
=============================================================================
