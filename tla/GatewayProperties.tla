------------------------- MODULE GatewayProperties -------------------------
(***************************************************************************)
(* What the request pipeline of Gateway.tla promises.                      *)
(***************************************************************************)
EXTENDS Gateway

Label == {"idle", "stage0", "compare", "lock0", "drain0", "fetch0", "stages", "rlock", "rwait", "check",
          "lockR", "drainR", "fetchR", "lockW", "drainW", "fetchW", "commit",
          "call", "calling", "report"}

\* Every variable stays in its domain; no generation is verified that was not announced
\* (verifiedGen only ever takes a value that notifiedGen had).
TypeOK ==
    /\ phase \in {"starting", "pinned", "serving", "failed"}
    /\ boot \in 1..(Pages + 1)
    /\ manifest \in [1..Pages -> BOOLEAN]
    /\ pending \in Nat /\ process \in {"running", "exited"} /\ drained \in BOOLEAN
    /\ notified \in Nat /\ verified \in 0..notified
    /\ poisoned \in BOOLEAN /\ dead \in BOOLEAN
    /\ writer \in Calls \cup {NoCall} /\ readers \subseteq Calls
    /\ pc \in [Calls -> Label] /\ kind \in [Calls -> Kinds \cup {"none"}]
    /\ snap \in [Calls -> [g: Nat, page: 1..(Pages + 1), ok: BOOLEAN]]
    /\ differ \in [Calls -> SUBSET (1..Pages)]

Inside == {"drain0", "fetch0", "drainR", "fetchR", "drainW", "fetchW", "commit"}
Sending == {"call", "calling", "report"}
Writes(c) == pc[c] \in Inside \/ (pc[c] \in Sending /\ kind[c] = "write")
Reads(c) == pc[c] = "check" \/ (pc[c] \in {"call", "calling"} /\ kind[c] = "read")

\* Every path out of a section, early return or not, gives up the lock it took, and no
\* path gives up another's: the holders of epochMu are those whose code is inside.
LocksReleased ==
    /\ \A c \in Calls : Writes(c) <=> writer = c
    /\ readers = {c \in Calls : Reads(c)}

\* A changed tool list is never taken for verified once its notification is in: a
\* notification that arrives while tools/list is being fetched page by page leaves
\* the gateway dirty (reverifyManifestLocked stores the generation it began with).
DriftIsNoticed == phase = "serving" /\ ~Dirty /\ pending = 0 => Pinned

\* No read is let through while the tool list is known to have changed: a change that was
\* announced before the read's last check is seen by it, whatever other calls verified in
\* the meantime (executeReadCall's loop).
NoReadOnNoticedDrift ==
    [][\A c \in Calls : pc[c] = "check" /\ pc'[c] = "call" /\ pending = 0 => Pinned]_vars

\* No write reaches its commit while a page of the tool list is, and has been ever since
\* the write took the lock and began to fetch the list, other than pinned, be it announced
\* or not (Phase 1).  A change during that fetch or after it is left to later calls: the
\* write does not look at notifiedGen again, see DriftIsNoticed.
NoWriteOnDrift ==
    [][\A c \in Calls : pc[c] # "commit" /\ pc'[c] = "commit" =>
           snap[c].page > Pages /\ differ[c] = {}]_vars

\* Nothing is sent to the upstream once the gateway is poisoned, although poisoning
\* happens between one call's checks and its turn (epochMu).
NothingAfterPoison == [][\A c \in Calls : pc[c] = "call" /\ pc'[c] = "calling" => ~poisoned]_vars

AtUpstream == {c \in Calls : pc[c] \in {"call", "calling"}}

\* While a call that passed its checks is on its way or at the upstream, no one
\* re-verifies, poisons or commits beside it; only reads share the upstream.
CallsAreExclusive ==
    \A c \in AtUpstream : \A d \in Calls \ {c} :
        /\ ~Fetching(d) /\ pc[d] # "commit"
        /\ d \in AtUpstream => kind[c] = "read" /\ kind[d] = "read"

\* Every request is answered, whatever it waits for: the lock, other calls'
\* verifications, or its turn in the loop of executeReadCall.
Answered == \A c \in Calls : pc[c] # "idle" ~> pc[c] = "idle"
=============================================================================
