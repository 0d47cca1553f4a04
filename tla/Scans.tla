-------------------------------- MODULE Scans --------------------------------
(***************************************************************************)
(* The reading tools of the five identity providers: lists that hand out   *)
(* one page per call, scans that read up to ten pages of a directory for   *)
(* stale rows, and access reports that stop at a cap (src/internal/okta,   *)
(* entra, lumos, c1 and sailpoint, with the cursors of internal/idmcp).    *)
(*                                                                         *)
(* An agent walks through a directory as the results tell it to: a result  *)
(* with a next cursor is resumed there; one that is truncated and has no   *)
(* cursor is asked for again with a larger limit; any other is the end.    *)
(***************************************************************************)
EXTENDS Integers, Sequences, FiniteSetsExt, SequencesExt

CONSTANTS
    Providers,
    Tools,          \* "scan", "list", "access", "members"
    PageSize,       \* of a scan's requests, and the default limit: 50
    MaxLimit,       \* 200
    MaxPages,       \* MaxStalePages, 10
    ScanCap,        \* staleScanCap, 500
    ListCap,        \* lumosMaxSize and maxPageSize, 100
    MinPage,        \* minPageSize, 10
    AccessCap,      \* userAccessAccountCap, accessCap and nestedCap, 50
    RowCap,         \* what listRoleMembers returns at most, 1000
    Directories,    \* sequences of the numbers of the last row of each page
    Widths,         \* page sizes of a provider's own, whatever a request asks for
    Limits,         \* limits that an agent starts with
    Samples,        \* numbers of uncorrelated accounts
    Disabled(_),    \* which of the rows that a scan looks for may be disabled users
    MaxErrors       \* failed requests of a walk

NoCursor == -1
Clients == {"entra", "okta", "c1", "lumos", "sailpoint"}

ASSUME ScansConstants ==
    /\ Providers \subseteq Clients
    /\ Tools \subseteq {"scan", "list", "access", "members"}
    /\ {PageSize, MaxLimit, MaxPages, ScanCap, ListCap, MinPage, AccessCap, RowCap}
           \subseteq Nat \ {0}
    /\ PageSize <= MaxLimit /\ PageSize <= ScanCap /\ MinPage <= ListCap
    /\ \A d \in Directories :
           d \in Seq(Nat) \ {<<>>} /\ \A i, j \in DOMAIN d : i <= j => d[i] <= d[j]
    /\ \A d \in Directories : \A S \in SUBSET (1..Last(d)) : Disabled(S) \subseteq SUBSET S
    /\ Widths \subseteq Nat \ {0}
    /\ Limits \subseteq Int /\ Samples \subseteq Nat /\ MaxErrors \in Nat

VARIABLES
    provider, tool,
    ends, loops,    \* pages behind opaque cursors; whether a page names itself as the next
    width,          \* Lumos and SailPoint: the page size of their own, or 0
    known, said,    \* Lumos: whether it reports the number of pages, and which page size
    stale, disabled, sample,    \* the rows that a scan looks for, by number
    pc,
    limit,          \* as the tool has clamped it
    start,          \* cursor of the call
    cursor, pages, items, scanned, noSignIn,     \* of the call so far
    next, truncated, clip,      \* the last result; clip: it names the page it was cut off in
    delivered, noted, errors, how                   \* of the walk

directory == <<provider, tool, ends, loops, width, known, said, stale, disabled, sample>>
call == <<limit, start, cursor, pages, items, scanned, noSignIn>>
result == <<next, truncated, clip>>
vars == <<directory, pc, call, result, delivered, noted, errors, how>>

Count == Last(ends)
Rows == 1..Count
Least(a, b) == IF a < b THEN a ELSE b
\* The first n members of a set of numbers
FirstOf(n, S) == {x \in S : Cardinality({y \in S : y <= x}) <= n}
-----------------------------------------------------------------------------
(* internal/idmcp: limits and cursors *)

ClampLimit(n) == IF n <= 0 THEN PageSize ELSE Least(n, MaxLimit)
ClampSize(n, max) == IF n <= 0 THEN Least(PageSize, max) ELSE Least(n, max)
\* Variant: an offset that does not move
NextOffsetStay(offset, n, size) == IF n = size THEN offset ELSE NoCursor
NextOffset(offset, n, size) == IF n = size THEN offset + n ELSE NoCursor
NextPage(page, total) == IF page < total THEN page + 1 ELSE NoCursor

\* c1
ClampPageSize(n) == IF n <= 0 THEN PageSize ELSE IF n < MinPage THEN MinPage ELSE Least(n, ListCap)
ClampScan(n) == IF n <= 0 THEN PageSize ELSE Least(n, ScanCap)
\* entra, listRoleMembers
ClampMembers(n) == IF n <= 0 THEN PageSize ELSE Least(n, RowCap)

\* lumos: nextPageCursor
NextPageCursor(page, total, n, size) ==
    IF NextPage(page, total) # NoCursor THEN NextPage(page, total)
    ELSE IF total = 0 /\ size > 0 /\ n = size THEN page + 1 ELSE NoCursor

Clamp(n) ==
    CASE tool = "scan" -> IF provider = "c1" THEN ClampScan(n) ELSE ClampLimit(n)
      [] tool = "members" -> ClampMembers(n)
      [] tool = "access" -> AccessCap
      [] provider = "lumos" -> ClampSize(n, ListCap)
      [] provider = "c1" -> ClampPageSize(n)
      [] OTHER -> ClampLimit(n)
Largest == Clamp(MaxLimit + ScanCap + RowCap)
First == IF provider = "lumos" THEN 1 ELSE 0
-----------------------------------------------------------------------------
(* What a provider answers to a request for size rows at cursor c *)

OpaquePage(c) ==
    LET i == Least(c, Len(ends) - 1)
        lo == IF i = 0 THEN 0 ELSE ends[i]
    IN  [lo |-> lo, n |-> ends[i + 1] - lo, reported |-> 0,
         next |-> IF loops /\ c > 0 THEN c
                  ELSE IF loops \/ c + 1 < Len(ends) THEN c + 1
                  ELSE NoCursor]
\* How wide the pages are that a request for size rows gets, and how wide Lumos calls them
Wide(size) == IF width = 0 THEN size ELSE width
Reported(size) == [nothing |-> 0, asked |-> size, width |-> Wide(size)][said]

\* A page of as many rows may have a successor, for all that a tool can tell: it takes what
\* Lumos reports or, in a scan of Lumos without a report and elsewhere, what it asked for
Counted(size) ==
    IF provider # "lumos" \/ tool = "access" \/ (tool = "scan" /\ Reported(size) = 0)
    THEN size ELSE Reported(size)

NumberedPage(c, size) ==
    LET w == Wide(size)
        lo == Least(Count, (c - 1) * w)
        n == Least(w, Count - lo)
        total == IF known THEN (Count + w - 1) \div w ELSE 0
    IN  [lo |-> lo, n |-> n, reported |-> total,
         next |-> NextPageCursor(c, total, n, Counted(size))]
OffsetPage(c, size) ==
    LET lo == Least(Count, c)
        n == Least(Wide(size), Count - lo)
    IN  [lo |-> lo, n |-> n, reported |-> 0, next |-> NextOffset(c, n, size)]
Page(c, size) ==
    CASE provider = "lumos" -> NumberedPage(c, size)
      [] provider = "sailpoint" -> OffsetPage(c, size)
      [] OTHER -> OpaquePage(c)
RowsOf(a, n) == (a.lo + 1)..(a.lo + n)
-----------------------------------------------------------------------------
(* A call *)

Begin(c, l) ==
    /\ start' = c /\ cursor' = c /\ limit' = l
    /\ pages' = 0 /\ scanned' = 0 /\ items' = {} /\ noSignIn' = FALSE
    /\ pc' = "run"

Return(nx, tr, cl) ==
    /\ next' = nx /\ truncated' = tr /\ clip' = cl
    /\ delivered' = delivered \cup items'
    /\ noted' = (noted \/ noSignIn')
    /\ pc' = "got"
    /\ UNCHANGED <<errors, how>>
Continue(l) == pc' = l /\ UNCHANGED <<result, delivered, noted, errors, how>>

\* A request that fails ends the call; what it has collected is not returned
Fails ==
    /\ pc \in {"run", "sample"} /\ errors < MaxErrors
    /\ errors' = errors + 1
    /\ pc' = "failed"
    /\ UNCHANGED <<directory, call, result, delivered, noted, how>>

\* find_stale_*: the loop's condition; c1 also stops before a page that it could not finish
Capped == provider \in {"lumos", "sailpoint", "c1"}
GoingOn ==
    /\ Cardinality(items) < limit
    /\ Capped => scanned < ScanCap
    /\ provider # "c1" => pages < MaxPages
Going == GoingOn /\ (provider = "c1" /\ cursor # First => ScanCap - scanned >= PageSize)

\* Beyond the limit nothing is kept, whatever of the page is left.  Variant: what is left
\* goes unnoticed
LeftoverUnseen(hits, kept) == FALSE
Leftover(hits, kept) == hits # kept

\* entra: a directory that refuses signInActivity is asked without it, from then on only
\* disabled users are found and the result says so
Hits(seen) == IF noSignIn' THEN seen \cap disabled ELSE seen \cap stale

\* Nothing follows, or an empty page names a successor.  Variant: it is followed up
ReadOn(a) == a.next = NoCursor
ReadUp(a) == a.next = NoCursor \/ a.n = 0

\* A page that is cut is named again; c1 names the first one by no token at all
Sent == IF provider = "c1" /\ cursor = First THEN NoCursor ELSE cursor

ScanPage ==
    /\ tool = "scan" /\ pc = "run" /\ Going
    /\ noSignIn' \in (IF provider = "entra" /\ ~noSignIn THEN BOOLEAN ELSE {noSignIn})
    /\ LET a == Page(cursor, PageSize)
           cut == Capped /\ a.n > ScanCap - scanned
           seen == IF cut THEN ScanCap - scanned ELSE a.n
           hits == Hits(RowsOf(a, seen))
           kept == FirstOf(limit - Cardinality(items), hits)
       IN  /\ pages' = pages + 1
           /\ scanned' = scanned + seen
           /\ items' = items \cup kept
           /\ cursor' = IF cut THEN cursor ELSE a.next
           /\ IF cut THEN Return(Sent, TRUE, TRUE)
              ELSE IF Leftover(hits, kept) THEN Return(NoCursor, TRUE, FALSE)
              ELSE IF ReadUp(a)
              THEN IF provider = "sailpoint" /\ Cardinality(items') < limit
                   THEN Continue("sample")
                   ELSE Return(a.next, a.next # NoCursor, FALSE)
              ELSE Continue("run")
    /\ UNCHANGED <<directory, limit, start>>

\* The limit, the pages or the budget are used up
ScanEnds ==
    /\ tool = "scan" /\ pc = "run" /\ ~Going
    /\ IF provider = "sailpoint" /\ Cardinality(items) < limit
       THEN Continue("sample") /\ UNCHANGED call
       ELSE UNCHANGED call /\ Return(cursor, TRUE, FALSE)
    /\ UNCHANGED directory

\* sailpoint: uncorrelated accounts, as far as there is room.  They are numbered from
\* behind the identities
Sample ==
    /\ pc = "sample"
    /\ UNCHANGED <<directory, limit, start, cursor, noSignIn>>
    /\ scanned' = scanned + sample /\ pages' = pages + 1
    /\ LET all == (Count + 1)..(Count + sample)
           kept == FirstOf(limit - Cardinality(items), all)
       IN  /\ items' = items \cup kept
           /\ IF kept # all THEN Return(NoCursor, TRUE, FALSE)
                            ELSE Return(cursor, cursor # NoCursor, FALSE)

ListPage ==
    /\ tool = "list" /\ pc = "run"
    /\ UNCHANGED <<directory, limit, start, cursor, scanned, noSignIn>>
    /\ LET a == Page(cursor, limit)
       IN  /\ items' = RowsOf(a, a.n)
           /\ Return(a.next, a.next # NoCursor, FALSE)
    /\ pages' = pages + 1

\* listRoleMembers: Graph sends all members in one answer
Members ==
    /\ tool = "members" /\ pc = "run"
    /\ UNCHANGED <<directory, limit, start, cursor, scanned, noSignIn>>
    /\ pages' = pages + 1
    /\ items' = FirstOf(limit, Rows)
    /\ Return(NoCursor, Count > limit, FALSE)

\* get_user_access and get_identity_access: Lumos reads on up to the cap, the others
\* make one request; for sailpoint a full page means that there may be more
AccessNext(a) == IF provider = "lumos" THEN NextPageCursor(cursor, a.reported, a.n, AccessCap)
                                       ELSE NoCursor
Truncated(a) ==
    CASE provider = "c1" -> a.next # NoCursor \/ a.n > AccessCap
      [] provider = "lumos" ->
            \/ Cardinality(items) + a.n > AccessCap
            \/ Cardinality(items) + a.n = AccessCap /\ AccessNext(a) # NoCursor
      [] OTHER -> a.n >= AccessCap
Access ==
    /\ tool = "access" /\ pc = "run"
    /\ UNCHANGED <<directory, limit, start, scanned, noSignIn>>
    /\ pages' = pages + 1
    /\ LET a == Page(cursor, AccessCap)
       IN  /\ items' = items \cup FirstOf(AccessCap - Cardinality(items), RowsOf(a, a.n))
           /\ cursor' = AccessNext(a)
           /\ IF AccessNext(a) = NoCursor \/ Truncated(a) THEN Return(NoCursor, Truncated(a), FALSE)
                                                          ELSE Continue("run")
-----------------------------------------------------------------------------
(* The agent *)

\* After an error the same call once more
Retry ==
    /\ pc = "failed"
    /\ Begin(start, limit)
    /\ UNCHANGED <<directory, result, delivered, noted, errors, how>>

Resume ==
    /\ pc = "got" /\ next # NoCursor
    /\ Begin(next, limit)
    /\ how' = IF clip THEN "repeat" ELSE "resume"
    /\ UNCHANGED <<directory, result, delivered, noted, errors>>

Enlarge ==
    /\ pc = "got" /\ next = NoCursor /\ truncated /\ tool # "access"
    /\ \E l \in (limit + 1)..Largest : Begin(start, l)
    /\ how' = "repeat"
    /\ UNCHANGED <<directory, result, delivered, noted, errors>>

\* Nothing is left, or nothing is left to ask
Stop ==
    /\ pc = "got" /\ next = NoCursor /\ (~truncated \/ limit = Largest)
    /\ pc' = IF truncated THEN "stuck" ELSE "done"
    /\ UNCHANGED <<directory, call, result, delivered, noted, errors, how>>

Over == pc \in {"done", "stuck"} /\ UNCHANGED vars
-----------------------------------------------------------------------------
Init ==
    /\ provider \in Providers /\ tool \in Tools
    /\ tool = "access" => provider \in {"c1", "lumos", "sailpoint"}
    /\ tool = "members" => provider = "entra"
    /\ ends \in Directories
    /\ loops \in (IF provider \in {"entra", "okta", "c1"} /\ tool \in {"scan", "list"}
                  THEN BOOLEAN ELSE {FALSE})
    /\ width \in (IF provider \in {"lumos", "sailpoint"} THEN {0} \cup Widths ELSE {0})
    /\ known \in (IF provider = "lumos" THEN BOOLEAN ELSE {FALSE})
       \* with the number of pages the size of a page is of no account
    /\ said \in (IF provider = "lumos" /\ ~known THEN {"nothing", "asked", "width"} ELSE {"asked"})
    /\ stale \in (IF tool = "scan" /\ provider # "sailpoint" THEN SUBSET Rows ELSE {Rows})
    /\ disabled \in (IF tool = "scan" /\ provider = "entra" THEN Disabled(stale) ELSE {{}})
    /\ sample \in (IF tool = "scan" /\ provider = "sailpoint" THEN Samples ELSE {0})
    /\ pc = "run"
    /\ \E l \in Limits : limit = Clamp(l)
    /\ start = First /\ cursor = First
    /\ pages = 0 /\ scanned = 0 /\ items = {} /\ noSignIn = FALSE
    /\ next = NoCursor /\ truncated = FALSE /\ clip = FALSE
    /\ delivered = {} /\ noted = FALSE /\ errors = 0 /\ how = "first"

Tool == ScanPage \/ ScanEnds \/ Sample \/ ListPage \/ Members \/ Access
Agent == Retry \/ Resume \/ Enlarge \/ Stop
Next == Tool \/ Fails \/ Agent \/ Over

Spec == Init /\ [][Next]_vars

\* A tool runs to its end, a request is answered within 30 s, and the agent goes on
FairSpec == Spec /\ WF_vars(Tool) /\ WF_vars(Agent)
=============================================================================
