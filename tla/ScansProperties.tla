--------------------------- MODULE ScansProperties ---------------------------
(***************************************************************************)
(* What an agent may rely on when it walks through a directory.            *)
(***************************************************************************)
EXTENDS Scans

\* How many rows a tool asks for (the members of a role are one answer), and whether what
\* the provider sends shows that a page is not the last: by the number of pages, or by the
\* size that a full page has.
Asked ==
    CASE tool = "scan" -> PageSize
      [] tool = "list" -> limit
      [] OTHER -> AccessCap
Tells == provider \in {"lumos", "sailpoint"} => known \/ Counted(Asked) = Wide(Asked)

\* A walk that ends without a truncated result has delivered every row it was to find,
\* wherever limits, page counts, budgets, empty pages and errors have cut the calls; or,
\* when a result has said that sign-ins could not be read, every disabled user.  That is so
\* if the provider lets the tool tell its last page from the others; where it does not, the
\* tools go by a page size that is not the pages' own, and end the walk behind the first.
NothingMissed ==
    pc = "done" /\ Tells => (IF noted THEN disabled ELSE stale) \subseteq delivered

\* A call that resumes behind a page that was read to its end returns no row again, also
\* when the walk has asked for a part of the directory twice; unless an earlier result has
\* said that sign-ins could not be read.
NoRepeats ==
    [][pc # "got" /\ pc' = "got" /\ how = "resume" /\ ~loops /\ ~noted =>
         (items' \cap Rows) \cap delivered = {}]_vars

\* One call makes a bounded number of requests and inspects a bounded number of rows,
\* even if the provider names a page as its own successor.
CallIsBounded ==
    tool = "scan" =>
        /\ IF provider = "c1" THEN pages <= ScanCap ELSE pages <= MaxPages + 1
        /\ Capped => scanned <= ScanCap + sample

\* No page has more rows than a scan inspects in a call.  A larger one is cut in every call
\* and named again, so that the rows behind the cut are never reached.
PagesFit ==
    tool = "scan" /\ Capped =>
        \A c \in First..(First + Len(ends)) : Page(c, PageSize).n <= ScanCap

\* A walk through a directory whose cursors lead on, and whose pages a call can inspect,
\* comes to an end.
WalkEnds == ~loops /\ PagesFit ~> pc \in {"done", "stuck"}
=============================================================================
