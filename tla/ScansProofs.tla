----------------------------- MODULE ScansProofs -----------------------------
(***************************************************************************)
(* A walk of Scans.tla misses nothing where the provider lets its last     *)
(* page be told from the others, hands out no row twice, and every call of *)
(* it is bounded, for every directory, page size, limit and cap.           *)
(*                                                                         *)
(* A cursor stands for the number of rows in front of it.  What a walk has *)
(* delivered, and what a call has collected since, reaches up to the       *)
(* cursor that it goes on from, and nothing behind the place where a walk  *)
(* resumes.                                                                *)
(***************************************************************************)
EXTENDS ScansProperties, SequenceTheorems, FiniteSetTheorems, TLAPS

Places == {"run", "sample", "got", "failed", "done", "stuck"}

\* Every variable stays in its domain, and what the parameters of a walk can be.
ScanTypeOK ==
    /\ provider \in Providers /\ tool \in Tools
    /\ tool = "access" => provider \in {"c1", "lumos", "sailpoint"}
    /\ ends \in Directories /\ loops \in BOOLEAN
    /\ width \in Nat /\ known \in BOOLEAN /\ (known => provider = "lumos")
    /\ said \in {"nothing", "asked", "width"}
    /\ stale \subseteq Rows /\ disabled \subseteq stale /\ sample \in Nat
    /\ pc \in Places /\ limit \in Nat \ {0}
    /\ pages \in Nat /\ scanned \in Nat /\ noSignIn \in BOOLEAN /\ IsFiniteSet(items)
    /\ truncated \in BOOLEAN /\ clip \in BOOLEAN /\ noted \in BOOLEAN
-----------------------------------------------------------------------------
(* Pages and cursors *)

LEMMA Multiples ==
    \A a, b, w \in Int : /\ a * w \in Int /\ (a + 1) * w = a * w + w
                         /\ (a <= b /\ w >= 0) => a * w <= b * w
<1>1. ASSUME NEW a \in Int, NEW b \in Int, NEW w \in Int
      PROVE  a * w \in Int /\ (a + 1) * w = a * w + w
  OBVIOUS
<1>2. ASSUME NEW a \in Int, NEW b \in Int, NEW w \in Int, a <= b, w >= 0
      PROVE  a * w <= b * w
  <2>1. (b - a) * w >= 0
    BY <1>2
  <2>2. (b - a) * w = b * w - a * w
    OBVIOUS
  <2>3. a * w \in Int /\ b * w \in Int
    OBVIOUS
  <2> QED BY <2>1, <2>2, <2>3
<1> QED BY <1>1, <1>2

LEMMA Quotient ==
    ASSUME NEW x \in Nat, NEW w \in Nat \ {0}
    PROVE  /\ x \div w \in Nat
           /\ (x \div w) * w <= x
           /\ x < (x \div w) * w + w
OBVIOUS

\* The rows in front of a cursor.  Where no cursor is, all of them are, if the provider
\* tells its last page from the others; else the end of a list says nothing.
Valid(c) == c \in Nat /\ (provider = "lumos" => c > 0)
Before(c) == IF c # NoCursor THEN Page(c, Asked).lo ELSE IF Tells THEN Count ELSE 0

LEMMA Parameters ==
    {PageSize, MaxLimit, MaxPages, ScanCap, ListCap, MinPage, AccessCap, RowCap}
        \subseteq Nat \ {0}
BY ScansConstants

LEMMA Pages ==
    ASSUME ScanTypeOK
    PROVE  /\ ends \in Seq(Nat) /\ Len(ends) \in Nat \ {0}
           /\ \A i \in 1..Len(ends) : ends[i] \in Nat
           /\ \A i, j \in 1..Len(ends) : i <= j => ends[i] <= ends[j]
           /\ Count = ends[Len(ends)] /\ Count \in Nat
<1>1. ends \in Seq(Nat) \ {<<>>} /\ \A i, j \in DOMAIN ends : i <= j => ends[i] <= ends[j]
  BY ScansConstants DEF ScanTypeOK
<1>2. Len(ends) \in Nat /\ DOMAIN ends = 1..Len(ends) /\ Len(ends) # 0
  BY <1>1, EmptySeq
<1>3. Count = ends[Len(ends)]
  BY <1>1 DEF Count, Last
<1>4. \A i \in 1..Len(ends) : ends[i] \in Nat
  BY <1>1
<1>5. Len(ends) \in Nat \ {0} /\ Len(ends) \in 1..Len(ends)
  BY <1>2
<1>6. Count \in Nat
  BY <1>3, <1>4, <1>5
<1>7. \A i, j \in 1..Len(ends) : i <= j => ends[i] <= ends[j]
  BY <1>1, <1>2
<1> QED BY <1>1, <1>3, <1>4, <1>5, <1>6, <1>7

LEMMA Sizes == ASSUME ScanTypeOK PROVE Asked \in Nat \ {0}
<1>1. PageSize \in Nat \ {0} /\ AccessCap \in Nat \ {0} /\ limit \in Nat \ {0}
  BY Parameters DEF ScanTypeOK
<1> QED BY <1>1 DEF Asked

\* A page has the rows from its cursor up to where the next one begins, or to the last row.
Moves(c, a) ==
    /\ a.lo \in Nat /\ a.n \in Nat /\ Before(c) = a.lo
    /\ Valid(a.next) \/ a.next = NoCursor
    /\ Before(a.next) <= a.lo + a.n

LEMMA AtEnd ==
    ASSUME ScanTypeOK
    PROVE  /\ Before(NoCursor) \in Nat /\ Before(NoCursor) <= Count
           /\ Tells => Before(NoCursor) = Count
           /\ ~Tells => Before(NoCursor) = 0
<1>1. Before(NoCursor) = IF Tells THEN Count ELSE 0
  BY DEF Before
<1> QED BY <1>1, Pages

LEMMA OpaqueMoves ==
    ASSUME ScanTypeOK, NEW c, Valid(c), provider \notin {"lumos", "sailpoint"}
    PROVE  Moves(c, Page(c, Asked))
<1> DEFINE lo(x) == IF x = 0 THEN 0 ELSE ends[x]
           i(x) == Least(x, Len(ends) - 1)
           nx == IF loops /\ c > 0 THEN c
                 ELSE IF loops \/ c + 1 < Len(ends) THEN c + 1 ELSE NoCursor
<1>1. \A x \in Nat : /\ Page(x, Asked) = OpaquePage(x)
                     /\ OpaquePage(x).lo = lo(i(x))
  BY DEF Page, OpaquePage
<1>2. OpaquePage(c).n = ends[i(c) + 1] - lo(i(c)) /\ OpaquePage(c).next = nx
  BY DEF OpaquePage
<1>3. \A x \in Nat : i(x) \in 0..(Len(ends) - 1) /\ i(x) + 1 \in 1..Len(ends)
  BY Pages DEF Least
<1>4. \A x \in Nat : lo(i(x)) \in Nat /\ ends[i(x) + 1] \in Nat /\ lo(i(x)) <= ends[i(x) + 1]
  <2> SUFFICES ASSUME NEW x \in Nat
               PROVE  /\ lo(i(x)) \in Nat /\ ends[i(x) + 1] \in Nat
                      /\ lo(i(x)) <= ends[i(x) + 1]
    OBVIOUS
  <2> DEFINE y == i(x)
  <2>1. y \in 0..(Len(ends) - 1) /\ y + 1 \in 1..Len(ends) /\ Len(ends) \in Nat
    BY <1>3, Pages
  <2>5. lo(y) = lo(i(x)) /\ ends[y + 1] = ends[i(x) + 1]
    OBVIOUS
  <2> HIDE DEF i, y
  <2>2. ends[y + 1] \in Nat
    BY <2>1, Pages
  <2>6. lo(y) \in Nat /\ lo(y) <= ends[y + 1]
    <3>0. CASE y = 0
      BY <3>0, <2>2
    <3>5. CASE y # 0
      <4>1. y \in 1..Len(ends) /\ y <= y + 1
        BY <2>1, <3>5
      <4> QED BY <4>1, <2>1, <2>2, <3>5, Pages
    <3> QED BY <3>0, <3>5
  <2> QED BY <2>5, <2>6, <2>2
<1>5. c \in Nat /\ c # NoCursor
  BY DEF Valid, NoCursor
<1>6. Before(c) = Page(c, Asked).lo
  BY <1>5 DEF Before
<1>7. Valid(nx) \/ nx = NoCursor
  BY <1>5 DEF Valid
<1>8. Before(nx) <= ends[i(c) + 1]
  <2>1. CASE loops /\ c > 0
    <3>1. nx = c
      BY <2>1
    <3>2. Before(nx) = lo(i(c))
      BY <3>1, <1>6, <1>1, <1>5
    <3> QED BY <3>2, <1>4, <1>5
  <2>2. CASE ~(loops /\ c > 0) /\ (loops \/ c + 1 < Len(ends))
    <3>1. nx = c + 1 /\ c + 1 \in Nat /\ c + 1 # NoCursor
      BY <2>2, <1>5 DEF NoCursor
    <3>2. Before(nx) = lo(i(c + 1))
      BY <3>1, <1>1 DEF Before
    <3>3. (i(c + 1) = i(c) + 1) \/ (i(c + 1) = 0 /\ i(c) = 0)
      <4>1. Len(ends) \in Nat \ {0} /\ (c = 0 \/ c + 1 < Len(ends))
        BY <2>2, <1>5, Pages
      <4>2. \A l \in Nat \ {0} : (c = 0 \/ c + 1 < l) =>
               \/ Least(c + 1, l - 1) = Least(c, l - 1) + 1
               \/ Least(c + 1, l - 1) = 0 /\ Least(c, l - 1) = 0
        BY <1>5 DEF Least
      <4> QED BY <4>1, <4>2
    <3>4. lo(i(c) + 1) = ends[i(c) + 1]
      BY <1>3, <1>5
    <3>5. CASE i(c + 1) = i(c) + 1
      <4>1. Before(nx) = ends[i(c) + 1]
        BY <3>2, <3>4, <3>5
      <4> QED BY <4>1, <1>4, <1>5
    <3>6. CASE i(c + 1) = 0 /\ i(c) = 0
      <4>1. Before(nx) = lo(i(c))
        BY <3>2, <3>6
      <4> QED BY <4>1, <1>4, <1>5
    <3> QED BY <3>3, <3>5, <3>6
  <2>3. CASE ~loops /\ ~(c + 1 < Len(ends))
    <3>1. nx = NoCursor /\ Before(nx) \in Nat /\ Before(nx) <= Count
      BY <2>3, AtEnd
    <3>2. i(c) + 1 = Len(ends)
      BY <2>3, <1>5, Pages DEF Least
    <3>3. Count = ends[i(c) + 1]
      BY <3>2, Pages
    <3> QED BY <3>1, <3>3, Pages
  <2> QED BY <2>1, <2>2, <2>3
<1>9. \A l, m \in Nat : l + (m - l) = m /\ (l <= m => m - l \in Nat)
  OBVIOUS
<1> DEFINE a == Page(c, Asked)
<1>10. a.lo = lo(i(c)) /\ a.n = ends[i(c) + 1] - lo(i(c)) /\ a.next = nx
  BY <1>1, <1>2, <1>5
<1>11. a.lo \in Nat /\ a.n \in Nat /\ a.lo + a.n = ends[i(c) + 1]
  BY <1>10, <1>4, <1>5, <1>9
<1>12. Before(a.next) <= a.lo + a.n /\ (Valid(a.next) \/ a.next = NoCursor)
  BY <1>10, <1>11, <1>8, <1>7
<1> QED BY <1>11, <1>12, <1>6 DEF Moves

LEMMA OffsetMoves ==
    ASSUME ScanTypeOK, NEW c, Valid(c), provider = "sailpoint"
    PROVE  Moves(c, Page(c, Asked))
<1> DEFINE w == Wide(Asked)
           lo == Least(Count, c)
           n == Least(w, Count - lo)
           nx == IF n = Asked THEN c + n ELSE NoCursor
           a == Page(c, Asked)
<1>1. c \in Nat /\ c # NoCursor /\ Count \in Nat /\ Asked \in Nat \ {0}
  BY Pages, Sizes DEF Valid, NoCursor
<1>2. a.lo = lo /\ a.n = n /\ a.next = nx /\ Before(c) = lo
  BY <1>1 DEF Page, OffsetPage, NextOffset, Before
<1>3. w \in Nat \ {0}
  BY <1>1 DEF Wide, ScanTypeOK
<1> HIDE DEF w
<1>4. lo \in Nat /\ n \in Nat /\ (n # 0 => lo = c) /\ n <= Count - lo
  BY <1>1, <1>3 DEF Least
<1>5. CASE n = Asked
  <2>1. nx = c + n /\ nx \in Nat /\ nx # NoCursor
    BY <1>5, <1>4, <1>1 DEF NoCursor
  <2>2. Before(nx) = Least(Count, nx) /\ Valid(nx)
    BY <2>1 DEF Before, Page, OffsetPage, Valid
  <2>3. Before(nx) <= lo + n
    BY <2>1, <2>2, <1>1, <1>4, <1>5 DEF Least
  <2> QED BY <2>2, <2>3, <1>2, <1>4 DEF Moves
<1>6. CASE n # Asked
  <2>1. nx = NoCursor
    BY <1>6
  <2>2. Tells => w = Asked
    BY DEF Tells, Counted, ScanTypeOK, w
  <2>3. Tells => Count <= lo + n
    BY <2>2, <1>6, <1>1, <1>4 DEF Least
  <2>4. Before(NoCursor) <= lo + n
    <3> HIDE DEF lo, n
    <3>1. CASE Tells
      BY <3>1, <2>3, AtEnd
    <3>2. CASE ~Tells
      BY <3>2, <1>4, AtEnd
    <3> QED BY <3>1, <3>2
  <2>5. Before(nx) <= lo + n
    BY <2>1, <2>4
  <2> QED BY <2>1, <2>5, <1>1, <1>2, <1>4 DEF Moves
<1> QED BY <1>5, <1>6

\* The width of the pages of Lumos, the rows in front of the page at cursor c, and the
\* pages that it reports.
W == Wide(Asked)
At(c) == Least(Count, (c - 1) * W)
Total == IF known THEN (Count + W - 1) \div W ELSE 0

LEMMA WidthOfPages ==
    ASSUME ScanTypeOK PROVE W \in Nat \ {0} /\ Counted(Asked) \in Nat
<1>1. Asked \in Nat \ {0} /\ width \in Nat
  BY Sizes DEF ScanTypeOK
<1>2. W \in Nat \ {0}
  BY <1>1 DEF W, Wide
<1>3. Reported(Asked) \in Nat
  BY <1>1, <1>2 DEF Reported, W, ScanTypeOK
<1> QED BY <1>1, <1>2, <1>3 DEF Counted

\* The rows in front of a page of Lumos, and on it.
LEMMA NumberedAt ==
    ASSUME ScanTypeOK, NEW c \in Nat, c > 0, provider = "lumos"
    PROVE  /\ Page(c, Asked).lo = At(c) /\ Page(c, Asked).n = At(c + 1) - At(c)
           /\ Page(c, Asked).reported = Total
           /\ Page(c, Asked).next =
                  NextPageCursor(c, Total, At(c + 1) - At(c), Counted(Asked))
           /\ At(c) \in Nat /\ At(c) <= At(c + 1) /\ At(c + 1) <= Count
           /\ At(c + 1) - At(c) <= W
           /\ At(c + 1) - At(c) # W => At(c + 1) = Count
           /\ c * W < Count => At(c + 1) - At(c) = W
           /\ Count <= c * W => At(c + 1) = Count
<1> DEFINE L == (c - 1) * W
<1>1. Count \in Nat /\ W \in Nat \ {0}
  BY Pages, WidthOfPages
<1>2. L \in Nat /\ c * W = L + W
  <2>1. /\ (c - 1) * W \in Int /\ ((c - 1) + 1) * W = (c - 1) * W + W
        /\ 0 * W <= (c - 1) * W
    BY <1>1, Multiples
  <2>2. 0 * W = 0 /\ (c - 1) + 1 = c
    BY <1>1
  <2> QED BY <2>1, <2>2
<1>3. At(c) = Least(Count, L) /\ At(c + 1) = Least(Count, c * W)
  <2>1. c + 1 - 1 = c
    OBVIOUS
  <2> QED BY <2>1 DEF At
<1> HIDE DEF L
<1>4. Least(W, Count - At(c)) = At(c + 1) - At(c)
  BY <1>1, <1>2, <1>3 DEF Least
<1>5. /\ At(c) \in Nat /\ At(c) <= At(c + 1) /\ At(c + 1) <= Count
      /\ At(c + 1) - At(c) <= W
      /\ At(c + 1) - At(c) # W => At(c + 1) = Count
      /\ c * W < Count => At(c + 1) - At(c) = W
      /\ Count <= c * W => At(c + 1) = Count
  BY <1>1, <1>2, <1>3 DEF Least
<1>6. Page(c, Asked) = [lo |-> At(c), n |-> Least(W, Count - At(c)), reported |-> Total,
          next |-> NextPageCursor(c, Total, Least(W, Count - At(c)), Counted(Asked))]
  BY DEF Page, NumberedPage, At, W, Total
<1> QED BY <1>4, <1>5, <1>6

LEMMA NumberedMoves ==
    ASSUME ScanTypeOK, NEW c, Valid(c), provider = "lumos"
    PROVE  Moves(c, Page(c, Asked))
<1> DEFINE n == At(c + 1) - At(c)
           size == Counted(Asked)
           nx == NextPageCursor(c, Total, n, size)
           a == Page(c, Asked)
<1>1. /\ c \in Nat /\ c > 0 /\ c # NoCursor /\ c + 1 \in Nat /\ c + 1 # NoCursor
      /\ Count \in Nat /\ W \in Nat \ {0} /\ size \in Nat
  BY Pages, WidthOfPages DEF Valid, NoCursor
<1>2. /\ a.lo = At(c) /\ a.n = n /\ a.next = nx
      /\ At(c) \in Nat /\ At(c) <= At(c + 1) /\ At(c + 1) <= Count /\ n <= W
      /\ n # W => At(c + 1) = Count
      /\ Count <= c * W => At(c + 1) = Count
  BY <1>1, NumberedAt
<1>3. At(c + 1) \in Nat
  BY <1>1, NumberedAt
<1>4. Before(c) = At(c) /\ Before(c + 1) = At(c + 1)
  BY <1>1, NumberedAt DEF Before
<1>5. n \in Nat /\ At(c) + n = At(c + 1)
  BY <1>2, <1>3
<1>6. Total \in Nat /\ (Total # 0 => known /\ Count + W - 1 < Total * W + W)
  <2>1. Count + W - 1 \in Nat
    BY <1>1
  <2> DEFINE q == (Count + W - 1) \div W
  <2>2. q \in Nat /\ q * W <= Count + W - 1 /\ Count + W - 1 < q * W + W
    BY <2>1, <1>1, Quotient
  <2> QED BY <2>2 DEF Total
<1>7. (known /\ Total = 0) => Count = 0
  <2>1. Count + W - 1 \in Nat
    BY <1>1
  <2> DEFINE q == (Count + W - 1) \div W
  <2>2. q \in Nat /\ Count + W - 1 < q * W + W
    BY <2>1, <1>1, Quotient
  <2>3. 0 * W = 0
    BY <1>1
  <2> QED BY <2>2, <2>3, <1>1 DEF Total
<1> HIDE DEF n, size
<1>8. CASE nx = c + 1
  <2>1. Valid(nx) /\ Before(nx) <= a.lo + a.n
    BY <1>8, <1>1, <1>2, <1>3, <1>4, <1>5 DEF Valid
  <2> QED BY <2>1, <1>2, <1>4, <1>5 DEF Moves
<1>9. CASE nx # c + 1
  <2>1. nx = NoCursor /\ ~(c < Total) /\ ~(Total = 0 /\ size > 0 /\ n = size)
    BY <1>9, <1>1, <1>6 DEF NextPageCursor, NextPage, NoCursor
  <2>2. Tells => Count <= At(c) + n
    <3>1. CASE Total # 0
      <4>1. Total * W <= c * W /\ Total * W \in Int /\ c * W \in Int
        BY <2>1, <1>1, <1>6, Multiples
      <4>2. Count <= c * W
        BY <4>1, <3>1, <1>1, <1>6
      <4> QED BY <4>2, <1>2, <1>5, <1>1
    <3>2. CASE Total = 0 /\ known
      BY <3>2, <1>7, <1>2, <1>5
    <3>3. CASE Total = 0 /\ ~known
      <4>1. Tells => size = W
        BY <3>3 DEF Tells, W, size
      <4>2. Tells => n # W
        BY <4>1, <3>3, <2>1, <1>1
      <4> QED BY <4>2, <1>2, <1>5, <1>1
    <3> QED BY <3>1, <3>2, <3>3
  <2>3. Before(nx) <= a.lo + a.n
    BY <2>1, <2>2, <1>1, <1>2, <1>5, AtEnd
  <2> QED BY <2>1, <2>3, <1>2, <1>4, <1>5 DEF Moves
<1> QED BY <1>8, <1>9

LEMMA PageMoves == ASSUME ScanTypeOK, NEW c, Valid(c) PROVE Moves(c, Page(c, Asked))
BY OpaqueMoves, OffsetMoves, NumberedMoves
-----------------------------------------------------------------------------
(* What a call keeps *)

LEMMA AllOf ==
    ASSUME NEW S \in SUBSET Int, IsFiniteSet(S), NEW k \in Int, Cardinality(S) <= k
    PROVE  FirstOf(k, S) = S
<1>1. \A x \in S : Cardinality({y \in S : y <= x}) <= k
  <2> SUFFICES ASSUME NEW x \in S PROVE Cardinality({y \in S : y <= x}) <= k
    OBVIOUS
  <2> DEFINE T == {y \in S : y <= x}
  <2>1. T \in SUBSET S
    OBVIOUS
  <2>2. /\ IsFiniteSet(T) /\ Cardinality(T) <= Cardinality(S)
        /\ Cardinality(T) \in Nat /\ Cardinality(S) \in Nat
    BY <2>1, FS_Subset, FS_CardinalityType
  <2> QED BY <2>2
<1> QED BY <1>1 DEF FirstOf

LEMMA FirstFinite ==
    ASSUME NEW S, IsFiniteSet(S), NEW k
    PROVE  IsFiniteSet(FirstOf(k, S)) /\ FirstOf(k, S) \subseteq S
<1>1. FirstOf(k, S) \subseteq S
  BY DEF FirstOf
<1> QED BY <1>1, FS_Subset

LEMMA Interval ==
    ASSUME NEW a, a.lo \in Nat, NEW n \in Nat
    PROVE  IsFiniteSet(RowsOf(a, n)) /\ Cardinality(RowsOf(a, n)) = n /\ RowsOf(a, n) \subseteq Nat
<1> DEFINE x == a.lo + 1
           y == a.lo + n
<1>1. x \in Int /\ y \in Int /\ RowsOf(a, n) = x..y
  BY DEF RowsOf
<1>2. IsFiniteSet(x..y) /\ Cardinality(x..y) = IF x > y THEN 0 ELSE y - x + 1
  BY <1>1, FS_Interval
<1>3. (IF x > y THEN 0 ELSE y - x + 1) = n
  OBVIOUS
<1> QED BY <1>1, <1>2, <1>3

-----------------------------------------------------------------------------
(* The walk *)

\* The rows that the walk has to deliver, once a result has said that sign-ins could not
\* be read and before.
Sought(told) == IF told THEN disabled ELSE stale

\* What has been delivered reaches up to where the call has begun, and what the call has
\* collected from there up to its cursor.
Reached ==
    /\ Valid(start)
    /\ pc # "done" => \A x \in Sought(noted) : x <= Before(start) => x \in delivered
    /\ pc = "run" => Valid(cursor)
    /\ pc \in {"run", "sample"} =>
          /\ Valid(cursor) \/ cursor = NoCursor
          /\ \A x \in Sought(noted \/ noSignIn) :
                 (Before(start) < x /\ x <= Before(cursor)) => x \in items
    /\ pc = "got" =>
          /\ Valid(next) \/ next = NoCursor
          /\ (next # NoCursor \/ ~truncated) =>
                 \A x \in Sought(noted) : x <= Before(next) => x \in delivered

\* A list is never asked for again with a larger limit, which would change its pages; a
\* list and the members are one request; an access report begins with nothing.
OneRequest ==
    /\ pc = "sample" => tool = "scan"
    /\ (tool = "list" /\ pc = "got" /\ next = NoCursor) => ~truncated
    /\ (tool \in {"list", "members"} /\ pc = "run") => cursor = start
    /\ tool = "access" => start = First /\ (pc = "got" => next = NoCursor)
    /\ (tool = "access" /\ provider # "lumos" /\ pc = "run") => items = {} /\ cursor = First

WalkInv == ScanTypeOK /\ Reached /\ OneRequest /\ NothingMissed

\* While a scan goes on it has not used its caps up, and every page that a scan of c1 went
\* on from had a row.
Bounded ==
    tool = "scan" =>
        /\ pc = "sample" => provider = "sailpoint"
        /\ pc \in {"run", "sample"} =>
              /\ Capped => scanned <= ScanCap
              /\ IF provider = "c1" THEN pages <= scanned ELSE pages <= MaxPages
        /\ CallIsBounded

\* Cursors keep their meaning as long as the pages of a list keep their size.
Fixed == UNCHANGED directory /\ (tool = "list" => limit' = limit)

LEMMA CursorsKept ==
    ASSUME Fixed, NEW c
    PROVE  Before(c)' = Before(c) /\ (Valid(c)' <=> Valid(c))
<1>1. Asked' = Asked
  BY DEF Fixed, Asked, directory
<1>2. Page(c, Asked)' = Page(c, Asked)
  BY <1>1 DEF Fixed, directory, Page, OpaquePage, NumberedPage, OffsetPage, Count, Last,
              Wide, Counted, Reported
<1>3. Count' = Count
  BY DEF Fixed, directory, Count
<1>4. Tells' = Tells
  BY <1>1 DEF Fixed, directory, Tells, Wide, Counted, Reported
<1> QED BY <1>2, <1>3, <1>4 DEF Before, Valid, Fixed, directory

LEMMA Ahead ==
    ASSUME ScanTypeOK, NEW c, Valid(c) \/ c = NoCursor
    PROVE  Before(c) \in Nat
<1>1. CASE Valid(c)
  BY <1>1, PageMoves DEF Moves
<1>2. CASE c = NoCursor
  BY <1>2, AtEnd
<1> QED BY <1>1, <1>2

LEMMA SoughtKept ==
    ASSUME ScanTypeOK, NEW t \in BOOLEAN, NEW u \in BOOLEAN, t => u
    PROVE  /\ Sought(u) \subseteq Sought(t)
           /\ Sought(t) \subseteq Rows /\ Rows \subseteq Int
<1>1. Rows \subseteq Int
  BY Pages DEF Rows
<1> QED BY <1>1 DEF Sought, ScanTypeOK

\* A result that leads on, or ends the walk, hands out all that lies in front of where it
\* leads.
LEMMA Returned ==
    ASSUME ScanTypeOK, Reached, Fixed, pc \in {"run", "sample"}, start' = start,
           noSignIn' \in BOOLEAN, noSignIn => noSignIn',
           NEW nx, NEW tr, NEW cl, Return(nx, tr, cl), Valid(nx) \/ nx = NoCursor,
           (nx # NoCursor \/ ~tr) =>
               \A x \in Sought(noted') :
                   (Before(start) < x /\ x <= Before(nx)) => x \in items'
    PROVE  Reached'
<1>1. /\ next' = nx /\ truncated' = tr /\ delivered' = delivered \cup items'
      /\ noted' = (noted \/ noSignIn') /\ pc' = "got"
  BY DEF Return
<1>2. noted \in BOOLEAN /\ noted' \in BOOLEAN /\ (noted => noted')
  BY <1>1 DEF ScanTypeOK
<1>3. Valid(start) /\ (\A x \in Sought(noted) : x <= Before(start) => x \in delivered)
  BY DEF Reached
<1>4. Sought(noted') \subseteq Sought(noted) /\ Sought(noted') \subseteq Int
  BY <1>2, SoughtKept
<1>5. /\ Valid(start)' /\ Before(start)' = Before(start)
      /\ Before(next)' = Before(nx) /\ (Valid(next)' <=> Valid(nx))
  <2>1. \A c : Before(c)' = Before(c) /\ (Valid(c)' <=> Valid(c))
    BY CursorsKept
  <2> QED BY <2>1, <1>1, <1>3
<1>6. Before(start) \in Nat /\ Before(nx) \in Nat
  BY <1>3, Ahead
<1>7. Sought(noted)' = Sought(noted')
  BY DEF Sought, Fixed, directory
<1>8. \A x \in Sought(noted)' : x <= Before(start)' => x \in delivered'
  BY <1>1, <1>3, <1>4, <1>5, <1>7
<1>9. (next' # NoCursor \/ ~truncated') =>
          \A x \in Sought(noted)' : x <= Before(next)' => x \in delivered'
  <2> SUFFICES ASSUME next' # NoCursor \/ ~truncated', NEW x \in Sought(noted'), x <= Before(nx)
               PROVE  x \in delivered'
    BY <1>5, <1>7
  <2>1. x \in Int /\ x \in Sought(noted)
    BY <1>4
  <2>2. CASE x <= Before(start)
    BY <2>1, <2>2, <1>1, <1>3
  <2>3. CASE Before(start) < x
    BY <2>1, <2>3, <1>1
  <2> QED BY <2>1, <2>2, <2>3, <1>6
<1>10. Valid(next)' \/ next' = NoCursor
  BY <1>1, <1>5
<1> QED BY <1>1, <1>5, <1>8, <1>9, <1>10 DEF Reached

\* A call that goes on has collected all that lies between its start and its cursor.
LEMMA Gathered ==
    ASSUME ScanTypeOK, Reached, Fixed, pc \in {"run", "sample"}, start' = start,
           noSignIn' \in BOOLEAN, NEW l \in {"run", "sample"}, Continue(l),
           Valid(cursor') \/ cursor' = NoCursor, l = "run" => Valid(cursor'),
           \A x \in Sought(noted \/ noSignIn') :
               (Before(start) < x /\ x <= Before(cursor')) => x \in items'
    PROVE  Reached'
<1>1. pc' = l /\ noted' = noted /\ delivered' = delivered
  BY DEF Continue
<1>2. noted \in BOOLEAN /\ (noted \/ noSignIn') \in BOOLEAN
  BY DEF ScanTypeOK
<1>3. Valid(start) /\ (\A x \in Sought(noted) : x <= Before(start) => x \in delivered)
  BY DEF Reached
<1>4. Sought(noted)' = Sought(noted) /\ Sought(noted \/ noSignIn)' = Sought(noted \/ noSignIn')
  BY <1>1 DEF Sought, Fixed, directory
<1>5. /\ Valid(start)' /\ Before(start)' = Before(start)
      /\ Before(cursor)' = Before(cursor') /\ (Valid(cursor)' <=> Valid(cursor'))
  <2>1. \A c : Before(c)' = Before(c) /\ (Valid(c)' <=> Valid(c))
    BY CursorsKept
  <2>2. PICK k : k = cursor'
    OBVIOUS
  <2>3. Before(cursor)' = Before(k) /\ (Valid(cursor)' <=> Valid(k))
    BY <2>1, <2>2
  <2> QED BY <2>1, <2>2, <2>3, <1>3
<1>6. \A x \in Sought(noted)' : x <= Before(start)' => x \in delivered'
  BY <1>1, <1>3, <1>4, <1>5
<1>7. \A x \in Sought(noted \/ noSignIn)' :
          (Before(start)' < x /\ x <= Before(cursor)') => x \in items'
  BY <1>4, <1>5
<1> QED BY <1>1, <1>5, <1>6, <1>7 DEF Reached

LEMMA Clamps == \A n \in Int : Clamp(n) \in Nat \ {0}
<1> SUFFICES ASSUME NEW n \in Int PROVE Clamp(n) \in Nat \ {0}
  OBVIOUS
<1>1. /\ ClampScan(n) \in Nat \ {0} /\ ClampLimit(n) \in Nat \ {0}
      /\ ClampMembers(n) \in Nat \ {0} /\ AccessCap \in Nat \ {0}
      /\ ClampSize(n, ListCap) \in Nat \ {0} /\ ClampPageSize(n) \in Nat \ {0}
  BY Parameters DEF ClampScan, ClampLimit, ClampMembers, ClampSize, ClampPageSize, Least
<1> QED BY <1>1 DEF Clamp

LEMMA FirstValid == ASSUME ScanTypeOK PROVE Valid(First) /\ Before(First) = 0
<1>1. Valid(First) /\ First # NoCursor
  BY DEF Valid, First, NoCursor
<1>2. Page(First, Asked).lo = 0
  <2>1. CASE provider = "lumos"
    <3>1. Page(First, Asked).lo = At(1)
      BY <2>1, NumberedAt DEF First
    <3>2. 1 - 1 = 0 /\ 0 * W = 0 /\ Count \in Nat
      BY Pages, WidthOfPages
    <3> QED BY <3>1, <3>2 DEF At, Least
  <2>2. CASE provider = "sailpoint"
    BY <2>2, Pages DEF Page, OffsetPage, First, Least
  <2>3. CASE provider \notin {"lumos", "sailpoint"}
    <3>1. Least(0, Len(ends) - 1) = 0
      <4>1. Len(ends) \in Nat \ {0}
        BY Pages
      <4> QED BY <4>1 DEF Least
    <3> QED BY <2>3, <3>1 DEF Page, OpaquePage, First
  <2> QED BY <2>1, <2>2, <2>3
<1> QED BY <1>1, <1>2 DEF Before

LEMMA WalkInit == Init => WalkInv /\ Bounded
<1> SUFFICES ASSUME Init PROVE WalkInv /\ Bounded
  OBVIOUS
<1>1. limit \in Nat \ {0}
  BY Clamps, ScansConstants DEF Init
<1>2. /\ width \in Nat /\ known \in BOOLEAN /\ (known => provider = "lumos")
      /\ said \in {"nothing", "asked", "width"}
  <2>1. width \in {0} \cup Widths
    BY DEF Init
  <2>2. known \in (IF provider = "lumos" THEN BOOLEAN ELSE {FALSE})
    BY DEF Init
  <2>3. said \in (IF provider = "lumos" /\ ~known THEN {"nothing", "asked", "width"} ELSE {"asked"})
    BY DEF Init
  <2>4. width \in Nat
    <3>1. Widths \subseteq Nat
      BY ScansConstants
    <3> QED BY <3>1, <2>1
  <2>5. known \in BOOLEAN /\ (known => provider = "lumos")
    <3>1. CASE provider = "lumos"
      BY <2>2, <3>1
    <3>2. CASE provider # "lumos"
      <4>1. known \in {FALSE}
        BY <2>2, <3>2
      <4> QED BY <4>1
    <3> QED BY <3>1, <3>2
  <2>6. said \in {"nothing", "asked", "width"}
    BY <2>3
  <2> QED BY <2>4, <2>5, <2>6
<1>3. stale \subseteq Rows /\ disabled \subseteq stale
  <2>1. ends \in Directories /\ stale \in SUBSET (1..Last(ends))
    BY DEF Init, Rows, Count
  <2>2. disabled \in Disabled(stale) \/ disabled = {}
    BY DEF Init
  <2> QED BY <2>1, <2>2, ScansConstants DEF Rows, Count
<1>4. sample \in Nat
  BY ScansConstants DEF Init
<1>5. IsFiniteSet(items)
  BY FS_EmptySet DEF Init
<1>6. ScanTypeOK
  BY <1>1, <1>2, <1>3, <1>4, <1>5 DEF Init, ScanTypeOK, Places
<1>7. Valid(First) /\ Before(First) = 0 /\ Rows \subseteq Nat \ {0}
  BY <1>6, FirstValid, Pages DEF Rows
<1>8. start = First /\ cursor = First /\ pc = "run" /\ Sought(noted) = stale
      /\ Sought(noted \/ noSignIn) = stale /\ items = {}
  BY DEF Init, Sought
<1>9. \A x \in stale : ~(x <= 0) /\ x \in Nat
  BY <1>3, <1>7
<1>10. Valid(start) /\ Before(start) = 0 /\ Valid(cursor) /\ Before(cursor) = 0
  BY <1>7, <1>8
<1>11. Reached
  <2>1. \A x \in Sought(noted) : x <= Before(start) => x \in delivered
    BY <1>8, <1>9, <1>10
  <2>2. \A x \in Sought(noted \/ noSignIn) :
            (Before(start) < x /\ x <= Before(cursor)) => x \in items
    BY <1>8, <1>9, <1>10
  <2> QED BY <1>8, <1>10, <2>1, <2>2 DEF Reached
<1>12. OneRequest /\ NothingMissed
  BY <1>8 DEF OneRequest, NothingMissed
<1>13. Bounded
  <2>1. pages = 0 /\ scanned = 0 /\ pc = "run"
    BY DEF Init
  <2> QED BY <2>1, <1>4, Parameters DEF Bounded, CallIsBounded
<1> QED BY <1>6, <1>11, <1>12, <1>13 DEF WalkInv

LEMMA EndsKeepsWalk ==
    ASSUME WalkInv, ScanEnds PROVE WalkInv'
<1>0. ScanTypeOK /\ Reached /\ OneRequest /\ Fixed /\ pc = "run" /\ tool = "scan"
  BY DEF WalkInv, ScanEnds, Fixed, call
<1>1. UNCHANGED <<directory, call>> /\ noSignIn \in BOOLEAN
  BY <1>0 DEF ScanEnds, ScanTypeOK
<1>2. /\ limit' = limit /\ start' = start /\ cursor' = cursor /\ items' = items
      /\ noSignIn' = noSignIn /\ pages' = pages /\ scanned' = scanned
  BY <1>1 DEF call
<1>3. /\ Valid(cursor) /\ noted \in BOOLEAN
      /\ \A x \in Sought(noted \/ noSignIn) :
             (Before(start) < x /\ x <= Before(cursor)) => x \in items
  BY <1>0 DEF Reached, ScanTypeOK
<1>4. CASE Continue("sample")
  <2>1. pc' = "sample" /\ noted' = noted /\ truncated' = truncated /\ clip' = clip
    BY <1>4 DEF Continue, result
  <2>2. ScanTypeOK'
    BY <1>0, <1>1, <1>2, <2>1 DEF ScanTypeOK, directory, Rows, Count, Places
  <2>3. Reached'
    BY <1>0, <1>1, <1>2, <1>3, <1>4, Gathered
  <2>4. OneRequest' /\ NothingMissed'
    BY <1>0, <1>1, <2>1 DEF OneRequest, NothingMissed, directory
  <2> QED BY <2>2, <2>3, <2>4 DEF WalkInv
<1>5. CASE Return(cursor, TRUE, FALSE)
  <2>1. pc' = "got" /\ truncated' = TRUE /\ clip' = FALSE /\ noted' = (noted \/ noSignIn)
    BY <1>5, <1>2 DEF Return
  <2>2. ScanTypeOK'
    BY <1>0, <1>1, <1>2, <2>1 DEF ScanTypeOK, directory, Rows, Count, Places
  <2>3. Reached'
    BY <1>0, <1>1, <1>2, <1>3, <1>5, <2>1, Returned
  <2>4. OneRequest' /\ NothingMissed'
    BY <1>0, <1>1, <2>1 DEF OneRequest, NothingMissed, directory
  <2> QED BY <2>2, <2>3, <2>4 DEF WalkInv
<1> QED BY <1>4, <1>5 DEF ScanEnds

LEMMA SampleKeepsWalk ==
    ASSUME WalkInv, Sample PROVE WalkInv'
<1> DEFINE all == (Count + 1)..(Count + sample)
           kept == FirstOf(limit - Cardinality(items), all)
<1>0. ScanTypeOK /\ Reached /\ OneRequest /\ Fixed /\ pc = "sample"
  BY DEF WalkInv, Sample, Fixed
<1>1. /\ UNCHANGED directory /\ limit' = limit /\ start' = start /\ cursor' = cursor
      /\ noSignIn' = noSignIn /\ scanned' = scanned + sample /\ pages' = pages + 1
      /\ items' = items \cup kept
  BY DEF Sample
<1>2. \/ Return(NoCursor, TRUE, FALSE)
      \/ Return(cursor, cursor # NoCursor, FALSE)
  BY DEF Sample
<1>3. IsFiniteSet(items')
  <2>1. IsFiniteSet(all)
    <3>1. Count + 1 \in Int /\ Count + sample \in Int
      BY <1>0, Pages DEF ScanTypeOK
    <3> QED BY <3>1, FS_Interval
  <2>2. IsFiniteSet(kept) /\ IsFiniteSet(items)
    BY <1>0, <2>1, FirstFinite DEF ScanTypeOK
  <2> QED BY <1>1, <2>2, FS_Union
<1>4. /\ Valid(cursor) \/ cursor = NoCursor
      /\ noted \in BOOLEAN /\ noSignIn \in BOOLEAN
      /\ \A x \in Sought(noted \/ noSignIn) :
             (Before(start) < x /\ x <= Before(cursor)) => x \in items'
  BY <1>0, <1>1 DEF Reached, ScanTypeOK
<1>5. /\ pc' = "got" /\ truncated' \in BOOLEAN /\ clip' = FALSE
      /\ noted' = (noted \/ noSignIn) /\ (next' = NoCursor => truncated' \in BOOLEAN)
  BY <1>1, <1>2 DEF Return
<1>6. ScanTypeOK'
  <2>1. scanned' \in Nat /\ pages' \in Nat
    BY <1>0, <1>1 DEF ScanTypeOK
  <2> QED BY <1>0, <1>1, <1>3, <1>5, <2>1 DEF ScanTypeOK, directory, Rows, Count, Places
<1>7. Reached'
  <2>1. CASE Return(NoCursor, TRUE, FALSE)
    BY <1>0, <1>1, <1>4, <1>5, <2>1, Returned
  <2>2. CASE Return(cursor, cursor # NoCursor, FALSE)
    BY <1>0, <1>1, <1>4, <1>5, <2>2, Returned
  <2> QED BY <1>2, <2>1, <2>2
<1>8. tool' = tool /\ tool = "scan"
  BY <1>0, <1>1 DEF directory, OneRequest
<1>9. OneRequest' /\ NothingMissed'
  BY <1>0, <1>5, <1>8 DEF OneRequest, NothingMissed
<1> QED BY <1>6, <1>7, <1>9 DEF WalkInv

\* The page that a scan reads, what of its rows is looked at, found and Kept, and how the
\* call goes on
Read == Page(cursor, PageSize)
Cut == Capped /\ Read.n > ScanCap - scanned
Seen == IF Cut THEN ScanCap - scanned ELSE Read.n
Found == Hits(RowsOf(Read, Seen))
Kept == FirstOf(limit - Cardinality(items), Found)

LEMMA PageRead ==
    ASSUME ScanTypeOK, Reached, ScanPage
    PROVE  /\ Moves(cursor, Read)
           /\ pages' = pages + 1 /\ scanned' = scanned + Seen /\ items' = items \cup Kept
           /\ UNCHANGED <<directory, limit, start>>
           /\ noSignIn' \in BOOLEAN /\ (noSignIn => noSignIn')
           /\ \/ Cut /\ cursor' = cursor /\ Return(Sent, TRUE, TRUE)
              \/ /\ ~Cut /\ cursor' = Read.next
                 /\ \/ Found # Kept /\ Return(NoCursor, TRUE, FALSE)
                    \/ /\ Found = Kept /\ provider = "sailpoint" /\ ReadUp(Read)
                       /\ Continue("sample")
                    \/ /\ Found = Kept /\ ReadUp(Read)
                       /\ Return(Read.next, Read.next # NoCursor, FALSE)
                    \/ Found = Kept /\ ~ReadUp(Read) /\ Continue("run")
<1>1. tool = "scan" /\ pc = "run" /\ UNCHANGED <<directory, limit, start>>
  BY DEF ScanPage
<1>2. Asked = PageSize /\ Valid(cursor)
  BY <1>1 DEF Asked, Reached
<1>3. Moves(cursor, Read)
  BY <1>2, PageMoves DEF Read
<1>4. noSignIn' \in BOOLEAN /\ (noSignIn => noSignIn')
  <2>1. noSignIn' \in (IF provider = "entra" /\ ~noSignIn THEN BOOLEAN ELSE {noSignIn})
    BY DEF ScanPage
  <2>2. noSignIn \in BOOLEAN
    BY DEF ScanTypeOK
  <2>3. CASE provider = "entra" /\ ~noSignIn
    BY <2>1, <2>3
  <2>4. CASE ~(provider = "entra" /\ ~noSignIn)
    <3>1. noSignIn' = noSignIn
      BY <2>1, <2>4
    <3> QED BY <3>1, <2>2
  <2> QED BY <2>3, <2>4
<1>5. /\ pages' = pages + 1 /\ scanned' = scanned + Seen /\ items' = items \cup Kept
      /\ cursor' = IF Cut THEN cursor ELSE Read.next
      /\ IF Cut THEN Return(Sent, TRUE, TRUE)
         ELSE IF Leftover(Found, Kept) THEN Return(NoCursor, TRUE, FALSE)
         ELSE IF ReadUp(Read)
         THEN IF provider = "sailpoint" /\ Cardinality(items') < limit
              THEN Continue("sample")
              ELSE Return(Read.next, Read.next # NoCursor, FALSE)
         ELSE Continue("run")
  BY DEF ScanPage, Read, Cut, Seen, Found, Kept
<1> QED BY <1>1, <1>3, <1>4, <1>5 DEF Leftover

LEMMA PageKeepsWalk ==
    ASSUME WalkInv, ScanPage PROVE WalkInv'
<1>0. ScanTypeOK /\ Reached /\ OneRequest /\ Fixed /\ pc = "run" /\ tool = "scan"
  BY DEF WalkInv, ScanPage, Fixed
<1>1. /\ Moves(cursor, Read)
      /\ pages' = pages + 1 /\ scanned' = scanned + Seen /\ items' = items \cup Kept
      /\ UNCHANGED <<directory, limit, start>>
      /\ noSignIn' \in BOOLEAN /\ (noSignIn => noSignIn')
      /\ \/ Cut /\ cursor' = cursor /\ Return(Sent, TRUE, TRUE)
         \/ /\ ~Cut /\ cursor' = Read.next
            /\ \/ Found # Kept /\ Return(NoCursor, TRUE, FALSE)
               \/ /\ Found = Kept /\ provider = "sailpoint" /\ ReadUp(Read)
                  /\ Continue("sample")
               \/ Found = Kept /\ Return(Read.next, Read.next # NoCursor, FALSE)
               \/ Found = Kept /\ ~ReadUp(Read) /\ Continue("run")
  BY <1>0, PageRead
<1>2. /\ Read.lo \in Nat /\ Read.n \in Nat /\ Before(cursor) = Read.lo
      /\ Valid(Read.next) \/ Read.next = NoCursor
      /\ Before(Read.next) <= Read.lo + Read.n
  BY <1>1 DEF Moves
<1>3. Valid(cursor) /\ noted \in BOOLEAN /\ noSignIn \in BOOLEAN
  BY <1>0 DEF Reached, ScanTypeOK
<1>4. /\ scanned \in Nat /\ ScanCap \in Nat /\ pages \in Nat
  BY <1>0, Parameters DEF ScanTypeOK
<1>5. scanned' \in Nat /\ pages' \in Nat
  <2>1. CASE Cut
    BY <1>1, <1>4, <2>1 DEF Seen
  <2>2. CASE ~Cut
    BY <1>1, <1>2, <1>4, <2>2 DEF Seen
  <2> QED BY <2>1, <2>2
<1>6. Found \subseteq RowsOf(Read, Seen)
  BY DEF Found, Hits
<1>7. IsFiniteSet(items')
  <2>1. Read.lo + Seen \in Int /\ Read.lo + 1 \in Int
    BY <1>2, <1>4 DEF Seen
  <2>2. IsFiniteSet(RowsOf(Read, Seen))
    <3>1. IsFiniteSet((Read.lo + 1)..(Read.lo + Seen))
      BY <2>1, FS_Interval
    <3> QED BY <3>1 DEF RowsOf
  <2>3. IsFiniteSet(Found)
    BY <1>6, <2>2, FS_Subset
  <2>4. IsFiniteSet(Kept) /\ IsFiniteSet(items)
    BY <1>0, <2>3, FirstFinite DEF ScanTypeOK, Kept
  <2> QED BY <1>1, <2>4, FS_Union
\* What the call looks for on a page that it reads to its end
<1>8. ASSUME ~Cut, Found = Kept
      PROVE  \A x \in Sought(noted \/ noSignIn') :
                 (Before(start) < x /\ x <= Before(Read.next)) => x \in items'
  <2> SUFFICES ASSUME NEW x \in Sought(noted \/ noSignIn'),
                      Before(start) < x, x <= Before(Read.next)
               PROVE  x \in items'
    OBVIOUS
  <2>1. /\ Sought(noted \/ noSignIn') \subseteq Sought(noted \/ noSignIn)
        /\ Sought(noted \/ noSignIn') \subseteq Sought(noSignIn')
        /\ Sought(noted \/ noSignIn') \subseteq Int
    <3> DEFINE u == noted \/ noSignIn'
               t == noted \/ noSignIn
               v == noSignIn'
    <3>1. u \in BOOLEAN /\ t \in BOOLEAN /\ v \in BOOLEAN /\ (t => u) /\ (v => u)
      BY <1>1, <1>3
    <3> HIDE DEF u, t, v
    <3>2. Sought(u) \subseteq Sought(t) /\ Sought(u) \subseteq Sought(v) /\ Sought(u) \subseteq Int
      BY <3>1, <1>0, SoughtKept
    <3> QED BY <3>2 DEF u, t, v
  <2>2. x \in Int /\ Before(Read.next) \in Nat /\ x <= Read.lo + Read.n
    <3>1. Before(Read.next) \in Nat
      BY <1>0, <1>2, Ahead
    <3>2. x \in Int
      BY <2>1
    <3> QED BY <3>1, <3>2, <1>2
  <2>3. CASE x <= Before(cursor)
    BY <2>1, <2>3, <1>0, <1>1 DEF Reached
  <2>4. CASE Read.lo < x
    <3>1. x \in RowsOf(Read, Seen)
      BY <1>8, <2>2, <2>4, <1>2 DEF RowsOf, Seen
    <3>2. x \in Sought(noSignIn')
      BY <2>1
    <3>3. x \in Found
      BY <3>1, <3>2 DEF Found, Hits, Sought
    <3> QED BY <3>3, <1>8, <1>1
  <2> QED BY <2>2, <2>3, <2>4, <1>2
<1>9. \A x \in Sought(noted \/ noSignIn') :
          (Before(start) < x /\ x <= Before(cursor)) => x \in items'
  <2> DEFINE u == noted \/ noSignIn'
             t == noted \/ noSignIn
  <2>1. u \in BOOLEAN /\ t \in BOOLEAN /\ (t => u)
    BY <1>1, <1>3
  <2> HIDE DEF u, t
  <2>2. Sought(u) \subseteq Sought(t)
    BY <2>1, <1>0, SoughtKept
  <2> QED BY <2>2, <1>0, <1>1 DEF Reached, u, t
<1>10. start' = start
  BY <1>1
<1>11. CASE Cut /\ cursor' = cursor /\ Return(Sent, TRUE, TRUE)
  <2>1. pc' = "got" /\ truncated' = TRUE /\ clip' = TRUE /\ noted' = (noted \/ noSignIn')
    BY <1>11 DEF Return
  <2>2. Reached'
    <3>1. Valid(Sent) \/ Sent = NoCursor
      BY <1>3 DEF Sent
    <3>2. (Sent # NoCursor \/ ~TRUE) =>
              \A x \in Sought(noted') :
                  (Before(start) < x /\ x <= Before(Sent)) => x \in items'
      <4>1. Sent # NoCursor => Sent = cursor
        BY DEF Sent
      <4> QED BY <4>1, <1>9, <2>1
    <3> QED BY <3>1, <3>2, <1>0, <1>1, <1>3, <1>11, Returned
  <2>3. ScanTypeOK'
    BY <1>0, <1>1, <1>3, <1>5, <1>7, <2>1 DEF ScanTypeOK, directory, Rows, Count, Places
  <2> QED BY <1>0, <1>1, <2>1, <2>2, <2>3 DEF WalkInv, OneRequest, NothingMissed, directory
<1>12. CASE ~Cut /\ Found # Kept /\ Return(NoCursor, TRUE, FALSE)
  <2>1. pc' = "got" /\ truncated' = TRUE /\ clip' = FALSE /\ noted' = (noted \/ noSignIn')
    BY <1>12 DEF Return
  <2>2. Reached'
    BY <1>0, <1>1, <1>12, Returned
  <2>3. ScanTypeOK'
    BY <1>0, <1>1, <1>3, <1>5, <1>7, <2>1 DEF ScanTypeOK, directory, Rows, Count, Places
  <2> QED BY <1>0, <1>1, <2>1, <2>2, <2>3 DEF WalkInv, OneRequest, NothingMissed, directory
<1>13. CASE ~Cut /\ Found = Kept /\ Return(Read.next, Read.next # NoCursor, FALSE)
  <2>1. /\ pc' = "got" /\ truncated' = (Read.next # NoCursor) /\ clip' = FALSE
        /\ noted' = (noted \/ noSignIn')
    BY <1>13 DEF Return
  <2>2. Reached'
    <3>1. \A x \in Sought(noted') :
              (Before(start) < x /\ x <= Before(Read.next)) => x \in items'
      BY <1>8, <1>13, <2>1
    <3> QED BY <3>1, <1>0, <1>1, <1>2, <1>13, Returned
  <2>3. ScanTypeOK'
    BY <1>0, <1>1, <1>3, <1>5, <1>7, <2>1 DEF ScanTypeOK, directory, Rows, Count, Places
  <2> QED BY <1>0, <1>1, <2>1, <2>2, <2>3 DEF WalkInv, OneRequest, NothingMissed, directory
<1>14. ASSUME NEW l \in {"run", "sample"}, l = "run" => ~ReadUp(Read),
              ~Cut, Found = Kept, Continue(l), cursor' = Read.next
       PROVE  WalkInv'
  <2>1. pc' = l /\ truncated' = truncated /\ clip' = clip /\ noted' = noted
    BY <1>14 DEF Continue, result
  <2>2. Reached'
    <3>1. l = "run" => Valid(Read.next)
      BY <1>14, <1>2 DEF ReadUp
    <3>2. \A x \in Sought(noted \/ noSignIn') :
              (Before(start) < x /\ x <= Before(cursor')) => x \in items'
      BY <1>8, <1>14
    <3> QED BY <3>1, <3>2, <1>0, <1>1, <1>2, <1>14, Gathered
  <2>3. ScanTypeOK'
    BY <1>0, <1>1, <1>3, <1>5, <1>7, <2>1 DEF ScanTypeOK, directory, Rows, Count, Places
  <2> QED BY <1>0, <1>1, <2>1, <2>2, <2>3 DEF WalkInv, OneRequest, NothingMissed, directory
<1> QED BY <1>1, <1>11, <1>12, <1>13, <1>14

LEMMA ListKeepsWalk ==
    ASSUME WalkInv, ListPage PROVE WalkInv'
<1>0. ScanTypeOK /\ Reached /\ OneRequest /\ Fixed /\ pc = "run" /\ tool = "list"
  BY DEF WalkInv, ListPage, Fixed
<1> DEFINE a == Page(cursor, limit)
<1>1. /\ UNCHANGED <<directory, limit, start, cursor, scanned, noSignIn>>
      /\ items' = RowsOf(a, a.n) /\ Return(a.next, a.next # NoCursor, FALSE)
      /\ pages' = pages + 1
  BY DEF ListPage
<1>2. Valid(cursor) /\ cursor = start /\ limit = Asked
  BY <1>0 DEF Reached, OneRequest, Asked
<1>3. /\ a.lo \in Nat /\ a.n \in Nat /\ Before(cursor) = a.lo
      /\ Valid(a.next) \/ a.next = NoCursor
      /\ Before(a.next) <= a.lo + a.n
  BY <1>0, <1>2, PageMoves DEF Moves
<1>4. IsFiniteSet(items') /\ pages' \in Nat /\ noSignIn' \in BOOLEAN /\ noted \in BOOLEAN
  <2>1. IsFiniteSet(RowsOf(a, a.n))
    BY <1>3, Interval
  <2> QED BY <2>1, <1>0, <1>1 DEF ScanTypeOK
<1>5. /\ pc' = "got" /\ next' = a.next /\ truncated' = (a.next # NoCursor) /\ clip' = FALSE
      /\ noted' = (noted \/ noSignIn') /\ noSignIn' = noSignIn /\ start' = start
  BY <1>1 DEF Return
<1>6. \A x \in Sought(noted') : (Before(start) < x /\ x <= Before(a.next)) => x \in items'
  <2> SUFFICES ASSUME NEW x \in Sought(noted'), Before(start) < x, x <= Before(a.next)
               PROVE  x \in items'
    OBVIOUS
  <2>1. noted' \in BOOLEAN
    BY <1>4, <1>5
  <2>2. x \in Int
    BY <1>0, <2>1, SoughtKept
  <2>3. Before(a.next) \in Nat
    BY <1>0, <1>3, Ahead
  <2>4. a.lo < x /\ x <= a.lo + a.n
    BY <1>2, <1>3, <2>2, <2>3
  <2> HIDE DEF a
  <2> QED BY <2>2, <2>4, <1>1, <1>3 DEF RowsOf
<1> HIDE DEF a
<1>7. Reached'
  <2>1. Return(a.next, a.next # NoCursor, FALSE) /\ (Valid(a.next) \/ a.next = NoCursor)
    BY <1>1, <1>3
  <2>2. /\ pc \in {"run", "sample"} /\ start' = start /\ noSignIn' \in BOOLEAN
        /\ (noSignIn => noSignIn')
    BY <1>0, <1>4, <1>5
  <2> QED BY <1>0, <2>1, <2>2, <1>6, Returned
<1>8. ScanTypeOK'
  BY <1>0, <1>1, <1>4, <1>5 DEF ScanTypeOK, directory, Rows, Count, Places
<1>9. OneRequest' /\ NothingMissed'
  BY <1>0, <1>1, <1>5 DEF OneRequest, NothingMissed, directory
<1> QED BY <1>7, <1>8, <1>9 DEF WalkInv

LEMMA MembersKeepsWalk ==
    ASSUME WalkInv, Members PROVE WalkInv'
<1>0. ScanTypeOK /\ Reached /\ OneRequest /\ Fixed /\ pc = "run" /\ tool = "members"
  BY DEF WalkInv, Members, Fixed
<1>1. /\ UNCHANGED <<directory, limit, start, cursor, scanned, noSignIn>>
      /\ items' = FirstOf(limit, Rows) /\ Return(NoCursor, Count > limit, FALSE)
      /\ pages' = pages + 1
  BY DEF Members
<1>2. Count \in Nat /\ limit \in Nat /\ noted \in BOOLEAN /\ noSignIn \in BOOLEAN /\ pages \in Nat
  BY <1>0, Pages DEF ScanTypeOK
<1>3. IsFiniteSet(Rows) /\ Cardinality(Rows) = Count /\ Rows \in SUBSET Int
  <2>1. IsFiniteSet(1..Count) /\ Cardinality(1..Count) = IF 1 > Count THEN 0 ELSE Count - 1 + 1
    BY <1>2, FS_Interval
  <2> QED BY <2>1, <1>2 DEF Rows
<1>4. IsFiniteSet(items') /\ pages' \in Nat
  BY <1>1, <1>2, <1>3, FirstFinite
<1>5. /\ pc' = "got" /\ next' = NoCursor /\ truncated' = (Count > limit) /\ clip' = FALSE
      /\ noted' = (noted \/ noSignIn') /\ noSignIn' = noSignIn /\ start' = start
  BY <1>1 DEF Return
<1>6. ~(Count > limit) =>
          \A x \in Sought(noted') : (Before(start) < x /\ x <= Before(NoCursor)) => x \in items'
  <2> SUFFICES ASSUME ~(Count > limit), NEW x \in Sought(noted') PROVE x \in items'
    OBVIOUS
  <2>1. noted' \in BOOLEAN
    BY <1>2, <1>5
  <2>2. x \in Rows
    BY <1>0, <2>1, SoughtKept
  <2>3. Cardinality(Rows) <= limit
    BY <1>2, <1>3
  <2>4. FirstOf(limit, Rows) = Rows
    BY <2>3, <1>2, <1>3, AllOf
  <2> QED BY <2>2, <2>4, <1>1
<1>7. Reached'
  <2>1. Return(NoCursor, Count > limit, FALSE)
    BY <1>1
  <2>2. /\ pc \in {"run", "sample"} /\ start' = start /\ noSignIn' \in BOOLEAN
        /\ (noSignIn => noSignIn')
    BY <1>0, <1>2, <1>5
  <2> QED BY <1>0, <2>1, <2>2, <1>6, Returned
<1>8. truncated' \in BOOLEAN
  <2>1. (Count > limit) \in BOOLEAN
    BY <1>2
  <2> QED BY <2>1, <1>5
<1>9. ScanTypeOK'
  BY <1>0, <1>1, <1>2, <1>4, <1>5, <1>8 DEF ScanTypeOK, directory, Rows, Count, Places
<1>10. OneRequest' /\ NothingMissed'
  BY <1>0, <1>1, <1>5 DEF OneRequest, NothingMissed, directory
<1> QED BY <1>7, <1>9, <1>10 DEF WalkInv

LEMMA AccessKeepsWalk ==
    ASSUME WalkInv, Access PROVE WalkInv'
<1>0. ScanTypeOK /\ Reached /\ OneRequest /\ Fixed /\ pc = "run" /\ tool = "access"
  BY DEF WalkInv, Access, Fixed
<1> DEFINE a == Page(cursor, AccessCap)
           rows == RowsOf(a, a.n)
           kept == FirstOf(AccessCap - Cardinality(items), rows)
           nx == AccessNext(a)
<1>1. /\ UNCHANGED <<directory, limit, start, scanned, noSignIn>> /\ pages' = pages + 1
      /\ items' = items \cup kept /\ cursor' = nx
      /\ \/ (nx = NoCursor \/ Truncated(a)) /\ Return(NoCursor, Truncated(a), FALSE)
         \/ nx # NoCursor /\ ~Truncated(a) /\ Continue("run")
  BY DEF Access
<1>2. Valid(cursor) /\ Asked = AccessCap /\ AccessCap \in Nat \ {0}
  BY <1>0, Parameters DEF Reached, Asked
<1>3. /\ a.lo \in Nat /\ a.n \in Nat /\ Before(cursor) = a.lo
      /\ Valid(a.next) \/ a.next = NoCursor
      /\ Before(a.next) <= a.lo + a.n
  BY <1>0, <1>2, PageMoves DEF Moves
<1>4. IsFiniteSet(rows) /\ Cardinality(rows) = a.n /\ rows \subseteq Nat
  BY <1>3, Interval
<1>5. IsFiniteSet(items) /\ Cardinality(items) \in Nat /\ noted \in BOOLEAN /\ noSignIn \in BOOLEAN
      /\ pages \in Nat
  BY <1>0, FS_CardinalityType DEF ScanTypeOK
<1>6. IsFiniteSet(items') /\ pages' \in Nat
  <2>1. IsFiniteSet(kept)
    BY <1>4, FirstFinite
  <2> HIDE DEF a, rows, kept, nx
  <2>2. IsFiniteSet(items \cup kept)
    BY <2>1, <1>5, FS_Union
  <2>3. items' = items \cup kept /\ pages' = pages + 1 /\ pages \in Nat
    BY <1>1, <1>5
  <2> QED BY <2>2, <2>3
\* A report that is not truncated has kept the whole page
<1>7. ASSUME ~Truncated(a) PROVE kept = rows /\ nx = a.next
  <2>1. CASE provider = "lumos"
    <3>1. Counted(AccessCap) = AccessCap
      BY <1>0 DEF Counted
    <3>2. a.next = NextPageCursor(cursor, Total, a.n, AccessCap) /\ a.reported = Total
      <4>1. cursor \in Nat /\ cursor > 0 /\ ScanTypeOK
        BY <1>0, <1>2, <2>1 DEF Valid
      <4>2. /\ a.n = At(cursor + 1) - At(cursor) /\ a.reported = Total
            /\ a.next = NextPageCursor(cursor, Total, At(cursor + 1) - At(cursor), AccessCap)
        BY <4>1, <3>1, <1>2, <2>1, NumberedAt
      <4> QED BY <4>2
    <3>3. Cardinality(items) + a.n <= AccessCap
      BY <1>7, <1>2, <1>3, <1>5, <2>1 DEF Truncated
    <3>4. nx = a.next
      BY <2>1, <3>2 DEF AccessNext
    <3>5. Cardinality(rows) <= AccessCap - Cardinality(items)
      BY <3>3, <1>2, <1>3, <1>4, <1>5
    <3>6. AccessCap - Cardinality(items) \in Int /\ rows \in SUBSET Int
      BY <1>2, <1>4, <1>5
    <3>7. kept = rows
      BY <3>5, <3>6, <1>4, AllOf
    <3> QED BY <3>4, <3>7
  <2>2. CASE provider # "lumos"
    <3>1. items = {} /\ cursor = First
      BY <1>0, <2>2 DEF OneRequest
    <3>2. Cardinality(items) = 0
      BY <3>1, FS_EmptySet
    <3>3. a.n <= AccessCap /\ a.next = NoCursor
      <4>1. CASE provider = "c1"
        BY <1>7, <1>2, <1>3, <4>1 DEF Truncated
      <4>2. CASE provider = "sailpoint"
        <5>1. a.n < AccessCap
          BY <1>7, <1>2, <1>3, <4>2 DEF Truncated
        <5>2. a.next = IF a.n = AccessCap THEN cursor + a.n ELSE NoCursor
          BY <4>2 DEF Page, OffsetPage, NextOffset
        <5> QED BY <5>1, <5>2, <1>2, <1>3
      <4> QED BY <4>1, <4>2, <2>2, <1>0 DEF ScanTypeOK
    <3>4. nx = NoCursor
      BY <2>2 DEF AccessNext
    <3>5. Cardinality(rows) <= AccessCap - Cardinality(items)
      BY <3>2, <3>3, <1>2, <1>3, <1>4
    <3>6. AccessCap - Cardinality(items) \in Int /\ rows \in SUBSET Int
      BY <1>2, <1>4, <1>5
    <3>7. kept = rows
      BY <3>5, <3>6, <1>4, AllOf
    <3> QED BY <3>3, <3>4, <3>7
  <2> QED BY <2>1, <2>2
<1> HIDE DEF a, rows, kept, nx
<1>8. noSignIn' = noSignIn /\ noSignIn' \in BOOLEAN /\ start' = start
  BY <1>1, <1>5
<1>9. ASSUME ~Truncated(a)
      PROVE  \A x \in Sought(noted \/ noSignIn') :
                 (Before(start) < x /\ x <= Before(a.next)) => x \in items'
  <2> DEFINE t == noted \/ noSignIn
  <2>1. t \in BOOLEAN /\ Sought(noted \/ noSignIn') = Sought(t)
    BY <1>5, <1>8
  <2> SUFFICES ASSUME NEW x \in Sought(t), Before(start) < x, x <= Before(a.next)
               PROVE  x \in items'
    BY <2>1
  <2>2. x \in Int
    BY <1>0, <2>1, SoughtKept
  <2>3. Before(a.next) \in Nat
    BY <1>0, <1>3, Ahead
  <2>4. CASE x <= Before(cursor)
    BY <2>4, <1>0, <1>1 DEF Reached
  <2>5. CASE a.lo < x
    <3>1. x <= a.lo + a.n
      BY <2>2, <2>3, <1>3
    <3>2. x \in rows
      BY <3>1, <2>2, <2>5, <1>3 DEF RowsOf, rows
    <3> QED BY <3>2, <1>1, <1>7, <1>9
  <2> QED BY <2>2, <2>4, <2>5, <1>3
<1>10. CASE (nx = NoCursor \/ Truncated(a)) /\ Return(NoCursor, Truncated(a), FALSE)
  <2>1. /\ pc' = "got" /\ next' = NoCursor /\ truncated' = Truncated(a) /\ clip' = FALSE
        /\ noted' = (noted \/ noSignIn')
    BY <1>10 DEF Return
  <2>2. truncated' \in BOOLEAN
    <3>1. Truncated(a) \in BOOLEAN
      <4>1. CASE provider = "c1"
        BY <4>1 DEF Truncated
      <4>2. CASE provider = "lumos"
        BY <4>2 DEF Truncated
      <4>3. CASE provider \notin {"c1", "lumos"}
        <5>1. Truncated(a) = (a.n >= AccessCap)
          BY <4>3 DEF Truncated
        <5>2. (a.n >= AccessCap) \in BOOLEAN
          BY <1>2, <1>3
        <5> QED BY <5>1, <5>2
      <4> QED BY <4>1, <4>2, <4>3
    <3> QED BY <3>1, <2>1
  <2>3. ~Truncated(a) => \A x \in Sought(noted') :
            (Before(start) < x /\ x <= Before(NoCursor)) => x \in items'
    BY <2>1, <1>7, <1>9, <1>10
  <2>4. Reached'
    BY <1>0, <1>8, <1>10, <2>3, Returned
  <2>5. ScanTypeOK'
    BY <1>0, <1>1, <1>5, <1>6, <2>1, <2>2 DEF ScanTypeOK, directory, Rows, Count, Places
  <2> QED BY <1>0, <1>1, <2>1, <2>4, <2>5
          DEF WalkInv, OneRequest, NothingMissed, directory, First
<1>11. CASE nx # NoCursor /\ ~Truncated(a) /\ Continue("run")
  <2>1. pc' = "run" /\ truncated' = truncated /\ clip' = clip /\ noted' = noted
    BY <1>11 DEF Continue, result
  <2>2. nx = a.next /\ Valid(nx) /\ cursor' = nx
    BY <1>1, <1>3, <1>7, <1>11
  <2>3. Reached'
    <3>1. \A x \in Sought(noted \/ noSignIn') :
              (Before(start) < x /\ x <= Before(cursor')) => x \in items'
      BY <2>2, <1>9, <1>11
    <3> QED BY <3>1, <2>2, <1>0, <1>8, <1>11, Gathered
  <2>4. ScanTypeOK'
    BY <1>0, <1>1, <1>5, <1>6, <2>1 DEF ScanTypeOK, directory, Rows, Count, Places
  <2>5. provider = "lumos"
    BY <1>11 DEF AccessNext, nx
  <2> QED BY <1>0, <1>1, <2>1, <2>3, <2>4, <2>5
          DEF WalkInv, OneRequest, NothingMissed, directory, First
<1> QED BY <1>1, <1>10, <1>11

\* A call begins where all that lies in front has been delivered
LEMMA Begun ==
    ASSUME WalkInv, Fixed, NEW c, NEW l, l \in Nat \ {0}, Begin(c, l), Valid(c),
           UNCHANGED <<result, delivered, noted>>,
           \A x \in Sought(noted) : x <= Before(c) => x \in delivered,
           tool = "access" => c = First
    PROVE  WalkInv'
<1>0. ScanTypeOK /\ OneRequest /\ UNCHANGED directory
  BY DEF WalkInv, Fixed
<1>1. /\ start' = c /\ cursor' = c /\ limit' = l /\ pages' = 0 /\ scanned' = 0
      /\ items' = {} /\ noSignIn' = FALSE /\ pc' = "run"
      /\ truncated' = truncated /\ clip' = clip /\ noted' = noted /\ delivered' = delivered
  BY DEF Begin, result
<1>2. ScanTypeOK'
  <2>1. IsFiniteSet(items') /\ pages' \in Nat /\ scanned' \in Nat /\ limit' \in Nat \ {0}
    BY <1>1, FS_EmptySet
  <2> QED BY <1>0, <1>1, <2>1 DEF ScanTypeOK, directory, Rows, Count, Places
<1>3. noted \in BOOLEAN /\ Before(c) \in Nat
  BY <1>0, Ahead DEF ScanTypeOK
<1>4. /\ Valid(start)' /\ Before(start)' = Before(c)
      /\ Valid(cursor)' /\ Before(cursor)' = Before(c)
  <2>1. \A k : Before(k)' = Before(k) /\ (Valid(k)' <=> Valid(k))
    BY CursorsKept
  <2> QED BY <2>1, <1>1
<1>5. Sought(noted)' = Sought(noted) /\ Sought(noted \/ noSignIn)' = Sought(noted)
  BY <1>0, <1>1, <1>3 DEF Sought, directory
<1>6. Sought(noted) \subseteq Int
  BY <1>0, <1>3, SoughtKept
<1>7. Reached'
  <2>1. \A x \in Sought(noted)' : x <= Before(start)' => x \in delivered'
    BY <1>1, <1>4, <1>5
  <2>2. \A x \in Sought(noted \/ noSignIn)' :
            (Before(start)' < x /\ x <= Before(cursor)') => x \in items'
    BY <1>3, <1>4, <1>5, <1>6
  <2> QED BY <1>1, <1>4, <2>1, <2>2 DEF Reached
<1>8. OneRequest' /\ NothingMissed'
  BY <1>0, <1>1 DEF OneRequest, NothingMissed, directory, First
<1> QED BY <1>2, <1>7, <1>8 DEF WalkInv

LEMMA AgentKeepsWalk ==
    ASSUME WalkInv, Retry \/ Resume \/ Enlarge PROVE WalkInv'
<1>0. ScanTypeOK /\ Reached /\ OneRequest /\ limit \in Nat \ {0}
  BY DEF WalkInv, ScanTypeOK
<1>1. Valid(start) /\ (tool = "access" => start = First)
  BY <1>0 DEF Reached, OneRequest
<1>2. CASE Retry
  <2>1. Fixed /\ Begin(start, limit) /\ UNCHANGED <<result, delivered, noted>>
    BY <1>2 DEF Retry, Fixed, Begin
  <2>2. \A x \in Sought(noted) : x <= Before(start) => x \in delivered
    BY <1>0, <1>2 DEF Reached, Retry
  <2> QED BY <1>0, <1>1, <2>1, <2>2, Begun
<1>3. CASE Resume
  <2>1. Fixed /\ Begin(next, limit) /\ UNCHANGED <<result, delivered, noted>>
    BY <1>3 DEF Resume, Fixed, Begin
  <2>2. /\ Valid(next)
        /\ \A x \in Sought(noted) : x <= Before(next) => x \in delivered
    BY <1>0, <1>3 DEF Reached, Resume
  <2>3. tool # "access"
    BY <1>0, <1>3 DEF OneRequest, Resume
  <2> QED BY <1>0, <2>1, <2>2, <2>3, Begun
<1>4. CASE Enlarge
  <2>1. PICK l \in (limit + 1)..Largest : Begin(start, l)
    BY <1>4 DEF Enlarge
  <2>2. l \in Nat \ {0}
    <3>1. Largest \in Int
      BY Parameters, Clamps DEF Largest
    <3> QED BY <3>1, <2>1, <1>0
  <2>3. Fixed /\ UNCHANGED <<result, delivered, noted>>
    BY <1>0, <1>4 DEF Enlarge, Fixed, OneRequest
  <2>4. \A x \in Sought(noted) : x <= Before(start) => x \in delivered
    BY <1>0, <1>4 DEF Reached, Enlarge
  <2> QED BY <1>1, <2>1, <2>2, <2>3, <2>4, Begun
<1> QED BY <1>2, <1>3, <1>4

LEMMA EndKeepsWalk ==
    ASSUME WalkInv, Fails \/ Stop \/ UNCHANGED vars PROVE WalkInv'
<1>0. ScanTypeOK /\ Reached /\ OneRequest /\ NothingMissed
  BY DEF WalkInv
<1>1. UNCHANGED <<directory, call, result, delivered, noted>>
  BY DEF Fails, Stop, vars
<1>2. Fixed /\ start' = start /\ cursor' = cursor /\ noted' = noted /\ delivered' = delivered
      /\ noSignIn' = noSignIn /\ items' = items /\ truncated' = truncated /\ next' = next
      /\ pages' = pages /\ scanned' = scanned /\ limit' = limit /\ clip' = clip
  BY <1>1 DEF call, result, Fixed
<1>3. pc' \in {"failed", "stuck", "done", pc}
  BY DEF Fails, Stop, vars
<1>4. ScanTypeOK'
  BY <1>0, <1>1, <1>2, <1>3 DEF ScanTypeOK, directory, Rows, Count, Places
<1>5. /\ Before(start)' = Before(start) /\ Before(cursor)' = Before(cursor)
      /\ Before(next)' = Before(next) /\ (Valid(start)' <=> Valid(start))
      /\ (Valid(cursor)' <=> Valid(cursor)) /\ (Valid(next)' <=> Valid(next))
  <2>1. \A k : Before(k)' = Before(k) /\ (Valid(k)' <=> Valid(k))
    BY <1>2, CursorsKept
  <2> QED BY <2>1, <1>2
<1>6. Sought(noted)' = Sought(noted) /\ Sought(noted \/ noSignIn)' = Sought(noted \/ noSignIn)
  BY <1>1, <1>2 DEF Sought, directory
<1>7. pc' = pc \/ (pc' \in {"failed", "stuck", "done"} /\ pc # "done")
  BY DEF Fails, Stop, vars
<1>8. Reached'
  <2>1. CASE pc' = pc
    BY <1>0, <1>2, <1>5, <1>6, <2>1 DEF Reached
  <2>2. CASE pc' \in {"failed", "stuck", "done"} /\ pc # "done"
    BY <1>0, <1>2, <1>5, <1>6, <2>2 DEF Reached
  <2> QED BY <1>7, <2>1, <2>2
<1>9. OneRequest'
  BY <1>0, <1>1, <1>2, <1>7 DEF OneRequest, directory, First
\* The walk ends with a result that leads nowhere and is not truncated
<1>10. NothingMissed'
  <2>0. Tells' => Tells
    BY <1>2 DEF Fixed, directory, Tells, Asked, Wide, Counted, Reported
  <2> SUFFICES ASSUME pc' = "done", Tells
               PROVE  (IF noted THEN disabled ELSE stale) \subseteq delivered
    BY <2>0, <1>1, <1>2 DEF NothingMissed, directory
  <2>1. CASE pc = "done"
    BY <2>1, <1>0 DEF NothingMissed
  <2>2. CASE pc # "done"
    <3>1. pc = "got" /\ next = NoCursor /\ ~truncated
      BY <2>2, <1>7 DEF Fails, Stop, vars
    <3>2. \A x \in Sought(noted) : x <= Count => x \in delivered
      BY <3>1, <1>0, AtEnd DEF Reached
    <3>3. Sought(noted) \subseteq Rows /\ Count \in Nat
      BY <1>0, SoughtKept, Pages DEF ScanTypeOK
    <3> QED BY <3>2, <3>3 DEF Rows, Sought
  <2> QED BY <2>1, <2>2
<1> QED BY <1>4, <1>8, <1>9, <1>10 DEF WalkInv
-----------------------------------------------------------------------------
(* The bounds of a call *)

LEMMA PageKeepsBounds ==
    ASSUME WalkInv, Bounded, ScanPage PROVE Bounded'
<1>0. ScanTypeOK /\ Reached /\ pc = "run" /\ tool = "scan" /\ Going
  BY DEF WalkInv, ScanPage
<1>1. /\ Moves(cursor, Read)
      /\ pages' = pages + 1 /\ scanned' = scanned + Seen
      /\ UNCHANGED <<directory, limit, start>>
      /\ \/ Cut /\ Return(Sent, TRUE, TRUE)
         \/ /\ ~Cut
            /\ \/ Return(NoCursor, TRUE, FALSE)
               \/ provider = "sailpoint" /\ Continue("sample")
               \/ Return(Read.next, Read.next # NoCursor, FALSE)
               \/ ~ReadUp(Read) /\ Continue("run")
  BY <1>0, PageRead
<1>2. /\ scanned \in Nat /\ pages \in Nat /\ sample \in Nat /\ Read.n \in Nat
      /\ ScanCap \in Nat /\ MaxPages \in Nat
  BY <1>0, <1>1, Parameters DEF ScanTypeOK, Moves
<1>3. /\ Capped => scanned < ScanCap
      /\ IF provider = "c1" THEN pages <= scanned ELSE pages < MaxPages
      /\ provider = "c1" => Capped
  BY <1>0 DEF Bounded, Going, GoingOn, Capped
<1>4. /\ scanned' \in Nat /\ (Capped => scanned' <= ScanCap)
      /\ ~Cut => scanned' = scanned + Read.n
  BY <1>1, <1>2, <1>3 DEF Seen, Cut
<1>5. IF provider = "c1" THEN pages' <= ScanCap ELSE pages' <= MaxPages
  BY <1>1, <1>2, <1>3
<1>6. provider' = provider /\ tool' = tool /\ sample' = sample /\ (Capped' <=> Capped)
  BY <1>1 DEF directory, Capped
<1>7. CallIsBounded'
  BY <1>1, <1>2, <1>4, <1>5, <1>6 DEF CallIsBounded
<1>8. CASE pc' = "got"
  BY <1>7, <1>8 DEF Bounded
<1>9. CASE pc' = "sample" /\ provider = "sailpoint"
  BY <1>4, <1>5, <1>6, <1>7, <1>9 DEF Bounded
<1>10. CASE ~Cut /\ ~ReadUp(Read) /\ pc' = "run"
  <2>1. Read.n > 0
    BY <1>2, <1>10 DEF ReadUp
  <2>2. provider = "c1" => pages' <= scanned'
    BY <2>1, <1>1, <1>2, <1>3, <1>4, <1>10
  <2> QED BY <2>2, <1>4, <1>5, <1>6, <1>7, <1>10 DEF Bounded
<1> QED BY <1>1, <1>8, <1>9, <1>10 DEF Return, Continue

LEMMA StepKeepsBounds ==
    ASSUME WalkInv, Bounded, [Next]_vars PROVE Bounded'
<1>0. ScanTypeOK /\ OneRequest
  BY DEF WalkInv
<1>1. UNCHANGED directory
  BY DEF Next, Tool, Agent, Over, ScanPage, ScanEnds, Sample, ListPage, Members, Access, Fails,
         Retry, Resume, Enlarge, Stop, vars
<1>2. provider' = provider /\ tool' = tool /\ sample' = sample /\ (Capped' <=> Capped)
  BY <1>1 DEF directory, Capped
<1>3. CASE tool # "scan"
  BY <1>2, <1>3 DEF Bounded
<1>4. CASE ScanPage
  BY <1>4, PageKeepsBounds
<1>5. CASE tool = "scan" /\ ScanEnds
  <2>1. pages' = pages /\ scanned' = scanned /\ pc = "run"
    BY <1>5 DEF ScanEnds, call
  <2>2. pc' = "got" \/ (pc' = "sample" /\ provider = "sailpoint")
    BY <1>5 DEF ScanEnds, Return, Continue
  <2> QED BY <1>2, <1>5, <2>1, <2>2 DEF Bounded, CallIsBounded
<1>6. CASE tool = "scan" /\ Sample
  <2>1. pages' = pages + 1 /\ scanned' = scanned + sample /\ pc' = "got"
    BY <1>6 DEF Sample, Return
  <2>2. /\ pages <= MaxPages /\ (Capped => scanned <= ScanCap) /\ provider = "sailpoint"
    BY <1>6 DEF Sample, Bounded
  <2>3. /\ scanned \in Nat /\ pages \in Nat /\ sample \in Nat /\ ScanCap \in Nat
        /\ MaxPages \in Nat
    BY <1>0, Parameters DEF ScanTypeOK
  <2> QED BY <1>2, <2>1, <2>2, <2>3 DEF Bounded, CallIsBounded
<1>7. CASE tool = "scan" /\ (Retry \/ Resume \/ Enlarge)
  <2>1. pages' = 0 /\ scanned' = 0 /\ pc' = "run"
    BY <1>7 DEF Retry, Resume, Enlarge, Begin
  <2>2. sample \in Nat /\ ScanCap \in Nat /\ MaxPages \in Nat
    BY <1>0, Parameters DEF ScanTypeOK
  <2> QED BY <1>2, <2>1, <2>2 DEF Bounded, CallIsBounded
<1>8. CASE tool = "scan" /\ (Fails \/ Stop \/ UNCHANGED vars)
  <2>1. pages' = pages /\ scanned' = scanned
    BY <1>8 DEF Fails, Stop, vars, call
  <2>2. pc' = pc \/ pc' \in {"failed", "done", "stuck"}
    BY <1>8 DEF Fails, Stop, vars
  <2> QED BY <1>2, <2>1, <2>2 DEF Bounded, CallIsBounded
<1> QED BY <1>3, <1>4, <1>5, <1>6, <1>7, <1>8
        DEF Next, Tool, Agent, Over, ListPage, Members, Access
-----------------------------------------------------------------------------
LEMMA StepKeepsWalk ==
    ASSUME WalkInv, [Next]_vars PROVE WalkInv'
BY EndsKeepsWalk, SampleKeepsWalk, PageKeepsWalk, ListKeepsWalk, MembersKeepsWalk,
   AccessKeepsWalk, AgentKeepsWalk, EndKeepsWalk DEF Next, Tool, Agent, Over

\* What a walk has delivered, and its call collected, reaches up to where the walk stands
\* (find_stale_*, list_* and get_*_access of every provider).
THEOREM ScansInv == Spec => [](WalkInv /\ Bounded)
<1>1. Init => WalkInv /\ Bounded
  BY WalkInit
<1>2. WalkInv /\ Bounded /\ [Next]_vars => (WalkInv /\ Bounded)'
  BY StepKeepsWalk, StepKeepsBounds
<1> QED BY <1>1, <1>2, PTL DEF Spec

\* A walk that ends without a truncated result has delivered every row that it was to find,
\* for every directory, page size, limit and cap, wherever limits, page counts, budgets,
\* empty pages and failed requests have cut its calls; provided that the number of pages is
\* reported or that a full page is as long as the tool expects (Tells).
THEOREM ScansNothingMissed == Spec => []NothingMissed
<1>1. WalkInv /\ Bounded => NothingMissed
  BY DEF WalkInv
<1> QED BY <1>1, ScansInv, PTL

\* A scan makes at most MaxPages requests and one for a sample, and one of c1, which has no
\* limit of pages, at most as many as its budget has rows, even when a provider names a page
\* as its own successor.
THEOREM ScansCallIsBounded == Spec => []CallIsBounded
<1>1. WalkInv /\ Bounded => CallIsBounded
  BY DEF Bounded, CallIsBounded
<1> QED BY <1>1, ScansInv, PTL
-----------------------------------------------------------------------------
(* No row is handed out twice                                              *)
(*                                                                         *)
(* The pages of a scan that begins at cursor s are numbered from 0, and so *)
(* are the places between them.  Pos counts the rows in front of a page;   *)
(* behind the last page that is all of them.  A page of SailPoint that is  *)
(* wider than was asked for is the last but for an empty one.              *)

Cur(s, k) == IF provider = "sailpoint" THEN s + k * PageSize ELSE s + k
Real(c) == provider \in {"lumos", "sailpoint"} \/ c < Len(ends)
Overfull == provider = "sailpoint" /\ width > PageSize
Pos(s, k) == IF Real(Cur(s, k)) /\ (k = 0 \/ ~Overfull) THEN Before(Cur(s, k)) ELSE Count
Within(s, k) == {x \in stale : Pos(s, 0) < x /\ x <= Pos(s, k)}

\* A scan from s with limit l does not return a cursor for page k, but reads it and goes on
Passes(s, l, k) ==
    LET a == Page(Cur(s, k), PageSize)
        used == Pos(s, k) - Pos(s, 0)
    IN  /\ Cardinality(Within(s, k)) < l
        /\ Capped => used < ScanCap /\ (k # 0 => a.n <= ScanCap - used)
        /\ IF provider = "c1" THEN Cur(s, k) # First => ScanCap - used >= PageSize
                              ELSE k < MaxPages
        /\ a.n > 0 \/ a.next = NoCursor

Upto(D, b) == \A x \in D \cap Rows : x <= b

\* A scan from s with limit l returns no cursor that has a row of D behind it
Again(D, s, l) == \A x \in D \cap Rows : \A k \in Nat : Pos(s, k) < x => Passes(s, l, k)

\* Cursors lead on, a call collects rows that lie behind its start, and only scans and lists
\* are resumed, a list never within a page.
Fresh ==
    ~loops =>
        /\ Real(start)
        /\ tool # "scan" => ~clip
        /\ tool = "list" => how # "repeat"
        /\ how = "resume" => tool \in {"scan", "list"}
        /\ (pc = "got" /\ next # NoCursor) => Real(next) /\ tool \in {"scan", "list"}
        /\ (tool = "scan" /\ pc \in {"run", "sample"}) =>
               \/ cursor = Cur(start, pages) /\ Real(cursor) /\ Before(cursor) = Pos(start, pages)
               \/ cursor = NoCursor /\ pc = "sample"
        /\ (tool \in {"scan", "list"} /\ pc \in {"run", "sample", "got"}) =>
               \A x \in items \cap Rows : Before(start) < x

\* What is delivered lies in front of where a walk goes on.  A call that is made again, with
\* a larger limit or for a page that it was cut off in, passes all that was delivered before
\* it returns a cursor: it stops for the same reasons as the call before, only later.
Onward ==
    (~loops /\ ~noted /\ tool \in {"scan", "list"}) =>
        /\ (pc \in {"run", "sample", "failed"} /\ how # "repeat") =>
               Upto(delivered, Before(start))
        /\ (tool = "scan" /\ pc \in {"run", "sample", "failed"}) => Again(delivered, start, limit)
        /\ (tool = "scan" /\ pc \in {"run", "sample"} /\ ~noSignIn) =>
               /\ \A k \in 0..(pages - 1) : Passes(start, limit, k)
               /\ pc = "run" => /\ items = Within(start, pages)
                                /\ scanned = Pos(start, pages) - Pos(start, 0)
               /\ pc = "sample" =>
                      /\ Upto(items, Pos(start, pages))
                      /\ cursor # NoCursor => Upto(items \cup delivered, Before(cursor))
        /\ pc = "got" =>
               /\ (next # NoCursor /\ ~clip) => Upto(delivered, Before(next))
               /\ (next # NoCursor /\ clip) => Again(delivered, next, limit)
               /\ (tool = "scan" /\ next = NoCursor /\ truncated) =>
                      Again(delivered, start, limit)

\* The page behind a cursor begins where the page in front of it ends.
LEMMA NextPlace ==
    ASSUME ScanTypeOK, ~loops, NEW c, Valid(c), Real(c), Page(c, Asked).next # NoCursor
    PROVE  LET a == Page(c, Asked)
           IN  /\ Real(a.next) /\ Valid(a.next)
               /\ Before(a.next) = a.lo + a.n
               /\ a.next = IF provider = "sailpoint" THEN c + Asked ELSE c + 1
<1> DEFINE a == Page(c, Asked)
<1>0. c \in Nat /\ Count \in Nat /\ Asked \in Nat \ {0} /\ Len(ends) \in Nat \ {0}
  BY Pages, Sizes DEF Valid
<1>1. Moves(c, a) /\ Valid(a.next)
  BY PageMoves DEF Moves
<1>2. CASE provider \notin {"lumos", "sailpoint"}
  <2>1. c < Len(ends) /\ a = OpaquePage(c)
    BY <1>2 DEF Real, Page
  <2>2. c + 1 < Len(ends) /\ a.next = c + 1
    BY <2>1, <1>0 DEF OpaquePage, NoCursor
  <2>3. Least(c, Len(ends) - 1) = c /\ Least(c + 1, Len(ends) - 1) = c + 1
    BY <2>2, <1>0 DEF Least
  <2> DEFINE lo == IF c = 0 THEN 0 ELSE ends[c]
  <2>4. a.lo = lo /\ a.n = ends[c + 1] - lo
    BY <2>1, <2>3 DEF OpaquePage
  <2>5. Before(a.next) = ends[c + 1]
    <3>1. a.next # NoCursor /\ c + 1 # 0
      BY <1>0, <2>2 DEF NoCursor
    <3>2. Page(c + 1, Asked).lo = ends[c + 1]
      BY <1>2, <2>3, <3>1 DEF Page, OpaquePage
    <3> QED BY <2>2, <3>1, <3>2 DEF Before
  <2>6. ends[c + 1] \in Nat /\ a.lo \in Nat
    <3>1. c + 1 \in 1..Len(ends)
      BY <1>0, <2>2
    <3> QED BY <3>1, <1>1, Pages DEF Moves
  <2>7. a.lo + a.n = ends[c + 1]
    BY <2>4, <2>6
  <2> QED BY <1>1, <1>2, <2>2, <2>5, <2>7 DEF Real
<1>3. CASE provider = "sailpoint"
  <2> DEFINE lo == Least(Count, c)
             n == Least(Wide(Asked), Count - lo)
  <2>1. a.lo = lo /\ a.n = n /\ a.next = IF n = Asked THEN c + n ELSE NoCursor
    BY <1>3 DEF Page, OffsetPage, NextOffset
  <2>2. n = Asked /\ a.next = c + Asked
    BY <2>1
  <2>3. Before(a.next) = Least(Count, a.next)
    BY <1>3 DEF Before, Page, OffsetPage
  <2>4. Wide(Asked) \in Nat
    BY <1>0 DEF Wide, ScanTypeOK
  <2>5. lo = c /\ c + n <= Count
    BY <2>2, <2>4, <1>0 DEF Least
  <2>6. Before(a.next) = a.lo + a.n
    <3> HIDE DEF lo, n
    <3>1. a.lo = c /\ a.n = n /\ n = Asked /\ a.next = c + n
      BY <2>1, <2>2, <2>5
    <3>2. Least(Count, c + n) = c + n
      BY <3>1, <2>5, <1>0 DEF Least
    <3> QED BY <3>1, <3>2, <2>3
  <2> QED BY <1>1, <1>3, <2>2, <2>6 DEF Real
<1>4. CASE provider = "lumos"
  <2>1. /\ c > 0 /\ a.lo = At(c) /\ a.n = At(c + 1) - At(c)
        /\ a.next = NextPageCursor(c, Total, a.n, Counted(Asked))
    BY <1>0, <1>4, NumberedAt DEF Valid
  <2>2. a.next = c + 1
    BY <2>1, <1>0 DEF NextPageCursor, NextPage, NoCursor
  <2>3. Before(c + 1) = At(c + 1) /\ At(c + 1) \in Nat /\ At(c) \in Nat
    <3>1. c + 1 \in Nat /\ c + 1 > 0 /\ c + 1 # NoCursor
      BY <1>0 DEF NoCursor
    <3> QED BY <3>1, <2>1, <1>0, <1>4, NumberedAt DEF Before
  <2> QED BY <1>1, <1>4, <2>1, <2>2, <2>3 DEF Real
<1> QED BY <1>2, <1>3, <1>4

\* Places follow each other as their numbers do.
LEMMA PlacesAscend ==
    ASSUME ScanTypeOK, ~loops, tool = "scan", NEW s, Valid(s), Real(s)
    PROVE  /\ Cur(s, 0) = s /\ Pos(s, 0) = Before(s)
           /\ \A k \in Nat : /\ Valid(Cur(s, k)) /\ Pos(s, k) \in Nat
                             /\ Pos(s, k) = Before(Cur(s, k)) \/ Pos(s, k) = Count
                             /\ Cur(s, k + 1) = IF provider = "sailpoint" THEN Cur(s, k) + PageSize
                                                                          ELSE Cur(s, k) + 1
           /\ \A i, j \in Nat : i <= j => Pos(s, i) <= Pos(s, j)
<1>0. /\ s \in Nat /\ (provider = "lumos" => s > 0) /\ Count \in Nat /\ Asked = PageSize
      /\ PageSize \in Nat \ {0} /\ Len(ends) \in Nat \ {0}
  BY Pages, Parameters DEF Valid, Asked
<1>1. \A k \in Nat : k * PageSize \in Nat /\ (k + 1) * PageSize = k * PageSize + PageSize
  <2>1. \A k \in Nat : 0 * PageSize <= k * PageSize /\ 0 * PageSize = 0 /\ k * PageSize \in Int
                       /\ (k + 1) * PageSize = k * PageSize + PageSize
    BY <1>0, Multiples
  <2> QED BY <2>1
<1>2. Cur(s, 0) = s
  <2>1. 0 * PageSize = 0
    BY <1>0
  <2> QED BY <2>1, <1>0 DEF Cur
<1>3. Pos(s, 0) = Before(s)
  BY <1>2 DEF Pos
<1>4. \A k \in Nat : /\ Cur(s, k) \in Nat /\ Valid(Cur(s, k)) /\ Cur(s, k) # NoCursor
                     /\ Cur(s, k + 1) = IF provider = "sailpoint" THEN Cur(s, k) + PageSize
                                                                  ELSE Cur(s, k) + 1
  BY <1>0, <1>1 DEF Cur, Valid, NoCursor
<1>5. \A k \in Nat : Pos(s, k) \in Nat /\ (Pos(s, k) = Before(Cur(s, k)) \/ Pos(s, k) = Count)
  <2> SUFFICES ASSUME NEW k \in Nat
               PROVE  Pos(s, k) \in Nat /\ (Pos(s, k) = Before(Cur(s, k)) \/ Pos(s, k) = Count)
    OBVIOUS
  <2>1. Before(Cur(s, k)) \in Nat
    BY <1>4, Ahead
  <2> QED BY <2>1, <1>0 DEF Pos
<1>6. ASSUME NEW i \in Nat, NEW j \in Nat, i <= j PROVE Pos(s, i) <= Pos(s, j)
  <2>1. CASE provider = "sailpoint"
    <3> DEFINE q(k) == k * PageSize
               p(k) == Least(Count, s + q(k))
    <3>1. \A k \in Nat : Before(Cur(s, k)) = p(k)
      <4>1. \A k \in Nat : Cur(s, k) = s + q(k)
        BY <2>1 DEF Cur
      <4>2. \A k \in Nat : Before(Cur(s, k)) = Least(Count, Cur(s, k))
        BY <2>1, <1>4 DEF Before, Page, OffsetPage
      <4> QED BY <4>1, <4>2
    <3>2. q(i) <= q(j) /\ q(i) \in Nat /\ q(j) \in Nat
      BY <1>0, <1>1, <1>6, Multiples
    <3> HIDE DEF q
    <3>3. p(i) <= p(j) /\ p(i) <= Count /\ p(j) <= Count
      BY <3>2, <1>0 DEF Least
    <3>4. /\ Pos(s, i) = IF i = 0 \/ ~Overfull THEN p(i) ELSE Count
          /\ Pos(s, j) = IF j = 0 \/ ~Overfull THEN p(j) ELSE Count
      BY <3>1, <2>1 DEF Pos, Real
    <3>5. j = 0 => i = 0
      BY <1>6
    <3> QED BY <3>3, <3>4, <3>5, <1>0
  <2>2. CASE provider = "lumos"
    <3>1. \A k \in Nat : Pos(s, k) = Least(Count, ((s + k) - 1) * W)
      <4> SUFFICES ASSUME NEW k \in Nat PROVE Pos(s, k) = Least(Count, ((s + k) - 1) * W)
        OBVIOUS
      <4>1. Pos(s, k) = Before(s + k) /\ s + k # NoCursor /\ s + k \in Nat /\ s + k > 0
        BY <2>2, <1>0, <1>4 DEF Pos, Real, Cur, Overfull
      <4>2. Page(s + k, Asked).lo = At(s + k)
        BY <4>1, <2>2, NumberedAt
      <4> QED BY <4>1, <4>2 DEF Before, At
    <3>2. W \in Nat
      BY WidthOfPages
    <3> DEFINE q(k) == ((s + k) - 1) * W
    <3>3. q(i) <= q(j) /\ q(i) \in Int /\ q(j) \in Int
      <4>1. /\ (s + i) - 1 \in Int /\ (s + j) - 1 \in Int /\ (s + i) - 1 <= (s + j) - 1
            /\ W \in Int /\ W >= 0
        BY <1>0, <1>6, <3>2
      <4> QED BY <4>1, Multiples
    <3>4. Pos(s, i) = Least(Count, q(i)) /\ Pos(s, j) = Least(Count, q(j))
      BY <3>1
    <3> HIDE DEF q
    <3> QED BY <3>3, <3>4, <1>0 DEF Least
  <2>3. CASE provider \notin {"lumos", "sailpoint"}
    <3> DEFINE p(c) == IF c < Len(ends) THEN IF c = 0 THEN 0 ELSE ends[c] ELSE Count
    <3>1. \A k \in Nat : Pos(s, k) = p(s + k)
      <4> SUFFICES ASSUME NEW k \in Nat PROVE Pos(s, k) = p(s + k)
        OBVIOUS
      <4>1. Cur(s, k) = s + k /\ s + k \in Nat /\ s + k # NoCursor
        BY <2>3, <1>4 DEF Cur
      <4>2. CASE s + k < Len(ends)
        <5>1. Least(s + k, Len(ends) - 1) = s + k
          BY <4>1, <4>2, <1>0 DEF Least
        <5>2. Pos(s, k) = Page(s + k, Asked).lo
          BY <2>3, <4>1, <4>2 DEF Pos, Real, Before, Overfull
        <5> QED BY <5>1, <5>2, <4>2, <2>3 DEF Page, OpaquePage
      <4>3. CASE ~(s + k < Len(ends))
        BY <4>1, <4>3, <2>3 DEF Pos, Real
      <4> QED BY <4>2, <4>3
    <3>2. \A c, d \in Nat : c <= d => p(c) <= p(d)
      <4> SUFFICES ASSUME NEW c \in Nat, NEW d \in Nat, c <= d PROVE p(c) <= p(d)
        OBVIOUS
      <4>1. \A x \in 1..Len(ends) : ends[x] \in Nat /\ ends[x] <= Count
        <5>1. Len(ends) \in 1..Len(ends) /\ Count = ends[Len(ends)]
          BY <1>0, Pages
        <5>2. \A x \in 1..Len(ends) : x <= Len(ends)
          BY <1>0
        <5> QED BY <5>1, <5>2, Pages
      <4>2. \A x \in Nat : (x < Len(ends) /\ x # 0) => x \in 1..Len(ends)
        BY <1>0
      <4>3. CASE d < Len(ends) /\ c # 0
        <5>1. c \in 1..Len(ends) /\ d \in 1..Len(ends) /\ c < Len(ends) /\ d # 0
          BY <4>3, <1>0
        <5>2. ends[c] <= ends[d]
          BY <5>1, Pages
        <5> QED BY <5>1, <5>2, <4>3
      <4>4. CASE c = 0
        <5>1. p(c) = 0
          BY <4>4, <1>0
        <5>2. p(d) \in Nat
          BY <4>1, <4>2, <1>0
        <5> QED BY <5>1, <5>2
      <4>5. CASE ~(d < Len(ends)) /\ c # 0
        <5>1. p(d) = Count
          BY <4>5
        <5>2. p(c) <= Count
          BY <4>1, <4>2, <4>5, <1>0
        <5> QED BY <5>1, <5>2
      <4> QED BY <4>3, <4>4, <4>5
    <3> HIDE DEF p
    <3>3. s + i \in Nat /\ s + j \in Nat /\ s + i <= s + j
      BY <1>0, <1>6
    <3> QED BY <3>1, <3>2, <3>3
  <2> QED BY <2>1, <2>2, <2>3
<1> QED BY <1>2, <1>3, <1>4, <1>5, <1>6

\* The rows of page k lie between its place and the next, which is where its successor begins.
LEMMA PageBetween ==
    ASSUME ScanTypeOK, ~loops, tool = "scan", NEW s, Valid(s), Real(s),
           NEW k \in Nat, Real(Cur(s, k)), Before(Cur(s, k)) = Pos(s, k)
    PROVE  LET a == Page(Cur(s, k), PageSize)
           IN  /\ a.lo \in Nat /\ a.n \in Nat /\ a.lo = Pos(s, k)
               /\ a.lo + a.n <= Pos(s, k + 1)
               /\ a.next # NoCursor => /\ a.next = Cur(s, k + 1) /\ Real(a.next) /\ Valid(a.next)
                                       /\ Before(a.next) = a.lo + a.n
                                       /\ Pos(s, k + 1) = a.lo + a.n
<1> DEFINE c == Cur(s, k)
           a == Page(c, PageSize)
<1>0. /\ Asked = PageSize /\ Valid(c) /\ Pos(s, k) = Before(c) /\ c \in Nat /\ k + 1 # 0
      /\ Cur(s, k + 1) = IF provider = "sailpoint" THEN c + PageSize ELSE c + 1
      /\ PageSize \in Nat \ {0} /\ Count \in Nat /\ Len(ends) \in Nat \ {0}
  BY PlacesAscend, Parameters, Pages DEF Asked, Valid
<1> HIDE DEF c
<1>1. Moves(c, a)
  BY <1>0, PageMoves
<1>2. a.lo \in Nat /\ a.n \in Nat /\ a.lo = Pos(s, k)
  BY <1>0, <1>1 DEF Moves
<1>3. a.next # NoCursor => /\ a.next = Cur(s, k + 1) /\ Real(a.next) /\ Valid(a.next)
                           /\ Before(a.next) = a.lo + a.n
  <2>1. Real(c)
    BY DEF c
  <2> QED BY <2>1, <1>0, NextPlace
<1>4. a.next # NoCursor => Pos(s, k + 1) = a.lo + a.n
  <2>1. CASE ~Overfull
    BY <2>1, <1>3 DEF Pos
  <2>2. CASE Overfull /\ a.next # NoCursor
    <3> DEFINE lo == Least(Count, c)
               n == Least(Wide(PageSize), Count - lo)
    <3>1. a.lo = lo /\ a.n = n /\ n = PageSize
      BY <2>2 DEF Overfull, Page, OffsetPage, NextOffset
    <3>2. Wide(PageSize) > PageSize /\ Wide(PageSize) \in Nat
      BY <2>2, <1>0 DEF Overfull, Wide, ScanTypeOK
    <3>3. a.lo + a.n = Count
      BY <3>1, <3>2, <1>0 DEF Least
    <3>4. Pos(s, k + 1) = Count
      BY <2>2, <1>0 DEF Pos
    <3> QED BY <3>3, <3>4
  <2> QED BY <2>1, <2>2
<1>5. a.lo + a.n <= Pos(s, k + 1)
  <2>1. CASE a.next # NoCursor
    BY <2>1, <1>2, <1>4
  <2>2. CASE a.next = NoCursor
    <3>1. CASE provider \notin {"lumos", "sailpoint"}
      <4>1. c < Len(ends) /\ a = OpaquePage(c)
        BY <3>1 DEF Real, Page, c
      <4>2. c + 1 = Len(ends)
        BY <4>1, <1>0, <2>2 DEF OpaquePage, NoCursor
      <4>3. Pos(s, k + 1) = Count
        BY <4>2, <3>1, <1>0 DEF Pos, Real
      <4>4. Least(c, Len(ends) - 1) = c
        BY <4>2, <1>0 DEF Least
      <4>5. a.n = ends[c + 1] - a.lo
        BY <4>1, <4>4 DEF OpaquePage
      <4>6. a.n = Count - a.lo
        BY <4>2, <4>5, Pages
      <4> QED BY <4>3, <4>6, <1>0, <1>2
    <3>2. CASE provider = "sailpoint"
      <4> DEFINE lo == Least(Count, c)
                 n == Least(Wide(PageSize), Count - lo)
      <4>1. a.lo = lo /\ a.n = n /\ lo \in Nat /\ Wide(PageSize) \in Nat
        BY <3>2, <1>0 DEF Page, OffsetPage, Least, Wide, ScanTypeOK
      <4>2. lo + n <= Count /\ (Wide(PageSize) <= PageSize => lo + n <= c + PageSize)
        BY <4>1, <1>0 DEF Least
      <4>3. CASE Overfull
        BY <4>1, <4>2, <4>3, <1>0 DEF Pos
      <4>4. CASE ~Overfull
        <5>1. Wide(PageSize) <= PageSize
          BY <4>4, <3>2, <1>0 DEF Overfull, Wide, ScanTypeOK
        <5>2. Pos(s, k + 1) = Least(Count, c + PageSize)
          <6>1. c + PageSize # NoCursor
            BY <1>0 DEF NoCursor
          <6> QED BY <6>1, <4>4, <3>2, <1>0 DEF Pos, Real, Before, Page, OffsetPage
        <5>3. n \in Int
          BY <4>1, <1>2
        <5> HIDE DEF lo, n
        <5>4. lo + n <= Least(Count, c + PageSize)
          BY <5>1, <5>3, <4>1, <4>2, <1>0 DEF Least
        <5> QED BY <5>2, <5>4, <4>1
      <4> QED BY <4>3, <4>4
    <3>3. CASE provider = "lumos"
      <4>1. c > 0 /\ c + 1 \in Nat /\ c + 1 > 0 /\ c + 1 # NoCursor
        BY <3>3, <1>0 DEF Valid, NoCursor
      <4>2. a.lo = At(c) /\ a.n = At(c + 1) - At(c)
        BY <4>1, <3>3, <1>0, NumberedAt
      <4>3. Before(c + 1) = At(c + 1) /\ At(c + 1) \in Nat /\ At(c) \in Nat
        BY <4>1, <3>3, <1>0, NumberedAt DEF Before
      <4>4. Pos(s, k + 1) = Before(c + 1)
        BY <3>3, <1>0 DEF Pos, Real, Overfull
      <4> QED BY <4>2, <4>3, <4>4
    <3> QED BY <3>1, <3>2, <3>3
  <2> QED BY <2>1, <2>2
<1> QED BY <1>2, <1>3, <1>4, <1>5 DEF c
-----------------------------------------------------------------------------
(* What a scan passes *)

LEMMA PathKept ==
    ASSUME UNCHANGED directory, tool = "scan"
    PROVE  \A s, k, l : /\ (Real(s)' <=> Real(s)) /\ (Valid(s)' <=> Valid(s))
                        /\ Before(s)' = Before(s) /\ Cur(s, k)' = Cur(s, k)
                        /\ Pos(s, k)' = Pos(s, k) /\ Within(s, k)' = Within(s, k)
                        /\ (Passes(s, l, k)' <=> Passes(s, l, k))
<1> SUFFICES ASSUME NEW s, NEW k, NEW l
             PROVE  /\ (Real(s)' <=> Real(s)) /\ (Valid(s)' <=> Valid(s))
                    /\ Before(s)' = Before(s) /\ Cur(s, k)' = Cur(s, k)
                    /\ Pos(s, k)' = Pos(s, k) /\ Within(s, k)' = Within(s, k)
                    /\ (Passes(s, l, k)' <=> Passes(s, l, k))
  OBVIOUS
<1>1. Fixed
  BY DEF Fixed, directory
<1>2. provider' = provider /\ ends' = ends /\ Count' = Count /\ stale' = stale
      /\ loops' = loops /\ width' = width /\ known' = known /\ said' = said /\ tool' = tool
  BY DEF directory, Count
<1>3. \A c : Cur(s, c)' = Cur(s, c) /\ (Real(c)' <=> Real(c)) /\ Before(c)' = Before(c)
             /\ (Valid(c)' <=> Valid(c))
  BY <1>1, <1>2, CursorsKept DEF Cur, Real
<1>4. \A j : Pos(s, j)' = Pos(s, j)
  BY <1>2, <1>3 DEF Pos, Overfull
<1>5. Within(s, k)' = Within(s, k)
  BY <1>2, <1>4 DEF Within
<1>6. Page(Cur(s, k), PageSize)' = Page(Cur(s, k), PageSize)
  BY <1>2, <1>3 DEF Page, OpaquePage, NumberedPage, OffsetPage, Wide, Counted, Reported
<1>7. (Capped' <=> Capped) /\ First' = First
  BY <1>2 DEF Capped, First
<1>8. Passes(s, l, k)' <=> Passes(s, l, k)
  BY <1>2, <1>3, <1>4, <1>5, <1>6, <1>7 DEF Passes
<1> QED BY <1>3, <1>4, <1>5, <1>8

LEMMA AgainKept ==
    ASSUME UNCHANGED directory, tool = "scan"
    PROVE  \A D, s, l : Again(D, s, l)' <=> Again(D, s, l)
<1>1. Rows' = Rows
  BY DEF directory, Rows, Count
<1> QED BY <1>1, PathKept DEF Again

\* A larger limit lets a call pass as much, and more.
LEMMA AgainGrows ==
    ASSUME ScanTypeOK, NEW D, NEW s, NEW l \in Nat, NEW m \in Nat, l <= m, Again(D, s, l)
    PROVE  Again(D, s, m)
<1>1. ASSUME NEW k \in Nat, Passes(s, l, k) PROVE Passes(s, m, k)
  <2>1. Cardinality(Within(s, k)) \in Nat
    <3>1. IsFiniteSet(1..Count)
      BY Pages, FS_Interval
    <3>2. Within(s, k) \subseteq 1..Count
      BY DEF Within, ScanTypeOK, Rows
    <3> QED BY <3>1, <3>2, FS_Subset, FS_CardinalityType
  <2> QED BY <1>1, <2>1 DEF Passes
<1> QED BY <1>1 DEF Again

\* A call that has passed the pages in front of a place passes all rows in front of it.
LEMMA AgainBehind ==
    ASSUME ScanTypeOK, ~loops, tool = "scan", NEW s, Valid(s), Real(s), NEW l,
           NEW n \in Nat, \A k \in 0..(n - 1) : Passes(s, l, k),
           NEW D, Upto(D, Pos(s, n))
    PROVE  Again(D, s, l)
<1> SUFFICES ASSUME NEW x \in D \cap Rows, NEW k \in Nat, Pos(s, k) < x
             PROVE  Passes(s, l, k)
  BY DEF Again
<1>1. x <= Pos(s, n) /\ x \in Int
  BY Pages DEF Upto, Rows
<1>2. Pos(s, k) \in Nat /\ Pos(s, n) \in Nat /\ (n <= k => Pos(s, n) <= Pos(s, k))
  BY PlacesAscend
<1>3. k < n
  BY <1>1, <1>2
<1> QED BY <1>3

LEMMA AgainBoth ==
    ASSUME NEW D, NEW E, NEW s, NEW l, Again(D, s, l), Again(E, s, l)
    PROVE  Again(D \cup E, s, l)
BY DEF Again

LEMMA UptoBoth ==
    ASSUME NEW D, NEW E, NEW b, Upto(D, b), Upto(E, b)
    PROVE  Upto(D \cup E, b)
BY DEF Upto

\* A call stands before page number pages, and passes it unless it stops there.
LEMMA Standing ==
    ASSUME ScanTypeOK, Reached, Fresh, ~loops, tool = "scan", pc = "run"
    PROVE  /\ Valid(start) /\ Real(start) /\ pages \in Nat
           /\ cursor = Cur(start, pages) /\ Real(cursor) /\ Valid(cursor) /\ cursor # NoCursor
           /\ Read.lo \in Nat /\ Read.n \in Nat
           /\ Read.lo = Pos(start, pages) /\ Before(cursor) = Pos(start, pages)
           /\ Read.lo + Read.n <= Pos(start, pages + 1)
           /\ Read.next # NoCursor => /\ Read.next = Cur(start, pages + 1)
                                      /\ Real(Read.next) /\ Valid(Read.next)
                                      /\ Before(Read.next) = Read.lo + Read.n
                                      /\ Pos(start, pages + 1) = Read.lo + Read.n
           /\ Pos(start, 0) = Before(start) /\ Before(start) \in Nat /\ Before(start) <= Read.lo
<1>1. /\ Valid(start) /\ Real(start) /\ pages \in Nat
      /\ cursor = Cur(start, pages) /\ Real(cursor) /\ Before(cursor) = Pos(start, pages)
  BY DEF Reached, Fresh, ScanTypeOK
<1>2. Valid(cursor) /\ cursor # NoCursor
  <2>1. Valid(cursor)
    BY <1>1, PlacesAscend
  <2> QED BY <2>1 DEF Valid, NoCursor
<1>3. /\ Read.lo \in Nat /\ Read.n \in Nat /\ Read.lo = Pos(start, pages)
      /\ Read.lo + Read.n <= Pos(start, pages + 1)
      /\ Read.next # NoCursor => /\ Read.next = Cur(start, pages + 1)
                                 /\ Real(Read.next) /\ Valid(Read.next)
                                 /\ Before(Read.next) = Read.lo + Read.n
                                 /\ Pos(start, pages + 1) = Read.lo + Read.n
  BY <1>1, PageBetween DEF Read
<1>4. /\ Before(cursor) = Pos(start, pages) /\ Pos(start, 0) = Before(start)
      /\ Pos(start, 0) \in Nat /\ Pos(start, 0) <= Pos(start, pages)
  <2>1. 0 \in Nat /\ 0 <= pages
    BY <1>1
  <2> QED BY <1>1, <2>1, PlacesAscend
<1> QED BY <1>1, <1>2, <1>3, <1>4

LEMMA PassesHere ==
    ASSUME ScanTypeOK, Reached, Fresh, Onward, ~loops, ~noted, ~noSignIn,
           tool = "scan", pc = "run"
    PROVE  Passes(start, limit, pages) <=> /\ Going
                                           /\ pages # 0 => ~Cut
                                           /\ Read.n > 0 \/ Read.next = NoCursor
<1>1. /\ items = Within(start, pages) /\ scanned = Pos(start, pages) - Pos(start, 0)
  BY DEF Onward
<1>2. cursor = Cur(start, pages) /\ Read.n \in Nat /\ pages \in Nat
  BY Standing
<1>3. Read = Page(Cur(start, pages), PageSize)
  BY <1>2 DEF Read
<1>4. scanned \in Nat /\ ScanCap \in Nat
  BY Parameters DEF ScanTypeOK
<1>5. Cut <=> Capped /\ ~(Read.n <= ScanCap - scanned)
  BY <1>2, <1>4 DEF Cut
<1>6. Passes(start, limit, pages) <=>
          /\ Cardinality(items) < limit
          /\ Capped => scanned < ScanCap /\ (pages # 0 => Read.n <= ScanCap - scanned)
          /\ IF provider = "c1" THEN cursor # First => ScanCap - scanned >= PageSize
                                ELSE pages < MaxPages
          /\ Read.n > 0 \/ Read.next = NoCursor
  BY <1>1, <1>2, <1>3 DEF Passes
<1>7. Going <=> /\ Cardinality(items) < limit
                /\ Capped => scanned < ScanCap
                /\ IF provider = "c1" THEN cursor # First => ScanCap - scanned >= PageSize
                                      ELSE pages < MaxPages
  BY DEF Going, GoingOn
<1> QED BY <1>5, <1>6, <1>7
-----------------------------------------------------------------------------
(* How a call returns, goes on and begins *)

LEMMA Handed ==
    ASSUME ScanTypeOK, Fresh, Onward, UNCHANGED <<directory, limit, start>>, tool = "scan",
           noSignIn' \in BOOLEAN, NEW nx, NEW tr, NEW cl, Return(nx, tr, cl),
           ~loops => /\ nx # NoCursor => Real(nx)
                     /\ \A x \in items' \cap Rows : Before(start) < x,
           (~loops /\ ~noted /\ ~noSignIn') =>
               /\ (nx # NoCursor /\ ~cl) => Upto(delivered \cup items', Before(nx))
               /\ (nx # NoCursor /\ cl) => Again(delivered \cup items', nx, limit)
               /\ (nx = NoCursor /\ tr) => Again(delivered \cup items', start, limit)
    PROVE  Fresh' /\ Onward'
<1>1. /\ next' = nx /\ truncated' = tr /\ clip' = cl /\ delivered' = delivered \cup items'
      /\ noted' = (noted \/ noSignIn') /\ pc' = "got" /\ how' = how
  BY DEF Return
<1>2. /\ tool' = tool /\ loops' = loops /\ limit' = limit /\ start' = start /\ Rows' = Rows
  BY DEF directory, Rows, Count
<1>3. \A D, s, l : /\ (Real(s)' <=> Real(s)) /\ Before(s)' = Before(s)
                   /\ (Again(D, s, l)' <=> Again(D, s, l))
                   /\ (Upto(D, l)' <=> Upto(D, l))
  BY <1>2, PathKept, AgainKept DEF Upto
<1>4. PICK D, c, s, l : D = delivered' /\ c = next' /\ s = start' /\ l = limit'
  OBVIOUS
<1>5. /\ Real(start)' <=> Real(s)
      /\ Real(next)' <=> Real(c)
      /\ Before(start)' = Before(s) /\ Before(next)' = Before(c)
      /\ Again(delivered, next, limit)' <=> Again(D, c, l)
      /\ Again(delivered, start, limit)' <=> Again(D, s, l)
      /\ Upto(delivered, Before(next))' <=> Upto(D, Before(c))
  BY <1>2, <1>3, <1>4 DEF Upto
<1>6. Fresh'
  BY <1>1, <1>2, <1>4, <1>5 DEF Fresh
<1>7. Onward'
  BY <1>1, <1>2, <1>4, <1>5 DEF Onward
<1> QED BY <1>6, <1>7

LEMMA Carried ==
    ASSUME ScanTypeOK, Fresh, Onward, UNCHANGED <<directory, limit, start>>, tool = "scan",
           pc \in {"run", "sample"}, noSignIn' \in BOOLEAN,
           NEW q \in {"run", "sample"}, Continue(q),
           ~loops => /\ \/ /\ cursor' = Cur(start, pages') /\ Real(cursor')
                           /\ Before(cursor') = Pos(start, pages')
                        \/ cursor' = NoCursor /\ q = "sample"
                     /\ \A x \in items' \cap Rows : Before(start) < x,
           (~loops /\ ~noted /\ ~noSignIn') =>
               /\ \A k \in 0..(pages' - 1) : Passes(start, limit, k)
               /\ q = "run" => /\ items' = Within(start, pages')
                               /\ scanned' = Pos(start, pages') - Pos(start, 0)
               /\ q = "sample" =>
                      /\ Upto(items', Pos(start, pages'))
                      /\ cursor' # NoCursor => Upto(items' \cup delivered, Before(cursor'))
    PROVE  Fresh' /\ Onward'
<1>1. /\ next' = next /\ truncated' = truncated /\ clip' = clip /\ delivered' = delivered
      /\ noted' = noted /\ pc' = q /\ how' = how
  BY DEF Continue, result
<1>2. /\ tool' = tool /\ loops' = loops /\ limit' = limit /\ start' = start /\ Rows' = Rows
  BY DEF directory, Rows, Count
<1>3. \A s, k, l : /\ (Real(s)' <=> Real(s)) /\ Before(s)' = Before(s)
                   /\ Cur(s, k)' = Cur(s, k) /\ Pos(s, k)' = Pos(s, k)
                   /\ Within(s, k)' = Within(s, k) /\ (Passes(s, l, k)' <=> Passes(s, l, k))
  BY PathKept
<1>4. \A D, s, l : (Again(D, s, l)' <=> Again(D, s, l)) /\ (Upto(D, l)' <=> Upto(D, l))
  BY <1>2, AgainKept DEF Upto
<1>5. PICK I, c, n : I = items' /\ c = cursor' /\ n = pages'
  OBVIOUS
<1>6. PICK s, l, D : s = start' /\ l = limit' /\ D = delivered'
  OBVIOUS
<1>7. /\ Real(start)' <=> Real(s)
      /\ Real(cursor)' <=> Real(c)
      /\ Before(start)' = Before(s) /\ Before(cursor)' = Before(c)
      /\ Cur(start, pages)' = Cur(s, n)
      /\ Pos(start, pages)' = Pos(s, n) /\ Pos(start, 0)' = Pos(s, 0)
      /\ Within(start, pages)' = Within(s, n)
      /\ \A k : Passes(start, limit, k)' <=> Passes(s, l, k)
  BY <1>3, <1>5, <1>6
<1>8. /\ Again(delivered, start, limit)' <=> Again(D, s, l)
      /\ Upto(delivered, Before(start))' <=> Upto(D, Before(s))
      /\ Upto(items, Pos(start, pages))' <=> Upto(I, Pos(s, n))
      /\ Upto(items \cup delivered, Before(cursor))' <=> Upto(I \cup D, Before(c))
  BY <1>2, <1>4, <1>5, <1>6, <1>7 DEF Upto
<1>9. Fresh'
  BY <1>1, <1>2, <1>5, <1>6, <1>7 DEF Fresh
<1>10. Onward'
  <2> SUFFICES ASSUME ~loops, ~noted
               PROVE  Onward'
    BY <1>1, <1>2 DEF Onward
  <2>1. how # "repeat" => Upto(D, Before(s))
    BY <1>1, <1>2, <1>6 DEF Onward
  <2>2. Again(D, s, l)
    BY <1>1, <1>2, <1>6 DEF Onward
  <2>3. ~noSignIn' =>
            /\ \A k \in 0..(n - 1) : Passes(s, l, k)
            /\ q = "run" => I = Within(s, n) /\ scanned' = Pos(s, n) - Pos(s, 0)
            /\ q = "sample" => /\ Upto(I, Pos(s, n))
                               /\ c # NoCursor => Upto(I \cup D, Before(c))
    BY <1>1, <1>2, <1>5, <1>6
  <2> QED BY <2>1, <2>2, <2>3, <1>1, <1>2, <1>5, <1>6, <1>7, <1>8 DEF Onward
<1> QED BY <1>9, <1>10

LEMMA Restarted ==
    ASSUME ScanTypeOK, Fresh, Onward, Fixed, NEW c, NEW l, Begin(c, l), Valid(c),
           UNCHANGED <<result, delivered, noted>>,
           ~loops => /\ Real(c)
                     /\ tool = "list" => how' # "repeat"
                     /\ how' = "resume" => tool \in {"scan", "list"},
           (~loops /\ ~noted /\ tool \in {"scan", "list"}) =>
               /\ how' # "repeat" => Upto(delivered, Before(c))
               /\ tool = "scan" => Again(delivered, c, l)
    PROVE  Fresh' /\ Onward'
<1>1. /\ start' = c /\ cursor' = c /\ limit' = l /\ pages' = 0 /\ scanned' = 0
      /\ items' = {} /\ noSignIn' = FALSE /\ pc' = "run" /\ UNCHANGED directory
      /\ next' = next /\ truncated' = truncated /\ clip' = clip /\ noted' = noted
      /\ delivered' = delivered
  BY DEF Begin, result, Fixed
<1>2. /\ tool' = tool /\ loops' = loops /\ Rows' = Rows
  BY <1>1 DEF directory, Rows, Count
<1>3. \A s : (Real(s)' <=> Real(s)) /\ Before(s)' = Before(s)
  BY <1>1, CursorsKept DEF Real, directory
<1>4. Real(start)' <=> Real(c)
  BY <1>1, <1>3
<1>5. Real(cursor)' <=> Real(c)
  BY <1>1, <1>3
<1>6. Before(start)' = Before(c)
  BY <1>1, <1>3
<1>7. CASE tool = "scan"
  <2>1. \A s, k, m : /\ Cur(s, k)' = Cur(s, k) /\ Pos(s, k)' = Pos(s, k)
                     /\ Within(s, k)' = Within(s, k)
    BY <1>1, <1>7, PathKept
  <2>2. Cur(start, pages)' = Cur(c, 0) /\ Pos(start, pages)' = Pos(c, 0)
        /\ Pos(start, 0)' = Pos(c, 0) /\ Within(start, pages)' = Within(c, 0)
    BY <1>1, <2>1
  <2>3. ~loops => Cur(c, 0) = c /\ Pos(c, 0) \in Nat /\ Before(c) = Pos(c, 0)
    <3>1. ASSUME ~loops PROVE Cur(c, 0) = c /\ Pos(c, 0) \in Nat /\ Before(c) = Pos(c, 0)
      <4>1. Real(c) /\ 0 \in Nat
        BY <3>1
      <4> QED BY <4>1, <3>1, <1>7, PlacesAscend
    <3> QED BY <3>1
  <2>4. ~loops => Within(c, 0) = {}
    <3>1. stale \subseteq Int
      BY Pages DEF ScanTypeOK, Rows
    <3>2. ASSUME ~loops, NEW x \in stale PROVE ~(Pos(c, 0) < x /\ x <= Pos(c, 0))
      <4>1. x \in Int /\ Pos(c, 0) \in Nat
        BY <2>3, <3>1, <3>2
      <4> QED BY <4>1
    <3> QED BY <3>2 DEF Within
  <2>5. Again(delivered, start, limit)' <=> Again(delivered, c, l)
    BY <1>1, <1>7, AgainKept
  <2>6. Upto(delivered, Before(start))' <=> Upto(delivered, Before(c))
    BY <1>1, <1>2, <1>6 DEF Upto
  <2>7. Fresh'
    <3>1. Before(cursor)' = Before(c)
      BY <1>1, <1>3
    <3> QED BY <3>1, <1>1, <1>2, <1>4, <1>5, <1>7, <2>2, <2>3 DEF Fresh
  <2>8. Onward'
    BY <1>1, <1>2, <1>7, <2>2, <2>3, <2>4, <2>5, <2>6 DEF Onward
  <2> QED BY <2>7, <2>8
<1>8. CASE tool # "scan"
  <2>1. Upto(delivered, Before(start))' <=> Upto(delivered, Before(c))
    BY <1>1, <1>2, <1>6 DEF Upto
  <2>2. Fresh'
    BY <1>1, <1>2, <1>4, <1>8 DEF Fresh
  <2>3. Onward'
    BY <1>1, <1>2, <1>8, <2>1 DEF Onward
  <2> QED BY <2>2, <2>3
<1> QED BY <1>7, <1>8
-----------------------------------------------------------------------------
(* The steps of a scan *)

LEMMA EndsOnward ==
    ASSUME WalkInv, Fresh, Onward, ScanEnds PROVE Fresh' /\ Onward'
<1>0. ScanTypeOK /\ Reached /\ pc = "run" /\ tool = "scan" /\ ~Going
  BY DEF WalkInv, ScanEnds
<1>1. /\ UNCHANGED <<directory, limit, start>> /\ cursor' = cursor /\ items' = items
      /\ pages' = pages /\ scanned' = scanned /\ noSignIn' = noSignIn
  BY DEF ScanEnds, call
<1>2. noSignIn' \in BOOLEAN
  BY <1>0, <1>1 DEF ScanTypeOK
<1>3. \A x \in items' \cap Rows : ~loops => Before(start) < x
  BY <1>0, <1>1 DEF Fresh
<1>4. ~loops => /\ cursor = Cur(start, pages) /\ Real(cursor) /\ cursor # NoCursor
                /\ Before(cursor) = Pos(start, pages) /\ pages \in Nat
  <2>1. ASSUME ~loops
        PROVE  /\ cursor = Cur(start, pages) /\ Real(cursor) /\ cursor # NoCursor
               /\ Before(cursor) = Pos(start, pages) /\ pages \in Nat
    BY <2>1, <1>0, Standing
  <2> QED BY <2>1
<1>5. ASSUME ~loops, ~noted, ~noSignIn'
      PROVE  Upto(delivered, Before(cursor)) /\ Upto(items, Before(cursor))
  <2>1. ~Passes(start, limit, pages)
    BY <1>0, <1>1, <1>5, PassesHere
  <2>2. Again(delivered, start, limit)
    BY <1>0, <1>5 DEF Onward
  <2>3. \A x \in delivered \cap Rows : ~(Pos(start, pages) < x)
    BY <2>1, <2>2, <1>4, <1>5 DEF Again
  <2>4. Pos(start, pages) \in Nat /\ Rows \subseteq Int
    <3>1. Before(cursor) \in Nat
      BY <1>0, Ahead DEF Reached
    <3> QED BY <3>1, <1>4, <1>5, Pages DEF Rows
  <2>5. Upto(delivered, Before(cursor))
    <3> SUFFICES ASSUME NEW x \in delivered \cap Rows PROVE x <= Pos(start, pages)
      BY <1>4, <1>5 DEF Upto
    <3>1. ~(Pos(start, pages) < x) /\ x \in Int
      BY <2>3, <2>4
    <3> QED BY <3>1, <2>4
  <2>6. items = Within(start, pages)
    BY <1>0, <1>1, <1>5 DEF Onward
  <2> QED BY <2>5, <2>6, <1>4, <1>5 DEF Upto, Within
<1>6. CASE Continue("sample")
  <2>1. (~loops /\ ~noted /\ ~noSignIn') =>
            \A k \in 0..(pages' - 1) : Passes(start, limit, k)
    BY <1>0, <1>1 DEF Onward
  <2>2. (~loops /\ ~noted /\ ~noSignIn') =>
            /\ Upto(items', Pos(start, pages'))
            /\ cursor' # NoCursor => Upto(items' \cup delivered, Before(cursor'))
    BY <1>1, <1>4, <1>5 DEF Upto
  <2>3. ~loops => /\ cursor' = Cur(start, pages') /\ Real(cursor')
                  /\ Before(cursor') = Pos(start, pages')
    BY <1>1, <1>4
  <2> QED BY <1>0, <1>1, <1>2, <1>3, <1>6, <2>1, <2>2, <2>3, Carried
<1>7. CASE Return(cursor, TRUE, FALSE)
  <2>1. (~loops /\ ~noted /\ ~noSignIn') => Upto(delivered \cup items', Before(cursor))
    BY <1>1, <1>5, UptoBoth
  <2> QED BY <1>0, <1>1, <1>2, <1>3, <1>4, <1>7, <2>1, Handed
<1> QED BY <1>6, <1>7 DEF ScanEnds

LEMMA SampleOnward ==
    ASSUME WalkInv, Fresh, Onward, Sample PROVE Fresh' /\ Onward'
<1> DEFINE all == (Count + 1)..(Count + sample)
           kept == FirstOf(limit - Cardinality(items), all)
<1>0. ScanTypeOK /\ Reached /\ pc = "sample" /\ tool = "scan"
  BY DEF WalkInv, OneRequest, Sample
<1>1. /\ UNCHANGED <<directory, limit, start>> /\ noSignIn' = noSignIn
      /\ items' = items \cup kept
      /\ Return(NoCursor, TRUE, FALSE) \/ Return(cursor, cursor # NoCursor, FALSE)
  BY DEF Sample
<1>2. noSignIn' \in BOOLEAN /\ pages \in Nat /\ limit \in Nat
  BY <1>0, <1>1 DEF ScanTypeOK
<1>3. items' \cap Rows = items \cap Rows
  <2>1. kept \subseteq all
    BY DEF FirstOf
  <2>2. Count \in Nat /\ sample \in Nat
    BY <1>0, Pages DEF ScanTypeOK
  <2>3. all \cap Rows = {}
    BY <2>2 DEF Rows
  <2> HIDE DEF kept, all
  <2> QED BY <1>1, <2>1, <2>3
<1> HIDE DEF kept, all
<1>4. ~loops => \A x \in items' \cap Rows : Before(start) < x
  BY <1>0, <1>3 DEF Fresh
<1>5. ~loops => (cursor # NoCursor => Real(cursor))
  BY <1>0 DEF Fresh
<1>6. ASSUME ~loops, ~noted, ~noSignIn'
      PROVE  /\ cursor # NoCursor => Upto(delivered \cup items', Before(cursor))
             /\ Again(delivered \cup items', start, limit)
  <2>1. /\ Upto(items, Pos(start, pages))
        /\ cursor # NoCursor => Upto(items \cup delivered, Before(cursor))
        /\ \A k \in 0..(pages - 1) : Passes(start, limit, k)
        /\ Again(delivered, start, limit)
    BY <1>0, <1>1, <1>6 DEF Onward
  <2>2. Upto(items', Pos(start, pages))
    BY <2>1, <1>3 DEF Upto
  <2>3. Valid(start) /\ Real(start)
    BY <1>0, <1>6 DEF Reached, Fresh
  <2>4. Again(items', start, limit)
    BY <2>1, <2>2, <2>3, <1>0, <1>2, <1>6, AgainBehind
  <2>5. cursor # NoCursor => Upto(delivered \cup items', Before(cursor))
    BY <2>1, <1>3 DEF Upto
  <2> QED BY <2>1, <2>4, <2>5, AgainBoth
<1>7. CASE Return(NoCursor, TRUE, FALSE)
  BY <1>0, <1>1, <1>2, <1>4, <1>6, <1>7, Handed
<1>8. CASE Return(cursor, cursor # NoCursor, FALSE)
  BY <1>0, <1>1, <1>2, <1>4, <1>5, <1>6, <1>8, Handed
<1> QED BY <1>1, <1>7, <1>8

LEMMA PageOnward ==
    ASSUME WalkInv, Fresh, Onward, ScanPage PROVE Fresh' /\ Onward'
<1>0. ScanTypeOK /\ Reached /\ pc = "run" /\ tool = "scan" /\ Going
  BY DEF WalkInv, ScanPage
<1>1. /\ pages' = pages + 1 /\ scanned' = scanned + Seen /\ items' = items \cup Kept
      /\ UNCHANGED <<directory, limit, start>>
      /\ noSignIn' \in BOOLEAN /\ (noSignIn => noSignIn')
      /\ \/ Cut /\ cursor' = cursor /\ Return(Sent, TRUE, TRUE)
         \/ /\ ~Cut /\ cursor' = Read.next
            /\ \/ Found # Kept /\ Return(NoCursor, TRUE, FALSE)
               \/ /\ Found = Kept /\ provider = "sailpoint" /\ ReadUp(Read)
                  /\ Continue("sample")
               \/ /\ Found = Kept /\ ReadUp(Read)
                  /\ Return(Read.next, Read.next # NoCursor, FALSE)
               \/ Found = Kept /\ ~ReadUp(Read) /\ Continue("run")
  BY <1>0, PageRead
<1>2. CASE loops
  <2>1. loops'
    BY <1>1, <1>2 DEF directory
  <2> QED BY <2>1 DEF Fresh, Onward
<1>3. CASE ~loops
  <2>1. /\ Valid(start) /\ Real(start) /\ pages \in Nat
        /\ cursor = Cur(start, pages) /\ Real(cursor) /\ Valid(cursor) /\ cursor # NoCursor
        /\ Read.lo \in Nat /\ Read.n \in Nat
        /\ Read.lo = Pos(start, pages) /\ Before(cursor) = Pos(start, pages)
        /\ Read.lo + Read.n <= Pos(start, pages + 1)
        /\ Read.next # NoCursor => /\ Read.next = Cur(start, pages + 1)
                                   /\ Real(Read.next) /\ Valid(Read.next)
                                   /\ Before(Read.next) = Read.lo + Read.n
                                   /\ Pos(start, pages + 1) = Read.lo + Read.n
        /\ Pos(start, 0) = Before(start) /\ Before(start) \in Nat /\ Before(start) <= Read.lo
    BY <1>0, <1>3, Standing
  <2>2. /\ scanned \in Nat /\ ScanCap \in Nat \ {0} /\ MaxPages \in Nat \ {0} /\ limit \in Nat \ {0}
        /\ PageSize \in Nat /\ PageSize <= ScanCap /\ Rows \subseteq Int /\ stale \subseteq Rows
    BY <1>0, Parameters, ScansConstants, Pages DEF ScanTypeOK, Rows
  <2>3. Pos(start, pages + 1) \in Nat /\ pages + 1 \in Nat
    BY <1>0, <1>3, <2>1, PlacesAscend
\* What the call keeps of the page lies between its place and the next
  <2>4. \A x \in Kept : x \in Int /\ Read.lo < x /\ x <= Read.lo + Read.n
    <3>1. Kept \subseteq RowsOf(Read, Seen)
      BY DEF Kept, FirstOf, Found, Hits
    <3>2. Seen \in Int /\ Seen <= Read.n
      BY <2>1, <2>2 DEF Seen, Cut
    <3>3. \A x \in RowsOf(Read, Seen) : x \in Int /\ Read.lo < x /\ x <= Read.lo + Read.n
      BY <3>2, <2>1 DEF RowsOf
    <3> QED BY <3>1, <3>3
  <2>5. \A x \in items' \cap Rows : Before(start) < x
    <3> SUFFICES ASSUME NEW x \in items' \cap Rows PROVE Before(start) < x
      OBVIOUS
    <3>1. CASE x \in items
      BY <3>1, <1>0, <1>3 DEF Fresh
    <3>2. CASE x \in Kept
      BY <3>2, <2>1, <2>4
    <3> QED BY <3>1, <3>2, <1>1
\* Unless sign-ins could not be read, the call stands where the rows it has collected end
  <2>6. ASSUME ~noted, ~noSignIn'
        PROVE  /\ ~noSignIn
               /\ items = Within(start, pages) /\ scanned = Pos(start, pages) - Pos(start, 0)
               /\ \A k \in 0..(pages - 1) : Passes(start, limit, k)
               /\ Again(delivered, start, limit)
               /\ Upto(items, Read.lo) /\ Upto(items', Read.lo + Read.n)
    <3>1. ~noSignIn
      BY <2>6, <1>1
    <3>2. /\ items = Within(start, pages) /\ scanned = Pos(start, pages) - Pos(start, 0)
          /\ \A k \in 0..(pages - 1) : Passes(start, limit, k)
          /\ Again(delivered, start, limit)
      BY <3>1, <2>6, <1>0, <1>3 DEF Onward
    <3>3. Upto(items, Read.lo)
      BY <3>2, <2>1 DEF Upto, Within
    <3>4. Upto(items', Read.lo + Read.n)
      <4> SUFFICES ASSUME NEW x \in items' \cap Rows PROVE x <= Read.lo + Read.n
        BY DEF Upto
      <4>1. CASE x \in items
        <5>1. x <= Read.lo /\ x \in Int
          BY <4>1, <3>3, <2>2 DEF Upto
        <5> QED BY <5>1, <2>1
      <4>2. CASE x \in Kept
        BY <4>2, <2>4
      <4> QED BY <4>1, <4>2, <1>1
    <3> QED BY <3>1, <3>2, <3>3, <3>4
  <2>7. ASSUME ~noted, ~noSignIn', ~Passes(start, limit, pages)
        PROVE  Upto(delivered, Read.lo)
    <3>1. \A x \in delivered \cap Rows : ~(Pos(start, pages) < x)
      BY <2>1, <2>6, <2>7 DEF Again
    <3> SUFFICES ASSUME NEW x \in delivered \cap Rows PROVE x <= Read.lo
      BY DEF Upto
    <3>2. ~(Read.lo < x) /\ x \in Int
      BY <3>1, <2>1, <2>2
    <3> QED BY <3>2, <2>1
\* Cut off in a page, the call is to be made again for this page
  <2>8. CASE Cut /\ cursor' = cursor /\ Return(Sent, TRUE, TRUE)
    <3>1. ASSUME ~noted, ~noSignIn' PROVE Again(delivered \cup items', cursor, limit)
      <4>1. Passes(cursor, limit, 0)
        <5>1. Cur(cursor, 0) = cursor /\ Pos(cursor, 0) \in Nat
          <6>1. 0 \in Nat
            OBVIOUS
          <6> QED BY <6>1, <2>1, <1>0, <1>3, PlacesAscend
        <5>2. Cardinality(Within(cursor, 0)) = 0
          <6>1. \A x \in stale : x \in Int
            BY <2>2
          <6>2. Within(cursor, 0) = {}
            BY <6>1, <5>1 DEF Within
          <6> QED BY <6>2, FS_EmptySet
        <5>3. Pos(cursor, 0) - Pos(cursor, 0) = 0
          BY <5>1
        <5>4. Read.n > 0
          <6>1. Capped /\ Read.n > ScanCap - scanned
            BY <2>8 DEF Cut
          <6>2. scanned < ScanCap
            BY <6>1, <1>0 DEF Going, GoingOn
          <6> QED BY <6>1, <6>2, <2>1, <2>2
        <5>5. Page(Cur(cursor, 0), PageSize) = Read
          BY <5>1 DEF Read
        <5> QED BY <5>1, <5>2, <5>3, <5>4, <5>5, <2>2 DEF Passes
      <4>2. Again(items', cursor, limit)
        <5>1. Read.lo + Read.n <= Pos(cursor, 1) /\ Pos(cursor, 1) \in Nat
          <6>1. 0 \in Nat /\ 0 + 1 = 1 /\ 1 \in Nat
            OBVIOUS
          <6>2. Cur(cursor, 0) = cursor
            BY <6>1, <2>1, <1>0, <1>3, PlacesAscend
          <6>3. Read = Page(Cur(cursor, 0), PageSize) /\ Real(Cur(cursor, 0))
            BY <6>2, <2>1 DEF Read
          <6>4. Before(Cur(cursor, 0)) = Pos(cursor, 0)
            BY <6>1, <6>2, <2>1, <1>0, <1>3, PlacesAscend
          <6>5. Read.lo + Read.n <= Pos(cursor, 0 + 1)
            BY <6>1, <6>3, <6>4, <2>1, <1>0, <1>3, PageBetween
          <6> QED BY <6>1, <6>5, <2>1, <1>0, <1>3, PlacesAscend
        <5>2. Upto(items', Pos(cursor, 1))
          <6> SUFFICES ASSUME NEW x \in items' \cap Rows PROVE x <= Pos(cursor, 1)
            BY DEF Upto
          <6>1. x <= Read.lo + Read.n /\ x \in Int
            BY <2>6, <3>1, <2>2 DEF Upto
          <6> QED BY <6>1, <5>1, <2>1
        <5>3. \A k \in 0..(1 - 1) : Passes(cursor, limit, k)
          BY <4>1
        <5> QED BY <5>2, <5>3, <2>1, <1>0, <1>3, AgainBehind
      <4>3. Again(delivered, cursor, limit)
        <5>1. CASE pages = 0
          <6>1. cursor = start
            <7>1. Cur(start, 0) = start
              BY <2>1, <1>0, <1>3, PlacesAscend
            <7> QED BY <7>1, <5>1, <2>1
          <6> QED BY <6>1, <2>6, <3>1
        <5>2. CASE pages # 0
          <6>1. ~Passes(start, limit, pages)
            BY <5>2, <2>6, <2>8, <3>1, <1>0, <1>3, PassesHere
          <6>2. Upto(delivered, Read.lo)
            BY <6>1, <2>7, <3>1
          <6>3. Pos(cursor, 0) = Read.lo
            BY <2>1, <1>0, <1>3, PlacesAscend
          <6>4. \A k \in 0..(0 - 1) : Passes(cursor, limit, k)
            OBVIOUS
          <6> QED BY <6>2, <6>3, <6>4, <2>1, <1>0, <1>3, AgainBehind
        <5> QED BY <5>1, <5>2
      <4> QED BY <4>2, <4>3, AgainBoth
\* c1, which names no token for its first page, is asked for this page again all the same
    <3>2. Sent # NoCursor => Sent = cursor
      BY DEF Sent
    <3>3. Sent = NoCursor => start = cursor
      <4>1. ASSUME Sent = NoCursor PROVE start = cursor
        <5>1. provider = "c1" /\ cursor = 0
          BY <4>1, <2>1 DEF Sent, First
        <5>2. start \in Nat /\ cursor = start + pages
          BY <5>1, <2>1 DEF Cur, Valid
        <5> QED BY <5>1, <5>2, <2>1
      <4> QED BY <4>1
    <3>4. ~loops => /\ Sent # NoCursor => Real(Sent)
                    /\ \A x \in items' \cap Rows : Before(start) < x
      BY <3>2, <2>1, <2>5
    <3>5. (~loops /\ ~noted /\ ~noSignIn') =>
              /\ (Sent # NoCursor /\ TRUE) => Again(delivered \cup items', Sent, limit)
              /\ Sent = NoCursor => Again(delivered \cup items', start, limit)
      BY <3>1, <3>2, <3>3
    <3> QED BY <3>4, <3>5, <2>8, <1>0, <1>1, Handed
\* The limit was reached within the page: a call with a larger one passes it
  <2>9. CASE ~Cut /\ Found # Kept /\ Return(NoCursor, TRUE, FALSE)
    <3>1. ASSUME ~noted, ~noSignIn' PROVE Again(delivered \cup items', start, limit)
      <4>1. Read.n > 0
        <5>1. CASE Read.n = 0
          <6>1. RowsOf(Read, Seen) = {}
            BY <5>1, <2>1, <2>9 DEF RowsOf, Seen
          <6>2. Found = {} /\ Kept = {}
            BY <6>1 DEF Found, Kept, Hits, FirstOf
          <6> QED BY <6>2, <2>9
        <5> QED BY <5>1, <2>1
      <4>2. Passes(start, limit, pages)
        BY <4>1, <2>6, <2>9, <3>1, <1>0, <1>3, PassesHere
      <4>3. \A k \in 0..((pages + 1) - 1) : Passes(start, limit, k)
        <5>1. \A k \in 0..((pages + 1) - 1) : k \in 0..(pages - 1) \/ k = pages
          BY <2>1
        <5> QED BY <5>1, <4>2, <2>6, <3>1
      <4>4. Upto(items', Pos(start, pages + 1))
        <5> SUFFICES ASSUME NEW x \in items' \cap Rows PROVE x <= Pos(start, pages + 1)
          BY DEF Upto
        <5>1. x <= Read.lo + Read.n /\ x \in Int
          BY <2>6, <3>1, <2>2 DEF Upto
        <5> QED BY <5>1, <2>1, <2>3
      <4>5. Again(items', start, limit)
        BY <4>3, <4>4, <2>1, <2>3, <1>0, <1>3, AgainBehind
      <4> QED BY <4>5, <2>6, <3>1, AgainBoth
    <3> QED BY <3>1, <2>5, <2>9, <1>0, <1>1, Handed
\* An empty page with a successor: an earlier call, too, would have returned there
  <2>10. ASSUME ~Cut, Read.next # NoCursor, Read.n = 0, ~noted, ~noSignIn'
         PROVE  Upto(delivered \cup items', Before(Read.next))
    <3>1. ~Passes(start, limit, pages)
      BY <2>6, <2>10, <1>0, <1>3, PassesHere
    <3>2. Upto(delivered, Read.lo)
      BY <3>1, <2>7, <2>10
    <3>3. Before(Read.next) = Read.lo /\ Read.lo + Read.n = Read.lo
      BY <2>1, <2>10
    <3>4. Upto(items', Read.lo)
      BY <3>3, <2>6, <2>10
    <3> QED BY <3>2, <3>3, <3>4, UptoBoth
  <2>11. CASE ~Cut /\ Found = Kept /\ Return(Read.next, Read.next # NoCursor, FALSE) /\ ReadUp(Read)
    <3>1. Read.next # NoCursor => Read.n = 0
      BY <2>11 DEF ReadUp
    <3> QED BY <3>1, <2>1, <2>5, <2>10, <2>11, <1>0, <1>1, Handed
  <2>12. ASSUME ~Cut, Found = Kept, ~noted, ~noSignIn', Read.next # NoCursor
         PROVE  items' = Within(start, pages + 1)
    <3>1. items = Within(start, pages) /\ Pos(start, pages + 1) = Read.lo + Read.n
      BY <2>1, <2>6, <2>12
    <3>2. Kept = {x \in stale : Read.lo < x /\ x <= Read.lo + Read.n}
      <4>1. Found = RowsOf(Read, Read.n) \cap stale
        BY <2>12 DEF Found, Hits, Seen
      <4>2. \A x \in stale : x \in RowsOf(Read, Read.n) <=> Read.lo < x /\ x <= Read.lo + Read.n
        <5>1. \A x \in stale : x \in Int
          BY <2>2
        <5> QED BY <5>1, <2>1 DEF RowsOf
      <4> QED BY <4>1, <4>2, <2>12
    <3>3. \A x \in stale : (Pos(start, 0) < x /\ x <= Read.lo + Read.n) <=>
                 \/ Pos(start, 0) < x /\ x <= Read.lo
                 \/ Read.lo < x /\ x <= Read.lo + Read.n
      <4>1. \A x \in stale : x \in Int
        BY <2>2
      <4> QED BY <4>1, <2>1
    <3> QED BY <3>1, <3>2, <3>3, <1>1, <2>1 DEF Within
  <2>13. ASSUME ~Cut, Found = Kept, ~noted, ~noSignIn', Read.n > 0 \/ Read.next = NoCursor
         PROVE  \A k \in 0..(pages' - 1) : Passes(start, limit, k)
    <3>1. Passes(start, limit, pages)
      BY <2>6, <2>13, <1>0, <1>3, PassesHere
    <3>2. \A k \in 0..(pages' - 1) : k \in 0..(pages - 1) \/ k = pages
      BY <2>1, <1>1
    <3> QED BY <3>1, <3>2, <2>6, <2>13
  <2>14. CASE ~Cut /\ cursor' = Read.next /\ Found = Kept /\ ~ReadUp(Read) /\ Continue("run")
    <3>1. Read.next # NoCursor /\ Read.n > 0
      BY <2>1, <2>14 DEF ReadUp
    <3>2. cursor' = Cur(start, pages') /\ Real(cursor') /\ Before(cursor') = Pos(start, pages')
      BY <3>1, <2>1, <2>14, <1>1
    <3>3. (~noted /\ ~noSignIn') => /\ items' = Within(start, pages')
                                    /\ scanned' = Pos(start, pages') - Pos(start, 0)
      <4> SUFFICES ASSUME ~noted, ~noSignIn'
                   PROVE  /\ items' = Within(start, pages')
                          /\ scanned' = Pos(start, pages') - Pos(start, 0)
        OBVIOUS
      <4>1. items' = Within(start, pages')
        BY <3>1, <2>12, <2>14, <1>1
      <4>2. scanned' = scanned + Read.n
        BY <2>14, <1>1 DEF Seen
      <4>3. scanned = Read.lo - Pos(start, 0) /\ Pos(start, pages') = Read.lo + Read.n
        BY <3>1, <2>1, <2>6, <1>1
      <4> QED BY <4>1, <4>2, <4>3, <2>1
    <3>4. (~noted /\ ~noSignIn') => \A k \in 0..(pages' - 1) : Passes(start, limit, k)
      BY <3>1, <2>13, <2>14
    <3> QED BY <3>2, <3>3, <3>4, <2>5, <2>14, <1>0, <1>1, Carried
  <2>15. CASE ~Cut /\ cursor' = Read.next /\ Found = Kept /\ provider = "sailpoint"
              /\ ReadUp(Read) /\ Continue("sample")
    <3>1. Read.next = NoCursor
      <4>1. Read.next # NoCursor => Read.n = PageSize
        BY <2>15 DEF Read, Page, OffsetPage, NextOffset
      <4>2. PageSize # 0
        BY Parameters
      <4> QED BY <4>1, <4>2, <2>15 DEF ReadUp
    <3>2. (~noted /\ ~noSignIn') => Upto(items', Pos(start, pages'))
      <4> SUFFICES ASSUME ~noted, ~noSignIn', NEW x \in items' \cap Rows
                   PROVE  x <= Pos(start, pages + 1)
        BY <1>1 DEF Upto
      <4>1. x <= Read.lo + Read.n /\ x \in Int
        BY <2>6, <2>2 DEF Upto
      <4> QED BY <4>1, <2>1, <2>3
    <3>3. (~noted /\ ~noSignIn') => \A k \in 0..(pages' - 1) : Passes(start, limit, k)
      BY <3>1, <2>13, <2>15
    <3> QED BY <3>1, <3>2, <3>3, <2>5, <2>15, <1>0, <1>1, Carried
  <2> QED BY <1>1, <2>8, <2>9, <2>11, <2>14, <2>15
<1> QED BY <1>2, <1>3
-----------------------------------------------------------------------------
(* The other tools, and the agent *)

LEMMA ListOnward ==
    ASSUME WalkInv, Fresh, Onward, ListPage PROVE Fresh' /\ Onward'
<1> DEFINE a == Page(cursor, limit)
<1>0. ScanTypeOK /\ Fixed /\ Reached /\ OneRequest /\ pc = "run" /\ tool = "list"
  BY DEF WalkInv, ListPage, Fixed
<1>1. /\ UNCHANGED <<directory, limit, start>> /\ items' = RowsOf(a, a.n)
      /\ next' = a.next /\ clip' = FALSE /\ delivered' = delivered \cup items'
      /\ noted' = (noted \/ noSignIn') /\ pc' = "got" /\ how' = how
      /\ noSignIn' = noSignIn /\ truncated' = (a.next # NoCursor)
  BY DEF ListPage, Return
<1>2. Valid(cursor) /\ cursor = start /\ limit = Asked
  BY <1>0 DEF Reached, OneRequest, Asked
<1>3. a.lo \in Nat /\ a.n \in Nat /\ Before(cursor) = a.lo
  BY <1>0, <1>2, PageMoves DEF Moves
<1>4. ~loops => /\ Real(start)
                /\ a.next # NoCursor => Real(a.next) /\ Before(a.next) = a.lo + a.n
  <2>1. ASSUME ~loops PROVE Real(start)
    BY <2>1 DEF Fresh
  <2>2. ASSUME ~loops, a.next # NoCursor
        PROVE  Real(a.next) /\ Before(a.next) = a.lo + a.n
    BY <2>1, <2>2, <1>0, <1>2, NextPlace
  <2> QED BY <2>1, <2>2
<1>5. \A x \in items' : x \in Int /\ a.lo < x /\ x <= a.lo + a.n
  <2> HIDE DEF a
  <2> QED BY <1>1, <1>3 DEF RowsOf
<1> HIDE DEF a
<1>6. /\ tool' = tool /\ loops' = loops /\ Rows' = Rows /\ Before(start)' = Before(start)
      /\ (Real(start)' <=> Real(start))
  BY <1>0, <1>1, CursorsKept DEF directory, Rows, Count, Real
<1>7. (Real(next)' <=> Real(a.next)) /\ Before(next)' = Before(a.next)
  <2>1. \A c : (Real(c)' <=> Real(c)) /\ Before(c)' = Before(c)
    BY <1>0, <1>1, CursorsKept DEF directory, Real
  <2> QED BY <2>1, <1>1
<1>8. \A x \in items' \cap Rows : Before(start) < x
  BY <1>2, <1>3, <1>5
<1>9. Fresh'
  <2> SUFFICES ASSUME ~loops PROVE Fresh'
    BY <1>6 DEF Fresh
  <2>1. how # "repeat"
    BY <1>0 DEF Fresh
  <2> QED BY <2>1, <1>0, <1>1, <1>4, <1>6, <1>7, <1>8 DEF Fresh
<1>10. Onward'
  <2> SUFFICES ASSUME ~loops, ~noted, a.next # NoCursor
               PROVE  Upto(delivered \cup items', Before(a.next))
    <3>1. Upto(delivered, Before(next))' <=> Upto(delivered \cup items', Before(a.next))
      BY <1>1, <1>6, <1>7 DEF Upto
    <3> QED BY <3>1, <1>0, <1>1, <1>6 DEF Onward
  <2>1. how # "repeat"
    BY <1>0 DEF Fresh
  <2>2. Upto(delivered, a.lo)
    BY <2>1, <1>0, <1>2, <1>3 DEF Onward
  <2> SUFFICES ASSUME NEW x \in (delivered \cup items') \cap Rows PROVE x <= a.lo + a.n
    BY <1>4 DEF Upto
  <2>3. CASE x \in items'
    BY <2>3, <1>5
  <2>4. CASE x \in delivered
    <3>1. x <= a.lo /\ x \in Int
      BY <2>2, <2>4, <1>0, Pages DEF Upto, Rows
    <3> QED BY <3>1, <1>3
  <2> QED BY <2>3, <2>4
<1> QED BY <1>9, <1>10

LEMMA OthersOnward ==
    ASSUME WalkInv, Fresh, Onward, Members \/ Access PROVE Fresh' /\ Onward'
<1>0. tool \notin {"scan", "list"} /\ UNCHANGED directory /\ start' = start
  BY DEF Members, Access
<1>1. \/ pc' = "run" /\ clip' = clip
      \/ pc' = "got" /\ next' = NoCursor /\ clip' = FALSE
  <2>1. \/ Continue("run")
        \/ \E tr : Return(NoCursor, tr, FALSE)
    BY DEF Members, Access
  <2> QED BY <2>1 DEF Return, Continue, result
<1>2. how' = how
  BY DEF Members, Access, Return, Continue
<1>3. /\ tool' = tool /\ loops' = loops /\ (Real(start)' <=> Real(start))
  BY <1>0 DEF directory, Real
<1> QED BY <1>0, <1>1, <1>2, <1>3 DEF Fresh, Onward

LEMMA AgentOnward ==
    ASSUME WalkInv, Fresh, Onward, Retry \/ Resume \/ Enlarge PROVE Fresh' /\ Onward'
<1>0. ScanTypeOK /\ Reached /\ OneRequest /\ Valid(start) /\ limit \in Nat \ {0}
  BY DEF WalkInv, Reached, ScanTypeOK
<1>1. CASE Retry
  <2>1. /\ Fixed /\ Begin(start, limit) /\ UNCHANGED <<result, delivered, noted>>
        /\ pc = "failed" /\ how' = how
    BY <1>1 DEF Retry, Fixed, Begin
  <2>2. ~loops => /\ Real(start)
                  /\ tool = "list" => how' # "repeat"
                  /\ how' = "resume" => tool \in {"scan", "list"}
    BY <2>1 DEF Fresh
  <2>3. (~loops /\ ~noted /\ tool \in {"scan", "list"}) =>
            /\ how' # "repeat" => Upto(delivered, Before(start))
            /\ tool = "scan" => Again(delivered, start, limit)
    BY <2>1 DEF Onward
  <2> QED BY <2>1, <2>2, <2>3, <1>0, Restarted
<1>2. CASE Resume
  <2>1. /\ Fixed /\ Begin(next, limit) /\ UNCHANGED <<result, delivered, noted>>
        /\ pc = "got" /\ next # NoCursor /\ how' = IF clip THEN "repeat" ELSE "resume"
    BY <1>2 DEF Resume, Fixed, Begin
  <2>2. Valid(next)
    BY <2>1, <1>0 DEF Reached
  <2>3. ~loops => /\ Real(next) /\ tool \in {"scan", "list"}
                  /\ tool = "list" => how' # "repeat"
    BY <2>1 DEF Fresh
  <2>4. ASSUME ~loops, ~noted
        PROVE  /\ how' # "repeat" => Upto(delivered, Before(next))
               /\ tool = "scan" => Again(delivered, next, limit)
    <3>1. CASE clip
      BY <3>1, <2>1, <2>3, <2>4 DEF Onward
    <3>2. CASE ~clip
      <4>1. Upto(delivered, Before(next))
        BY <3>2, <2>1, <2>3, <2>4 DEF Onward
      <4>2. ASSUME tool = "scan" PROVE Again(delivered, next, limit)
        <5>1. Pos(next, 0) = Before(next)
          BY <2>2, <2>3, <2>4, <4>2, <1>0, PlacesAscend
        <5>2. 0 \in Nat /\ \A k \in 0..(0 - 1) : Passes(next, limit, k)
          OBVIOUS
        <5> QED BY <4>1, <4>2, <5>1, <5>2, <2>2, <2>3, <2>4, <1>0, AgainBehind
      <4> QED BY <4>1, <4>2
    <3> QED BY <3>1, <3>2
  <2> QED BY <2>1, <2>2, <2>3, <2>4, <1>0, Restarted
<1>3. CASE Enlarge
  <2>1. PICK l \in (limit + 1)..Largest : Begin(start, l)
    BY <1>3 DEF Enlarge
  <2>2. l \in Nat /\ limit <= l
    <3>1. Largest \in Int
      BY Parameters, Clamps DEF Largest
    <3> QED BY <3>1, <2>1, <1>0
  <2>3. /\ Fixed /\ UNCHANGED <<result, delivered, noted>> /\ tool # "list"
        /\ pc = "got" /\ next = NoCursor /\ truncated /\ how' = "repeat"
    BY <1>0, <1>3 DEF Enlarge, Fixed, OneRequest
  <2>4. ~loops => Real(start)
    BY DEF Fresh
  <2>5. (~loops /\ ~noted /\ tool = "scan") => Again(delivered, start, l)
    <3>1. (~loops /\ ~noted /\ tool = "scan") => Again(delivered, start, limit)
      BY <2>3 DEF Onward
    <3> QED BY <3>1, <2>2, <1>0, AgainGrows
  <2> QED BY <2>1, <2>3, <2>4, <2>5, <1>0, Restarted
<1> QED BY <1>1, <1>2, <1>3

LEMMA EndOnward ==
    ASSUME WalkInv, Fresh, Onward, Fails \/ Stop \/ UNCHANGED vars PROVE Fresh' /\ Onward'
<1>0. ScanTypeOK
  BY DEF WalkInv
<1>1. /\ UNCHANGED <<directory, call, result, delivered, noted, how>>
      /\ pc' = pc \/ (pc' = "failed" /\ pc \in {"run", "sample"}) \/ pc' \in {"done", "stuck"}
  BY DEF Fails, Stop, vars
<1>2. Fixed /\ start' = start /\ cursor' = cursor /\ noted' = noted /\ delivered' = delivered
      /\ noSignIn' = noSignIn /\ items' = items /\ truncated' = truncated /\ next' = next
      /\ pages' = pages /\ scanned' = scanned /\ limit' = limit /\ clip' = clip /\ how' = how
      /\ tool' = tool /\ loops' = loops /\ Rows' = Rows /\ provider' = provider /\ ends' = ends
  BY <1>1 DEF call, result, Fixed, directory, Rows, Count
<1>3. /\ Before(start)' = Before(start) /\ Before(cursor)' = Before(cursor)
      /\ Before(next)' = Before(next) /\ (Real(start)' <=> Real(start))
      /\ (Real(cursor)' <=> Real(cursor)) /\ (Real(next)' <=> Real(next))
      /\ Cur(start, pages)' = Cur(start, pages)
  <2>1. \A k : Before(k)' = Before(k)
    BY <1>2, CursorsKept
  <2> QED BY <2>1, <1>2 DEF Real, Cur
<1>4. Fresh'
  <2>1. tool = "scan" => Pos(start, pages)' = Pos(start, pages)
    BY <1>1, <1>2, PathKept
  <2> QED BY <2>1, <1>1, <1>2, <1>3 DEF Fresh
<1>5. /\ Upto(delivered, Before(start))' <=> Upto(delivered, Before(start))
      /\ Upto(delivered, Before(next))' <=> Upto(delivered, Before(next))
      /\ Upto(items \cup delivered, Before(cursor))' <=> Upto(items \cup delivered, Before(cursor))
  BY <1>2, <1>3 DEF Upto
<1>6. ASSUME tool = "scan" PROVE Onward'
  <2>1. \A s, k, l : /\ Pos(s, k)' = Pos(s, k) /\ Within(s, k)' = Within(s, k)
                     /\ (Passes(s, l, k)' <=> Passes(s, l, k))
    BY <1>1, <1>6, PathKept
  <2>2. /\ Pos(start, pages)' = Pos(start, pages) /\ Pos(start, 0)' = Pos(start, 0)
        /\ Within(start, pages)' = Within(start, pages)
        /\ \A k : Passes(start, limit, k)' <=> Passes(start, limit, k)
    BY <2>1, <1>2
  <2>3. /\ Again(delivered, start, limit)' <=> Again(delivered, start, limit)
        /\ Again(delivered, next, limit)' <=> Again(delivered, next, limit)
    BY <1>1, <1>2, <1>6, AgainKept
  <2>4. Upto(items, Pos(start, pages))' <=> Upto(items, Pos(start, pages))
    BY <2>2, <1>2 DEF Upto
  <2>5. CASE pc' = pc
    <3> SUFFICES ASSUME ~loops, ~noted PROVE Onward'
      BY <1>2 DEF Onward
    <3>1. (pc \in {"run", "sample", "failed"} /\ how # "repeat") => Upto(delivered, Before(start))
      BY <1>6 DEF Onward
    <3>2. pc \in {"run", "sample", "failed"} => Again(delivered, start, limit)
      BY <1>6 DEF Onward
    <3>3. (pc \in {"run", "sample"} /\ ~noSignIn) =>
              /\ \A k \in 0..(pages - 1) : Passes(start, limit, k)
              /\ pc = "run" => /\ items = Within(start, pages)
                               /\ scanned = Pos(start, pages) - Pos(start, 0)
              /\ pc = "sample" =>
                     /\ Upto(items, Pos(start, pages))
                     /\ cursor # NoCursor => Upto(items \cup delivered, Before(cursor))
      BY <1>6 DEF Onward
    <3>4. pc = "got" => /\ (next # NoCursor /\ ~clip) => Upto(delivered, Before(next))
                        /\ (next # NoCursor /\ clip) => Again(delivered, next, limit)
                        /\ (next = NoCursor /\ truncated) => Again(delivered, start, limit)
      BY <1>6 DEF Onward
    <3>5. \A k \in 0..(pages' - 1) : Passes(start, limit, k)' <=> Passes(start, limit, k)
      BY <2>2
    <3> QED BY <2>2, <2>3, <2>4, <2>5, <3>1, <3>2, <3>3, <3>4, <3>5, <1>2, <1>5, <1>6 DEF Onward
  <2>6. CASE pc' # pc
    <3>1. pc' \in {"done", "stuck"} \/ (pc' = "failed" /\ pc \in {"run", "sample"})
      BY <2>6, <1>1
    <3>2. CASE pc' \in {"done", "stuck"}
      BY <3>2 DEF Onward
    <3>3. CASE pc' = "failed" /\ pc \in {"run", "sample"}
      <4>1. (~loops /\ ~noted) => /\ how # "repeat" => Upto(delivered, Before(start))
                                  /\ Again(delivered, start, limit)
        BY <3>3, <1>6 DEF Onward
      <4> QED BY <4>1, <2>3, <3>3, <1>2, <1>5, <1>6 DEF Onward
    <3> QED BY <3>1, <3>2, <3>3
  <2> QED BY <2>5, <2>6
<1>7. ASSUME tool # "scan" PROVE Onward'
  <2>1. tool' # "scan"
    BY <1>2, <1>7
  <2>2. (Again(delivered, next, limit)' <=> Again(delivered, next, limit)) \/ loops \/ ~clip
    BY <1>7 DEF Fresh
  <2> QED BY <2>1, <2>2, <1>1, <1>2, <1>5, <1>7 DEF Onward
<1> QED BY <1>4, <1>6, <1>7

LEMMA StepOnward ==
    ASSUME WalkInv, Fresh, Onward, [Next]_vars PROVE Fresh' /\ Onward'
BY EndsOnward, SampleOnward, PageOnward, ListOnward, OthersOnward, AgentOnward, EndOnward
   DEF Next, Tool, Agent, Over

LEMMA OnwardInit == Init => Fresh /\ Onward
<1> SUFFICES ASSUME Init PROVE Fresh /\ Onward
  OBVIOUS
<1>1. WalkInv /\ Bounded
  BY WalkInit
<1>2. ScanTypeOK /\ Valid(start)
  BY <1>1 DEF WalkInv, Reached
<1>3. /\ start = First /\ cursor = First /\ pages = 0 /\ scanned = 0 /\ items = {}
      /\ noSignIn = FALSE /\ clip = FALSE /\ delivered = {} /\ how = "first" /\ pc = "run"
  BY DEF Init
<1>4. Real(start)
  <2>1. Len(ends) \in Nat \ {0}
    BY <1>2, Pages
  <2> QED BY <2>1, <1>3 DEF Real, First
<1>5. (tool = "scan" /\ ~loops) => /\ Cur(start, 0) = start /\ Pos(start, 0) \in Nat
                                   /\ Before(start) = Pos(start, 0) /\ Within(start, 0) = {}
  <2> SUFFICES ASSUME tool = "scan", ~loops
               PROVE  /\ Cur(start, 0) = start /\ Pos(start, 0) \in Nat
                      /\ Before(start) = Pos(start, 0) /\ Within(start, 0) = {}
    OBVIOUS
  <2>1. 0 \in Nat /\ Cur(start, 0) = start /\ Pos(start, 0) \in Nat /\ Before(start) = Pos(start, 0)
    BY <1>2, <1>4, PlacesAscend
  <2>2. \A x \in stale : x \in Int
    BY <1>2, Pages DEF ScanTypeOK, Rows
  <2> QED BY <2>1, <2>2 DEF Within
<1>6. Fresh
  BY <1>3, <1>4, <1>5 DEF Fresh
<1>7. Onward
  BY <1>3, <1>5 DEF Onward, Upto, Again
<1> QED BY <1>6, <1>7

\* A row that a call collects lies behind its start, where a resumed one goes on behind all
\* that was delivered.
LEMMA ResumedIsNew ==
    ASSUME WalkInv, Fresh, Onward, [Next]_vars,
           pc # "got", pc' = "got", how = "resume", ~loops, ~noted
    PROVE  (items' \cap Rows) \cap delivered = {}
<1>1. ScanTypeOK /\ tool \in {"scan", "list"} /\ Fresh'
  BY StepOnward DEF WalkInv, Fresh
<1>2. UNCHANGED <<directory, limit, start>> /\ pc \in {"run", "sample"}
  <2>1. ScanEnds \/ Sample \/ ScanPage \/ ListPage \/ Members \/ Access
    BY DEF Next, Tool, Agent, Over, Fails, Retry, Resume, Enlarge, Stop, Begin, vars
  <2> QED BY <2>1 DEF ScanEnds, Sample, ScanPage, ListPage, Members, Access, call
<1>3. /\ tool' = tool /\ loops' = loops /\ Rows' = Rows /\ Before(start)' = Before(start)
  BY <1>2, CursorsKept DEF directory, Rows, Count, Fixed
<1>4. \A x \in items' \cap Rows : Before(start) < x
  BY <1>1, <1>3 DEF Fresh
<1>5. \A x \in delivered \cap Rows : x <= Before(start)
  BY <1>1, <1>2 DEF Onward, Upto
<1>6. Before(start) \in Nat /\ Rows \subseteq Int
  <2>1. Before(start) \in Nat
    BY Ahead DEF WalkInv, Reached
  <2> QED BY <2>1, <1>1, Pages DEF Rows
<1>7. ASSUME NEW x \in items' \cap Rows, x \in delivered PROVE FALSE
  <2>1. Before(start) < x /\ x <= Before(start) /\ x \in Int
    BY <1>4, <1>5, <1>6, <1>7
  <2> QED BY <2>1, <1>6
<1> QED BY <1>7

\* A call that resumes behind a page that was read to its end returns no row again, for every
\* directory, page size, limit and cap, however often the walk was cut and asked again with a
\* larger limit before, as long as no result has said that sign-ins could not be read.
THEOREM ScansNoRepeats == Spec => NoRepeats
<1>1. Init => Fresh /\ Onward
  BY OnwardInit
<1>2. WalkInv /\ Fresh /\ Onward /\ [Next]_vars => (Fresh /\ Onward)'
  BY StepOnward
<1>3. WalkInv /\ Fresh /\ Onward /\ [Next]_vars =>
          [pc # "got" /\ pc' = "got" /\ how = "resume" /\ ~loops /\ ~noted =>
               (items' \cap Rows) \cap delivered = {}]_vars
  BY ResumedIsNew
<1> QED BY <1>1, <1>2, <1>3, ScansInv, PTL DEF Spec, NoRepeats
=============================================================================
