--------------------------- MODULE TokensProperties ---------------------------
(***************************************************************************)
(* What concurrent calls may rely on when they share one access token.     *)
(***************************************************************************)
EXTENDS Tokens, FiniteSets

Token == [id: Nat, life: Nat, ends: Nat]

\* Every variable stays in its domain; the mutex is held over a token request only.
TypeOK ==
    /\ provider \in Providers /\ now \in Nat /\ issued \in Nat
    /\ token \in Token /\ reply \in Token /\ expiry \in Nat
    /\ asked \in [Calls -> Plans] /\ plan \in [Calls -> Seq(Nat) \ {<<>>}]
    /\ pc \in [Calls -> {"idle", "ensure", "post", "posted", "bearer", "secrets", "flight",
                         "scrub", "done"}]
    /\ since \in [Calls -> Nat] /\ waited \in [Calls -> Nat] /\ requests \in [Calls -> Nat]
    /\ sent \in [Calls -> [token: Token, expiry: Nat, secrets: SUBSET Nat]]
    /\ echo \in [Calls -> SUBSET Nat]
    /\ holder \in Calls \cup {NoCall}
    /\ \A c \in Calls : pc[c] \in {"post", "posted"} <=> holder = c

\* As long as a request is under way the server still accepts its token, although the
\* token was checked before the mutex was let go and its life is counted from the arrival
\* of a slow response: it can be late only by what the goroutine itself has waited between
\* the check and the request.  Tokens of less than Skew + Floor have no such margin.
TokenOutlivesRequest ==
    \A c \in Calls : pc[c] = "flight" /\ sent[c].token.life >= Skew + Floor =>
        now < sent[c].token.ends + waited[c]

\* A token is replaced only when it cannot be used any more: of the calls that found it
\* run out and queued for the mutex, one requests a new one and the others take that.
RefreshedOnce == [][token' # token => ~Usable]_vars

\* No error that a call returns shows the token it was sent with, even if another call
\* has replaced the cached token while the request was under way.
ErrorsAreClean == \A c \in Calls : pc[c] = "idle" => echo[c] = {}

\* A write is sent at most once, and a read no more often than it has queries to fall
\* back to, whichever of its requests and token requests fail.
QueriesOf(p) == UNION {{i} \X (1..p[i]) : i \in DOMAIN p}
Queries(p) == Cardinality(QueriesOf(p))
SentAtMost == \A c \in Calls : requests[c] <= Queries(asked[c])

\* Every call returns: none waits for a mutex that it or nobody holds.
CallReturns == \A c \in Calls : pc[c] # "idle" ~> pc[c] = "idle"
=============================================================================
