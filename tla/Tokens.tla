-------------------------------- MODULE Tokens --------------------------------
(***************************************************************************)
(* The OAuth access token that the Entra, ConductorOne and SailPoint       *)
(* clients share between concurrent tool calls (src/internal/entra,        *)
(* c1 and sailpoint client.go), and the requests sent with it              *)
(* (src/internal/idmcp/http.go).                                           *)
(*                                                                         *)
(* A call checks the cached token under the client's mutex, refreshes it   *)
(* under that mutex if it has run out, lets go, takes the mutex again to   *)
(* read the token for its Authorization header and once more to collect    *)
(* what an error must not show.  Time passes while an HTTP exchange is     *)
(* under way, and while a goroutine waits between those steps.  The two    *)
(* servers answer as they like within the client's timeout.                *)
(***************************************************************************)
EXTENDS Integers, Sequences

CONSTANTS
    Calls,          \* concurrent tool calls on one client
    Lifetimes,      \* what the token endpoint may put into expires_in
    Skew, Floor,    \* tokenSkew, and the least time a token is kept
    Timeout,        \* of one HTTP exchange
    Plans,          \* what the tools may ask: groups of queries that differ in detail
    Providers,
    MaxTime, MaxTokens,  \* bounds on the clock and on tokens issued
    NoCall

ASSUME TokensConstants ==
    /\ NoCall \notin Calls
    /\ Lifetimes \subseteq Nat
    /\ Floor \in Nat \ {0} /\ Timeout \in Nat /\ Skew \in Nat
    /\ Skew >= 2 * Timeout          \* 60 s and 30 s
    /\ Plans \subseteq Seq(Nat \ {0}) \ {<<>>} /\ <<1>> \in Plans
    /\ Providers \subseteq {"entra", "c1", "sailpoint"}
    /\ MaxTime \in Nat /\ MaxTokens \in Nat

VARIABLES
    provider,
    now,
    issued,         \* tokens issued so far
    holder,         \* the call that holds c.mu over a token request
    token, expiry,  \* the cache
    reply,          \* the token in the response that is on its way to the holder
    pc,
    asked, plan,    \* the queries of a call, and those that are left
    since,          \* start of a call's HTTP exchange
    waited,         \* time a call has spent between its check and its request
    sent,           \* the token in a call's request, its local expiry, and the secrets
                    \* that the request's error is cleared of
    echo,           \* the secrets in the error a call returns
    requests        \* API requests of the call

vars == <<provider, now, issued, holder, token, expiry, reply, pc, asked, plan, since,
          waited, sent, echo, requests>>
cache == <<issued, holder, token, expiry, reply>>
request == <<since, waited, sent, requests>>

\* ends is the time at which the server stops to accept a token
NoToken == [id |-> 0, life |-> 0, ends |-> 0]
Secret == 0         \* the client secret, beside the ids of tokens
NoRequest == [token |-> NoToken, expiry |-> 0, secrets |-> {}]
\* One request and nothing to fall back on, as a write or a read of c1 and sailpoint
Single == <<1>>
Goto(c, l) == pc' = [pc EXCEPT ![c] = l]
Return(c) ==
    /\ Goto(c, "idle")
    /\ asked' = [asked EXCEPT ![c] = Single]
    /\ plan' = [plan EXCEPT ![c] = Single]
    /\ requests' = [requests EXCEPT ![c] = 0]
Free == holder = NoCall
-----------------------------------------------------------------------------
(* ensureToken *)

\* ttl, counted from the arrival of the response.  Variant: without the skew
TtlUnskewed(life) == IF life < Floor THEN Floor ELSE life
Ttl(life) == IF life - Skew < Floor THEN Floor ELSE life - Skew

Usable == token.id # 0 /\ now < expiry

Call(c) ==
    /\ pc[c] = "idle"
    /\ \E p \in Plans :
        /\ p # Single => provider = "entra"
        /\ asked' = [asked EXCEPT ![c] = p]
        /\ plan' = [plan EXCEPT ![c] = p]
    /\ echo' = [echo EXCEPT ![c] = {}]
    /\ Goto(c, "ensure")
    /\ UNCHANGED <<provider, now, cache, request>>

\* Variant: the mutex is let go over the token request
EnsureUnlocked(c) ==
    /\ pc[c] = "ensure" /\ Free
    /\ IF Usable
       THEN Goto(c, "bearer") /\ UNCHANGED since
       ELSE Goto(c, "post") /\ since' = [since EXCEPT ![c] = now]
    /\ UNCHANGED <<provider, now, cache, asked, plan, waited, sent, echo, requests>>
EnsureToken(c) ==
    /\ pc[c] = "ensure" /\ Free
    /\ IF Usable
       THEN Goto(c, "bearer") /\ UNCHANGED <<holder, since>>
       ELSE /\ holder' = c
            /\ since' = [since EXCEPT ![c] = now]
            /\ Goto(c, "post")
    /\ UNCHANGED <<provider, now, issued, token, expiry, reply, asked, plan, waited, sent,
                    echo, requests>>

Issue(c) ==
    /\ pc[c] = "post" /\ issued < MaxTokens
    /\ issued' = issued + 1
    /\ \E life \in Lifetimes : reply' = [id |-> issued', life |-> life, ends |-> now + life]
    /\ Goto(c, "posted")
    /\ UNCHANGED <<provider, now, holder, token, expiry, asked, plan, since, waited, sent, echo,
                    requests>>

TokenArrives(c) ==
    /\ pc[c] = "posted"
    /\ token' = reply
    /\ expiry' = now + Ttl(reply.life)
    /\ holder' = NoCall /\ reply' = NoToken
    /\ since' = [since EXCEPT ![c] = 0]
    /\ Goto(c, "bearer")
    /\ UNCHANGED <<provider, now, issued, asked, plan, waited, sent, echo, requests>>
-----------------------------------------------------------------------------
(* getJSON, getJSON400, memberOf and doWriteJSON *)

\* What a failed request or token leads to.  Only a 400 or a 403 tries the group's
\* next query; any failure of a group goes on to the next group.
\* Variant: the query that failed is not left behind
RetrySame(c) == UNCHANGED plan
Retry(c) == plan' = [plan EXCEPT ![c] = <<Head(@) - 1>> \o Tail(@)]
Fallback(c) == plan' = [plan EXCEPT ![c] = Tail(@)]
Again(c) == Goto(c, "ensure") /\ UNCHANGED <<asked, requests>>
AfterFailure(c, status) ==
    IF status = 400 /\ Head(plan[c]) > 1 THEN Retry(c) /\ Again(c)
    ELSE IF Len(plan[c]) > 1 THEN Fallback(c) /\ Again(c)
    ELSE Return(c)

Statuses == {400, 500}      \* those a query falls back on, and any other failure

\* The token endpoint refuses, does not answer or answers nonsense; its answer may
\* echo the form, from which PostForm removes the secret.  c1 and sailpoint scrub the
\* error again behind the mutex.  Variant: entra does so too, still holding it.
TokenFailsLocked(c) ==
    /\ pc[c] \in {"post", "posted"}
    /\ reply' = NoToken
    /\ since' = [since EXCEPT ![c] = 0]
    /\ Goto(c, "scrub")
    /\ UNCHANGED <<provider, now, issued, holder, token, expiry, asked, plan, waited, sent, echo,
                    requests>>
TokenFails(c) ==
    /\ pc[c] \in {"post", "posted"}
    /\ holder' = NoCall /\ reply' = NoToken
    /\ since' = [since EXCEPT ![c] = 0]
    /\ IF provider = "entra" THEN \E s \in Statuses : AfterFailure(c, s)
                             ELSE Goto(c, "scrub") /\ UNCHANGED <<asked, plan, requests>>
    /\ UNCHANGED <<provider, now, issued, token, expiry, waited, sent, echo>>
-----------------------------------------------------------------------------
(* One API request *)

SetAuth(c) ==
    /\ pc[c] = "bearer" /\ Free
    /\ sent' = [sent EXCEPT ![c] = [token |-> token, expiry |-> expiry, secrets |-> {}]]
    /\ Goto(c, "secrets")
    /\ UNCHANGED <<provider, now, cache, asked, plan, since, waited, echo, requests>>

\* allSecrets(auth): what was put into the header, and whatever is cached by now.
\* Variant: without the header
Uncaptured(c) == {Secret, token.id}
Captured(c) == {Secret, token.id, sent[c].token.id}

AllSecrets(c) ==
    /\ pc[c] = "secrets" /\ Free
    /\ sent' = [sent EXCEPT ![c].secrets = Captured(c)]
    /\ since' = [since EXCEPT ![c] = now]
    /\ requests' = [requests EXCEPT ![c] = @ + 1]
    /\ Goto(c, "flight")
    /\ UNCHANGED <<provider, now, cache, asked, plan, waited, echo>>

Answered(c) ==
    /\ since' = [since EXCEPT ![c] = 0]
    /\ waited' = [waited EXCEPT ![c] = 0]
    /\ sent' = [sent EXCEPT ![c] = NoRequest]

\* A token that has ended is refused; entra takes the mutex to scrub the nil error too
Succeed(c) ==
    /\ pc[c] = "flight" /\ now < sent[c].token.ends
    /\ Answered(c)
    /\ IF provider = "entra" THEN Goto(c, "done") /\ UNCHANGED <<asked, plan, requests>>
                             ELSE Return(c)
    /\ UNCHANGED <<provider, now, cache, echo>>

\* httpErr and redactPlain: the server may echo the request's header in its answer
Fail(c) ==
    /\ pc[c] = "flight"
    /\ \E shown \in {{}, {sent[c].token.id}} :
          echo' = [echo EXCEPT ![c] = @ \cup (shown \ sent[c].secrets)]
    /\ Answered(c)
    /\ Goto(c, "scrub")
    /\ UNCHANGED <<provider, now, cache, asked, plan, requests>>

Scrub(c) ==
    /\ pc[c] = "scrub" /\ Free
    /\ echo' = [echo EXCEPT ![c] = @ \ {Secret, token.id}]
    /\ \E s \in Statuses : AfterFailure(c, s)
    /\ UNCHANGED <<provider, now, cache, since, waited, sent>>

Done(c) ==
    /\ pc[c] = "done" /\ Free
    /\ Return(c)
    /\ UNCHANGED <<provider, now, cache, since, waited, sent, echo>>
-----------------------------------------------------------------------------
Exchanging(c) == pc[c] \in {"post", "posted", "flight"}

\* No exchange lasts longer than the client's timeout
Tick ==
    /\ now < MaxTime
    /\ \A c \in Calls : Exchanging(c) => now - since[c] < Timeout
    /\ now' = now + 1
    /\ waited' = [c \in Calls |-> IF pc[c] \in {"bearer", "secrets"} THEN waited[c] + 1
                                                                      ELSE waited[c]]
    /\ UNCHANGED <<provider, cache, pc, asked, plan, since, sent, echo, requests>>

Init ==
    /\ provider \in Providers
    /\ now = 0 /\ issued = 0
    /\ holder = NoCall
    /\ token = NoToken /\ expiry = 0 /\ reply = NoToken
    /\ pc = [c \in Calls |-> "idle"] /\ asked = [c \in Calls |-> Single]
    /\ plan = [c \in Calls |-> Single]
    /\ since = [c \in Calls |-> 0] /\ waited = [c \in Calls |-> 0]
    /\ sent = [c \in Calls |-> NoRequest]
    /\ echo = [c \in Calls |-> {}]
    /\ requests = [c \in Calls |-> 0]

\* What waits for the mutex, and what waits for nothing or for a server
Locking(c) == EnsureToken(c) \/ SetAuth(c) \/ AllSecrets(c) \/ Scrub(c) \/ Done(c)
Serving(c) == Issue(c) \/ TokenArrives(c) \/ TokenFails(c) \/ Succeed(c) \/ Fail(c)

Next == Tick \/ \E c \in Calls : Call(c) \/ Locking(c) \/ Serving(c)

Spec == Init /\ [][Next]_vars

\* Every exchange ends, at its timeout at the latest, and sync.Mutex hands itself to a
\* goroutine that has waited for a millisecond
FairSpec == Spec /\ \A c \in Calls : WF_vars(Serving(c)) /\ SF_vars(Locking(c))
=============================================================================
