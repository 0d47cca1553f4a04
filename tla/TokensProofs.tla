----------------------------- MODULE TokensProofs -----------------------------
(***************************************************************************)
(* Proofs that a shared token outlives the requests sent with it, that it  *)
(* is replaced only when it has run out, that errors do not show it, and   *)
(* that a call sends no more requests than it has queries, for any number  *)
(* of calls, any plans and lifetimes and any skew of two timeouts.         *)
(***************************************************************************)
EXTENDS TokensProperties, SequenceTheorems, FiniteSetTheorems, TLAPS

LEMMA Times == /\ Floor \in Nat \ {0} /\ Timeout \in Nat /\ Skew \in Nat
               /\ Skew >= 2 * Timeout /\ NoCall \notin Calls /\ Lifetimes \subseteq Nat
BY TokensConstants

LEMMA PlansAreQueries == Plans \subseteq Seq(Nat) \ {<<>>} /\ <<1>> \in Plans
<1>1. Seq(Nat \ {0}) \subseteq Seq(Nat)
  OBVIOUS
<1> QED BY <1>1, TokensConstants

LEMMA TtlNat == ASSUME NEW life \in Nat PROVE Ttl(life) \in Nat /\ Ttl(life) >= Floor
BY Times DEF Ttl

Margin(tk, exp) ==
    tk.life >= Skew + Floor => exp <= tk.ends + Timeout - Skew

\* What holds of the token request and of the cache
CacheInv ==
    /\ holder # NoCall => ~Usable
    /\ Margin(token, expiry)
    /\ \A c \in Calls : pc[c] = "posted" =>
           reply.id # 0 /\ since[c] + reply.life <= reply.ends

\* What holds of a call: how long ago its token was good, and that it is covered
CallInv(c) ==
    /\ echo[c] = {}
    /\ Exchanging(c) => since[c] <= now /\ now <= since[c] + Timeout
    /\ pc[c] = "bearer" => now < expiry + waited[c]
    /\ pc[c] \in {"secrets", "flight"} => Margin(sent[c].token, sent[c].expiry)
    /\ pc[c] = "secrets" => now < sent[c].expiry + waited[c]
    /\ pc[c] = "flight" =>
           /\ since[c] < sent[c].expiry + waited[c]
           /\ sent[c].token.id \in sent[c].secrets

\* TypeOK, by what the actions change together
CacheTyped == provider \in Providers /\ now \in Nat /\ issued \in Nat
              /\ token \in Token /\ reply \in Token /\ expiry \in Nat
QueriesTyped == /\ asked \in [Calls -> Plans] /\ plan \in [Calls -> Seq(Nat) \ {<<>>}]
                /\ requests \in [Calls -> Nat]
RequestTyped == /\ since \in [Calls -> Nat] /\ waited \in [Calls -> Nat]
                /\ sent \in [Calls -> [token: Token, expiry: Nat, secrets: SUBSET Nat]]
                /\ echo \in [Calls -> SUBSET Nat]
HolderTyped ==
    /\ pc \in [Calls -> {"idle", "ensure", "post", "posted", "bearer", "secrets", "flight",
                         "scrub", "done"}]
    /\ holder \in Calls \cup {NoCall}
    /\ \A c \in Calls : pc[c] \in {"post", "posted"} <=> holder = c

TokensInv == TypeOK /\ CacheInv /\ \A c \in Calls : CallInv(c)
-----------------------------------------------------------------------------
\* What AfterFailure leaves of a plan is a plan.
LEMMA PlanLeft ==
    ASSUME NEW p \in Seq(Nat) \ {<<>>}
    PROVE  /\ Head(p) > 1 => <<Head(p) - 1>> \o Tail(p) \in Seq(Nat) \ {<<>>}
           /\ Len(p) > 1 => Tail(p) \in Seq(Nat) \ {<<>>}
<1>1. Head(p) \in Nat /\ Tail(p) \in Seq(Nat) /\ Len(Tail(p)) = Len(p) - 1
  BY HeadTailProperties
<1>2. Len(<<>>) = 0
  OBVIOUS
<1>3. ASSUME Head(p) > 1, NEW q, q = <<Head(p) - 1>>
      PROVE  q \o Tail(p) \in Seq(Nat) \ {<<>>}
  <2>1. q \in Seq(Nat) /\ Len(q) = 1
    BY <1>1, <1>3
  <2>2. q \o Tail(p) \in Seq(Nat) /\ Len(q \o Tail(p)) = 1 + Len(Tail(p))
    BY <1>1, <2>1, ConcatProperties
  <2>3. Len(Tail(p)) \in Nat
    BY <1>1
  <2> QED BY <1>2, <2>2, <2>3
<1>4. Len(p) > 1 => Tail(p) \in Seq(Nat) \ {<<>>}
  <2>1. Len(p) \in Nat
    BY LenProperties
  <2>2. \A n \in Nat : n > 1 => n - 1 # 0
    OBVIOUS
  <2> QED BY <1>1, <1>2, <2>1, <2>2, Zenon
<1> QED BY <1>3, <1>4

\* A failure leaves the variables that it decides about in their domains.
LEMMA AfterFailureTyped ==
    ASSUME NEW c \in Calls, NEW s \in Statuses, AfterFailure(c, s), TypeOK
    PROVE  /\ plan' \in [Calls -> Seq(Nat) \ {<<>>}]
           /\ asked' \in [Calls -> Plans] /\ requests' \in [Calls -> Nat]
           /\ \E l \in {"ensure", "idle"} : pc' = [pc EXCEPT ![c] = l]
<1> DEFINE P == Seq(Nat) \ {<<>>}
<1>0. plan \in [Calls -> P] /\ plan[c] \in P
  BY DEF TypeOK
<1>1. CASE s = 400 /\ Head(plan[c]) > 1 /\ Retry(c) /\ Again(c)
  <2>1. PICK q \in P : q = <<Head(plan[c]) - 1>> \o Tail(plan[c])
    BY <1>0, <1>1, PlanLeft
  <2>2. plan' = [plan EXCEPT ![c] = q]
    BY <1>1, <2>1 DEF Retry
  <2>3. plan' \in [Calls -> P]
    BY <1>0, <2>2
  <2> QED BY <1>1, <2>3 DEF Again, Goto, TypeOK
<1>2. CASE Len(plan[c]) > 1 /\ Fallback(c) /\ Again(c)
  <2>1. PICK q \in P : q = Tail(plan[c])
    BY <1>0, <1>2, PlanLeft
  <2>2. plan' = [plan EXCEPT ![c] = q]
    BY <1>2, <2>1 DEF Fallback
  <2>3. plan' \in [Calls -> P]
    BY <1>0, <2>2
  <2> QED BY <1>2, <2>3 DEF Again, Goto, TypeOK
<1>3. CASE Return(c)
  <2>1. Single \in P /\ Single \in Plans
    BY PlansAreQueries DEF Single
  <2>2. plan' = [plan EXCEPT ![c] = Single] /\ asked' = [asked EXCEPT ![c] = Single]
    BY <1>3 DEF Return
  <2>3. plan' \in [Calls -> P] /\ asked' \in [Calls -> Plans]
    BY <1>0, <2>1, <2>2 DEF TypeOK
  <2> QED BY <1>3, <2>3 DEF Return, Goto, TypeOK
<1> QED BY <1>1, <1>2, <1>3 DEF AfterFailure
-----------------------------------------------------------------------------
\* Calls is not empty here, and a counter that is not negative stays so.
LEMMA TokensInitInv == Init => TokensInv
<1> SUFFICES ASSUME Init PROVE TokensInv
  OBVIOUS
<1>1. Single \in Plans /\ Single \in Seq(Nat) \ {<<>>}
  BY PlansAreQueries DEF Single
<1>2. TypeOK
  BY <1>1, Times DEF Init, TypeOK, Token, NoToken, NoRequest
<1>3. CacheInv
  BY Times DEF Init, CacheInv, Margin, NoToken
<1>4. \A c \in Calls : CallInv(c)
  BY DEF Init, CallInv, Exchanging
<1> QED BY <1>2, <1>3, <1>4 DEF TokensInv

LEMMA TypeParts == TypeOK <=> CacheTyped /\ QueriesTyped /\ RequestTyped /\ HolderTyped
BY DEF TypeOK, CacheTyped, QueriesTyped, RequestTyped, HolderTyped

LEMMA TypeStep == TypeOK /\ [Next]_vars => TypeOK'
<1> SUFFICES ASSUME TypeOK, [Next]_vars
             PROVE  CacheTyped' /\ QueriesTyped' /\ RequestTyped' /\ HolderTyped'
  BY TypeParts DEF TypeOK, CacheTyped, QueriesTyped, RequestTyped, HolderTyped
<1>a. CacheTyped /\ QueriesTyped /\ RequestTyped /\ HolderTyped
  BY TypeParts
<1>b. Single \in Plans /\ Single \in Seq(Nat) \ {<<>>}
  BY PlansAreQueries DEF Single
<1>c. NoToken \in Token /\ NoRequest \in [token: Token, expiry: Nat, secrets: SUBSET Nat]
  BY DEF NoToken, NoRequest, Token
<1> USE DEF cache, request, Goto
<1>0. CASE UNCHANGED vars
  BY <1>0, <1>a DEF vars, CacheTyped, QueriesTyped, RequestTyped, HolderTyped
<1>1. CASE Tick
  <2>1. CacheTyped'
    BY <1>1, <1>a DEF Tick, CacheTyped
  <2>2. QueriesTyped'
    BY <1>1, <1>a DEF Tick, QueriesTyped
  <2>3. RequestTyped'
    BY <1>1, <1>a DEF Tick, RequestTyped
  <2>4. HolderTyped'
    BY <1>1, <1>a DEF Tick, HolderTyped
  <2> QED BY <2>1, <2>2, <2>3, <2>4
<1>2. ASSUME NEW c \in Calls, Call(c)
      PROVE  CacheTyped' /\ QueriesTyped' /\ RequestTyped' /\ HolderTyped'
  <2>1. CacheTyped'
    BY <1>2, <1>a DEF Call, CacheTyped
  <2>2. QueriesTyped'
    BY <1>2, <1>a, PlansAreQueries DEF Call, QueriesTyped
  <2>3. RequestTyped'
    BY <1>2, <1>a DEF Call, RequestTyped
  <2>4. HolderTyped'
    BY <1>2, <1>a DEF Call, HolderTyped
  <2> QED BY <2>1, <2>2, <2>3, <2>4
<1>3. ASSUME NEW c \in Calls, EnsureToken(c)
      PROVE  CacheTyped' /\ QueriesTyped' /\ RequestTyped' /\ HolderTyped'
  <2>1. CacheTyped'
    BY <1>3, <1>a DEF EnsureToken, Free, CacheTyped
  <2>2. QueriesTyped'
    BY <1>3, <1>a DEF EnsureToken, Free, QueriesTyped
  <2>3. RequestTyped'
    BY <1>3, <1>a DEF EnsureToken, Free, RequestTyped, CacheTyped
  <2>4. HolderTyped'
    <3>1. CASE Usable
      BY <1>3, <1>a, <3>1 DEF EnsureToken, HolderTyped
    <3>2. CASE ~Usable
      BY <1>3, <1>a, <3>2, Times DEF EnsureToken, Free, HolderTyped
    <3> QED BY <3>1, <3>2
  <2> QED BY <2>1, <2>2, <2>3, <2>4
<1>4. ASSUME NEW c \in Calls, Issue(c)
      PROVE  CacheTyped' /\ QueriesTyped' /\ RequestTyped' /\ HolderTyped'
  <2>1. CacheTyped'
    BY <1>4, <1>a, Times DEF Issue, Token, CacheTyped
  <2>2. QueriesTyped'
    BY <1>4, <1>a DEF Issue, QueriesTyped
  <2>3. RequestTyped'
    BY <1>4, <1>a DEF Issue, RequestTyped
  <2>4. HolderTyped'
    BY <1>4, <1>a DEF Issue, HolderTyped
  <2> QED BY <2>1, <2>2, <2>3, <2>4
<1>5. ASSUME NEW c \in Calls, TokenArrives(c)
      PROVE  CacheTyped' /\ QueriesTyped' /\ RequestTyped' /\ HolderTyped'
  <2>1. CacheTyped'
    BY <1>5, <1>a, <1>c, TtlNat DEF TokenArrives, Token, CacheTyped
  <2>2. QueriesTyped'
    BY <1>5, <1>a DEF TokenArrives, QueriesTyped
  <2>3. RequestTyped'
    BY <1>5, <1>a DEF TokenArrives, RequestTyped
  <2>4. HolderTyped'
    BY <1>5, <1>a, Times DEF TokenArrives, HolderTyped
  <2> QED BY <2>1, <2>2, <2>3, <2>4
<1>6. ASSUME NEW c \in Calls, SetAuth(c)
      PROVE  CacheTyped' /\ QueriesTyped' /\ RequestTyped' /\ HolderTyped'
  <2>1. CacheTyped'
    BY <1>6, <1>a DEF SetAuth, Free, CacheTyped
  <2>2. QueriesTyped'
    BY <1>6, <1>a DEF SetAuth, Free, QueriesTyped
  <2>3. RequestTyped'
    BY <1>6, <1>a DEF SetAuth, Free, CacheTyped, RequestTyped
  <2>4. HolderTyped'
    BY <1>6, <1>a DEF SetAuth, Free, HolderTyped
  <2> QED BY <2>1, <2>2, <2>3, <2>4
<1>7. ASSUME NEW c \in Calls, AllSecrets(c)
      PROVE  CacheTyped' /\ QueriesTyped' /\ RequestTyped' /\ HolderTyped'
  <2>1. CacheTyped'
    BY <1>7, <1>a DEF AllSecrets, Free, CacheTyped
  <2>2. QueriesTyped'
    BY <1>7, <1>a DEF AllSecrets, Free, QueriesTyped
  <2>3. RequestTyped'
    <3>1. Captured(c) \in SUBSET Nat
      BY <1>a DEF Captured, Secret, Token, RequestTyped, CacheTyped
    <3> QED BY <1>7, <1>a, <3>1 DEF AllSecrets, RequestTyped, CacheTyped
  <2>4. HolderTyped'
    BY <1>7, <1>a DEF AllSecrets, Free, HolderTyped
  <2> QED BY <2>1, <2>2, <2>3, <2>4
<1>8. ASSUME NEW c \in Calls, Succeed(c)
      PROVE  CacheTyped' /\ QueriesTyped' /\ RequestTyped' /\ HolderTyped'
  <2>1. CacheTyped'
    BY <1>8, <1>a DEF Succeed, CacheTyped
  <2>2. QueriesTyped'
    <3>1. CASE UNCHANGED <<asked, plan, requests>>
      BY <1>a, <3>1 DEF QueriesTyped
    <3>2. CASE Return(c)
      BY <1>a, <1>b, <3>2 DEF Return, QueriesTyped
    <3> QED BY <1>8, <3>1, <3>2 DEF Succeed
  <2>3. RequestTyped'
    BY <1>8, <1>a, <1>c DEF Succeed, Answered, RequestTyped
  <2>4. HolderTyped'
    BY <1>8, <1>a DEF Succeed, Return, HolderTyped
  <2> QED BY <2>1, <2>2, <2>3, <2>4
<1>9. ASSUME NEW c \in Calls, Fail(c)
      PROVE  CacheTyped' /\ QueriesTyped' /\ RequestTyped' /\ HolderTyped'
  <2>1. CacheTyped'
    BY <1>9, <1>a DEF Fail, CacheTyped
  <2>2. QueriesTyped'
    BY <1>9, <1>a DEF Fail, QueriesTyped
  <2>3. RequestTyped'
    <3>1. PICK shown \in {{}, {sent[c].token.id}} :
                echo' = [echo EXCEPT ![c] = @ \cup (shown \ sent[c].secrets)]
      BY <1>9 DEF Fail
    <3>2. echo[c] \cup (shown \ sent[c].secrets) \in SUBSET Nat
      BY <1>a, <3>1 DEF RequestTyped, Token
    <3>3. echo' \in [Calls -> SUBSET Nat]
      BY <1>a, <3>1, <3>2 DEF RequestTyped
    <3> QED BY <1>9, <1>a, <1>c, <3>3 DEF Fail, Answered, RequestTyped
  <2>4. HolderTyped'
    BY <1>9, <1>a DEF Fail, HolderTyped
  <2> QED BY <2>1, <2>2, <2>3, <2>4
<1>10. ASSUME NEW c \in Calls, Done(c)
      PROVE  CacheTyped' /\ QueriesTyped' /\ RequestTyped' /\ HolderTyped'
  <2>1. CacheTyped'
    BY <1>10, <1>a DEF Done, CacheTyped
  <2>2. QueriesTyped'
    BY <1>10, <1>a, <1>b DEF Done, Return, QueriesTyped
  <2>3. RequestTyped'
    BY <1>10, <1>a DEF Done, RequestTyped
  <2>4. HolderTyped'
    BY <1>10, <1>a DEF Done, Return, HolderTyped
  <2> QED BY <2>1, <2>2, <2>3, <2>4
<1>11. ASSUME NEW c \in Calls, TokenFails(c)
       PROVE  CacheTyped' /\ QueriesTyped' /\ RequestTyped' /\ HolderTyped'
  <2>1. CacheTyped'
    BY <1>11, <1>a, <1>c DEF TokenFails, CacheTyped
  <2>2. QueriesTyped'
    BY <1>11, <1>a, AfterFailureTyped DEF TokenFails, QueriesTyped
  <2>3. RequestTyped'
    BY <1>11, <1>a DEF TokenFails, RequestTyped
  <2>4. \E l \in {"ensure", "idle", "scrub"} : pc' = [pc EXCEPT ![c] = l]
    BY <1>11, AfterFailureTyped DEF TokenFails
  <2>5. HolderTyped'
    BY <1>11, <1>a, <2>4, Times DEF TokenFails, HolderTyped
  <2> QED BY <2>1, <2>2, <2>3, <2>5
<1>12. ASSUME NEW c \in Calls, Scrub(c)
       PROVE  CacheTyped' /\ QueriesTyped' /\ RequestTyped' /\ HolderTyped'
  <2>1. CacheTyped'
    BY <1>12, <1>a DEF Scrub, CacheTyped
  <2>2. QueriesTyped'
    BY <1>12, <1>a, AfterFailureTyped DEF Scrub, QueriesTyped
  <2>3. RequestTyped'
    BY <1>12, <1>a DEF Scrub, RequestTyped
  <2>4. \E l \in {"ensure", "idle"} : pc' = [pc EXCEPT ![c] = l]
    BY <1>12, AfterFailureTyped DEF Scrub
  <2>5. HolderTyped'
    BY <1>12, <1>a, <2>4 DEF Scrub, HolderTyped
  <2> QED BY <2>1, <2>2, <2>3, <2>5
<1> QED
  BY <1>0, <1>1, <1>2, <1>3, <1>4, <1>5, <1>6, <1>7, <1>8, <1>9, <1>10, <1>11, <1>12
  DEF Next, Locking, Serving
-----------------------------------------------------------------------------
\* Nobody else touches the cache while a token request is under way.
LEMMA OneHolder ==
    ASSUME HolderTyped, NEW c \in Calls, NEW d \in Calls,
           pc[c] \in {"post", "posted"}, pc[d] \in {"post", "posted"}
    PROVE  c = d
BY DEF HolderTyped

LEMMA CacheStep == TokensInv /\ [Next]_vars => CacheInv'
<1> SUFFICES ASSUME TokensInv, [Next]_vars PROVE CacheInv'
  OBVIOUS
<1>a. /\ CacheTyped /\ HolderTyped /\ CacheInv
      /\ since \in [Calls -> Nat] /\ waited \in [Calls -> Nat]
      /\ \A c \in Calls : CallInv(c)
  BY TypeParts DEF TokensInv, RequestTyped
<1>b. \A c \in Calls, l \in {"idle", "ensure", "post", "bearer", "secrets", "flight", "scrub", "done"} :
          UNCHANGED <<now, holder, token, expiry, reply>>
          /\ (\A d \in Calls \ {c} : since'[d] = since[d])
          /\ pc' = [pc EXCEPT ![c] = l] => CacheInv'
  BY <1>a DEF CacheInv, Usable, HolderTyped, Margin
<1> USE DEF cache, request, Goto
<1>0. CASE UNCHANGED vars
  BY <1>0, <1>a DEF vars, CacheInv, Usable, Margin
<1>1. CASE Tick
  BY <1>1, <1>a DEF Tick, CacheInv, Usable, CacheTyped, Margin
<1>2. ASSUME NEW c \in Calls, Call(c) PROVE CacheInv'
  BY <1>2, <1>b DEF Call
<1>3. ASSUME NEW c \in Calls, EnsureToken(c) PROVE CacheInv'
  <2>1. CASE Usable
    BY <1>3, <1>b, <2>1 DEF EnsureToken
  <2>2. CASE ~Usable
    BY <1>3, <1>a, <2>2 DEF EnsureToken, CacheInv, Usable, HolderTyped, Free, Margin
  <2> QED BY <2>1, <2>2
<1>4. ASSUME NEW c \in Calls, Issue(c) PROVE CacheInv'
  <2>1. PICK life \in Lifetimes :
            reply' = [id |-> issued + 1, life |-> life, ends |-> now + life]
    BY <1>4 DEF Issue
  <2>2. reply'.id # 0 /\ since[c] + reply'.life <= reply'.ends
    BY <1>4, <1>a, <2>1, Times DEF Issue, CacheTyped, CallInv, Exchanging
  <2>3. \A d \in Calls \ {c} : pc'[d] # "posted"
    BY <1>4, <1>a DEF Issue, HolderTyped
  <2> QED BY <1>4, <1>a, <2>2, <2>3 DEF Issue, CacheInv, Usable, HolderTyped, Margin
<1>5. ASSUME NEW c \in Calls, TokenArrives(c) PROVE CacheInv'
  <2>1. \A d \in Calls : pc'[d] # "posted"
    BY <1>5, <1>a DEF TokenArrives, HolderTyped
  <2>2. now <= since[c] + Timeout /\ since[c] + reply.life <= reply.ends
    BY <1>5, <1>a DEF TokenArrives, CacheInv, CallInv, Exchanging
  <2>3. Margin(reply, now + Ttl(reply.life))
    BY <1>a, <2>2, Times DEF Margin, Ttl, CacheTyped, Token
  <2> QED BY <1>5, <2>1, <2>3 DEF TokenArrives, CacheInv, Margin
<1>6. ASSUME NEW c \in Calls, TokenFails(c) PROVE CacheInv'
  <2>1. \E l \in {"ensure", "idle", "scrub"} : pc' = [pc EXCEPT ![c] = l]
    BY <1>6, AfterFailureTyped DEF TokenFails, TokensInv
  <2>2. \A d \in Calls : pc'[d] # "posted"
    BY <1>6, <1>a, <2>1 DEF TokenFails, HolderTyped
  <2> QED BY <1>6, <1>a, <2>2 DEF TokenFails, CacheInv, Margin
<1>7. ASSUME NEW c \in Calls, SetAuth(c) PROVE CacheInv'
  BY <1>7, <1>b DEF SetAuth
<1>8. ASSUME NEW c \in Calls, AllSecrets(c) PROVE CacheInv'
  BY <1>8, <1>a, <1>b DEF AllSecrets
<1>9. ASSUME NEW c \in Calls, Succeed(c) PROVE CacheInv'
  BY <1>9, <1>a, <1>b DEF Succeed, Answered, Return
<1>10. ASSUME NEW c \in Calls, Fail(c) PROVE CacheInv'
  BY <1>10, <1>a, <1>b DEF Fail, Answered
<1>11. ASSUME NEW c \in Calls, Scrub(c) PROVE CacheInv'
  <2>1. \E l \in {"ensure", "idle"} : pc' = [pc EXCEPT ![c] = l]
    BY <1>11, AfterFailureTyped DEF Scrub, TokensInv
  <2> QED BY <1>11, <1>b, <2>1 DEF Scrub
<1>12. ASSUME NEW c \in Calls, Done(c) PROVE CacheInv'
  BY <1>12, <1>b DEF Done, Return
<1> QED
  BY <1>0, <1>1, <1>2, <1>3, <1>4, <1>5, <1>6, <1>7, <1>8, <1>9, <1>10, <1>11, <1>12
  DEF Next, Locking, Serving
-----------------------------------------------------------------------------
\* What a call relies on is disturbed by nobody but time and a new token.
LEMMA CallStep ==
    ASSUME TokensInv, [Next]_vars, NEW d \in Calls
    PROVE  CallInv(d)'
<1>a. /\ CacheTyped /\ HolderTyped /\ CacheInv /\ CallInv(d) /\ RequestTyped
  BY TypeParts DEF TokensInv
<1>b. ASSUME now' = now, expiry' = expiry, pc'[d] = pc[d], since'[d] = since[d],
             waited'[d] = waited[d], sent'[d] = sent[d], echo'[d] = echo[d]
      PROVE  CallInv(d)'
  BY <1>a, <1>b DEF CallInv, Exchanging, Margin
<1> USE DEF cache, request, Goto
<1>0. CASE UNCHANGED vars
  BY <1>0, <1>b DEF vars
<1>1. CASE Tick
  <2>1. now' = now + 1 /\ UNCHANGED <<expiry, pc, since, sent, echo>>
    BY <1>1 DEF Tick
  <2>2. Exchanging(d) => now + 1 <= since[d] + Timeout
    BY <1>1, <1>a, Times DEF Tick, CacheTyped, RequestTyped
  <2>3. waited'[d] = IF pc[d] \in {"bearer", "secrets"} THEN waited[d] + 1 ELSE waited[d]
    BY <1>1 DEF Tick
  <2>4. now \in Nat /\ since[d] \in Nat /\ waited[d] \in Nat /\ expiry \in Nat /\ sent[d].expiry \in Nat
    BY <1>a DEF CacheTyped, RequestTyped
  <2> QED BY <1>a, <2>1, <2>2, <2>3, <2>4 DEF CallInv, Exchanging, Margin
<1>2. ASSUME NEW c \in Calls, Call(c) PROVE CallInv(d)'
  <2>1. CASE c = d
    BY <1>2, <1>a, <2>1 DEF Call, CallInv, Exchanging, HolderTyped, RequestTyped
  <2>2. CASE c # d
    BY <1>2, <1>a, <1>b, <2>2 DEF Call, HolderTyped, RequestTyped
  <2> QED BY <2>1, <2>2
<1>3. ASSUME NEW c \in Calls, EnsureToken(c) PROVE CallInv(d)'
  <2>1. CASE c = d
    <3>1. CASE Usable
      BY <1>3, <1>a, <2>1, <3>1 DEF EnsureToken, CallInv, Exchanging, HolderTyped, RequestTyped, CacheTyped, Usable
    <3>2. CASE ~Usable
      BY <1>3, <1>a, <2>1, <3>2, Times DEF EnsureToken, CallInv, Exchanging, HolderTyped, RequestTyped, CacheTyped
    <3> QED BY <3>1, <3>2
  <2>2. CASE c # d
    BY <1>3, <1>a, <1>b, <2>2 DEF EnsureToken, HolderTyped, RequestTyped
  <2> QED BY <2>1, <2>2
<1>4. ASSUME NEW c \in Calls, Issue(c) PROVE CallInv(d)'
  <2>1. CASE c = d
    BY <1>4, <1>a, <2>1 DEF Issue, CallInv, Exchanging, HolderTyped
  <2>2. CASE c # d
    BY <1>4, <1>a, <1>b, <2>2 DEF Issue, HolderTyped
  <2> QED BY <2>1, <2>2
<1>5. ASSUME NEW c \in Calls, TokenArrives(c) PROVE CallInv(d)'
  <2>1. now' = now /\ expiry' = now + Ttl(reply.life) /\ UNCHANGED <<waited, sent, echo>>
    BY <1>5 DEF TokenArrives
  <2>2. now < expiry' + waited'[d]
    BY <1>a, <2>1, TtlNat, Times DEF CacheTyped, RequestTyped, Token
  <2>3. CASE c = d
    BY <1>5, <1>a, <2>1, <2>2, <2>3 DEF TokenArrives, CallInv, Exchanging, HolderTyped
  <2>4. CASE c # d
    <3>1. pc'[d] = pc[d] /\ since'[d] = since[d]
      BY <1>5, <1>a, <2>4 DEF TokenArrives, HolderTyped, RequestTyped
    <3> QED BY <1>a, <2>1, <2>2, <3>1 DEF CallInv, Exchanging, Margin
  <2> QED BY <2>3, <2>4
<1>6. ASSUME NEW c \in Calls, TokenFails(c) PROVE CallInv(d)'
  <2>1. PICK l \in {"ensure", "idle", "scrub"} : pc' = [pc EXCEPT ![c] = l]
    BY <1>6, AfterFailureTyped DEF TokenFails, TokensInv
  <2>2. CASE c = d
    BY <1>6, <1>a, <2>1, <2>2 DEF TokenFails, CallInv, Exchanging, HolderTyped
  <2>3. CASE c # d
    BY <1>6, <1>a, <1>b, <2>1, <2>3 DEF TokenFails, HolderTyped, RequestTyped
  <2> QED BY <2>2, <2>3
<1>7. ASSUME NEW c \in Calls, SetAuth(c) PROVE CallInv(d)'
  <2>1. CASE c = d
    BY <1>7, <1>a, <2>1 DEF SetAuth, CallInv, CacheInv, Exchanging, HolderTyped, RequestTyped, Margin
  <2>2. CASE c # d
    BY <1>7, <1>a, <1>b, <2>2 DEF SetAuth, HolderTyped, RequestTyped
  <2> QED BY <2>1, <2>2
<1>8. ASSUME NEW c \in Calls, AllSecrets(c) PROVE CallInv(d)'
  <2>1. CASE c = d
    <3>1. /\ pc' = [pc EXCEPT ![c] = "flight"] /\ since'[d] = now
          /\ UNCHANGED <<now, expiry, waited, echo>>
          /\ sent'[d].token = sent[d].token /\ sent'[d].expiry = sent[d].expiry
          /\ sent'[d].secrets = Captured(d)
      BY <1>8, <1>a, <2>1 DEF AllSecrets, RequestTyped
    <3>2. pc'[d] = "flight" /\ pc[d] = "secrets"
      BY <1>8, <1>a, <2>1, <3>1 DEF AllSecrets, HolderTyped
    <3> QED BY <1>a, <3>1, <3>2, Times DEF CallInv, Exchanging, Margin, Captured, CacheTyped
  <2>2. CASE c # d
    BY <1>8, <1>a, <1>b, <2>2 DEF AllSecrets, HolderTyped, RequestTyped
  <2> QED BY <2>1, <2>2
<1>9. ASSUME NEW c \in Calls, Succeed(c) PROVE CallInv(d)'
  <2>1. \E l \in {"done", "idle"} : pc' = [pc EXCEPT ![c] = l]
    BY <1>9 DEF Succeed, Return
  <2>2. CASE c = d
    BY <1>9, <1>a, <2>1, <2>2 DEF Succeed, CallInv, Exchanging, HolderTyped
  <2>3. CASE c # d
    BY <1>9, <1>a, <1>b, <2>1, <2>3 DEF Succeed, Answered, HolderTyped, RequestTyped
  <2> QED BY <2>2, <2>3
<1>10. ASSUME NEW c \in Calls, Fail(c) PROVE CallInv(d)'
  <2>1. CASE c = d
    <3>1. echo'[d] = {}
      BY <1>10, <1>a, <2>1 DEF Fail, CallInv, RequestTyped
    <3>2. pc'[d] = "scrub"
      BY <1>10, <1>a, <2>1 DEF Fail, HolderTyped
    <3> QED BY <3>1, <3>2 DEF CallInv, Exchanging
  <2>2. CASE c # d
    BY <1>10, <1>a, <1>b, <2>2 DEF Fail, Answered, HolderTyped, RequestTyped
  <2> QED BY <2>1, <2>2
<1>11. ASSUME NEW c \in Calls, Scrub(c) PROVE CallInv(d)'
  <2>1. PICK l \in {"ensure", "idle"} : pc' = [pc EXCEPT ![c] = l]
    BY <1>11, AfterFailureTyped DEF Scrub, TokensInv
  <2>2. CASE c = d
    <3>1. echo'[d] = {}
      BY <1>11, <1>a, <2>2 DEF Scrub, CallInv, RequestTyped
    <3> QED BY <1>11, <1>a, <2>1, <2>2, <3>1 DEF CallInv, Exchanging, HolderTyped
  <2>3. CASE c # d
    BY <1>11, <1>a, <1>b, <2>1, <2>3 DEF Scrub, HolderTyped, RequestTyped
  <2> QED BY <2>2, <2>3
<1>12. ASSUME NEW c \in Calls, Done(c) PROVE CallInv(d)'
  <2>1. pc' = [pc EXCEPT ![c] = "idle"]
    BY <1>12 DEF Done, Return
  <2>2. CASE c = d
    BY <1>12, <1>a, <2>1, <2>2 DEF Done, CallInv, Exchanging, HolderTyped
  <2>3. CASE c # d
    BY <1>12, <1>a, <1>b, <2>1, <2>3 DEF Done, HolderTyped
  <2> QED BY <2>2, <2>3
<1> QED
  BY <1>0, <1>1, <1>2, <1>3, <1>4, <1>5, <1>6, <1>7, <1>8, <1>9, <1>10, <1>11, <1>12
  DEF Next, Locking, Serving
-----------------------------------------------------------------------------
\* The inductive invariant of the shared token.
THEOREM TokensInvariant == Spec => []TokensInv
<1>1. TokensInv /\ [Next]_vars => TokensInv'
  BY TypeStep, CacheStep, CallStep DEF TokensInv
<1> QED BY <1>1, TokensInitInv, PTL DEF Spec

\* Every variable stays in its domain, and the mutex is held over a token request only.
THEOREM TokensTypeOK == Spec => []TypeOK
<1>1. TokensInv => TypeOK
  BY DEF TokensInv
<1> QED BY <1>1, TokensInvariant, PTL

\* A request is answered before its token ends, but for what its goroutine waited.
THEOREM TokensOutliveRequests == Spec => []TokenOutlivesRequest
<1>1. TokensInv => TokenOutlivesRequest
  <2> SUFFICES ASSUME TokensInv, NEW c \in Calls, pc[c] = "flight",
                      sent[c].token.life >= Skew + Floor
               PROVE  now < sent[c].token.ends + waited[c]
    BY DEF TokenOutlivesRequest
  <2>1. /\ now <= since[c] + Timeout
        /\ since[c] < sent[c].expiry + waited[c]
        /\ sent[c].expiry <= sent[c].token.ends + Timeout - Skew
    BY DEF TokensInv, CallInv, Exchanging, Margin
  <2>2. /\ now \in Nat /\ since[c] \in Nat /\ waited[c] \in Nat
        /\ sent[c].expiry \in Nat /\ sent[c].token.ends \in Nat
    BY DEF TokensInv, TypeOK, Token
  <2> QED BY <2>1, <2>2, Times
<1> QED BY <1>1, TokensInvariant, PTL

\* No call returns an error that shows the token it was sent with.
THEOREM TokensErrorsAreClean == Spec => []ErrorsAreClean
<1>1. TokensInv => ErrorsAreClean
  BY DEF TokensInv, CallInv, ErrorsAreClean
<1> QED BY <1>1, TokensInvariant, PTL

\* A token is replaced only after it has run out.
THEOREM TokensRefreshedOnce == Spec => RefreshedOnce
<1>1. TokensInv /\ [Next]_vars => [token' # token => ~Usable]_vars
  <2> SUFFICES ASSUME TokensInv, Next, token' # token PROVE ~Usable
    BY DEF vars
  <2>1. PICK c \in Calls : TokenArrives(c)
    BY DEF Next, Locking, Serving, Tick, Call, EnsureToken, Issue, TokenFails, SetAuth,
           AllSecrets, Succeed, Fail, Scrub, Done, cache
  <2>2. holder # NoCall
    BY <2>1, Times DEF TokenArrives, TokensInv, TypeOK
  <2> QED BY <2>2 DEF TokensInv, CacheInv
<1> QED BY <1>1, TokensInvariant, PTL DEF Spec, RefreshedOnce

-----------------------------------------------------------------------------
(* The queries that a call has left *)

Plan == Seq(Nat \ {0}) \ {<<>>}

LEMMA QueriesFinite ==
    ASSUME NEW p \in Plan
    PROVE  /\ IsFiniteSet(QueriesOf(p)) /\ Queries(p) \in Nat
           /\ \A x : x \in QueriesOf(p) <=>
                         \E i \in 1..Len(p) : \E j \in 1..p[i] : x = <<i, j>>
<1>1. Len(p) \in Nat /\ DOMAIN p = 1..Len(p) /\ \A i \in 1..Len(p) : p[i] \in Nat \ {0}
  BY DEF Plan
<1>2. \A x : x \in QueriesOf(p) <=> \E i \in 1..Len(p) : \E j \in 1..p[i] : x = <<i, j>>
  <2>1. ASSUME NEW x PROVE x \in QueriesOf(p) <=> \E i \in 1..Len(p) : x \in {i} \X (1..p[i])
    BY <1>1 DEF QueriesOf
  <2>2. ASSUME NEW x, NEW i PROVE x \in {i} \X (1..p[i]) <=> \E j \in 1..p[i] : x = <<i, j>>
    OBVIOUS
  <2> QED BY <2>1, <2>2
<1> DEFINE Group(i) == {i} \X (1..p[i])
           F == {Group(i) : i \in DOMAIN p}
           f == [i \in DOMAIN p |-> Group(i)]
<1>3. IsFiniteSet(DOMAIN p)
  BY <1>1, FS_Interval
<1>4. \A T \in F : IsFiniteSet(T)
  <2> SUFFICES ASSUME NEW i \in DOMAIN p PROVE IsFiniteSet(Group(i))
    OBVIOUS
  <2>1. IsFiniteSet({i}) /\ IsFiniteSet(1..p[i])
    <3>1. p[i] \in Int /\ 1 \in Int
      BY <1>1
    <3> QED BY <3>1, FS_Singleton, FS_Interval
  <2> QED BY <2>1, FS_Product
<1>5. IsFiniteSet(F)
  <2>1. f \in Surjection(DOMAIN p, F)
    BY DEF Surjection
  <2> QED BY <2>1, <1>3, FS_Surjection
<1>6. IsFiniteSet(UNION F)
  <2> HIDE DEF F
  <2> QED BY <1>4, <1>5, FS_UNION
<1>7. QueriesOf(p) = UNION F
  BY DEF QueriesOf
<1>8. IsFiniteSet(QueriesOf(p))
  BY <1>6, <1>7
<1> QED BY <1>2, <1>8, FS_CardinalityType DEF Queries

LEMMA SingleQuery == Single \in Plan /\ Queries(Single) = 1
<1>1. Single \in Seq(Nat \ {0}) /\ Len(Single) = 1 /\ Single[1] = 1
  BY DEF Single
<1>2. Single # <<>>
  BY DEF Single
<1>3. Single \in Plan
  BY <1>1, <1>2 DEF Plan
<1>4. QueriesOf(Single) = {<<1, 1>>}
  BY <1>1, <1>3, QueriesFinite
<1> QED BY <1>3, <1>4, FS_Singleton DEF Queries

LEMMA SomeQuery == ASSUME NEW p \in Plan PROVE <<1, 1>> \in QueriesOf(p) /\ Queries(p) >= 1
<1>1. Len(p) \in Nat \ {0} /\ p[1] \in Nat \ {0}
  <2>1. p \in Seq(Nat \ {0}) /\ p # <<>>
    BY DEF Plan
  <2>2. Len(p) \in Nat /\ Len(p) # 0
    BY <2>1, EmptySeq
  <2> QED BY <2>1, <2>2
<1>2. 1 \in 1..Len(p) /\ 1 \in 1..p[1]
  BY <1>1
<1>3. <<1, 1>> \in QueriesOf(p)
  BY <1>2, QueriesFinite
<1>4. Queries(p) # 0
  BY <1>3, QueriesFinite, FS_EmptySet DEF Queries
<1> QED BY <1>3, <1>4, QueriesFinite

\* A query that is not tried again
LEMMA RetriedLess ==
    ASSUME NEW p \in Plan, Head(p) > 1, NEW q, q = <<Head(p) - 1>> \o Tail(p)
    PROVE  q \in Plan /\ Queries(q) <= Queries(p) - 1
<1>1. p \in Seq(Nat \ {0}) /\ p # <<>>
  BY DEF Plan
<1>2. Len(p) \in Nat \ {0}
  BY <1>1, EmptySeq
<1>3. /\ Head(p) = p[1] /\ p[1] \in Nat \ {0} /\ Tail(p) \in Seq(Nat \ {0})
      /\ Len(Tail(p)) = Len(p) - 1
      /\ \A i \in 1..Len(p) - 1 : Tail(p)[i] = p[i + 1]
  BY <1>1, <1>2, HeadTailProperties
<1> DEFINE h == <<Head(p) - 1>>
<1>4. h \in Seq(Nat \ {0}) /\ Len(h) = 1 /\ h[1] = p[1] - 1
  BY <1>3
<1> HIDE DEF h
<1>5. /\ q \in Seq(Nat \ {0}) /\ Len(q) = 1 + Len(Tail(p))
      /\ \A i \in 1..Len(q) : q[i] = IF i <= 1 THEN h[i] ELSE Tail(p)[i - 1]
  BY <1>3, <1>4, ConcatProperties DEF h
<1>6. Len(q) = Len(p) /\ q[1] = p[1] - 1 /\ \A i \in 2..Len(p) : q[i] = p[i]
  <2>1. Len(q) = Len(p)
    BY <1>2, <1>3, <1>5
  <2>2. q[1] = p[1] - 1
    BY <2>1, <1>2, <1>4, <1>5
  <2>3. ASSUME NEW i \in 2..Len(p) PROVE q[i] = p[i]
    <3>1. i \in 1..Len(q) /\ ~(i <= 1) /\ i - 1 \in 1..Len(p) - 1 /\ (i - 1) + 1 = i
      BY <2>1, <1>2
    <3> QED BY <3>1, <1>3, <1>5
  <2> QED BY <2>1, <2>2, <2>3
<1>7. q \in Plan
  <2>1. q # <<>>
    BY <1>2, <1>5, <1>6, EmptySeq
  <2> QED BY <2>1, <1>5 DEF Plan
<1>8. QueriesOf(q) \in SUBSET (QueriesOf(p) \ {<<1, p[1]>>})
  <2> SUFFICES ASSUME NEW x \in QueriesOf(q) PROVE x \in QueriesOf(p) /\ x # <<1, p[1]>>
    OBVIOUS
  <2>0. \A y : y \in QueriesOf(q) <=> \E i \in 1..Len(q) : \E j \in 1..q[i] : y = <<i, j>>
    BY <1>7, QueriesFinite
  <2>1. PICK i \in 1..Len(q) : \E j \in 1..q[i] : x = <<i, j>>
    BY <2>0
  <2>2. PICK j \in 1..q[i] : x = <<i, j>>
    BY <2>1
  <2>3. i \in 1..Len(p) /\ p[i] \in Nat
    BY <1>1, <1>6, <2>1
  <2>4. CASE i = 1
    <3>1. j \in 1..p[i] /\ j # p[1]
      BY <1>3, <1>6, <2>2, <2>4
    <3> QED BY <3>1, <2>2, <2>3, <2>4, QueriesFinite
  <2>5. CASE i # 1
    <3>1. q[i] = p[i]
      BY <1>2, <1>6, <2>3, <2>5
    <3> QED BY <3>1, <2>2, <2>3, <2>5, QueriesFinite
  <2> QED BY <2>4, <2>5
<1>9. <<1, p[1]>> \in QueriesOf(p)
  BY <1>2, <1>3, QueriesFinite
<1>10. /\ IsFiniteSet(QueriesOf(p) \ {<<1, p[1]>>})
       /\ Cardinality(QueriesOf(p) \ {<<1, p[1]>>}) = Cardinality(QueriesOf(p)) - 1
  <2>1. IsFiniteSet(QueriesOf(p))
    BY QueriesFinite
  <2> QED BY <2>1, <1>9, FS_RemoveElement
<1>11. Cardinality(QueriesOf(q)) <= Cardinality(QueriesOf(p)) - 1
  BY <1>8, <1>10, FS_Subset
<1> QED BY <1>7, <1>11 DEF Queries

\* A group that is left behind
LEMMA FellBackLess ==
    ASSUME NEW p \in Plan, Len(p) > 1
    PROVE  Tail(p) \in Plan /\ Queries(Tail(p)) <= Queries(p) - 1
<1>1. p \in Seq(Nat \ {0}) /\ p # <<>> /\ Len(p) \in Nat
  BY DEF Plan
<1> DEFINE t == Tail(p)
<1>2. /\ t \in Seq(Nat \ {0}) /\ Len(t) = Len(p) - 1
      /\ \A i \in 1..Len(p) - 1 : t[i] = p[i + 1]
  BY <1>1, HeadTailProperties
<1> HIDE DEF t
<1>3. t \in Plan
  <2>1. Len(t) # 0
    <3>1. Len(t) = Len(p) - 1 /\ Len(p) \in Nat
      BY <1>1, <1>2
    <3>2. \A n \in Nat : n > 1 => n - 1 # 0
      OBVIOUS
    <3> QED BY <3>1, <3>2
  <2>2. Len(<<>>) = 0
    OBVIOUS
  <2> QED BY <2>1, <2>2, <1>2 DEF Plan
<1> DEFINE Q == QueriesOf(t)
           R == QueriesOf(p) \ {<<1, 1>>}
           f == [x \in Q |-> <<x[1] + 1, x[2]>>]
<1>4. ASSUME NEW x \in Q
      PROVE  /\ x = <<x[1], x[2]>> /\ x[1] \in Nat \ {0} /\ <<x[1] + 1, x[2]>> \in R
  <2>1. PICK i \in 1..Len(t) : \E j \in 1..t[i] : x = <<i, j>>
    BY <1>3, QueriesFinite
  <2>2. PICK j \in 1..t[i] : x = <<i, j>>
    BY <2>1
  <2>3. x[1] = i /\ x[2] = j /\ i + 1 \in 1..Len(p) /\ j \in 1..p[i + 1] /\ i \in Nat \ {0}
    BY <2>1, <2>2, <1>1, <1>2
  <2>4. <<i + 1, j>> \in QueriesOf(p) /\ <<i + 1, j>> # <<1, 1>>
    BY <2>3, QueriesFinite
  <2> QED BY <2>2, <2>3, <2>4
<1>5. f \in Injection(Q, R)
  <2>1. f \in [Q -> R]
    BY <1>4
  <2>2. ASSUME NEW x \in Q, NEW y \in Q, f[x] = f[y] PROVE x = y
    <3>1. x[1] + 1 = y[1] + 1 /\ x[2] = y[2]
      BY <2>2
    <3>2. x[1] \in Nat /\ y[1] \in Nat
      BY <1>4
    <3>3. x[1] = y[1]
      BY <3>1, <3>2
    <3> QED BY <3>1, <3>3, <1>4
  <2> QED BY <2>1, <2>2 DEF Injection, IsInjective
<1>6. <<1, 1>> \in QueriesOf(p)
  BY SomeQuery
<1>7. IsFiniteSet(R) /\ Cardinality(R) = Cardinality(QueriesOf(p)) - 1
  BY <1>6, QueriesFinite, FS_RemoveElement
<1>8. Cardinality(Q) <= Cardinality(R)
  <2> HIDE DEF Q, R, f
  <2> QED BY <1>5, <1>7, FS_Injection
<1> QED BY <1>3, <1>7, <1>8 DEF Queries, t

\* The requests that a call has sent and the queries that it has left are no more than it
\* was asked for, but for the query of a request that has been sent and not left behind.
Sending(l) == l \in {"flight", "scrub", "done"}
CallSends(c) ==
    /\ plan[c] \in Plan /\ asked[c] \in Plan
    /\ pc[c] = "idle" => requests[c] = 0
    /\ requests[c] + Queries(plan[c]) <= Queries(asked[c]) + (IF Sending(pc[c]) THEN 1 ELSE 0)
SentInv == \A c \in Calls : CallSends(c)

LEMMA SentInit == Init => SentInv
<1> SUFFICES ASSUME Init, NEW c \in Calls PROVE CallSends(c)
  BY DEF SentInv
<1>1. plan[c] = Single /\ asked[c] = Single /\ requests[c] = 0 /\ pc[c] = "idle"
  BY DEF Init
<1> QED BY <1>1, SingleQuery DEF CallSends, Sending

\* A call that a step leaves alone
LEMMA OthersSend ==
    ASSUME NEW d, CallSends(d), plan'[d] = plan[d], asked'[d] = asked[d],
           requests'[d] = requests[d], pc'[d] = pc[d]
    PROVE  CallSends(d)'
BY DEF CallSends

\* A call that starts, is ended, or asks for less
LEMMA FreshSends ==
    ASSUME NEW c, NEW p \in Plan, plan'[c] = p, asked'[c] = p, requests'[c] = 0
    PROVE  CallSends(c)'
<1>1. Queries(p) \in Nat
  BY QueriesFinite
<1> QED BY <1>1 DEF CallSends, Sending

LEMMA FailureSends ==
    ASSUME TypeOK, NEW c \in Calls, CallSends(c), NEW s, AfterFailure(c, s)
    PROVE  /\ CallSends(c)'
           /\ \A d \in Calls \ {c} : plan'[d] = plan[d] /\ asked'[d] = asked[d]
                                     /\ requests'[d] = requests[d] /\ pc'[d] = pc[d]
<1>0. plan[c] \in Plan /\ asked[c] \in Plan /\ requests[c] \in Nat
      /\ c \in DOMAIN plan /\ c \in DOMAIN asked /\ c \in DOMAIN requests /\ c \in DOMAIN pc
      /\ Calls = DOMAIN plan /\ Calls = DOMAIN asked /\ Calls = DOMAIN requests
      /\ Calls = DOMAIN pc
  BY DEF TypeOK, CallSends
<1>1. Queries(plan[c]) \in Nat /\ Queries(asked[c]) \in Nat
  BY <1>0, QueriesFinite
<1>2. ASSUME NEW q \in Plan, Queries(q) <= Queries(plan[c]) - 1,
             plan' = [plan EXCEPT ![c] = q], Again(c)
      PROVE  /\ CallSends(c)'
             /\ \A d \in Calls \ {c} : plan'[d] = plan[d] /\ asked'[d] = asked[d]
                                       /\ requests'[d] = requests[d] /\ pc'[d] = pc[d]
  <2>1. /\ plan'[c] = q /\ asked' = asked /\ requests' = requests /\ pc'[c] = "ensure"
        /\ \A d \in Calls \ {c} : plan'[d] = plan[d] /\ pc'[d] = pc[d]
    BY <1>0, <1>2 DEF Again, Goto
  <2>2. Queries(q) \in Nat
    BY QueriesFinite
  <2>3. requests[c] + Queries(plan[c]) <= Queries(asked[c]) + 1
    BY <1>0, <1>1 DEF CallSends
  <2>4. requests[c] + Queries(q) <= Queries(asked[c])
    BY <1>0, <1>1, <1>2, <2>2, <2>3
  <2>5. CallSends(c)'
    BY <1>0, <2>1, <2>4, <1>1, <2>2 DEF CallSends, Sending
  <2> QED BY <2>1, <2>5
<1>3. CASE Head(plan[c]) > 1 /\ Retry(c) /\ Again(c)
  <2>1. PICK q \in Plan : q = <<Head(plan[c]) - 1>> \o Tail(plan[c])
                          /\ Queries(q) <= Queries(plan[c]) - 1
    BY <1>0, <1>3, RetriedLess
  <2>2. plan' = [plan EXCEPT ![c] = q]
    BY <1>3, <2>1 DEF Retry
  <2> QED BY <1>2, <1>3, <2>1, <2>2
<1>4. CASE Len(plan[c]) > 1 /\ Fallback(c) /\ Again(c)
  <2>1. PICK q \in Plan : q = Tail(plan[c]) /\ Queries(q) <= Queries(plan[c]) - 1
    BY <1>0, <1>4, FellBackLess
  <2>2. plan' = [plan EXCEPT ![c] = q]
    BY <1>4, <2>1 DEF Fallback
  <2> QED BY <1>2, <1>4, <2>1, <2>2
<1>5. CASE Return(c)
  <2>1. /\ plan'[c] = Single /\ asked'[c] = Single /\ requests'[c] = 0
        /\ \A d \in Calls \ {c} : plan'[d] = plan[d] /\ asked'[d] = asked[d]
                                  /\ requests'[d] = requests[d] /\ pc'[d] = pc[d]
    BY <1>0, <1>5 DEF Return, Goto
  <2> QED BY <2>1, SingleQuery, FreshSends
<1> QED BY <1>3, <1>4, <1>5 DEF AfterFailure

LEMMA SentStep == TypeOK /\ SentInv /\ [Next]_vars => SentInv'
<1> SUFFICES ASSUME TypeOK, SentInv, [Next]_vars, NEW d \in Calls PROVE CallSends(d)'
  BY DEF SentInv
<1>0. /\ \A c \in Calls : CallSends(c) /\ requests[c] \in Nat
      /\ Calls = DOMAIN plan /\ Calls = DOMAIN asked /\ Calls = DOMAIN requests
      /\ Calls = DOMAIN pc
  BY DEF SentInv, TypeOK
\* The steps that ask, send and leave nothing behind
<1>1. ASSUME UNCHANGED <<asked, plan, requests>>,
             pc' = pc \/ \E c \in Calls : \E l : /\ Goto(c, l) /\ pc[c] # "idle" /\ l # "idle"
                                                 /\ Sending(pc[c]) => Sending(l)
      PROVE  CallSends(d)'
  <2>1. CASE pc'[d] = pc[d]
    BY <1>0, <1>1, <2>1, OthersSend
  <2>2. CASE pc'[d] # pc[d]
    <3>1. /\ pc[d] # "idle" /\ pc'[d] # "idle" /\ (Sending(pc[d]) => Sending(pc'[d]))
      BY <1>0, <1>1, <2>2 DEF Goto
    <3>2. plan[d] \in Plan /\ asked[d] \in Plan
      BY <1>0 DEF CallSends
    <3>3. Queries(plan[d]) \in Nat /\ Queries(asked[d]) \in Nat
      BY <3>2, QueriesFinite
    <3>4. requests[d] + Queries(plan[d])
              <= Queries(asked[d]) + (IF Sending(pc[d]) THEN 1 ELSE 0)
      BY <1>0 DEF CallSends
    <3>5. requests[d] + Queries(plan[d])
              <= Queries(asked[d]) + (IF Sending(pc'[d]) THEN 1 ELSE 0)
      BY <1>0, <3>1, <3>3, <3>4
    <3> QED BY <1>1, <3>1, <3>2, <3>5 DEF CallSends
  <2> QED BY <2>1, <2>2
<1>2. CASE UNCHANGED vars \/ Tick
  BY <1>1, <1>2 DEF vars, Tick
<1>3. ASSUME NEW c \in Calls, Call(c) PROVE CallSends(d)'
  <2>1. PICK p \in Plans : asked' = [asked EXCEPT ![c] = p] /\ plan' = [plan EXCEPT ![c] = p]
    BY <1>3 DEF Call
  <2>2. requests' = requests /\ Goto(c, "ensure") /\ requests[c] = 0
    BY <1>0, <1>3 DEF Call, request, CallSends
  <2>3. p \in Plan
    BY TokensConstants DEF Plan
  <2>4. CASE d = c
    BY <1>0, <2>1, <2>2, <2>3, <2>4, FreshSends
  <2>5. CASE d # c
    BY <1>0, <2>1, <2>2, <2>5, OthersSend DEF Goto
  <2> QED BY <2>4, <2>5
<1>4. ASSUME NEW c \in Calls, EnsureToken(c) \/ Issue(c) \/ TokenArrives(c) \/ SetAuth(c) \/ Fail(c)
      PROVE  CallSends(d)'
  BY <1>1, <1>4 DEF EnsureToken, Issue, TokenArrives, SetAuth, Fail, Sending, request
<1>5. ASSUME NEW c \in Calls, AllSecrets(c) PROVE CallSends(d)'
  <2>1. /\ pc[c] = "secrets" /\ Goto(c, "flight") /\ requests' = [requests EXCEPT ![c] = @ + 1]
        /\ asked' = asked /\ plan' = plan
    BY <1>5 DEF AllSecrets
  <2>2. CASE d = c
    <3>1. plan[d] \in Plan /\ asked[d] \in Plan
      BY <1>0 DEF CallSends
    <3>2. Queries(plan[d]) \in Nat /\ Queries(asked[d]) \in Nat
      BY <3>1, QueriesFinite
    <3>3. requests[d] + Queries(plan[d]) <= Queries(asked[d])
      BY <1>0, <2>1, <2>2, <3>2 DEF CallSends, Sending
    <3>4. pc'[d] = "flight" /\ requests'[d] = requests[d] + 1
      BY <1>0, <2>1, <2>2 DEF Goto
    <3> QED BY <1>0, <2>1, <3>1, <3>2, <3>3, <3>4 DEF CallSends, Sending
  <2>3. CASE d # c
    BY <1>0, <2>1, <2>3, OthersSend DEF Goto
  <2> QED BY <2>2, <2>3
<1>6. ASSUME NEW c \in Calls, Return(c) PROVE CallSends(d)'
  <2>1. CASE d = c
    BY <1>0, <1>6, <2>1, SingleQuery, FreshSends DEF Return
  <2>2. CASE d # c
    BY <1>0, <1>6, <2>2, OthersSend DEF Return, Goto
  <2> QED BY <2>1, <2>2
<1>7. ASSUME NEW c \in Calls, NEW s, AfterFailure(c, s) PROVE CallSends(d)'
  <2>1. CASE d = c
    BY <1>0, <1>7, <2>1, FailureSends
  <2>2. CASE d # c
    <3>1. /\ plan'[d] = plan[d] /\ asked'[d] = asked[d] /\ requests'[d] = requests[d]
          /\ pc'[d] = pc[d]
      BY <1>0, <1>7, <2>2, FailureSends
    <3> QED BY <1>0, <3>1, OthersSend
  <2> QED BY <2>1, <2>2
<1>8. ASSUME NEW c \in Calls, TokenFails(c) \/ Scrub(c) PROVE CallSends(d)'
  BY <1>1, <1>7, <1>8 DEF TokenFails, Scrub, Sending
<1>9. ASSUME NEW c \in Calls, Succeed(c) \/ Done(c) PROVE CallSends(d)'
  BY <1>1, <1>6, <1>9 DEF Succeed, Done, Sending
<1> QED BY <1>2, <1>3, <1>4, <1>5, <1>8, <1>9 DEF Next, Locking, Serving

\* A call sends no more requests than it has queries, whichever of them and of its token
\* requests fail (getJSON, getJSON400, memberOf and doWriteJSON).
THEOREM TokensSentAtMost == Spec => []SentAtMost
<1>1. TypeOK /\ SentInv => SentAtMost
  <2> SUFFICES ASSUME TypeOK, SentInv, NEW c \in Calls PROVE requests[c] <= Queries(asked[c])
    BY DEF SentAtMost
  <2>1. CallSends(c) /\ requests[c] \in Nat
    BY DEF SentInv, TypeOK
  <2>2. plan[c] \in Plan /\ asked[c] \in Plan
    BY <2>1 DEF CallSends
  <2>3. Queries(plan[c]) \in Nat /\ Queries(asked[c]) \in Nat /\ Queries(plan[c]) >= 1
    BY <2>2, QueriesFinite, SomeQuery
  <2> QED BY <2>1, <2>3 DEF CallSends
<1>2. SentInv /\ TypeOK /\ [Next]_vars => SentInv'
  BY SentStep
<1>3. Init => SentInv
  BY SentInit
<1> QED BY <1>1, <1>2, <1>3, TokensTypeOK, PTL DEF Spec
=============================================================================
