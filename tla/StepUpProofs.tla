----------------------------- MODULE StepUpProofs -----------------------------
(***************************************************************************)
(* Proofs that a write which reaches the upstream server was approved by   *)
(* somebody else, and not long ago, that the gateway implements Approvals, *)
(* and that the directory of receipts is bounded and keeps the recent      *)
(* ones, for any number of concurrent calls, approvers and restarts.       *)
(***************************************************************************)
EXTENDS StepUpProperties, SequenceTheorems, FiniteSetTheorems, TLAPS

Token == [intent: Intent, approver: Approvers, interactive: BOOLEAN,
          begun: Nat, iat: Int, exp: Int]
Receipt == [intent: Intent, made: Nat, mtime: Nat, whole: BOOLEAN]

\* TypeOK, by what the actions change together
OperatorTyped ==
    /\ bound \in Bounds /\ clock \in Nat
    /\ installed \in 1..Len(Policies) /\ loaded \in 1..installed
    /\ up \in BOOLEAN /\ stops \in Nat /\ ledger \in 1..MaxLedgers
UsedTyped == used \subseteq (1..ledger) \X DOMAIN tokens
ReceiptsTyped == receipts \in Seq(Receipt) /\ dir \subseteq DOMAIN receipts
CallTyped(c) == call[c] = IdleCall \/ Asking(call[c]) \/ Bearing(call[c])
CallsTyped == DOMAIN call = Calls /\ \A c \in Calls : CallTyped(c)
SessionTyped(a) == session[a] = IdleSession \/ Asked(session[a])
SessionsTyped == DOMAIN session = Approvers /\ \A a \in Approvers : SessionTyped(a)
TokensTyped == /\ tokens \in Seq(Token)
               /\ \A k \in DOMAIN tokens : tokens[k].exp - tokens[k].iat \in 1..MaxTTL
UpstreamTyped ==
    /\ forwarded \subseteq [call: [token: DOMAIN tokens, intent: Intent], arrived: Nat,
                            policy: 1..Len(Policies), ledger: 1..MaxLedgers]
    /\ settled \subseteq DOMAIN tokens

\* What the command has made sure of before it asks, and its clock
Reviewed(a, s) ==
    /\ a \in Policies[s.intent.policy].approvers
    /\ Independent(a, Known[s.intent.principal])
    /\ Policies[s.intent.policy].tty => s.interactive
    /\ Start <= s.begun /\ s.iat = s.begun + Offset[a]
SessionInv(a) ==
    session[a].pc = "asked" => Lifetime(session[a].ttl) /\ Reviewed(a, session[a])
SessionsInv == Start <= clock /\ \A a \in Approvers : SessionInv(a)

LEMMA TypeParts ==
    TypeOK <=> /\ OperatorTyped /\ UsedTyped /\ ReceiptsTyped /\ CallsTyped /\ SessionsTyped
               /\ TokensTyped /\ UpstreamTyped
BY DEF TypeOK, OperatorTyped, UsedTyped, ReceiptsTyped, CallsTyped, CallTyped, SessionsTyped,
       SessionTyped, TokensTyped, UpstreamTyped, Token, Receipt

LEMMA ConstantsTyped ==
    /\ MaxTTL \in Nat /\ Skew \in Nat /\ MaxAge \in Nat /\ MaxTokens \in Nat /\ MaxLedgers \in Nat \ {0}
    /\ Start \in Nat /\ TTLs \subseteq Int
BY StepUpConstants

LEMMA OffsetsWithinSkew ==
    ASSUME NEW a \in Approvers 
    PROVE  Offset[a] \in Int /\ -Skew <= Offset[a] /\ Offset[a] <= Skew /\ Start + Offset[a] > 0
BY StepUpConstants

LEMMA BoundsTyped ==
    ASSUME NEW b \in Bounds
    PROVE  /\ b.callers \subseteq Principals /\ b.made \in Nat /\ b.tokens \in 0..MaxTokens
           /\ b.policies \in 1..Len(Policies)
BY StepUpConstants

LEMMA OnePolicy == Len(Policies) \in Nat /\ 1 \in 1..Len(Policies)
<1>1. Policies \in Seq([approvers: SUBSET Approvers, tty: BOOLEAN]) /\ Policies # <<>>
  BY StepUpConstants
<1>2. Len(Policies) \in Nat /\ Len(Policies) # 0
  BY <1>1, EmptySeq, LenProperties
<1> QED BY <1>2

-----------------------------------------------------------------------------
(* Types *)

\* Approvals and receipts are never taken back, and an approval does not change.
TokensGrow == /\ DOMAIN tokens \subseteq DOMAIN tokens'
              /\ \A k \in DOMAIN tokens : tokens'[k] = tokens[k]
ReceiptsGrow == DOMAIN receipts \subseteq DOMAIN receipts'

LEMMA AppendKeeps ==
    ASSUME NEW S, NEW s \in Seq(S), NEW e \in S
    PROVE  /\ Append(s, e) \in Seq(S)
           /\ DOMAIN s = 1..Len(s) /\ Len(s) \in Nat
           /\ DOMAIN Append(s, e) = 1..(Len(s) + 1)
           /\ Len(Append(s, e)) = Len(s) + 1
           /\ DOMAIN s \subseteq DOMAIN Append(s, e)
           /\ \A k \in DOMAIN s : Append(s, e)[k] = s[k]
           /\ Append(s, e)[Len(s) + 1] = e
<1>1. /\ Append(s, e) \in Seq(S) /\ Len(Append(s, e)) = Len(s) + 1
      /\ \A k \in 1..Len(s) : Append(s, e)[k] = s[k]
      /\ Append(s, e)[Len(s) + 1] = e
  BY AppendProperties
<1>2. Len(s) \in Nat /\ DOMAIN s = 1..Len(s)
  BY LenProperties
<1>3. DOMAIN Append(s, e) = 1..(Len(s) + 1)
  BY <1>1, LenProperties
<1>4. 1..Len(s) \subseteq 1..(Len(s) + 1)
  BY <1>2
<1> QED BY <1>1, <1>2, <1>3, <1>4

\* Every field of an approval comes from a session.
LEMMA SignedTyped ==
    ASSUME NEW a \in Approvers, SessionTyped(a), session[a].pc = "asked"
    PROVE  Signed(session[a], a) \in Token
<1>1. Asked(session[a])
  BY DEF SessionTyped, IdleSession
<1>2. /\ session[a].intent \in Intent /\ session[a].interactive \in BOOLEAN
      /\ session[a].begun \in Nat /\ session[a].iat \in Int /\ session[a].ttl \in Int
  BY <1>1, ConstantsTyped DEF Asked
<1> QED BY <1>2 DEF Signed, Token

LEMMA NextTokens == TypeOK /\ [Next]_vars =>
                        \/ UNCHANGED tokens
                        \/ \E a \in Approvers : Sign(a)
BY DEF Next, vars, Operator, Step, operator, challenges, upstream, InstallPolicy, Stop, Serve,
       InitState, Tick, Challenge, Present, List, Prune, Create, Fill, Commit, Forward, Report,
       Review, Decline

LEMMA TokensGrowing == TypeOK /\ [Next]_vars => TokensGrow
<1> SUFFICES ASSUME TypeOK, NEW a \in Approvers, Sign(a) PROVE TokensGrow
  BY NextTokens DEF TokensGrow
<1>1. tokens \in Seq(Token) /\ SessionTyped(a)
  BY TypeParts DEF TokensTyped, SessionsTyped
<1>2. Signed(session[a], a) \in Token
  BY <1>1, SignedTyped DEF Sign
<1>3. PICK t \in Token : tokens' = Append(tokens, t)
  BY <1>2 DEF Sign
<1> QED BY <1>1, <1>3, AppendKeeps DEF TokensGrow

LEMMA ReceiptsStep ==
    ASSUME TypeOK, [Next]_vars
    PROVE  ReceiptsTyped' /\ ReceiptsGrow
<1>0. receipts \in Seq(Receipt) /\ dir \subseteq DOMAIN receipts /\ clock \in Nat
  BY TypeParts DEF ReceiptsTyped, OperatorTyped
<1>1. ASSUME UNCHANGED challenges PROVE ReceiptsTyped' /\ ReceiptsGrow
  BY <1>0, <1>1 DEF ReceiptsTyped, ReceiptsGrow, challenges
<1>2. ASSUME NEW c \in Calls, Prune(c) PROVE ReceiptsTyped' /\ ReceiptsGrow
  <2>1. dir' \subseteq dir /\ receipts' = receipts
    BY <1>2 DEF Prune
  <2> QED BY <1>0, <2>1 DEF ReceiptsTyped, ReceiptsGrow
<1>3. ASSUME NEW c \in Calls, Create(c) PROVE ReceiptsTyped' /\ ReceiptsGrow
  <2>1. CASE UNCHANGED challenges
    BY <1>1, <2>1
  <2>2. CASE ~UNCHANGED challenges
    <3>1. CallTyped(c) /\ call[c].pc = "create"
      BY <1>3, TypeParts DEF CallsTyped, Create
    <3>2. call[c].intent \in Intent
      BY <3>1 DEF CallTyped, IdleCall, Asking, Bearing
    <3>3. PICK r \in Receipt : receipts' = Append(receipts, r)
      BY <1>0, <1>3, <2>2, <3>2 DEF Create, challenges, Receipt
    <3>4. dir' = dir \cup {Len(receipts')}
      BY <1>3, <2>2 DEF Create, challenges
    <3>5. Len(receipts') \in DOMAIN receipts'
      BY <1>0, <3>3, AppendKeeps
    <3> QED BY <1>0, <3>3, <3>4, <3>5, AppendKeeps DEF ReceiptsTyped, ReceiptsGrow
  <2> QED BY <2>1, <2>2
<1>4. ASSUME NEW c \in Calls, Fill(c) PROVE ReceiptsTyped' /\ ReceiptsGrow
  <2>1. CASE receipts' = receipts
    BY <1>0, <1>4, <2>1 DEF Fill, ReceiptsTyped, ReceiptsGrow
  <2>2. CASE receipts' # receipts
    <3>1. CallTyped(c) /\ call[c].pc = "fill"
      BY <1>4, TypeParts DEF CallsTyped, Fill
    <3>2. PICK i \in DOMAIN receipts : i = call[c].receipt
      BY <3>1 DEF CallTyped, IdleCall, Asking, Bearing
    <3>3. receipts[i] \in Receipt
      BY <1>0, ElementOfSeq, LenProperties
    <3>4. PICK r \in Receipt : receipts' = [receipts EXCEPT ![i] = r]
      BY <1>0, <1>4, <2>2, <3>2, <3>3 DEF Fill, Receipt
    <3>5. receipts' \in Seq(Receipt) /\ DOMAIN receipts' = DOMAIN receipts
      BY <1>0, <3>4, ExceptSeq, LenProperties
    <3> QED BY <1>0, <1>4, <3>5 DEF Fill, ReceiptsTyped, ReceiptsGrow
  <2> QED BY <2>1, <2>2
<1>5. \/ UNCHANGED challenges
      \/ \E c \in Calls : Prune(c) \/ Create(c) \/ Fill(c)
  BY DEF Next, vars, Operator, Step, operator, challenges, upstream, InstallPolicy, Stop, Serve,
         InitState, Tick, Challenge, Present, List, Commit, Forward, Report, Review, Sign, Decline
<1> QED BY <1>1, <1>2, <1>3, <1>4, <1>5

LEMMA TokensStep == TypeOK /\ SessionsInv /\ [Next]_vars => TokensTyped'
<1> SUFFICES ASSUME TypeOK, SessionsInv, [Next]_vars PROVE TokensTyped'
  OBVIOUS
<1>0. TokensTyped
  BY TypeParts
<1>1. CASE UNCHANGED tokens
  BY <1>0, <1>1 DEF TokensTyped
<1>2. ASSUME NEW a \in Approvers, Sign(a) PROVE TokensTyped'
  <2>1. SessionTyped(a) /\ session[a].pc = "asked" /\ Lifetime(session[a].ttl)
    BY <1>2, TypeParts DEF SessionsTyped, Sign, SessionsInv, SessionInv
  <2>2. PICK t \in Token : t = Signed(session[a], a)
    BY <2>1, SignedTyped
  <2>3. tokens' = Append(tokens, t)
    BY <1>2, <2>2 DEF Sign
  <2>4. t.exp - t.iat \in 1..MaxTTL
    <3>1. Asked(session[a])
      BY <2>1 DEF SessionTyped, IdleSession
    <3>2. session[a].iat \in Int /\ session[a].ttl \in Int
      BY <3>1, ConstantsTyped DEF Asked
    <3> QED BY <2>1, <2>2, <3>2, ConstantsTyped DEF Signed, Lifetime
  <2>5. \A k \in DOMAIN tokens' : k \in DOMAIN tokens \/ k = Len(tokens) + 1
    BY <1>0, <2>3, AppendKeeps DEF TokensTyped
  <2>6. ASSUME NEW k \in DOMAIN tokens' PROVE tokens'[k].exp - tokens'[k].iat \in 1..MaxTTL
    <3>1. CASE k \in DOMAIN tokens
      <4>1. tokens'[k] = tokens[k]
        BY <1>0, <2>3, <3>1, AppendKeeps DEF TokensTyped
      <4> QED BY <1>0, <3>1, <4>1 DEF TokensTyped
    <3>2. CASE k = Len(tokens) + 1
      <4>1. tokens'[k] = t
        BY <1>0, <2>3, <3>2, AppendKeeps DEF TokensTyped
      <4> QED BY <2>4, <4>1
    <3> QED BY <2>5, <3>1, <3>2
  <2>7. tokens' \in Seq(Token)
    BY <1>0, <2>3, AppendKeeps DEF TokensTyped
  <2> QED BY <2>6, <2>7 DEF TokensTyped
<1> QED BY <1>1, <1>2, NextTokens

\* The next request of a call, and the rest of them
LEMMA CallMoved ==
    ASSUME TypeOK, NEW c \in Calls, NEW k, call' = [call EXCEPT ![c] = k]
    PROVE  /\ DOMAIN call' = Calls /\ call'[c] = k
           /\ \A d \in Calls \ {c} : call'[d] = call[d]
BY DEF TypeOK

LEMMA SessionMoved ==
    ASSUME TypeOK, NEW a \in Approvers, NEW s, session' = [session EXCEPT ![a] = s]
    PROVE  /\ DOMAIN session' = Approvers /\ session'[a] = s
           /\ \A b \in Approvers \ {a} : session'[b] = session[b]
BY DEF TypeOK

LEMMA SessionsStep ==
    TypeOK /\ SessionsInv /\ [Next]_vars => SessionsTyped' /\ SessionsInv'
<1> SUFFICES ASSUME TypeOK, SessionsInv, [Next]_vars PROVE SessionsTyped' /\ SessionsInv'
  OBVIOUS
<1>0. SessionsTyped /\ OperatorTyped
  BY TypeParts
<1>a. Start <= clock'
  <2>1. clock' = clock \/ clock' = clock + 1
    BY DEF Next, vars, Operator, Step, InstallPolicy, Stop, Serve, InitState, Tick, Challenge,
           Present, List, Prune, Create, Fill, Commit, Forward, Report, Review, Sign, Decline
  <2> QED BY <1>0, <2>1, ConstantsTyped DEF OperatorTyped, SessionsInv
<1>1. CASE UNCHANGED session
  BY <1>0, <1>a, <1>1 DEF SessionsTyped, SessionTyped, Asked, SessionsInv, SessionInv, Reviewed
<1>2. ASSUME NEW a \in Approvers, session' = [session EXCEPT ![a] = IdleSession]
      PROVE  SessionsTyped' /\ SessionsInv'
  BY <1>0, <1>a, <1>2, SessionMoved
  DEF SessionsTyped, SessionTyped, Asked, SessionsInv, SessionInv, Reviewed, IdleSession
<1>3. ASSUME NEW a \in Approvers, Review(a) PROVE SessionsTyped' /\ SessionsInv'
  <2>1. PICK r \in dir, ttl \in TTLs, yes \in BOOLEAN :
            /\ Lifetime(ttl)
            /\ receipts[r].intent.policy = installed
            /\ a \in Policies[installed].approvers
            /\ Independent(a, Known[receipts[r].intent.principal])
            /\ yes => ~Policies[installed].tty
            /\ session' = [session EXCEPT ![a] =
                   [pc |-> "asked", intent |-> receipts[r].intent, begun |-> clock,
                    iat |-> clock + Offset[a], ttl |-> ttl, interactive |-> ~yes]]
    BY <1>3 DEF Review
  <2>2. receipts[r].intent \in Intent
    <3>1. receipts \in Seq(Receipt) /\ r \in 1..Len(receipts)
      BY TypeParts, LenProperties DEF ReceiptsTyped
    <3>2. receipts[r] \in Receipt
      BY <3>1, ElementOfSeq
    <3> QED BY <3>2 DEF Receipt
  <2>3. PICK s : s = [pc |-> "asked", intent |-> receipts[r].intent, begun |-> clock,
                      iat |-> clock + Offset[a], ttl |-> ttl, interactive |-> ~yes]
    OBVIOUS
  <2>4. clock \in Nat /\ Offset[a] \in Int /\ Offset[a] <= Skew
    BY <1>0, OffsetsWithinSkew DEF OperatorTyped
  <2>5. Asked(s) /\ Lifetime(s.ttl)
    BY <2>1, <2>2, <2>3, <2>4, ConstantsTyped DEF Asked
  <2>6. Reviewed(a, s)
    BY <2>1, <2>3 DEF Reviewed, SessionsInv
  <2>7. session' = [session EXCEPT ![a] = s]
    BY <2>1, <2>3
  <2> QED BY <1>0, <1>a, <2>5, <2>6, <2>7, SessionMoved
      DEF SessionsTyped, SessionTyped, Asked, SessionsInv, SessionInv, Reviewed
<1>4. \/ UNCHANGED session
      \/ \E a \in Approvers : session' = [session EXCEPT ![a] = IdleSession] \/ Review(a)
  BY DEF Next, vars, Operator, Step, operator, challenges, upstream, InstallPolicy, Stop, Serve,
         InitState, Tick, Challenge, Present, List, Prune, Create, Fill, Commit, Forward, Report,
         Sign, Decline
<1> QED BY <1>1, <1>2, <1>3, <1>4

LEMMA OperatorStep == TypeOK /\ [Next]_vars => OperatorTyped'
<1> SUFFICES ASSUME TypeOK, [Next]_vars PROVE OperatorTyped'
  OBVIOUS
<1>0. OperatorTyped /\ Len(Policies) \in Nat
  BY TypeParts, OnePolicy
<1>1. CASE UNCHANGED <<operator, clock>>
  BY <1>0, <1>1 DEF OperatorTyped, operator
<1>2. CASE Operator
  <2>1. CASE InstallPolicy
    <3>1. /\ bound \in Bounds /\ installed \in Int /\ installed < bound.policies
          /\ bound.policies \in 1..Len(Policies) /\ loaded \in 1..installed
      BY <1>0, <2>1, BoundsTyped DEF OperatorTyped, InstallPolicy
    <3>2. installed + 1 \in 1..Len(Policies) /\ loaded \in 1..(installed + 1)
      BY <1>0, <3>1 DEF OperatorTyped
    <3> QED BY <1>0, <2>1, <3>2 DEF OperatorTyped, InstallPolicy
  <2>2. CASE Stop
    <3>1. /\ UNCHANGED <<bound, clock, installed, loaded, ledger>>
          /\ up' \in BOOLEAN /\ stops' = stops + 1
      BY <2>2 DEF Stop
    <3>2. stops' \in Nat
      BY <1>0, <3>1 DEF OperatorTyped
    <3> QED BY <1>0, <3>1, <3>2, Zenon DEF OperatorTyped
  <2>3. CASE Serve
    BY <1>0, <2>3 DEF OperatorTyped, Serve
  <2>4. CASE InitState
    BY <1>0, <2>4, ConstantsTyped DEF OperatorTyped, InitState
  <2> QED BY <1>2, <2>1, <2>2, <2>3, <2>4 DEF Operator
<1>3. CASE Tick
  BY <1>0, <1>3 DEF OperatorTyped, Tick, operator
<1>4. UNCHANGED <<operator, clock>> \/ Operator \/ Tick
  BY DEF Next, vars, Step, Challenge, Present, List, Prune, Create, Fill, Commit, Forward, Report,
         Review, Sign, Decline
<1> QED BY <1>1, <1>2, <1>3, <1>4

LEMMA IntentTyped ==
    ASSUME TypeOK, NEW p \in bound.callers, NEW w \in Writes
    PROVE  IntentOf(p, w) \in Intent
<1>1. p \in Principals /\ loaded \in 1..Len(Policies) /\ ledger \in 1..MaxLedgers
  BY TypeParts, BoundsTyped, OnePolicy DEF OperatorTyped
<1> QED BY <1>1 DEF IntentOf, Intent

\* A call that has not moved is as it was, although receipts and approvals have been added.
LEMMA CallKept ==
    ASSUME NEW c \in Calls, CallTyped(c), TokensGrow, ReceiptsGrow, call'[c] = call[c]
    PROVE  CallTyped(c)'
<1>1. CASE call[c] = IdleCall
  BY <1>1 DEF CallTyped, IdleCall
<1>2. CASE Asking(call[c])
  <2>1. CASE call[c] \in [pc: {"list", "create"}, intent: Intent]
    BY <2>1 DEF CallTyped, Asking
  <2>2. CASE \E S \in SUBSET DOMAIN receipts :
                 call[c] \in [pc: {"prune"}, intent: Intent, listing: [S -> Nat], cutoff: Int]
    BY <2>2 DEF CallTyped, Asking, ReceiptsGrow
  <2>3. CASE call[c] \in [pc: {"fill"}, receipt: DOMAIN receipts]
    BY <2>3 DEF CallTyped, Asking, ReceiptsGrow
  <2> QED BY <1>2, <2>1, <2>2, <2>3 DEF Asking
<1>3. CASE Bearing(call[c])
  BY <1>3 DEF CallTyped, Bearing, TokensGrow
<1> QED BY <1>1, <1>2, <1>3 DEF CallTyped

\* Types of the fields by where a call is
LEMMA AskingFields ==
    ASSUME TypeOK, NEW c \in Calls, call[c].pc \in {"list", "prune", "create"}
    PROVE  call[c].intent \in Intent
BY TypeParts DEF CallsTyped, CallTyped, IdleCall, Asking, Bearing

LEMMA BearingFields ==
    ASSUME TypeOK, NEW c \in Calls, call[c].pc \in {"commit", "forward", "report"}
    PROVE  Bearing(call[c])
BY TypeParts DEF CallsTyped, CallTyped, IdleCall, Asking

\* Where a step takes a call
LEMMA CallTo ==
    ASSUME TypeOK, [Next]_vars, TokensGrow, ReceiptsGrow,
           NEW c \in Calls, NEW k, call' = [call EXCEPT ![c] = k],
           k = IdleCall \/ Asking(k)' \/ Bearing(k)'
    PROVE  CallsTyped'
<1>1. DOMAIN call' = Calls /\ call'[c] = k /\ \A d \in Calls \ {c} : call'[d] = call[d]
  BY CallMoved
<1>2. CallTyped(c)'
  BY <1>1 DEF CallTyped, IdleCall, Asking, Bearing
<1>3. \A d \in Calls \ {c} : CallTyped(d)'
  BY <1>1, CallKept, TypeParts DEF CallsTyped
<1> QED BY <1>1, <1>2, <1>3 DEF CallsTyped

LEMMA CallsStep ==
    ASSUME TypeOK, [Next]_vars, TokensGrow, ReceiptsGrow
    PROVE  CallsTyped'
<1>0. /\ clock \in Nat /\ MaxAge \in Nat /\ receipts \in Seq(Receipt) /\ dir \subseteq DOMAIN receipts
      /\ ReceiptsTyped'
  BY TypeParts, ConstantsTyped, ReceiptsStep DEF OperatorTyped, ReceiptsTyped
<1>1. CASE UNCHANGED call
  <2>1. DOMAIN call' = Calls
    BY <1>1 DEF TypeOK
  <2> QED BY <1>1, <2>1, CallKept, TypeParts DEF CallsTyped
<1>2. CASE Stop
  BY <1>2 DEF Stop, CallsTyped, CallTyped
<1>3. ASSUME NEW c \in Calls, Challenge(c) PROVE CallsTyped'
  <2>1. PICK i \in Intent : call' = [call EXCEPT ![c] = [pc |-> "list", intent |-> i]]
    BY <1>3, IntentTyped DEF Challenge
  <2> QED BY <2>1, CallTo DEF Asking
<1>4. ASSUME NEW c \in Calls, List(c) PROVE CallsTyped'
  <2>1. \A r \in dir : receipts[r].mtime \in Nat
    <3>1. \A r \in dir : receipts[r] \in Receipt
      BY <1>0, ElementOfSeq, LenProperties
    <3> QED BY <3>1 DEF Receipt
  <2>2. PICK k : /\ k = [pc |-> "prune", intent |-> call[c].intent,
                         listing |-> [r \in dir |-> receipts[r].mtime], cutoff |-> clock - MaxAge]
                 /\ call' = [call EXCEPT ![c] = k]
    BY <1>4 DEF List
  <2>3. dir \in SUBSET DOMAIN receipts /\ receipts' = receipts
    BY <1>0, <1>4 DEF List, challenges
  <2>4. [r \in dir |-> receipts[r].mtime] \in [dir -> Nat]
    BY <2>1
  <2>5. k \in [pc: {"prune"}, intent: Intent, listing: [dir -> Nat], cutoff: Int]
    BY <1>0, <1>4, <2>2, <2>4, AskingFields DEF List
  <2>6. Asking(k)'
    BY <2>3, <2>5 DEF Asking
  <2> QED BY <2>2, <2>6, CallTo
<1>5. ASSUME NEW c \in Calls, Prune(c) PROVE CallsTyped'
  <2>1. PICK i \in Intent : call' = [call EXCEPT ![c] = [pc |-> "create", intent |-> i]]
    BY <1>5, AskingFields DEF Prune
  <2> QED BY <2>1, CallTo DEF Asking
<1>6. ASSUME NEW c \in Calls, call' = [call EXCEPT ![c] = IdleCall] PROVE CallsTyped'
  BY <1>6, CallTo
<1>7. ASSUME NEW c \in Calls, Create(c), call' # [call EXCEPT ![c] = IdleCall] PROVE CallsTyped'
  <2>1. PICK r \in DOMAIN receipts' : call' = [call EXCEPT ![c] = [pc |-> "fill", receipt |-> r]]
    <3>1. /\ dir' = dir \cup {Len(receipts')}
          /\ call' = [call EXCEPT ![c] = [pc |-> "fill", receipt |-> Len(receipts')]]
      BY <1>7 DEF Create, Idle
    <3>2. Len(receipts') \in DOMAIN receipts'
      BY <1>0, <3>1 DEF ReceiptsTyped
    <3> QED BY <3>1, <3>2
  <2> QED BY <2>1, CallTo DEF Asking
<1>8. ASSUME NEW c \in Calls, Present(c) PROVE CallsTyped'
  <2>1. PICK i \in Intent, t \in DOMAIN tokens :
            /\ call' = [call EXCEPT ![c] = [pc |-> "commit", intent |-> i, token |-> t,
                                            arrived |-> clock]]
            /\ tokens' = tokens
    BY <1>8, IntentTyped DEF Present
  <2> QED BY <1>0, <2>1, CallTo DEF Bearing
<1>9. ASSUME NEW c \in Calls, NEW l \in {"forward", "report"}, Goto(c, l),
             call[c].pc \in {"commit", "forward"}
      PROVE  CallsTyped'
  <2>1. Bearing(call[c])
    BY <1>9, BearingFields
  <2>2. PICK k : k = [call[c] EXCEPT !.pc = l] /\ call' = [call EXCEPT ![c] = k]
    BY <1>9 DEF Goto
  <2>3. Bearing(k)'
    BY <2>1, <2>2 DEF Bearing, TokensGrow
  <2> QED BY <2>2, <2>3, CallTo
<1>10. \/ UNCHANGED call \/ Stop
       \/ \E c \in Calls : \/ Challenge(c) \/ List(c) \/ Prune(c) \/ Present(c)
                           \/ call' = [call EXCEPT ![c] = IdleCall]
                           \/ Create(c) /\ call' # [call EXCEPT ![c] = IdleCall]
                           \/ call[c].pc = "commit" /\ Goto(c, "forward")
                           \/ call[c].pc = "forward" /\ Goto(c, "report")
  BY DEF Next, vars, Operator, Step, operator, challenges, upstream, InstallPolicy, Serve,
         InitState, Tick, Create, Fill, Commit, Forward, Report, Review, Sign, Decline, Idle
<1> QED BY <1>1, <1>2, <1>3, <1>4, <1>5, <1>6, <1>7, <1>8, <1>9, <1>10

LEMMA UsedStep ==
    ASSUME TypeOK, [Next]_vars, TokensGrow
    PROVE  UsedTyped'
<1>0. UsedTyped /\ OperatorTyped /\ OperatorTyped'
  BY TypeParts, OperatorStep
<1>1. ledger \in Nat /\ ledger' \in Nat /\ ledger <= ledger'
  <2>1. ledger' = ledger \/ ledger' = ledger + 1
    BY DEF Next, vars, Operator, Step, operator, InstallPolicy, Stop, Serve, InitState, Tick,
           Challenge, Present, List, Prune, Create, Fill, Commit, Forward, Report, Review, Sign,
           Decline
  <2> QED BY <1>0, <2>1 DEF OperatorTyped
<1>2. (1..ledger) \X DOMAIN tokens \subseteq (1..ledger') \X DOMAIN tokens'
  <2>1. 1..ledger \subseteq 1..ledger'
    BY <1>1
  <2> QED BY <2>1 DEF TokensGrow
<1>3. ASSUME NEW c \in Calls, Commit(c) PROVE UsedTyped'
  <2>1. call[c].token \in DOMAIN tokens
    BY <1>3, BearingFields DEF Commit, Bearing
  <2>2. <<ledger, call[c].token>> \in (1..ledger) \X DOMAIN tokens
    BY <1>0, <2>1 DEF OperatorTyped
  <2>3. used' \subseteq used \cup {<<ledger, call[c].token>>}
    BY <1>3 DEF Commit
  <2> QED BY <1>0, <1>2, <2>2, <2>3 DEF UsedTyped
<1>4. used' = used \/ \E c \in Calls : Commit(c)
  BY DEF Next, vars, Operator, Step, operator, InstallPolicy, Stop, Serve, InitState, Tick,
         Challenge, Present, List, Prune, Create, Fill, Forward, Report, Review, Sign, Decline
<1> QED BY <1>0, <1>2, <1>3, <1>4 DEF UsedTyped

LEMMA UpstreamStep ==
    ASSUME TypeOK, [Next]_vars, TokensGrow
    PROVE  UpstreamTyped'
<1>0. UpstreamTyped /\ OperatorTyped /\ loaded \in 1..Len(Policies)
  BY TypeParts, OnePolicy DEF OperatorTyped
<1>1. CASE UNCHANGED upstream
  BY <1>0, <1>1 DEF UpstreamTyped, upstream, TokensGrow
<1>2. ASSUME NEW c \in Calls, Forward(c) PROVE UpstreamTyped'
  <2>1. Bearing(call[c])
    BY <1>2, BearingFields DEF Forward
  <2>2. PICK f : /\ f = [call |-> [token |-> call[c].token, intent |-> call[c].intent],
                         arrived |-> call[c].arrived, policy |-> loaded, ledger |-> ledger]
                 /\ forwarded' = forwarded \cup {f}
    BY <1>2 DEF Forward
  <2>3. f \in [call: [token: DOMAIN tokens, intent: Intent], arrived: Nat,
               policy: 1..Len(Policies), ledger: 1..MaxLedgers]
    BY <1>0, <2>1, <2>2 DEF Bearing, OperatorTyped
  <2>4. settled' = settled
    BY <1>2 DEF Forward
  <2> QED BY <1>0, <2>2, <2>3, <2>4 DEF UpstreamTyped, TokensGrow
<1>3. ASSUME NEW c \in Calls, Report(c) PROVE UpstreamTyped'
  <2>1. call[c].token \in DOMAIN tokens
    BY <1>3, BearingFields DEF Report, Bearing
  <2> QED BY <1>0, <1>3, <2>1 DEF UpstreamTyped, TokensGrow, Report
<1>4. UNCHANGED upstream \/ \E c \in Calls : Forward(c) \/ Report(c)
  BY DEF Next, vars, Operator, Step, operator, upstream, InstallPolicy, Stop, Serve, InitState, Tick,
         Challenge, Present, List, Prune, Create, Fill, Commit, Review, Sign, Decline
<1> QED BY <1>1, <1>2, <1>3, <1>4

LEMMA TypeStep == TypeOK /\ SessionsInv /\ [Next]_vars => TypeOK' /\ SessionsInv'
<1> SUFFICES ASSUME TypeOK, SessionsInv, [Next]_vars
             PROVE  /\ OperatorTyped' /\ UsedTyped' /\ ReceiptsTyped' /\ CallsTyped'
                    /\ SessionsTyped' /\ TokensTyped' /\ UpstreamTyped' /\ SessionsInv'
  BY TypeParts DEF TypeOK, OperatorTyped, UsedTyped, ReceiptsTyped, CallsTyped, CallTyped,
     SessionsTyped, SessionTyped, TokensTyped, UpstreamTyped, Token, Receipt
<1>1. TokensGrow /\ ReceiptsGrow
  BY TokensGrowing, ReceiptsStep
<1> QED BY <1>1, OperatorStep, UsedStep, ReceiptsStep, CallsStep, SessionsStep, TokensStep,
           UpstreamStep

LEMMA TypeInit == Init => TypeOK /\ SessionsInv
<1> SUFFICES ASSUME Init PROVE TypeOK /\ SessionsInv
  OBVIOUS
<1>1. OperatorTyped
  BY ConstantsTyped, OnePolicy DEF Init, OperatorTyped
<1>2. UsedTyped /\ ReceiptsTyped /\ TokensTyped /\ UpstreamTyped
  BY EmptySeq DEF Init, UsedTyped, ReceiptsTyped, TokensTyped, UpstreamTyped
<1>3. CallsTyped /\ SessionsTyped /\ SessionsInv
  BY ConstantsTyped DEF Init, CallsTyped, CallTyped, SessionsTyped, SessionTyped, SessionsInv, SessionInv,
         IdleCall, IdleSession
<1> QED BY <1>1, <1>2, <1>3, TypeParts

\* TypeOK of run StepUp, for any instance: the types are an invariant together with what
\* the approve command has checked of the lifetime and of its own clock.
THEOREM StepUpTypeOK == Spec => []TypeOK
<1> QED BY TypeInit, TypeStep, PTL DEF Spec
-----------------------------------------------------------------------------
(* Approvals cover what is forwarded *)

\* An approval that was good for an intent, presented at a time
Covers(k, i, now) ==
    /\ tokens[k].intent = i
    /\ tokens[k].approver \in Policies[i.policy].approvers
    /\ Policies[i.policy].tty => tokens[k].interactive
    /\ Aliases[tokens[k].approver] \cap (Known[i.principal] \cup Claimed[i.principal]) = {}
    /\ now <= tokens[k].exp + Skew

\* Nothing of what a call has been verified for changes before it is forwarded
CallInv(c) ==
    call[c].pc \in {"commit", "forward", "report"} =>
        /\ up
        /\ Covers(call[c].token, call[c].intent, call[c].arrived)
        /\ call[c].intent.policy = loaded /\ call[c].intent.ledger = ledger
CallsInv == \A c \in Calls : CallInv(c)
ForwardInv ==
    \A f \in forwarded :
        /\ Covers(f.call.token, f.call.intent, f.arrived)
        /\ f.call.intent.policy = f.policy /\ f.call.intent.ledger = f.ledger
ReviewInv == \A k \in DOMAIN tokens : Reviewed(tokens[k].approver, tokens[k])

StepUpInv == TypeOK /\ SessionsInv /\ CallsInv /\ ForwardInv /\ ReviewInv

LEMMA CoversKept ==
    ASSUME TokensGrow, NEW k \in DOMAIN tokens, NEW i, NEW now, Covers(k, i, now)
    PROVE  Covers(k, i, now)'
BY DEF TokensGrow, Covers

LEMMA CoversOnPresent ==
    ASSUME NEW k \in DOMAIN tokens, NEW i, i.policy = loaded,
           VerifyApprovalToken(tokens[k], i, clock)
    PROVE  Covers(k, i, clock)
BY DEF VerifyApprovalToken, Covers, Independent, InTime

\* A call that goes on from where it was verified keeps what it was verified for.
LEMMA CallInvKept ==
    ASSUME TypeOK, TokensGrow, NEW c \in Calls, CallInv(c), UNCHANGED <<up, loaded, ledger>>,
           call[c].pc \in {"commit", "forward", "report"},
           call'[c].token = call[c].token, call'[c].intent = call[c].intent,
           call'[c].arrived = call[c].arrived
    PROVE  CallInv(c)'
<1>1. call[c].token \in DOMAIN tokens
  BY BearingFields DEF Bearing
<1>2. PICK k, i, now :
          k \in DOMAIN tokens /\ k = call[c].token /\ i = call[c].intent /\ now = call[c].arrived
  BY <1>1
<1>3. Covers(k, i, now)'
  BY <1>2, CoversKept DEF CallInv
<1> QED BY <1>2, <1>3 DEF CallInv, Covers

LEMMA CallsInvStep ==
    ASSUME StepUpInv, [Next]_vars, TokensGrow PROVE CallsInv'
<1>0. TypeOK /\ CallsInv
  BY DEF StepUpInv
<1>1. ASSUME UNCHANGED <<up, loaded, ledger>>, NEW c \in Calls, call'[c] = call[c]
      PROVE  CallInv(c)'
  BY <1>0, <1>1, CallInvKept DEF CallsInv, CallInv
<1>2. CASE Stop
  BY <1>2 DEF Stop, CallsInv, CallInv, IdleCall
<1>3. ASSUME ~up, UNCHANGED call PROVE CallsInv'
  BY <1>0, <1>3 DEF CallsInv, CallInv
<1>4. ASSUME NEW c \in Calls, UNCHANGED <<up, loaded, ledger>>, NEW k,
             call' = [call EXCEPT ![c] = k], k.pc \notin {"commit", "forward", "report"}
      PROVE  CallsInv'
  BY <1>0, <1>1, <1>4, CallMoved DEF CallsInv, CallInv
<1>5. ASSUME NEW c \in Calls, Present(c) PROVE CallsInv'
  <2>1. PICK k, i, now :
            /\ k \in DOMAIN tokens
            /\ VerifyApprovalToken(tokens[k], i, clock) /\ now = clock
            /\ i.policy = loaded /\ i.ledger = ledger
            /\ call' = [call EXCEPT ![c] = [pc |-> "commit", intent |-> i, token |-> k,
                                            arrived |-> now]]
    BY <1>5 DEF Present, IntentOf
  <2>2. up /\ UNCHANGED <<up, loaded, ledger, tokens>>
    BY <1>5 DEF Present, operator
  <2>3. Covers(k, i, now)'
    BY <2>1, <2>2, CoversOnPresent, CoversKept
  <2>4. CallInv(c)'
    BY <1>0, <2>1, <2>2, <2>3, CallMoved DEF CallInv, Covers
  <2> QED BY <1>0, <1>1, <2>1, <2>2, <2>4, CallMoved DEF CallsInv
<1>6. ASSUME NEW c \in Calls, UNCHANGED <<up, loaded, ledger>>, NEW l, Goto(c, l),
             call[c].pc \in {"commit", "forward"}
      PROVE  CallsInv'
  <2>1. Bearing(call[c])
    BY <1>0, <1>6, BearingFields
  <2>2. PICK k : k = [call[c] EXCEPT !.pc = l] /\ call' = [call EXCEPT ![c] = k]
    BY <1>6 DEF Goto
  <2>3. k.token = call[c].token /\ k.intent = call[c].intent /\ k.arrived = call[c].arrived
    BY <2>1, <2>2 DEF Bearing
  <2>4. CallInv(c)'
    BY <1>0, <1>6, <2>2, <2>3, CallMoved, CallInvKept DEF CallsInv
  <2> QED BY <1>0, <1>1, <1>6, <2>2, <2>4, CallMoved DEF CallsInv
<1>7. \/ Stop
      \/ ~up /\ UNCHANGED call
      \/ /\ UNCHANGED <<up, loaded, ledger>>
         /\ \/ UNCHANGED call
            \/ \E c \in Calls : \/ \E k : /\ call' = [call EXCEPT ![c] = k]
                                          /\ k.pc \notin {"commit", "forward", "report"}
                                \/ Present(c)
                                \/ call[c].pc = "commit" /\ Goto(c, "forward")
                                \/ call[c].pc = "forward" /\ Goto(c, "report")
  <2>1. CASE UNCHANGED vars \/ Operator \/ Tick
    BY <2>1 DEF vars, operator, Operator, InstallPolicy, Stop, Serve, InitState, Tick
  <2>2. ASSUME NEW c \in Calls, Challenge(c) \/ List(c) \/ Prune(c) \/ Create(c) \/ Fill(c)
        PROVE  /\ UNCHANGED <<up, loaded, ledger>>
               /\ \E k : /\ call' = [call EXCEPT ![c] = k]
                         /\ k.pc \notin {"commit", "forward", "report"}
    BY <2>2 DEF operator, Challenge, List, Prune, Create, Fill, Idle, IdleCall
  <2>3. ASSUME NEW c \in Calls, Commit(c) \/ Forward(c) \/ Report(c)
        PROVE  /\ UNCHANGED <<up, loaded, ledger>>
               /\ \/ call' = [call EXCEPT ![c] = IdleCall]
                  \/ call[c].pc = "commit" /\ Goto(c, "forward")
                  \/ call[c].pc = "forward" /\ Goto(c, "report")
    BY <2>3 DEF operator, Commit, Forward, Report, Idle
  <2>4. ASSUME NEW a \in Approvers, Review(a) \/ Sign(a) \/ Decline(a)
        PROVE  UNCHANGED <<up, loaded, ledger, call>>
    BY <2>4 DEF operator, Review, Sign, Decline
  <2>5. ASSUME NEW c \in Calls, Present(c) PROVE UNCHANGED <<up, loaded, ledger>>
    BY <2>5 DEF operator, Present
  <2>6. IdleCall.pc \notin {"commit", "forward", "report"}
    BY DEF IdleCall
  <2> QED BY <2>1, <2>2, <2>3, <2>4, <2>5, <2>6 DEF Next, Step
<1>8. CASE UNCHANGED <<up, loaded, ledger>> /\ UNCHANGED call
  BY <1>1, <1>8 DEF CallsInv
<1> QED BY <1>2, <1>3, <1>4, <1>5, <1>6, <1>7, <1>8

LEMMA ForwardInvStep ==
    ASSUME StepUpInv, [Next]_vars, TokensGrow PROVE ForwardInv'
<1>0. TypeOK /\ CallsInv /\ ForwardInv /\ UpstreamTyped
  BY TypeParts DEF StepUpInv
<1>1. ASSUME NEW f \in forwarded
      PROVE  /\ Covers(f.call.token, f.call.intent, f.arrived)'
             /\ f.call.intent.policy = f.policy /\ f.call.intent.ledger = f.ledger
  <2>1. f.call.token \in DOMAIN tokens
    BY <1>0 DEF UpstreamTyped
  <2>2. PICK k, i, now :
            k \in DOMAIN tokens /\ k = f.call.token /\ i = f.call.intent /\ now = f.arrived
    BY <2>1
  <2>3. Covers(k, i, now)'
    BY <1>0, <2>2, CoversKept DEF ForwardInv
  <2> QED BY <1>0, <2>2, <2>3 DEF ForwardInv
<1>2. CASE forwarded' = forwarded
  BY <1>1, <1>2 DEF ForwardInv
<1>3. ASSUME NEW c \in Calls, Forward(c) PROVE ForwardInv'
  <2>1. call[c].pc = "forward" /\ tokens' = tokens
    BY <1>3 DEF Forward
  <2>2. PICK f : /\ f = [call |-> [token |-> call[c].token, intent |-> call[c].intent],
                         arrived |-> call[c].arrived, policy |-> loaded, ledger |-> ledger]
                 /\ forwarded' = forwarded \cup {f}
    BY <1>3 DEF Forward
  <2>3. /\ f.call.token = call[c].token /\ f.call.intent = call[c].intent
        /\ f.arrived = call[c].arrived /\ f.policy = loaded /\ f.ledger = ledger
    BY <2>2
  <2>4. /\ Covers(f.call.token, f.call.intent, f.arrived)'
        /\ f.call.intent.policy = f.policy /\ f.call.intent.ledger = f.ledger
    BY <1>0, <2>1, <2>3 DEF CallsInv, CallInv, Covers
  <2> QED BY <1>1, <2>2, <2>4 DEF ForwardInv
<1>4. forwarded' = forwarded \/ \E c \in Calls : Forward(c)
  BY DEF Next, vars, Operator, Step, upstream, InstallPolicy, Stop, Serve, InitState, Tick,
         Challenge, Present, List, Prune, Create, Fill, Commit, Report, Review, Sign, Decline
<1> QED BY <1>2, <1>3, <1>4

LEMMA ReviewInvStep ==
    ASSUME StepUpInv, [Next]_vars PROVE ReviewInv'
<1>0. TypeOK /\ ReviewInv /\ SessionsInv /\ TokensTyped
  BY TypeParts DEF StepUpInv
<1>1. CASE UNCHANGED tokens
  BY <1>0, <1>1 DEF ReviewInv
<1>2. ASSUME NEW a \in Approvers, Sign(a) PROVE ReviewInv'
  <2>1. session[a].pc = "asked" /\ SessionTyped(a) /\ SessionInv(a)
    BY <1>0, <1>2, TypeParts DEF SessionsTyped, Sign, SessionsInv
  <2>2. PICK t \in Token : t = Signed(session[a], a)
    BY <2>1, SignedTyped
  <2>3. tokens' = Append(tokens, t) /\ Reviewed(t.approver, t)
    BY <1>2, <2>1, <2>2 DEF Sign, SessionInv, Signed, Reviewed
  <2>4. \A k \in DOMAIN tokens' : k \in DOMAIN tokens \/ k = Len(tokens) + 1
    BY <1>0, <2>3, AppendKeeps DEF TokensTyped
  <2>5. tokens'[Len(tokens) + 1] = t /\ \A k \in DOMAIN tokens : tokens'[k] = tokens[k]
    BY <1>0, <2>3, AppendKeeps DEF TokensTyped
  <2>6. ASSUME NEW k \in DOMAIN tokens' PROVE Reviewed(tokens'[k].approver, tokens'[k])
    <3>1. CASE k \in DOMAIN tokens
      <4>1. tokens'[k] = tokens[k]
        BY <2>5, <3>1
      <4> QED BY <1>0, <3>1, <4>1 DEF ReviewInv
    <3>2. CASE k = Len(tokens) + 1
      <4>1. tokens'[k] = t
        BY <2>5, <3>2
      <4> QED BY <2>3, <4>1
    <3> QED BY <2>4, <3>1, <3>2
  <2> QED BY <2>6 DEF ReviewInv
<1>3. UNCHANGED tokens \/ \E a \in Approvers : Sign(a)
  BY <1>0, NextTokens
<1> QED BY <1>1, <1>2, <1>3

LEMMA StepUpInvariant == Spec => []StepUpInv
<1>1. Init => StepUpInv
  <2> SUFFICES ASSUME Init PROVE CallsInv /\ ForwardInv /\ ReviewInv
    BY TypeInit DEF StepUpInv
  <2>1. CallsInv /\ ForwardInv
    BY DEF Init, CallsInv, CallInv, IdleCall, ForwardInv
  <2>2. DOMAIN tokens = {}
    BY DEF Init
  <2> QED BY <2>1, <2>2 DEF ReviewInv
<1>2. StepUpInv /\ [Next]_vars => StepUpInv'
  <2> SUFFICES ASSUME StepUpInv, [Next]_vars PROVE StepUpInv'
    OBVIOUS
  <2>1. TypeOK' /\ SessionsInv' /\ TokensGrow
    BY TypeStep, TokensGrowing DEF StepUpInv
  <2>2. CallsInv' /\ ForwardInv' /\ ReviewInv'
    BY <2>1, CallsInvStep, ForwardInvStep, ReviewInvStep
  <2> QED BY <2>1, <2>2 DEF StepUpInv
<1> QED BY <1>1, <1>2, PTL DEF Spec

\* ApprovedByAnother of run StepUp, for any policies, identities and interleaving of calls,
\* commands, restarts, policy updates and new ledgers.
THEOREM StepUpApprovedByAnother == Spec => []ApprovedByAnother
<1>1. StepUpInv => ApprovedByAnother
  BY DEF StepUpInv, ForwardInv, Covers, ApprovedByAnother
<1> QED BY <1>1, StepUpInvariant, PTL

\* ApprovedLately of run StepUp, for any lifetimes and clocks that differ by the skew at most.
THEOREM StepUpApprovedLately == Spec => []ApprovedLately
<1>1. StepUpInv => ApprovedLately
  <2> SUFFICES ASSUME StepUpInv, NEW f \in forwarded
               PROVE  f.arrived <= tokens[f.call.token].begun + MaxTTL + 2 * Skew
    BY DEF ApprovedLately
  <2>1. PICK k \in DOMAIN tokens : k = f.call.token
    BY TypeParts DEF StepUpInv, UpstreamTyped
  <2>2. PICK t \in Token : t = tokens[k]
    <3>1. tokens \in Seq(Token) /\ k \in 1..Len(tokens)
      BY TypeParts, LenProperties DEF StepUpInv, TokensTyped
    <3> QED BY <3>1, ElementOfSeq
  <2>3. /\ f.arrived \in Nat /\ f.arrived <= t.exp + Skew
        /\ t.exp - t.iat \in 1..MaxTTL /\ t.iat = t.begun + Offset[t.approver]
    BY <2>1, <2>2, TypeParts
    DEF StepUpInv, ForwardInv, Covers, ReviewInv, Reviewed, TokensTyped, UpstreamTyped
  <2>4. t.begun \in Nat /\ t.iat \in Int /\ t.exp \in Int /\ t.approver \in Approvers
    BY DEF Token
  <2>5. Offset[t.approver] \in Int /\ Offset[t.approver] <= Skew
    BY <2>4, OffsetsWithinSkew
  <2> QED BY <2>1, <2>2, <2>3, <2>4, <2>5, ConstantsTyped
<1> QED BY <1>1, StepUpInvariant, PTL

\* LivingIsAccepted of run StepUp: what the command signs, the gateway accepts, for any
\* lifetimes and clocks that differ by the skew at most.
THEOREM StepUpLivingIsAccepted == Spec => []LivingIsAccepted
<1>1. ASSUME StepUpInv, NEW k \in DOMAIN tokens, NEW t, t = tokens[k],
             t.begun <= clock, clock <= t.begun + (t.exp - t.iat),
             IntentOf(t.intent.principal, t.intent.write) = t.intent,
             Independent(t.approver, Claimed[t.intent.principal])
      PROVE  VerifyApprovalToken(t, t.intent, clock)
  <2>1. t \in Token
    <3>1. tokens \in Seq(Token) /\ k \in 1..Len(tokens)
      BY <1>1, TypeParts, LenProperties DEF StepUpInv, TokensTyped
    <3> QED BY <1>1, <3>1, ElementOfSeq
  <2>2. /\ clock \in Nat /\ t.begun \in Nat /\ t.iat \in Int /\ t.exp \in Int
        /\ t.exp - t.iat \in 1..MaxTTL /\ t.approver \in Approvers
    BY <1>1, <2>1, TypeParts DEF StepUpInv, OperatorTyped, TokensTyped, Token
  <2>3. Reviewed(t.approver, t)
    BY <1>1 DEF StepUpInv, ReviewInv
  <2>4. PICK o \in Int : o = Offset[t.approver] /\ -Skew <= o /\ o <= Skew /\ Start + o > 0
    BY <2>2, OffsetsWithinSkew
  <2>5. Proper(t) /\ InTime(t, clock)
    BY <1>1, <2>2, <2>3, <2>4, ConstantsTyped DEF Proper, InTime, Reviewed
  <2>6. t.intent.policy = loaded
    BY <1>1 DEF IntentOf
  <2>7. Independent(t.approver, Known[t.intent.principal] \cup Claimed[t.intent.principal])
    BY <1>1, <2>3 DEF Reviewed, Independent
  <2> QED BY <2>3, <2>5, <2>6, <2>7 DEF Reviewed, VerifyApprovalToken
<1>2. StepUpInv => LivingIsAccepted
  BY <1>1 DEF LivingIsAccepted
<1> QED BY <1>2, StepUpInvariant, PTL
-----------------------------------------------------------------------------
(* The gateway implements Approvals, with its approvals, calls and ledgers in any
   number: every step of it is a step of that module or leaves what that module
   speaks of alone. *)

InFlight(c) == call[c].pc \in {"forward", "report"}

\* An approval has one ledger, that of its intent
UsedInv == \A l \in 1..MaxLedgers, k \in DOMAIN tokens :
               <<l, k>> \in used => tokens[k].intent.ledger = l
\* What is spent, sent and settled comes in this order
SendInv(c) ==
    /\ InFlight(c) => Spent(call[c].token)
    /\ call[c].pc = "forward" => ~Sent(call[c].token)
    /\ call[c].pc = "report" => Sent(call[c].token)
SendsInv == \A c \in Calls : SendInv(c)
SentInv == /\ \A f \in forwarded : Spent(f.call.token)
           /\ \A k \in settled : Sent(k)
\* epochMu
OneInFlight == \A c, d \in Calls : InFlight(c) /\ InFlight(d) => c = d
FewTokens == Len(tokens) <= MaxTokens

OrderInv == UsedInv /\ SendsInv /\ SentInv /\ OneInFlight /\ FewTokens
RefinementInv == StepUpInv /\ OrderInv
-----------------------------------------------------------------------------
(* The steps, by what they do to an approval *)

\* Nothing: also a call that is refused, or is not an approved one
Quiet ==
    /\ UNCHANGED <<used, tokens, upstream>>
    /\ \A c \in Calls : InFlight(c) \/ InFlight(c)' => call'[c] = call[c]

Spends(c) ==
    /\ call[c].pc = "commit" /\ Exclusive
    /\ <<ledger, call[c].token>> \notin used
    /\ used' = used \cup {<<ledger, call[c].token>>}
    /\ UNCHANGED <<tokens, upstream>>

LEMMA OtherCalls ==
    ASSUME TypeOK, NEW c \in Calls, NEW k, call' = [call EXCEPT ![c] = k],
           call[c].pc \notin {"forward", "report"}, k.pc \notin {"forward", "report"},
           UNCHANGED <<used, tokens, upstream>>
    PROVE  Quiet
<1>1. call'[c] = k /\ \A d \in Calls \ {c} : call'[d] = call[d]
  BY CallMoved
<1> QED BY <1>1 DEF Quiet, InFlight

LEMMA StepCases ==
    ASSUME TypeOK, [Next]_vars
    PROVE  \/ Quiet \/ Stop
           \/ \E a \in Approvers : Sign(a)
           \/ \E c \in Calls : \/ Spends(c) /\ (Idle(c) \/ Goto(c, "forward"))
                               \/ Forward(c) \/ Report(c)
<1>1. ASSUME UNCHANGED <<used, tokens, upstream, call>> PROVE Quiet
  BY <1>1 DEF Quiet, InFlight
<1>2. CASE UNCHANGED vars \/ InstallPolicy \/ Serve \/ InitState \/ Tick
  BY <1>1, <1>2 DEF vars, InstallPolicy, Serve, InitState, Tick, upstream
<1>3. ASSUME NEW c \in Calls, Challenge(c) \/ List(c) \/ Prune(c) \/ Create(c) \/ Fill(c) \/ Present(c)
      PROVE  Quiet
  <2>1. /\ call[c].pc \notin {"forward", "report"} /\ UNCHANGED <<used, tokens, upstream>>
        /\ \E k : call' = [call EXCEPT ![c] = k] /\ k.pc \notin {"forward", "report"}
    BY <1>3 DEF Challenge, List, Prune, Create, Fill, Present, Idle, IdleCall
  <2> QED BY <2>1, OtherCalls
<1>4. ASSUME NEW a \in Approvers, Review(a) \/ Decline(a) PROVE Quiet
  BY <1>1, <1>4 DEF Review, Decline
<1>5. ASSUME NEW c \in Calls, Commit(c)
      PROVE  Quiet \/ (Spends(c) /\ (Idle(c) \/ Goto(c, "forward")))
  <2>1. CASE Idle(c) /\ UNCHANGED used
    <3>1. /\ call[c].pc \notin {"forward", "report"} /\ UNCHANGED <<used, tokens, upstream>>
          /\ call' = [call EXCEPT ![c] = IdleCall]
      BY <1>5, <2>1 DEF Commit, Idle
    <3>2. IdleCall.pc \notin {"forward", "report"}
      BY DEF IdleCall
    <3> QED BY <3>1, <3>2, OtherCalls
  <2>2. CASE ~(Idle(c) /\ UNCHANGED used)
    BY <1>5, <2>2 DEF Commit, Spends
  <2> QED BY <2>1, <2>2
<1> QED BY <1>2, <1>3, <1>4, <1>5 DEF Next, Operator, Step
-----------------------------------------------------------------------------
(* The order in which an approval is spent, sent and settled *)

\* An approval has one ledger: what this one has not seen spent is not spent.
LEMMA SpentHere ==
    ASSUME RefinementInv, NEW c \in Calls, Spends(c), NEW k, k = call[c].token
    PROVE  /\ k \in DOMAIN tokens
           /\ ~Spent(k) /\ ~Sent(k) /\ k \notin settled
           /\ Spent(k)'
           /\ \A j : j # k => (Spent(j)' <=> Spent(j))
<1>0. TypeOK /\ CallsInv /\ UsedInv /\ SentInv
  BY DEF RefinementInv, StepUpInv, OrderInv
<1>1. k \in DOMAIN tokens
  BY <1>0, BearingFields DEF Spends, Bearing
<1>2. tokens[k].intent.ledger = ledger
  BY <1>0 DEF Spends, CallsInv, CallInv, Covers
<1>3. ~Spent(k)
  BY <1>0, <1>1, <1>2 DEF Spent, UsedInv, Spends
<1>4. ~Sent(k) /\ k \notin settled
  BY <1>0, <1>3 DEF SentInv, Sent
<1>5. ledger \in 1..MaxLedgers
  BY <1>0, TypeParts DEF OperatorTyped
<1>6. used' = used \cup {<<ledger, k>>}
  BY DEF Spends
<1>7. Spent(k)'
  BY <1>5, <1>6 DEF Spent
<1>8. \A j : j # k => (Spent(j)' <=> Spent(j))
  BY <1>6 DEF Spent
<1> QED BY <1>1, <1>3, <1>4, <1>7, <1>8

LEMMA UsedInvStep == RefinementInv /\ [Next]_vars => UsedInv'
<1> SUFFICES ASSUME RefinementInv, [Next]_vars PROVE UsedInv'
  OBVIOUS
<1>0. TypeOK /\ CallsInv /\ UsedInv /\ UsedTyped /\ TokensGrow
  BY TypeParts, TokensGrowing DEF RefinementInv, StepUpInv, OrderInv
<1>1. ASSUME NEW l \in 1..MaxLedgers, NEW k \in DOMAIN tokens', <<l, k>> \in used
      PROVE  tokens'[k].intent.ledger = l
  <2>1. k \in DOMAIN tokens
    BY <1>0, <1>1 DEF UsedTyped
  <2> QED BY <1>0, <1>1, <2>1 DEF UsedInv, TokensGrow
<1>2. CASE used' = used
  BY <1>1, <1>2 DEF UsedInv
<1>3. ASSUME NEW c \in Calls, Spends(c) PROVE UsedInv'
  <2>1. tokens'[call[c].token].intent.ledger = ledger
    BY <1>0, <1>3 DEF Spends, CallsInv, CallInv, Covers
  <2> QED BY <1>1, <1>3, <2>1 DEF UsedInv, Spends
<1>4. used' = used \/ \E c \in Calls : Spends(c)
  BY <1>0, StepCases DEF Quiet, Stop, Sign, Forward, Report
<1> QED BY <1>2, <1>3, <1>4

LEMMA SentInvStep == RefinementInv /\ [Next]_vars => SentInv'
<1> SUFFICES ASSUME RefinementInv, [Next]_vars PROVE SentInv'
  OBVIOUS
<1>0. TypeOK /\ SendsInv /\ SentInv
  BY DEF RefinementInv, StepUpInv, OrderInv
<1>1. CASE UNCHANGED <<used, upstream>>
  BY <1>0, <1>1 DEF SentInv, Spent, Sent, upstream
<1>2. ASSUME NEW c \in Calls, Spends(c) PROVE SentInv'
  BY <1>0, <1>2 DEF SentInv, Spent, Sent, Spends, upstream
<1>3. ASSUME NEW c \in Calls, Forward(c) PROVE SentInv'
  <2>1. PICK f : /\ f.call.token = call[c].token
                 /\ forwarded' = forwarded \cup {f}
    BY <1>3 DEF Forward
  <2>2. Spent(call[c].token) /\ UNCHANGED <<used, settled>>
    BY <1>0, <1>3 DEF Forward, SendsInv, SendInv, InFlight
  <2> QED BY <1>0, <2>1, <2>2 DEF SentInv, Spent, Sent
<1>4. ASSUME NEW c \in Calls, Report(c) PROVE SentInv'
  <2>1. Sent(call[c].token) /\ UNCHANGED <<used, forwarded>>
    BY <1>0, <1>4 DEF Report, SendsInv, SendInv
  <2> QED BY <1>0, <1>4, <2>1 DEF SentInv, Spent, Sent, Report
<1>5. \/ UNCHANGED <<used, upstream>>
      \/ \E c \in Calls : Spends(c) \/ Forward(c) \/ Report(c)
  BY <1>0, StepCases DEF Quiet, Stop, Sign
<1> QED BY <1>1, <1>2, <1>3, <1>4, <1>5

LEMMA FewTokensStep == RefinementInv /\ [Next]_vars => FewTokens'
<1> SUFFICES ASSUME RefinementInv, [Next]_vars PROVE FewTokens'
  OBVIOUS
<1>0. TypeOK /\ FewTokens /\ TokensTyped /\ OperatorTyped
  BY TypeParts DEF RefinementInv, StepUpInv, OrderInv
<1>1. CASE UNCHANGED tokens
  BY <1>0, <1>1 DEF FewTokens
<1>2. ASSUME NEW a \in Approvers, Sign(a) PROVE FewTokens'
  <2>1. SessionTyped(a) /\ session[a].pc = "asked"
    BY <1>2, TypeParts DEF SessionsTyped, Sign, RefinementInv, StepUpInv
  <2>2. PICK t \in Token : tokens' = Append(tokens, t)
    BY <1>2, <2>1, SignedTyped DEF Sign
  <2>3. /\ Len(tokens') = Len(tokens) + 1 /\ Len(tokens) \in Nat
    BY <1>0, <2>2, AppendKeeps DEF TokensTyped
  <2>4. Len(tokens) < bound.tokens /\ bound.tokens \in 0..MaxTokens
    BY <1>0, <1>2, BoundsTyped DEF Sign, OperatorTyped
  <2> QED BY <2>3, <2>4, ConstantsTyped DEF FewTokens
<1> QED BY <1>0, <1>1, <1>2, NextTokens

\* A call that has gone on, by the fields that it keeps
LEMMA WentOn ==
    ASSUME TypeOK, NEW c \in Calls, NEW l, Goto(c, l), call[c].pc \in {"commit", "forward"}
    PROVE  /\ call'[c].pc = l /\ call'[c].token = call[c].token
           /\ \A d \in Calls \ {c} : call'[d] = call[d]
<1>1. Bearing(call[c])
  BY BearingFields
<1>2. PICK k : k = [call[c] EXCEPT !.pc = l] /\ call' = [call EXCEPT ![c] = k]
  BY DEF Goto
<1>3. k.pc = l /\ k.token = call[c].token
  BY <1>1, <1>2 DEF Bearing
<1> QED BY <1>2, <1>3, CallMoved

LEMMA WentIdle ==
    ASSUME TypeOK, NEW c \in Calls, Idle(c)
    PROVE  /\ call'[c].pc = "idle" /\ ~InFlight(c)'
           /\ \A d \in Calls \ {c} : call'[d] = call[d]
BY CallMoved DEF Idle, IdleCall, InFlight

\* A call that has not moved, when nothing is sent
LEMMA SendInvKept ==
    ASSUME NEW c \in Calls, SendInv(c), call'[c] = call[c],
           UNCHANGED forwarded \/ ~InFlight(c), used \subseteq used'
    PROVE  SendInv(c)'
BY DEF SendInv, InFlight, Spent, Sent

LEMMA SendsInvStep == RefinementInv /\ [Next]_vars => SendsInv' /\ OneInFlight'
<1> SUFFICES ASSUME RefinementInv, [Next]_vars PROVE SendsInv' /\ OneInFlight'
  OBVIOUS
<1>0. TypeOK /\ SendsInv /\ OneInFlight /\ SentInv
  BY DEF RefinementInv, StepUpInv, OrderInv
<1>1. CASE Quiet
  <2>1. ASSUME NEW c \in Calls PROVE SendInv(c)'
    <3>1. CASE InFlight(c) \/ InFlight(c)'
      BY <1>0, <1>1, <3>1, SendInvKept DEF Quiet, upstream, SendsInv
    <3>2. CASE ~InFlight(c)'
      BY <3>2 DEF SendInv, InFlight
    <3> QED BY <3>1, <3>2
  <2>2. \A c \in Calls : InFlight(c)' => InFlight(c)
    BY <1>1 DEF Quiet, InFlight
  <2> QED BY <1>0, <2>1, <2>2 DEF SendsInv, OneInFlight
<1>2. CASE Stop
  BY <1>2 DEF Stop, IdleCall, SendsInv, SendInv, OneInFlight, InFlight
<1>3. ASSUME NEW a \in Approvers, Sign(a) PROVE SendsInv' /\ OneInFlight'
  BY <1>0, <1>3 DEF Sign, upstream, SendsInv, SendInv, OneInFlight, InFlight, Spent, Sent
<1>4. ASSUME NEW c \in Calls, Spends(c), Idle(c) \/ Goto(c, "forward")
      PROVE  SendsInv' /\ OneInFlight'
  <2>1. PICK k : k = call[c].token
    OBVIOUS
  <2>2. Spent(k)' /\ ~Sent(k) /\ UNCHANGED forwarded /\ used \subseteq used'
    BY <1>4, <2>1, SpentHere DEF Spends, upstream
  <2>3. \A d \in Calls \ {c} : call'[d] = call[d]
    BY <1>0, <1>4, WentOn, WentIdle DEF Spends
  <2>4. call'[c].pc = "idle" \/ (call'[c].pc = "forward" /\ call'[c].token = k)
    BY <1>0, <1>4, <2>1, WentOn, WentIdle DEF Spends
  <2>5. SendInv(c)'
    BY <2>2, <2>4 DEF SendInv, InFlight, Spent, Sent
  <2>6. \A d \in Calls \ {c} : SendInv(d)'
    BY <1>0, <2>2, <2>3, SendInvKept DEF SendsInv
  <2>7. \A d \in Calls \ {c} : ~InFlight(d)'
    BY <1>4, <2>3 DEF Spends, Exclusive, InFlight
  <2> QED BY <2>5, <2>6, <2>7 DEF SendsInv, OneInFlight
<1>5. ASSUME NEW c \in Calls, Forward(c) PROVE SendsInv' /\ OneInFlight'
  <2>1. PICK k : k = call[c].token
    OBVIOUS
  <2>2. call[c].pc = "forward" /\ Spent(k) /\ used' = used /\ Goto(c, "report")
    BY <1>0, <1>5, <2>1 DEF Forward, SendsInv, SendInv, InFlight
  <2>3. /\ \A d \in Calls \ {c} : call'[d] = call[d]
        /\ call'[c].pc = "report" /\ call'[c].token = k
    BY <1>0, <2>1, <2>2, WentOn
  <2>4. Sent(k)'
    <3>1. PICK f : f.call.token = k /\ f \in forwarded'
      BY <1>5, <2>1 DEF Forward
    <3> QED BY <3>1 DEF Sent
  <2>5. SendInv(c)'
    BY <2>2, <2>3, <2>4 DEF SendInv, InFlight, Spent, Sent
  <2>6. \A d \in Calls \ {c} : ~InFlight(d) /\ ~InFlight(d)'
    BY <1>0, <2>2, <2>3 DEF OneInFlight, InFlight
  <2>7. \A d \in Calls \ {c} : SendInv(d)'
    BY <2>6 DEF SendInv, InFlight
  <2> QED BY <2>5, <2>6, <2>7 DEF SendsInv, OneInFlight
<1>6. ASSUME NEW c \in Calls, Report(c) PROVE SendsInv' /\ OneInFlight'
  <2>1. Idle(c) /\ UNCHANGED <<used, forwarded>>
    BY <1>6 DEF Report
  <2>2. /\ \A d \in Calls \ {c} : call'[d] = call[d]
        /\ ~InFlight(c)'
    BY <1>0, <2>1, WentIdle
  <2>3. SendInv(c)'
    BY <2>2 DEF SendInv, InFlight
  <2>4. \A d \in Calls \ {c} : SendInv(d)'
    BY <1>0, <2>1, <2>2, SendInvKept DEF SendsInv
  <2> QED BY <1>0, <2>2, <2>3, <2>4 DEF SendsInv, OneInFlight, InFlight
<1> QED BY <1>0, <1>1, <1>2, <1>3, <1>4, <1>5, <1>6, StepCases

LEMMA RefinementInvariant == Spec => []RefinementInv
<1>1. Init => OrderInv
  <2> SUFFICES ASSUME Init PROVE OrderInv
    OBVIOUS
  <2>1. FewTokens
    BY ConstantsTyped, EmptySeq DEF Init, FewTokens
  <2>2. UsedInv /\ SendsInv /\ SentInv /\ OneInFlight
    BY DEF Init, UsedInv, SendsInv, SendInv, SentInv, OneInFlight, InFlight, IdleCall
  <2> QED BY <2>1, <2>2 DEF OrderInv
<1>2. RefinementInv /\ [Next]_vars => OrderInv'
  BY UsedInvStep, SendsInvStep, SentInvStep, FewTokensStep DEF OrderInv
<1>3. Spec => []StepUpInv
  BY StepUpInvariant
<1>4. RefinementInv <=> StepUpInv /\ OrderInv
  BY DEF RefinementInv
<1>5. Spec => []RefinementInv
  BY <1>1, <1>2, <1>3, <1>4, PTL DEF Spec
<1> QED BY <1>5
-----------------------------------------------------------------------------
(* The steps of the gateway and those of Approvals *)

LEMMA StatusKept ==
    ASSUME NEW k, k \in DOMAIN tokens' <=> k \in DOMAIN tokens, k \in settled' <=> k \in settled,
           Sent(k)' <=> Sent(k), Sending(k)' <=> Sending(k), Spent(k)' <=> Spent(k)
    PROVE  StatusOf(k)' = StatusOf(k)
BY DEF StatusOf

\* One approval moves on
LEMMA MovedOn ==
    ASSUME NEW k \in Numbers, NEW from, NEW to, StatusOf(k) = from, StatusOf(k)' = to,
           \A j \in Numbers : j # k => StatusOf(j)' = StatusOf(j)
    PROVE  Promise!Move(k, from, to)
<1>1. \A j \in Numbers : Statuses'[j] = IF j = k THEN to ELSE Statuses[j]
  BY DEF Statuses
<1>2. Statuses' = [Statuses EXCEPT ![k] = to]
  BY <1>1 DEF Statuses
<1>3. Statuses[k] = from
  BY DEF Statuses
<1> QED BY <1>2, <1>3 DEF Promise!Move

LEMMA TokensAreNumbers ==
    ASSUME RefinementInv
    PROVE  /\ DOMAIN tokens \subseteq Numbers
           /\ \A k \in DOMAIN tokens : Given[k] = tokens[k].intent /\ tokens[k].intent \in Intent
<1>1. tokens \in Seq(Token) /\ Len(tokens) <= MaxTokens /\ MaxTokens \in Nat
  BY TypeParts, ConstantsTyped DEF RefinementInv, StepUpInv, OrderInv, FewTokens, TokensTyped
<1>2. DOMAIN tokens = 1..Len(tokens) /\ Len(tokens) \in Nat
  BY <1>1, LenProperties
<1>3. DOMAIN tokens \subseteq Numbers
  BY <1>1, <1>2 DEF Numbers
<1>4. \A k \in DOMAIN tokens : tokens[k] \in Token
  BY <1>1, <1>2, ElementOfSeq
<1> QED BY <1>3, <1>4 DEF Given, Token

\* A gateway in which nothing moves leaves all the approvals alone
LEMMA Stutters ==
    ASSUME UNCHANGED <<tokens, forwarded>>, \A k \in Numbers : StatusOf(k)' = StatusOf(k)
    PROVE  UNCHANGED <<Statuses, Given, Reached>>
BY DEF Statuses, Given, Reached

LEMMA QuietStutters == Quiet => UNCHANGED <<Statuses, Given, Reached>>
<1> SUFFICES ASSUME Quiet PROVE \A k : StatusOf(k)' = StatusOf(k)
  BY Stutters DEF Quiet, upstream
<1>1. ASSUME NEW k PROVE Sending(k)' <=> Sending(k)
  BY DEF Quiet, InFlight, Sending
<1>2. ASSUME NEW k PROVE StatusOf(k)' = StatusOf(k)
  BY <1>1, StatusKept DEF Quiet, upstream, Sent, Spent
<1> QED BY <1>2

LEMMA SignApproves ==
    ASSUME RefinementInv, [Next]_vars, NEW a \in Approvers, Sign(a)
    PROVE  \E k \in Numbers, i \in Intent : Promise!Approve(k, i)
<1>0. TypeOK /\ TypeOK' /\ UsedTyped /\ UpstreamTyped /\ TokensTyped /\ SendsInv
  BY TypeParts, TypeStep DEF RefinementInv, StepUpInv, OrderInv
<1>1. SessionTyped(a) /\ session[a].pc = "asked"
  BY TypeParts DEF SessionsTyped, Sign, RefinementInv, StepUpInv
<1>2. PICK t \in Token : tokens' = Append(tokens, t)
  BY <1>1, SignedTyped DEF Sign
<1>3. PICK k : k = Len(tokens) + 1
  OBVIOUS
<1>4. /\ DOMAIN tokens' = 1..k /\ DOMAIN tokens = 1..Len(tokens) /\ Len(tokens) \in Nat
      /\ Len(tokens') = k /\ tokens'[k] = t /\ \A j \in DOMAIN tokens : tokens'[j] = tokens[j]
  BY <1>0, <1>2, <1>3, AppendKeeps DEF TokensTyped
<1>5. k \in Numbers
  BY <1>3, <1>4, FewTokensStep, ConstantsTyped DEF FewTokens, Numbers
<1>6. k \notin DOMAIN tokens /\ k \in DOMAIN tokens'
  BY <1>3, <1>4
<1>7. \A j : j # k => (j \in DOMAIN tokens' <=> j \in DOMAIN tokens)
  BY <1>3, <1>4
<1>8. UNCHANGED <<used, upstream, call>>
  BY DEF Sign
<1>9. \A j : /\ Sending(j)' <=> Sending(j)
             /\ Sent(j)' <=> Sent(j)
             /\ Spent(j)' <=> Spent(j)
  BY <1>8 DEF Sending, Sent, Spent, upstream
<1>10. \A j : j # k => StatusOf(j)' = StatusOf(j)
  BY <1>7, <1>8, <1>9 DEF StatusOf, upstream
<1>11. ~Spent(k) /\ ~Sent(k) /\ k \notin settled /\ ~Sending(k)
  <2>1. ~Spent(k) /\ ~Sent(k) /\ k \notin settled
    BY <1>0, <1>6 DEF UsedTyped, UpstreamTyped, Spent, Sent
  <2>2. ~Sending(k)
    BY <1>0, <2>1 DEF Sending, SendsInv, SendInv, InFlight
  <2> QED BY <2>1, <2>2
<1>12. StatusOf(k) = "none" /\ StatusOf(k)' = "approved"
  BY <1>6, <1>8, <1>9, <1>11 DEF StatusOf, upstream
<1>13. Promise!Move(k, "none", "approved")
  BY <1>5, <1>10, <1>12, MovedOn
<1>14. Given' = [Given EXCEPT ![k] = t.intent]
  <2>1. \A j \in Numbers : Given'[j] = IF j = k THEN t.intent ELSE Given[j]
    BY <1>4, <1>6, <1>7 DEF Given
  <2> QED BY <2>1 DEF Given
<1>15. Reached' = Reached
  BY <1>8 DEF Reached, upstream
<1>16. t.intent \in Intent
  BY DEF Token
<1>17. Promise!Approve(k, t.intent)
  BY <1>13, <1>14, <1>15 DEF Promise!Approve
<1> QED BY <1>5, <1>16, <1>17

\* A call spends an approval that nobody has spent, and goes on with it or fails.
LEMMA CommitSpends ==
    ASSUME RefinementInv, NEW c \in Calls, Spends(c), Idle(c) \/ Goto(c, "forward")
    PROVE  \E k \in Numbers : Promise!Spend(k) \/ Promise!SpendInVain(k)
<1>0. TypeOK /\ UNCHANGED <<tokens, settled, forwarded>> /\ call[c].pc = "commit"
  BY DEF RefinementInv, StepUpInv, Spends, upstream
<1>1. PICK k : k = call[c].token
  OBVIOUS
<1>2. /\ k \in DOMAIN tokens /\ ~Spent(k) /\ ~Sent(k) /\ k \notin settled /\ Spent(k)'
      /\ \A j : j # k => (Spent(j)' <=> Spent(j))
  BY <1>1, SpentHere
<1>3. \A j : Sent(j)' <=> Sent(j)
  BY <1>0 DEF Sent
<1>4. \A j : ~Sending(j)
  BY DEF Spends, Exclusive, Sending
<1>5. \A d \in Calls \ {c} : call'[d].pc # "forward"
  BY <1>0, WentOn, WentIdle DEF Spends, Exclusive
<1>6. k \in Numbers
  BY <1>2, TokensAreNumbers
<1>7. StatusOf(k) = "approved"
  BY <1>2, <1>4 DEF StatusOf
<1>8. Given' = Given /\ Reached' = Reached
  BY <1>0 DEF Given, Reached
<1>9. CASE Idle(c)
  <2>1. \A j : ~Sending(j)'
    BY <1>0, <1>5, <1>9, WentIdle DEF Sending
  <2>2. \A j : j # k => StatusOf(j)' = StatusOf(j)
    BY <1>0, <1>2, <1>3, <1>4, <2>1, StatusKept
  <2>3. StatusOf(k)' = "lost"
    BY <1>0, <1>2, <1>3, <2>1 DEF StatusOf
  <2>4. Promise!Move(k, "approved", "lost")
    BY <1>6, <1>7, <2>2, <2>3, MovedOn
  <2> QED BY <1>6, <1>8, <2>4 DEF Promise!SpendInVain
<1>10. CASE Goto(c, "forward")
  <2>1. call'[c].pc = "forward" /\ call'[c].token = k
    BY <1>0, <1>1, <1>10, WentOn
  <2>2. Sending(k)' /\ \A j : j # k => ~Sending(j)'
    BY <1>5, <2>1 DEF Sending
  <2>3. \A j : j # k => StatusOf(j)' = StatusOf(j)
    BY <1>0, <1>2, <1>3, <1>4, <2>2, StatusKept
  <2>4. StatusOf(k)' = "spent"
    BY <1>0, <1>2, <1>3, <2>2 DEF StatusOf
  <2>5. Promise!Move(k, "approved", "spent")
    BY <1>6, <1>7, <2>3, <2>4, MovedOn
  <2> QED BY <1>6, <1>8, <2>5 DEF Promise!Spend
<1> QED BY <1>9, <1>10

\* Only the call that has spent an approval is in flight, and it has not sent it before.
LEMMA ForwardForwards ==
    ASSUME RefinementInv, NEW c \in Calls, Forward(c)
    PROVE  \E k \in Numbers : Promise!Forward(k)
<1>0. /\ TypeOK /\ SendsInv /\ SentInv /\ OneInFlight /\ CallsInv
      /\ UNCHANGED <<used, tokens, settled>> /\ call[c].pc = "forward" /\ Goto(c, "report")
  BY DEF RefinementInv, StepUpInv, OrderInv, Forward
<1>1. PICK k : k = call[c].token
  OBVIOUS
<1>2. k \in DOMAIN tokens /\ tokens[k].intent = call[c].intent
  BY <1>0, <1>1, BearingFields DEF Bearing, CallsInv, CallInv, Covers
<1>3. k \in Numbers /\ Given[k] = call[c].intent
  BY <1>2, TokensAreNumbers
<1>4. ~Sent(k) /\ k \notin settled
  BY <1>0, <1>1 DEF SendsInv, SendInv, SentInv
<1>5. PICK f : /\ f.call.token = k /\ f.call.intent = call[c].intent
               /\ forwarded' = forwarded \cup {f}
  BY <1>1 DEF Forward
<1>6. Sent(k)' /\ \A j : j # k => (Sent(j)' <=> Sent(j))
  BY <1>5 DEF Sent
<1>7. Sending(k) /\ \A j : j # k => ~Sending(j)
  BY <1>0, <1>1 DEF Sending, OneInFlight, InFlight
<1>8. /\ call'[c].pc = "report" /\ \A d \in Calls \ {c} : call'[d] = call[d]
  BY <1>0, WentOn
<1>9. \A j : ~Sending(j)'
  BY <1>0, <1>8 DEF Sending, OneInFlight, InFlight
<1>10. \A j : j # k => StatusOf(j)' = StatusOf(j)
  BY <1>0, <1>6, <1>7, <1>9, StatusKept DEF Spent
<1>11. StatusOf(k) = "spent" /\ StatusOf(k)' = "forwarded"
  BY <1>0, <1>2, <1>4, <1>6, <1>7 DEF StatusOf
<1>12. Promise!Move(k, "spent", "forwarded")
  BY <1>3, <1>10, <1>11, MovedOn
<1>13. Reached' = Reached \cup {<<k, Given[k]>>}
  BY <1>3, <1>5 DEF Reached
<1>14. Given' = Given
  BY <1>0 DEF Given
<1> QED BY <1>3, <1>12, <1>13, <1>14 DEF Promise!Forward

LEMMA ReportSettles ==
    ASSUME RefinementInv, NEW c \in Calls, Report(c)
    PROVE  \/ UNCHANGED <<Statuses, Given, Reached>>
           \/ \E k \in Numbers : Promise!Settle(k)
<1>0. /\ TypeOK /\ SendsInv /\ UNCHANGED <<used, tokens, forwarded>>
      /\ call[c].pc = "report" /\ Idle(c)
  BY DEF RefinementInv, StepUpInv, OrderInv, Report
<1>1. PICK k : k = call[c].token
  OBVIOUS
<1>2. k \in DOMAIN tokens /\ k \in Numbers /\ Sent(k)
  BY <1>0, <1>1, BearingFields, TokensAreNumbers DEF Bearing, SendsInv, SendInv
<1>3. \A j : (Sent(j)' <=> Sent(j)) /\ (Spent(j)' <=> Spent(j))
  BY <1>0 DEF Sent, Spent
<1>4. \A j : Sending(j)' <=> Sending(j)
  BY <1>0, WentIdle DEF Sending
<1>5. \A j : j # k => StatusOf(j)' = StatusOf(j)
  BY <1>0, <1>1, <1>3, <1>4, StatusKept DEF Report
<1>6. CASE settled' = settled
  <2>1. \A j : StatusOf(j)' = StatusOf(j)
    BY <1>0, <1>3, <1>4, <1>6, StatusKept
  <2> QED BY <1>0, <2>1, Stutters
<1>7. CASE settled' # settled
  <2>1. k \notin settled /\ k \in settled'
    BY <1>1, <1>7 DEF Report
  <2>2. StatusOf(k) = "forwarded" /\ StatusOf(k)' = "settled"
    BY <1>0, <1>2, <2>1 DEF StatusOf
  <2>3. Promise!Move(k, "forwarded", "settled")
    BY <1>2, <1>5, <2>2, MovedOn
  <2>4. Given' = Given /\ Reached' = Reached
    BY <1>0 DEF Given, Reached
  <2> QED BY <1>2, <2>3, <2>4 DEF Promise!Settle
<1> QED BY <1>6, <1>7

LEMMA StopCrashes == RefinementInv /\ Stop => Promise!Crash
<1> SUFFICES ASSUME RefinementInv, Stop PROVE Promise!Crash
  OBVIOUS
<1>0. SendsInv /\ UNCHANGED <<used, tokens, forwarded, settled>>
  BY DEF RefinementInv, OrderInv, Stop, upstream
<1>1. \A j : (Sent(j)' <=> Sent(j)) /\ (Spent(j)' <=> Spent(j)) /\ ~Sending(j)'
  BY <1>0 DEF Sent, Spent, Sending, Stop, IdleCall
<1>2. \A j : Sending(j) => Spent(j)
  BY <1>0 DEF Sending, SendsInv, SendInv, InFlight
<1>3. \A j : StatusOf(j)' = IF StatusOf(j) = "spent" THEN "lost" ELSE StatusOf(j)
  BY <1>0, <1>1, <1>2 DEF StatusOf
<1>4. Statuses' = [k \in Numbers |-> IF Statuses[k] = "spent" THEN "lost" ELSE Statuses[k]]
  BY <1>3 DEF Statuses
<1>5. Given' = Given /\ Reached' = Reached
  BY <1>0 DEF Given, Reached
<1> QED BY <1>4, <1>5 DEF Promise!Crash

\* The safety part of KeepsPromise of run StepUp, for any instance: that what is spent is
\* soon forwarded or lost needs fairness.
THEOREM StepUpImplements == Spec => Promise!ASpec
<1>1. Init => Promise!AInit
  <2> SUFFICES ASSUME Init PROVE Promise!AInit
    OBVIOUS
  <2>1. DOMAIN tokens = {} /\ forwarded = {}
    BY DEF Init
  <2> QED BY <2>1 DEF Promise!AInit, Statuses, StatusOf, Given, Reached
<1>2. RefinementInv /\ [Next]_vars => [Promise!ANext]_(Promise!avars)
  <2> SUFFICES ASSUME RefinementInv, [Next]_vars
               PROVE  UNCHANGED <<Statuses, Given, Reached>> \/ Promise!ANext
    BY DEF Promise!avars
  <2>1. TypeOK
    BY DEF RefinementInv, StepUpInv
  <2> QED BY <2>1, StepCases, QuietStutters, StopCrashes, SignApproves, CommitSpends,
             ForwardForwards, ReportSettles DEF Promise!ANext
<1> QED BY <1>1, <1>2, RefinementInvariant, PTL DEF Spec, Promise!ASpec

-----------------------------------------------------------------------------
(* The directory of receipts.  Calls that prune it go by listings that have  *)
(* aged.  Number the calls by when they have listed it, and take the last    *)
(* one that has pruned: of what it had listed there is room left, and what   *)
(* has come since came from calls that had listed before it, one of each.    *)

\* The calls that may create a file without listing the directory later than m, in a
\* directory d and with calls k
Due(k, rank, m) == {c \in Calls : k[c].pc = "create" \/ (k[c].pc = "prune" /\ rank[c] <= m)}
\* rank numbers the listings, n is the next number, e that of the last one that has been
\* pruned by, and B is what of it is left
Fits(D, k, n, rank, e, B) ==
    /\ IsFiniteSet(D) /\ n \in Nat /\ rank \in [Calls -> Nat] /\ e \in Nat /\ B \in SUBSET D
    /\ e < n /\ \A c \in Calls : rank[c] < n
    /\ Cardinality(B) <= MaxReceipts - 1
    /\ Cardinality(D \ B) + Cardinality(Due(k, rank, e)) <= Cardinality(Calls)
    /\ \A c \in Calls : k[c].pc = "prune" /\ rank[c] > e =>
           Cardinality(D \ DOMAIN k[c].listing) + Cardinality(Due(k, rank, rank[c]) \ {c})
               <= Cardinality(Calls) - 1
DirInv == \E n, rank, e, B : Fits(dir, call, n, rank, e, B)

LEMMA FewCalls ==
    ASSUME NEW S \in SUBSET Calls
    PROVE  /\ IsFiniteSet(S) /\ Cardinality(S) \in Nat /\ Cardinality(S) <= Cardinality(Calls)
           /\ Cardinality(Calls) \in Nat /\ IsFiniteSet(Calls)
           /\ \A c \in Calls : c \notin S => Cardinality(S) <= Cardinality(Calls) - 1
<1>1. IsFiniteSet(Calls)
  BY StepUpConstants
<1>2. IsFiniteSet(S) /\ Cardinality(S) <= Cardinality(Calls)
  BY <1>1, FS_Subset
<1>3. Cardinality(S) \in Nat /\ Cardinality(Calls) \in Nat
  BY <1>1, <1>2, FS_CardinalityType
<1>4. ASSUME NEW c \in Calls, c \notin S PROVE Cardinality(S) <= Cardinality(Calls) - 1
  <2>1. S \in SUBSET (Calls \ {c})
    BY <1>4
  <2>2. IsFiniteSet(Calls \ {c}) /\ Cardinality(Calls \ {c}) = Cardinality(Calls) - 1
    BY <1>1, <1>4, FS_RemoveElement
  <2> QED BY <2>1, <2>2, FS_Subset
<1> QED BY <1>1, <1>2, <1>3, <1>4

LEMMA FewFiles ==
    ASSUME NEW D, IsFiniteSet(D), NEW T \in SUBSET D
    PROVE  IsFiniteSet(T) /\ Cardinality(T) \in Nat /\ Cardinality(T) <= Cardinality(D)
BY FS_Subset, FS_CardinalityType

\* Calls that leave the directory alone and come no nearer to creating a file
LEMMA FitsQuietly ==
    ASSUME NEW D, NEW k, NEW k2, NEW n, NEW rank, NEW e, NEW B, Fits(D, k, n, rank, e, B),
           \A c \in Calls : /\ k2[c].pc = "create" => k[c].pc = "create"
                            /\ k2[c].pc = "prune" => k[c].pc = "prune"
                                                     /\ k2[c].listing = k[c].listing
    PROVE  Fits(D, k2, n, rank, e, B)
<1>1. \A m : Due(k2, rank, m) \in SUBSET Due(k, rank, m) /\ Due(k, rank, m) \in SUBSET Calls
  BY DEF Due
<1>2. IsFiniteSet(D) /\ Cardinality(Calls) \in Nat
  BY FewCalls DEF Fits
<1>3. Cardinality(D \ B) + Cardinality(Due(k2, rank, e)) <= Cardinality(Calls)
  <2>1. Cardinality(Due(k2, rank, e)) <= Cardinality(Due(k, rank, e))
        /\ Cardinality(Due(k2, rank, e)) \in Nat /\ Cardinality(Due(k, rank, e)) \in Nat
    BY <1>1, FewCalls, FewFiles
  <2>2. Cardinality(D \ B) \in Nat
    BY <1>2, FewFiles
  <2>3. Cardinality(D \ B) + Cardinality(Due(k, rank, e)) <= Cardinality(Calls)
    BY DEF Fits
  <2> QED BY <1>2, <2>1, <2>2, <2>3
<1>4. ASSUME NEW c \in Calls, k2[c].pc = "prune", rank[c] > e
      PROVE  Cardinality(D \ DOMAIN k2[c].listing) + Cardinality(Due(k2, rank, rank[c]) \ {c})
                 <= Cardinality(Calls) - 1
  <2> DEFINE L == DOMAIN k[c].listing
             S == Due(k, rank, rank[c]) \ {c}
             S2 == Due(k2, rank, rank[c]) \ {c}
  <2>1. k[c].pc = "prune" /\ DOMAIN k2[c].listing = L
    BY <1>4
  <2>2. Cardinality(D \ L) + Cardinality(S) <= Cardinality(Calls) - 1
    BY <2>1, <1>4 DEF Fits
  <2>3. S2 \in SUBSET S /\ S \in SUBSET Calls
    BY <1>1
  <2> HIDE DEF S, S2, L
  <2>4. Cardinality(S2) <= Cardinality(S) /\ Cardinality(S2) \in Nat /\ Cardinality(S) \in Nat
    BY <2>3, FewCalls, FewFiles
  <2>5. Cardinality(D \ L) \in Nat
    BY <1>2, FewFiles
  <2>6. Cardinality(D \ L) + Cardinality(S2) <= Cardinality(Calls) - 1
    BY <1>2, <2>2, <2>4, <2>5
  <2> QED BY <2>1, <2>6 DEF S2
<1> QED BY <1>3, <1>4 DEF Fits

\* A call lists the directory
LEMMA FitsListed ==
    ASSUME NEW D, NEW k, NEW k2, NEW n, NEW rank, NEW e, NEW B, Fits(D, k, n, rank, e, B),
           NEW c \in Calls, k[c].pc = "list", k2[c].pc = "prune", DOMAIN k2[c].listing = D,
           \A d \in Calls \ {c} : k2[d] = k[d]
    PROVE  Fits(D, k2, n + 1, [rank EXCEPT ![c] = n], e, B)
<1> DEFINE rank2 == [rank EXCEPT ![c] = n]
<1>1. /\ IsFiniteSet(D) /\ n \in Nat /\ rank \in [Calls -> Nat] /\ e \in Nat /\ e < n
      /\ \A d \in Calls : rank[d] < n
  BY DEF Fits
<1>2. /\ rank2 \in [Calls -> Nat] /\ rank2[c] = n /\ n + 1 \in Nat /\ e < n + 1
      /\ \A d \in Calls \ {c} : rank2[d] = rank[d]
      /\ \A d \in Calls : rank2[d] < n + 1
  BY <1>1
<1> HIDE DEF rank2
<1>3. \A m \in Nat : m < n => Due(k2, rank2, m) = Due(k, rank, m)
  <2> SUFFICES ASSUME NEW m \in Nat, m < n, NEW d \in Calls
               PROVE  d \in Due(k2, rank2, m) <=> d \in Due(k, rank, m)
    BY DEF Due
  <2>1. CASE d = c
    BY <2>1, <1>1, <1>2 DEF Due
  <2>2. CASE d # c
    BY <2>2, <1>2 DEF Due
  <2> QED BY <2>1, <2>2
<1>4. Cardinality(D \ B) + Cardinality(Due(k2, rank2, e)) <= Cardinality(Calls)
  BY <1>1, <1>3 DEF Fits
<1>5. ASSUME NEW d \in Calls, k2[d].pc = "prune", rank2[d] > e
      PROVE  Cardinality(D \ DOMAIN k2[d].listing) + Cardinality(Due(k2, rank2, rank2[d]) \ {d})
                 <= Cardinality(Calls) - 1
  <2>1. CASE d = c
    <3>1. D \ DOMAIN k2[d].listing = {}
      BY <2>1
    <3>2. Cardinality(D \ DOMAIN k2[d].listing) = 0
      BY <3>1, FS_EmptySet
    <3> DEFINE S == Due(k2, rank2, rank2[d]) \ {d}
    <3>3. S \in SUBSET Calls /\ d \notin S
      BY DEF Due
    <3> HIDE DEF S
    <3>4. Cardinality(S) <= Cardinality(Calls) - 1 /\ Cardinality(S) \in Nat
      BY <3>3, FewCalls
    <3>5. 0 + Cardinality(S) <= Cardinality(Calls) - 1
      BY <3>4
    <3> QED BY <3>2, <3>5 DEF S
  <2>2. CASE d # c
    <3>1. k2[d] = k[d] /\ rank2[d] = rank[d] /\ rank[d] \in Nat /\ rank[d] < n
      BY <2>2, <1>1, <1>2
    <3>2. Due(k2, rank2, rank2[d]) = Due(k, rank, rank[d])
      BY <3>1, <1>3
    <3> QED BY <3>1, <3>2, <1>5 DEF Fits
  <2> QED BY <2>1, <2>2
<1> QED BY <1>1, <1>2, <1>4, <1>5 DEF Fits, rank2

\* A call prunes the directory to D2, which leaves room in what it has listed
LEMMA FitsPruned ==
    ASSUME NEW D, NEW k, NEW k2, NEW n, NEW rank, NEW e, NEW B, Fits(D, k, n, rank, e, B),
           NEW c \in Calls, k[c].pc = "prune", k2[c].pc = "create",
           \A d \in Calls \ {c} : k2[d] = k[d],
           NEW D2 \in SUBSET D,
           Cardinality(D2 \cap DOMAIN k[c].listing) <= MaxReceipts - 1
    PROVE  \E e2, B2 : Fits(D2, k2, n, rank, e2, B2)
<1>1. /\ IsFiniteSet(D) /\ IsFiniteSet(D2) /\ n \in Nat /\ rank \in [Calls -> Nat] /\ e \in Nat
      /\ e < n /\ (\A d \in Calls : rank[d] < n) /\ Cardinality(Calls) \in Nat
  BY FewFiles, FewCalls DEF Fits
<1> DEFINE L == DOMAIN k[c].listing
\* Whoever listed later than c counts c among those that may create a file, as before
<1>2. ASSUME NEW m \in Nat, rank[c] <= m PROVE Due(k2, rank, m) = Due(k, rank, m)
  <2> SUFFICES ASSUME NEW d \in Calls PROVE d \in Due(k2, rank, m) <=> d \in Due(k, rank, m)
    BY DEF Due
  <2>1. CASE d = c
    BY <2>1, <1>2 DEF Due
  <2>2. CASE d # c
    BY <2>2 DEF Due
  <2> QED BY <2>1, <2>2
<1>3. ASSUME NEW d \in Calls, k2[d].pc = "prune", rank[d] > e, rank[d] >= rank[c]
      PROVE  Cardinality(D2 \ DOMAIN k2[d].listing) + Cardinality(Due(k2, rank, rank[d]) \ {d})
                 <= Cardinality(Calls) - 1
  <2> DEFINE R == D \ DOMAIN k[d].listing
             R2 == D2 \ DOMAIN k[d].listing
             S == Due(k, rank, rank[d]) \ {d}
  <2>1. d # c /\ k2[d] = k[d] /\ rank[d] \in Nat
    BY <1>1, <1>3
  <2>2. Due(k2, rank, rank[d]) = Due(k, rank, rank[d])
    BY <1>2, <1>3, <2>1
  <2>3. Cardinality(R) + Cardinality(S) <= Cardinality(Calls) - 1
    BY <2>1, <1>3 DEF Fits
  <2>4. R2 \in SUBSET R /\ R \in SUBSET D /\ S \in SUBSET Calls
    BY DEF Due
  <2> HIDE DEF R, R2, S
  <2>5. /\ Cardinality(R2) <= Cardinality(R) /\ Cardinality(R2) \in Nat
        /\ Cardinality(R) \in Nat /\ Cardinality(S) \in Nat
    BY <2>4, <1>1, FewFiles, FewCalls
  <2>6. Cardinality(R2) + Cardinality(S) <= Cardinality(Calls) - 1
    BY <1>1, <2>3, <2>5
  <2> QED BY <2>1, <2>2, <2>6 DEF R2, S
<1>4. CASE rank[c] > e
  <2> DEFINE B2 == D2 \cap L
             R == D \ L
             R2 == D2 \ B2
             S == Due(k, rank, rank[c]) \ {c}
             S2 == Due(k2, rank, rank[c])
  <2>1. rank[c] \in Nat /\ rank[c] < n
    BY <1>1
  <2>2. Cardinality(R) + Cardinality(S) <= Cardinality(Calls) - 1
    BY <1>4 DEF Fits
  <2>3. S2 = S \cup {c} /\ c \notin S /\ S \in SUBSET Calls
    <3>1. S2 = Due(k, rank, rank[c]) /\ c \in S2
      BY <1>2, <2>1 DEF Due
    <3> QED BY <3>1 DEF Due
  <2>4. R2 \in SUBSET R /\ R \in SUBSET D /\ B2 \in SUBSET D2
    OBVIOUS
  <2> HIDE DEF B2, R, R2, S, S2
  <2>5. /\ Cardinality(R2) <= Cardinality(R) /\ Cardinality(R2) \in Nat
        /\ Cardinality(R) \in Nat /\ Cardinality(S) \in Nat /\ IsFiniteSet(S)
    BY <2>3, <2>4, <1>1, FewFiles, FewCalls
  <2>6. Cardinality(S2) = Cardinality(S) + 1
    BY <2>3, <2>5, FS_AddElement
  <2>7. Cardinality(R2) + Cardinality(S2) <= Cardinality(Calls)
    BY <1>1, <2>2, <2>5, <2>6
  <2>8. Cardinality(B2) <= MaxReceipts - 1
    BY DEF B2
  <2>9. \A d \in Calls : k2[d].pc = "prune" /\ rank[d] > rank[c] =>
            Cardinality(D2 \ DOMAIN k2[d].listing) + Cardinality(Due(k2, rank, rank[d]) \ {d})
                <= Cardinality(Calls) - 1
    <3> SUFFICES ASSUME NEW d \in Calls, k2[d].pc = "prune", rank[d] > rank[c]
                 PROVE  Cardinality(D2 \ DOMAIN k2[d].listing)
                        + Cardinality(Due(k2, rank, rank[d]) \ {d}) <= Cardinality(Calls) - 1
      OBVIOUS
    <3>1. rank[d] > e /\ rank[d] >= rank[c]
      BY <1>1, <1>4, <2>1
    <3> QED BY <3>1, <1>3
  <2>10. Fits(D2, k2, n, rank, rank[c], B2)
    BY <1>1, <2>1, <2>4, <2>7, <2>8, <2>9 DEF Fits, R2, S2
  <2> QED BY <2>10
<1>5. CASE ~(rank[c] > e)
  <2> DEFINE B2 == B \cap D2
             R == D \ B
             R2 == D2 \ B2
  <2>1. rank[c] \in Nat /\ rank[c] <= e
    BY <1>1, <1>5
  <2>2. Due(k2, rank, e) = Due(k, rank, e) /\ Due(k, rank, e) \in SUBSET Calls
    BY <1>1, <1>2, <2>1 DEF Due
  <2>3. Cardinality(R) + Cardinality(Due(k, rank, e)) <= Cardinality(Calls)
    BY DEF Fits
  <2>4. R2 \in SUBSET R /\ R \in SUBSET D /\ B2 \in SUBSET D2 /\ B2 \in SUBSET B /\ B \in SUBSET D
    BY DEF Fits
  <2> HIDE DEF B2, R, R2
  <2>5. /\ Cardinality(R2) <= Cardinality(R) /\ Cardinality(R2) \in Nat /\ Cardinality(R) \in Nat
        /\ Cardinality(Due(k, rank, e)) \in Nat
    BY <2>2, <2>4, <1>1, FewFiles, FewCalls
  <2>6. Cardinality(R2) + Cardinality(Due(k2, rank, e)) <= Cardinality(Calls)
    BY <1>1, <2>2, <2>3, <2>5
  <2>7. Cardinality(B2) <= MaxReceipts - 1
    <3>1. Cardinality(B2) <= Cardinality(B) /\ Cardinality(B2) \in Nat /\ Cardinality(B) \in Nat
      BY <2>4, <1>1, FewFiles
    <3>2. Cardinality(B) <= MaxReceipts - 1 /\ MaxReceipts \in Nat
      BY StepUpConstants DEF Fits
    <3> QED BY <3>1, <3>2
  <2>8. \A d \in Calls : k2[d].pc = "prune" /\ rank[d] > e =>
            Cardinality(D2 \ DOMAIN k2[d].listing) + Cardinality(Due(k2, rank, rank[d]) \ {d})
                <= Cardinality(Calls) - 1
    <3> SUFFICES ASSUME NEW d \in Calls, k2[d].pc = "prune", rank[d] > e
                 PROVE  Cardinality(D2 \ DOMAIN k2[d].listing)
                        + Cardinality(Due(k2, rank, rank[d]) \ {d}) <= Cardinality(Calls) - 1
      OBVIOUS
    <3>1. rank[d] >= rank[c] /\ rank[d] > e
      BY <1>1, <2>1
    <3> QED BY <3>1, <1>3
  <2>9. Fits(D2, k2, n, rank, e, B2)
    BY <1>1, <2>4, <2>6, <2>7, <2>8 DEF Fits, R2
  <2> QED BY <2>9
<1> QED BY <1>4, <1>5

\* A call creates a file, or fails to
LEMMA FitsCreated ==
    ASSUME NEW D, NEW k, NEW k2, NEW n, NEW rank, NEW e, NEW B, Fits(D, k, n, rank, e, B),
           NEW c \in Calls, k[c].pc = "create", k2[c].pc \notin {"create", "prune"},
           \A d \in Calls \ {c} : k2[d] = k[d],
           NEW D2, D \subseteq D2, \E x : D2 \subseteq D \cup {x}
    PROVE  Fits(D2, k2, n, rank, e, B)
<1>0. PICK x : D2 \subseteq D \cup {x}
  OBVIOUS
<1>1. /\ IsFiniteSet(D) /\ n \in Nat /\ rank \in [Calls -> Nat] /\ e \in Nat
      /\ Cardinality(Calls) \in Nat /\ B \in SUBSET D /\ B \in SUBSET D2
  BY FewCalls DEF Fits
<1>2. IsFiniteSet(D2)
  <2>1. IsFiniteSet(D \cup {x}) /\ D2 \in SUBSET (D \cup {x})
    BY <1>0, <1>1, FS_AddElement
  <2> QED BY <2>1, FewFiles
<1>3. ASSUME NEW T
      PROVE  /\ Cardinality(D \ T) \in Nat /\ Cardinality(D2 \ T) \in Nat
             /\ Cardinality(D2 \ T) <= Cardinality(D \ T) + 1
  <2>1. IsFiniteSet(D \ T) /\ IsFiniteSet(D2 \ T)
    BY <1>1, <1>2, FewFiles
  <2>2. Cardinality(D \ T) \in Nat /\ Cardinality(D2 \ T) \in Nat
    BY <2>1, FS_CardinalityType
  <2>3. \/ Cardinality((D \ T) \cup {x}) = Cardinality(D \ T)
        \/ Cardinality((D \ T) \cup {x}) = Cardinality(D \ T) + 1
    <3> DEFINE E == D \ T
    <3>1. IsFiniteSet(E)
      BY <2>1
    <3> HIDE DEF E
    <3>2. CASE x \in E
      <4>1. E \cup {x} = E
        BY <3>2
      <4> QED BY <4>1 DEF E
    <3>3. CASE x \notin E
      <4>1. Cardinality(E \cup {x}) = Cardinality(E) + 1
        BY <3>1, <3>3, FS_AddElement
      <4> QED BY <4>1 DEF E
    <3> QED BY <3>2, <3>3
  <2>4. IsFiniteSet((D \ T) \cup {x}) /\ (D2 \ T) \in SUBSET ((D \ T) \cup {x})
    BY <1>0, <2>1, FS_AddElement
  <2>5. Cardinality(D2 \ T) <= Cardinality((D \ T) \cup {x})
    BY <2>4, FewFiles
  <2> QED BY <2>2, <2>3, <2>5
<1>4. ASSUME NEW m
      PROVE  /\ Due(k, rank, m) \in SUBSET Calls /\ Due(k2, rank, m) \in SUBSET Calls
             /\ Due(k2, rank, m) = Due(k, rank, m) \ {c} /\ c \in Due(k, rank, m)
  BY DEF Due
<1>5. ASSUME NEW S \in SUBSET Calls, c \in S
      PROVE  /\ Cardinality(S \ {c}) = Cardinality(S) - 1 /\ Cardinality(S \ {c}) \in Nat
             /\ Cardinality(S) \in Nat
  <2>1. IsFiniteSet(S) /\ Cardinality(S) \in Nat
    BY FewCalls
  <2>2. S \ {c} \in SUBSET Calls
    OBVIOUS
  <2> QED BY <1>5, <2>1, <2>2, FewCalls, FS_RemoveElement
<1>6. Cardinality(D2 \ B) + Cardinality(Due(k2, rank, e)) <= Cardinality(Calls)
  <2>1. Cardinality(Due(k2, rank, e)) = Cardinality(Due(k, rank, e)) - 1
        /\ Cardinality(Due(k2, rank, e)) \in Nat /\ Cardinality(Due(k, rank, e)) \in Nat
    BY <1>4, <1>5
  <2>2. Cardinality(D \ B) + Cardinality(Due(k, rank, e)) <= Cardinality(Calls)
    BY DEF Fits
  <2>3. /\ Cardinality(D \ B) \in Nat /\ Cardinality(D2 \ B) \in Nat
        /\ Cardinality(D2 \ B) <= Cardinality(D \ B) + 1
    BY <1>3
  <2> QED BY <1>1, <2>1, <2>2, <2>3
<1>7. ASSUME NEW d \in Calls, k2[d].pc = "prune", rank[d] > e
      PROVE  Cardinality(D2 \ DOMAIN k2[d].listing) + Cardinality(Due(k2, rank, rank[d]) \ {d})
                 <= Cardinality(Calls) - 1
  <2> DEFINE S == Due(k, rank, rank[d]) \ {d}
             S2 == Due(k2, rank, rank[d]) \ {d}
             L == DOMAIN k[d].listing
  <2>1. d # c /\ k2[d] = k[d]
    BY <1>7
  <2>2. Cardinality(D \ L) + Cardinality(S) <= Cardinality(Calls) - 1
    BY <2>1, <1>7 DEF Fits
  <2>3. S2 = S \ {c} /\ c \in S /\ S \in SUBSET Calls
    <3>1. Due(k, rank, rank[d]) \in SUBSET Calls /\ c \in Due(k, rank, rank[d])
          /\ Due(k2, rank, rank[d]) = Due(k, rank, rank[d]) \ {c}
      BY <1>4
    <3> QED BY <3>1, <2>1
  <2> HIDE DEF S, S2, L
  <2>4. Cardinality(S2) = Cardinality(S) - 1 /\ Cardinality(S2) \in Nat /\ Cardinality(S) \in Nat
    BY <2>3, <1>5
  <2>5. /\ Cardinality(D \ L) \in Nat /\ Cardinality(D2 \ L) \in Nat
        /\ Cardinality(D2 \ L) <= Cardinality(D \ L) + 1
    BY <1>3
  <2>6. Cardinality(D2 \ L) + Cardinality(S2) <= Cardinality(Calls) - 1
    BY <1>1, <2>2, <2>4, <2>5
  <2> QED BY <2>1, <2>6 DEF S2, L
<1> QED BY <1>1, <1>2, <1>6, <1>7 DEF Fits

-----------------------------------------------------------------------------
(* What pruning removes *)

LEMMA ListingTyped ==
    ASSUME TypeOK, NEW c \in Calls, call[c].pc = "prune"
    PROVE  /\ DOMAIN call[c].listing \subseteq DOMAIN receipts
           /\ \A r \in DOMAIN call[c].listing : call[c].listing[r] \in Nat
           /\ call[c].cutoff \in Int
BY TypeParts DEF CallsTyped, CallTyped, IdleCall, Asking, Bearing

LEMMA ReceiptsFinite ==
    ASSUME TypeOK
    PROVE  /\ IsFiniteSet(DOMAIN receipts) /\ dir \in SUBSET DOMAIN receipts /\ IsFiniteSet(dir)
           /\ \A r \in DOMAIN receipts : receipts[r].made \in Nat /\ receipts[r].mtime \in Nat
<1>1. receipts \in Seq(Receipt) /\ dir \in SUBSET DOMAIN receipts
  BY TypeParts DEF ReceiptsTyped
<1>2. DOMAIN receipts = 1..Len(receipts) /\ Len(receipts) \in Nat
  BY <1>1, LenProperties
<1>3. \A r \in DOMAIN receipts : receipts[r] \in Receipt
  BY <1>1, <1>2, ElementOfSeq
<1>4. IsFiniteSet(DOMAIN receipts)
  BY <1>2, FS_Interval
<1> QED BY <1>1, <1>3, <1>4, FS_Subset DEF Receipt

\* What was listed and is left leaves room for one file; what goes has aged, or there are
\* MaxReceipts - 1 files on the list that are no older.
LEMMA PruneLeaves ==
    ASSUME TypeOK, NEW c \in Calls, Prune(c)
    PROVE  /\ dir' \in SUBSET dir
           /\ Cardinality(dir' \cap DOMAIN call[c].listing) <= MaxReceipts - 1
           /\ \A r \in dir \ dir' :
                 /\ r \in DOMAIN call[c].listing
                 /\ \/ call[c].listing[r] < call[c].cutoff
                    \/ \E T \in SUBSET DOMAIN call[c].listing :
                          /\ r \notin T /\ Cardinality(T) = MaxReceipts - 1
                          /\ \A s \in T : call[c].listing[r] <= call[c].listing[s]
<1> DEFINE L == call[c].listing
           aged == {r \in DOMAIN L : L[r] < call[c].cutoff}
           kept == [r \in (DOMAIN L) \ aged |-> L[r]]
           K == (DOMAIN L) \ aged
<1>0. MaxReceipts \in Nat \ {0}
  BY StepUpConstants
<1>1. IsFiniteSet(K) /\ Cardinality(K) \in Nat /\ DOMAIN kept = K
  <2>1. IsFiniteSet(DOMAIN L)
    BY ListingTyped, ReceiptsFinite, FS_Subset DEF Prune
  <2>2. K \in SUBSET DOMAIN L
    OBVIOUS
  <2> QED BY <2>1, <2>2, FewFiles
<1>2. CASE Cardinality(K) >= MaxReceipts
  <2>1. PICK removed \in Overfull(kept) : dir' = dir \ (aged \cup removed)
    BY <1>1, <1>2 DEF Prune
  <2>2. /\ removed \in SUBSET K /\ Cardinality(removed) = Cardinality(K) + 1 - MaxReceipts
        /\ \A r \in removed, s \in K \ removed : kept[r] <= kept[s]
    BY <1>1, <2>1 DEF Overfull, Oldest
  <2> DEFINE T == K \ removed
  <2>3. Cardinality(T) = MaxReceipts - 1 /\ IsFiniteSet(T)
    <3>1. K \cap removed = removed
      BY <2>2
    <3>2. IsFiniteSet(T) /\ Cardinality(T) = Cardinality(K) - Cardinality(removed)
      BY <1>1, <3>1, FS_Difference
    <3> QED BY <3>2, <2>2, <1>0, <1>1
  <2>4. dir' \cap DOMAIN L \in SUBSET T
    BY <2>1
  <2>5. Cardinality(dir' \cap DOMAIN L) <= MaxReceipts - 1
    <3> HIDE DEF T
    <3> QED BY <2>3, <2>4, FewFiles
  <2>6. ASSUME NEW r \in dir \ dir'
        PROVE  /\ r \in DOMAIN L
               /\ \/ L[r] < call[c].cutoff
                  \/ /\ r \notin T /\ T \in SUBSET DOMAIN L
                     /\ \A s \in T : L[r] <= L[s]
    <3>1. r \in aged \/ (r \in removed /\ r \in K)
      BY <2>1, <2>2
    <3>2. CASE r \in aged
      BY <3>2
    <3>3. CASE r \in removed /\ r \in K
      <4>1. \A s \in T : kept[r] <= kept[s] /\ kept[s] = L[s]
        BY <2>2, <3>3
      <4>2. kept[r] = L[r]
        BY <3>3
      <4> QED BY <3>3, <4>1, <4>2
    <3> QED BY <3>1, <3>2, <3>3
  <2> HIDE DEF T
  <2>7. dir' \in SUBSET dir
    BY <2>1
  <2> QED BY <2>3, <2>5, <2>6, <2>7
<1>3. CASE ~(Cardinality(K) >= MaxReceipts)
  <2>1. dir' = dir \ aged
    BY <1>1, <1>3 DEF Prune
  <2>2. dir' \cap DOMAIN L \in SUBSET K
    BY <2>1
  <2>3. Cardinality(dir' \cap DOMAIN L) <= Cardinality(K)
        /\ Cardinality(dir' \cap DOMAIN L) \in Nat
    <3> HIDE DEF K
    <3> QED BY <1>1, <2>2, FewFiles
  <2>4. Cardinality(dir' \cap DOMAIN L) <= MaxReceipts - 1
    BY <2>3, <1>0, <1>1, <1>3
  <2> QED BY <2>1, <2>4
<1> QED BY <1>2, <1>3

LEMMA DirStep == TypeOK /\ DirInv /\ [Next]_vars => DirInv'
<1> SUFFICES ASSUME TypeOK, DirInv, [Next]_vars PROVE DirInv'
  OBVIOUS
<1>0. PICK n, rank, e, B : Fits(dir, call, n, rank, e, B)
  BY DEF DirInv
<1>1. DOMAIN call = Calls
  BY DEF TypeOK
<1>2. ASSUME dir' = dir,
             \A c \in Calls : /\ call'[c].pc = "create" => call[c].pc = "create"
                              /\ call'[c].pc = "prune" => call[c].pc = "prune"
                                                          /\ call'[c].listing = call[c].listing
      PROVE  DirInv'
  <2>1. Fits(dir, call', n, rank, e, B)
    BY <1>0, <1>2, FitsQuietly
  <2> QED BY <2>1, <1>2 DEF DirInv
<1>3. ASSUME NEW c \in Calls, List(c) PROVE DirInv'
  <2>1. /\ call[c].pc = "list" /\ call'[c].pc = "prune" /\ DOMAIN call'[c].listing = dir
        /\ \A d \in Calls \ {c} : call'[d] = call[d]
    BY <1>1, <1>3 DEF List
  <2>2. dir' = dir
    BY <1>3 DEF List, challenges
  <2>3. Fits(dir, call', n + 1, [rank EXCEPT ![c] = n], e, B)
    BY <1>0, <2>1, FitsListed
  <2> QED BY <2>2, <2>3 DEF DirInv
<1>4. ASSUME NEW c \in Calls, Prune(c) PROVE DirInv'
  <2>1. /\ call[c].pc = "prune" /\ call'[c].pc = "create"
        /\ \A d \in Calls \ {c} : call'[d] = call[d]
    BY <1>1, <1>4 DEF Prune
  <2>2. PICK D2 \in SUBSET dir : D2 = dir'
    BY <1>4, PruneLeaves
  <2>3. Cardinality(D2 \cap DOMAIN call[c].listing) <= MaxReceipts - 1
    BY <1>4, <2>2, PruneLeaves
  <2>4. \E e2, B2 : Fits(D2, call', n, rank, e2, B2)
    BY <1>0, <2>1, <2>3, FitsPruned
  <2> QED BY <2>2, <2>4 DEF DirInv
<1>5. ASSUME NEW c \in Calls, Create(c) PROVE DirInv'
  <2>1. call[c].pc = "create" /\ call'[c].pc \in {"fill", "idle"}
        /\ \A d \in Calls \ {c} : call'[d] = call[d]
    BY <1>1, <1>5 DEF Create, Idle, IdleCall
  <2>2. dir \subseteq dir' /\ \E x : dir' \subseteq dir \cup {x}
    BY <1>5 DEF Create, challenges
  <2>3. PICK D2 : D2 = dir'
    OBVIOUS
  <2>4. Fits(D2, call', n, rank, e, B)
    <3>1. call'[c].pc \notin {"create", "prune"} /\ \A d \in Calls \ {c} : call'[d] = call[d]
      BY <2>1
    <3>2. dir \subseteq D2 /\ \E x : D2 \subseteq dir \cup {x}
      BY <2>2, <2>3
    <3> QED BY <1>0, <2>1, <3>1, <3>2, FitsCreated
  <2> QED BY <2>3, <2>4 DEF DirInv
<1>6. ASSUME NEW c \in Calls,
             Challenge(c) \/ Fill(c) \/ Present(c) \/ Commit(c) \/ Forward(c) \/ Report(c)
      PROVE  DirInv'
  <2>1. dir' = dir
    BY <1>6 DEF Challenge, Fill, Present, Commit, Forward, Report, challenges
  <2>2. call'[c].pc \notin {"create", "prune"} /\ \A d \in Calls \ {c} : call'[d] = call[d]
    <3>1. CASE Challenge(c) \/ Present(c)
      BY <1>1, <3>1 DEF Challenge, Present
    <3>2. CASE Fill(c) \/ Report(c)
      BY <1>1, <3>2 DEF Fill, Report, Idle, IdleCall
    <3>3. CASE Commit(c) \/ Forward(c)
      <4>1. call[c].pc \in {"commit", "forward"}
        BY <3>3 DEF Commit, Forward
      <4>2. Bearing(call[c])
        BY <4>1, BearingFields
      <4>3. Idle(c) \/ Goto(c, "forward") \/ Goto(c, "report")
        BY <3>3 DEF Commit, Forward
      <4> QED BY <1>1, <4>2, <4>3 DEF Idle, IdleCall, Goto, Bearing
    <3> QED BY <1>6, <3>1, <3>2, <3>3
  <2> QED BY <2>1, <2>2, <1>2
<1>7. CASE Stop
  BY <1>2, <1>7 DEF Stop, IdleCall, challenges
<1>8. CASE call' = call /\ dir' = dir
  BY <1>2, <1>8
<1>9. \/ call' = call /\ dir' = dir
      \/ Stop
      \/ \E c \in Calls : \/ List(c) \/ Prune(c) \/ Create(c)
                          \/ Challenge(c) \/ Fill(c) \/ Present(c) \/ Commit(c) \/ Forward(c)
                          \/ Report(c)
  BY DEF Next, vars, Operator, Step, operator, challenges, upstream, InstallPolicy, Serve,
         InitState, Tick, Review, Sign, Decline
<1> QED BY <1>3, <1>4, <1>5, <1>6, <1>7, <1>8, <1>9

LEMMA DirInit == Init => DirInv
<1> SUFFICES ASSUME Init PROVE Fits(dir, call, 1, [c \in Calls |-> 0], 0, {})
  BY DEF DirInv
<1>1. dir = {} /\ \A c \in Calls : call[c].pc = "idle"
  BY DEF Init, IdleCall
<1> DEFINE r == [c \in Calls |-> 0]
<1>2. Due(call, r, 0) = {} /\ dir \ {} = {}
  BY <1>1 DEF Due
<1>3. IsFiniteSet({}) /\ Cardinality({}) = 0 /\ Cardinality(Calls) \in Nat
  BY FS_EmptySet, FewCalls
<1>4. r \in [Calls -> Nat] /\ \A c \in Calls : r[c] < 1
  OBVIOUS
<1> HIDE DEF r
<1>5. 0 <= MaxReceipts - 1
  BY StepUpConstants
<1>6. Cardinality(dir \ {}) + Cardinality(Due(call, r, 0)) <= Cardinality(Calls)
  BY <1>2, <1>3
<1>7. Fits(dir, call, 1, r, 0, {})
  BY <1>1, <1>3, <1>4, <1>5, <1>6 DEF Fits
<1> QED BY <1>7 DEF r

\* However many calls prune by listings that others have made stale, each of them leaves at
\* most one file more than the directory has room for, but for the first.
THEOREM StepUpDirectoryBounded == Spec => []DirectoryBounded
<1>1. DirInv => DirectoryBounded
  <2> SUFFICES ASSUME DirInv PROVE DirectoryBounded
    OBVIOUS
  <2>1. PICK n, rank, e, B : Fits(dir, call, n, rank, e, B)
    BY DEF DirInv
  <2> DEFINE U == Due(call, rank, e)
  <2>2. /\ IsFiniteSet(dir) /\ B \in SUBSET dir /\ Cardinality(B) <= MaxReceipts - 1
        /\ Cardinality(dir \ B) + Cardinality(U) <= Cardinality(Calls)
    BY <2>1 DEF Fits
  <2>3. U \in SUBSET Calls
    BY DEF Due
  <2>4. Cardinality(U) \in Nat /\ Cardinality(Calls) \in Nat /\ MaxReceipts \in Nat
    BY <2>3, FewCalls, StepUpConstants
  <2>5. /\ Cardinality(B) \in Nat /\ Cardinality(dir) \in Nat /\ Cardinality(dir \ B) \in Nat
    BY <2>2, FewFiles
  <2>6. Cardinality(dir \ B) = Cardinality(dir) - Cardinality(dir \cap B)
    BY <2>2, FS_Difference
  <2>7. dir \cap B = B
    BY <2>2
  <2> HIDE DEF U
  <2> QED BY <2>2, <2>4, <2>5, <2>6, <2>7 DEF DirectoryBounded
<1> QED BY <1>1, DirInit, DirStep, StepUpTypeOK, PTL DEF Spec

-----------------------------------------------------------------------------
(* What is removed from it *)

\* A receipt is dated when it is made, and again when it has been written; a listing has
\* the dates that there were, and its call reckons from then.
Dated(R, now) == \A r \in DOMAIN R : R[r].made <= R[r].mtime /\ R[r].mtime <= now
Listed(k, R, now) ==
    /\ k.cutoff <= now - MaxAge
    /\ \A r \in DOMAIN k.listing : R[r].made <= k.listing[r] /\ k.listing[r] <= R[r].mtime
DatesInv ==
    /\ Dated(receipts, clock)
    /\ \A c \in Calls : call[c].pc = "prune" => Listed(call[c], receipts, clock)

\* Receipts R, by the time now, have become R2
Ages(R, now, R2, now2) ==
    /\ now <= now2 /\ DOMAIN R \subseteq DOMAIN R2
    /\ \A r \in DOMAIN R : R2[r].made = R[r].made /\ R[r].mtime <= R2[r].mtime

LEMMA ListedStays ==
    ASSUME NEW k, NEW R, NEW R2, NEW now \in Nat, NEW now2 \in Nat,
           Ages(R, now, R2, now2), Listed(k, R, now), k.cutoff \in Int,
           DOMAIN k.listing \subseteq DOMAIN R,
           \A r \in DOMAIN k.listing : k.listing[r] \in Nat,
           \A r \in DOMAIN R : R[r].mtime \in Nat,
           \A r \in DOMAIN R2 : R2[r].mtime \in Nat
    PROVE  Listed(k, R2, now2)
<1>1. k.cutoff <= now2 - MaxAge
  BY ConstantsTyped DEF Ages, Listed
<1>2. ASSUME NEW r \in DOMAIN k.listing
      PROVE  R2[r].made <= k.listing[r] /\ k.listing[r] <= R2[r].mtime
  <2>1. /\ R[r].made <= k.listing[r] /\ k.listing[r] <= R[r].mtime
        /\ R2[r].made = R[r].made /\ R[r].mtime <= R2[r].mtime
        /\ k.listing[r] \in Nat /\ R[r].mtime \in Nat /\ R2[r].mtime \in Nat
    BY DEF Ages, Listed
  <2> QED BY <2>1
<1> QED BY <1>1, <1>2 DEF Listed

LEMMA DatesStep == TypeOK /\ TypeOK' /\ DatesInv /\ [Next]_vars => DatesInv'
<1> SUFFICES ASSUME TypeOK, TypeOK', DatesInv, [Next]_vars PROVE DatesInv'
  OBVIOUS
<1>0. /\ receipts \in Seq(Receipt) /\ clock \in Nat /\ clock' \in Nat /\ DOMAIN call = Calls
      /\ \A r \in DOMAIN receipts : receipts[r].made \in Nat /\ receipts[r].mtime \in Nat
  BY TypeParts, ReceiptsFinite DEF ReceiptsTyped, OperatorTyped, CallsTyped, TypeOK
<1>1. \A r \in DOMAIN receipts' : receipts'[r].made \in Nat /\ receipts'[r].mtime \in Nat
  <2>1. receipts' \in Seq(Receipt)
    BY TypeParts DEF TypeOK, Receipt
  <2>2. \A r \in DOMAIN receipts' : receipts'[r] \in Receipt
    BY <2>1, ElementOfSeq, LenProperties
  <2> QED BY <2>2 DEF Receipt
\* The calls
<1>2. ASSUME Ages(receipts, clock, receipts', clock'),
             \A c \in Calls : call'[c].pc = "prune" => call'[c] = call[c]
      PROVE  \A c \in Calls : call'[c].pc = "prune" => Listed(call'[c], receipts', clock')
  <2> SUFFICES ASSUME NEW c \in Calls, call'[c].pc = "prune"
               PROVE  Listed(call'[c], receipts', clock')
    OBVIOUS
  <2>1. call'[c] = call[c] /\ call[c].pc = "prune" /\ Listed(call[c], receipts, clock)
    BY <1>2 DEF DatesInv
  <2>2. /\ DOMAIN call[c].listing \subseteq DOMAIN receipts /\ call[c].cutoff \in Int
        /\ \A r \in DOMAIN call[c].listing : call[c].listing[r] \in Nat
    BY <2>1, ListingTyped
  <2> QED BY <1>0, <1>1, <1>2, <2>1, <2>2, ListedStays
<1>3. UNCHANGED receipts /\ clock <= clock' =>
          Ages(receipts, clock, receipts', clock') /\ Dated(receipts', clock')
  BY <1>0, <1>1 DEF Ages, Dated, DatesInv
<1>4. ASSUME NEW c \in Calls, List(c) PROVE DatesInv'
  <2>1. UNCHANGED <<receipts, clock>>
    BY <1>4 DEF List, challenges
  <2>2. /\ DOMAIN call'[c].listing = dir /\ call'[c].cutoff = clock - MaxAge
        /\ \A r \in dir : call'[c].listing[r] = receipts[r].mtime
        /\ \A d \in Calls \ {c} : call'[d] = call[d]
    BY <1>0, <1>4 DEF List
  <2>3. dir \in SUBSET DOMAIN receipts
    BY ReceiptsFinite
  <2>4. Listed(call'[c], receipts, clock)
    <3>1. \A r \in dir : receipts[r].made <= receipts[r].mtime /\ receipts[r].mtime \in Nat
      BY <1>0, <2>3 DEF DatesInv, Dated
    <3>2. clock - MaxAge <= clock - MaxAge
      BY <1>0, ConstantsTyped
    <3> QED BY <2>2, <3>1, <3>2 DEF Listed
  <2>5. \A d \in Calls : call'[d].pc = "prune" => Listed(call'[d], receipts, clock)
    BY <2>2, <2>4 DEF DatesInv
  <2> QED BY <2>1, <2>5 DEF DatesInv
<1>5. ASSUME NEW c \in Calls, Create(c) PROVE DatesInv'
  <2>1. \A d \in Calls : call'[d].pc = "prune" => call'[d] = call[d]
    BY <1>0, <1>5 DEF Create, Idle, IdleCall
  <2>2. clock' = clock
    BY <1>5 DEF Create
  <2>3. CASE UNCHANGED receipts
    BY <1>0, <1>2, <1>3, <2>1, <2>2, <2>3 DEF DatesInv
  <2>4. CASE ~UNCHANGED receipts
    <3>1. call[c].intent \in Intent
      BY <1>5, AskingFields DEF Create
    <3> DEFINE r == [intent |-> call[c].intent, made |-> clock, mtime |-> clock, whole |-> FALSE]
    <3>2. r \in Receipt /\ receipts' = Append(receipts, r) /\ r.made = clock /\ r.mtime = clock
      BY <1>0, <1>5, <2>4, <3>1 DEF Create, challenges, Receipt
    <3> HIDE DEF r
    <3>3. /\ DOMAIN receipts \subseteq DOMAIN receipts'
          /\ \A i \in DOMAIN receipts : receipts'[i] = receipts[i]
          /\ DOMAIN receipts' = DOMAIN receipts \cup {Len(receipts) + 1}
          /\ receipts'[Len(receipts) + 1] = r
      BY <1>0, <3>2, AppendKeeps
    <3>4. Ages(receipts, clock, receipts', clock')
      BY <1>0, <2>2, <3>3 DEF Ages
    <3>5. Dated(receipts', clock')
      BY <1>0, <2>2, <3>2, <3>3 DEF Dated, DatesInv
    <3> QED BY <1>2, <2>1, <3>4, <3>5 DEF DatesInv
  <2> QED BY <2>3, <2>4
<1>6. ASSUME NEW c \in Calls, Fill(c) PROVE DatesInv'
  <2>1. \A d \in Calls : call'[d].pc = "prune" => call'[d] = call[d]
    BY <1>0, <1>6 DEF Fill, Idle, IdleCall
  <2>2. clock' = clock
    BY <1>6 DEF Fill
  <2>3. CASE UNCHANGED receipts
    BY <1>0, <1>2, <1>3, <2>1, <2>2, <2>3 DEF DatesInv
  <2>4. CASE ~UNCHANGED receipts
    <3>1. CallTyped(c) /\ call[c].pc = "fill"
      BY <1>6, TypeParts DEF CallsTyped, Fill
    <3>2. PICK i \in DOMAIN receipts : i = call[c].receipt
      BY <3>1 DEF CallTyped, IdleCall, Asking, Bearing
    <3>3. receipts[i] \in Receipt
      BY <1>0, ElementOfSeq, LenProperties
    <3> DEFINE r == [receipts[i] EXCEPT !.whole = TRUE, !.mtime = clock]
    <3>4. r \in Receipt /\ receipts' = [receipts EXCEPT ![i] = r]
          /\ r.made = receipts[i].made /\ r.mtime = clock
      <4>1. receipts' = [receipts EXCEPT ![i].whole = TRUE, ![i].mtime = clock]
        BY <1>6, <2>4, <3>2 DEF Fill
      <4>2. receipts' = [receipts EXCEPT ![i] = r]
        BY <1>0, <3>3, <4>1 DEF Receipt
      <4>3. r \in Receipt /\ r.made = receipts[i].made /\ r.mtime = clock
        BY <1>0, <3>3 DEF Receipt
      <4> QED BY <4>2, <4>3
    <3> HIDE DEF r
    <3>5. /\ DOMAIN receipts' = DOMAIN receipts /\ receipts'[i] = r
          /\ \A j \in DOMAIN receipts \ {i} : receipts'[j] = receipts[j]
      BY <1>0, <3>4, LenProperties
    <3>6. Ages(receipts, clock, receipts', clock') /\ Dated(receipts', clock')
      <4>1. receipts[i].made <= clock /\ receipts[i].mtime <= clock
        BY <1>0 DEF DatesInv, Dated
      <4>2. Ages(receipts, clock, receipts', clock')
        BY <1>0, <2>2, <3>4, <3>5, <4>1 DEF Ages
      <4>3. Dated(receipts', clock')
        BY <1>0, <2>2, <3>4, <3>5, <4>1 DEF Dated, DatesInv
      <4> QED BY <4>2, <4>3
    <3> QED BY <1>2, <2>1, <3>6 DEF DatesInv
  <2> QED BY <2>3, <2>4
<1>7. ASSUME NEW c \in Calls,
             Challenge(c) \/ Prune(c) \/ Present(c) \/ Commit(c) \/ Forward(c) \/ Report(c)
      PROVE  DatesInv'
  <2>1. UNCHANGED <<receipts, clock>>
    BY <1>7 DEF Challenge, Prune, Present, Commit, Forward, Report, challenges
  <2>2. call'[c].pc # "prune" /\ \A d \in Calls \ {c} : call'[d] = call[d]
    <3>1. CASE Challenge(c) \/ Prune(c) \/ Present(c)
      BY <1>0, <3>1 DEF Challenge, Prune, Present
    <3>2. CASE Report(c)
      BY <1>0, <3>2 DEF Report, Idle, IdleCall
    <3>3. CASE Commit(c) \/ Forward(c)
      <4>1. call[c].pc \in {"commit", "forward"}
        BY <3>3 DEF Commit, Forward
      <4>2. Bearing(call[c])
        BY <4>1, BearingFields
      <4>3. Idle(c) \/ Goto(c, "forward") \/ Goto(c, "report")
        BY <3>3 DEF Commit, Forward
      <4> QED BY <1>0, <4>2, <4>3 DEF Idle, IdleCall, Goto, Bearing
    <3> QED BY <1>7, <3>1, <3>2, <3>3
  <2>3. \A d \in Calls : call'[d].pc = "prune" => call'[d] = call[d]
    BY <2>2
  <2> QED BY <1>0, <1>2, <1>3, <2>1, <2>3 DEF DatesInv
<1>8. CASE Stop
  <2>1. UNCHANGED <<receipts, clock>> /\ \A d \in Calls : call'[d].pc = "idle"
    BY <1>8 DEF Stop, IdleCall, challenges
  <2> QED BY <1>0, <1>2, <1>3, <2>1 DEF DatesInv
<1>9. CASE UNCHANGED <<call, receipts>> /\ (clock' = clock \/ clock' = clock + 1)
  BY <1>0, <1>2, <1>3, <1>9 DEF DatesInv
<1>10. \/ UNCHANGED <<call, receipts>> /\ (clock' = clock \/ clock' = clock + 1)
       \/ Stop
       \/ \E c \in Calls : \/ List(c) \/ Prune(c) \/ Create(c)
                           \/ Challenge(c) \/ Fill(c) \/ Present(c) \/ Commit(c) \/ Forward(c)
                           \/ Report(c)
  BY DEF Next, vars, Operator, Step, operator, challenges, upstream, InstallPolicy, Serve,
         InitState, Tick, Review, Sign, Decline
<1> QED BY <1>4, <1>5, <1>6, <1>7, <1>8, <1>9, <1>10

\* What stays on the list in its stead is no older.
LEMMA PruneKeepsRecent ==
    ASSUME TypeOK, DatesInv, NEW c \in Calls, Prune(c), NEW r \in dir \ dir'
    PROVE  \/ receipts[r].made < clock - MaxAge
           \/ MaxReceipts <= Cardinality({s \in DOMAIN receipts :
                                             s = r \/ receipts[s].mtime >= receipts[r].made})
<1> DEFINE L == call[c].listing
           Recent == {s \in DOMAIN receipts : s = r \/ receipts[s].mtime >= receipts[r].made}
<1>1. call[c].pc = "prune" /\ r \in DOMAIN L
  BY PruneLeaves DEF Prune
<1>2. /\ DOMAIN L \subseteq DOMAIN receipts /\ call[c].cutoff \in Int
      /\ \A s \in DOMAIN L : L[s] \in Nat
  BY <1>1, ListingTyped
<1>3. /\ IsFiniteSet(DOMAIN receipts) /\ clock \in Nat /\ MaxAge \in Nat /\ MaxReceipts \in Nat
      /\ \A s \in DOMAIN receipts : receipts[s].made \in Nat /\ receipts[s].mtime \in Nat
  BY ReceiptsFinite, ConstantsTyped, StepUpConstants, TypeParts DEF OperatorTyped
<1>4. /\ call[c].cutoff <= clock - MaxAge
      /\ \A s \in DOMAIN L : receipts[s].made <= L[s] /\ L[s] <= receipts[s].mtime
  BY <1>1 DEF DatesInv, Listed
<1>5. CASE L[r] < call[c].cutoff
  <2>1. receipts[r].made \in Nat /\ L[r] \in Nat /\ receipts[r].made <= L[r]
    BY <1>1, <1>2, <1>3, <1>4
  <2> QED BY <1>2, <1>3, <1>4, <1>5, <2>1
<1>6. ASSUME NEW T \in SUBSET DOMAIN L, r \notin T, Cardinality(T) = MaxReceipts - 1,
             \A s \in T : L[r] <= L[s]
      PROVE  MaxReceipts <= Cardinality(Recent)
  <2>1. ASSUME NEW s \in T PROVE s \in Recent
    <3>1. /\ s \in DOMAIN receipts /\ receipts[s].mtime \in Nat /\ receipts[r].made \in Nat
          /\ L[r] \in Nat /\ L[s] \in Nat /\ receipts[r].made <= L[r] /\ L[r] <= L[s]
          /\ L[s] <= receipts[s].mtime
      BY <1>1, <1>2, <1>3, <1>4, <1>6
    <3>2. receipts[s].mtime >= receipts[r].made
      BY <3>1
    <3> QED BY <3>1, <3>2
  <2>2. T \cup {r} \in SUBSET Recent
    BY <2>1, <1>1, <1>2
  <2>3. IsFiniteSet(Recent)
    <3>1. Recent \in SUBSET DOMAIN receipts
      OBVIOUS
    <3> QED BY <3>1, <1>3, FS_Subset
  <2> HIDE DEF Recent
  <2>4. IsFiniteSet(T)
    BY <2>2, <2>3, FS_Subset
  <2>5. Cardinality(T \cup {r}) = Cardinality(T) + 1
    BY <1>6, <2>4, FS_AddElement
  <2>6. Cardinality(T \cup {r}) <= Cardinality(Recent) /\ Cardinality(Recent) \in Nat
    BY <2>2, <2>3, FewFiles
  <2> QED BY <1>3, <1>6, <2>5, <2>6
<1>7. \/ L[r] < call[c].cutoff
      \/ \E T \in SUBSET DOMAIN L : /\ r \notin T /\ Cardinality(T) = MaxReceipts - 1
                                    /\ \A s \in T : L[r] <= L[s]
  BY PruneLeaves
<1> QED BY <1>5, <1>6, <1>7

LEMMA OnlyPruneRemoves ==
    ASSUME [Next]_vars, NEW r \in dir \ dir'
    PROVE  \E c \in Calls : Prune(c)
BY DEF Next, vars, Operator, Step, operator, challenges, upstream, InstallPolicy, Stop, Serve,
       InitState, Tick, Challenge, Present, List, Create, Fill, Commit, Forward, Report, Review,
       Sign, Decline

\* A receipt is removed for its age, or when there are as many that are no older as the
\* directory holds, however old the listings are that calls go by.
THEOREM StepUpRecentIsKept == Spec => RecentIsKept
<1>1. Init => DatesInv
  <2> SUFFICES ASSUME Init PROVE DatesInv
    OBVIOUS
  <2>1. DOMAIN receipts = {} /\ \A c \in Calls : call[c].pc = "idle"
    BY DEF Init, IdleCall
  <2> QED BY <2>1 DEF DatesInv, Dated
<1>2. TypeOK /\ DatesInv /\ [Next]_vars =>
          [\A r \in dir \ dir' :
              \/ receipts[r].made < clock - MaxAge
              \/ MaxReceipts <= Cardinality({s \in DOMAIN receipts :
                                                s = r \/ receipts[s].mtime >= receipts[r].made})]_vars
  BY OnlyPruneRemoves, PruneKeepsRecent
<1> QED BY <1>1, <1>2, DatesStep, StepUpTypeOK, PTL DEF Spec, RecentIsKept
=============================================================================
