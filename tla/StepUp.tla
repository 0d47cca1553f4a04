------------------------------- MODULE StepUp -------------------------------
(***************************************************************************)
(* Step-up approval of high-risk writes (src/internal/authz/stepup.go and  *)
(* executeWriteCall of proxy.go): the gateway answers a call that bears no *)
(* approval with a challenge and leaves its receipt in a directory; an     *)
(* approver's command reads a receipt, shows it and signs an approval; a   *)
(* call that bears one is verified, committed in the ledger, forwarded.    *)
(*                                                                         *)
(* The calls of one gateway run concurrently with each other, with the     *)
(* approvers' commands, which read the policy for themselves and have      *)
(* clocks of their own, and with the operator, who installs policies,      *)
(* restarts the gateway, and starts new ledgers.  SHA-256 and Ed25519 do   *)
(* what they are for: a digest is the intent that it was taken of, and     *)
(* every approval there is was signed by the command.  A principal is one  *)
(* identity with one JWT and its scopes.  A policy stands for itself and   *)
(* the lockfile and binary it is deployed with.                            *)
(***************************************************************************)
EXTENDS Integers, Sequences, FiniteSets

CONSTANTS
    Calls,          \* goroutines of the gateway
    Principals, Writes, Approvers,
    Known,          \* Known[p]: its identity ID, sub and email
    Claimed,        \* Claimed[p]: the email, upn and preferred_username of its JWT
    Aliases,        \* Aliases[a]: the sub, principal_ids and emails of an approver
    Policies,       \* in the order of their installation: approvers, and whether a TTY is required
    Offset,         \* Offset[a]: how far the clock of a's host is ahead of the gateway's
    TTLs,           \* lifetimes approvers ask for
    MaxTTL,         \* max_approval_ttl_seconds
    Skew,           \* max_clock_skew_seconds
    MaxAge,         \* 15 minutes
    MaxReceipts     \* 256

CONSTANTS           \* bounds of a model
    Start,          \* the clock when it begins
    Bounds,         \* who calls; on receipts and approvals made, clock, policies, and stops
    MaxTokens, MaxLedgers

ASSUME StepUpConstants ==
    /\ IsFiniteSet(Calls)
    /\ Policies \in Seq([approvers: SUBSET Approvers, tty: BOOLEAN]) \ {<<>>}
    /\ Offset \in [Approvers -> (-Skew)..Skew]
    /\ TTLs \subseteq Int
    /\ {MaxTTL, Skew, MaxAge, MaxTokens} \subseteq Nat
    /\ Start \in Nat /\ \A a \in Approvers : Start + Offset[a] > 0
    /\ Bounds \subseteq [callers: SUBSET Principals, made: Nat, tokens: 0..MaxTokens, clock: Nat,
                        policies: 1..Len(Policies), stops: Nat]
    /\ {MaxReceipts, MaxLedgers} \subseteq Nat \ {0}

VARIABLES
    bound,          \* one of Bounds
    clock,
    installed,      \* policy.json: which of Policies
    up, loaded,     \* whether the gateway runs, and with which policy
    stops,
    ledger,         \* ledger_id
    used,           \* the replay records: pairs of a ledger and an approval
    receipts,       \* all that were ever made, by number
    dir,            \* those that are in challenge_dir
    call,           \* EvaluateToolCall, of each of Calls
    session,        \* SignApprovalFromCLI, of each of Approvers
    tokens,         \* the approvals, by number, which stands for their jti; begun is a ghost
    forwarded,      \* what has reached the upstream server
    settled         \* approvals with a post_forward_result record

operator == <<bound, installed, up, loaded, stops, ledger>>
challenges == <<receipts, dir>>
upstream == <<forwarded, settled>>
vars == <<clock, operator, used, challenges, call, session, tokens, upstream>>

Intent == [principal: Principals, write: Writes, policy: 1..Len(Policies), ledger: 1..MaxLedgers]
IdleCall == [pc |-> "idle"]
IdleSession == [pc |-> "idle"]
Idle(c) == call' = [call EXCEPT ![c] = IdleCall]
Goto(c, l) == call' = [call EXCEPT ![c].pc = l]
-----------------------------------------------------------------------------
(* Verification *)

\* BuildIntentPayload
IntentOf(p, w) == [principal |-> p, write |-> w, policy |-> loaded, ledger |-> ledger]

\* VerifyMakerChecker
Independent(a, names) == Aliases[a] \cap names = {}

\* Variant: the skew is not granted
InTimeUnskewed(t, now) == t.iat <= now /\ now <= t.exp
InTime(t, now) == t.iat - Skew <= now /\ now <= t.exp + Skew
Proper(t) == t.iat > 0 /\ t.exp > t.iat /\ t.exp - t.iat <= MaxTTL

\* Variant: the secondary claims are not looked at
VerifyKnownOnly(t, i, now) ==
    /\ t.approver \in Policies[loaded].approvers
    /\ t.intent.ledger = i.ledger
    /\ Policies[loaded].tty => t.interactive
    /\ Proper(t) /\ InTime(t, now)
    /\ t.intent = i
    /\ Independent(t.approver, Known[i.principal])
VerifyApprovalToken(t, i, now) ==
    /\ t.approver \in Policies[loaded].approvers
    /\ t.intent.ledger = i.ledger
    /\ Policies[loaded].tty => t.interactive
    /\ Proper(t) /\ InTime(t, now)
    /\ t.intent = i
    /\ Independent(t.approver, Known[i.principal] \cup Claimed[i.principal])
-----------------------------------------------------------------------------
(* A call without an approval: WriteChallengeReceipt.  It may be refused by the *)
(* ledger, which counts challenges, and nothing has happened                     *)

Challenge(c) ==
    /\ up /\ call[c].pc = "idle" /\ Len(receipts) < bound.made
    /\ \E p \in bound.callers, w \in Writes :
           call' = [call EXCEPT ![c] = [pc |-> "list", intent |-> IntentOf(p, w)]]
    /\ UNCHANGED <<clock, operator, used, challenges, session, tokens, upstream>>

\* pruneChallengeDir reads the directory, then removes file after file
List(c) ==
    /\ call[c].pc = "list"
    /\ call' = [call EXCEPT ![c] = [pc |-> "prune", intent |-> call[c].intent,
                                    listing |-> [r \in dir |-> receipts[r].mtime],
                                    cutoff |-> clock - MaxAge]]
    /\ UNCHANGED <<clock, operator, used, challenges, session, tokens, upstream>>

\* The n oldest of a listing, where those of the same time are in no particular order
Oldest(n, listing) == {T \in SUBSET DOMAIN listing :
                          /\ Cardinality(T) = n
                          /\ \A r \in T, s \in (DOMAIN listing) \ T : listing[r] <= listing[s]}
\* Variants: the newest go; no room is made for the one to come
OverfullNewest(kept) ==
    LET n == Cardinality(DOMAIN kept) + 1 - MaxReceipts
    IN  {(DOMAIN kept) \ T : T \in Oldest(Cardinality(DOMAIN kept) - n, kept)}
OverfullByOne(kept) == Oldest(Cardinality(DOMAIN kept) - MaxReceipts, kept)
Overfull(kept) == Oldest(Cardinality(DOMAIN kept) + 1 - MaxReceipts, kept)

Prune(c) ==
    /\ call[c].pc = "prune"
    /\ LET listing == call[c].listing
           aged == {r \in DOMAIN listing : listing[r] < call[c].cutoff}
           kept == [r \in (DOMAIN listing) \ aged |-> listing[r]]
       IN  IF Cardinality(DOMAIN kept) >= MaxReceipts
           THEN \E removed \in Overfull(kept) : dir' = dir \ (aged \cup removed)
           ELSE dir' = dir \ aged
    /\ call' = [call EXCEPT ![c] = [pc |-> "create", intent |-> call[c].intent]]
    /\ UNCHANGED <<clock, operator, used, receipts, session, tokens, upstream>>

\* OpenVerifiedFile with O_EXCL under a new random name
Create(c) ==
    /\ call[c].pc = "create"
    /\ IF Len(receipts) < bound.made
       THEN /\ receipts' = Append(receipts, [intent |-> call[c].intent, made |-> clock,
                                           mtime |-> clock, whole |-> FALSE])
            /\ dir' = dir \cup {Len(receipts')}
            /\ call' = [call EXCEPT ![c] = [pc |-> "fill", receipt |-> Len(receipts')]]
       ELSE Idle(c) /\ UNCHANGED challenges         \* an error
    /\ UNCHANGED <<clock, operator, used, session, tokens, upstream>>

\* A file that could not be written stays as it is
Fill(c) ==
    /\ call[c].pc = "fill"
    /\ receipts' \in {receipts, [receipts EXCEPT ![call[c].receipt].whole = TRUE,
                                                 ![call[c].receipt].mtime = clock]}
    /\ Idle(c)
    /\ UNCHANGED <<clock, operator, used, dir, session, tokens, upstream>>
-----------------------------------------------------------------------------
(* A call with an approval *)

\* The time that counts is the one at which the call arrived
Present(c) ==
    /\ up /\ call[c].pc = "idle"
    /\ \E p \in bound.callers, w \in Writes, k \in DOMAIN tokens :
           /\ VerifyApprovalToken(tokens[k], IntentOf(p, w), clock)
           /\ call' = [call EXCEPT ![c] = [pc |-> "commit", intent |-> IntentOf(p, w), token |-> k,
                                           arrived |-> clock]]
    /\ UNCHANGED <<clock, operator, used, challenges, session, tokens, upstream>>

\* Under epochMu: the manifest is verified again, then CommitWriteAndPreForwardAudit
\* refuses the call, or spends the approval and fails to write its audit record, or
\* lets it through.  Variant: the replay record is not looked up
Exclusive == \A d \in Calls : call[d].pc \notin {"forward", "report"}
CommitReplayed(c) ==
    /\ call[c].pc = "commit" /\ Exclusive
    /\ \/ Idle(c) /\ UNCHANGED used
       \/ /\ used' = used \cup {<<ledger, call[c].token>>}
          /\ Idle(c) \/ Goto(c, "forward")
    /\ UNCHANGED <<clock, operator, challenges, session, tokens, upstream>>
Commit(c) ==
    /\ call[c].pc = "commit" /\ Exclusive
    /\ \/ Idle(c) /\ UNCHANGED used
       \/ /\ <<ledger, call[c].token>> \notin used
          /\ used' = used \cup {<<ledger, call[c].token>>}
          /\ Idle(c) \/ Goto(c, "forward")
    /\ UNCHANGED <<clock, operator, challenges, session, tokens, upstream>>

Forward(c) ==
    /\ call[c].pc = "forward"
    /\ forwarded' = forwarded \cup
           {[call |-> [token |-> call[c].token, intent |-> call[c].intent],
             arrived |-> call[c].arrived, policy |-> loaded, ledger |-> ledger]}
    /\ Goto(c, "report")
    /\ UNCHANGED <<clock, operator, used, challenges, session, tokens, settled>>

\* The upstream server has answered, or the call has timed out or been cancelled; a
\* second audit record says so, unless it cannot be written
Report(c) ==
    /\ call[c].pc = "report"
    /\ settled' \in {settled, settled \cup {call[c].token}}
    /\ Idle(c)
    /\ UNCHANGED <<clock, operator, used, challenges, session, tokens, forwarded>>
-----------------------------------------------------------------------------
(* The approve command *)

\* Variant: any lifetime
LifetimeAny(ttl) == ttl > 0
Lifetime(ttl) == ttl > 0 /\ ttl <= MaxTTL

\* Reads the clock, policy and receipt, compares them, and asks the approver, unless
\* it was told not to (--yes)
Review(a) ==
    /\ session[a].pc = "idle" /\ Len(tokens) < bound.tokens
    /\ \E r \in dir, ttl \in TTLs, yes \in BOOLEAN :
           LET i == receipts[r].intent
           IN  /\ receipts[r].whole
               /\ i.policy = installed
               /\ a \in Policies[installed].approvers
               /\ Independent(a, Known[i.principal])
               /\ Lifetime(ttl)
               /\ yes => ~Policies[installed].tty
               /\ session' = [session EXCEPT ![a] =
                      [pc |-> "asked", intent |-> i, begun |-> clock, iat |-> clock + Offset[a],
                       ttl |-> ttl, interactive |-> ~yes]]
    /\ UNCHANGED <<clock, operator, used, challenges, call, tokens, upstream>>

\* The command's time is that of its start.  Variant: it is that of the answer
SignedLate(s, a) == [intent |-> s.intent, approver |-> a, interactive |-> s.interactive,
                     begun |-> s.begun, iat |-> clock + Offset[a], exp |-> clock + Offset[a] + s.ttl]
Signed(s, a) == [intent |-> s.intent, approver |-> a, interactive |-> s.interactive,
                 begun |-> s.begun, iat |-> s.iat, exp |-> s.iat + s.ttl]
Sign(a) ==
    /\ session[a].pc = "asked" /\ Len(tokens) < bound.tokens
    /\ tokens' = Append(tokens, Signed(session[a], a))
    /\ session' = [session EXCEPT ![a] = IdleSession]
    /\ UNCHANGED <<clock, operator, used, challenges, call, upstream>>

Decline(a) ==
    /\ session[a].pc = "asked" /\ session[a].interactive
    /\ session' = [session EXCEPT ![a] = IdleSession]
    /\ UNCHANGED <<clock, operator, used, challenges, call, tokens, upstream>>
-----------------------------------------------------------------------------
(* The operator, and time *)

InstallPolicy ==
    /\ installed < bound.policies
    /\ installed' = installed + 1
    /\ UNCHANGED <<bound, clock, up, loaded, stops, ledger, used, challenges, call, session, tokens, upstream>>

\* The gateway is killed or stops
Stop ==
    /\ up /\ stops < bound.stops
    /\ up' = FALSE /\ stops' = stops + 1
    /\ call' = [c \in Calls |-> IdleCall]
    /\ UNCHANGED <<bound, clock, installed, loaded, ledger, used, challenges, session, tokens, upstream>>

Serve ==
    /\ ~up
    /\ up' = TRUE /\ loaded' = installed
    /\ UNCHANGED <<bound, clock, installed, stops, ledger, used, challenges, call, session, tokens, upstream>>

\* init-state behind a ledger that was put aside
InitState ==
    /\ ~up /\ ledger < MaxLedgers
    /\ ledger' = ledger + 1
    /\ UNCHANGED <<bound, clock, installed, up, loaded, stops, used, challenges, call, session, tokens, upstream>>

Tick ==
    /\ clock < bound.clock
    /\ clock' = clock + 1
    /\ UNCHANGED <<operator, used, challenges, call, session, tokens, upstream>>
-----------------------------------------------------------------------------
Init ==
    /\ bound \in Bounds /\ clock = Start
    /\ installed = 1 /\ up = TRUE /\ loaded = 1 /\ stops = 0
    /\ ledger = 1 /\ used = {}
    /\ receipts = <<>> /\ dir = {}
    /\ call = [c \in Calls |-> IdleCall]
    /\ session = [a \in Approvers |-> IdleSession]
    /\ tokens = <<>>
    /\ forwarded = {} /\ settled = {}

Step(c) == \/ List(c) \/ Prune(c) \/ Create(c) \/ Fill(c)
           \/ Commit(c) \/ Forward(c) \/ Report(c)
Operator == InstallPolicy \/ Stop \/ Serve \/ InitState
Next == \/ Operator \/ Tick
        \/ \E c \in Calls : Challenge(c) \/ Present(c) \/ Step(c)
        \/ \E a \in Approvers : Review(a) \/ Sign(a) \/ Decline(a)

Spec == Init /\ [][Next]_vars

\* A goroutine that has begun a call goes on with it
FairSpec == Spec /\ \A c \in Calls : WF_vars(Step(c))
=============================================================================
