------------------------------ MODULE Authorize ------------------------------
(***************************************************************************)
(* Who may call which tool with which arguments (src/internal/authz:       *)
(* policy.go, jwt.go, obo.go, stages 1 to 3 of EvaluateToolCall and        *)
(* HandleToolsList of proxy.go), over calls that follow each other or run  *)
(* concurrently, and over policies that follow each other and share a      *)
(* ledger.                                                                 *)
(*                                                                         *)
(* A name is a record: whose it is, and the case in which it is spelled.   *)
(* The normalizers' character sets are the same for all, and a regular     *)
(* expression stands for the spellings that match it.  A JWT is genuine or *)
(* not: its header, signature, issuer and audience.  Step-up approval, the *)
(* ledger's budgets and the upstream server are left to other modules: a   *)
(* write that gets through stage 3 may be refused afterwards.              *)
(***************************************************************************)
EXTENDS Paths, FiniteSets, Functions

CONSTANTS
    Calls,          \* goroutines of the gateway
    Schema,         \* Schema[t]: the pinned inputSchema of tool t
    Deployments,    \* each the time it lasts, and policies and startup JWTs that follow each other
    PerCall,        \* JWTs in _meta
    Arguments,      \* Arguments[t]: what tool t may be called with
    ValidScopes     \* those that match scopeSyntaxRegex

CONSTANT MaxSent        \* bound of a model

Tools == DOMAIN Schema

VARIABLES
    deployment, version,
    clock,
    call,           \* EvaluateToolCall, of each of Calls, past stage 3
    grants,         \* active grants of the ledger: pairs of names
    sent            \* ghost: what was forwarded, in order

vars == <<deployment, version, clock, call, grants, sent>>

policy == deployment.runs[version].policy
IdleCall == [tool |-> "none"]
NoJWT == [genuine |-> FALSE]
-----------------------------------------------------------------------------
(* Names *)

NoName == [id |-> "none", form |-> "none"]
Lower(n) == [n EXCEPT !.form = "lower"]

\* Not to be had in any normalizer: other characters, the reserved names for oneself
Improper == {"", "*", "me"}

\* b.mode is a case_mode, b.forms what canonicalRegex matches
NormalizeIdentifier(n, b) ==
    LET out == CASE b.mode = "ascii_lower" -> Lower(n)
                 [] b.mode = "ascii_upper" -> [n EXCEPT !.form = "upper"]
                 [] b.mode = "preserve" -> n
    IN  IF n.id \in Improper \/ out.form \notin b.forms THEN NoName ELSE out
Normal(n, b) == NormalizeIdentifier(n, b) # NoName
-----------------------------------------------------------------------------
(* Principals *)

WriteTool(tp) == tp.class \in {"write:low-risk", "write:high-risk"}

\* VerifyPrincipalJWT
Email == [mode |-> "ascii_lower", forms |-> {"lower"}]
VerifyPrincipalJWT(j, auth, now) ==
    /\ j.genuine /\ ~j.overage
    /\ now <= j.exp + auth.skew /\ j.iat - auth.skew <= now /\ j.nbf - auth.skew <= now
    /\ j.iat < j.exp /\ j.exp - j.iat <= auth.lifetime
    /\ "sub" \in DOMAIN j.claims /\ j.claims["sub"].t = "string" /\ j.claims["sub"].s.id # ""
    /\ auth.identity.claim \in DOMAIN j.claims
    /\ j.claims[auth.identity.claim].t = "string"
    /\ Normal(j.claims[auth.identity.claim].s, auth.identity)
    /\ \A k \in {"email", "upn", "preferred_username"} \cap DOMAIN j.claims :
           j.claims[k] # Null => j.claims[k].t = "string" /\ Normal(j.claims[k].s, Email)

Mapped(map, groups) == UNION {map[g] : g \in groups \cap DOMAIN map}

\* PopulateOBOScopes
Principal(j, human, agent) ==
    [err |-> "", jwt |-> j, anonymous |-> j = NoJWT, scopes |-> human \cap agent]
PopulateOBOScopes(j, pol) ==
    IF j = NoJWT THEN Principal(j, pol.auth.anonymous, pol.agent.scopes)
    ELSE IF ~(j.scopes \subseteq ValidScopes) THEN [err |-> "jwt"]
    ELSE Principal(j, j.scopes \cup Mapped(pol.auth.map, j.groups), pol.agent.scopes)

\* resolvePrincipal, with the JWT in _meta or none
ResolvePrincipal(meta) ==
    LET auth == policy.auth
        j == IF meta # NoJWT THEN meta ELSE deployment.runs[version].jwt
    IN  IF ~auth.require THEN PopulateOBOScopes(NoJWT, policy)
        ELSE IF meta # NoJWT /\ ~auth.perCall THEN [err |-> "override"]
        ELSE IF ~VerifyPrincipalJWT(j, auth, clock) THEN [err |-> "jwt"]
        ELSE PopulateOBOScopes(j, policy)

AuthorizeToolOBO(who, required) == required # {} /\ required \subseteq who.scopes

Enabled(t) == t \in DOMAIN policy.tools /\ policy.tools[t].enabled

\* HandleToolsList
ToolsList ==
    LET who == ResolvePrincipal(NoJWT)
    IN  IF ~policy.agent.hide THEN {t \in Tools : Enabled(t)}
        ELSE IF who.err # "" THEN {}
        ELSE {t \in Tools : Enabled(t) /\ AuthorizeToolOBO(who, policy.tools[t].scopes)}
-----------------------------------------------------------------------------
(* EvaluateStage3Guardrails *)

\* What a binding finds, in normal form
Extracted(args, b) ==
    LET r == ExtractStrings[b.path][args][b.optional]
        names == {NormalizeIdentifier(n, b) : n \in r.vals}
    IN  IF r.err # "" THEN r
        ELSE IF NoName \in names THEN Fails("name") ELSE Found(names)

\* Variant: the entries are compared as they are
MatchesExactly(n, cat) == n \in cat.exact \cup cat.regexes
\* matchProtectedCategory.  Prefixes are compared like exact entries, regexes are not
MatchesCategory(n, cat) ==
    \/ \E e \in cat.exact : IF cat.folds THEN Lower(e) = Lower(n) ELSE e = n
    \/ n \in cat.regexes

ProtectedTargets(pol, args, b) ==
    LET r == Extracted(args, b)
    IN  IF r.err # "" THEN r.err
        ELSE IF \E n \in r.vals, c \in b.categories : MatchesCategory(n, pol.categories[c])
             THEN "protected" ELSE ""

\* The caller's names by the claims of a binding
CallerNames(b, who) ==
    {IF c \in DOMAIN who.jwt.claims /\ who.jwt.claims[c].t = "string"
     THEN NormalizeIdentifier(who.jwt.claims[c].s, b) ELSE NoName : c \in b.claims}
SubjectTargets(tp, args, b, who) ==
    LET r == Extracted(args, b)
    IN  IF r.err # "" THEN r.err
        ELSE IF ~tp.forbidSelf THEN ""
        ELSE IF who.anonymous THEN "claim"
        ELSE IF NoName \in CallerNames(b, who) THEN "claim"
        ELSE IF r.vals \cap CallerNames(b, who) # {} THEN "self" ELSE ""

\* Variant: the subject is compared as it is
CheckSoDRulesUnfolded(pol, subjects, requested, granted) ==
    \E s \in subjects, r \in pol.rules :
        LET Key(n) == IF r.folds THEN Lower(n) ELSE n
            conflict == {Key(e) : e \in r.entitlements}
            asked == {Key(e) : e \in requested} \cap conflict
            had == {Key(g[2]) : g \in {h \in pol.static \cup granted : h[1] = s}}
        IN  asked # {} /\ Cardinality((asked \cup had) \cap conflict) >= 2
\* Requests and what the ledger and the policy know each subject to have
CheckSoDRules(pol, subjects, requested, granted) ==
    \E s \in subjects, r \in pol.rules :
        LET Key(n) == IF r.folds THEN Lower(n) ELSE n
            conflict == {Key(e) : e \in r.entitlements}
            asked == {Key(e) : e \in requested} \cap conflict
            had == {Key(g[2]) : g \in {h \in pol.static \cup granted : Key(h[1]) = Key(s)}}
        IN  asked # {} /\ Cardinality((asked \cup had) \cap conflict) >= 2

Subjects(tp, args) == IF tp.sod = <<>> THEN {} ELSE Extracted(args, tp.sod[1]).vals
Entitlements(tp, args) == IF tp.sod = <<>> THEN {} ELSE Extracted(args, tp.sod[2]).vals

\* Each check stops at its first error, and so do the checks
e1 ?? e2 == IF e1 # "" THEN e1 ELSE e2

WithinBounds(v, min, max) == min <= v.n /\ (IF v.t = "integer" THEN v.n ELSE v.n + 1) <= max
\* evaluateArgConstraints, with the reason instead of one code for all
Constrained(args, k) ==
    LET strings == ExtractStrings[k.path][args][k.optional]
        numbers == ExtractNumbers[k.path][args][k.optional]
    IN  CASE k.kind = "required" ->
                strings.err ?? IF strings.vals = {} THEN "constraint" ELSE ""
          [] k.kind = "allow" ->
                strings.err ?? IF strings.vals \subseteq k.allowed THEN "" ELSE "constraint"
          [] k.kind = "bounds" ->
                numbers.err ?? IF \A v \in numbers.vals : WithinBounds(v, k.min, k.max)
                               THEN "" ELSE "constraint"
Stage3(pol, tp, args, who, granted) ==
    (IF WriteTool(tp) THEN ExtractStrings[tp.primary][args][FALSE].err ELSE "")
    ?? FirstError([k \in DOMAIN tp.protected |-> ProtectedTargets(pol, args, tp.protected[k])])
    ?? FirstError([k \in DOMAIN tp.subjects |-> SubjectTargets(tp, args, tp.subjects[k], who)])
    ?? FirstError([k \in DOMAIN tp.sod |-> Extracted(args, tp.sod[k]).err])
    ?? (IF CheckSoDRules(pol, Subjects(tp, args), Entitlements(tp, args), granted)
        THEN "sod" ELSE "")
    ?? FirstError([k \in DOMAIN tp.arrays |->
                      CheckArrayCapAtPath[tp.arrays[k].path][args][tp.arrays[k].max]])
    ?? FirstError([k \in DOMAIN tp.limits |->
                      CheckLimitCapAtPath[tp.limits[k].path][args][tp.limits[k].max]])
    ?? FirstError([k \in DOMAIN tp.constraints |-> Constrained(args, tp.constraints[k])])
-----------------------------------------------------------------------------
(* ParseAndValidatePolicyBytes and ValidatePolicyPathsAgainstSchema *)

\* Variant: a path need only resolve
LeafIsAny(t, path, types) == ResolvePath[path][Schema[t]] # "none"
LeafIs(t, path, types) == ResolvePath[path][Schema[t]] \in types

PathsFit(t, tp) ==
    /\ \A b \in Range(tp.protected) \cup Range(tp.subjects) \cup Range(tp.sod) :
           LeafIs(t, b.path, {"string"})
    /\ tp.primary # <<>> => LeafIs(t, tp.primary, {"string"})
    /\ \A b \in Range(tp.arrays) : LeafIs(t, b.path, {"array"})
    /\ \A b \in Range(tp.limits) : LeafIs(t, b.path, Numeric)
    /\ \A k \in Range(tp.constraints) :
           LeafIs(t, k.path, IF k.kind = "bounds" THEN Numeric ELSE {"string"})

EntriesFit(pol, tp) ==
    /\ \A b \in Range(tp.protected) : \A c \in b.categories :
           c \in DOMAIN pol.categories /\ \A e \in pol.categories[c].exact : Normal(e, b)
    /\ tp.sod # <<>> =>
           /\ \A r \in pol.rules : Cardinality(r.entitlements) >= 2
                                   /\ \A e \in r.entitlements : Normal(e, tp.sod[2])
           /\ \A g \in pol.static : Normal(g[1], tp.sod[1]) /\ Normal(g[2], tp.sod[2])

ToolFits(pol, t, tp) ==
    /\ tp.scopes \subseteq ValidScopes /\ (tp.enabled => tp.scopes # {})
    /\ WriteTool(tp) /\ tp.enabled =>
           tp.primary # <<>> /\ (tp.forbidSelf => tp.subjects # <<>>)
    /\ \A b \in Range(tp.arrays) : b.max \in 1..HardCap
    /\ \A b \in Range(tp.limits) : 1 <= b.default /\ b.default <= b.max
    /\ \A k \in Range(tp.constraints) : k.kind = "bounds" => k.min <= k.max
    /\ EntriesFit(pol, tp)
    /\ tp.enabled => PathsFit(t, tp)

\* Variant: a tool list that hides tools goes with JWTs per call
LoadsHidden(pol) ==
    LET auth == pol.auth
        writes == \E t \in DOMAIN pol.tools : pol.tools[t].enabled /\ WriteTool(pol.tools[t])
    IN  /\ writes => auth.require /\ ~auth.perCall
        /\ auth.require \/ auth.anonymous # {}
        /\ (pol.agent.scopes \cup auth.anonymous \cup UNION Range(auth.map)) \subseteq ValidScopes
        /\ \A t \in DOMAIN pol.tools : ToolFits(pol, t, pol.tools[t])
Loads(pol) ==
    LET auth == pol.auth
        writes == \E t \in DOMAIN pol.tools : pol.tools[t].enabled /\ WriteTool(pol.tools[t])
    IN  /\ writes => auth.require /\ ~auth.perCall
        /\ ~(auth.perCall /\ pol.agent.hide)
        /\ auth.require \/ auth.anonymous # {}
        /\ (pol.agent.scopes \cup auth.anonymous \cup UNION Range(auth.map)) \subseteq ValidScopes
        /\ \A t \in DOMAIN pol.tools : ToolFits(pol, t, pol.tools[t])
-----------------------------------------------------------------------------
(* A call *)

\* Variant: what is there is not looked for
InjectAlways(args, limits) ==
    FoldLeft(LAMBDA a, b : IF Len(b.path) = 1 THEN With(a, b.path[1].field, Num(b.default)) ELSE a,
             args, limits)
\* One default after the other, the last one into what the others leave
Limits == [path : Path \ {<<>>}, default : Int, max : Int]
Inject(limits, rest, args) ==
    IF limits = <<>> THEN args
    ELSE InjectDefault[Last(limits).path][rest[args]][Last(limits).default]
Injected[limits \in Seq(Limits)] ==
    [args \in Json |-> Inject(limits, Injected[Front(limits)], args)]
InjectLimitDefaults(args, limits) == Injected[limits][args]

CleanArgs(t, raw) == InjectLimitDefaults(raw, policy.tools[t].limits)

\* "" or why stages 0 to 3 refuse it
Verdict(t, raw, meta) ==
    IF ~Enabled(t) THEN "tool"
    ELSE LET tp == policy.tools[t]
             args == CleanArgs(t, raw)
             who == ResolvePrincipal(meta)
         IN  IF ~Conforms[MaxJSONDepth][args][Schema[t]] THEN "schema"
             ELSE IF who.err # "" THEN who.err
             ELSE IF ~AuthorizeToolOBO(who, tp.scopes) THEN "scope"
             ELSE Stage3(policy, tp, args, who, grants)

Request(t, raw, meta) ==
    [tool |-> t, args |-> CleanArgs(t, raw),
     jwt |-> ResolvePrincipal(meta).jwt, version |-> version]

Evaluate(c) ==
    /\ call[c] = IdleCall /\ Len(sent) < MaxSent
    /\ \E t \in Tools, meta \in PerCall : \E raw \in Arguments[t] :
           /\ Verdict(t, raw, meta) = ""
           /\ call' = [call EXCEPT ![c] = Request(t, raw, meta)]
    /\ UNCHANGED <<deployment, version, clock, grants, sent>>

\* A write is refused by the ledger, or committed with its grants, and forwarded unless
\* its audit record fails
Commit(c) ==
    /\ call[c] # IdleCall
    /\ LET tp == policy.tools[call[c].tool]
           subjects == Subjects(tp, call[c].args)
           requested == Entitlements(tp, call[c].args)
       IN  IF WriteTool(tp)
           THEN /\ ~CheckSoDRules(policy, subjects, requested, grants)
                /\ grants' = grants \cup (subjects \X requested)
                /\ sent' \in {sent, Append(sent, call[c])}
           ELSE UNCHANGED grants /\ sent' = Append(sent, call[c])
    /\ call' = [call EXCEPT ![c] = IdleCall]
    /\ UNCHANGED <<deployment, version, clock>>

Refuse(c) ==
    /\ call[c] # IdleCall
    /\ call' = [call EXCEPT ![c] = IdleCall]
    /\ UNCHANGED <<deployment, version, clock, grants, sent>>

\* NewGateway: the JWT of the start has to be good, if there are no others
Starts == policy.auth.require /\ ~policy.auth.perCall => ResolvePrincipal(NoJWT).err = ""

\* The gateway is started again, with the next policy and JWT
Restart ==
    /\ version < Len(deployment.runs)
    /\ Loads(deployment.runs[version + 1].policy)
    /\ version' = version + 1
    /\ call' = [c \in Calls |-> IdleCall]
    /\ UNCHANGED <<deployment, clock, grants, sent>>
    /\ Starts'

Tick ==
    /\ clock < deployment.until
    /\ clock' = clock + 1
    /\ UNCHANGED <<deployment, version, call, grants, sent>>
-----------------------------------------------------------------------------
(* What calls and policies are made of, once they are decoded *)

Bindings(tp) == {tp.protected, tp.subjects, tp.sod, tp.arrays, tp.constraints}
Decoded(tp) ==
    /\ tp.primary \in Path /\ tp.limits \in Seq(Limits) /\ Len(tp.sod) \in {0, 2}
    /\ \A bs \in Bindings(tp) : bs \in Seq(Range(bs)) /\ \A b \in Range(bs) : b.path \in Path \ {<<>>}
    /\ \A b \in Range(tp.protected) \cup Range(tp.subjects) \cup Range(tp.sod) :
           b.mode \in {"ascii_lower", "ascii_upper", "preserve"} /\ b.optional \in BOOLEAN
    /\ \A b \in Range(tp.arrays) : b.max \in Int
    /\ \A k \in Range(tp.constraints) :
           k.optional \in BOOLEAN /\ k.kind \in {"required", "allow", "bounds"}

ASSUME DeploymentsAssumption ==
    \A d \in Deployments :
        /\ d.runs \in Seq(Range(d.runs)) \ {<<>>}
        /\ \A run \in Range(d.runs) :
               /\ \A tp \in Range(run.policy.tools) : Decoded(tp)
               /\ \A r \in run.policy.rules : IsFiniteSet(r.entitlements)

ASSUME CallsAssumption ==
    /\ NoJWT \in PerCall
    /\ \A t \in Tools :
           /\ Schema[t] \in Schemas
           /\ \A raw \in Arguments[t] : raw \in Json /\ raw.t = "object"

\* Arguments with default limits are JSON values as well
ASSUME InjectionAssumption ==
    \A d \in Deployments : \A run \in Range(d.runs) : \A t \in Tools \cap DOMAIN run.policy.tools :
        LET limits == run.policy.tools[t].limits
        IN  \A raw \in Arguments[t], n \in 0..Len(limits) :
                InjectLimitDefaults(raw, SubSeq(limits, 1, n)) \in Json
-----------------------------------------------------------------------------
Init ==
    /\ deployment \in Deployments /\ Loads(deployment.runs[1].policy) /\ version = 1
    /\ clock = 0
    /\ call = [c \in Calls |-> IdleCall]
    /\ grants = {} /\ sent = <<>>
    /\ Starts

Next == Restart \/ Tick \/ \E c \in Calls : Evaluate(c) \/ Commit(c) \/ Refuse(c)

Spec == Init /\ [][Next]_vars
=============================================================================
