------------------------- MODULE AuthorizeProperties -------------------------
(***************************************************************************)
(* What the guardrails guarantee of the calls they let through, said of    *)
(* the arguments that are forwarded, not of what the guardrails took from  *)
(* them.                                                                   *)
(***************************************************************************)
EXTENDS Authorize

ToolPolicy(r) == deployment.runs[r.version].policy.tools[r.tool]
Named(r, b) == {v.s : v \in At[b.path][r.args] \ {Null}}

\* The spelling that counts: none, if a rule or category folds case, or that in which a
\* binding puts it
Means(n, folds, b) == IF folds THEN Lower(n) ELSE NormalizeIdentifier(n, b)

\* A policy lists a name as its bindings spell it
InNormalForm(n, b) == NormalizeIdentifier(n, b) = n
-----------------------------------------------------------------------------
\* Whatever the spelling of a target, it is none that the policy protects, and nobody
\* changes his own access under a name that his JWT gives him.  What a category lists
\* in another spelling than its bindings' counts only if the category folds case.
TargetsAreSpared ==
    \A r \in Range(sent) :
        LET pol == deployment.runs[r.version].policy
            tp == ToolPolicy(r)
        IN  /\ \A b \in Range(tp.protected) : \A c \in b.categories : \A n \in Named(r, b) :
                   LET cat == pol.categories[c]
                   IN  \A e \in cat.exact : cat.folds \/ InNormalForm(e, b)
                                            => Means(n, cat.folds, b) # Means(e, cat.folds, b)
            /\ WriteTool(tp) /\ tp.forbidSelf =>
                   \A b \in Range(tp.subjects) : \A n \in Named(r, b), k \in b.claims :
                       Means(n, FALSE, b) # Means(r.jwt.claims[k].s, FALSE, b)
-----------------------------------------------------------------------------
\* Who was given what by a call, as a rule takes it
Given(r, folds) ==
    LET tp == ToolPolicy(r)
    IN  IF ~WriteTool(tp) \/ tp.sod = <<>> THEN {}
        ELSE {<<Means(s, folds, tp.sod[1]), Means(e, folds, tp.sod[2])>> :
                  s \in Named(r, tp.sod[1]), e \in Named(r, tp.sod[2])}
Static(folds) == {IF folds THEN <<Lower(g[1]), Lower(g[2])>> ELSE g : g \in policy.static}

\* No call gives a subject an entitlement that a rule of its policy keeps apart from
\* another one which the policy says he has, or which an earlier call gave him, be it by
\* another tool, at the same time, in other spellings, or under an earlier policy.
DutiesStaySeparate ==
    \A k \in DOMAIN sent : sent[k].version = version =>
        \A r \in policy.rules :
            LET apart == {IF r.folds THEN Lower(e) ELSE e : e \in r.entitlements}
                before == Static(r.folds) \cup UNION {Given(sent[i], r.folds) : i \in 1..k}
            IN  \A g \in Given(sent[k], r.folds) :
                    g[2] \in apart =>
                        \A h \in before : h[1] = g[1] /\ h[2] \in apart => h[2] = g[2]
-----------------------------------------------------------------------------
\* The array that a cap is about, whether or not [*] follows it
Capped(path) == [path EXCEPT ![Len(path)].all = FALSE]

\* Every limit that goes upstream is at least one and at most what the policy allows,
\* and there is one wherever there is an object for it, whether the caller left it out,
\* set it to null, or never heard of it; no capped array is longer than its cap.
LimitsHold ==
    \A r \in Range(sent) :
        /\ \A b \in Range(ToolPolicy(r).limits) :
               \A v \in At[b.path][r.args] : v.t = "integer" /\ v.n \in 1..b.max
        /\ \A b \in Range(ToolPolicy(r).arrays) :
               \A v \in At[Capped(b.path)][r.args] \ {Null} : v.t = "array" /\ Len(v.a) <= b.max

\* A policy that was loaded goes with the schemas: no call that conforms to its tool's
\* is refused because a binding, a cap, a limit or a constraint finds a value of another
\* type than it can read.  What a limit can read is a number; where the schema lets it be
\* a fraction, that conforms and is refused all the same.  None of this depends on
\* earlier calls.
PoliciesFit ==
    sent = <<>> /\ call = [c \in Calls |-> IdleCall] =>
    \A t \in Tools, meta \in PerCall : \A raw \in Arguments[t] : Verdict(t, raw, meta) # "type"

\* A gateway that hides tools lists just those that a call gets past the scopes of, by
\* whatever JWT.
ListedIsCallable ==
    policy.agent.hide =>
        \A t \in Tools :
            LET Passes(meta) == LET who == ResolvePrincipal(meta)
                                IN  /\ who.err = "" /\ Enabled(t)
                                    /\ AuthorizeToolOBO(who, policy.tools[t].scopes)
            IN  t \in ToolsList <=> \E meta \in PerCall : Passes(meta)
=============================================================================
