----------------------------- MODULE MCAuthorize -----------------------------
(* Instances of schemas, policies, JWTs and arguments for TLC. *)
EXTENDS AuthorizeProperties, TLC

Symmetry == Permutations(Calls)

L(id) == [id |-> id, form |-> "lower"]
M(id) == [id |-> id, form |-> "mixed"]
Both(id) == {L(id), M(id)}

Text == [t |-> "string"]
Number == [t |-> "number"]
Object(props) == [t |-> "object", props |-> props]
ListOf(items) == [t |-> "array", items |-> items, nullable |-> TRUE]

\* assign takes a user and groups, request a list of entitlements for somebody, find is
\* a read with a limit of its own and one in an object, which may be no integer
MCSchema ==
    [assign |-> Object([user |-> Text, groups |-> ListOf(Text)]),
     request |-> Object([req |-> Object([for |-> Text, items |-> ListOf(Object([ent |-> Text]))])]),
     find |-> Object([limit |-> [t |-> "integer"], name |-> Text,
                      page |-> Object([size |-> Number]), share |-> Number,
                      rows |-> ListOf(ListOf(Text))])]

Assign(user, groups) == Obj([user |-> Str(user), groups |-> groups])
Names(s) == Arr([k \in DOMAIN s |-> Str(s[k])])
Items(s) == Arr([k \in DOMAIN s |-> Obj([ent |-> Str(s[k])])])
Wish(user, items) == Obj([req |-> Obj([for |-> Str(user), items |-> items])])

Rows == Arr(<<Names(<<L("q"), L("q"), L("q")>>)>>)
MCArguments ==
    [assign |->
        {Assign(L("ann"), Names(<<M("x")>>)), Assign(M("ann"), Names(<<L("y")>>))}
        \cup {Assign(u, Names(<<L("x")>>)) : u \in Both("bob") \cup {L("me"), L("")}}
        \cup {Assign(L("ann"), Names(g)) : g \in {<<>>, <<L("x"), M("y")>>, <<L("x"), L("adm")>>,
                                                  <<M("adm")>>, <<L("z"), L("z"), L("z")>>}}
        \cup {Assign(L("ann"), Null), Assign(L("ann"), Str(L("x"))), Obj([groups |-> Names(<<L("x")>>)]),
              Obj([user |-> Str(L("ann")), other |-> Null])},
     request |->
        {Wish(M("ann"), Items(<<L("x")>>)), Wish(L("ann"), Items(<<M("y")>>))}
        \cup {Wish(M("bob"), Items(<<L("x")>>)), Wish(L("ann"), Items(<<L("x"), M("adm")>>)),
              Wish(L("ann"), Arr(<<Obj(<<>>)>>)),
              Wish(L("ann"), Null)},
     find |->
        {Obj(<<>>), Obj([page |-> Obj(<<>>)]), Obj([name |-> Str(L("q"))]), Obj([rows |-> Rows])}
        \cup {Obj([limit |-> n, page |-> Obj([size |-> n])]) : n \in {Null, Num(0), Num(2), Num(3)}}
        \cup {Obj([page |-> Obj([size |-> Half(1)])])}
        \cup {Obj([share |-> x]) : x \in {Half(0), Half(1), Num(1)}}]

\* Arguments, whatever limits are put in, and their parts; schemas and theirs
Maybe(name, values) == {<<>>} \cup {name :> x : x \in values}
Limit == {Null, Half(1)} \cup {Num(n) : n \in 0..3}
Finds == {Obj(l @@ p @@ n @@ r) : l \in Maybe("limit", Limit),
                                  p \in Maybe("page", {Obj(s) : s \in Maybe("size", Limit)}),
                                  n \in Maybe("name", {Str(L("q")), Num(1)}), r \in Maybe("rows", {Rows})}
         \cup {Obj(l @@ n @@ [share |-> x]) : l \in Maybe("limit", Limit), n \in Maybe("name", {Num(1)}),
                                             x \in {Half(0), Half(1), Num(1)}}
RECURSIVE Parts(_)
Parts(v) == {v} \cup CASE v.t = "object" -> UNION {Parts(v.f[n]) : n \in DOMAIN v.f}
                       [] v.t = "array" -> UNION {Parts(v.a[k]) : k \in DOMAIN v.a}
                       [] OTHER -> {}
Values == {Null} \cup UNION {Parts(v) : v \in Finds \cup UNION Range(MCArguments)}
RECURSIVE Nodes(_)
Nodes(s) == {s} \cup CASE s.t = "object" -> UNION {Nodes(s.props[n]) : n \in DOMAIN s.props}
                       [] s.t = "array" -> Nodes(s.items)
                       [] OTHER -> {}
SchemaNodes == UNION {Nodes(s) : s \in Range(MCSchema)}

\* TLC evaluates the set of a constant whenever it meets it, but a definition once
MCJson == Values
MCSchemas == SchemaNodes

Bind(path, mode, forms) == [path |-> path, mode |-> mode, forms |-> forms, optional |-> FALSE]
AnyForm == {"lower", "mixed", "upper"}
Target(path, mode) == Bind(path, mode, AnyForm) @@ [categories |-> {"tier0"}]
Subject(path, mode) == Bind(path, mode, AnyForm) @@ [claims |-> {"sub"}]

Tool(class, scopes) ==
    [enabled |-> TRUE, class |-> class, scopes |-> scopes, forbidSelf |-> FALSE, primary |-> <<>>,
     subjects |-> <<>>, protected |-> <<>>, sod |-> <<>>, arrays |-> <<>>, limits |-> <<>>,
     constraints |-> <<>>]
AssignTool(m) ==
    [Tool("write:low-risk", {"grp:write"}) EXCEPT
        !.forbidSelf = TRUE, !.primary = <<One("user")>>,
        !.subjects = <<Subject(<<One("user")>>, m)>>,
        !.protected = <<Target(<<All("groups")>>, m) >>,
        !.sod = <<Bind(<<One("user")>>, m, AnyForm), Bind(<<All("groups")>>, m, AnyForm)>>,
        !.arrays = <<[path |-> <<One("groups")>>, max |-> 2]>>]
RequestTool(m) ==
    [Tool("write:high-risk", {"req:write"}) EXCEPT
        !.forbidSelf = TRUE, !.primary = <<One("req"), One("for")>>,
        !.subjects = <<Subject(<<One("req"), One("for")>>, m)>>,
        !.protected = <<Target(<<One("req"), All("items"), One("ent")>>, m)>>,
        !.sod = <<Bind(<<One("req"), One("for")>>, m, AnyForm),
                  Bind(<<One("req"), All("items"), One("ent")>>, m, AnyForm)>>]
FindTool ==
    [Tool("read", {"dir:read"}) EXCEPT
        !.limits = <<[path |-> <<One("limit")>>, default |-> 1, max |-> 2],
                     [path |-> <<One("page"), One("size")>>, default |-> 2, max |-> 2]>>,
        !.arrays = <<[path |-> <<All("rows")>>, max |-> 2]>>,
        !.constraints = <<[kind |-> "bounds", path |-> <<One("limit")>>, optional |-> TRUE,
                           min |-> 0, max |-> 9],
                          [kind |-> "bounds", path |-> <<One("share")>>, optional |-> TRUE,
                           min |-> 0, max |-> 1],
                          [kind |-> "allow", path |-> <<One("name")>>, optional |-> TRUE,
                           allowed |-> {L("q")}]>>]

Auth == [require |-> TRUE, perCall |-> FALSE, anonymous |-> {}, skew |-> 1, lifetime |-> 2,
         identity |-> [claim |-> "sub", mode |-> "preserve", forms |-> {"lower", "mixed"}],
         map |-> [admins |-> {"grp:write", "req:write"}]]
Policy(m1, m2, folds, entry) ==
    [tools |-> [assign |-> AssignTool(m1), request |-> RequestTool(m2)],
     categories |-> [tier0 |-> [exact |-> {entry}, regexes |-> {}, folds |-> folds]],
     rules |-> {[entitlements |-> {L("x"), L("y")}, folds |-> folds]},
     static |-> {<<L("bob"), L("x")>>},
     auth |-> Auth,
     agent |-> [scopes |-> {"grp:write", "req:write", "dir:read"}, hide |-> TRUE]]

\* A gateway of reads, with no JWT or one per call
ReadPolicy(perCall, hide, find) ==
    [Policy("preserve", "preserve", FALSE, L("adm")) EXCEPT
        !.tools = [find |-> find],
        !.auth = [Auth EXCEPT !.require = perCall, !.perCall = perCall, !.anonymous = {"dir:read"}],
        !.agent = [@ EXCEPT !.hide = hide]]

JWT(sub, scopes, groups) ==
    [genuine |-> TRUE, overage |-> FALSE, iat |-> 1, nbf |-> 0, exp |-> 2,
     claims |-> [sub |-> Str(sub), email |-> Str(L("mail"))], scopes |-> scopes, groups |-> groups]
Boss == JWT(M("bob"), {"dir:read"}, {"admins"})
Clerk == JWT(L("bob"), {"dir:read", "grp:write"}, {"staff"})
Guest == JWT(L("bob"), {"grp:write"}, {})
MCPerCall == {NoJWT, Clerk, [Clerk EXCEPT !.scopes = {"*"}], [Clerk EXCEPT !.overage = TRUE],
              [Clerk EXCEPT !.exp = 4], [Clerk EXCEPT !.claims = [sub |-> Str(L("bob")), upn |-> Null]],
              [Clerk EXCEPT !.claims = [sub |-> Arr(<<>>)]]}

Pair(p, q) == [until |-> 0, runs |-> <<[policy |-> p, jwt |-> Boss], [policy |-> q, jwt |-> Boss]>>]
Alone(p) == [until |-> 5, runs |-> <<[policy |-> p, jwt |-> Guest]>>]
\* A cap, a limit and bounds for a text
Misfits ==
    {[FindTool EXCEPT !.arrays = <<[path |-> <<One("name")>>, max |-> 2]>>],
     [FindTool EXCEPT !.limits = <<[path |-> <<One("name")>>, default |-> 1, max |-> 2]>>],
     [FindTool EXCEPT !.constraints = <<[kind |-> "bounds", path |-> <<One("name")>>,
                                         optional |-> TRUE, min |-> 0, max |-> 9]>>]}
Folding(m1, m2) == Policy(m1, m2, TRUE, M("adm"))
Strict(m, entry) == Policy(m, m, FALSE, entry)
MCDeployments ==
    {Pair(Folding("preserve", "ascii_upper"), Folding("ascii_lower", "preserve")),
     Pair(Strict("ascii_lower", M("adm")), Strict("ascii_lower", L("adm"))),
     Pair(Strict("preserve", M("adm")), Folding("preserve", "preserve"))}
    \cup {Alone(ReadPolicy(perCall, hide, find)) :
              perCall, hide \in BOOLEAN, find \in {FindTool} \cup Misfits}
=============================================================================
