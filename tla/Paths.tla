-------------------------------- MODULE Paths --------------------------------
(***************************************************************************)
(* Arguments of tool calls, and the path expressions with which a policy   *)
(* names parts of them (src/internal/authz/policy.go).                     *)
(*                                                                         *)
(* A decoded JSON value is a tagged record; a string stands for a name.    *)
(* A path is a sequence of segments, each a field and whether [*] follows  *)
(* it.  An absent field and a null one are told apart by nothing but the   *)
(* schema.  What recurses along a path is a function of the path, which    *)
(* returns a function of the value; rest is that of the rest of the path.  *)
(***************************************************************************)
EXTENDS Integers, Sequences, SequencesExt

CONSTANTS
    HardCap,        \* 1000: array elements that a path is followed into
    MaxJSONDepth,   \* 16: objects and arrays in each other, in the arguments of a call
    Json,           \* JSON values
    Schemas         \* nodes of JSON schemas

Null == [t |-> "null"]
Str(s) == [t |-> "string", s |-> s]
Num(n) == [t |-> "integer", n |-> n]
Half(n) == [t |-> "number", n |-> n]        \* a number between n and n + 1
Arr(a) == [t |-> "array", a |-> a]
Obj(f) == [t |-> "object", f |-> f]

Numeric == {"integer", "number"}

Field(v, name) == IF name \in DOMAIN v.f THEN v.f[name] ELSE Null
One(name) == [field |-> name, all |-> FALSE]
All(name) == [field |-> name, all |-> TRUE]
Segments == [field : STRING, all : BOOLEAN]
Path == Seq(Segments)

ASSUME BoundsAssumption == HardCap \in Nat /\ MaxJSONDepth \in Nat

\* Json and Schemas have the parts of what is in them
ASSUME JsonAssumption ==
    /\ Null \in Json
    /\ \A v \in Json : /\ v.t = "object" => \A name \in DOMAIN v.f : v.f[name] \in Json
                       /\ v.t = "array" => v.a \in Seq(Json)
ASSUME SchemasAssumption ==
    \A s \in Schemas : /\ s.t = "object" => \A name \in DOMAIN s.props : s.props[name] \in Schemas
                       /\ s.t = "array" => s.items \in Schemas

\* What a path finds, in no order, or why it is refused
Found(vals) == [err |-> "", vals |-> vals]
Fails(err) == [err |-> err, vals |-> {}]
FirstError(errs) == LET bad == {k \in DOMAIN errs : errs[k] # ""}
                    IN  IF bad = {} THEN "" ELSE errs[Min(bad)]
Joined(results) ==
    LET err == FirstError([k \in DOMAIN results |-> results[k].err])
    IN  IF err # "" THEN Fails(err) ELSE Found(UNION {results[k].vals : k \in DOMAIN results})
-----------------------------------------------------------------------------
(* Extraction.  Optional is what is absent on the way to the first array *)

ExtractFromSegments(path, rest, v, optional) ==
    IF path = <<>> THEN
        IF v.t # "string" THEN Fails("type")
        ELSE IF v.s.id = "" THEN Fails("missing") ELSE Found({v.s})
    ELSE IF v.t # "object" THEN Fails("type")
    ELSE LET x == Field(v, Head(path).field)
             within(e) == IF e = Null THEN Fails("missing") ELSE rest[e][FALSE]
         IN  IF x = Null THEN IF optional THEN Found({}) ELSE Fails("missing")
             ELSE IF ~Head(path).all THEN rest[x][optional]
             ELSE IF x.t # "array" THEN Fails("type")
             ELSE IF x.a = <<>> THEN Fails("missing")
             ELSE IF Len(x.a) > HardCap THEN Fails("cap")
             ELSE Joined([k \in DOMAIN x.a |-> within(x.a[k])])
ExtractStrings[path \in Path] ==
    [v \in Json |-> [optional \in BOOLEAN |->
        ExtractFromSegments(path, ExtractStrings[Tail(path)], v, optional)]]

\* An optional array may be empty, too.  One code for all errors but the cap; here as above
ExtractNumbersFromSegments(path, rest, v, optional) ==
    IF path = <<>> THEN IF v.t \in Numeric THEN Found({v}) ELSE Fails("type")
    ELSE IF v.t # "object" THEN Fails("type")
    ELSE LET x == Field(v, Head(path).field)
             within(e) == IF e = Null THEN Fails("type") ELSE rest[e][FALSE]
         IN  IF x = Null THEN IF optional THEN Found({}) ELSE Fails("missing")
             ELSE IF ~Head(path).all THEN rest[x][optional]
             ELSE IF x.t # "array" THEN Fails("type")
             ELSE IF x.a = <<>> THEN IF optional THEN Found({}) ELSE Fails("missing")
             ELSE IF Len(x.a) > HardCap THEN Fails("cap")
             ELSE Joined([k \in DOMAIN x.a |-> within(x.a[k])])
ExtractNumbers[path \in Path] ==
    [v \in Json |-> [optional \in BOOLEAN |->
        ExtractNumbersFromSegments(path, ExtractNumbers[Tail(path)], v, optional)]]
-----------------------------------------------------------------------------
(* Caps and defaults *)

\* The array at the end of a path, whether or not [*] follows it
ArrayCap(path, rest, v, max) ==
    IF path = <<>>
    THEN IF v.t # "array" THEN "type" ELSE IF Len(v.a) > max THEN "cap" ELSE ""
    ELSE IF v.t # "object" THEN ""
    ELSE LET x == Field(v, Head(path).field)
         IN  IF x = Null THEN ""
             ELSE IF ~Head(path).all \/ Tail(path) = <<>> THEN rest[x][max]
             ELSE IF x.t # "array" THEN "type"
             ELSE IF Len(x.a) > HardCap THEN "cap"
             ELSE FirstError([k \in DOMAIN x.a |-> rest[x.a[k]][max]])
CheckArrayCapAtPath[path \in Path] ==
    [v \in Json |-> [max \in Int |-> ArrayCap(path, CheckArrayCapAtPath[Tail(path)], v, max)]]

\* One code for "type", "fraction" and "limit", unless what is no array has [*]
LimitCap(path, rest, v, max) ==
    IF path = <<>>
    THEN IF v.t \notin Numeric THEN "type"
         ELSE IF v.t = "number" THEN "fraction"
         ELSE IF v.n \notin 1..max THEN "limit" ELSE ""
    ELSE IF v.t # "object" THEN ""
    ELSE LET x == Field(v, Head(path).field)
         IN  IF x = Null THEN ""
             ELSE IF ~Head(path).all THEN rest[x][max]
             ELSE IF x.t # "array" THEN "type"
             ELSE IF Len(x.a) > HardCap THEN "cap"
             ELSE FirstError([k \in DOMAIN x.a |->
                                 IF x.a[k] = Null THEN "type" ELSE rest[x.a[k]][max]])
CheckLimitCapAtPath[path \in Path] ==
    [v \in Json |-> [max \in Int |-> LimitCap(path, CheckLimitCapAtPath[Tail(path)], v, max)]]

With(v, name, x) == Obj([n \in DOMAIN v.f \cup {name} |-> IF n = name THEN x ELSE v.f[n]])

\* Below objects that are there
InjectDefaultAtSegments(path, rest, v, default) ==
    LET name == Head(path).field
        x == Field(v, name)
        within(e) == IF e.t = "object" THEN rest[e][default] ELSE e
    IN  IF Len(path) = 1 THEN IF x = Null THEN With(v, name, Num(default)) ELSE v
        ELSE IF Head(path).all
             THEN IF x.t = "array" THEN With(v, name, Arr([k \in DOMAIN x.a |-> within(x.a[k])]))
                  ELSE v
        ELSE IF x.t = "object" THEN With(v, name, within(x)) ELSE v
InjectDefault[path \in Path \ {<<>>}] ==
    [v \in Json |-> [default \in Int |->
        InjectDefaultAtSegments(path, InjectDefault[Tail(path)], v, default)]]
-----------------------------------------------------------------------------
(* Schemas: [t, props], [t, items, nullable] for arrays, [t] *)

\* CheckUnknownToolArguments, and the validation against the compiled schema, of what
\* DecodeStrictJSON takes to be no deeper than depth.  The first does not look for unknown
\* fields in arrays of arrays, where no path leads
Fits(depth, rest, v, schema) ==
    CASE schema.t = "object" ->
            /\ depth > 0 /\ v.t = "object" /\ DOMAIN v.f \subseteq DOMAIN schema.props
            /\ \A n \in DOMAIN v.f : rest[v.f[n]][schema.props[n]]
      [] schema.t = "array" ->
            \/ v = Null /\ schema.nullable
            \/ /\ depth > 0 /\ v.t = "array"
               /\ \A k \in DOMAIN v.a : rest[v.a[k]][schema.items]
      [] schema.t = "number" -> v.t \in Numeric
      [] OTHER -> v.t = schema.t
Conforms[depth \in 0..MaxJSONDepth] ==
    [v \in Json |-> [schema \in Schemas |-> Fits(depth, Conforms[depth - 1], v, schema)]]

\* resolvePathInSchema; "none" if it does not resolve
Resolve(path, rest, schema) ==
    IF path = <<>> THEN schema.t
    ELSE IF schema.t # "object" THEN "none"
    ELSE IF Head(path).field \notin DOMAIN schema.props THEN "none"
    ELSE LET x == schema.props[Head(path).field]
         IN  IF ~Head(path).all THEN rest[x]
             ELSE IF x.t = "array" THEN rest[x.items] ELSE "none"
ResolvePath[path \in Path] ==
    [schema \in Schemas |-> Resolve(path, ResolvePath[Tail(path)], schema)]
-----------------------------------------------------------------------------
(* What a path means *)

\* All values a path leads to; where only the last field is absent, Null is one of them
Reached(path, rest, v) ==
    IF path = <<>> THEN {v}
    ELSE IF v.t # "object" THEN {}
    ELSE LET x == Field(v, Head(path).field)
         IN  IF Head(path).all
             THEN IF x.t = "array" THEN UNION {rest[x.a[k]] : k \in DOMAIN x.a} ELSE {}
             ELSE rest[x]
At[path \in Path] == [v \in Json |-> Reached(path, At[Tail(path)], v)]
=============================================================================
