---------------------------- MODULE AuthorizeProofs ----------------------------
(***************************************************************************)
(* Proofs about the guardrails, for all policies, schemas and arguments    *)
(* that the assumptions of Paths and Authorize allow: the equations of     *)
(* what recurses along a path, what a check that finds no error says of    *)
(* the arguments, the inductive invariant, and the properties.             *)
(***************************************************************************)
EXTENDS AuthorizeProperties, SequenceTheorems, FiniteSetTheorems, TLAPS
-----------------------------------------------------------------------------
(* Equations of the recursive functions *)

Length(seq) == Len(seq)
Below(path) == Tail(path)
Number(n) == n
Less(n) == n - 1
Before(seq) == Front(seq)

StringsStep(path, rest) ==
    [v \in Json |-> [optional \in BOOLEAN |-> ExtractFromSegments(path, rest, v, optional)]]
NumbersStep(path, rest) ==
    [v \in Json |-> [optional \in BOOLEAN |-> ExtractNumbersFromSegments(path, rest, v, optional)]]
ArrayCapStep(path, rest) == [v \in Json |-> [max \in Int |-> ArrayCap(path, rest, v, max)]]
LimitCapStep(path, rest) == [v \in Json |-> [max \in Int |-> LimitCap(path, rest, v, max)]]
ResolveStep(path, rest) == [schema \in Schemas |-> Resolve(path, rest, schema)]
ReachedStep(path, rest) == [v \in Json |-> Reached(path, rest, v)]
DefaultStep(path, rest) ==
    [v \in Json |-> [default \in Int |-> InjectDefaultAtSegments(path, rest, v, default)]]
FitsStep(depth, rest) == [v \in Json |-> [schema \in Schemas |-> Fits(depth, rest, v, schema)]]
InjectStep(limits, rest) == [args \in Json |-> Inject(limits, rest, args)]

Strings == INSTANCE Recursion WITH S <- Path, Rank <- Length, Rest <- Below, Step <- StringsStep
Numbers == INSTANCE Recursion WITH S <- Path, Rank <- Length, Rest <- Below, Step <- NumbersStep
ArrayCaps == INSTANCE Recursion WITH S <- Path, Rank <- Length, Rest <- Below, Step <- ArrayCapStep
LimitCaps == INSTANCE Recursion WITH S <- Path, Rank <- Length, Rest <- Below, Step <- LimitCapStep
Resolved == INSTANCE Recursion WITH S <- Path, Rank <- Length, Rest <- Below, Step <- ResolveStep
Values == INSTANCE Recursion WITH S <- Path, Rank <- Length, Rest <- Below, Step <- ReachedStep
Defaults == INSTANCE Recursion
    WITH S <- Path \ {<<>>}, Rank <- Length, Rest <- Below, Step <- DefaultStep
Fitting == INSTANCE Recursion
    WITH S <- 0..MaxJSONDepth, Rank <- Number, Rest <- Less, Step <- FitsStep
Successive == INSTANCE Recursion
    WITH S <- Seq(Limits), Rank <- Length, Rest <- Before, Step <- InjectStep

\* A path is empty, or a segment and a shorter path.
LEMMA PathParts ==
    ASSUME NEW path \in Path
    PROVE  /\ Len(path) \in Nat
           /\ path # <<>> => /\ Tail(path) \in Path /\ Len(Tail(path)) = Len(path) - 1
                             /\ Len(path) > 0 /\ Head(path) = path[1] /\ Head(path) \in Segments
<1>1. path # <<>> => Head(path) = path[1]
  OBVIOUS
<1>2. Len(path) \in Nat /\ (path # <<>> => Len(path) > 0)
  BY EmptySeq, LenProperties DEF Path
<1>3. path # <<>> => /\ Tail(path) \in Path /\ Len(Tail(path)) = Len(path) - 1
                    /\ Head(path) \in Segments
  BY HeadTailProperties DEF Path
<1>. QED
  BY <1>1, <1>2, <1>3

\* Only the empty path has no segments.
LEMMA EmptyPath == \A path \in Path : path = <<>> <=> Len(path) = 0
BY PathParts, EmptySeq

\* What holds of the empty path, and of a path if it holds of its rest, holds of all.
LEMMA PathInduction ==
    ASSUME NEW T \in SUBSET Path, <<>> \in T,
           \A path \in Path \ {<<>>} : Tail(path) \in T => path \in T
    PROVE  T = Path
<1>. DEFINE Lengths == {n \in Nat : \A path \in Path : Len(path) = n => path \in T}
<1>1. 0 \in Lengths
  BY DEF Path
<1>2. ASSUME NEW n \in Lengths PROVE n + 1 \in Lengths
  <2>. SUFFICES ASSUME NEW path \in Path, Len(path) = n + 1 PROVE path \in T
    OBVIOUS
  <2>1. path # <<>>
    OBVIOUS
  <2>2. Tail(path) \in Path /\ Len(Tail(path)) = n
    BY <2>1, PathParts
  <2>. QED
    BY <2>1, <2>2
<1>3. Lengths = Nat
  <2>. HIDE DEF Lengths
  <2>1. Lengths \in SUBSET Nat
    BY DEF Lengths
  <2>. QED
    BY <2>1, <1>1, <1>2, Strings!Induction
<1>. QED
  BY <1>3, PathParts

\* ExtractStrings, and the other walks, are what their definitions say.
LEMMA ExtractStringsEquation ==
    \A path \in Path : \A v \in Json, optional \in BOOLEAN :
        ExtractStrings[path][v][optional] =
            ExtractFromSegments(path, ExtractStrings[Tail(path)], v, optional)
<1>1. ExtractStrings = Strings!Solution
  BY DEF ExtractStrings, Strings!Solution, Strings!Body, Below, StringsStep
<1>2. ASSUME NEW p, NEW q PROVE StringsStep(<<>>, p) = StringsStep(<<>>, q)
  <2>1. ASSUME NEW v \in Json, NEW optional \in BOOLEAN
        PROVE  ExtractFromSegments(<<>>, p, v, optional) = ExtractFromSegments(<<>>, q, v, optional)
    BY DEF ExtractFromSegments
  <2>. QED
    BY <2>1 DEF StringsStep
<1>3. Strings!Descends
  BY <1>2, PathParts DEF Strings!Descends, Below, Length
<1>4. \A path \in Path : ExtractStrings[path] = StringsStep(path, ExtractStrings[Tail(path)])
  BY <1>1, <1>3, Strings!Equation DEF Below
<1>5. ASSUME NEW path \in Path, NEW v \in Json, NEW optional \in BOOLEAN
      PROVE  ExtractStrings[path][v][optional] =
                 ExtractFromSegments(path, ExtractStrings[Tail(path)], v, optional)
  <2>1. ExtractStrings[path] = StringsStep(path, ExtractStrings[Tail(path)])
    BY <1>4
  <2>. QED
    BY <2>1 DEF StringsStep
<1>. QED
  BY <1>5

LEMMA ExtractNumbersEquation ==
    \A path \in Path : \A v \in Json, optional \in BOOLEAN :
        ExtractNumbers[path][v][optional] =
            ExtractNumbersFromSegments(path, ExtractNumbers[Tail(path)], v, optional)
<1>1. ExtractNumbers = Numbers!Solution
  BY DEF ExtractNumbers, Numbers!Solution, Numbers!Body, Below, NumbersStep
<1>2. ASSUME NEW p, NEW q PROVE NumbersStep(<<>>, p) = NumbersStep(<<>>, q)
  <2>1. ASSUME NEW v \in Json, NEW optional \in BOOLEAN
        PROVE  ExtractNumbersFromSegments(<<>>, p, v, optional) =
                   ExtractNumbersFromSegments(<<>>, q, v, optional)
    BY DEF ExtractNumbersFromSegments
  <2>. QED
    BY <2>1 DEF NumbersStep
<1>3. Numbers!Descends
  BY <1>2, PathParts DEF Numbers!Descends, Below, Length
<1>4. \A path \in Path : ExtractNumbers[path] = NumbersStep(path, ExtractNumbers[Tail(path)])
  BY <1>1, <1>3, Numbers!Equation DEF Below
<1>5. ASSUME NEW path \in Path, NEW v \in Json, NEW optional \in BOOLEAN
      PROVE  ExtractNumbers[path][v][optional] =
                 ExtractNumbersFromSegments(path, ExtractNumbers[Tail(path)], v, optional)
  <2>1. ExtractNumbers[path] = NumbersStep(path, ExtractNumbers[Tail(path)])
    BY <1>4
  <2>. QED
    BY <2>1 DEF NumbersStep
<1>. QED
  BY <1>5

LEMMA CheckArrayCapAtPathEquation ==
    \A path \in Path : \A v \in Json, max \in Int :
        CheckArrayCapAtPath[path][v][max] = ArrayCap(path, CheckArrayCapAtPath[Tail(path)], v, max)
<1>1. CheckArrayCapAtPath = ArrayCaps!Solution
  BY DEF CheckArrayCapAtPath, ArrayCaps!Solution, ArrayCaps!Body, Below, ArrayCapStep
<1>2. ASSUME NEW p, NEW q PROVE ArrayCapStep(<<>>, p) = ArrayCapStep(<<>>, q)
  <2>1. ASSUME NEW v \in Json, NEW max \in Int
        PROVE  ArrayCap(<<>>, p, v, max) = ArrayCap(<<>>, q, v, max)
    BY DEF ArrayCap
  <2>. QED
    BY <2>1 DEF ArrayCapStep
<1>3. ArrayCaps!Descends
  BY <1>2, PathParts DEF ArrayCaps!Descends, Below, Length
<1>4. \A path \in Path : CheckArrayCapAtPath[path] = ArrayCapStep(path, CheckArrayCapAtPath[Tail(path)])
  BY <1>1, <1>3, ArrayCaps!Equation DEF Below
<1>5. ASSUME NEW path \in Path, NEW v \in Json, NEW max \in Int
      PROVE  CheckArrayCapAtPath[path][v][max] = ArrayCap(path, CheckArrayCapAtPath[Tail(path)], v, max)
  <2>1. CheckArrayCapAtPath[path] = ArrayCapStep(path, CheckArrayCapAtPath[Tail(path)])
    BY <1>4
  <2>. QED
    BY <2>1 DEF ArrayCapStep
<1>. QED
  BY <1>5

LEMMA CheckLimitCapAtPathEquation ==
    \A path \in Path : \A v \in Json, max \in Int :
        CheckLimitCapAtPath[path][v][max] = LimitCap(path, CheckLimitCapAtPath[Tail(path)], v, max)
<1>1. CheckLimitCapAtPath = LimitCaps!Solution
  BY DEF CheckLimitCapAtPath, LimitCaps!Solution, LimitCaps!Body, Below, LimitCapStep
<1>2. ASSUME NEW p, NEW q PROVE LimitCapStep(<<>>, p) = LimitCapStep(<<>>, q)
  <2>1. ASSUME NEW v \in Json, NEW max \in Int
        PROVE  LimitCap(<<>>, p, v, max) = LimitCap(<<>>, q, v, max)
    BY DEF LimitCap
  <2>. QED
    BY <2>1 DEF LimitCapStep
<1>3. LimitCaps!Descends
  BY <1>2, PathParts DEF LimitCaps!Descends, Below, Length
<1>4. \A path \in Path : CheckLimitCapAtPath[path] = LimitCapStep(path, CheckLimitCapAtPath[Tail(path)])
  BY <1>1, <1>3, LimitCaps!Equation DEF Below
<1>5. ASSUME NEW path \in Path, NEW v \in Json, NEW max \in Int
      PROVE  CheckLimitCapAtPath[path][v][max] = LimitCap(path, CheckLimitCapAtPath[Tail(path)], v, max)
  <2>1. CheckLimitCapAtPath[path] = LimitCapStep(path, CheckLimitCapAtPath[Tail(path)])
    BY <1>4
  <2>. QED
    BY <2>1 DEF LimitCapStep
<1>. QED
  BY <1>5

LEMMA ResolvePathEquation ==
    \A path \in Path : \A schema \in Schemas :
        ResolvePath[path][schema] = Resolve(path, ResolvePath[Tail(path)], schema)
<1>1. ResolvePath = Resolved!Solution
  BY DEF ResolvePath, Resolved!Solution, Resolved!Body, Below, ResolveStep
<1>2. ASSUME NEW p, NEW q PROVE ResolveStep(<<>>, p) = ResolveStep(<<>>, q)
  <2>1. ASSUME NEW schema \in Schemas
        PROVE  Resolve(<<>>, p, schema) = Resolve(<<>>, q, schema)
    BY DEF Resolve
  <2>. QED
    BY <2>1 DEF ResolveStep
<1>3. Resolved!Descends
  BY <1>2, PathParts DEF Resolved!Descends, Below, Length
<1>4. \A path \in Path : ResolvePath[path] = ResolveStep(path, ResolvePath[Tail(path)])
  BY <1>1, <1>3, Resolved!Equation DEF Below
<1>. QED
  BY <1>4 DEF ResolveStep

LEMMA AtEquation ==
    \A path \in Path : \A v \in Json :
        At[path][v] = Reached(path, At[Tail(path)], v)
<1>1. At = Values!Solution
  BY DEF At, Values!Solution, Values!Body, Below, ReachedStep
<1>2. ASSUME NEW p, NEW q PROVE ReachedStep(<<>>, p) = ReachedStep(<<>>, q)
  <2>1. ASSUME NEW v \in Json
        PROVE  Reached(<<>>, p, v) = Reached(<<>>, q, v)
    BY DEF Reached
  <2>. QED
    BY <2>1 DEF ReachedStep
<1>3. Values!Descends
  BY <1>2, PathParts DEF Values!Descends, Below, Length
<1>4. \A path \in Path : At[path] = ReachedStep(path, At[Tail(path)])
  BY <1>1, <1>3, Values!Equation DEF Below
<1>. QED
  BY <1>4 DEF ReachedStep

LEMMA InjectDefaultEquation ==
    \A path \in Path \ {<<>>} : \A v \in Json, default \in Int :
        InjectDefault[path][v][default] =
            InjectDefaultAtSegments(path, InjectDefault[Tail(path)], v, default)
<1>1. InjectDefault = Defaults!Solution
  BY DEF InjectDefault, Defaults!Solution, Defaults!Body, Below, DefaultStep
<1>2. ASSUME NEW path \in Path \ {<<>>}, Len(path) = 1
      PROVE  \A p, q : DefaultStep(path, p) = DefaultStep(path, q)
  <2>1. ASSUME NEW p, NEW q, NEW v \in Json, NEW default \in Int
        PROVE  InjectDefaultAtSegments(path, p, v, default) =
                   InjectDefaultAtSegments(path, q, v, default)
    BY <1>2 DEF InjectDefaultAtSegments
  <2>. QED
    BY <2>1 DEF DefaultStep
<1>3. Defaults!Descends
  <2>1. ASSUME NEW path \in Path \ {<<>>}, Len(path) # 1
        PROVE  Tail(path) \in Path \ {<<>>}
    <3>1. Tail(path) \in Path /\ Len(Tail(path)) # 0
      BY <2>1, PathParts
    <3>. QED
      BY <3>1, EmptySeq
  <2>2. ASSUME NEW path \in Path \ {<<>>}, Len(path) # 1
        PROVE  Below(path) \in Path \ {<<>>} /\ Length(Below(path)) < Length(path)
    BY <2>1, <2>2, PathParts DEF Below, Length
  <2>3. \A path \in Path \ {<<>>} : Length(path) \in Nat
    BY PathParts DEF Length
  <2>. QED
    BY <1>2, <2>2, <2>3 DEF Defaults!Descends
<1>4. \A path \in Path \ {<<>>} : InjectDefault[path] = DefaultStep(path, InjectDefault[Tail(path)])
  BY <1>1, <1>3, Defaults!Equation DEF Below
<1>5. ASSUME NEW path \in Path \ {<<>>}, NEW v \in Json, NEW default \in Int
      PROVE  InjectDefault[path][v][default] =
                 InjectDefaultAtSegments(path, InjectDefault[Tail(path)], v, default)
  <2>1. InjectDefault[path] = DefaultStep(path, InjectDefault[Tail(path)])
    BY <1>4
  <2>. QED
    BY <2>1 DEF DefaultStep
<1>. QED
  BY <1>5

LEMMA ConformsEquation ==
    \A depth \in 0..MaxJSONDepth : \A v \in Json, schema \in Schemas :
        Conforms[depth][v][schema] = Fits(depth, Conforms[depth - 1], v, schema)
<1>1. Conforms = Fitting!Solution
  BY DEF Conforms, Fitting!Solution, Fitting!Body, Less, FitsStep
<1>2. ASSUME NEW p, NEW q PROVE FitsStep(0, p) = FitsStep(0, q)
  <2>1. ASSUME NEW v \in Json, NEW schema \in Schemas
        PROVE  Fits(0, p, v, schema) = Fits(0, q, v, schema)
    <3>1. ~(0 > 0)
      OBVIOUS
    <3>. QED
      BY <3>1 DEF Fits
  <2>. QED
    BY <2>1 DEF FitsStep
<1>3. Fitting!Descends
  BY <1>2, BoundsAssumption DEF Fitting!Descends, Less, Number
<1>4. \A depth \in 0..MaxJSONDepth : Conforms[depth] = FitsStep(depth, Conforms[depth - 1])
  BY <1>1, <1>3, Fitting!Equation DEF Less
<1>5. ASSUME NEW depth \in 0..MaxJSONDepth, NEW v \in Json, NEW schema \in Schemas
      PROVE  Conforms[depth][v][schema] = Fits(depth, Conforms[depth - 1], v, schema)
  <2>1. Conforms[depth] = FitsStep(depth, Conforms[depth - 1])
    BY <1>4
  <2>. QED
    BY <2>1 DEF FitsStep
<1>. QED
  BY <1>5

\* A list that is not empty is a shorter one and a last element.
LEMMA FrontParts ==
    ASSUME NEW S, NEW seq \in Seq(S), seq # <<>>
    PROVE  /\ Front(seq) \in Seq(S) /\ Len(Front(seq)) = Len(seq) - 1
           /\ Last(seq) = seq[Len(seq)] /\ Last(seq) \in S /\ Len(seq) \in Nat /\ Len(seq) > 0
           /\ \A k \in 1..(Len(seq) - 1) : Front(seq)[k] = seq[k]
<1>1. Len(seq) \in Nat /\ Len(seq) > 0
  BY EmptySeq, LenProperties
<1>2. \A k \in 1..Len(seq) : seq[k] \in S
  BY ElementOfSeq
<1>3. Last(seq) = seq[Len(seq)] /\ Last(seq) \in S
  BY <1>1, <1>2 DEF Last
<1>4. \A k \in 1..(Len(seq) - 1) : seq[k] \in S
  BY <1>1, <1>2
<1>. DEFINE n == Len(seq) - 1
<1>5. n \in Int /\ n >= 0
  BY <1>1
<1>6. /\ SubSeq(seq, 1, n) \in Seq(S)
      /\ Len(SubSeq(seq, 1, n)) = IF 1 <= n THEN n - 1 + 1 ELSE 0
      /\ \A k \in 1 .. n - 1 + 1 : SubSeq(seq, 1, n)[k] = seq[1 + k - 1]
  <2>. HIDE DEF n
  <2>1. \A k \in 1..n : seq[k] \in S
    BY <1>4 DEF n
  <2>. QED
    BY <1>5, <2>1, SubSeqProperties
<1>7. \A k \in 1..n : SubSeq(seq, 1, n)[k] = seq[k]
  BY <1>5, <1>6
<1>8. Front(seq) = SubSeq(seq, 1, n)
  BY DEF Front
<1>9. Len(Front(seq)) = n
  <2>. HIDE DEF n
  <2>1. (IF 1 <= n THEN n - 1 + 1 ELSE 0) = n
    BY <1>5
  <2>. QED
    BY <1>6, <1>8, <2>1
<1>. QED
  BY <1>1, <1>3, <1>6, <1>7, <1>8, <1>9

\* The last default is injected into what the others leave.
LEMMA InjectedEquation ==
    \A limits \in Seq(Limits) : \A args \in Json :
        Injected[limits][args] = Inject(limits, Injected[Front(limits)], args)
<1>1. Injected = Successive!Solution
  BY DEF Injected, Successive!Solution, Successive!Body, Before, InjectStep
<1>2. \A p, q : InjectStep(<<>>, p) = InjectStep(<<>>, q)
  BY DEF Inject, InjectStep
<1>3. Successive!Descends
  <2>. HIDE DEF InjectStep
  <2>1. ASSUME NEW seq \in Seq(Limits), seq # <<>>
        PROVE  Front(seq) \in Seq(Limits) /\ Len(Front(seq)) < Len(seq)
    BY <2>1, FrontParts
  <2>2. \A seq \in Seq(Limits) : Len(seq) \in Nat
    BY LenProperties
  <2>. QED
    BY <1>2, <2>1, <2>2 DEF Successive!Descends, Before, Length
<1>4. \A limits \in Seq(Limits) : Injected[limits] = InjectStep(limits, Injected[Front(limits)])
  BY <1>1, <1>3, Successive!Equation DEF Before
<1>. QED
  BY <1>4 DEF InjectStep
-----------------------------------------------------------------------------
(* What a check that finds no error says of the arguments *)

\* What fails has an error and finds nothing; what is found has no error.
LEMMA Errors ==
    /\ \A err : Fails(err).err = err /\ Fails(err).vals = {}
    /\ \A vals : Found(vals).err = "" /\ Found(vals).vals = vals
BY DEF Fails, Found

\* The error that a loop returns is one of those it meets, or there is none.
LEMMA FirstErrorIsOne ==
    ASSUME NEW errs, DOMAIN errs \subseteq Nat
    PROVE  \/ FirstError(errs) = "" /\ \A k \in DOMAIN errs : errs[k] = ""
           \/ FirstError(errs) # "" /\ \E k \in DOMAIN errs : errs[k] = FirstError(errs)
<1>. DEFINE bad == {k \in DOMAIN errs : errs[k] # ""}
<1>1. CASE bad = {}
  BY <1>1 DEF FirstError
<1>2. CASE bad # {}
  <2>1. \E n \in bad : \A m \in bad : n <= m
    <3>. HIDE DEF bad
    <3>1. bad \in SUBSET Nat
      BY DEF bad
    <3>. QED
      BY <1>2, <3>1, Strings!LeastNatural
  <2>2. Min(bad) \in bad
    <3>. HIDE DEF bad
    <3>. QED
      BY <2>1 DEF Min
  <2>3. FirstError(errs) = errs[Min(bad)]
    BY <1>2 DEF FirstError
  <2>. QED
    BY <2>2, <2>3
<1>. QED
  BY <1>1, <1>2

\* A walk into an array that does not fail fails at none of the elements, and joins what it finds.
LEMMA NoneFails ==
    ASSUME NEW results, DOMAIN results \subseteq Nat, Joined(results).err = ""
    PROVE  /\ \A k \in DOMAIN results : results[k].err = ""
           /\ Joined(results) = Found(UNION {results[k].vals : k \in DOMAIN results})
<1>. DEFINE errs == [k \in DOMAIN results |-> results[k].err]
<1>1. FirstError(errs) = ""
  <2>. HIDE DEF errs
  <2>1. PICK found : found = Found(UNION {results[k].vals : k \in DOMAIN results})
    OBVIOUS
  <2>2. Joined(results) = IF FirstError(errs) # "" THEN Fails(FirstError(errs)) ELSE found
    BY <2>1 DEF Joined, errs
  <2>. QED
    BY <2>2, Errors
<1>2. \A k \in DOMAIN errs : errs[k] = ""
  <2>. HIDE DEF errs
  <2>1. DOMAIN errs \subseteq Nat
    BY DEF errs
  <2>. QED
    BY <1>1, <2>1, FirstErrorIsOne
<1>. QED
  BY <1>1, <1>2 DEF Joined

\* The elements of an array are JSON values.
LEMMA ArrayElements ==
    ASSUME NEW v \in Json, v.t = "array"
    PROVE  /\ v.a \in Seq(Json) /\ DOMAIN v.a = 1..Len(v.a) /\ Len(v.a) \in Nat
           /\ \A k \in DOMAIN v.a : v.a[k] \in Json
<1>1. v.a \in Seq(Json)
  BY JsonAssumption
<1>. QED
  BY <1>1, LenProperties, ElementOfSeq

\* A field of an object is a JSON value, also if it is absent.
LEMMA FieldInJson ==
    ASSUME NEW v \in Json, v.t = "object", NEW name
    PROVE  Field(v, name) \in Json
BY JsonAssumption DEF Field

LEMMA NullInJson == Null \in Json /\ Null.t = "null"
BY JsonAssumption DEF Null

\* What a path leads to, step by step
LEMMA AtHere == ASSUME NEW v \in Json PROVE At[<<>>][v] = {v}
<1>1. <<>> \in Path
  BY EmptySeq DEF Path
<1>2. At[<<>>][v] = Reached(<<>>, At[Tail(<<>>)], v)
  BY <1>1, AtEquation
<1>. QED
  BY <1>2 DEF Reached

\* What a path leads to, from an object and by its first segment.
LEMMA AtBelow ==
    ASSUME NEW path \in Path, path # <<>>, NEW v \in Json, NEW e \in At[path][v],
           NEW x, x = Field(v, Head(path).field)
    PROVE  /\ v.t = "object" /\ x \in Json
           /\ \/ ~Head(path).all /\ e \in At[Tail(path)][x]
              \/ /\ Head(path).all /\ x.t = "array" /\ x # Null
                 /\ \E k \in DOMAIN x.a : x.a[k] \in Json /\ e \in At[Tail(path)][x.a[k]]
<1>1. At[path][v] = Reached(path, At[Tail(path)], v)
  BY AtEquation
<1>2. v.t = "object"
  BY <1>1 DEF Reached
<1>3. x \in Json
  BY <1>2, FieldInJson
<1>4. CASE ~Head(path).all
  BY <1>1, <1>2, <1>3, <1>4 DEF Reached
<1>5. CASE Head(path).all
  <2>1. e \in IF x.t = "array" THEN UNION {At[Tail(path)][x.a[k]] : k \in DOMAIN x.a} ELSE {}
    BY <1>1, <1>2, <1>5 DEF Reached
  <2>2. x.t = "array" /\ \E k \in DOMAIN x.a : e \in At[Tail(path)][x.a[k]]
    BY <2>1
  <2>. QED
    BY <1>2, <1>3, <1>5, <2>2, ArrayElements, NullInJson
<1>. QED
  BY <1>4, <1>5

\* Null leads to nothing but itself.
LEMMA AtNull == \A path \in Path : At[path][Null] \subseteq {Null}
BY AtHere, AtBelow, NullInJson

\* A walk without error has found every string that the path leads to; what else is there is
\* null.
LEMMA StringsFound ==
    \A path \in Path : \A v \in Json, optional \in BOOLEAN :
        ExtractStrings[path][v][optional].err = "" =>
            \A x \in At[path][v] \ {Null} :
                x.t = "string" /\ x.s \in ExtractStrings[path][v][optional].vals
<1>. DEFINE Finds(path) == \A v \in Json, optional \in BOOLEAN :
        ExtractStrings[path][v][optional].err = "" =>
            \A x \in At[path][v] \ {Null} :
                x.t = "string" /\ x.s \in ExtractStrings[path][v][optional].vals
            T == {path \in Path : Finds(path)}
<1>1. <<>> \in T
  <2>1. <<>> \in Path
    BY EmptySeq DEF Path
  <2>2. ASSUME NEW v \in Json, NEW optional \in BOOLEAN, ExtractStrings[<<>>][v][optional].err = ""
        PROVE  v.t = "string" /\ v.s \in ExtractStrings[<<>>][v][optional].vals
    <3>1. ExtractStrings[<<>>][v][optional] =
              ExtractFromSegments(<<>>, ExtractStrings[Tail(<<>>)], v, optional)
      BY <2>1, ExtractStringsEquation
    <3>2. ExtractStrings[<<>>][v][optional] =
              IF v.t # "string" THEN Fails("type")
              ELSE IF v.s.id = "" THEN Fails("missing") ELSE Found({v.s})
      BY <3>1 DEF ExtractFromSegments
    <3>3. v.t = "string" /\ ExtractStrings[<<>>][v][optional] = Found({v.s})
      BY <2>2, <3>2, Errors
    <3>4. Found({v.s}).vals = {v.s}
      BY Errors
    <3>. QED
      BY <3>3, <3>4
  <2>3. ASSUME NEW v \in Json, NEW optional \in BOOLEAN,
               ExtractStrings[<<>>][v][optional].err = "", NEW x \in At[<<>>][v] \ {Null}
        PROVE  x.t = "string" /\ x.s \in ExtractStrings[<<>>][v][optional].vals
    <3>1. x = v
      BY <2>3, AtHere
    <3>. QED
      BY <2>2, <2>3, <3>1
  <2>4. Finds(<<>>)
    BY <2>3
  <2>. QED
    BY <2>1, <2>4
<1>2. ASSUME NEW path \in Path \ {<<>>}, Tail(path) \in T PROVE path \in T
  <2>1. Finds(Tail(path)) /\ Tail(path) \in Path
    BY <1>2
  <2>. HIDE DEF Finds
  <2>2. ASSUME NEW v \in Json, NEW optional \in BOOLEAN,
               ExtractStrings[path][v][optional].err = "",
               NEW e \in At[path][v] \ {Null}
        PROVE  e.t = "string" /\ e.s \in ExtractStrings[path][v][optional].vals
    <3>1. PICK x : x = Field(v, Head(path).field)
      OBVIOUS
    <3>2. PICK rest : rest = ExtractStrings[Tail(path)]
      OBVIOUS
    <3>. DEFINE results == [k \in DOMAIN x.a |-> IF x.a[k] = Null THEN Fails("missing")
                                                ELSE rest[x.a[k]][FALSE]]
    <3>3. ExtractStrings[path][v][optional] = ExtractFromSegments(path, rest, v, optional)
      BY <3>2, ExtractStringsEquation
    <3>4. v.t = "object" /\ x \in Json
      BY <3>1, AtBelow
    <3>5. CASE ~Head(path).all
      <4>1. e \in At[Tail(path)][x]
        BY <3>1, <3>5, AtBelow
      <4>2. x # Null
        BY <2>1, <2>2, <4>1, AtNull
      <4>3. ExtractStrings[path][v][optional] = rest[x][optional]
        BY <3>1, <3>3, <3>4, <3>5, <4>2 DEF ExtractFromSegments
      <4>. QED
        BY <2>1, <2>2, <3>2, <3>4, <4>1, <4>3 DEF Finds
    <3>6. CASE Head(path).all
      <4>1. x.t = "array" /\ x # Null
        BY <3>1, <3>6, AtBelow
      <4>2. PICK k \in DOMAIN x.a : x.a[k] \in Json /\ e \in At[Tail(path)][x.a[k]]
        BY <3>1, <3>6, AtBelow
      <4>3. ExtractStrings[path][v][optional] =
                IF x.a = <<>> THEN Fails("missing")
                ELSE IF Len(x.a) > HardCap THEN Fails("cap")
                ELSE Joined(results)
        BY <3>1, <3>3, <3>4, <3>6, <4>1 DEF ExtractFromSegments
      <4>. HIDE DEF results
      <4>4. ExtractStrings[path][v][optional] = Joined(results) /\ Joined(results).err = ""
        BY <2>2, <4>3, Errors
      <4>5. /\ DOMAIN results = DOMAIN x.a
            /\ results[k] = IF x.a[k] = Null THEN Fails("missing") ELSE rest[x.a[k]][FALSE]
        BY DEF results
      <4>a. DOMAIN x.a \subseteq Nat
        BY <3>4, <4>1, ArrayElements
      <4>6. /\ results[k].err = ""
            /\ Joined(results) = Found(UNION {results[i].vals : i \in DOMAIN results})
        BY <4>4, <4>5, <4>a, NoneFails
      <4>7. x.a[k] # Null /\ results[k] = rest[x.a[k]][FALSE]
        BY <4>5, <4>6, Errors
      <4>8. e.t = "string" /\ e.s \in results[k].vals
        BY <2>1, <3>2, <4>2, <4>6, <4>7 DEF Finds
      <4>9. e.s \in Joined(results).vals
        <5>1. e.s \in UNION {results[i].vals : i \in DOMAIN results}
          BY <4>5, <4>8
        <5>. QED
          BY <4>6, <5>1, Errors
      <4>. QED
        BY <4>4, <4>8, <4>9
    <3>. QED
      BY <3>5, <3>6
  <2>. QED
    BY <2>2 DEF Finds
<1>3. T = Path
  <2>. HIDE DEF Finds
  <2>1. T \in SUBSET Path
    OBVIOUS
  <2>. HIDE DEF T
  <2>. QED
    BY <1>1, <1>2, <2>1, PathInduction
<1>. QED
  BY <1>3

\* The path to the array that a cap is about, step by step
LEMMA CappedParts ==
    ASSUME NEW path \in Path, path # <<>>
    PROVE  /\ Capped(path) \in Path /\ Capped(path) # <<>>
           /\ Head(Capped(path)).field = Head(path).field
           /\ Tail(path) = <<>> => ~Head(Capped(path)).all /\ Tail(Capped(path)) = <<>>
           /\ Tail(path) # <<>> => /\ Head(Capped(path)) = Head(path)
                                   /\ Tail(Capped(path)) = Capped(Tail(path))
<1>. DEFINE n == Len(path)
            segment == [path[n] EXCEPT !.all = FALSE]
<1>1. n \in Nat /\ n > 0 /\ DOMAIN path = 1..n /\ path \in Seq(Segments)
  BY PathParts, LenProperties DEF Path
<1>2. path[n] \in Segments
  BY <1>1, ElementOfSeq
<1>3. segment \in Segments /\ segment.field = path[n].field /\ ~segment.all
  BY <1>2 DEF Segments
<1>4. Capped(path) = [path EXCEPT ![n] = segment]
  BY DEF Capped
<1>. HIDE DEF segment
<1>5. /\ Capped(path) \in Path /\ Len(Capped(path)) = n
      /\ \A k \in 1..n : Capped(path)[k] = IF k = n THEN segment ELSE path[k]
  BY <1>1, <1>3, <1>4, ExceptSeq DEF Path
<1>6. Capped(path) # <<>> /\ Head(Capped(path)) = IF n = 1 THEN segment ELSE path[1]
  <2>1. Capped(path) # <<>>
    BY <1>1, <1>5, EmptySeq
  <2>2. Head(Capped(path)) = Capped(path)[1]
    BY <1>5, <2>1, PathParts
  <2>3. 1 \in 1..n
    BY <1>1
  <2>. QED
    BY <1>5, <2>1, <2>2, <2>3
<1>7. Head(path) = path[1] /\ Tail(path) \in Path /\ Len(Tail(path)) = n - 1
      /\ \A k \in 1..(n - 1) : Tail(path)[k] = path[k + 1]
  BY <1>1, PathParts, HeadTailProperties DEF Path
<1>8. /\ Tail(Capped(path)) \in Path /\ Len(Tail(Capped(path))) = n - 1
      /\ \A k \in 1..(n - 1) : Tail(Capped(path))[k] = Capped(path)[k + 1]
  BY <1>5, <1>6, HeadTailProperties DEF Path
<1>9. CASE Tail(path) = <<>>
  <2>1. n = 1
    BY <1>1, <1>7, <1>9, EmptySeq
  <2>2. Tail(Capped(path)) = <<>>
    <3>1. PICK rest : rest = Tail(Capped(path))
      OBVIOUS
    <3>2. rest \in Path /\ Len(rest) = 0
      BY <1>8, <2>1, <3>1
    <3>3. rest = <<>>
      BY <3>2, EmptyPath
    <3>. QED
      BY <3>1, <3>3
  <2>. QED
    BY <1>3, <1>5, <1>6, <1>7, <1>9, <2>1, <2>2
<1>10. CASE Tail(path) # <<>>
  <2>1. n > 1
    BY <1>1, <1>7, <1>10, EmptySeq DEF Path
  <2>2. Capped(Tail(path)) = [Tail(path) EXCEPT ![n - 1] = segment]
    <3>1. Tail(path)[n - 1] = path[n]
      BY <1>1, <1>7, <2>1
    <3>. QED
      BY <1>7, <3>1 DEF Capped, segment
  <2>a. Tail(path) \in Seq(Segments) /\ n - 1 \in 1..Len(Tail(path))
    BY <1>1, <1>7, <2>1 DEF Path
  <2>3. /\ Capped(Tail(path)) \in Path /\ Len(Capped(Tail(path))) = n - 1
        /\ \A k \in 1..(n - 1) : Capped(Tail(path))[k] = IF k = n - 1 THEN segment ELSE Tail(path)[k]
    <3>1. PICK rest : rest = Tail(path)
      OBVIOUS
    <3>2. PICK last : last = [rest EXCEPT ![n - 1] = segment]
      OBVIOUS
    <3>3. rest \in Seq(Segments) /\ n - 1 \in 1..Len(rest) /\ Len(rest) = n - 1
      BY <1>7, <2>a, <3>1
    <3>4. /\ last \in Seq(Segments) /\ Len(last) = n - 1
          /\ \A k \in 1..(n - 1) : last[k] = IF k = n - 1 THEN segment ELSE rest[k]
      BY <1>3, <3>2, <3>3, ExceptSeq
    <3>. QED
      BY <2>2, <3>1, <3>2, <3>4 DEF Path
  <2>4. \A k \in 1..(n - 1) : Tail(Capped(path))[k] = Capped(Tail(path))[k]
    <3>1. ASSUME NEW k \in 1..(n - 1)
          PROVE  k \in 1..n /\ k + 1 \in 1..n /\ (k + 1 = n <=> k = n - 1)
      BY <1>1
    <3>. QED
      BY <1>5, <1>7, <1>8, <2>3, <3>1
  <2>5. Tail(Capped(path)) = Capped(Tail(path))
    BY <1>8, <2>3, <2>4, SeqEqual DEF Path
  <2>. QED
    BY <1>5, <1>6, <1>7, <1>10, <2>1, <2>5
<1>. QED
  BY <1>9, <1>10

\* No array at the end of a path is longer than its cap.
LEMMA CapsHold ==
    \A path \in Path : path # <<>> => \A v \in Json, max \in Int :
        CheckArrayCapAtPath[path][v][max] = "" =>
            \A e \in At[Capped(path)][v] \ {Null} : e.t = "array" /\ Len(e.a) <= max
<1>. DEFINE Holds(path) == path # <<>> => \A v \in Json, max \in Int :
        CheckArrayCapAtPath[path][v][max] = "" =>
            \A e \in At[Capped(path)][v] \ {Null} : e.t = "array" /\ Len(e.a) <= max
            T == {path \in Path : Holds(path)}
<1>1. <<>> \in T
  <2>1. <<>> \in Path
    BY EmptySeq DEF Path
  <2>2. Holds(<<>>)
    OBVIOUS
  <2>. QED
    BY <2>1, <2>2
<1>2. ASSUME NEW path \in Path \ {<<>>}, Tail(path) \in T PROVE path \in T
  <2>1. Holds(Tail(path)) /\ Tail(path) \in Path
    BY <1>2
  <2>. HIDE DEF Holds
  <2>2. ASSUME NEW v \in Json, NEW max \in Int, CheckArrayCapAtPath[path][v][max] = "",
               NEW e \in At[Capped(path)][v] \ {Null}
        PROVE  e.t = "array" /\ Len(e.a) <= max
    <3>1. PICK x : x = Field(v, Head(path).field)
      OBVIOUS
    <3>2. PICK rest : rest = CheckArrayCapAtPath[Tail(path)]
      OBVIOUS
    <3>3. CheckArrayCapAtPath[path][v][max] = ArrayCap(path, rest, v, max)
      BY <3>2, CheckArrayCapAtPathEquation
    <3>4. v.t = "object" /\ x \in Json /\ Capped(path) \in Path
      BY <3>1, AtBelow, CappedParts
    <3>a. Capped(path) # <<>> /\ x = Field(v, Head(Capped(path)).field)
      BY <3>1, CappedParts
    <3>5. CASE Tail(path) = <<>>
      <4>1. e \in At[<<>>][x]
        BY <3>1, <3>5, AtBelow, CappedParts
      <4>2. e = x /\ x # Null
        BY <3>4, <4>1, AtHere
      <4>3. rest[x][max] = ""
        BY <2>2, <3>1, <3>3, <3>4, <3>5, <4>2 DEF ArrayCap
      <4>4. rest[x][max] = ArrayCap(<<>>, CheckArrayCapAtPath[Tail(<<>>)], x, max)
        BY <2>1, <3>2, <3>4, <3>5, CheckArrayCapAtPathEquation
      <4>5. x.t = "array" /\ ~(Len(x.a) > max)
        BY <4>3, <4>4 DEF ArrayCap
      <4>. QED
        BY <3>4, <4>2, <4>5, ArrayElements
    <3>6. CASE Tail(path) # <<>> /\ ~Head(path).all
      <4>a. ~Head(Capped(path)).all /\ Tail(Capped(path)) = Capped(Tail(path))
        BY <3>6, CappedParts
      <4>1. e \in At[Capped(Tail(path))][x]
        BY <3>4, <3>a, <4>a, AtBelow
      <4>2. x # Null
        BY <2>1, <2>2, <3>6, <4>1, AtNull, CappedParts
      <4>3. rest[x][max] = ""
        BY <2>2, <3>1, <3>3, <3>4, <3>6, <4>2 DEF ArrayCap
      <4>. QED
        BY <2>1, <2>2, <3>2, <3>4, <3>6, <4>1, <4>3 DEF Holds
    <3>7. CASE Tail(path) # <<>> /\ Head(path).all
      <4>a. Head(Capped(path)).all /\ Tail(Capped(path)) = Capped(Tail(path))
        BY <3>7, CappedParts
      <4>1. x.t = "array" /\ x # Null
        BY <3>4, <3>a, <4>a, AtBelow
      <4>2. PICK k \in DOMAIN x.a : x.a[k] \in Json /\ e \in At[Capped(Tail(path))][x.a[k]]
        BY <3>4, <3>a, <4>a, AtBelow
      <4>. DEFINE errs == [i \in DOMAIN x.a |-> rest[x.a[i]][max]]
      <4>3. CheckArrayCapAtPath[path][v][max] = IF Len(x.a) > HardCap THEN "cap" ELSE FirstError(errs)
        BY <3>1, <3>3, <3>4, <3>7, <4>1 DEF ArrayCap
      <4>4. DOMAIN errs = DOMAIN x.a /\ errs[k] = rest[x.a[k]][max]
        BY DEF errs
      <4>. HIDE DEF errs
      <4>5. DOMAIN errs \subseteq Nat
        BY <3>4, <4>1, <4>4, ArrayElements
      <4>6. errs[k] = ""
        BY <2>2, <4>3, <4>4, <4>5, FirstErrorIsOne
      <4>. QED
        BY <2>1, <2>2, <3>2, <3>7, <4>2, <4>4, <4>6 DEF Holds
    <3>. QED
      BY <3>5, <3>6, <3>7
  <2>. QED
    BY <2>2 DEF Holds
<1>3. T = Path
  <2>. HIDE DEF Holds
  <2>1. T \in SUBSET Path
    OBVIOUS
  <2>. HIDE DEF T
  <2>. QED
    BY <1>1, <1>2, <2>1, PathInduction
<1>. QED
  BY <1>3

\* The last segment of a path is that of the rest of it, if there is a rest.
LEMMA LastSegment ==
    ASSUME NEW path \in Path, path # <<>>
    PROVE  /\ Tail(path) = <<>> => path[Len(path)] = Head(path)
           /\ Tail(path) # <<>> => path[Len(path)] = Tail(path)[Len(Tail(path))]
<1>1. /\ Len(path) \in Nat /\ Len(path) > 0 /\ Head(path) = path[1]
      /\ Tail(path) \in Path /\ Len(Tail(path)) = Len(path) - 1
  BY PathParts
<1>2. \A k \in 1..Len(Tail(path)) : Tail(path)[k] = path[k + 1]
  BY HeadTailProperties DEF Path
<1>3. (Tail(path) = <<>> => Len(path) = 1) /\ (Tail(path) # <<>> => Len(path) - 1 > 0)
  <2>1. PICK rest : rest = Tail(path)
    OBVIOUS
  <2>2. rest = <<>> <=> Len(rest) = 0
    BY <1>1, <2>1, EmptyPath
  <2>. QED
    BY <1>1, <2>1, <2>2
<1>4. Tail(path) # <<>> => Len(path) - 1 \in 1..Len(Tail(path))
  BY <1>1, <1>3
<1>. QED
  BY <1>1, <1>2, <1>3, <1>4

\* Whether the last segment is a field, whose absence At takes for Null
EndsInField(path) == path # <<>> /\ ~path[Len(path)].all

\* Whatever a limit finds is in its bounds, unless the last field is absent.
LEMMA LimitsInBounds ==
    \A path \in Path : \A v \in Json, max \in Int : CheckLimitCapAtPath[path][v][max] = "" =>
        \A e \in At[path][v] :
                (e.t = "integer" /\ e.n \in 1..max) \/ (e = Null /\ EndsInField(path))
<1>. DEFINE Holds(path) == \A v \in Json, max \in Int : CheckLimitCapAtPath[path][v][max] = "" =>
        \A e \in At[path][v] :
                (e.t = "integer" /\ e.n \in 1..max) \/ (e = Null /\ EndsInField(path))
            T == {path \in Path : Holds(path)}
<1>1. <<>> \in T
  <2>1. <<>> \in Path
    BY EmptySeq DEF Path
  <2>2. ASSUME NEW v \in Json, NEW max \in Int, CheckLimitCapAtPath[<<>>][v][max] = ""
        PROVE  v.t = "integer" /\ v.n \in 1..max
    <3>1. CheckLimitCapAtPath[<<>>][v][max] = LimitCap(<<>>, CheckLimitCapAtPath[Tail(<<>>)], v, max)
      BY <2>1, CheckLimitCapAtPathEquation
    <3>. QED
      BY <2>2, <3>1 DEF LimitCap, Numeric
  <2>3. ASSUME NEW v \in Json, NEW max \in Int, CheckLimitCapAtPath[<<>>][v][max] = "",
               NEW e \in At[<<>>][v]
        PROVE  e.t = "integer" /\ e.n \in 1..max
    BY <2>2, <2>3, AtHere
  <2>4. Holds(<<>>)
    BY <2>3
  <2>. QED
    BY <2>1, <2>4
<1>2. ASSUME NEW path \in Path \ {<<>>}, Tail(path) \in T PROVE path \in T
  <2>1. Holds(Tail(path)) /\ Tail(path) \in Path
    BY <1>2
  <2>. HIDE DEF Holds
  <2>2. ASSUME NEW v \in Json, NEW max \in Int, CheckLimitCapAtPath[path][v][max] = "",
               NEW e \in At[path][v]
        PROVE  \/ e.t = "integer" /\ e.n \in 1..max
               \/ e = Null /\ EndsInField(path)
    <3>1. PICK x : x = Field(v, Head(path).field)
      OBVIOUS
    <3>2. PICK rest : rest = CheckLimitCapAtPath[Tail(path)]
      OBVIOUS
    <3>3. CheckLimitCapAtPath[path][v][max] = LimitCap(path, rest, v, max)
      BY <3>2, CheckLimitCapAtPathEquation
    <3>4. v.t = "object" /\ x \in Json
      BY <3>1, AtBelow
    <3>5. /\ Tail(path) = <<>> => (EndsInField(path) <=> ~Head(path).all)
          /\ EndsInField(Tail(path)) => EndsInField(path)
      BY LastSegment DEF EndsInField
    <3>6. CASE ~Head(path).all
      <4>1. e \in At[Tail(path)][x]
        BY <3>1, <3>6, AtBelow
      <4>2. CASE x = Null
        <5>1. Tail(path) = <<>>
          BY <2>1, <4>1, <4>2, AtBelow, NullInJson
        <5>2. e = Null
          BY <4>1, <4>2, <5>1, AtHere, NullInJson
        <5>. QED
          BY <3>5, <3>6, <5>1, <5>2
      <4>3. CASE x # Null
        <5>1. rest[x][max] = ""
          BY <2>2, <3>1, <3>3, <3>4, <3>6, <4>3 DEF LimitCap
        <5>. QED
          BY <2>1, <3>2, <3>4, <3>5, <4>1, <5>1 DEF Holds
      <4>. QED
        BY <4>2, <4>3
    <3>7. CASE Head(path).all
      <4>1. x.t = "array" /\ x # Null
        BY <3>1, <3>7, AtBelow
      <4>2. PICK k \in DOMAIN x.a : x.a[k] \in Json /\ e \in At[Tail(path)][x.a[k]]
        BY <3>1, <3>7, AtBelow
      <4>. DEFINE errs == [i \in DOMAIN x.a |-> IF x.a[i] = Null THEN "type" ELSE rest[x.a[i]][max]]
      <4>3. CheckLimitCapAtPath[path][v][max] = IF Len(x.a) > HardCap THEN "cap" ELSE FirstError(errs)
        BY <3>1, <3>3, <3>4, <3>7, <4>1 DEF LimitCap
      <4>4. DOMAIN errs = DOMAIN x.a /\ errs[k] = IF x.a[k] = Null THEN "type" ELSE rest[x.a[k]][max]
        BY DEF errs
      <4>. HIDE DEF errs
      <4>5. DOMAIN errs \subseteq Nat
        BY <3>4, <4>1, <4>4, ArrayElements
      <4>6. errs[k] = ""
        BY <2>2, <4>3, <4>4, <4>5, FirstErrorIsOne
      <4>7. rest[x.a[k]][max] = ""
        BY <4>4, <4>6
      <4>. QED
        BY <2>1, <2>2, <3>2, <3>5, <3>7, <4>2, <4>7 DEF Holds
    <3>. QED
      BY <3>6, <3>7
  <2>3. Holds(path)
    BY <2>2 DEF Holds
  <2>. QED
    BY <2>3
<1>3. T = Path
  <2>. HIDE DEF Holds
  <2>1. T \in SUBSET Path
    OBVIOUS
  <2>. HIDE DEF T
  <2>. QED
    BY <1>1, <1>2, <2>1, PathInduction
<1>. QED
  BY <1>3

-----------------------------------------------------------------------------
(* What conforms to a schema in which a path resolves is not of another type *)

\* An error that a walk meets at no element of an array is not that of the whole.
LEMMA NotJoined ==
    ASSUME NEW results, DOMAIN results \subseteq Nat, NEW err, err # "",
           \A k \in DOMAIN results : results[k].err # err
    PROVE  Joined(results).err # err
<1>. DEFINE errs == [k \in DOMAIN results |-> results[k].err]
<1>1. DOMAIN errs = DOMAIN results /\ \A k \in DOMAIN errs : errs[k] # err
  OBVIOUS
<1>2. PICK found : found = UNION {results[k].vals : k \in DOMAIN results}
  OBVIOUS
<1>3. Joined(results) = IF FirstError(errs) # "" THEN Fails(FirstError(errs)) ELSE Found(found)
  BY <1>2 DEF Joined
<1>. HIDE DEF errs
<1>4. FirstError(errs) # err
  BY <1>1, FirstErrorIsOne
<1>. QED
  BY <1>3, <1>4, Errors

\* The schema behind a segment
Child(segment, schema) ==
    IF segment.all THEN schema.props[segment.field].items ELSE schema.props[segment.field]

\* A field of conforming arguments conforms to the schema that the path leads to.
LEMMA ConformsBelow ==
    ASSUME NEW path \in Path, path # <<>>, NEW depth \in 0..MaxJSONDepth,
           NEW v \in Json, NEW schema \in Schemas, Conforms[depth][v][schema],
           ResolvePath[path][schema] # "none",
           NEW x, x = Field(v, Head(path).field),
           NEW child, child = Child(Head(path), schema)
    PROVE  /\ v.t = "object" /\ x \in Json /\ child \in Schemas /\ depth - 1 \in 0..MaxJSONDepth
           /\ ResolvePath[Tail(path)][child] = ResolvePath[path][schema]
           /\ x # Null /\ ~Head(path).all => Conforms[depth - 1][x][child]
           /\ Head(path).all => \E sub \in Schemas :
                  /\ sub.t = "array" /\ child = sub.items
                  /\ x # Null => Conforms[depth - 1][x][sub]
<1>. DEFINE name == Head(path).field
            sub == schema.props[name]
<1>1. ResolvePath[path][schema] = Resolve(path, ResolvePath[Tail(path)], schema)
  BY ResolvePathEquation
<1>2. schema.t = "object" /\ name \in DOMAIN schema.props /\ sub \in Schemas
  BY <1>1, SchemasAssumption DEF Resolve
<1>3. /\ ~Head(path).all => ResolvePath[Tail(path)][sub] = ResolvePath[path][schema]
      /\ Head(path).all => sub.t = "array" /\ ResolvePath[Tail(path)][sub.items] = ResolvePath[path][schema]
  BY <1>1, <1>2 DEF Resolve
<1>4. /\ depth > 0 /\ v.t = "object"
      /\ \A n \in DOMAIN v.f : Conforms[depth - 1][v.f[n]][schema.props[n]]
  <2>1. Conforms[depth][v][schema] = Fits(depth, Conforms[depth - 1], v, schema)
    BY ConformsEquation
  <2>. QED
    BY <1>2, <2>1 DEF Fits
<1>5. x \in Json
  BY <1>4, FieldInJson
<1>6. depth - 1 \in 0..MaxJSONDepth
  BY <1>4, BoundsAssumption
<1>7. ASSUME x # Null PROVE Conforms[depth - 1][x][sub]
  BY <1>4, <1>7 DEF Field
<1>8. CASE ~Head(path).all
  BY <1>2, <1>3, <1>4, <1>5, <1>6, <1>7, <1>8 DEF Child
<1>9. CASE Head(path).all
  <2>1. child = sub.items /\ child \in Schemas
    BY <1>2, <1>3, <1>9, SchemasAssumption DEF Child
  <2>. QED
    BY <1>2, <1>3, <1>4, <1>5, <1>6, <1>7, <1>9, <2>1
<1>. QED
  BY <1>8, <1>9

\* So do the elements of an array, two levels down.
LEMMA ConformsWithin ==
    ASSUME NEW path \in Path, path # <<>>, NEW depth \in 0..MaxJSONDepth,
           NEW v \in Json, NEW schema \in Schemas, Conforms[depth][v][schema],
           ResolvePath[path][schema] # "none", Head(path).all,
           NEW x, x = Field(v, Head(path).field), x # Null,
           NEW child, child = Child(Head(path), schema)
    PROVE  /\ x.t = "array"
           /\ \E d \in 0..MaxJSONDepth : \A k \in DOMAIN x.a : Conforms[d][x.a[k]][child]
<1>2. x \in Json /\ depth - 1 \in 0..MaxJSONDepth
  BY ConformsBelow
<1>3. PICK sub \in Schemas : sub.t = "array" /\ child = sub.items /\ Conforms[depth - 1][x][sub]
  BY ConformsBelow
<1>4. (depth - 1) - 1 = depth - 2
  OBVIOUS
<1>5. Conforms[depth - 1][x][sub] = Fits(depth - 1, Conforms[depth - 2], x, sub)
  BY <1>2, <1>4, ConformsEquation
<1>6. /\ depth - 1 > 0 /\ x.t = "array"
      /\ \A k \in DOMAIN x.a : Conforms[depth - 2][x.a[k]][sub.items]
  BY <1>3, <1>5 DEF Fits
<1>7. depth - 2 \in 0..MaxJSONDepth
  <2>1. depth - 1 > 0
    BY <1>6
  <2>. QED
    BY <2>1, BoundsAssumption
<1>. QED
  BY <1>3, <1>6, <1>7

\* An empty path resolves to the type of the schema it starts from.
LEMMA ResolveHere == \A schema \in Schemas : ResolvePath[<<>>][schema] = schema.t
<1>. SUFFICES ASSUME NEW schema \in Schemas PROVE ResolvePath[<<>>][schema] = schema.t
  OBVIOUS
<1>1. <<>> \in Path
  BY EmptySeq DEF Path
<1>2. ResolvePath[<<>>][schema] = Resolve(<<>>, ResolvePath[Tail(<<>>)], schema)
  BY <1>1, ResolvePathEquation
<1>. QED
  BY <1>2 DEF Resolve

\* A conforming value has the type of its schema, or is null where an array may be.
LEMMA ConformsHere ==
    ASSUME NEW depth \in 0..MaxJSONDepth, NEW v \in Json, NEW schema \in Schemas,
           Conforms[depth][v][schema]
    PROVE  /\ schema.t = "array" => v = Null \/ v.t = "array"
           /\ schema.t \in {"string", "integer"} => v.t = schema.t
           /\ schema.t = "number" => v.t \in Numeric
<1>1. Conforms[depth][v][schema] = Fits(depth, Conforms[depth - 1], v, schema)
  BY ConformsEquation
<1>. QED
  BY <1>1 DEF Fits

\* No conforming arguments make a binding that resolves to strings find another type.
LEMMA StringsAreStrings ==
    \A path \in Path : \A depth \in 0..MaxJSONDepth, v \in Json, schema \in Schemas, optional \in BOOLEAN :
        Conforms[depth][v][schema] /\ ResolvePath[path][schema] = "string" =>
            ExtractStrings[path][v][optional].err # "type"
<1>. DEFINE Holds(path) == \A depth \in 0..MaxJSONDepth, v \in Json, schema \in Schemas, optional \in BOOLEAN :
        Conforms[depth][v][schema] /\ ResolvePath[path][schema] = "string" =>
            ExtractStrings[path][v][optional].err # "type"
            T == {path \in Path : Holds(path)}
<1>1. <<>> \in T
  <2>1. <<>> \in Path
    BY EmptySeq DEF Path
  <2>2. ASSUME NEW depth \in 0..MaxJSONDepth, NEW v \in Json, NEW schema \in Schemas,
               NEW optional \in BOOLEAN,
               Conforms[depth][v][schema], ResolvePath[<<>>][schema] = "string"
        PROVE  ExtractStrings[<<>>][v][optional].err # "type"
    <3>1. ExtractStrings[<<>>][v][optional] =
              ExtractFromSegments(<<>>, ExtractStrings[Tail(<<>>)], v, optional)
      BY <2>1, ExtractStringsEquation
    <3>2. ExtractStrings[<<>>][v][optional] =
              IF v.t # "string" THEN Fails("type")
              ELSE IF v.s.id = "" THEN Fails("missing") ELSE Found({v.s})
      BY <3>1 DEF ExtractFromSegments
    <3>3. v.t = "string"
      <4>1. schema.t = "string"
        BY <2>2, ResolveHere
      <4>. QED
        BY <2>2, <4>1, ConformsHere
    <3>. QED
      BY <3>2, <3>3, Errors
  <2>3. Holds(<<>>)
    BY <2>2
  <2>. QED
    BY <2>1, <2>3
<1>2. ASSUME NEW path \in Path \ {<<>>}, Tail(path) \in T PROVE path \in T
  <2>1. Holds(Tail(path)) /\ Tail(path) \in Path
    BY <1>2
  <2>. HIDE DEF Holds
  <2>2. ASSUME NEW depth \in 0..MaxJSONDepth, NEW v \in Json, NEW schema \in Schemas,
               NEW optional \in BOOLEAN,
               Conforms[depth][v][schema], ResolvePath[path][schema] = "string"
        PROVE  ExtractStrings[path][v][optional].err # "type"
    <3>1. PICK x : x = Field(v, Head(path).field)
      OBVIOUS
    <3>2. PICK rest : rest = ExtractStrings[Tail(path)]
      OBVIOUS
    <3>3. ExtractStrings[path][v][optional] = ExtractFromSegments(path, rest, v, optional)
      BY <3>2, ExtractStringsEquation
    <3>a. PICK child : child = Child(Head(path), schema)
      OBVIOUS
    <3>4. ResolvePath[path][schema] # "none"
      BY <2>2
    <3>b. /\ v.t = "object" /\ x \in Json /\ child \in Schemas
          /\ ResolvePath[Tail(path)][child] = ResolvePath[path][schema]
      BY <2>2, <3>1, <3>a, <3>4, ConformsBelow
    <3>5. CASE x = Null
      <4>1. ExtractStrings[path][v][optional] = IF optional THEN Found({}) ELSE Fails("missing")
        BY <3>1, <3>3, <3>b, <3>5 DEF ExtractFromSegments
      <4>. QED
        BY <4>1, Errors
    <3>6. CASE x # Null /\ ~Head(path).all
      <4>1. depth - 1 \in 0..MaxJSONDepth /\ Conforms[depth - 1][x][child]
        BY <2>2, <3>1, <3>a, <3>4, <3>6, ConformsBelow
      <4>2. ExtractStrings[path][v][optional] = rest[x][optional]
        BY <3>1, <3>3, <3>b, <3>6 DEF ExtractFromSegments
      <4>. QED
        BY <2>1, <2>2, <3>2, <3>b, <4>1, <4>2 DEF Holds
    <3>7. CASE x # Null /\ Head(path).all
      <4>1. PICK d \in 0..MaxJSONDepth :
                x.t = "array" /\ \A k \in DOMAIN x.a : Conforms[d][x.a[k]][child]
        BY <2>2, <3>1, <3>a, <3>4, <3>7, ConformsWithin
      <4>2. x.t = "array"
        BY <4>1
      <4>. DEFINE results == [k \in DOMAIN x.a |-> IF x.a[k] = Null THEN Fails("missing")
                                                  ELSE rest[x.a[k]][FALSE]]
      <4>3. ExtractStrings[path][v][optional] =
                IF x.a = <<>> THEN Fails("missing")
                ELSE IF Len(x.a) > HardCap THEN Fails("cap")
                ELSE Joined(results)
        BY <3>1, <3>3, <3>b, <3>7, <4>2 DEF ExtractFromSegments
      <4>4. ASSUME NEW k \in DOMAIN x.a PROVE results[k].err # "type"
        <5>1. results[k] = IF x.a[k] = Null THEN Fails("missing") ELSE rest[x.a[k]][FALSE]
          OBVIOUS
        <5>2. rest[x.a[k]][FALSE].err # "type"
          BY <2>1, <2>2, <3>2, <3>b, <4>1, <4>2, ArrayElements DEF Holds
        <5>. HIDE DEF results
        <5>. QED
          BY <5>1, <5>2, Errors
      <4>5. DOMAIN results = DOMAIN x.a
        OBVIOUS
      <4>. HIDE DEF results
      <4>6. DOMAIN x.a \subseteq Nat
        BY <3>b, <4>2, ArrayElements
      <4>7. Joined(results).err # "type"
        BY <4>4, <4>5, <4>6, NotJoined
      <4>. QED
        BY <4>3, <4>7, Errors
    <3>. QED
      BY <3>5, <3>6, <3>7
  <2>. QED
    BY <2>2 DEF Holds
<1>3. T = Path
  <2>. HIDE DEF Holds
  <2>1. T \in SUBSET Path
    OBVIOUS
  <2>. HIDE DEF T
  <2>. QED
    BY <1>1, <1>2, <2>1, PathInduction
<1>. QED
  BY <1>3

\* What conforms to a schema in which a path leads to a number is not null.
LEMMA NumberIsThere ==
    ASSUME NEW path \in Path, NEW depth \in 0..MaxJSONDepth, NEW v \in Json, NEW schema \in Schemas,
           Conforms[depth][v][schema], ResolvePath[path][schema] \in Numeric
    PROVE  v # Null
<1>1. CASE path = <<>>
  <2>1. schema.t \in Numeric
    BY <1>1, ResolveHere
  <2>. QED
    BY <2>1, ConformsHere, NullInJson DEF Numeric
<1>2. CASE path # <<>>
  <2>1. ResolvePath[path][schema] # "none"
    BY DEF Numeric
  <2>2. v.t = "object"
    BY <1>2, <2>1, ConformsBelow
  <2>. QED
    BY <2>2, NullInJson
<1>. QED
  BY <1>1, <1>2

\* The same for numbers and their bounds.
LEMMA NumbersAreNumbers ==
    \A path \in Path : \A depth \in 0..MaxJSONDepth, v \in Json, schema \in Schemas, optional \in BOOLEAN :
        Conforms[depth][v][schema] /\ ResolvePath[path][schema] \in Numeric =>
            ExtractNumbers[path][v][optional].err # "type"
<1>. DEFINE Holds(path) == \A depth \in 0..MaxJSONDepth, v \in Json, schema \in Schemas, optional \in BOOLEAN :
        Conforms[depth][v][schema] /\ ResolvePath[path][schema] \in Numeric =>
            ExtractNumbers[path][v][optional].err # "type"
            T == {path \in Path : Holds(path)}
<1>1. <<>> \in T
  <2>1. <<>> \in Path
    BY EmptySeq DEF Path
  <2>2. ASSUME NEW depth \in 0..MaxJSONDepth, NEW v \in Json, NEW schema \in Schemas,
               NEW optional \in BOOLEAN,
               Conforms[depth][v][schema], ResolvePath[<<>>][schema] \in Numeric
        PROVE  ExtractNumbers[<<>>][v][optional].err # "type"
    <3>1. ExtractNumbers[<<>>][v][optional] =
              ExtractNumbersFromSegments(<<>>, ExtractNumbers[Tail(<<>>)], v, optional)
      BY <2>1, ExtractNumbersEquation
    <3>2. ExtractNumbers[<<>>][v][optional] =
              IF v.t \in Numeric THEN Found({v}) ELSE Fails("type")
      BY <3>1 DEF ExtractNumbersFromSegments
    <3>3. v.t \in Numeric
      <4>1. schema.t \in Numeric
        BY <2>2, ResolveHere
      <4>. QED
        BY <2>2, <4>1, ConformsHere DEF Numeric
    <3>. QED
      BY <3>2, <3>3, Errors
  <2>3. Holds(<<>>)
    BY <2>2
  <2>. QED
    BY <2>1, <2>3
<1>2. ASSUME NEW path \in Path \ {<<>>}, Tail(path) \in T PROVE path \in T
  <2>1. Holds(Tail(path)) /\ Tail(path) \in Path
    BY <1>2
  <2>. HIDE DEF Holds
  <2>2. ASSUME NEW depth \in 0..MaxJSONDepth, NEW v \in Json, NEW schema \in Schemas,
               NEW optional \in BOOLEAN,
               Conforms[depth][v][schema], ResolvePath[path][schema] \in Numeric
        PROVE  ExtractNumbers[path][v][optional].err # "type"
    <3>1. PICK x : x = Field(v, Head(path).field)
      OBVIOUS
    <3>2. PICK rest : rest = ExtractNumbers[Tail(path)]
      OBVIOUS
    <3>3. ExtractNumbers[path][v][optional] = ExtractNumbersFromSegments(path, rest, v, optional)
      BY <3>2, ExtractNumbersEquation
    <3>a. PICK child : child = Child(Head(path), schema)
      OBVIOUS
    <3>4. ResolvePath[path][schema] # "none"
      BY <2>2 DEF Numeric
    <3>b. /\ v.t = "object" /\ x \in Json /\ child \in Schemas
          /\ ResolvePath[Tail(path)][child] = ResolvePath[path][schema]
      BY <2>2, <3>1, <3>a, <3>4, ConformsBelow
    <3>5. CASE x = Null
      <4>1. ExtractNumbers[path][v][optional] = IF optional THEN Found({}) ELSE Fails("missing")
        BY <3>1, <3>3, <3>b, <3>5 DEF ExtractNumbersFromSegments
      <4>. QED
        BY <4>1, Errors
    <3>6. CASE x # Null /\ ~Head(path).all
      <4>1. depth - 1 \in 0..MaxJSONDepth /\ Conforms[depth - 1][x][child]
        BY <2>2, <3>1, <3>a, <3>4, <3>6, ConformsBelow
      <4>2. ExtractNumbers[path][v][optional] = rest[x][optional]
        BY <3>1, <3>3, <3>b, <3>6 DEF ExtractNumbersFromSegments
      <4>. QED
        BY <2>1, <2>2, <3>2, <3>b, <4>1, <4>2 DEF Holds
    <3>7. CASE x # Null /\ Head(path).all
      <4>1. PICK d \in 0..MaxJSONDepth :
                x.t = "array" /\ \A k \in DOMAIN x.a : Conforms[d][x.a[k]][child]
        BY <2>2, <3>1, <3>a, <3>4, <3>7, ConformsWithin
      <4>2. x.t = "array"
        BY <4>1
      <4>. DEFINE results == [k \in DOMAIN x.a |-> IF x.a[k] = Null THEN Fails("type")
                                                  ELSE rest[x.a[k]][FALSE]]
      <4>3. ExtractNumbers[path][v][optional] =
                IF x.a = <<>> THEN IF optional THEN Found({}) ELSE Fails("missing")
                ELSE IF Len(x.a) > HardCap THEN Fails("cap")
                ELSE Joined(results)
        BY <3>1, <3>3, <3>b, <3>7, <4>2 DEF ExtractNumbersFromSegments
      <4>4. ASSUME NEW k \in DOMAIN x.a PROVE results[k].err # "type"
        <5>1. results[k] = IF x.a[k] = Null THEN Fails("type") ELSE rest[x.a[k]][FALSE]
          OBVIOUS
        <5>2. x.a[k] \in Json /\ Conforms[d][x.a[k]][child]
          BY <3>b, <4>1, <4>2, ArrayElements
        <5>3. rest[x.a[k]][FALSE].err # "type"
          BY <2>1, <2>2, <3>2, <3>b, <4>1, <5>2 DEF Holds
        <5>4. x.a[k] # Null
          BY <2>1, <2>2, <3>b, <4>1, <5>2, NumberIsThere
        <5>. HIDE DEF results
        <5>. QED
          BY <5>1, <5>3, <5>4
      <4>5. DOMAIN results = DOMAIN x.a
        OBVIOUS
      <4>. HIDE DEF results
      <4>6. DOMAIN x.a \subseteq Nat
        BY <3>b, <4>2, ArrayElements
      <4>7. Joined(results).err # "type"
        BY <4>4, <4>5, <4>6, NotJoined
      <4>. QED
        BY <4>3, <4>7, Errors
    <3>. QED
      BY <3>5, <3>6, <3>7
  <2>. QED
    BY <2>2 DEF Holds
<1>3. T = Path
  <2>. HIDE DEF Holds
  <2>1. T \in SUBSET Path
    OBVIOUS
  <2>. HIDE DEF T
  <2>. QED
    BY <1>1, <1>2, <2>1, PathInduction
<1>. QED
  BY <1>3

\* The same for arrays and their caps.
LEMMA ArraysAreArrays ==
    \A path \in Path : \A depth \in 0..MaxJSONDepth, v \in Json, schema \in Schemas, max \in Int :
        Conforms[depth][v][schema] /\ ResolvePath[path][schema] = "array" /\ (v # Null \/ path # <<>>) =>
            CheckArrayCapAtPath[path][v][max] # "type"
<1>. DEFINE Holds(path) == \A depth \in 0..MaxJSONDepth, v \in Json, schema \in Schemas, max \in Int :
        Conforms[depth][v][schema] /\ ResolvePath[path][schema] = "array" /\ (v # Null \/ path # <<>>) =>
            CheckArrayCapAtPath[path][v][max] # "type"
            T == {path \in Path : Holds(path)}
<1>1. <<>> \in T
  <2>1. <<>> \in Path
    BY EmptySeq DEF Path
  <2>2. ASSUME NEW depth \in 0..MaxJSONDepth, NEW v \in Json, NEW schema \in Schemas,
               NEW max \in Int,
               Conforms[depth][v][schema], ResolvePath[<<>>][schema] = "array", v # Null
        PROVE  CheckArrayCapAtPath[<<>>][v][max] # "type"
    <3>1. CheckArrayCapAtPath[<<>>][v][max] = ArrayCap(<<>>, CheckArrayCapAtPath[Tail(<<>>)], v, max)
      BY <2>1, CheckArrayCapAtPathEquation
    <3>2. v.t = "array"
      <4>1. schema.t = "array"
        BY <2>2, ResolveHere
      <4>. QED
        BY <2>2, <4>1, ConformsHere
    <3>. QED
      BY <3>1, <3>2 DEF ArrayCap
  <2>3. Holds(<<>>)
    BY <2>2
  <2>. QED
    BY <2>1, <2>3
<1>2. ASSUME NEW path \in Path \ {<<>>}, Tail(path) \in T PROVE path \in T
  <2>1. Holds(Tail(path)) /\ Tail(path) \in Path
    BY <1>2
  <2>. HIDE DEF Holds
  <2>2. ASSUME NEW depth \in 0..MaxJSONDepth, NEW v \in Json, NEW schema \in Schemas,
               NEW max \in Int,
               Conforms[depth][v][schema], ResolvePath[path][schema] = "array"
        PROVE  CheckArrayCapAtPath[path][v][max] # "type"
    <3>1. PICK x : x = Field(v, Head(path).field)
      OBVIOUS
    <3>2. PICK rest : rest = CheckArrayCapAtPath[Tail(path)]
      OBVIOUS
    <3>3. CheckArrayCapAtPath[path][v][max] = ArrayCap(path, rest, v, max)
      BY <3>2, CheckArrayCapAtPathEquation
    <3>4. PICK child : child = Child(Head(path), schema)
      OBVIOUS
    <3>5. ResolvePath[path][schema] # "none"
      BY <2>2
    <3>6. /\ v.t = "object" /\ x \in Json /\ child \in Schemas
          /\ ResolvePath[Tail(path)][child] = ResolvePath[path][schema]
      BY <2>2, <3>1, <3>4, <3>5, ConformsBelow
    <3>7. CASE x = Null
      BY <3>1, <3>3, <3>6, <3>7 DEF ArrayCap
    <3>8. CASE x # Null /\ ~Head(path).all
      <4>1. depth - 1 \in 0..MaxJSONDepth /\ Conforms[depth - 1][x][child]
        BY <2>2, <3>1, <3>4, <3>5, <3>8, ConformsBelow
      <4>2. CheckArrayCapAtPath[path][v][max] = rest[x][max]
        BY <3>1, <3>3, <3>6, <3>8 DEF ArrayCap
      <4>. QED
        BY <2>1, <2>2, <3>2, <3>6, <3>8, <4>1, <4>2 DEF Holds
    <3>9. CASE x # Null /\ Head(path).all /\ Tail(path) # <<>>
      <4>a. x # Null /\ Head(path).all
        BY <3>9
      <4>1. PICK d \in 0..MaxJSONDepth :
                x.t = "array" /\ \A k \in DOMAIN x.a : Conforms[d][x.a[k]][child]
        BY <2>2, <3>1, <3>4, <3>5, <4>a, ConformsWithin
      <4>2. x.t = "array"
        BY <4>1
      <4>. DEFINE errs == [k \in DOMAIN x.a |-> rest[x.a[k]][max]]
      <4>3. CheckArrayCapAtPath[path][v][max] = IF Len(x.a) > HardCap THEN "cap" ELSE FirstError(errs)
        BY <3>1, <3>3, <3>6, <3>9, <4>2 DEF ArrayCap
      <4>4. ASSUME NEW k \in DOMAIN x.a PROVE errs[k] # "type"
        <5>1. errs[k] = rest[x.a[k]][max]
          OBVIOUS
        <5>2. rest[x.a[k]][max] # "type"
          BY <2>1, <2>2, <3>2, <3>6, <3>9, <4>1, <4>2, ArrayElements DEF Holds
        <5>. QED
          BY <5>1, <5>2
      <4>5. DOMAIN errs = DOMAIN x.a
        OBVIOUS
      <4>. HIDE DEF errs
      <4>6. DOMAIN x.a \subseteq Nat
        BY <3>6, <4>2, ArrayElements
      <4>7. FirstError(errs) # "type"
        BY <4>4, <4>5, <4>6, FirstErrorIsOne
      <4>. QED
        BY <4>3, <4>7
    <3>10. CASE x # Null /\ Head(path).all /\ Tail(path) = <<>>
      <4>1. x.t = "array"
        BY <2>2, <3>1, <3>4, <3>5, <3>10, ConformsWithin
      <4>2. CheckArrayCapAtPath[path][v][max] = CheckArrayCapAtPath[<<>>][x][max]
        BY <3>1, <3>2, <3>3, <3>6, <3>10 DEF ArrayCap
      <4>3. CheckArrayCapAtPath[<<>>][x][max] = ArrayCap(<<>>, CheckArrayCapAtPath[Tail(<<>>)], x, max)
        BY <2>1, <3>6, <3>10, CheckArrayCapAtPathEquation
      <4>. QED
        BY <4>1, <4>2, <4>3 DEF ArrayCap
    <3>. QED
      BY <3>7, <3>8, <3>9, <3>10
  <2>. QED
    BY <2>2 DEF Holds
<1>3. T = Path
  <2>. HIDE DEF Holds
  <2>1. T \in SUBSET Path
    OBVIOUS
  <2>. HIDE DEF T
  <2>. QED
    BY <1>1, <1>2, <2>1, PathInduction
<1>. QED
  BY <1>3

\* The same for limits.
LEMMA LimitsAreNumbers ==
    \A path \in Path : \A depth \in 0..MaxJSONDepth, v \in Json, schema \in Schemas, max \in Int :
        Conforms[depth][v][schema] /\ ResolvePath[path][schema] \in Numeric =>
            CheckLimitCapAtPath[path][v][max] # "type"
<1>. DEFINE Holds(path) == \A depth \in 0..MaxJSONDepth, v \in Json, schema \in Schemas, max \in Int :
        Conforms[depth][v][schema] /\ ResolvePath[path][schema] \in Numeric =>
            CheckLimitCapAtPath[path][v][max] # "type"
            T == {path \in Path : Holds(path)}
<1>1. <<>> \in T
  <2>1. <<>> \in Path
    BY EmptySeq DEF Path
  <2>2. ASSUME NEW depth \in 0..MaxJSONDepth, NEW v \in Json, NEW schema \in Schemas,
               NEW max \in Int,
               Conforms[depth][v][schema], ResolvePath[<<>>][schema] \in Numeric
        PROVE  CheckLimitCapAtPath[<<>>][v][max] # "type"
    <3>1. CheckLimitCapAtPath[<<>>][v][max] = LimitCap(<<>>, CheckLimitCapAtPath[Tail(<<>>)], v, max)
      BY <2>1, CheckLimitCapAtPathEquation
    <3>2. v.t \in Numeric
      <4>1. schema.t \in Numeric
        BY <2>2, ResolveHere
      <4>. QED
        BY <2>2, <4>1, ConformsHere DEF Numeric
    <3>. QED
      BY <3>1, <3>2 DEF LimitCap
  <2>3. Holds(<<>>)
    BY <2>2
  <2>. QED
    BY <2>1, <2>3
<1>2. ASSUME NEW path \in Path \ {<<>>}, Tail(path) \in T PROVE path \in T
  <2>1. Holds(Tail(path)) /\ Tail(path) \in Path
    BY <1>2
  <2>. HIDE DEF Holds
  <2>2. ASSUME NEW depth \in 0..MaxJSONDepth, NEW v \in Json, NEW schema \in Schemas,
               NEW max \in Int,
               Conforms[depth][v][schema], ResolvePath[path][schema] \in Numeric
        PROVE  CheckLimitCapAtPath[path][v][max] # "type"
    <3>1. PICK x : x = Field(v, Head(path).field)
      OBVIOUS
    <3>2. PICK rest : rest = CheckLimitCapAtPath[Tail(path)]
      OBVIOUS
    <3>3. CheckLimitCapAtPath[path][v][max] = LimitCap(path, rest, v, max)
      BY <3>2, CheckLimitCapAtPathEquation
    <3>4. PICK child : child = Child(Head(path), schema)
      OBVIOUS
    <3>5. ResolvePath[path][schema] # "none"
      BY <2>2 DEF Numeric
    <3>6. /\ v.t = "object" /\ x \in Json /\ child \in Schemas
          /\ ResolvePath[Tail(path)][child] = ResolvePath[path][schema]
      BY <2>2, <3>1, <3>4, <3>5, ConformsBelow
    <3>7. CASE x = Null
      BY <3>1, <3>3, <3>6, <3>7 DEF LimitCap
    <3>8. CASE x # Null /\ ~Head(path).all
      <4>1. depth - 1 \in 0..MaxJSONDepth /\ Conforms[depth - 1][x][child]
        BY <2>2, <3>1, <3>4, <3>5, <3>8, ConformsBelow
      <4>2. CheckLimitCapAtPath[path][v][max] = rest[x][max]
        BY <3>1, <3>3, <3>6, <3>8 DEF LimitCap
      <4>. QED
        BY <2>1, <2>2, <3>2, <3>6, <3>8, <4>1, <4>2 DEF Holds
    <3>9. CASE x # Null /\ Head(path).all
      <4>a. x # Null /\ Head(path).all
        BY <3>9
      <4>1. PICK d \in 0..MaxJSONDepth :
                x.t = "array" /\ \A k \in DOMAIN x.a : Conforms[d][x.a[k]][child]
        BY <2>2, <3>1, <3>4, <3>5, <4>a, ConformsWithin
      <4>2. x.t = "array"
        BY <4>1
      <4>. DEFINE errs == [k \in DOMAIN x.a |-> IF x.a[k] = Null THEN "type" ELSE rest[x.a[k]][max]]
      <4>3. CheckLimitCapAtPath[path][v][max] = IF Len(x.a) > HardCap THEN "cap" ELSE FirstError(errs)
        BY <3>1, <3>3, <3>6, <3>9, <4>2 DEF LimitCap
      <4>4. ASSUME NEW k \in DOMAIN x.a PROVE errs[k] # "type"
        <5>1. errs[k] = IF x.a[k] = Null THEN "type" ELSE rest[x.a[k]][max]
          OBVIOUS
        <5>2. x.a[k] \in Json /\ Conforms[d][x.a[k]][child]
          BY <3>6, <4>1, <4>2, ArrayElements
        <5>3. rest[x.a[k]][max] # "type"
          BY <2>1, <2>2, <3>2, <3>6, <4>1, <5>2 DEF Holds
        <5>4. x.a[k] # Null
          BY <2>1, <2>2, <3>6, <4>1, <5>2, NumberIsThere
        <5>. QED
          BY <5>1, <5>3, <5>4
      <4>5. DOMAIN errs = DOMAIN x.a
        OBVIOUS
      <4>. HIDE DEF errs
      <4>6. DOMAIN x.a \subseteq Nat
        BY <3>6, <4>2, ArrayElements
      <4>7. FirstError(errs) # "type"
        BY <4>4, <4>5, <4>6, FirstErrorIsOne
      <4>. QED
        BY <4>3, <4>7
    <3>. QED
      BY <3>7, <3>8, <3>9
  <2>. QED
    BY <2>2 DEF Holds
<1>3. T = Path
  <2>. HIDE DEF Holds
  <2>1. T \in SUBSET Path
    OBVIOUS
  <2>. HIDE DEF T
  <2>. QED
    BY <1>1, <1>2, <2>1, PathInduction
<1>. QED
  BY <1>3

-----------------------------------------------------------------------------
(* Defaults *)

\* With changes one field and no other.
LEMMA WithField ==
    ASSUME NEW v, NEW name, NEW y
    PROVE  /\ With(v, name, y).t = "object"
           /\ Field(With(v, name, y), name) = y
           /\ \A n : n # name => Field(With(v, name, y), n) = Field(v, n)
<1>1. PICK fields : fields = [n \in DOMAIN v.f \cup {name} |-> IF n = name THEN y ELSE v.f[n]]
  OBVIOUS
<1>2. With(v, name, y) = [t |-> "object", f |-> fields]
  BY <1>1 DEF With, Obj
<1>3. With(v, name, y).t = "object" /\ With(v, name, y).f = fields
  BY <1>2
<1>4. DOMAIN fields = DOMAIN v.f \cup {name} /\ fields[name] = y
  BY <1>1
<1>5. ASSUME NEW n, n # name PROVE Field(With(v, name, y), n) = Field(v, n)
  <2>1. CASE n \in DOMAIN v.f
    <3>1. fields[n] = v.f[n]
      BY <1>1, <1>5, <2>1
    <3>. QED
      BY <1>3, <1>4, <2>1, <3>1 DEF Field
  <2>2. CASE n \notin DOMAIN v.f
    BY <1>3, <1>4, <1>5, <2>2 DEF Field
  <2>. QED
    BY <2>1, <2>2
<1>. QED
  BY <1>3, <1>4, <1>5 DEF Field

\* What is put in: nothing, the default, or the field with the default below it
Within(e, path, default) == IF e.t = "object" THEN InjectDefault[path][e][default] ELSE e

\* What one segment of an injection does: nothing, or one field gets a value.
LEMMA InjectCases ==
    ASSUME NEW path \in Path \ {<<>>}, NEW v \in Json, v.t = "object", NEW default \in Int,
           NEW name, name = Head(path).field, NEW x, x = Field(v, name),
           NEW w, w = InjectDefault[path][v][default]
    PROVE  \/ w = v /\ (x = Null => Tail(path) # <<>>)
              /\ (Head(path).all => x.t # "array" \/ Tail(path) = <<>>)
              /\ (~Head(path).all => x.t # "object" \/ Tail(path) = <<>>)
           \/ Tail(path) = <<>> /\ x = Null /\ w = With(v, name, Num(default))
           \/ /\ Tail(path) # <<>> /\ Head(path).all /\ x.t = "array"
              /\ w = With(v, name, Arr([k \in DOMAIN x.a |-> Within(x.a[k], Tail(path), default)]))
           \/ /\ Tail(path) # <<>> /\ ~Head(path).all /\ x.t = "object"
              /\ w = With(v, name, InjectDefault[Tail(path)][x][default])
<1>1. w = InjectDefaultAtSegments(path, InjectDefault[Tail(path)], v, default)
  BY InjectDefaultEquation
<1>2. Len(path) = 1 <=> Tail(path) = <<>>
  <2>1. PICK rest : rest = Tail(path)
    OBVIOUS
  <2>2. rest \in Path /\ Len(rest) = Len(path) - 1 /\ Len(path) \in Nat
    BY <2>1, PathParts
  <2>3. rest = <<>> <=> Len(rest) = 0
    BY <2>2, EmptyPath
  <2>. QED
    BY <2>1, <2>2, <2>3
<1>. DEFINE ys == [k \in DOMAIN x.a |-> IF x.a[k].t = "object" THEN InjectDefault[Tail(path)][x.a[k]][default]
                                       ELSE x.a[k]]
<1>3. w = IF Len(path) = 1 THEN IF x = Null THEN With(v, name, Num(default)) ELSE v
          ELSE IF Head(path).all THEN IF x.t = "array" THEN With(v, name, Arr(ys)) ELSE v
          ELSE IF x.t = "object" THEN With(v, name, InjectDefault[Tail(path)][x][default]) ELSE v
  BY <1>1 DEF InjectDefaultAtSegments
<1>4. ys = [k \in DOMAIN x.a |-> Within(x.a[k], Tail(path), default)]
  BY DEF Within
<1>. HIDE DEF ys
<1>. QED
  BY <1>2, <1>3, <1>4

\* Injection turns an object into an object.
LEMMA InjectedObject ==
    ASSUME NEW path \in Path \ {<<>>}, NEW v \in Json, v.t = "object", NEW default \in Int
    PROVE  InjectDefault[path][v][default].t = "object"
<1>1. PICK name : name = Head(path).field
  OBVIOUS
<1>2. PICK x : x = Field(v, name)
  OBVIOUS
<1>3. PICK w : w = InjectDefault[path][v][default]
  OBVIOUS
<1>4. CASE w = v
  BY <1>3, <1>4
<1>5. CASE w = With(v, name, Num(default))
  BY <1>3, <1>5, WithField
<1>6. CASE w = With(v, name, Arr([k \in DOMAIN x.a |-> Within(x.a[k], Tail(path), default)]))
  BY <1>3, <1>6, WithField
<1>7. CASE w = With(v, name, InjectDefault[Tail(path)][x][default])
  BY <1>3, <1>7, WithField
<1>8. \/ w = v \/ w = With(v, name, Num(default))
      \/ w = With(v, name, Arr([k \in DOMAIN x.a |-> Within(x.a[k], Tail(path), default)]))
      \/ w = With(v, name, InjectDefault[Tail(path)][x][default])
  BY <1>1, <1>2, <1>3, InjectCases
<1>. QED
  BY <1>4, <1>5, <1>6, <1>7, <1>8

\* Numbers and arrays are tagged as such, and are not null.
LEMMA Tags == /\ \A n : Num(n).t = "integer" /\ Num(n) # Null
              /\ \A a : Arr(a).t = "array" /\ Arr(a).a = a /\ Arr(a) # Null
BY DEF Num, Arr, Null

\* What is below a field that was put in
LEMMA AtWith ==
    ASSUME NEW path \in Path, path # <<>>, NEW v \in Json, v.t = "object",
           NEW name, NEW y, NEW w \in Json, w = With(v, name, y)
    PROVE  /\ Head(path).field # name => At[path][w] = At[path][v]
           /\ Head(path).field = name /\ ~Head(path).all => At[path][w] = At[Tail(path)][y]
           /\ Head(path).field = name /\ Head(path).all => \A e \in At[path][w] :
                  y.t = "array" /\ \E k \in DOMAIN y.a : e \in At[Tail(path)][y.a[k]]
<1>1. w.t = "object" /\ Field(w, name) = y /\ \A n : n # name => Field(w, n) = Field(v, n)
  BY WithField
<1>2. /\ At[path][w] = Reached(path, At[Tail(path)], w)
      /\ At[path][v] = Reached(path, At[Tail(path)], v)
  BY AtEquation
<1>3. ASSUME Head(path).field # name PROVE At[path][w] = At[path][v]
  <2>1. PICK x : x = Field(v, Head(path).field)
    OBVIOUS
  <2>2. Field(w, Head(path).field) = x
    BY <1>1, <1>3, <2>1
  <2>3. PICK rest : rest = At[Tail(path)]
    OBVIOUS
  <2>4. CASE ~Head(path).all
    BY <1>1, <1>2, <2>1, <2>2, <2>3, <2>4 DEF Reached
  <2>5. CASE Head(path).all /\ x.t # "array"
    BY <1>1, <1>2, <2>1, <2>2, <2>3, <2>5 DEF Reached
  <2>6. CASE Head(path).all /\ x.t = "array"
    <3>1. PICK union : union = UNION {rest[x.a[k]] : k \in DOMAIN x.a}
      OBVIOUS
    <3>2. Reached(path, rest, w) = union
      BY <1>1, <2>2, <2>6, <3>1 DEF Reached
    <3>3. Reached(path, rest, v) = union
      BY <2>1, <2>6, <3>1 DEF Reached
    <3>. QED
      BY <1>2, <2>3, <3>2, <3>3
  <2>. QED
    BY <2>4, <2>5, <2>6
<1>4. ASSUME Head(path).field = name, ~Head(path).all PROVE At[path][w] = At[Tail(path)][y]
  BY <1>1, <1>2, <1>4 DEF Reached
<1>5. ASSUME Head(path).field = name, Head(path).all, NEW e \in At[path][w]
      PROVE  y.t = "array" /\ \E k \in DOMAIN y.a : e \in At[Tail(path)][y.a[k]]
  BY <1>1, <1>5, AtBelow
<1>. QED
  BY <1>3, <1>4, <1>5

\* What was put into a JSON value is one.
LEMMA PartsOfWith ==
    ASSUME NEW v, NEW name, NEW y, With(v, name, y) \in Json
    PROVE  y \in Json
BY WithField, FieldInJson

\* A path that is not empty leads nowhere from what is no object.
LEMMA AtOther ==
    ASSUME NEW path \in Path, path # <<>>, NEW v \in Json, v.t # "object"
    PROVE  At[path][v] = {}
BY AtEquation DEF Reached

\* A default puts a number wherever there is an object for it.
LEMMA DefaultIsThere ==
    \A path \in Path : path # <<>> =>
        \A v \in Json, default \in Int :
            v.t = "object" /\ InjectDefault[path][v][default] \in Json /\ EndsInField(path) =>
                Null \notin At[path][InjectDefault[path][v][default]]
<1>. DEFINE Holds(path) == path # <<>> =>
        \A v \in Json, default \in Int :
            v.t = "object" /\ InjectDefault[path][v][default] \in Json /\ EndsInField(path) =>
                Null \notin At[path][InjectDefault[path][v][default]]
            T == {path \in Path : Holds(path)}
<1>1. <<>> \in T
  BY EmptySeq DEF Path
<1>2. ASSUME NEW path \in Path \ {<<>>}, Tail(path) \in T PROVE path \in T
  <2>1. Holds(Tail(path)) /\ Tail(path) \in Path
    BY <1>2
  <2>. HIDE DEF Holds
  <2>2. ASSUME NEW v \in Json, NEW default \in Int, v.t = "object",
               InjectDefault[path][v][default] \in Json, EndsInField(path),
               Null \in At[path][InjectDefault[path][v][default]]
        PROVE  FALSE
    <3>1. PICK name : name = Head(path).field
      OBVIOUS
    <3>2. PICK x : x = Field(v, name)
      OBVIOUS
    <3>3. PICK w : w = InjectDefault[path][v][default]
      OBVIOUS
    <3>4. x \in Json /\ w \in Json /\ w.t = "object" /\ Null \in At[path][w]
      BY <2>2, <3>2, <3>3, FieldInJson, InjectedObject
    <3>5. /\ Tail(path) = <<>> => ~Head(path).all
          /\ Tail(path) # <<>> => EndsInField(Tail(path))
      BY <2>2, LastSegment DEF EndsInField
    <3>6. CASE w = v /\ (x = Null => Tail(path) # <<>>)
              /\ (Head(path).all => x.t # "array" \/ Tail(path) = <<>>)
              /\ (~Head(path).all => x.t # "object" \/ Tail(path) = <<>>)
      <4>1. Null \in At[path][v]
        BY <3>4, <3>6
      <4>2. CASE Head(path).all
        BY <3>1, <3>2, <3>5, <3>6, <4>1, <4>2, AtBelow
      <4>3. CASE ~Head(path).all
        <5>1. Null \in At[Tail(path)][x]
          BY <3>1, <3>2, <4>1, <4>3, AtBelow
        <5>2. CASE Tail(path) = <<>>
          <6>1. At[Tail(path)][x] = {x}
            BY <3>4, <5>2, AtHere
          <6>2. x = Null
            BY <5>1, <6>1
          <6>. QED
            BY <3>6, <5>2, <6>2
        <5>3. CASE Tail(path) # <<>>
          BY <2>1, <3>4, <3>6, <4>3, <5>1, <5>3, AtBelow
        <5>. QED
          BY <5>2, <5>3
      <4>. QED
        BY <4>2, <4>3
    <3>7. CASE Tail(path) = <<>> /\ x = Null /\ w = With(v, name, Num(default))
      <4>a. w = With(v, name, Num(default)) /\ Tail(path) = <<>>
        BY <3>7
      <4>b. At[path][w] = At[Tail(path)][Num(default)]
        BY <2>2, <3>1, <3>4, <3>5, <4>a, AtWith
      <4>1. At[path][w] = At[<<>>][Num(default)]
        BY <4>a, <4>b
      <4>2. Num(default) \in Json
        BY <3>4, <3>7, PartsOfWith
      <4>. QED
        BY <3>4, <4>1, <4>2, AtHere, Tags
    <3>8. CASE /\ Tail(path) # <<>> /\ Head(path).all /\ x.t = "array"
               /\ w = With(v, name, Arr([k \in DOMAIN x.a |-> Within(x.a[k], Tail(path), default)]))
      <4>1. PICK ys : ys = [k \in DOMAIN x.a |-> Within(x.a[k], Tail(path), default)]
        OBVIOUS
      <4>2. w = With(v, name, Arr(ys)) /\ Arr(ys) \in Json /\ Head(path).all /\ Tail(path) # <<>>
        BY <3>4, <3>8, <4>1, PartsOfWith
      <4>3. PICK k \in DOMAIN ys : Null \in At[Tail(path)][ys[k]]
        BY <2>2, <3>1, <3>4, <4>2, AtWith, Tags
      <4>4. ys[k] = Within(x.a[k], Tail(path), default) /\ k \in DOMAIN x.a
        BY <4>1, <4>3
      <4>5. x.a[k] \in Json /\ ys[k] \in Json
        BY <3>4, <3>8, <4>2, <4>3, <4>4, ArrayElements, Tags
      <4>6. CASE x.a[k].t = "object"
        <5>1. ys[k] = InjectDefault[Tail(path)][x.a[k]][default]
          BY <4>4, <4>6 DEF Within
        <5>. QED
          BY <2>1, <3>5, <4>2, <4>3, <4>5, <4>6, <5>1 DEF Holds
      <4>7. CASE x.a[k].t # "object"
        <5>1. ys[k] = x.a[k]
          BY <4>4, <4>7 DEF Within
        <5>. QED
          BY <2>1, <4>2, <4>3, <4>5, <4>7, <5>1, AtOther
      <4>. QED
        BY <4>6, <4>7
    <3>9. CASE /\ Tail(path) # <<>> /\ ~Head(path).all /\ x.t = "object"
               /\ w = With(v, name, InjectDefault[Tail(path)][x][default])
      <4>1. PICK y : y = InjectDefault[Tail(path)][x][default]
        OBVIOUS
      <4>2. w = With(v, name, y) /\ y \in Json
        BY <3>4, <3>9, <4>1, PartsOfWith
      <4>3. Null \in At[Tail(path)][y]
        BY <2>2, <3>1, <3>4, <3>9, <4>2, AtWith
      <4>. QED
        BY <2>1, <2>2, <3>4, <3>5, <3>9, <4>1, <4>2, <4>3 DEF Holds
    <3>. QED
      BY <2>2, <3>1, <3>2, <3>3, <3>6, <3>7, <3>8, <3>9, InjectCases
  <2>3. Holds(path)
    BY <2>2 DEF Holds
  <2>. QED
    BY <2>3
<1>3. T = Path
  <2>. HIDE DEF Holds
  <2>1. T \in SUBSET Path
    OBVIOUS
  <2>. HIDE DEF T
  <2>. QED
    BY <1>1, <1>2, <2>1, PathInduction
<1>. QED
  BY <1>3
\* What is below a field of an object is below the object.
LEMMA AtAbove ==
    ASSUME NEW path \in Path, path # <<>>, NEW v \in Json, v.t = "object",
           NEW x, x = Field(v, Head(path).field)
    PROVE  /\ ~Head(path).all => At[path][v] = At[Tail(path)][x]
           /\ Head(path).all /\ x.t = "array" =>
                  \A k \in DOMAIN x.a : At[Tail(path)][x.a[k]] \subseteq At[path][v]
<1>1. At[path][v] = Reached(path, At[Tail(path)], v)
  BY AtEquation
<1>2. PICK rest : rest = At[Tail(path)]
  OBVIOUS
<1>3. CASE ~Head(path).all
  BY <1>1, <1>3 DEF Reached
<1>4. ASSUME Head(path).all, x.t = "array", NEW k \in DOMAIN x.a
      PROVE  At[Tail(path)][x.a[k]] \subseteq At[path][v]
  <2>1. PICK union : union = UNION {rest[x.a[n]] : n \in DOMAIN x.a}
    OBVIOUS
  <2>2. At[path][v] = union
    BY <1>1, <1>2, <1>4, <2>1 DEF Reached
  <2>3. rest[x.a[k]] \subseteq union
    BY <1>4, <2>1
  <2>. QED
    BY <1>2, <2>2, <2>3
<1>. QED
  BY <1>3, <1>4

\* A default takes nothing away: what is absent afterwards was absent before.
LEMMA DefaultKeeps ==
    \A put \in Path : put # <<>> =>
        \A path \in Path, v \in Json, default \in Int :
            /\ v.t = "object" /\ InjectDefault[put][v][default] \in Json
            /\ Null \in At[path][InjectDefault[put][v][default]]
            => Null \in At[path][v]
<1>. DEFINE Holds(put) == put # <<>> =>
        \A path \in Path, v \in Json, default \in Int :
            (v.t = "object" /\ InjectDefault[put][v][default] \in Json
             /\ Null \in At[path][InjectDefault[put][v][default]])
            => Null \in At[path][v]
            T == {put \in Path : Holds(put)}
<1>1. <<>> \in T
  BY EmptySeq DEF Path
<1>2. ASSUME NEW put \in Path \ {<<>>}, Tail(put) \in T PROVE put \in T
  <2>1. Holds(Tail(put)) /\ Tail(put) \in Path
    BY <1>2
  <2>. HIDE DEF Holds
  <2>2. ASSUME NEW path \in Path, NEW v \in Json, NEW default \in Int, v.t = "object",
               InjectDefault[put][v][default] \in Json,
               Null \in At[path][InjectDefault[put][v][default]]
        PROVE  Null \in At[path][v]
    <3>1. PICK name : name = Head(put).field
      OBVIOUS
    <3>2. PICK x : x = Field(v, name)
      OBVIOUS
    <3>3. PICK w : w = InjectDefault[put][v][default]
      OBVIOUS
    <3>4. x \in Json /\ w \in Json /\ w.t = "object" /\ Null \in At[path][w] /\ Null # w
      BY <2>2, <3>2, <3>3, FieldInJson, InjectedObject, NullInJson
    <3>5. path # <<>>
      BY <3>4, AtHere
    <3>6. Tail(path) \in Path
      BY <3>5, PathParts
    <3>7. ASSUME NEW y, w = With(v, name, y), y.t # "object", y # Null,
                 Head(path).field = name, ~Head(path).all
          PROVE  FALSE
      <4>1. y \in Json
        BY <3>4, <3>7, PartsOfWith
      <4>2. Null \in At[Tail(path)][y]
        BY <2>2, <3>4, <3>5, <3>7, AtWith
      <4>3. Tail(path) # <<>>
        BY <3>7, <4>1, <4>2, AtHere
      <4>. QED
        BY <3>6, <3>7, <4>1, <4>2, <4>3, AtOther
    <3>8. ASSUME NEW y, w = With(v, name, y), y.t # "array", Head(path).field = name,
                 Head(path).all
          PROVE  FALSE
      BY <2>2, <3>4, <3>5, <3>8, AtWith
    <3>9. ASSUME NEW y, w = With(v, name, y), Head(path).field # name
          PROVE  Null \in At[path][v]
      BY <2>2, <3>4, <3>5, <3>9, AtWith
    <3>10. CASE w = v
      BY <3>4, <3>10
    <3>11. CASE w = With(v, name, Num(default))
      BY <3>7, <3>8, <3>9, <3>11, Tags
    <3>12. CASE /\ Tail(put) # <<>> /\ Head(put).all /\ x.t = "array"
                /\ w = With(v, name, Arr([k \in DOMAIN x.a |-> Within(x.a[k], Tail(put), default)]))
      <4>1. PICK ys : ys = [k \in DOMAIN x.a |-> Within(x.a[k], Tail(put), default)]
        OBVIOUS
      <4>2. /\ w = With(v, name, Arr(ys)) /\ Arr(ys) \in Json /\ Tail(put) # <<>>
            /\ Arr(ys).t = "array" /\ Arr(ys).a = ys /\ Arr(ys) # Null /\ x.t = "array"
        BY <3>4, <3>12, <4>1, PartsOfWith, Tags
      <4>3. CASE Head(path).field = name /\ Head(path).all
        <5>1. PICK k \in DOMAIN ys : Null \in At[Tail(path)][ys[k]]
          BY <2>2, <3>4, <3>5, <4>2, <4>3, AtWith
        <5>2. ys[k] = Within(x.a[k], Tail(put), default) /\ k \in DOMAIN x.a
          BY <4>1, <5>1
        <5>3. x.a[k] \in Json /\ ys[k] \in Json
          BY <3>4, <4>2, <5>1, <5>2, ArrayElements
        <5>4. CASE x.a[k].t = "object"
          <6>1. ys[k] = InjectDefault[Tail(put)][x.a[k]][default]
            BY <5>2, <5>4 DEF Within
          <6>2. PICK e : e = x.a[k]
            OBVIOUS
          <6>3. Null \in At[Tail(path)][e]
            BY <2>1, <2>2, <3>6, <4>2, <5>1, <5>3, <5>4, <6>1, <6>2 DEF Holds
          <6>. QED
            BY <2>2, <3>2, <3>5, <4>2, <4>3, <5>2, <6>2, <6>3, AtAbove
        <5>5. CASE x.a[k].t # "object"
          <6>1. ys[k] = x.a[k]
            BY <5>2, <5>5 DEF Within
          <6>2. PICK e : e = x.a[k]
            OBVIOUS
          <6>3. Null \in At[Tail(path)][e]
            BY <5>1, <6>1, <6>2
          <6>. QED
            BY <2>2, <3>2, <3>5, <4>2, <4>3, <5>2, <6>2, <6>3, AtAbove
        <5>. QED
          BY <5>4, <5>5
      <4>4. CASE Head(path).field # name
        BY <3>9, <4>2, <4>4
      <4>5. CASE Head(path).field = name /\ ~Head(path).all
        BY <3>7, <4>2, <4>5
      <4>. QED
        BY <4>3, <4>4, <4>5
    <3>13. CASE /\ Tail(put) # <<>> /\ ~Head(put).all /\ x.t = "object"
                /\ w = With(v, name, InjectDefault[Tail(put)][x][default])
      <4>1. PICK y : y = InjectDefault[Tail(put)][x][default]
        OBVIOUS
      <4>2. /\ w = With(v, name, y) /\ y \in Json /\ Tail(put) # <<>> /\ x.t = "object"
            /\ Tail(put) \in Path \ {<<>>}
        BY <2>1, <3>4, <3>13, <4>1, PartsOfWith
      <4>3. y.t = "object"
        BY <2>2, <3>4, <4>1, <4>2, InjectedObject
      <4>4. CASE Head(path).field = name /\ ~Head(path).all
        <5>1. Null \in At[Tail(path)][y]
          BY <2>2, <3>4, <3>5, <4>2, <4>4, AtWith
        <5>2. Null \in At[Tail(path)][x]
          BY <2>1, <2>2, <3>4, <3>6, <4>1, <4>2, <5>1 DEF Holds
        <5>. QED
          BY <2>2, <3>2, <3>5, <4>4, <5>2, AtAbove
      <4>. QED
        BY <3>8, <3>9, <4>2, <4>3, <4>4
    <3>. QED
      BY <2>2, <3>1, <3>2, <3>3, <3>10, <3>11, <3>12, <3>13, InjectCases
  <2>3. Holds(put)
    BY <2>2 DEF Holds
  <2>. QED
    BY <2>3
<1>3. T = Path
  <2>. HIDE DEF Holds
  <2>1. T \in SUBSET Path
    OBVIOUS
  <2>. HIDE DEF T
  <2>. QED
    BY <1>1, <1>2, <2>1, PathInduction
<1>. QED
  BY <1>3

\* After all the defaults, none of the limits is absent where there is an object for it.
LEMMA DefaultsAreThere ==
    ASSUME NEW limits \in Seq(Limits), NEW raw \in Json, raw.t = "object",
           \A n \in 0..Len(limits) : InjectLimitDefaults(raw, SubSeq(limits, 1, n)) \in Json
    PROVE  \A n \in 0..Len(limits) :
               /\ InjectLimitDefaults(raw, SubSeq(limits, 1, n)).t = "object"
               /\ \A k \in 1..n : EndsInField(limits[k].path) =>
                      Null \notin At[limits[k].path][InjectLimitDefaults(raw, SubSeq(limits, 1, n))]
<1>. DEFINE args(n) == InjectLimitDefaults(raw, SubSeq(limits, 1, n))
            Holds(n) == n <= Len(limits) =>
               /\ args(n).t = "object"
               /\ \A k \in 1..n : EndsInField(limits[k].path) => Null \notin At[limits[k].path][args(n)]
            T == {n \in Nat : Holds(n)}
<1>1. Len(limits) \in Nat /\ \A k \in 1..Len(limits) : limits[k] \in Limits
  BY ElementOfSeq, LenProperties
<1>2. SubSeq(limits, 1, 0) = <<>>
  BY <1>1, SubSeqProperties, EmptySeq
<1>3. args(0) = raw
  <2>1. <<>> \in Seq(Limits)
    BY EmptySeq
  <2>2. Injected[<<>>][raw] = Inject(<<>>, Injected[Front(<<>>)], raw)
    BY <2>1, InjectedEquation
  <2>. QED
    BY <1>2, <2>2 DEF Inject, InjectLimitDefaults
<1>4. 0 \in T
  <2>. HIDE DEF args
  <2>. QED
    BY <1>3
<1>5. ASSUME NEW n \in T PROVE n + 1 \in T
  <2>. SUFFICES ASSUME n + 1 <= Len(limits)
                PROVE  /\ args(n + 1).t = "object"
                       /\ \A k \in 1..(n + 1) : EndsInField(limits[k].path) =>
                              Null \notin At[limits[k].path][args(n + 1)]
    OBVIOUS
  <2>1. PICK b : b = limits[n + 1]
    OBVIOUS
  <2>2. b \in Limits
    BY <1>1, <2>1
  <2>3. b.path \in Path /\ b.path # <<>> /\ b.default \in Int
    BY <2>2 DEF Limits
  <2>4. PICK some : some = SubSeq(limits, 1, n + 1)
    OBVIOUS
  <2>5. some \in Seq(Limits) /\ some # <<>> /\ Last(some) = b /\ Front(some) = SubSeq(limits, 1, n)
    <3>1. some \in Seq(Limits) /\ Len(some) = n + 1 /\ \A k \in 1..(n + 1) : some[k] = limits[k]
      BY <1>1, <2>4, SubSeqProperties
    <3>2. some # <<>>
      BY <3>1, EmptySeq
    <3>3. /\ Front(some) \in Seq(Limits) /\ Len(Front(some)) = n /\ Last(some) = b
          /\ \A k \in 1..n : Front(some)[k] = limits[k]
      <4>1. /\ Front(some) \in Seq(Limits) /\ Len(Front(some)) = Len(some) - 1
            /\ Last(some) = some[Len(some)]
            /\ \A k \in 1..(Len(some) - 1) : Front(some)[k] = some[k]
        BY <3>1, <3>2, FrontParts
      <4>2. Len(some) - 1 = n /\ n + 1 \in 1..(n + 1) /\ \A k \in 1..n : k \in 1..(n + 1)
        BY <3>1
      <4>. QED
        BY <2>1, <3>1, <4>1, <4>2
    <3>4. /\ SubSeq(limits, 1, n) \in Seq(Limits) /\ Len(SubSeq(limits, 1, n)) = n
          /\ \A k \in 1..n : SubSeq(limits, 1, n)[k] = limits[k]
      BY <1>1, SubSeqProperties
    <3>5. PICK front : front = Front(some)
      OBVIOUS
    <3>6. PICK sub : sub = SubSeq(limits, 1, n)
      OBVIOUS
    <3>7. front = sub
      BY <3>3, <3>4, <3>5, <3>6, SeqEqual
    <3>. QED
      BY <3>1, <3>2, <3>3, <3>5, <3>6, <3>7
  <2>6. n \in 0..Len(limits) /\ n + 1 \in 0..Len(limits)
    BY <1>1
  <2>7. args(n) \in Json /\ args(n + 1) \in Json
    BY <2>6
  <2>8. args(n + 1) = InjectDefault[b.path][args(n)][b.default]
    <3>1. Injected[some][raw] = Inject(some, Injected[Front(some)], raw)
      BY <2>5, InjectedEquation
    <3>. QED
      BY <2>4, <2>5, <3>1 DEF Inject, InjectLimitDefaults
  <2>9. Holds(n) /\ n <= Len(limits)
    BY <1>1, <1>5
  <2>. HIDE DEF args
  <2>10. args(n).t = "object"
    BY <2>9
  <2>11. args(n + 1).t = "object"
    BY <2>3, <2>7, <2>8, <2>10, InjectedObject
  <2>12. ASSUME NEW k \in 1..(n + 1), EndsInField(limits[k].path)
         PROVE  Null \notin At[limits[k].path][args(n + 1)]
    <3>1. CASE k = n + 1
      BY <2>1, <2>3, <2>7, <2>8, <2>10, <2>12, <3>1, DefaultIsThere
    <3>2. CASE k # n + 1
      <4>1. k \in 1..n /\ k \in 1..Len(limits)
        BY <1>1, <2>6, <2>12, <3>2
      <4>2. limits[k].path \in Path
        BY <1>1, <4>1 DEF Limits
      <4>3. Null \notin At[limits[k].path][args(n)]
        BY <2>9, <2>12, <4>1
      <4>. QED
        BY <2>3, <2>7, <2>8, <2>10, <4>2, <4>3, DefaultKeeps
    <3>. QED
      BY <3>1, <3>2
  <2>. QED
    BY <2>11, <2>12
<1>6. T = Nat
  <2>. HIDE DEF Holds
  <2>1. T \in SUBSET Nat
    OBVIOUS
  <2>. HIDE DEF T
  <2>. QED
    BY <1>4, <1>5, <2>1, Strings!Induction
<1>. QED
  BY <1>1, <1>6
-----------------------------------------------------------------------------
(* What a request that passes stage 3 has passed *)

\* A name keeps its letters in its normal form.
LEMMA LowerNormal ==
    ASSUME NEW n, NEW b, b.mode \in {"ascii_lower", "ascii_upper", "preserve"},
           NormalizeIdentifier(n, b) # NoName
    PROVE  Lower(NormalizeIdentifier(n, b)) = Lower(n)
<1>1. PICK upper : upper = [n EXCEPT !.form = "upper"]
  OBVIOUS
<1>2. \/ NormalizeIdentifier(n, b) = Lower(n) \/ NormalizeIdentifier(n, b) = upper
      \/ NormalizeIdentifier(n, b) = n
  BY <1>1 DEF NormalizeIdentifier
<1>3. Lower(Lower(n)) = Lower(n)
  BY DEF Lower
<1>4. Lower(upper) = Lower(n)
  BY <1>1 DEF Lower
<1>. QED
  BY <1>2, <1>3, <1>4

\* A binding that has found names has found all there are, and each has a normal form.
LEMMA NamesFound ==
    ASSUME NEW b, b.path \in Path, b.optional \in BOOLEAN, NEW args \in Json,
           Extracted(args, b).err = ""
    PROVE  \A v \in At[b.path][args] \ {Null} :
               /\ NormalizeIdentifier(v.s, b) \in Extracted(args, b).vals
               /\ NormalizeIdentifier(v.s, b) # NoName
<1>1. PICK r : r = ExtractStrings[b.path][args][b.optional]
  OBVIOUS
<1>2. PICK names : names = {NormalizeIdentifier(n, b) : n \in r.vals}
  OBVIOUS
<1>3. Extracted(args, b) = IF r.err # "" THEN r
                           ELSE IF NoName \in names THEN Fails("name") ELSE Found(names)
  BY <1>1, <1>2 DEF Extracted
<1>a. r.err = ""
  BY <1>3
<1>b. NoName \notin names
  <2>1. NoName \in names => Extracted(args, b).err = "name"
    BY <1>3, <1>a, Errors
  <2>. QED
    BY <2>1
<1>c. Extracted(args, b).vals = names
  BY <1>3, <1>a, <1>b, Errors
<1>4. r.err = "" /\ NoName \notin names /\ Extracted(args, b).vals = names
  BY <1>a, <1>b, <1>c
<1>5. ASSUME NEW v \in At[b.path][args] \ {Null}
      PROVE  NormalizeIdentifier(v.s, b) \in names
  <2>1. v.s \in r.vals
    BY <1>1, <1>4, StringsFound
  <2>. QED
    BY <1>2, <2>1
<1>. QED
  BY <1>4, <1>5

\* A check of which no part fails says so of each part.
LEMMA AllPass ==
    ASSUME NEW errs, DOMAIN errs \subseteq Nat, FirstError(errs) = ""
    PROVE  \A k \in DOMAIN errs : errs[k] = ""
BY FirstErrorIsOne

\* What is decoded of the bindings of a tool
Bound(bs) == DOMAIN bs \subseteq Nat /\ \A k \in DOMAIN bs : bs[k].path \in Path \ {<<>>}
Naming(bs) ==
    \A k \in DOMAIN bs : /\ bs[k].mode \in {"ascii_lower", "ascii_upper", "preserve"}
                         /\ bs[k].optional \in BOOLEAN

\* A value of a function is in its range.
LEMMA InRange == \A f : \A x \in DOMAIN f : f[x] \in Range(f)
BY DEF Range

\* The bindings of a decoded tool policy, one by one.
LEMMA DecodedParts ==
    ASSUME NEW tp, Decoded(tp)
    PROVE  /\ tp.primary \in Path /\ tp.limits \in Seq(Limits)
           /\ tp.sod # <<>> => 1 \in DOMAIN tp.sod /\ 2 \in DOMAIN tp.sod
           /\ Bound(tp.protected) /\ Bound(tp.subjects) /\ Bound(tp.sod) /\ Bound(tp.arrays)
           /\ Bound(tp.constraints) /\ Bound(tp.limits)
           /\ Naming(tp.protected) /\ Naming(tp.subjects) /\ Naming(tp.sod)
           /\ \A k \in DOMAIN tp.arrays : tp.arrays[k].max \in Int
           /\ \A k \in DOMAIN tp.limits : tp.limits[k].max \in Int /\ tp.limits[k].default \in Int
           /\ \A k \in DOMAIN tp.constraints :
                  /\ tp.constraints[k].optional \in BOOLEAN
                  /\ tp.constraints[k].kind \in {"required", "allow", "bounds"}
<1>1. ASSUME NEW bs \in Bindings(tp) PROVE Bound(bs)
  <2>1. bs \in Seq(Range(bs)) /\ \A b \in Range(bs) : b.path \in Path \ {<<>>}
    BY DEF Decoded
  <2>2. DOMAIN bs \subseteq Nat
    BY <2>1, LenProperties
  <2>. QED
    BY <2>1, <2>2, InRange DEF Bound
<1>2. tp.limits \in Seq(Limits) /\ tp.primary \in Path
  BY DEF Decoded
<1>3. /\ DOMAIN tp.limits \subseteq Nat
      /\ \A k \in DOMAIN tp.limits : tp.limits[k] \in Limits
  BY <1>2, ElementOfSeq, LenProperties
<1>4. \A k \in DOMAIN tp.limits : /\ tp.limits[k].path \in Path \ {<<>>} /\ tp.limits[k].max \in Int
                                   /\ tp.limits[k].default \in Int
  BY <1>3 DEF Limits
<1>5. Bound(tp.limits)
  BY <1>3, <1>4 DEF Bound
<1>6. /\ Bound(tp.protected) /\ Bound(tp.subjects) /\ Bound(tp.sod) /\ Bound(tp.arrays)
      /\ Bound(tp.constraints)
  BY <1>1 DEF Bindings
<1>7. Naming(tp.protected) /\ Naming(tp.subjects) /\ Naming(tp.sod)
  <2>1. \A b \in Range(tp.protected) \cup Range(tp.subjects) \cup Range(tp.sod) :
           b.mode \in {"ascii_lower", "ascii_upper", "preserve"} /\ b.optional \in BOOLEAN
    BY DEF Decoded
  <2>. QED
    BY <2>1, InRange DEF Naming
<1>8. /\ \A b \in Range(tp.arrays) : b.max \in Int
      /\ \A k \in Range(tp.constraints) :
             k.optional \in BOOLEAN /\ k.kind \in {"required", "allow", "bounds"}
  BY DEF Decoded
<1>9. tp.sod # <<>> => 1 \in DOMAIN tp.sod /\ 2 \in DOMAIN tp.sod
  <2>1. tp.sod \in Seq(Range(tp.sod)) /\ Len(tp.sod) \in {0, 2}
    BY DEF Decoded, Bindings
  <2>2. PICK sod : sod = tp.sod
    OBVIOUS
  <2>3. sod # <<>> => Len(sod) = 2
    BY <2>1, <2>2, EmptySeq
  <2>4. DOMAIN sod = 1..Len(sod)
    BY <2>1, <2>2, LenProperties
  <2>. QED
    BY <2>2, <2>3, <2>4
<1>. QED
  BY <1>2, <1>4, <1>5, <1>6, <1>7, <1>8, <1>9, InRange

\* The tool policies of a deployment are decoded.
LEMMA DecodedTools ==
    ASSUME NEW d \in Deployments, NEW v \in DOMAIN d.runs,
           NEW t \in DOMAIN d.runs[v].policy.tools
    PROVE  Decoded(d.runs[v].policy.tools[t])
<1>1. d.runs[v] \in Range(d.runs)
  BY InRange
<1>2. \A tp \in Range(d.runs[v].policy.tools) : Decoded(tp)
  BY <1>1, DeploymentsAssumption
<1>. QED
  BY <1>2, InRange

\* The checks of stage 3 that look at nothing but the arguments and the caller
PassesStage3(pol, tp, args, who) ==
    /\ \A k \in DOMAIN tp.protected : ProtectedTargets(pol, args, tp.protected[k]) = ""
    /\ \A k \in DOMAIN tp.subjects : SubjectTargets(tp, args, tp.subjects[k], who) = ""
    /\ \A k \in DOMAIN tp.sod : Extracted(args, tp.sod[k]).err = ""
    /\ \A k \in DOMAIN tp.arrays : CheckArrayCapAtPath[tp.arrays[k].path][args][tp.arrays[k].max] = ""
    /\ \A k \in DOMAIN tp.limits : CheckLimitCapAtPath[tp.limits[k].path][args][tp.limits[k].max] = ""

\* What stage 3 lets through passes each of its checks.
LEMMA PassedStage3 ==
    ASSUME NEW pol, NEW tp, Decoded(tp), NEW args, NEW who, NEW granted,
           Stage3(pol, tp, args, who, granted) = ""
    PROVE  /\ PassesStage3(pol, tp, args, who)
           /\ ~CheckSoDRules(pol, Subjects(tp, args), Entitlements(tp, args), granted)
<1>. DEFINE primary == IF WriteTool(tp) THEN ExtractStrings[tp.primary][args][FALSE].err ELSE ""
            protected == [k \in DOMAIN tp.protected |-> ProtectedTargets(pol, args, tp.protected[k])]
            subjects == [k \in DOMAIN tp.subjects |-> SubjectTargets(tp, args, tp.subjects[k], who)]
            sod == [k \in DOMAIN tp.sod |-> Extracted(args, tp.sod[k]).err]
            duties == IF CheckSoDRules(pol, Subjects(tp, args), Entitlements(tp, args), granted)
                      THEN "sod" ELSE ""
            arrays == [k \in DOMAIN tp.arrays |->
                          CheckArrayCapAtPath[tp.arrays[k].path][args][tp.arrays[k].max]]
            limits == [k \in DOMAIN tp.limits |->
                          CheckLimitCapAtPath[tp.limits[k].path][args][tp.limits[k].max]]
            constraints == [k \in DOMAIN tp.constraints |-> Constrained(args, tp.constraints[k])]
<1>1. primary ?? FirstError(protected) ?? FirstError(subjects) ?? FirstError(sod) ?? duties
      ?? FirstError(arrays) ?? FirstError(limits) ?? FirstError(constraints) = ""
  BY DEF Stage3
<1>2. /\ DOMAIN protected = DOMAIN tp.protected /\ DOMAIN subjects = DOMAIN tp.subjects
      /\ DOMAIN sod = DOMAIN tp.sod /\ DOMAIN arrays = DOMAIN tp.arrays
      /\ DOMAIN limits = DOMAIN tp.limits
  OBVIOUS
<1>3. /\ DOMAIN protected \subseteq Nat /\ DOMAIN subjects \subseteq Nat /\ DOMAIN sod \subseteq Nat
      /\ DOMAIN arrays \subseteq Nat /\ DOMAIN limits \subseteq Nat
  <2>. HIDE DEF protected, subjects, sod, arrays, limits
  <2>. QED
    BY <1>2, DecodedParts DEF Bound
<1>4. /\ FirstError(protected) = "" /\ FirstError(subjects) = "" /\ FirstError(sod) = ""
      /\ duties = "" /\ FirstError(arrays) = "" /\ FirstError(limits) = ""
  <2>. HIDE DEF primary, protected, subjects, sod, duties, arrays, limits, constraints
  <2>. QED
    BY <1>1 DEF ??
<1>5. /\ \A k \in DOMAIN protected : protected[k] = ""
      /\ \A k \in DOMAIN subjects : subjects[k] = ""
      /\ \A k \in DOMAIN sod : sod[k] = ""
      /\ \A k \in DOMAIN arrays : arrays[k] = ""
      /\ \A k \in DOMAIN limits : limits[k] = ""
  <2>. HIDE DEF protected, subjects, sod, arrays, limits, duties
  <2>. QED
    BY <1>3, <1>4, AllPass
<1>6. \A k \in DOMAIN tp.protected : ProtectedTargets(pol, args, tp.protected[k]) = ""
  BY <1>5
<1>7. \A k \in DOMAIN tp.subjects : SubjectTargets(tp, args, tp.subjects[k], who) = ""
  BY <1>5
<1>8. \A k \in DOMAIN tp.sod : Extracted(args, tp.sod[k]).err = ""
  BY <1>5
<1>9. ~CheckSoDRules(pol, Subjects(tp, args), Entitlements(tp, args), granted)
  BY <1>4
<1>10. \A k \in DOMAIN tp.arrays : CheckArrayCapAtPath[tp.arrays[k].path][args][tp.arrays[k].max] = ""
  BY <1>5
<1>11. \A k \in DOMAIN tp.limits : CheckLimitCapAtPath[tp.limits[k].path][args][tp.limits[k].max] = ""
  BY <1>5
<1>. HIDE DEF protected, subjects, sod, arrays, limits, duties
<1>. QED
  BY <1>6, <1>7, <1>8, <1>9, <1>10, <1>11 DEF PassesStage3
-----------------------------------------------------------------------------
(* The inductive invariant *)

\* The policy that a request was let through by, and that of its tool
PolicyOf(d, r) == d.runs[r.version].policy
ToolOf(d, r) == PolicyOf(d, r).tools[r.tool]

\* The guardrails know the caller by his JWT
Caller(r) == Principal(r.jwt, {}, {})

\* A request that stage 3 lets through, and the caller's arguments that it was made from
Vetted(d, v, r) ==
    LET pol == PolicyOf(d, r)
        tp == ToolOf(d, r)
    IN  /\ r.version \in 1..v /\ r.tool \in DOMAIN pol.tools
        /\ \E raw \in Arguments[r.tool] : r.args = InjectLimitDefaults(raw, tp.limits)
        /\ PassesStage3(pol, tp, r.args, Caller(r))

\* Who gets what by a request, and what a rule takes a name for
Pairs(d, r) ==
    LET tp == ToolOf(d, r)
    IN  IF WriteTool(tp) THEN Subjects(tp, r.args) \X Entitlements(tp, r.args) ELSE {}
Taken(rule, n) == IF rule.folds THEN Lower(n) ELSE n
Conflict(rule) == {Taken(rule, e) : e \in rule.entitlements}

\* No rule keeps what is asked for apart from anything else that is asked for, or that the
\* policy or granted says the same subject has
KeptApart(pol, subjects, requested, granted) ==
    \A rule \in pol.rules : \A s \in subjects, e \in requested : Taken(rule, e) \in Conflict(rule) =>
        /\ \A f \in requested : Taken(rule, f) \in Conflict(rule) => Taken(rule, f) = Taken(rule, e)
        /\ \A h \in pol.static \cup granted :
               Taken(rule, h[1]) = Taken(rule, s) /\ Taken(rule, h[2]) \in Conflict(rule)
               => Taken(rule, h[2]) = Taken(rule, e)

\* The k-th of the requests s goes with those before it
GivenBefore(d, s, k) == UNION {Pairs(d, s[i]) : i \in 1..(k - 1)}
Separate(d, s, k) ==
    LET tp == ToolOf(d, s[k])
    IN  WriteTool(tp) => KeptApart(PolicyOf(d, s[k]), Subjects(tp, s[k].args),
                                   Entitlements(tp, s[k].args), GivenBefore(d, s, k))

JWTs == PerCall \cup {deployment.runs[v].jwt : v \in DOMAIN deployment.runs}
Requests == [tool : Tools, args : Json, jwt : JWTs, version : DOMAIN deployment.runs]

AuthorizeTypeOK ==
    /\ deployment \in Deployments /\ version \in DOMAIN deployment.runs
    /\ call \in [Calls -> Requests \cup {IdleCall}]
    /\ sent \in Seq(Requests)

AuthorizeInv ==
    /\ AuthorizeTypeOK
    /\ \A v \in 1..version : Loads(deployment.runs[v].policy)
    /\ \A c \in Calls : call[c] # IdleCall =>
           Vetted(deployment, version, call[c]) /\ call[c].version = version
    /\ \A k \in DOMAIN sent : /\ Vetted(deployment, version, sent[k])
                              /\ Pairs(deployment, sent[k]) \subseteq grants
                              /\ Separate(deployment, sent, k)

\* A subset of a set of fewer than two elements has no two of them.
LEMMA AtMostOne ==
    ASSUME NEW S, IsFiniteSet(S), ~(Cardinality(S) >= 2), NEW x \in S, NEW y \in S
    PROVE  x = y
<1>. SUFFICES ASSUME x # y PROVE FALSE
  OBVIOUS
<1>1. IsFiniteSet({x}) /\ Cardinality({x}) = 1
  BY FS_Singleton
<1>2. Cardinality({x} \cup {y}) = 2
  BY <1>1, FS_AddElement
<1>3. Cardinality({x} \cup {y}) <= Cardinality(S)
  <2>1. {x} \cup {y} \in SUBSET S
    OBVIOUS
  <2>. QED
    BY <2>1, FS_Subset
<1>4. Cardinality(S) \in Nat
  BY FS_CardinalityType
<1>. QED
  BY <1>2, <1>3, <1>4

\* A rule has finitely many entitlements, however it takes them.
LEMMA ConflictIsFinite ==
    ASSUME NEW rule, IsFiniteSet(rule.entitlements)
    PROVE  IsFiniteSet(Conflict(rule))
<1>. DEFINE f == [e \in rule.entitlements |-> Taken(rule, e)]
<1>1. f \in Surjection(rule.entitlements, Conflict(rule))
  <2>1. PICK S : S = rule.entitlements
    OBVIOUS
  <2>2. /\ \A e \in S : f[e] = Taken(rule, e) /\ f[e] \in Conflict(rule)
        /\ \A t \in Conflict(rule) : \E e \in S : t = Taken(rule, e)
    BY <2>1 DEF Conflict
  <2>3. f \in [S -> Conflict(rule)]
    BY <2>1, <2>2
  <2>. HIDE DEF f
  <2>. QED
    BY <2>1, <2>2, <2>3 DEF Surjection
<1>. HIDE DEF f
<1>. QED
  BY <1>1, FS_Surjection

\* What the check of the rules says of each request that passes it.
LEMMA RulesKeepApart ==
    ASSUME NEW pol, NEW subjects, NEW requested, NEW granted,
           \A rule \in pol.rules : IsFiniteSet(rule.entitlements),
           ~CheckSoDRules(pol, subjects, requested, granted)
    PROVE  KeptApart(pol, subjects, requested, granted)
<1>1. ASSUME NEW rule \in pol.rules, NEW s \in subjects, NEW e \in requested,
             Taken(rule, e) \in Conflict(rule)
      PROVE  /\ \A f \in requested : Taken(rule, f) \in Conflict(rule) => Taken(rule, f) = Taken(rule, e)
             /\ \A h \in pol.static \cup granted :
                    Taken(rule, h[1]) = Taken(rule, s) /\ Taken(rule, h[2]) \in Conflict(rule)
                    => Taken(rule, h[2]) = Taken(rule, e)
  <2>1. PICK asked : asked = {Taken(rule, n) : n \in requested} \cap Conflict(rule)
    OBVIOUS
  <2>2. PICK known : known = {h \in pol.static \cup granted : Taken(rule, h[1]) = Taken(rule, s)}
    OBVIOUS
  <2>3. PICK had : had = {Taken(rule, g[2]) : g \in known}
    OBVIOUS
  <2>4. ~(asked # {} /\ Cardinality((asked \cup had) \cap Conflict(rule)) >= 2)
    BY <1>1, <2>1, <2>2, <2>3 DEF CheckSoDRules, Taken, Conflict
  <2>5. PICK both : both = (asked \cup had) \cap Conflict(rule)
    OBVIOUS
  <2>6. IsFiniteSet(both)
    <3>1. both \in SUBSET Conflict(rule)
      BY <2>5
    <3>2. IsFiniteSet(Conflict(rule))
      BY <1>1, ConflictIsFinite
    <3>. QED
      BY <3>1, <3>2, FS_Subset
  <2>7. Taken(rule, e) \in asked
    BY <1>1, <2>1
  <2>8. Taken(rule, e) \in both
    BY <1>1, <2>5, <2>7
  <2>9. ~(Cardinality(both) >= 2)
    BY <2>4, <2>5, <2>7
  <2>10. ASSUME NEW f \in requested, Taken(rule, f) \in Conflict(rule)
         PROVE  Taken(rule, f) = Taken(rule, e)
    <3>1. Taken(rule, f) \in both
      BY <2>1, <2>5, <2>10
    <3>. QED
      BY <2>6, <2>8, <2>9, <3>1, AtMostOne
  <2>11. ASSUME NEW h \in pol.static \cup granted,
                Taken(rule, h[1]) = Taken(rule, s), Taken(rule, h[2]) \in Conflict(rule)
         PROVE  Taken(rule, h[2]) = Taken(rule, e)
    <3>1. h \in known
      BY <2>2, <2>11
    <3>2. Taken(rule, h[2]) \in both
      BY <2>3, <2>5, <2>11, <3>1
    <3>. QED
      BY <2>6, <2>8, <2>9, <3>2, AtMostOne
  <2>. QED
    BY <2>10, <2>11
<1>. QED
  BY <1>1 DEF KeptApart
-----------------------------------------------------------------------------
(* What the inductive invariant says of the requests that were sent *)

\* A vetted request is about a tool of its policy.
LEMMA VettedParts ==
    ASSUME AuthorizeTypeOK, NEW r \in Requests, Vetted(deployment, version, r)
    PROVE  /\ r.version \in DOMAIN deployment.runs /\ r.tool \in DOMAIN PolicyOf(deployment, r).tools
           /\ r.tool \in Tools /\ r.args \in Json /\ Decoded(ToolOf(deployment, r))
<1>1. r.version \in DOMAIN deployment.runs /\ r.tool \in Tools /\ r.args \in Json
  BY DEF Requests
<1>2. r.tool \in DOMAIN PolicyOf(deployment, r).tools
  BY DEF Vetted, PassesStage3
<1>. QED
  BY <1>1, <1>2, DecodedTools DEF AuthorizeTypeOK, PolicyOf, ToolOf

\* What was sent is vetted.
LEMMA SentParts ==
    ASSUME AuthorizeInv
    PROVE  \A r \in Range(sent) : r \in Requests /\ Vetted(deployment, version, r)
<1>1. ASSUME NEW k \in DOMAIN sent PROVE sent[k] \in Requests /\ Vetted(deployment, version, sent[k])
  <2>1. sent \in Seq(Requests) /\ Vetted(deployment, version, sent[k])
    BY DEF AuthorizeInv, AuthorizeTypeOK
  <2>. QED
    BY <2>1, ElementOfSeq, LenProperties
<1>. QED
  BY <1>1 DEF Range

\* The policy in force
LEMMA InForce ==
    ASSUME AuthorizeInv
    PROVE  /\ version \in 1..version /\ version \in DOMAIN deployment.runs
           /\ policy = deployment.runs[version].policy /\ Loads(policy)
           /\ deployment \in Deployments /\ deployment.runs[version] \in Range(deployment.runs)
<1>1. deployment \in Deployments /\ version \in DOMAIN deployment.runs
  BY DEF AuthorizeInv, AuthorizeTypeOK
<1>2. deployment.runs \in Seq(Range(deployment.runs))
  BY <1>1, DeploymentsAssumption
<1>3. version \in 1..version
  BY <1>1, <1>2, LenProperties
<1>4. policy = deployment.runs[version].policy
  BY DEF policy
<1>5. Loads(policy)
  BY <1>3, <1>4 DEF AuthorizeInv
<1>. QED
  BY <1>1, <1>3, <1>4, <1>5, InRange

\* What a call is left with is JSON.
LEMMA CleanIsJson ==
    ASSUME AuthorizeInv, NEW t \in Tools, t \in DOMAIN policy.tools, NEW raw \in Arguments[t]
    PROVE  CleanArgs(t, raw) \in Json
<1>1. PICK limits : limits = policy.tools[t].limits
  OBVIOUS
<1>2. limits \in Seq(Limits)
  BY <1>1, InForce, DecodedTools, DecodedParts
<1>3. \A n \in 0..Len(limits) : InjectLimitDefaults(raw, SubSeq(limits, 1, n)) \in Json
  BY <1>1, InForce, InjectionAssumption
<1>4. Len(limits) \in 0..Len(limits) /\ SubSeq(limits, 1, Len(limits)) = limits
  BY <1>2, LenProperties, SubSeqFull
<1>. QED
  BY <1>1, <1>3, <1>4 DEF CleanArgs

\* By the invariant no target is protected and none is the caller.
LEMMA InvSpares == ASSUME AuthorizeInv PROVE TargetsAreSpared
<1>0. AuthorizeTypeOK
  BY DEF AuthorizeInv
<1>1. ASSUME NEW r \in Range(sent), NEW b \in Range(ToolOf(deployment, r).protected),
             NEW c \in b.categories, NEW n \in Named(r, b),
             NEW e \in PolicyOf(deployment, r).categories[c].exact,
             PolicyOf(deployment, r).categories[c].folds \/ InNormalForm(e, b)
      PROVE  Means(n, PolicyOf(deployment, r).categories[c].folds, b)
                 # Means(e, PolicyOf(deployment, r).categories[c].folds, b)
  <2>1. PICK tp : tp = ToolOf(deployment, r)
    OBVIOUS
  <2>2. r \in Requests /\ Vetted(deployment, version, r) /\ Decoded(tp) /\ r.args \in Json
    BY <1>0, <2>1, SentParts, VettedParts
  <2>3. PICK k \in DOMAIN tp.protected : b = tp.protected[k]
    BY <2>1 DEF Range
  <2>4. ProtectedTargets(PolicyOf(deployment, r), r.args, b) = ""
    BY <2>1, <2>2, <2>3 DEF Vetted, PassesStage3
  <2>5. /\ b.path \in Path /\ b.optional \in BOOLEAN
        /\ b.mode \in {"ascii_lower", "ascii_upper", "preserve"}
    BY <2>2, <2>3, DecodedParts DEF Bound, Naming
  <2>6. PICK found : found = Extracted(r.args, b)
    OBVIOUS
  <2>7. PICK cat : cat = PolicyOf(deployment, r).categories[c]
    OBVIOUS
  <2>8. found.err = "" /\ \A m \in found.vals : ~MatchesCategory(m, cat)
    BY <2>4, <2>6, <2>7 DEF ProtectedTargets
  <2>9. PICK v \in At[b.path][r.args] \ {Null} : n = v.s
    BY DEF Named
  <2>10. PICK normal : normal = NormalizeIdentifier(n, b)
    OBVIOUS
  <2>11. normal \in found.vals /\ normal # NoName
    BY <2>2, <2>5, <2>6, <2>8, <2>9, <2>10, NamesFound
  <2>12. ~MatchesCategory(normal, cat)
    BY <2>8, <2>11
  <2>13. CASE cat.folds
    <3>1. Lower(e) # Lower(normal)
      BY <2>7, <2>12, <2>13 DEF MatchesCategory
    <3>2. Lower(normal) = Lower(n)
      BY <2>5, <2>10, <2>11, LowerNormal
    <3>. QED
      BY <2>7, <2>13, <3>1, <3>2 DEF Means
  <2>14. CASE ~cat.folds
    <3>1. e # normal
      BY <2>7, <2>12, <2>14 DEF MatchesCategory
    <3>. QED
      BY <1>1, <2>7, <2>10, <2>14, <3>1 DEF Means, InNormalForm
  <2>. QED
    BY <2>13, <2>14
<1>2. ASSUME NEW r \in Range(sent), ToolOf(deployment, r).forbidSelf,
             NEW b \in Range(ToolOf(deployment, r).subjects), NEW n \in Named(r, b), NEW k \in b.claims
      PROVE  Means(n, FALSE, b) # Means(r.jwt.claims[k].s, FALSE, b)
  <2>1. PICK tp : tp = ToolOf(deployment, r)
    OBVIOUS
  <2>2. r \in Requests /\ Vetted(deployment, version, r) /\ Decoded(tp) /\ r.args \in Json
    BY <1>0, <2>1, SentParts, VettedParts
  <2>3. PICK i \in DOMAIN tp.subjects : b = tp.subjects[i]
    BY <2>1 DEF Range
  <2>4. SubjectTargets(tp, r.args, b, Caller(r)) = ""
    BY <2>1, <2>2, <2>3 DEF Vetted, PassesStage3
  <2>5. b.path \in Path /\ b.optional \in BOOLEAN
    BY <2>2, <2>3, DecodedParts DEF Bound, Naming
  <2>6. PICK found : found = Extracted(r.args, b)
    OBVIOUS
  <2>7. PICK names : names = CallerNames(b, Caller(r))
    OBVIOUS
  <2>8. found.err = "" /\ NoName \notin names /\ found.vals \cap names = {}
    BY <1>2, <2>1, <2>4, <2>6, <2>7 DEF SubjectTargets
  <2>9. PICK v \in At[b.path][r.args] \ {Null} : n = v.s
    BY DEF Named
  <2>10. NormalizeIdentifier(n, b) \in found.vals
    BY <2>2, <2>5, <2>6, <2>8, <2>9, NamesFound
  <2>11. NormalizeIdentifier(r.jwt.claims[k].s, b) \in names
    <3>1. PICK jwt : jwt = r.jwt
      OBVIOUS
    <3>2. Caller(r).jwt = jwt
      BY <3>1 DEF Caller, Principal
    <3>3. PICK claim : claim = IF k \in DOMAIN jwt.claims /\ jwt.claims[k].t = "string"
                               THEN NormalizeIdentifier(jwt.claims[k].s, b) ELSE NoName
      OBVIOUS
    <3>4. claim \in names
      BY <2>7, <3>2, <3>3 DEF CallerNames
    <3>5. claim = NormalizeIdentifier(jwt.claims[k].s, b)
      BY <2>8, <3>3, <3>4
    <3>. QED
      BY <3>1, <3>4, <3>5
  <2>. QED
    BY <2>8, <2>10, <2>11 DEF Means
<1>. QED
  BY <1>1, <1>2 DEF TargetsAreSpared, ToolPolicy, ToolOf, PolicyOf

\* By the invariant limits and arrays are within their bounds.
LEMMA InvLimits == ASSUME AuthorizeInv PROVE LimitsHold
<1>0. AuthorizeTypeOK
  BY DEF AuthorizeInv
<1>1. ASSUME NEW r \in Range(sent), NEW b \in Range(ToolOf(deployment, r).limits),
             NEW v \in At[b.path][r.args]
      PROVE  v.t = "integer" /\ v.n \in 1..b.max
  <2>1. PICK tp : tp = ToolOf(deployment, r)
    OBVIOUS
  <2>2. r \in Requests /\ Vetted(deployment, version, r) /\ Decoded(tp) /\ r.args \in Json
    BY <1>0, <2>1, SentParts, VettedParts
  <2>3. PICK k \in DOMAIN tp.limits : b = tp.limits[k]
    BY <2>1 DEF Range
  <2>4. CheckLimitCapAtPath[b.path][r.args][b.max] = ""
    BY <2>1, <2>2, <2>3 DEF Vetted, PassesStage3
  <2>5. tp.limits \in Seq(Limits) /\ b.path \in Path /\ b.max \in Int
    BY <2>2, <2>3, DecodedParts DEF Bound
  <2>6. \/ v.t = "integer" /\ v.n \in 1..b.max
        \/ v = Null /\ EndsInField(b.path)
    BY <2>2, <2>4, <2>5, LimitsInBounds
  <2>7. ASSUME v = Null, EndsInField(b.path) PROVE FALSE
    <3>1. PICK raw \in Arguments[r.tool] : r.args = InjectLimitDefaults(raw, tp.limits)
      BY <2>1, <2>2 DEF Vetted, PassesStage3
    <3>2. /\ r.tool \in Tools \cap DOMAIN PolicyOf(deployment, r).tools
          /\ deployment \in Deployments /\ deployment.runs[r.version] \in Range(deployment.runs)
      BY <1>0, <2>2, VettedParts, InRange DEF AuthorizeTypeOK
    <3>3. raw \in Json /\ raw.t = "object"
      BY <3>1, <3>2, CallsAssumption
    <3>4. \A n \in 0..Len(tp.limits) : InjectLimitDefaults(raw, SubSeq(tp.limits, 1, n)) \in Json
      BY <2>1, <3>1, <3>2, InjectionAssumption DEF ToolOf, PolicyOf
    <3>5. Len(tp.limits) \in Nat /\ DOMAIN tp.limits = 1..Len(tp.limits)
      BY <2>5, LenProperties
    <3>6. SubSeq(tp.limits, 1, Len(tp.limits)) = tp.limits
      BY <2>5, SubSeqFull
    <3>7. Len(tp.limits) \in 0..Len(tp.limits) /\ k \in 1..Len(tp.limits)
      BY <2>3, <3>5
    <3>8. Null \notin At[b.path][InjectLimitDefaults(raw, SubSeq(tp.limits, 1, Len(tp.limits)))]
      BY <2>3, <2>5, <2>7, <3>3, <3>4, <3>7, DefaultsAreThere
    <3>. QED
      BY <2>7, <3>1, <3>6, <3>8
  <2>. QED
    BY <2>6, <2>7
<1>2. ASSUME NEW r \in Range(sent), NEW b \in Range(ToolOf(deployment, r).arrays),
             NEW v \in At[Capped(b.path)][r.args] \ {Null}
      PROVE  v.t = "array" /\ Len(v.a) <= b.max
  <2>1. PICK tp : tp = ToolOf(deployment, r)
    OBVIOUS
  <2>2. r \in Requests /\ Vetted(deployment, version, r) /\ Decoded(tp) /\ r.args \in Json
    BY <1>0, <2>1, SentParts, VettedParts
  <2>3. PICK k \in DOMAIN tp.arrays : b = tp.arrays[k]
    BY <2>1 DEF Range
  <2>4. CheckArrayCapAtPath[b.path][r.args][b.max] = ""
    BY <2>1, <2>2, <2>3 DEF Vetted, PassesStage3
  <2>5. b.path \in Path /\ b.path # <<>> /\ b.max \in Int
    BY <2>2, <2>3, DecodedParts DEF Bound
  <2>. QED
    BY <2>2, <2>4, <2>5, CapsHold
<1>. QED
  BY <1>1, <1>2 DEF LimitsHold, ToolPolicy, ToolOf, PolicyOf

\* By the policy in force alone, the list shows what can be called.
LEMMA InvLists == ASSUME AuthorizeInv PROVE ListedIsCallable
<1>. SUFFICES ASSUME policy.agent.hide, NEW t \in Tools
              PROVE  LET Passes(meta) ==
                             LET who == ResolvePrincipal(meta)
                             IN  /\ who.err = "" /\ Enabled(t)
                                 /\ AuthorizeToolOBO(who, policy.tools[t].scopes)
                     IN  t \in ToolsList <=> \E meta \in PerCall : Passes(meta)
  BY DEF ListedIsCallable
<1>1. ~policy.auth.perCall
  <2>1. Loads(policy)
    BY InForce
  <2>. QED
    BY <2>1 DEF Loads
<1>2. PICK who : who = ResolvePrincipal(NoJWT)
  OBVIOUS
<1>3. t \in ToolsList <=> who.err = "" /\ Enabled(t) /\ AuthorizeToolOBO(who, policy.tools[t].scopes)
  BY <1>2 DEF ToolsList
<1>4. ASSUME NEW meta \in PerCall, ResolvePrincipal(meta).err = ""
      PROVE  ResolvePrincipal(meta) = who
  <2>1. CASE ~policy.auth.require
    BY <1>2, <2>1 DEF ResolvePrincipal
  <2>2. CASE policy.auth.require
    <3>1. PICK override : override = [err |-> "override"]
      OBVIOUS
    <3>2. override.err # ""
      BY <3>1
    <3>3. meta # NoJWT => ResolvePrincipal(meta) = override
      BY <1>1, <2>2, <3>1 DEF ResolvePrincipal
    <3>4. meta = NoJWT
      BY <1>4, <3>2, <3>3, Zenon
    <3>. QED
      BY <1>2, <3>4
  <2>. QED
    BY <2>1, <2>2
<1>5. NoJWT \in PerCall
  BY CallsAssumption
<1>. QED
  BY <1>2, <1>3, <1>4, <1>5

\* A pair of names that a request gives, as a rule takes them, is one that the rules have
\* been checked for.
LEMMA GivenPairs ==
    ASSUME AuthorizeTypeOK, NEW r \in Requests, Vetted(deployment, version, r), NEW rule,
           NEW g \in Given(r, rule.folds)
    PROVE  /\ WriteTool(ToolOf(deployment, r))
           /\ \E s \in Subjects(ToolOf(deployment, r), r.args),
                 e \in Entitlements(ToolOf(deployment, r), r.args) :
                  g[1] = Taken(rule, s) /\ g[2] = Taken(rule, e)
<1>1. PICK tp : tp = ToolOf(deployment, r)
  OBVIOUS
<1>2. Decoded(tp) /\ r.args \in Json
  BY <1>1, VettedParts
<1>t. ToolPolicy(r) = tp
  BY <1>1 DEF ToolPolicy, ToolOf, PolicyOf
<1>3. WriteTool(tp) /\ tp.sod # <<>>
  BY <1>t DEF Given
<1>4. PICK n \in Named(r, tp.sod[1]), m \in Named(r, tp.sod[2]) :
         g = <<Means(n, rule.folds, tp.sod[1]), Means(m, rule.folds, tp.sod[2])>>
  BY <1>t, <1>3 DEF Given
<1>5. 1 \in DOMAIN tp.sod /\ 2 \in DOMAIN tp.sod
  BY <1>2, <1>3, DecodedParts
<1>6. ASSUME NEW k \in DOMAIN tp.sod, NEW x \in Named(r, tp.sod[k])
      PROVE  \E y \in Extracted(r.args, tp.sod[k]).vals :
                Means(x, rule.folds, tp.sod[k]) = Taken(rule, y)
  <2>1. PICK b : b = tp.sod[k]
    OBVIOUS
  <2>2. /\ b.path \in Path /\ b.optional \in BOOLEAN
        /\ b.mode \in {"ascii_lower", "ascii_upper", "preserve"}
    BY <1>2, <1>6, <2>1, DecodedParts DEF Bound, Naming
  <2>3. Extracted(r.args, b).err = ""
    BY <1>1, <1>6, <2>1 DEF Vetted, PassesStage3
  <2>4. PICK v \in At[b.path][r.args] \ {Null} : x = v.s
    BY <1>6, <2>1 DEF Named
  <2>5. PICK y : y = NormalizeIdentifier(x, b)
    OBVIOUS
  <2>6. y \in Extracted(r.args, b).vals /\ y # NoName
    BY <1>2, <2>2, <2>3, <2>4, <2>5, NamesFound
  <2>7. Lower(y) = Lower(x)
    BY <2>2, <2>5, <2>6, LowerNormal
  <2>8. Means(x, rule.folds, b) = Taken(rule, y)
    BY <2>5, <2>7 DEF Means, Taken
  <2>. QED
    BY <2>1, <2>6, <2>8
<1>7. PICK s \in Extracted(r.args, tp.sod[1]).vals : Means(n, rule.folds, tp.sod[1]) = Taken(rule, s)
  BY <1>4, <1>5, <1>6
<1>8. PICK e \in Extracted(r.args, tp.sod[2]).vals : Means(m, rule.folds, tp.sod[2]) = Taken(rule, e)
  BY <1>4, <1>5, <1>6
<1>9. s \in Subjects(tp, r.args) /\ e \in Entitlements(tp, r.args)
  BY <1>3, <1>7, <1>8 DEF Subjects, Entitlements
<1>10. g[1] = Taken(rule, s) /\ g[2] = Taken(rule, e)
  BY <1>4, <1>7, <1>8
<1>. QED
  BY <1>1, <1>3, <1>9, <1>10

\* By the invariant duties stay separate.
LEMMA InvSeparates == ASSUME AuthorizeInv PROVE DutiesStaySeparate
<1>0. AuthorizeTypeOK
  BY DEF AuthorizeInv
<1>1. ASSUME NEW k \in DOMAIN sent, sent[k].version = version, NEW rule \in policy.rules,
             NEW g \in Given(sent[k], rule.folds), g[2] \in Conflict(rule),
             NEW h \in Static(rule.folds) \cup UNION {Given(sent[i], rule.folds) : i \in 1..k},
             h[1] = g[1], h[2] \in Conflict(rule)
      PROVE  h[2] = g[2]
  <2>1. /\ k \in 1..Len(sent) /\ Len(sent) \in Nat /\ DOMAIN sent = 1..Len(sent)
        /\ \A i \in DOMAIN sent : sent[i] \in Requests /\ Vetted(deployment, version, sent[i])
    <3>1. sent \in Seq(Requests)
      BY <1>0 DEF AuthorizeTypeOK
    <3>. QED
      BY <1>1, <3>1, SentParts, InRange, LenProperties
  <2>2. PICK r : r = sent[k]
    OBVIOUS
  <2>3. PICK tp : tp = ToolOf(deployment, r)
    OBVIOUS
  <2>4. r \in Requests /\ Vetted(deployment, version, r)
    BY <1>1, <2>1, <2>2
  <2>5. PICK s \in Subjects(tp, r.args), e \in Entitlements(tp, r.args) :
           WriteTool(tp) /\ g[1] = Taken(rule, s) /\ g[2] = Taken(rule, e)
    BY <1>0, <1>1, <2>2, <2>3, <2>4, GivenPairs
  <2>6. KeptApart(policy, Subjects(tp, r.args), Entitlements(tp, r.args), GivenBefore(deployment, sent, k))
    <3>1. Separate(deployment, sent, k)
      BY <1>1 DEF AuthorizeInv
    <3>2. policy = PolicyOf(deployment, r)
      BY <1>1, <2>2 DEF policy, PolicyOf
    <3>. QED
      BY <2>2, <2>3, <2>5, <3>1, <3>2 DEF Separate
  <2>7. /\ \A f \in Entitlements(tp, r.args) : Taken(rule, f) \in Conflict(rule) => Taken(rule, f) = g[2]
        /\ \A p \in policy.static \cup GivenBefore(deployment, sent, k) :
               Taken(rule, p[1]) = g[1] /\ Taken(rule, p[2]) \in Conflict(rule) => Taken(rule, p[2]) = g[2]
    BY <1>1, <2>5, <2>6 DEF KeptApart
  <2>8. CASE h \in Static(rule.folds)
    <3>1. PICK p \in policy.static : h = IF rule.folds THEN <<Lower(p[1]), Lower(p[2])>> ELSE p
      BY <2>8 DEF Static
    <3>2. h[1] = Taken(rule, p[1]) /\ h[2] = Taken(rule, p[2])
      BY <3>1 DEF Taken
    <3>. QED
      BY <1>1, <2>7, <3>1, <3>2
  <2>9. ASSUME NEW i \in 1..k, h \in Given(sent[i], rule.folds) PROVE h[2] = g[2]
    <3>1. i \in DOMAIN sent /\ sent[i] \in Requests /\ Vetted(deployment, version, sent[i])
      BY <2>1, <2>9
    <3>2. PICK other : other = ToolOf(deployment, sent[i])
      OBVIOUS
    <3>3. PICK s2 \in Subjects(other, sent[i].args), e2 \in Entitlements(other, sent[i].args) :
             WriteTool(other) /\ h[1] = Taken(rule, s2) /\ h[2] = Taken(rule, e2)
      BY <1>0, <2>9, <3>1, <3>2, GivenPairs
    <3>4. CASE i = k
      BY <1>1, <2>2, <2>3, <2>7, <3>2, <3>3, <3>4
    <3>5. CASE i # k
      <4>1. i \in 1..(k - 1)
        BY <2>1, <2>9, <3>5
      <4>2. PICK p : p = <<s2, e2>>
        OBVIOUS
      <4>3. p \in Pairs(deployment, sent[i])
        BY <3>2, <3>3, <4>2 DEF Pairs
      <4>4. p \in GivenBefore(deployment, sent, k)
        BY <4>1, <4>3 DEF GivenBefore
      <4>5. p[1] = s2 /\ p[2] = e2
        BY <4>2
      <4>. QED
        BY <1>1, <2>7, <3>3, <4>4, <4>5
    <3>. QED
      BY <3>4, <3>5
  <2>. QED
    BY <1>1, <2>8, <2>9
<1>. QED
  BY <1>1 DEF DutiesStaySeparate, ToolPolicy, ToolOf, PolicyOf, Conflict, Taken

\* If no error is one of type, the first is none.
LEMMA NotFirst ==
    ASSUME NEW errs, DOMAIN errs \subseteq Nat, \A k \in DOMAIN errs : errs[k] # "type"
    PROVE  FirstError(errs) # "type"
BY FirstErrorIsOne

\* A binding adds no error of type to those of its walk.
LEMMA ExtractedErrors ==
    ASSUME NEW args, NEW b, ExtractStrings[b.path][args][b.optional].err # "type"
    PROVE  Extracted(args, b).err # "type"
<1>1. PICK r : r = ExtractStrings[b.path][args][b.optional]
  OBVIOUS
<1>2. PICK names : names = {NormalizeIdentifier(n, b) : n \in r.vals}
  OBVIOUS
<1>3. Extracted(args, b) = IF r.err # "" THEN r
                           ELSE IF NoName \in names THEN Fails("name") ELSE Found(names)
  BY <1>1, <1>2 DEF Extracted
<1>4. CASE r.err # ""
  BY <1>1, <1>3, <1>4
<1>5. CASE r.err = "" /\ NoName \in names
  BY <1>3, <1>5, Errors
<1>6. CASE r.err = "" /\ NoName \notin names
  BY <1>3, <1>6, Errors
<1>. QED
  BY <1>4, <1>5, <1>6

\* If the policy of a tool fits its schema, stage 3 does not find a value of another type
\* than it can read in arguments that conform.
LEMMA Stage3Types ==
    ASSUME NEW pol, NEW tp, NEW t \in Tools, Decoded(tp), PathsFit(t, tp),
           WriteTool(tp) => tp.primary # <<>>,
           NEW args \in Json, Conforms[MaxJSONDepth][args][Schema[t]], NEW who, NEW granted
    PROVE  Stage3(pol, tp, args, who, granted) # "type"
<1>. DEFINE primary == IF WriteTool(tp) THEN ExtractStrings[tp.primary][args][FALSE].err ELSE ""
            protected == [k \in DOMAIN tp.protected |-> ProtectedTargets(pol, args, tp.protected[k])]
            subjects == [k \in DOMAIN tp.subjects |-> SubjectTargets(tp, args, tp.subjects[k], who)]
            sod == [k \in DOMAIN tp.sod |-> Extracted(args, tp.sod[k]).err]
            duties == IF CheckSoDRules(pol, Subjects(tp, args), Entitlements(tp, args), granted)
                      THEN "sod" ELSE ""
            arrays == [k \in DOMAIN tp.arrays |->
                          CheckArrayCapAtPath[tp.arrays[k].path][args][tp.arrays[k].max]]
            limits == [k \in DOMAIN tp.limits |->
                          CheckLimitCapAtPath[tp.limits[k].path][args][tp.limits[k].max]]
            constraints == [k \in DOMAIN tp.constraints |-> Constrained(args, tp.constraints[k])]
<1>1. MaxJSONDepth \in 0..MaxJSONDepth /\ Schema[t] \in Schemas
  BY BoundsAssumption, CallsAssumption
<1>2. /\ Bound(tp.protected) /\ Bound(tp.subjects) /\ Bound(tp.sod) /\ Bound(tp.arrays)
      /\ Bound(tp.limits) /\ Bound(tp.constraints)
      /\ Naming(tp.protected) /\ Naming(tp.subjects) /\ Naming(tp.sod)
  BY DecodedParts
<1>3. ASSUME NEW path \in Path, NEW optional \in BOOLEAN, LeafIs(t, path, {"string"})
      PROVE  ExtractStrings[path][args][optional].err # "type"
  <2>1. ResolvePath[path][Schema[t]] = "string"
    BY <1>3 DEF LeafIs
  <2>. QED
    BY <1>1, <2>1, StringsAreStrings
<1>4. ASSUME NEW bs, Bound(bs), Naming(bs), NEW k \in DOMAIN bs, LeafIs(t, bs[k].path, {"string"})
      PROVE  Extracted(args, bs[k]).err # "type"
  <2>1. bs[k].path \in Path /\ bs[k].optional \in BOOLEAN
    BY <1>4 DEF Bound, Naming
  <2>. QED
    BY <1>3, <1>4, <2>1, ExtractedErrors
<1>5. primary # "type"
  <2>1. WriteTool(tp) => LeafIs(t, tp.primary, {"string"}) /\ tp.primary \in Path
    BY DecodedParts DEF PathsFit
  <2>. QED
    BY <1>3, <2>1
<1>6. /\ \A k \in DOMAIN tp.protected : LeafIs(t, tp.protected[k].path, {"string"})
      /\ \A k \in DOMAIN tp.subjects : LeafIs(t, tp.subjects[k].path, {"string"})
      /\ \A k \in DOMAIN tp.sod : LeafIs(t, tp.sod[k].path, {"string"})
  <2>1. \A b \in Range(tp.protected) \cup Range(tp.subjects) \cup Range(tp.sod) :
           LeafIs(t, b.path, {"string"})
    BY DEF PathsFit
  <2>. QED
    BY <2>1, InRange
<1>7. ASSUME NEW k \in DOMAIN tp.protected PROVE protected[k] # "type"
  <2>1. PICK found : found = Extracted(args, tp.protected[k])
    OBVIOUS
  <2>2. found.err # "type"
    BY <1>2, <1>4, <1>6, <1>7, <2>1
  <2>3. ProtectedTargets(pol, args, tp.protected[k]) \in {found.err, "protected", ""}
    BY <2>1 DEF ProtectedTargets
  <2>. QED
    BY <2>2, <2>3
<1>8. ASSUME NEW k \in DOMAIN tp.subjects PROVE subjects[k] # "type"
  <2>1. PICK found : found = Extracted(args, tp.subjects[k])
    OBVIOUS
  <2>2. found.err # "type"
    BY <1>2, <1>4, <1>6, <1>8, <2>1
  <2>3. SubjectTargets(tp, args, tp.subjects[k], who) \in {found.err, "claim", "self", ""}
    BY <2>1 DEF SubjectTargets
  <2>. QED
    BY <2>2, <2>3
<1>9. ASSUME NEW k \in DOMAIN tp.sod PROVE sod[k] # "type"
  BY <1>2, <1>4, <1>6, <1>9
<1>10. duties # "type"
  OBVIOUS
<1>11. ASSUME NEW k \in DOMAIN tp.arrays PROVE arrays[k] # "type"
  <2>1. PICK b : b = tp.arrays[k]
    OBVIOUS
  <2>2. b.path \in Path /\ b.path # <<>> /\ b.max \in Int
    BY <1>2, <1>11, <2>1, DecodedParts DEF Bound
  <2>3. ResolvePath[b.path][Schema[t]] = "array"
    BY <1>11, <2>1, InRange DEF PathsFit, LeafIs
  <2>4. CheckArrayCapAtPath[b.path][args][b.max] # "type"
    BY <1>1, <2>2, <2>3, ArraysAreArrays
  <2>. QED
    BY <2>1, <2>4
<1>12. ASSUME NEW k \in DOMAIN tp.limits PROVE limits[k] # "type"
  <2>1. PICK b : b = tp.limits[k]
    OBVIOUS
  <2>2. b.path \in Path /\ b.max \in Int
    BY <1>2, <1>12, <2>1, DecodedParts DEF Bound
  <2>3. ResolvePath[b.path][Schema[t]] \in Numeric
    BY <1>12, <2>1, InRange DEF PathsFit, LeafIs
  <2>4. CheckLimitCapAtPath[b.path][args][b.max] # "type"
    BY <1>1, <2>2, <2>3, LimitsAreNumbers
  <2>. QED
    BY <2>1, <2>4
<1>13. ASSUME NEW k \in DOMAIN tp.constraints PROVE constraints[k] # "type"
  <2>1. PICK b : b = tp.constraints[k]
    OBVIOUS
  <2>2. /\ b.path \in Path /\ b.optional \in BOOLEAN
        /\ b.kind \in {"required", "allow", "bounds"}
    BY <1>2, <1>13, <2>1, DecodedParts DEF Bound
  <2>3. LeafIs(t, b.path, IF b.kind = "bounds" THEN Numeric ELSE {"string"})
    BY <1>13, <2>1, InRange DEF PathsFit
  <2>4. PICK strings : strings = ExtractStrings[b.path][args][b.optional]
    OBVIOUS
  <2>5. PICK numbers : numbers = ExtractNumbers[b.path][args][b.optional]
    OBVIOUS
  <2>6. CASE b.kind = "bounds"
    <3>1. ResolvePath[b.path][Schema[t]] \in Numeric
      BY <2>3, <2>6 DEF LeafIs
    <3>2. numbers.err # "type"
      BY <1>1, <2>2, <2>5, <3>1, NumbersAreNumbers
    <3>3. Constrained(args, b) \in {numbers.err, "constraint", ""}
      BY <2>5, <2>6 DEF Constrained, ??
    <3>. QED
      BY <2>1, <3>2, <3>3
  <2>7. CASE b.kind # "bounds"
    <3>1. strings.err # "type"
      BY <1>3, <2>2, <2>3, <2>4, <2>7
    <3>2. Constrained(args, b) \in {strings.err, "constraint", ""}
      BY <2>2, <2>4, <2>7 DEF Constrained, ??
    <3>. QED
      BY <2>1, <3>1, <3>2
  <2>. QED
    BY <2>6, <2>7
<1>14. /\ DOMAIN protected = DOMAIN tp.protected /\ DOMAIN subjects = DOMAIN tp.subjects
       /\ DOMAIN sod = DOMAIN tp.sod /\ DOMAIN arrays = DOMAIN tp.arrays
       /\ DOMAIN limits = DOMAIN tp.limits /\ DOMAIN constraints = DOMAIN tp.constraints
  OBVIOUS
<1>15. Stage3(pol, tp, args, who, granted) =
           primary ?? FirstError(protected) ?? FirstError(subjects) ?? FirstError(sod) ?? duties
           ?? FirstError(arrays) ?? FirstError(limits) ?? FirstError(constraints)
  BY DEF Stage3
<1>. HIDE DEF primary, protected, subjects, sod, duties, arrays, limits, constraints
<1>16. /\ FirstError(protected) # "type" /\ FirstError(subjects) # "type" /\ FirstError(sod) # "type"
       /\ FirstError(arrays) # "type" /\ FirstError(limits) # "type" /\ FirstError(constraints) # "type"
  BY <1>2, <1>7, <1>8, <1>9, <1>11, <1>12, <1>13, <1>14, NotFirst DEF Bound
<1>. QED
  BY <1>5, <1>10, <1>15, <1>16 DEF ??

\* No principal is refused with an error of type.
LEMMA PrincipalErrors ==
    \A meta : ResolvePrincipal(meta).err \in {"", "override", "jwt"}
<1>1. \A j, pol : PopulateOBOScopes(j, pol).err \in {"", "jwt"}
  BY DEF PopulateOBOScopes, Principal
<1>. QED
  BY <1>1 DEF ResolvePrincipal

\* By the loading of the policy in force, no type is refused.
LEMMA InvFits == ASSUME AuthorizeInv PROVE PoliciesFit
<1>. SUFFICES ASSUME NEW t \in Tools, NEW meta \in PerCall, NEW raw \in Arguments[t]
              PROVE  Verdict(t, raw, meta) # "type"
  BY DEF PoliciesFit
<1>1. CASE ~Enabled(t)
  BY <1>1 DEF Verdict
<1>2. CASE Enabled(t)
  <2>1. PICK tp : tp = policy.tools[t]
    OBVIOUS
  <2>2. PICK args : args = CleanArgs(t, raw)
    OBVIOUS
  <2>3. PICK who : who = ResolvePrincipal(meta)
    OBVIOUS
  <2>4. PICK verdict : verdict = Stage3(policy, tp, args, who, grants)
    OBVIOUS
  <2>5. Verdict(t, raw, meta) =
           IF ~Conforms[MaxJSONDepth][args][Schema[t]] THEN "schema"
           ELSE IF who.err # "" THEN who.err
           ELSE IF ~AuthorizeToolOBO(who, tp.scopes) THEN "scope"
           ELSE verdict
    BY <1>2, <2>1, <2>2, <2>3, <2>4 DEF Verdict
  <2>6. who.err # "type"
    BY <2>3, PrincipalErrors
  <2>7. t \in DOMAIN policy.tools /\ tp.enabled
    BY <1>2, <2>1 DEF Enabled
  <2>8. Decoded(tp)
    BY <2>1, <2>7, InForce, DecodedTools
  <2>9. ToolFits(policy, t, tp)
    BY <2>1, <2>7, InForce DEF Loads
  <2>10. args \in Json
    BY <2>2, <2>7, InForce, CleanIsJson
  <2>11. Conforms[MaxJSONDepth][args][Schema[t]] => verdict # "type"
    <3>1. PathsFit(t, tp) /\ (WriteTool(tp) => tp.primary # <<>>)
      BY <2>7, <2>9 DEF ToolFits
    <3>. QED
      BY <2>4, <2>8, <2>10, <3>1, Stage3Types
  <2>. QED
    BY <2>5, <2>6, <2>11
<1>. QED
  BY <1>1, <1>2
-----------------------------------------------------------------------------
(* The invariant is inductive *)

\* The invariant holds at first.
LEMMA AuthorizeInit == Init => AuthorizeInv
<1>. SUFFICES ASSUME Init PROVE AuthorizeInv
  OBVIOUS
<1>1. deployment \in Deployments /\ version = 1 /\ Loads(deployment.runs[1].policy)
  BY DEF Init
<1>2. 1 \in DOMAIN deployment.runs
  <2>1. deployment.runs \in Seq(Range(deployment.runs)) /\ deployment.runs # <<>>
    BY <1>1, DeploymentsAssumption
  <2>. QED
    BY <2>1, EmptySeq, LenProperties
<1>3. call \in [Calls -> Requests \cup {IdleCall}] /\ \A c \in Calls : call[c] = IdleCall
  BY DEF Init
<1>4. sent \in Seq(Requests) /\ DOMAIN sent = {}
  BY EmptySeq DEF Init
<1>5. \A v \in 1..version : Loads(deployment.runs[v].policy)
  BY <1>1
<1>. QED
  BY <1>1, <1>2, <1>3, <1>4, <1>5 DEF AuthorizeInv, AuthorizeTypeOK

\* A vetted request stays vetted under later policies.
LEMMA VettedLater ==
    ASSUME NEW d, NEW v, NEW w, 1..v \subseteq 1..w, NEW r, Vetted(d, v, r)
    PROVE  Vetted(d, w, r)
BY DEF Vetted

\* What is kept apart from many is kept apart from fewer.
LEMMA ApartFromFewer ==
    ASSUME NEW pol, NEW subjects, NEW requested, NEW granted, NEW fewer \in SUBSET granted,
           KeptApart(pol, subjects, requested, granted)
    PROVE  KeptApart(pol, subjects, requested, fewer)
BY DEF KeptApart

\* Subjects are checked by the caller's JWT alone.
LEMMA SameCaller ==
    ASSUME NEW tp, NEW args, NEW b, NEW one, NEW other, one.jwt = other.jwt,
           one.anonymous = other.anonymous, SubjectTargets(tp, args, b, one) = ""
    PROVE  SubjectTargets(tp, args, b, other) = ""
<1>1. PICK names : names = CallerNames(b, one)
  OBVIOUS
<1>2. CallerNames(b, other) = names
  BY <1>1 DEF CallerNames
<1>3. PICK found : found = Extracted(args, b)
  OBVIOUS
<1>. QED
  BY <1>1, <1>2, <1>3 DEF SubjectTargets

\* A principal comes with the JWT of the call or that of the start.
LEMMA PrincipalParts ==
    ASSUME NEW meta \in PerCall, version \in DOMAIN deployment.runs,
           NEW who, who = ResolvePrincipal(meta), who.err = ""
    PROVE  who.jwt \in JWTs /\ who.anonymous = (who.jwt = NoJWT)
<1>1. PICK startup : startup = deployment.runs[version].jwt
  OBVIOUS
<1>2. NoJWT \in JWTs /\ meta \in JWTs /\ startup \in JWTs
  BY <1>1, CallsAssumption DEF JWTs
<1>3. ASSUME NEW j, NEW pol, PopulateOBOScopes(j, pol).err = "", who = PopulateOBOScopes(j, pol)
      PROVE  who.jwt = j /\ who.anonymous = (j = NoJWT)
  <2>1. PICK refused : refused = [err |-> "jwt"]
    OBVIOUS
  <2>2. refused.err # ""
    BY <2>1
  <2>3. \/ PopulateOBOScopes(j, pol) = refused
        \/ \E human, agent : PopulateOBOScopes(j, pol) = Principal(j, human, agent)
    BY <2>1 DEF PopulateOBOScopes
  <2>4. PICK human, agent : PopulateOBOScopes(j, pol) = Principal(j, human, agent)
    BY <1>3, <2>2, <2>3, Zenon
  <2>5. Principal(j, human, agent).jwt = j /\ Principal(j, human, agent).anonymous = (j = NoJWT)
    BY DEF Principal
  <2>. QED
    BY <1>3, <2>4, <2>5, Zenon
<1>4. PICK override : override = [err |-> "override"]
  OBVIOUS
<1>5. PICK refused : refused = [err |-> "jwt"]
  OBVIOUS
<1>6. override.err # "" /\ refused.err # ""
  BY <1>4, <1>5
<1>7. \/ who = override \/ who = refused
      \/ who = PopulateOBOScopes(NoJWT, policy)
      \/ who = PopulateOBOScopes(meta, policy)
      \/ who = PopulateOBOScopes(startup, policy)
  BY <1>1, <1>4, <1>5 DEF ResolvePrincipal
<1>8. ASSUME NEW j \in JWTs, NEW pol, who = PopulateOBOScopes(j, pol)
      PROVE  who.jwt \in JWTs /\ who.anonymous = (who.jwt = NoJWT)
  <2>1. PopulateOBOScopes(j, pol).err = ""
    BY <1>8
  <2>2. who.jwt = j /\ who.anonymous = (j = NoJWT)
    BY <1>3, <1>8, <2>1
  <2>. QED
    BY <2>2
<1>. QED
  BY <1>2, <1>6, <1>7, <1>8, Zenon

\* What goes on to the ledger has been vetted.
LEMMA RequestIsVetted ==
    ASSUME AuthorizeInv, NEW t \in Tools, NEW meta \in PerCall, NEW raw \in Arguments[t],
           Verdict(t, raw, meta) = ""
    PROVE  /\ Request(t, raw, meta) \in Requests
           /\ Vetted(deployment, version, Request(t, raw, meta))
           /\ Request(t, raw, meta).version = version
<1>1. Enabled(t)
  BY DEF Verdict
<1>2. PICK tp : tp = policy.tools[t]
  OBVIOUS
<1>3. PICK args : args = CleanArgs(t, raw)
  OBVIOUS
<1>4. PICK who : who = ResolvePrincipal(meta)
  OBVIOUS
<1>5. who.err = "" /\ Stage3(policy, tp, args, who, grants) = ""
  <2>1. PICK verdict : verdict = Stage3(policy, tp, args, who, grants)
    OBVIOUS
  <2>2. IF ~Conforms[MaxJSONDepth][args][Schema[t]] THEN "schema" = ""
        ELSE IF who.err # "" THEN who.err = ""
        ELSE IF ~AuthorizeToolOBO(who, tp.scopes) THEN "scope" = ""
        ELSE verdict = ""
    BY <1>1, <1>2, <1>3, <1>4, <2>1 DEF Verdict
  <2>. QED
    BY <2>1, <2>2
<1>6. PICK r : r = Request(t, raw, meta)
  OBVIOUS
<1>7. r = [tool |-> t, args |-> args, jwt |-> who.jwt, version |-> version]
  BY <1>3, <1>4, <1>6 DEF Request
<1>8. r.tool = t /\ r.args = args /\ r.jwt = who.jwt /\ r.version = version
  BY <1>7
<1>9. t \in DOMAIN policy.tools
  BY <1>1 DEF Enabled
<1>10. args \in Json
  BY <1>3, <1>9, CleanIsJson
<1>11. who.jwt \in JWTs /\ who.anonymous = (who.jwt = NoJWT)
  BY <1>4, <1>5, InForce, PrincipalParts
<1>12. r \in Requests
  BY <1>7, <1>10, <1>11, InForce DEF Requests
<1>13. PolicyOf(deployment, r) = policy /\ ToolOf(deployment, r) = tp
  BY <1>2, <1>8, InForce DEF PolicyOf, ToolOf
<1>14. Decoded(tp)
  BY <1>2, <1>9, InForce, DecodedTools
<1>15. args = InjectLimitDefaults(raw, tp.limits)
  BY <1>2, <1>3 DEF CleanArgs
<1>16. Caller(r).jwt = who.jwt /\ Caller(r).anonymous = who.anonymous
  BY <1>8, <1>11 DEF Caller, Principal
<1>17. PassesStage3(policy, tp, args, who)
  BY <1>5, <1>14, PassedStage3, Zenon
<1>18. \A k \in DOMAIN tp.subjects : SubjectTargets(tp, args, tp.subjects[k], Caller(r)) = ""
  BY <1>16, <1>17, SameCaller DEF PassesStage3
<1>19. PassesStage3(policy, tp, args, Caller(r))
  BY <1>17, <1>18 DEF PassesStage3
<1>20. Vetted(deployment, version, r)
  BY <1>8, <1>9, <1>13, <1>15, <1>19, InForce DEF Vetted
<1>. QED
  BY <1>6, <1>8, <1>12, <1>20

\* One more request, which goes with what is granted already
LEMMA OneMoreSent ==
    ASSUME AuthorizeInv, NEW r \in Requests, Vetted(deployment, version, r),
           NEW granted, grants \subseteq granted, Pairs(deployment, r) \subseteq granted,
           WriteTool(ToolOf(deployment, r)) =>
               KeptApart(PolicyOf(deployment, r), Subjects(ToolOf(deployment, r), r.args),
                         Entitlements(ToolOf(deployment, r), r.args), grants),
           NEW s, s = Append(sent, r)
    PROVE  /\ s \in Seq(Requests)
           /\ \A k \in DOMAIN s : /\ Vetted(deployment, version, s[k])
                                  /\ Pairs(deployment, s[k]) \subseteq granted
                                  /\ Separate(deployment, s, k)
<1>1. PICK n \in Nat : /\ DOMAIN sent = 1..n /\ s \in Seq(Requests) /\ DOMAIN s = 1..(n + 1)
                       /\ s[n + 1] = r /\ \A k \in 1..n : s[k] = sent[k]
  <2>1. sent \in Seq(Requests)
    BY DEF AuthorizeInv, AuthorizeTypeOK
  <2>2. Len(sent) \in Nat /\ DOMAIN sent = 1..Len(sent)
    BY <2>1, LenProperties
  <2>3. /\ s \in Seq(Requests) /\ Len(s) = Len(sent) + 1 /\ s[Len(sent) + 1] = r
        /\ \A k \in 1..Len(sent) : s[k] = sent[k]
    BY <2>1, AppendProperties
  <2>4. DOMAIN s = 1..Len(s)
    BY <2>3, LenProperties
  <2>. QED
    BY <2>2, <2>3, <2>4
<1>2. \A k \in 1..n : /\ Vetted(deployment, version, sent[k])
                      /\ Pairs(deployment, sent[k]) \subseteq grants
                      /\ Separate(deployment, sent, k)
  BY <1>1 DEF AuthorizeInv
<1>3. ASSUME NEW k \in 1..n
      PROVE  /\ Vetted(deployment, version, s[k])
             /\ Pairs(deployment, s[k]) \subseteq granted
             /\ Separate(deployment, s, k)
  <2>1. GivenBefore(deployment, s, k) = GivenBefore(deployment, sent, k)
    <3>1. \A i \in 1..(k - 1) : i \in 1..n /\ s[i] = sent[i]
      BY <1>1, <1>3
    <3>. QED
      BY <3>1 DEF GivenBefore
  <2>2. s[k] = sent[k]
    BY <1>1, <1>3
  <2>3. Separate(deployment, s, k)
    BY <1>2, <1>3, <2>1, <2>2 DEF Separate
  <2>. QED
    BY <1>2, <1>3, <2>2, <2>3
<1>4. Separate(deployment, s, n + 1)
  <2>1. GivenBefore(deployment, s, n + 1) \in SUBSET grants
    <3>1. \A i \in 1..((n + 1) - 1) : s[i] = sent[i] /\ Pairs(deployment, sent[i]) \subseteq grants
      BY <1>1, <1>2
    <3>. QED
      BY <3>1 DEF GivenBefore
  <2>2. ASSUME WriteTool(ToolOf(deployment, r))
        PROVE  KeptApart(PolicyOf(deployment, r), Subjects(ToolOf(deployment, r), r.args),
                         Entitlements(ToolOf(deployment, r), r.args), GivenBefore(deployment, s, n + 1))
    BY <2>1, <2>2, ApartFromFewer
  <2>. QED
    BY <1>1, <2>2 DEF Separate
<1>5. \A k \in DOMAIN s : k \in 1..n \/ k = n + 1
  BY <1>1
<1>. QED
  BY <1>1, <1>3, <1>4, <1>5

\* Every step keeps it: only Evaluate and Commit add to what it speaks of.
LEMMA AuthorizeStep == AuthorizeInv /\ [Next]_vars => AuthorizeInv'
<1>. SUFFICES ASSUME AuthorizeInv, [Next]_vars PROVE AuthorizeInv'
  OBVIOUS
<1>0. /\ deployment \in Deployments /\ version \in DOMAIN deployment.runs
      /\ call \in [Calls -> Requests \cup {IdleCall}] /\ sent \in Seq(Requests)
      /\ \A v \in 1..version : Loads(deployment.runs[v].policy)
      /\ \A c \in Calls : call[c] # IdleCall =>
             Vetted(deployment, version, call[c]) /\ call[c].version = version
      /\ \A k \in DOMAIN sent : /\ Vetted(deployment, version, sent[k])
                                /\ Pairs(deployment, sent[k]) \subseteq grants
                                /\ Separate(deployment, sent, k)
  BY DEF AuthorizeInv, AuthorizeTypeOK
<1>1. ASSUME UNCHANGED <<deployment, version, call, grants, sent>> PROVE AuthorizeInv'
  <2>1. Requests' = Requests
    BY <1>1 DEF Requests, JWTs
  <2>. QED
    BY <1>0, <1>1, <2>1 DEF AuthorizeInv, AuthorizeTypeOK
<1>2. ASSUME NEW c \in Calls, Evaluate(c) PROVE AuthorizeInv'
  <2>1. PICK t \in Tools, meta \in PerCall : \E raw \in Arguments[t] :
           Verdict(t, raw, meta) = "" /\ call' = [call EXCEPT ![c] = Request(t, raw, meta)]
    BY <1>2 DEF Evaluate
  <2>2. PICK raw \in Arguments[t] :
           Verdict(t, raw, meta) = "" /\ call' = [call EXCEPT ![c] = Request(t, raw, meta)]
    BY <2>1
  <2>3. PICK r : r = Request(t, raw, meta)
    OBVIOUS
  <2>4. r \in Requests /\ Vetted(deployment, version, r) /\ r.version = version
    BY <2>2, <2>3, RequestIsVetted
  <2>5. UNCHANGED <<deployment, version, grants, sent>> /\ call' = [call EXCEPT ![c] = r]
    BY <1>2, <2>2, <2>3 DEF Evaluate
  <2>6. Requests' = Requests
    BY <2>5 DEF Requests, JWTs
  <2>. QED
    BY <1>0, <2>4, <2>5, <2>6 DEF AuthorizeInv, AuthorizeTypeOK
<1>3. ASSUME NEW c \in Calls, Commit(c) PROVE AuthorizeInv'
  <2>1. PICK r : r = call[c]
    OBVIOUS
  <2>2. r \in Requests /\ Vetted(deployment, version, r) /\ r.version = version
    BY <1>0, <1>3, <2>1 DEF Commit
  <2>3. PICK tp : tp = policy.tools[r.tool]
    OBVIOUS
  <2>4. tp = ToolOf(deployment, r) /\ policy = PolicyOf(deployment, r)
    BY <2>2, <2>3, InForce DEF ToolOf, PolicyOf
  <2>5. PICK subjects : subjects = Subjects(tp, r.args)
    OBVIOUS
  <2>6. PICK requested : requested = Entitlements(tp, r.args)
    OBVIOUS
  <2>7. /\ UNCHANGED <<deployment, version>> /\ call' = [call EXCEPT ![c] = IdleCall]
        /\ IF WriteTool(tp)
           THEN /\ ~CheckSoDRules(policy, subjects, requested, grants)
                /\ grants' = grants \cup (subjects \X requested)
                /\ sent' \in {sent, Append(sent, r)}
           ELSE UNCHANGED grants /\ sent' = Append(sent, r)
    BY <1>3, <2>1, <2>3, <2>5, <2>6 DEF Commit
  <2>8. Requests' = Requests
    BY <2>7 DEF Requests, JWTs
  <2>9. Pairs(deployment, r) = IF WriteTool(tp) THEN subjects \X requested ELSE {}
    BY <2>4, <2>5, <2>6 DEF Pairs
  <2>10. grants \subseteq grants' /\ Pairs(deployment, r) \subseteq grants'
    BY <2>7, <2>9
  <2>11. WriteTool(tp) => KeptApart(policy, subjects, requested, grants)
    <3>1. \A rule \in policy.rules : IsFiniteSet(rule.entitlements)
      BY InForce, DeploymentsAssumption
    <3>. QED
      BY <2>7, <3>1, RulesKeepApart
  <2>12. /\ sent' \in Seq(Requests)
         /\ \A k \in DOMAIN sent' : /\ Vetted(deployment, version, sent'[k])
                                    /\ Pairs(deployment, sent'[k]) \subseteq grants'
                                    /\ Separate(deployment, sent', k)
    <3>1. CASE sent' = sent
      BY <1>0, <2>10, <3>1
    <3>2. CASE sent' = Append(sent, r)
      <4>1. PICK s : s = Append(sent, r)
        OBVIOUS
      <4>2. PICK granted : granted = grants'
        OBVIOUS
      <4>3. /\ s \in Seq(Requests)
            /\ \A k \in DOMAIN s : /\ Vetted(deployment, version, s[k])
                                   /\ Pairs(deployment, s[k]) \subseteq granted
                                   /\ Separate(deployment, s, k)
        BY <2>2, <2>4, <2>5, <2>6, <2>10, <2>11, <4>1, <4>2, OneMoreSent
      <4>. QED
        BY <3>2, <4>1, <4>2, <4>3
    <3>. QED
      BY <2>7, <3>1, <3>2
  <2>13. /\ call' \in [Calls -> Requests \cup {IdleCall}]
         /\ \A i \in Calls : call'[i] # IdleCall =>
                Vetted(deployment, version, call'[i]) /\ call'[i].version = version
    BY <1>0, <2>7
  <2>. QED
    BY <1>0, <2>7, <2>8, <2>12, <2>13 DEF AuthorizeInv, AuthorizeTypeOK
<1>4. ASSUME NEW c \in Calls, Refuse(c) PROVE AuthorizeInv'
  <2>1. UNCHANGED <<deployment, version, grants, sent>> /\ call' = [call EXCEPT ![c] = IdleCall]
    BY <1>4 DEF Refuse
  <2>2. Requests' = Requests
    BY <2>1 DEF Requests, JWTs
  <2>. QED
    BY <1>0, <2>1, <2>2 DEF AuthorizeInv, AuthorizeTypeOK
<1>5. ASSUME Restart PROVE AuthorizeInv'
  <2>1. /\ version < Len(deployment.runs) /\ Loads(deployment.runs[version + 1].policy)
        /\ version' = version + 1 /\ call' = [c \in Calls |-> IdleCall]
        /\ UNCHANGED <<deployment, grants, sent>>
    BY <1>5 DEF Restart
  <2>2. deployment.runs \in Seq(Range(deployment.runs))
    BY <1>0, DeploymentsAssumption
  <2>3. /\ version' \in DOMAIN deployment.runs /\ 1..version \subseteq 1..version'
        /\ \A v \in 1..version' : v \in 1..version \/ v = version + 1
    BY <1>0, <2>1, <2>2, LenProperties
  <2>4. \A v \in 1..version' : Loads(deployment.runs[v].policy)
    BY <1>0, <2>1, <2>3
  <2>5. Requests' = Requests
    BY <2>1 DEF Requests, JWTs
  <2>6. \A k \in DOMAIN sent : Vetted(deployment, version', sent[k])
    <3>1. PICK w : w = version'
      OBVIOUS
    <3>2. \A k \in DOMAIN sent : Vetted(deployment, w, sent[k])
      BY <1>0, <2>3, <3>1, VettedLater
    <3>. QED
      BY <3>1, <3>2
  <2>. QED
    BY <1>0, <2>1, <2>3, <2>4, <2>5, <2>6 DEF AuthorizeInv, AuthorizeTypeOK
<1>6. ASSUME Tick PROVE AuthorizeInv'
  BY <1>1, <1>6 DEF Tick
<1>7. ASSUME UNCHANGED vars PROVE AuthorizeInv'
  BY <1>1, <1>7 DEF vars
<1>. QED
  BY <1>2, <1>3, <1>4, <1>5, <1>6, <1>7 DEF Next

\* At all times the calls under way and all that was sent are what stage 3 let through, under
\* policies that were loaded, and each request that was sent goes with those before it.
THEOREM AuthorizeInvariant == Spec => []AuthorizeInv
BY AuthorizeInit, AuthorizeStep, PTL DEF Spec

\* No call changes a protected target or the caller's own access, whatever the spelling,
\* for all policies, schemas, arguments and JWTs.
THEOREM TargetsAreSparedAlways == Spec => []TargetsAreSpared
BY AuthorizeInvariant, InvSpares, PTL

\* Calls, concurrent or one after the other, under one policy or several, never give a
\* subject entitlements that a rule keeps apart.
THEOREM DutiesStaySeparateAlways == Spec => []DutiesStaySeparate
BY AuthorizeInvariant, InvSeparates, PTL

\* Limits and arrays of what is sent are within the bounds of the policy, and limits are there.
THEOREM LimitsHoldAlways == Spec => []LimitsHold
BY AuthorizeInvariant, InvLimits, PTL

\* A policy that was loaded has no binding, cap, limit or constraint that finds another type
\* than it can read in arguments that conform to the schema; a fraction is a number.
THEOREM PoliciesFitAlways == Spec => []PoliciesFit
BY AuthorizeInvariant, InvFits, PTL

\* A gateway that hides tools lists just those that can be called.
THEOREM ListedIsCallableAlways == Spec => []ListedIsCallable
BY AuthorizeInvariant, InvLists, PTL
=============================================================================
