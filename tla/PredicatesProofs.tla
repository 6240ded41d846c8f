---------------------------- MODULE PredicatesProofs ----------------------------
(***************************************************************************)
(* Proofs about Predicates, for any numbers, patterns and expressions.     *)
(* What holds of every predicate is shown of each operator once (Good),    *)
(* and follows for the stack and the query because they hold only          *)
(* predicates that the operators have made.                                *)
(***************************************************************************)
EXTENDS Predicates, SequenceTheorems, TLAPS

\* What is claimed of one predicate.
Good(x) ==
    /\ x \in TermType
    /\ x.pred.yes \cap x.pred.no = {}
    /\ x.pred.evaluate = x.meant
    /\ x.level = 0 => Agrees(x.pred, Obj)
    /\ x.level <= 1 => Agrees(x.pred, Obj \ Nulls("o"))

GoodSeq(s) == s \in Seq(TermType) /\ \A i \in 1 .. Len(s) : Good(s[i])

Built == sql \in BOOLEAN /\ GoodSeq(stack) /\ GoodSeq(query)

-----------------------------------------------------------------------------
(* Sequences of good predicates.                                           *)

LEMMA GoodAppend ==
    ASSUME NEW s, NEW x, GoodSeq(s), Good(x)
    PROVE  GoodSeq(Append(s, x))
<1>1. x \in TermType /\ s \in Seq(TermType)
    BY DEF Good, GoodSeq
<1>2. ASSUME NEW i \in 1 .. Len(Append(s, x)) PROVE Good(Append(s, x)[i])
    BY <1>1, <1>2 DEF GoodSeq
<1> QED
    BY <1>1, <1>2 DEF GoodSeq

LEMMA GoodPop ==
    ASSUME NEW s, GoodSeq(s), s # <<>>
    PROVE  GoodSeq(Front(s)) /\ Good(Last(s)) /\ Len(Front(s)) = Len(s) - 1
<1>1. s \in Seq(TermType) /\ Len(s) \in Nat /\ Len(s) > 0
    BY DEF GoodSeq
<1>2. Good(Last(s))
    BY <1>1 DEF GoodSeq, Last
<1>3. /\ Front(s) \in Seq(TermType)
      /\ Len(Front(s)) = Len(s) - 1
      /\ \A i \in 1 .. Len(s) - 1 : Front(s)[i] = s[i]
    <2> DEFINE n == Len(s) - 1
    <2>1. n \in Int /\ n >= 0 /\ \A i \in 1 .. n : s[i] \in TermType
        BY <1>1
    <2>2. Front(s) = SubSeq(s, 1, n)
        BY DEF Front
    <2> HIDE DEF n
    <2>3. /\ SubSeq(s, 1, n) \in Seq(TermType)
          /\ Len(SubSeq(s, 1, n)) = IF 1 <= n THEN n - 1 + 1 ELSE 0
          /\ \A i \in 1 .. n - 1 + 1 : SubSeq(s, 1, n)[i] = s[1 + i - 1]
        BY <2>1, SubSeqProperties
    <2>4. Len(SubSeq(s, 1, n)) = n /\ \A i \in 1 .. n : SubSeq(s, 1, n)[i] = s[i]
        BY <2>1, <2>3
    <2> QED
        BY <2>2, <2>3, <2>4 DEF n
<1> QED
    BY <1>1, <1>2, <1>3 DEF GoodSeq

-----------------------------------------------------------------------------
(* The operators.                                                          *)

LEMMA GoodNot ==
    ASSUME NEW x, Good(x)
    PROVE  Good(Term(Not(x.pred), Obj \ x.meant, x.level, x.size))
BY DEF Good, Term, Not, TermType, Predicate, Agrees

LEMMA GoodAnd ==
    ASSUME NEW x, NEW y, Good(x), Good(y)
    PROVE  Good(Term(And(x.pred, y.pred), x.meant \cap y.meant,
                     Worse(x.level, y.level), x.size + y.size))
BY DEF Good, Term, And, TermType, Predicate, Agrees, Worse

LEMMA GoodOr ==
    ASSUME NEW x, NEW y, Good(x), Good(y)
    PROVE  Good(Term(Or(x.pred, y.pred), x.meant \cup y.meant,
                     Worse(x.level, y.level), x.size + y.size))
BY DEF Good, Term, Or, TermType, Predicate, Agrees, Worse

-----------------------------------------------------------------------------
(* The comparisons.                                                        *)

\* What the operators of Operator.swift accept on either side.
Comparable(f, v) == (f = "n" /\ v \in Val) \/ (f = "o" /\ v \in Val \cup {Nil})

LEMMA FieldTypes ==
    ASSUME NEW f, NEW v, Comparable(f, v), NEW m \in Obj
    PROVE  /\ m[f] \in Int \/ m[f] = Nil
           /\ v \in Int \/ v = Nil
           /\ f = "n" => m[f] # Nil
BY ConstantsOK DEF Comparable, Obj

LEMMA GoodStored ==
    ASSUME NEW E \in SUBSET Obj, NEW S \in SUBSET Obj, NEW U \in SUBSET Obj,
           NEW l \in 0 .. 2,
           l = 0 => U = {},
           l <= 1 => U \subseteq Nulls("o") /\ E \ Nulls("o") = S \ Nulls("o"),
           l = 0 => E = S
    PROVE  Good(Term(Stored(E, S, U), E, l, 1))
BY DEF Good, Term, Stored, TermType, Predicate, Agrees

LEMMA GoodEqual ==
    ASSUME NEW f, NEW v, Comparable(f, v)
    PROVE  Good(Term(Equal(f, v), {m \in Obj : m[f] = v}, Level(f), 1))
<1> DEFINE S == {m \in Obj : m[f] = v}
           U == IF v = Nil THEN {} ELSE Nulls(f)
<1>1. S \in SUBSET Obj /\ U \in SUBSET Obj /\ Level(f) \in 0 .. 2
    BY DEF Nulls, Level
<1>2. Level(f) = 0 => U = {}
    BY FieldTypes, Level(f) = 0 => f = "n" DEF Nulls, Level
<1>3. U \subseteq Nulls("o")
    BY FieldTypes DEF Nulls, Comparable
<1>4. Good(Term(Stored(S, S, U), S, Level(f), 1))
    <2> HIDE DEF S, U
    <2> QED
        BY <1>1, <1>2, <1>3, GoodStored
<1> QED
    BY <1>4 DEF Equal

LEMMA GoodSmaller ==
    ASSUME NEW f, NEW v, Comparable(f, v)
    PROVE  Good(Term(Smaller(f, v), {m \in Obj : Less(m[f], v)},
                     IF v = Nil THEN 2 ELSE Level(f), 1))
<1> DEFINE E == {m \in Obj : Less(m[f], v)}
           S == {m \in Obj \ Nulls(f) : v # Nil /\ m[f] < v}
           U == IF v = Nil THEN Obj ELSE Nulls(f)
           l == IF v = Nil THEN 2 ELSE Level(f)
<1>1. E \in SUBSET Obj /\ S \in SUBSET Obj /\ U \in SUBSET Obj /\ l \in 0 .. 2
    BY DEF Nulls, Level
<1>2. l <= 1 => U = Nulls(f) /\ v # Nil
    BY DEF Level
<1>3. l <= 1 => U \subseteq Nulls("o")
    BY <1>2, FieldTypes DEF Nulls, Comparable
<1>4. l <= 1 => E \ Nulls(f) = S
    BY <1>2 DEF Less, Nulls
<1>5. l = 0 => Nulls(f) = {} /\ E = S /\ U = {}
    BY <1>2, <1>4, FieldTypes, l = 0 => f = "n" DEF Nulls, Level
<1>6. l <= 1 => E \ Nulls("o") = S \ Nulls("o")
    BY <1>4, <1>5 DEF Nulls, Comparable, Level
<1>7. Good(Term(Stored(E, S, U), E, l, 1))
    <2> HIDE DEF E, S, U, l
    <2> QED
        BY <1>1, <1>3, <1>5, <1>6, GoodStored
<1> QED
    BY <1>7 DEF Smaller

-----------------------------------------------------------------------------
(* The operators made of them: "<" is total where there are values.        *)

LEMMA LessTotal ==
    ASSUME NEW f, NEW v, Comparable(f, v), NEW m \in Obj
    PROVE  Less(v, m[f]) <=> ~(Less(m[f], v) \/ m[f] = v)
BY FieldTypes, ConstantsOK DEF Less

\* A predicate counts as one comparison whatever it is made of.
LEMMA GoodResized ==
    ASSUME NEW x, Good(x)
    PROVE  Good(Term(x.pred, x.meant, x.level, 1))
BY DEF Good, Term, TermType

LEMMA GoodCompare ==
    ASSUME NEW f, NEW v, Comparable(f, v)
    PROVE  LET l == IF v = Nil THEN 2 ELSE Level(f)
           IN  /\ Good(Term(NotEqual(f, v), {m \in Obj : m[f] # v}, Level(f), 1))
               /\ Good(Term(Greater(f, v), {m \in Obj : Less(v, m[f])}, l, 1))
               /\ Good(Term(AtMost(f, v), {m \in Obj : ~Less(v, m[f])}, l, 1))
               /\ Good(Term(AtLeast(f, v), {m \in Obj : ~Less(m[f], v)}, l, 1))
<1> DEFINE l == IF v = Nil THEN 2 ELSE Level(f)
           E == {m \in Obj : m[f] = v}
           S == {m \in Obj : Less(m[f], v)}
           x == Term(Equal(f, v), E, Level(f), 1)
           y == Term(Smaller(f, v), S, l, 1)
           z == Term(Or(y.pred, x.pred), y.meant \cup x.meant,
                     Worse(y.level, x.level), y.size + x.size)
           a == Term(z.pred, z.meant, z.level, 1)
<1>1. Good(x) /\ Good(y)
    BY GoodEqual, GoodSmaller
<1>2. Good(a)
    <2>1. Good(z)
        BY <1>1, GoodOr
    <2> QED
        BY <2>1, GoodResized
<1>3. Worse(l, Level(f)) = l
    BY DEF Worse, Level
<1>4. a = Term(AtMost(f, v), {m \in Obj : ~Less(v, m[f])}, l, 1)
    <2>1. S \cup E = {m \in Obj : ~Less(v, m[f])}
        BY LessTotal
    <2>2. a = Term(AtMost(f, v), S \cup E, l, 1)
        BY <1>3 DEF Term, AtMost
    <2> QED
        BY <2>1, <2>2
<1>5. Term(Not(a.pred), Obj \ a.meant, a.level, a.size)
          = Term(Greater(f, v), {m \in Obj : Less(v, m[f])}, l, 1)
    <2>1. Obj \ {m \in Obj : ~Less(v, m[f])} = {m \in Obj : Less(v, m[f])}
        OBVIOUS
    <2> QED
        BY <1>4, <2>1 DEF Term, Greater, AtMost
<1>6. Term(Not(y.pred), Obj \ y.meant, y.level, y.size)
          = Term(AtLeast(f, v), {m \in Obj : ~Less(m[f], v)}, l, 1)
    <2>1. Obj \ S = {m \in Obj : ~Less(m[f], v)}
        OBVIOUS
    <2> QED
        BY <2>1 DEF Term, AtLeast
<1>7. Term(Not(x.pred), Obj \ x.meant, x.level, x.size)
          = Term(NotEqual(f, v), {m \in Obj : m[f] # v}, Level(f), 1)
    <2>1. Obj \ E = {m \in Obj : m[f] # v}
        OBVIOUS
    <2> QED
        BY <2>1 DEF Term, NotEqual
<1>8. /\ Good(Term(Not(a.pred), Obj \ a.meant, a.level, a.size))
      /\ Good(Term(Not(y.pred), Obj \ y.meant, y.level, y.size))
      /\ Good(Term(Not(x.pred), Obj \ x.meant, x.level, x.size))
    <2> HIDE DEF a, x, y
    <2> QED
        BY <1>1, <1>2, GoodNot
<1> HIDE DEF a, x, y, E, S
<1> QED
    BY <1>2, <1>4, <1>5, <1>6, <1>7, <1>8

LEMMA GoodIsIn ==
    ASSUME NEW f \in {"n", "o"}, NEW vs \in SUBSET Val
    PROVE  Good(Term(IsIn(f, vs), {m \in Obj : m[f] \in vs}, Level(f), 1))
<1> DEFINE S == {m \in Obj : m[f] \in vs}
<1>1. S \in SUBSET Obj /\ Nulls(f) \in SUBSET Obj /\ Level(f) \in 0 .. 2
    BY DEF Nulls, Level
<1>2. Level(f) = 0 => Nulls(f) = {}
    <2>1. ASSUME f = "n", NEW m \in Obj PROVE m[f] # Nil
        BY <2>1, ConstantsOK DEF Obj
    <2> QED
        BY <2>1 DEF Nulls, Level
<1>3. Nulls(f) \subseteq Nulls("o")
    BY ConstantsOK DEF Nulls, Obj
<1>4. Good(Term(Stored(S, S, Nulls(f)), S, Level(f), 1))
    <2> HIDE DEF S
    <2> QED
        BY <1>1, <1>2, <1>3, GoodStored
<1> QED
    BY <1>4 DEF IsIn

LEMMA GoodBetween ==
    ASSUME NEW lo \in Val, NEW hi \in Val
    PROVE  Good(Term(Between(lo, hi), {m \in Obj : lo <= m.n /\ m.n <= hi}, 0, 1))
<1> DEFINE S == {m \in Obj : lo <= m.n /\ m.n <= hi}
<1>1. Good(Term(Stored(S, S, {}), S, 0, 1))
    <2>1. S \in SUBSET Obj
        OBVIOUS
    <2> HIDE DEF S
    <2> QED
        BY <2>1, GoodStored
<1> QED
    BY <1>1 DEF Between

LEMMA GoodMatches ==
    ASSUME NEW p \in Pattern
    PROVE  Good(Term(Matches(p), p.evaluate, 2, 1))
<1>1. p.evaluate \in SUBSET Obj /\ p.like \in SUBSET Obj
    BY ConstantsOK
<1>2. Good(Term(Stored(p.evaluate, p.like, {}), p.evaluate, 2, 1))
    BY <1>1, GoodStored
<1> QED
    BY <1>2 DEF Matches

LEMMA GoodEverything == Good(Term(EmptyPredicate, Obj, 0, 1))
<1>1. Good(Term(Stored(Obj, Obj, {}), Obj, 0, 1))
    BY GoodStored
<1> QED
    BY <1>1 DEF EmptyPredicate

-----------------------------------------------------------------------------
(* The invariant, and what follows from it.                                *)

LEMMA GoodTerms ==
    ASSUME Built
    PROVE  \A x \in Terms : Good(x)
<1> SUFFICES ASSUME NEW i \in DOMAIN (stack \o query)
             PROVE  Good((stack \o query)[i])
    BY DEF Terms, Range
<1>1. stack \in Seq(TermType) /\ query \in Seq(TermType)
    BY DEF Built, GoodSeq
<1>2. CASE i <= Len(stack)
    BY <1>1, <1>2 DEF Built, GoodSeq
<1>3. CASE i > Len(stack)
    BY <1>1, <1>3 DEF Built, GoodSeq
<1> QED
    BY <1>1, <1>2, <1>3

LEMMA PushGood ==
    ASSUME Built, NEW p, NEW S, NEW l, Push(p, S, l), Good(Term(p, S, l, 1))
    PROVE  Built'
<1>1. GoodSeq(Append(stack, Term(p, S, l, 1)))
    BY GoodAppend DEF Built
<1> QED
    BY <1>1 DEF Push, Built, GoodSeq, Good, Agrees, Nulls

LEMMA Induction == Built /\ [Next]_vars => Built'
<1> SUFFICES ASSUME Built, [Next]_vars PROVE Built'
    OBVIOUS
<1>1. CASE Everything
    BY <1>1, PushGood, GoodEverything DEF Everything
<1>2. ASSUME NEW f, NEW v, Comparable(f, v), Compare(f, v) PROVE Built'
    BY <1>2, PushGood, GoodEqual, GoodSmaller, GoodCompare DEF Compare
<1>3. CASE Select
    BY <1>3, PushGood, GoodIsIn, GoodBetween, GoodMatches DEF Select
<1>4. CASE Negate
    <2>1. /\ GoodSeq(Front(stack))
          /\ Good(Last(stack))
        BY <1>4, GoodPop DEF Built, Negate
    <2>2. GoodSeq(stack')
        BY <1>4, <2>1, GoodNot, GoodAppend DEF Negate
    <2> QED
        BY <1>4, <2>2 DEF Negate, Built
<1>5. CASE Combine
    <2>1. /\ GoodSeq(Front(stack)) /\ Good(Last(stack))
          /\ Len(Front(stack)) > 0
        BY <1>5, GoodPop DEF Built, Combine, GoodSeq
    <2>2. /\ GoodSeq(Front(Front(stack))) /\ Good(Last(Front(stack)))
        BY <2>1, GoodPop
    <2>3. GoodSeq(stack')
        BY <1>5, <2>1, <2>2, GoodAnd, GoodOr, GoodAppend DEF Combine
    <2> QED
        BY <1>5, <2>3 DEF Combine, Built
<1>6. CASE NewQuery
    <2>1. GoodSeq(Front(stack)) /\ Good(Last(stack))
        BY <1>6, GoodPop DEF Built, NewQuery
    <2>2. GoodSeq(<<Last(stack)>>)
        BY <2>1 DEF GoodSeq, Good
    <2> QED
        BY <1>6, <2>1, <2>2 DEF NewQuery, Built
<1>7. CASE AddToQuery
    <2>1. GoodSeq(Front(stack)) /\ Good(Last(stack))
        BY <1>7, GoodPop DEF Built, AddToQuery
    <2>2. GoodSeq(Append(query, Last(stack)))
        BY <2>1, GoodAppend DEF Built
    <2> QED
        BY <1>7, <2>1, <2>2 DEF AddToQuery, Built
<1>8. CASE DropQuery
    BY <1>8 DEF DropQuery, Built, GoodSeq
<1>9. CASE UNCHANGED vars
    BY <1>9 DEF vars, Built
<1> QED
    BY <1>1, <1>2, <1>3, <1>4, <1>5, <1>6, <1>7, <1>8, <1>9 DEF Next, Comparable

LEMMA BuiltAlways == Spec => []Built
<1>1. Init => Built
    BY DEF Init, Built, GoodSeq
<1> QED
    BY <1>1, Induction, PTL DEF Spec

\* The types, and that no store holds a predicate both true and false.
THEOREM TypeCorrect == Spec => []TypeOK
<1>1. Built => TypeOK
    BY GoodTerms DEF TypeOK, Good, Built, GoodSeq
<1> QED
    BY <1>1, BuiltAlways, PTL

\* However the operators are nested, evaluate answers what they say.
THEOREM EvaluatesRight == Spec => []EvaluatesAsWritten
<1>1. Built => EvaluatesAsWritten
    BY GoodTerms DEF EvaluatesAsWritten, Good
<1> QED
    BY <1>1, BuiltAlways, PTL

\* A predicate selects the same objects in FileSystemRepository and in any store, where
\* no property is missing and no pattern is asked for.
THEOREM StoresAlwaysAgree == Spec => []StoresAgree
<1>1. Built => StoresAgree
    BY GoodTerms DEF StoresAgree, Good
<1> QED
    BY <1>1, BuiltAlways, PTL

\* So does a query of such predicates.
THEOREM QueriesAlwaysAgree == Spec => []QueriesAgree
<1>1. Built => QueriesAgree
    <2> SUFFICES ASSUME Built, \A i \in 1 .. Len(query) : query[i].level = 0
                 PROVE  Evaluate(query) = CreatePredicate(query)
        BY DEF QueriesAgree
    <2>1. \A i \in 1 .. Len(query) : query[i].pred.evaluate = query[i].pred.yes
        <3> SUFFICES ASSUME NEW i \in 1 .. Len(query)
                     PROVE  query[i].pred.evaluate = query[i].pred.yes
            OBVIOUS
        <3>1. Good(query[i]) /\ query[i].level = 0
            BY DEF Built, GoodSeq
        <3>2. query[i].pred.evaluate \in SUBSET Obj /\ query[i].pred.yes \in SUBSET Obj
            BY <3>1 DEF Good, TermType, Predicate
        <3> QED
            BY <3>1, <3>2 DEF Good, Agrees
    <2> QED
        BY <2>1 DEF Evaluate, CreatePredicate
<1> QED
    BY <1>1, BuiltAlways, PTL
=============================================================================
