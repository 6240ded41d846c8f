-------------------------------- MODULE Predicates --------------------------------
(***************************************************************************)
(* Predicates and queries.  A predicate is used in two ways: FileSystem-   *)
(* Repository calls evaluate on every object, the other repositories hand  *)
(* its NSPredicate to the store.  So a predicate is represented by what it *)
(* selects: the objects on which evaluate is true, and those on which the  *)
(* NSPredicate is true, and false.  It may be neither: a store that works  *)
(* in SQL knows no answer to a comparison with null.                       *)
(*                                                                         *)
(* The program evaluates expressions made of the operators of              *)
(* Operator.swift, whose operands are on a stack, and puts the predicates  *)
(* into a Query.                                                           *)
(***************************************************************************)
EXTENDS Integers, SequencesExt

CONSTANTS
    Val,      \* the numbers that properties hold and predicates compare with
    Nil,      \* no value, of an optional property
    Pattern,  \* regular expressions and substrings: what they select here and there
    MaxSize   \* bound: the comparisons in the stack and the query together

\* Objects with a property n, which is a number, and an optional one, o.
Obj == [n : Val, o : Val \cup {Nil}]

ASSUME ConstantsOK ==
    /\ Val \subseteq Int /\ Nil \notin Int
    /\ Pattern \subseteq [evaluate : SUBSET Obj, like : SUBSET Obj]
    /\ MaxSize \in Nat

VARIABLES
    sql,    \* the store knows three truth values
    stack,  \* the operands of the expression, with what they mean; the last is the top
    query   \* the predicates of a Query

vars == <<sql, stack, query>>

Predicate == [evaluate : SUBSET Obj, yes : SUBSET Obj, no : SUBSET Obj]

-----------------------------------------------------------------------------
(* Predicate.swift and Property.swift.                                     *)

\* An NSPredicate that is true on S and meets a null on U.
Stored(evaluate, S, U) ==
    [evaluate |-> evaluate, yes |-> S, no |-> Obj \ (S \cup (IF sql THEN U ELSE {}))]

\* Optional's "<": no value comes before every value.
Less(l, r) == IF r = Nil THEN FALSE ELSE l = Nil \/ l < r

Nulls(f) == {m \in Obj : m[f] = Nil}

\* EqualPredicate and EqualOptionalPredicate; == with a null on the right is IS NULL.
Equal(f, v) ==
    LET S == {m \in Obj : m[f] = v}
    IN  Stored(S, S, IF v = Nil THEN {} ELSE Nulls(f))

\* SmallerPredicate: no store finds null smaller than anything.
Smaller(f, v) ==
    Stored({m \in Obj : Less(m[f], v)},
           {m \in Obj \ Nulls(f) : v # Nil /\ m[f] < v},
           IF v = Nil THEN Obj ELSE Nulls(f))

\* InPredicate
IsIn(f, vs) == LET S == {m \in Obj : m[f] \in vs} IN Stored(S, S, Nulls(f))

\* ClosedRangePredicate
Between(lo, hi) == LET S == {m \in Obj : lo <= m.n /\ m.n <= hi} IN Stored(S, S, {})

\* RegexPredicate and StringContainsPredicate: evaluate matches one way, the store another.
Matches(p) == Stored(p.evaluate, p.like, {})

EmptyPredicate == Stored(Obj, Obj, {})

\* Mutant: where one side is false the other does not matter.
AndEither(p, q) ==
    [evaluate |-> p.evaluate \cap q.evaluate, yes |-> p.yes \cup q.yes, no |-> p.no \cup q.no]

And(p, q) ==
    [evaluate |-> p.evaluate \cap q.evaluate, yes |-> p.yes \cap q.yes, no |-> p.no \cup q.no]

Or(p, q) ==
    [evaluate |-> p.evaluate \cup q.evaluate, yes |-> p.yes \cup q.yes, no |-> p.no \cap q.no]

\* Mutant: the NSPredicate is that of the original.
NotHereOnly(p) == [evaluate |-> Obj \ p.evaluate, yes |-> p.yes, no |-> p.no]

Not(p) == [evaluate |-> Obj \ p.evaluate, yes |-> p.no, no |-> p.yes]

-----------------------------------------------------------------------------
(* Operator.swift                                                          *)

NotEqual(f, v) == Not(Equal(f, v))

\* Mutant: greater is not smaller.
GreaterOrEqual(f, v) == Not(Smaller(f, v))

Greater(f, v)   == Not(Or(Smaller(f, v), Equal(f, v)))
AtMost(f, v)    == Or(Smaller(f, v), Equal(f, v))
AtLeast(f, v)   == Not(Smaller(f, v))

-----------------------------------------------------------------------------
(* Query.swift                                                             *)

Evaluate(q) == {m \in Obj : \A i \in 1 .. Len(q) : m \in q[i].pred.evaluate}

\* Mutant: orPredicateWithSubpredicates.
CreatePredicateAny(q) == {m \in Obj : \E i \in 1 .. Len(q) : m \in q[i].pred.yes}

\* The objects that the store selects by createPredicate().
CreatePredicate(q) == {m \in Obj : \A i \in 1 .. Len(q) : m \in q[i].pred.yes}

-----------------------------------------------------------------------------
(***************************************************************************)
(* The program.  History: meant is what the predicate says as it is        *)
(* written; level is 0 if it speaks of n only, 1 if of o too, and 2 if it  *)
(* has a pattern in it or asks for the order of something and Nil; size    *)
(* counts its comparisons.                                                 *)
(***************************************************************************)
Term(p, S, l, s) == [pred |-> p, meant |-> S, level |-> l, size |-> s]

Level(f) == IF f = "n" THEN 0 ELSE 1
Worse(k, l) == IF k < l THEN l ELSE k

Size == FoldSeq(LAMBDA x, n : n + x.size, 0, stack \o query)

Init ==
    /\ sql \in BOOLEAN
    /\ stack = <<>>
    /\ query = <<>>

Push(p, S, l) ==
    /\ Size < MaxSize
    /\ stack' = Append(stack, Term(p, S, l, 1))
    /\ UNCHANGED <<sql, query>>

Everything == Push(EmptyPredicate, Obj, 0)

Compare(f, v) ==
    LET l == IF v = Nil THEN 2 ELSE Level(f)
    IN  \/ Push(Equal(f, v),    {m \in Obj : m[f] = v}, Level(f))
        \/ Push(NotEqual(f, v), {m \in Obj : m[f] # v}, Level(f))
        \/ Push(Smaller(f, v),  {m \in Obj : Less(m[f], v)}, l)
        \/ Push(Greater(f, v),  {m \in Obj : Less(v, m[f])}, l)
        \/ Push(AtMost(f, v),   {m \in Obj : ~Less(v, m[f])}, l)
        \/ Push(AtLeast(f, v),  {m \in Obj : ~Less(m[f], v)}, l)

Select ==
    \/ \E f \in {"n", "o"}, vs \in SUBSET Val :
          Push(IsIn(f, vs), {m \in Obj : m[f] \in vs}, Level(f))
    \/ \E lo, hi \in Val :
          lo <= hi /\ Push(Between(lo, hi), {m \in Obj : lo <= m.n /\ m.n <= hi}, 0)
    \/ \E p \in Pattern : Push(Matches(p), p.evaluate, 2)

Negate ==
    /\ stack # <<>>
    /\ LET x == Last(stack)
       IN  stack' = Append(Front(stack), Term(Not(x.pred), Obj \ x.meant, x.level, x.size))
    /\ UNCHANGED <<sql, query>>

Combine ==
    /\ Len(stack) > 1
    /\ LET x == Last(Front(stack))
           y == Last(stack)
           Pop2(p, S) == Append(Front(Front(stack)),
                                Term(p, S, Worse(x.level, y.level), x.size + y.size))
       IN  \/ stack' = Pop2(And(x.pred, y.pred), x.meant \cap y.meant)
           \/ stack' = Pop2(Or(x.pred, y.pred), x.meant \cup y.meant)
    /\ UNCHANGED <<sql, query>>

\* Query(p)
NewQuery ==
    /\ stack # <<>>
    /\ query' = <<Last(stack)>>
    /\ stack' = Front(stack)
    /\ UNCHANGED sql

\* query.add(p)
AddToQuery ==
    /\ stack # <<>> /\ query # <<>>
    /\ query' = Append(query, Last(stack))
    /\ stack' = Front(stack)
    /\ UNCHANGED sql

\* Nobody has the query any more.
DropQuery == query # <<>> /\ query' = <<>> /\ UNCHANGED <<sql, stack>>

Next ==
    \/ Everything
    \/ \E v \in Val : Compare("n", v)
    \/ \E v \in Val \cup {Nil} : Compare("o", v)
    \/ Select
    \/ Negate \/ Combine
    \/ NewQuery \/ AddToQuery \/ DropQuery

Spec == Init /\ [][Next]_vars

-----------------------------------------------------------------------------

Terms == Range(stack \o query)

TermType == [pred : Predicate, meant : SUBSET Obj, level : 0 .. 2, size : Nat]

\* The variables have their types, and no store holds a predicate both true and false.
TypeOK ==
    /\ sql \in BOOLEAN
    /\ stack \in Seq(TermType)
    /\ query \in Seq(TermType)
    /\ \A x \in Terms : x.pred.yes \cap x.pred.no = {}

\* evaluate answers what the operators say, however they are nested: > and <= are made
\* of < and ==, and on optionals no value comes before every value.
EvaluatesAsWritten == \A x \in Terms : x.pred.evaluate = x.meant

\* The store answers as evaluate does on the objects of S.
Agrees(p, S) == p.evaluate \cap S = p.yes \cap S /\ p.no \cap S = S \ p.yes

\* In FileSystemRepository and in a store a predicate selects the same objects, if it
\* speaks of properties that are not optional; if it compares optional ones, then on the
\* objects that have a value there.
StoresAgree ==
    \A x \in Terms :
        /\ x.level = 0 => Agrees(x.pred, Obj)
        /\ x.level <= 1 => Agrees(x.pred, Obj \ Nulls("o"))

\* The same of a query: its conjunction here and its NSCompoundPredicate there.
QueriesAgree ==
    (\A i \in 1 .. Len(query) : query[i].level = 0) => Evaluate(query) = CreatePredicate(query)
===============================================================================
