---------------------------- MODULE Values_proofs ----------------------------
(***************************************************************************)
(* Proofs about Values, for any Pointers and names of functions and any    *)
(* finite number of statements.                                            *)
(***************************************************************************)
EXTENDS Values, FiniteSetTheorems, TLAPS

\* The two sides count alike.
Counts ==
    /\ \A p \in Pointers : refs[p] = Holders(p)
    /\ heap = Holders("bytes")

\* SQLite has what the map knows, or what was used again once it had been destroyed;
\* a statement has a result as long as it has a row.
Known ==
    /\ \A s \in Statements :
          /\ bound[s] \in pointers \cup revived \cup {"null", "bytes"}
          /\ result[s] \in pointers \cup revived \cup {"null", "bytes"}
          /\ pc[s] # "row" => result[s] = "null"
    /\ broken => revived # {}

\* Both, and the types of what an exchange of values changes.
Books ==
    /\ pointers \subseteq made /\ made \subseteq Pointers /\ revived \subseteq made
    /\ refs \in [Pointers -> Nat] /\ heap \in Nat /\ broken \in BOOLEAN
    /\ bound \in [Statements -> Values] /\ result \in [Statements -> Values]
    /\ Counts
    /\ \A t \in Statements : /\ bound[t] \in pointers \cup revived \cup {"null", "bytes"}
                             /\ result[t] \in pointers \cup revived \cup {"null", "bytes"}
    /\ broken => revived # {}

\* Each function has one name, and none that is lost has any.
Registered ==
    /\ FunctionsKnown
    /\ \A n \in Names : defs[n] \notin lost
    /\ \A m, n \in Names : defs[m] = defs[n] => defs[m] = 0 \/ m = n

ValueInv == TypeOK /\ Counts /\ Known /\ Registered

-----------------------------------------------------------------------------
(* Counting.                                                               *)

Is(a, v) == IF a = v THEN 1 ELSE 0

\* How often a value is in the short lists of what is given and let go of.
LEMMA TimesFacts ==
    ASSUME NEW v
    PROVE  /\ Times(v, <<>>) = 0
           /\ \A a : Times(v, <<a>>) = Is(a, v)
           /\ \A a, b : Times(v, <<a, b>>) = Is(a, v) + Is(b, v)
<1> DEFINE At(list) == {i \in 1..Len(list) : list[i] = v}
<1>1. At(<<>>) = {}
  OBVIOUS
<1>2. ASSUME NEW a PROVE At(<<a>>) = IF a = v THEN {1} ELSE {}
  OBVIOUS
<1>3. ASSUME NEW a, NEW b
      PROVE  At(<<a, b>>) = (IF a = v THEN {1} ELSE {}) \cup (IF b = v THEN {2} ELSE {})
  OBVIOUS
<1>4. /\ Cardinality({}) = 0 /\ Cardinality({1}) = 1 /\ Cardinality({2}) = 1
      /\ Cardinality({1} \cup {2}) = 2
  <2>1. IsFiniteSet({1}) /\ Cardinality({1}) = 1 /\ Cardinality({2}) = 1
    BY FS_Singleton
  <2>2. 2 \notin {1}
    OBVIOUS
  <2> QED BY <2>1, <2>2, FS_EmptySet, FS_AddElement
<1>5. ASSUME NEW a PROVE Cardinality(At(<<a>>)) = Is(a, v)
  BY <1>2, <1>4 DEF Is
<1>6. ASSUME NEW a, NEW b PROVE Cardinality(At(<<a, b>>)) = Is(a, v) + Is(b, v)
  <2>1. CASE a = v /\ b = v
    BY <1>3, <1>4, <2>1 DEF Is
  <2>2. CASE a = v /\ b # v
    <3>1. At(<<a, b>>) = {1}
      BY <1>3, <2>2
    <3> QED BY <1>4, <2>2, <3>1 DEF Is
  <2>3. CASE a # v /\ b = v
    <3>1. At(<<a, b>>) = {2}
      BY <1>3, <2>3
    <3> QED BY <1>4, <2>3, <3>1 DEF Is
  <2>4. CASE a # v /\ b # v
    <3>1. At(<<a, b>>) = {}
      BY <1>3, <2>4
    <3> QED BY <1>4, <2>4, <3>1 DEF Is
  <2> QED BY <2>1, <2>2, <2>3, <2>4
<1> QED BY <1>1, <1>4, <1>5, <1>6 DEF Times

\* The value of one statement has changed.
Changed(F, G, s, a) == G = [F EXCEPT ![s] = a]

\* The statements that have a value in one of their places.
Having(F, v) == {t \in Statements : F[t] = v}

LEMMA HavingFacts ==
    ASSUME NEW F, NEW v
    PROVE  /\ IsFiniteSet(Having(F, v)) /\ Cardinality(Having(F, v)) \in Nat
           /\ Cardinality(Having(F, v)) = 0 => \A t \in Statements : F[t] # v
           /\ \A t \in Statements : F[t] = v => Cardinality(Having(F, v)) >= 1
<1>1. IsFiniteSet(Having(F, v))
  BY ConstantsAssumption, FS_Subset DEF Having
<1>2. Cardinality(Having(F, v)) \in Nat /\ (Cardinality(Having(F, v)) = 0 <=> Having(F, v) = {})
  BY <1>1, FS_CardinalityType, FS_EmptySet
<1> QED BY <1>1, <1>2 DEF Having

\* One more statement that has the value it is given, and one less that has the one
\* it had.
LEMMA HavingAfter ==
    ASSUME NEW F \in [Statements -> Values], NEW s \in Statements, NEW a, NEW v,
           NEW G, Changed(F, G, s, a)
    PROVE  Cardinality(Having(G, v)) =
              Cardinality(Having(F, v)) + Is(a, v) - Is(F[s], v)
<1> DEFINE others == Having(F, v) \ {s}
<1>1. IsFiniteSet(others) /\ Cardinality(others) \in Nat /\ s \notin others
  BY HavingFacts, FS_RemoveElement, FS_CardinalityType
<1>2. Cardinality(others \cup {s}) = Cardinality(others) + 1
  BY <1>1, FS_AddElement
<1>3. Having(F, v) = IF F[s] = v THEN others \cup {s} ELSE others
  BY DEF Having
<1>4. Having(G, v) = IF a = v THEN others \cup {s} ELSE others
  BY DEF Having, Changed
<1> HIDE DEF others
<1>5. Cardinality(Having(F, v)) = Cardinality(others) + Is(F[s], v)
  BY <1>1, <1>2, <1>3 DEF Is
<1>6. Cardinality(Having(G, v)) = Cardinality(others) + Is(a, v)
  BY <1>1, <1>2, <1>4 DEF Is
<1>7. Is(a, v) \in Nat /\ Is(F[s], v) \in Nat
  BY DEF Is
<1> QED BY <1>1, <1>5, <1>6, <1>7

\* The places where SQLite has a value when those of one statement change.
LEMMA HoldersAfter ==
    ASSUME TypeOK, NEW s \in Statements, NEW b, NEW r,
           Changed(bound, bound', s, b), Changed(result, result', s, r), NEW v
    PROVE  /\ Holders(v) \in Nat /\ Holders(v)' \in Nat
           /\ Holders(v)' = Holders(v) + (Is(b, v) - Is(bound[s], v)) + (Is(r, v) - Is(result[s], v))
<1>1. /\ Holders(v) = Cardinality(Having(bound, v)) + Cardinality(Having(result, v))
      /\ Holders(v)' = Cardinality(Having(bound', v)) + Cardinality(Having(result', v))
  BY DEF Holders, Having
<1>2. /\ Cardinality(Having(bound, v)) \in Nat /\ Cardinality(Having(result, v)) \in Nat
      /\ Cardinality(Having(bound', v)) \in Nat /\ Cardinality(Having(result', v)) \in Nat
  BY HavingFacts
<1>3. /\ Cardinality(Having(bound', v)) = Cardinality(Having(bound, v)) + Is(b, v) - Is(bound[s], v)
      /\ Cardinality(Having(result', v)) = Cardinality(Having(result, v)) + Is(r, v) - Is(result[s], v)
  <2>1. bound \in [Statements -> Values] /\ result \in [Statements -> Values]
    BY DEF TypeOK
  <2> QED BY <2>1, HavingAfter
<1>4. Is(b, v) \in Nat /\ Is(bound[s], v) \in Nat /\ Is(r, v) \in Nat /\ Is(result[s], v) \in Nat
  BY DEF Is
<1> QED BY <1>1, <1>2, <1>3, <1>4

\* A value that is counted nowhere is in no place.
LEMMA NoHolders ==
    ASSUME NEW v, Holders(v) = 0
    PROVE  \A t \in Statements : bound[t] # v /\ result[t] # v
<1>1. Holders(v) = Cardinality(Having(bound, v)) + Cardinality(Having(result, v))
  BY DEF Holders, Having
<1>2. Cardinality(Having(bound, v)) \in Nat /\ Cardinality(Having(result, v)) \in Nat
  BY HavingFacts
<1>3. Cardinality(Having(bound, v)) = 0 /\ Cardinality(Having(result, v)) = 0
  BY <1>1, <1>2
<1> QED BY <1>3, HavingFacts

-----------------------------------------------------------------------------
(* The exchange of values.                                                 *)

\* Whatever one statement is given and lets go of at once: if the lists say what
\* changes in its two places, and it lets go only of what it had or was given, then
\* the counts stay right, and SQLite knows what it has.
LEMMA ExchangeKeeps ==
    ASSUME ValueInv, NEW s \in Statements, NEW b \in Values, NEW r \in Values, NEW in, NEW out,
           Exchange(in, out),
           Changed(bound, bound', s, b), Changed(result, result', s, r),
           \A v : /\ Times(v, in) \in Nat /\ Times(v, out) \in Nat
                  /\ v # "null" => Times(v, in) - Times(v, out) =
                        (Is(b, v) - Is(bound[s], v)) + (Is(r, v) - Is(result[s], v))
                  /\ Times(v, in) > 0 => v \in made \cup {"null", "bytes"}
                  /\ Times(v, out) > 0 => v \in {bound[s], result[s]} \/ Times(v, in) > 0,
           b = bound[s] \/ b = "null" \/ Times(b, in) > 0,
           r = result[s] \/ r = "null" \/ Times(r, in) > 0
    PROVE  Books'
<1> USE DEF ValueInv
<1> DEFINE new == [p \in Pointers |-> refs[p] + Counted(in, p) - Times(p, out)]
<1>1. /\ refs' = new
      /\ pointers' = pointers \ {p \in Unused(new) : Times(p, out) > 0}
      /\ revived' = revived \cup {p \in made \ pointers : Times(p, in) > 0}
      /\ broken' = \E p \in Pointers \ pointers : Times(p, out) > 0
      /\ heap' = heap + Times("bytes", in) - Times("bytes", out)
      /\ made' = made
  BY DEF Exchange
<1>2. "null" \notin Pointers /\ "bytes" \notin Pointers /\ "bytes" # "null"
  BY ConstantsAssumption
<1>3. bound' \in [Statements -> Values] /\ result' \in [Statements -> Values]
  BY DEF TypeOK, Changed
<1>4. /\ refs' \in [Pointers -> Nat] /\ heap' \in Nat /\ Counts'
      /\ \A p \in Pointers : new[p] = Holders(p)'
  <2>1. ASSUME NEW v, v # "null"
        PROVE  Holders(v)' \in Nat /\ Holders(v)' = Holders(v) + Times(v, in) - Times(v, out)
    <3>1. /\ Holders(v) \in Nat /\ Holders(v)' \in Nat
          /\ Holders(v)' = Holders(v) + (Is(b, v) - Is(bound[s], v)) + (Is(r, v) - Is(result[s], v))
      BY HoldersAfter
    <3>2. /\ Times(v, in) - Times(v, out) = (Is(b, v) - Is(bound[s], v)) + (Is(r, v) - Is(result[s], v))
          /\ Times(v, in) \in Nat /\ Times(v, out) \in Nat
      BY <2>1
    <3>3. Is(b, v) \in Nat /\ Is(bound[s], v) \in Nat /\ Is(r, v) \in Nat /\ Is(result[s], v) \in Nat
      BY DEF Is
    <3> QED BY <3>1, <3>2, <3>3
  <2>2. \A p \in Pointers : new[p] = Holders(p)' /\ new[p] \in Nat
    BY <1>2, <2>1 DEF Counted, Counts
  <2>3. heap' = Holders("bytes")' /\ heap' \in Nat
    BY <1>1, <1>2, <2>1 DEF Counts
  <2> HIDE DEF new
  <2>4. refs' \in [Pointers -> Nat]
    <3>1. new \in [Pointers -> Nat]
      BY <2>2 DEF new
    <3> QED BY <1>1, <3>1
  <2> QED BY <1>1, <2>2, <2>3, <2>4 DEF Counts
<1>5. \A p \in pointers \ pointers' : \A t \in Statements : bound'[t] # p /\ result'[t] # p
  <2> SUFFICES ASSUME NEW p \in pointers, p \notin pointers'
               PROVE  \A t \in Statements : bound'[t] # p /\ result'[t] # p
    OBVIOUS
  <2>1. p \in Pointers /\ new[p] = 0
    BY <1>1 DEF Unused, TypeOK
  <2>2. Holders(p)' = 0
    BY <1>4, <2>1
  <2>3. Holders(p)' = Cardinality(Having(bound', p)) + Cardinality(Having(result', p))
    BY DEF Holders, Having
  <2>4. Cardinality(Having(bound', p)) \in Nat /\ Cardinality(Having(result', p)) \in Nat
    BY HavingFacts
  <2>5. Cardinality(Having(bound', p)) = 0 /\ Cardinality(Having(result', p)) = 0
    BY <2>2, <2>3, <2>4
  <2> QED BY <2>5, HavingFacts
<1> HIDE DEF new
\* What is given is known, or used again.
<1>6. \A v \in Values : Times(v, in) > 0 => v \in pointers \cup revived' \cup {"null", "bytes"}
  BY <1>1 DEF TypeOK
<1>7. \A t \in Statements : /\ bound'[t] \in pointers \cup revived' \cup {"null", "bytes"}
                           /\ result'[t] \in pointers \cup revived' \cup {"null", "bytes"}
  <2> SUFFICES ASSUME NEW t \in Statements
               PROVE  /\ bound'[t] \in pointers \cup revived' \cup {"null", "bytes"}
                      /\ result'[t] \in pointers \cup revived' \cup {"null", "bytes"}
    OBVIOUS
  <2>1. /\ bound[t] \in pointers \cup revived' \cup {"null", "bytes"}
        /\ result[t] \in pointers \cup revived' \cup {"null", "bytes"}
    BY <1>1 DEF Known
  <2>2. bound'[t] = bound[t] \/ bound'[t] = "null" \/ (bound'[t] \in Values /\ Times(bound'[t], in) > 0)
    BY DEF TypeOK, Changed
  <2>3. result'[t] = result[t] \/ result'[t] = "null" \/ (result'[t] \in Values /\ Times(result'[t], in) > 0)
    BY DEF TypeOK, Changed
  <2> QED BY <1>6, <2>1, <2>2, <2>3
<1>8. broken' => revived' # {}
  <2> SUFFICES ASSUME NEW p \in Pointers \ pointers, Times(p, out) > 0 PROVE revived' # {}
    BY <1>1
  <2>1. CASE p \in {bound[s], result[s]}
    BY <1>1, <1>2, <2>1 DEF Known
  <2>2. CASE Times(p, in) > 0
    BY <1>1, <1>2, <2>2
  <2> QED BY <2>1, <2>2
<1>9. pointers' \subseteq made' /\ made' \subseteq Pointers /\ revived' \subseteq made' /\ broken' \in BOOLEAN
  BY <1>1 DEF TypeOK
<1> QED BY <1>3, <1>4, <1>5, <1>7, <1>8, <1>9 DEF Books

-----------------------------------------------------------------------------
(* The steps.                                                              *)

LEMMA InitValueInv == Init => ValueInv
<1> SUFFICES ASSUME Init PROVE ValueInv
  OBVIOUS
<1> USE DEF Init
<1>1. "null" \notin Pointers /\ "bytes" # "null" /\ 0 \in 0..MaxFuncs
  BY ConstantsAssumption
<1>2. TypeOK
  <2>1. 0 \in 0..func_i /\ func_i \in 0..MaxFuncs /\ heap \in Nat
    BY <1>1
  <2>2. refs \in [Pointers -> Nat] /\ defs \in [Names -> 0..func_i]
    BY <2>1
  <2>3. pc \in [Statements -> {"none", "ready", "calling", "row"}]
    OBVIOUS
  <2>4. bound \in [Statements -> Values] /\ result \in [Statements -> Values]
    BY DEF Values
  <2> QED BY <2>1, <2>2, <2>3, <2>4 DEF TypeOK
<1>3. Counts
  <2>1. ASSUME NEW v, v # "null" PROVE Holders(v) = 0
    <3>1. {t \in Statements : bound[t] = v} = {} /\ {t \in Statements : result[t] = v} = {}
      BY <2>1
    <3> QED BY <3>1, FS_EmptySet DEF Holders
  <2> QED BY <1>1, <2>1 DEF Counts
<1>4. Known /\ Registered
  BY DEF Known, Registered, FunctionsKnown
<1> QED BY <1>2, <1>3, <1>4 DEF ValueInv

\* A statement goes on while the functions stay.
LEMMA StatementStep ==
    ASSUME ValueInv, Books', NEW s \in Statements, NEW q \in {"ready", "calling", "row"},
           pc[s] # "none" \/ conn = "open", pc' = [pc EXCEPT ![s] = q],
           NEW r, Changed(result, result', s, r), q # "row" => r = "null",
           UNCHANGED functions
    PROVE  ValueInv'
<1> USE DEF ValueInv, functions
<1>1. TypeOK' /\ Counts'
  BY DEF TypeOK, Books
<1>2. Known'
  BY DEF Known, Books, TypeOK, Changed
<1>3. Registered'
  <2>1. conn # "closed"
    BY DEF Registered, FunctionsKnown
  <2> QED BY <2>1 DEF Registered, FunctionsKnown
<1> QED BY <1>1, <1>2, <1>3

\* A step that exchanges no values.
LEMMA SameBooks ==
    ASSUME ValueInv, UNCHANGED <<registry, bound, result>>
    PROVE  Books'
BY DEF ValueInv, Books, TypeOK, Counts, Holders, Known, registry

LEMMA MakeStep == ASSUME ValueInv, NEW p \in Pointers, Make(p) PROVE ValueInv'
<1> USE DEF ValueInv, Make, statements, functions
<1>1. TypeOK'
  BY DEF TypeOK
<1>2. Counts' /\ Known' /\ Registered'
  BY DEF Counts, Holders, Known, Registered, FunctionsKnown
<1> QED BY <1>1, <1>2

LEMMA PrepareStep == ASSUME ValueInv, NEW s \in Statements, Prepare(s) PROVE ValueInv'
<1>1. Books'
  BY SameBooks DEF Prepare
<1>2. Changed(result, result', s, "null")
  BY DEF Prepare, ValueInv, TypeOK, Known, Changed
<1> QED BY <1>1, <1>2, StatementStep DEF Prepare

\* What a statement has, and that it keeps what it is not given.
LEMMA HasValues ==
    ASSUME ValueInv, NEW s \in Statements
    PROVE  /\ bound[s] \in Values /\ result[s] \in Values /\ "null" \in Values
           /\ bound' = bound => Changed(bound, bound', s, bound[s])
           /\ result' = result => Changed(result, result', s, result[s])
           /\ pc' = pc => pc' = [pc EXCEPT ![s] = pc[s]]
           /\ pc[s] # "row" => result[s] = "null"
BY DEF ValueInv, TypeOK, Known, Changed, Values

\* A value is counted once where it is.
LEMMA IsFacts ==
    \A a, v : Is(a, v) \in Nat /\ (Is(a, v) > 0 <=> a = v) /\ (v # a => Is(a, v) = 0)
BY DEF Is

\* The same, one list at a time.
LEMMA TimesNone == \A v : Times(v, <<>>) = 0
BY TimesFacts
LEMMA TimesOne == \A v, a : Times(v, <<a>>) = Is(a, v)
BY TimesFacts
LEMMA TimesTwo == \A v, a, b : Times(v, <<a, b>>) = Is(a, v) + Is(b, v)
BY TimesFacts

LEMMA BindStep ==
    ASSUME ValueInv, NEW s \in Statements, NEW v \in made \cup {"null", "bytes"}, Bind(s, v)
    PROVE  ValueInv'
<1>1. v \in Values
  BY DEF ValueInv, TypeOK, Values
<1>2. Books'
  <2>1. CASE bound' = [bound EXCEPT ![s] = v] /\ Exchange(<<v>>, <<bound[s]>>)
    <3>1. Changed(bound, bound', s, v) /\ Changed(result, result', s, result[s])
      BY <2>1, HasValues DEF Bind, Changed
    <3>2. \A w : Times(w, <<v>>) = Is(v, w) /\ Times(w, <<bound[s]>>) = Is(bound[s], w)
      BY TimesOne
    <3>3. \A w : /\ Times(w, <<v>>) \in Nat /\ Times(w, <<bound[s]>>) \in Nat
                 /\ w # "null" => Times(w, <<v>>) - Times(w, <<bound[s]>>) =
                       (Is(v, w) - Is(bound[s], w)) + (Is(result[s], w) - Is(result[s], w))
                 /\ Times(w, <<v>>) > 0 => w \in made \cup {"null", "bytes"}
                 /\ Times(w, <<bound[s]>>) > 0 => w \in {bound[s], result[s]} \/ Times(w, <<v>>) > 0
      BY <3>2, IsFacts
    <3>4. Times(v, <<v>>) > 0
      BY <3>2, IsFacts
    <3> QED BY <1>1, <2>1, <3>1, <3>3, <3>4, HasValues, ExchangeKeeps
  <2>2. CASE UNCHANGED bound /\ Exchange(<<v>>, Refused(v))
    <3>1. Changed(bound, bound', s, bound[s]) /\ Changed(result, result', s, result[s])
      BY <2>2, HasValues DEF Bind
    <3>2. \A w : Times(w, <<v>>) = Is(v, w)
      BY TimesOne
    <3>3. \A w : /\ Times(w, <<v>>) \in Nat
                 /\ w # "null" => Times(w, <<v>>) - Times(w, <<v>>) =
                       (Is(bound[s], w) - Is(bound[s], w)) + (Is(result[s], w) - Is(result[s], w))
                 /\ Times(w, <<v>>) > 0 => w \in made \cup {"null", "bytes"}
      BY <3>2, IsFacts
    <3> QED BY <2>2, <3>1, <3>3, HasValues, ExchangeKeeps DEF Refused
  <2> QED BY <2>1, <2>2 DEF Bind
<1>3. pc' = [pc EXCEPT ![s] = pc[s]] /\ Changed(result, result', s, result[s])
  BY HasValues DEF Bind
<1>4. pc[s] \in {"ready", "calling", "row"} /\ (pc[s] # "row" => result[s] = "null")
  BY HasValues DEF Bind, ValueInv, TypeOK
<1> QED BY <1>2, <1>3, <1>4, StatementStep DEF Bind

LEMMA ClearStep == ASSUME ValueInv, NEW s \in Statements, Clear(s) PROVE ValueInv'
<1>1. Changed(bound, bound', s, "null") /\ Changed(result, result', s, result[s])
  BY HasValues DEF Clear, Changed
<1>2. \A w : Times(w, <<>>) = 0 /\ Times(w, <<bound[s]>>) = Is(bound[s], w)
  BY TimesNone, TimesOne
<1>3. \A w : /\ Times(w, <<>>) \in Nat /\ Times(w, <<bound[s]>>) \in Nat
             /\ w # "null" => Times(w, <<>>) - Times(w, <<bound[s]>>) =
                   (Is("null", w) - Is(bound[s], w)) + (Is(result[s], w) - Is(result[s], w))
             /\ ~(Times(w, <<>>) > 0)
             /\ Times(w, <<bound[s]>>) > 0 => w \in {bound[s], result[s]}
  BY <1>2, IsFacts
<1>4. Books'
  BY <1>1, <1>3, HasValues, ExchangeKeeps DEF Clear
<1>5. pc' = [pc EXCEPT ![s] = pc[s]]
  BY HasValues DEF Clear
<1>6. pc[s] \in {"ready", "calling", "row"} /\ (pc[s] # "row" => result[s] = "null")
  BY HasValues DEF Clear, ValueInv, TypeOK
<1> QED BY <1>1, <1>4, <1>5, <1>6, StatementStep DEF Clear

LEMMA StepStep == ASSUME ValueInv, NEW s \in Statements, Step(s) PROVE ValueInv'
<1>1. Books'
  BY SameBooks DEF Step
<1>2. Changed(result, result', s, "null")
  BY HasValues DEF Step
<1> QED BY <1>1, <1>2, StatementStep DEF Step

LEMMA ReturnStep ==
    ASSUME ValueInv, NEW s \in Statements, NEW v \in made \cup {"null", "bytes"}, Return(s, v)
    PROVE  ValueInv'
<1>1. v \in Values /\ result[s] = "null" /\ pc[s] = "calling"
  BY HasValues DEF Return, ValueInv, TypeOK, Values
<1>2. Changed(bound, bound', s, bound[s]) /\ Changed(result, result', s, v)
  BY HasValues DEF Return, Changed
<1>3. \A w : Times(w, <<v>>) = Is(v, w) /\ Times(w, <<>>) = 0
  BY TimesNone, TimesOne
<1>4. \A w : /\ Times(w, <<v>>) \in Nat /\ Times(w, <<>>) \in Nat
             /\ w # "null" => Times(w, <<v>>) - Times(w, <<>>) =
                   (Is(bound[s], w) - Is(bound[s], w)) + (Is(v, w) - Is(result[s], w))
             /\ Times(w, <<v>>) > 0 => w \in made \cup {"null", "bytes"}
             /\ ~(Times(w, <<>>) > 0)
  BY <1>1, <1>3, IsFacts
<1>5. Times(v, <<v>>) > 0
  BY <1>3, IsFacts
<1>6. Books'
  BY <1>1, <1>2, <1>4, <1>5, HasValues, ExchangeKeeps DEF Return
<1> QED BY <1>1, <1>2, <1>6, StatementStep DEF Return

LEMMA FailStep == ASSUME ValueInv, NEW s \in Statements, Fail(s) PROVE ValueInv'
<1>1. Changed(bound, bound', s, bound[s]) /\ Changed(result, result', s, result[s])
  BY HasValues DEF Fail
<1>2. \A w : Times(w, <<"bytes">>) = Is("bytes", w)
  BY TimesOne
<1>3. \A w : /\ Times(w, <<"bytes">>) \in Nat
             /\ w # "null" => Times(w, <<"bytes">>) - Times(w, <<"bytes">>) =
                   (Is(bound[s], w) - Is(bound[s], w)) + (Is(result[s], w) - Is(result[s], w))
             /\ Times(w, <<"bytes">>) > 0 => w \in made \cup {"null", "bytes"}
  BY <1>2, IsFacts
<1>4. Books'
  BY <1>1, <1>3, HasValues, ExchangeKeeps DEF Fail
<1>5. result[s] = "null" /\ pc[s] # "none"
  BY HasValues DEF Fail
<1> QED BY <1>1, <1>4, <1>5, StatementStep DEF Fail

LEMMA ResetStep == ASSUME ValueInv, NEW s \in Statements, Reset(s) PROVE ValueInv'
<1>1. Changed(bound, bound', s, bound[s]) /\ Changed(result, result', s, "null")
  BY HasValues DEF Reset, Changed
<1>2. \A w : Times(w, <<>>) = 0 /\ Times(w, <<result[s]>>) = Is(result[s], w)
  BY TimesNone, TimesOne
<1>3. \A w : /\ Times(w, <<>>) \in Nat /\ Times(w, <<result[s]>>) \in Nat
             /\ w # "null" => Times(w, <<>>) - Times(w, <<result[s]>>) =
                   (Is(bound[s], w) - Is(bound[s], w)) + (Is("null", w) - Is(result[s], w))
             /\ ~(Times(w, <<>>) > 0)
             /\ Times(w, <<result[s]>>) > 0 => w \in {bound[s], result[s]}
  BY <1>2, IsFacts
<1>4. Books'
  BY <1>1, <1>3, HasValues, ExchangeKeeps DEF Reset
<1> QED BY <1>1, <1>4, StatementStep DEF Reset

\* The functions go with their connection, but for those SQLite never had.
LEMMA DropFunctionsFacts ==
    ASSUME TypeOK, Registered, DropFunctions
    PROVE  /\ funcs' \subseteq funcs /\ lost \subseteq funcs' /\ funcs' \ lost = {}
           /\ defs' \in [Names -> 0..func_i]
           /\ \A n \in Names : defs'[n] = 0
           /\ {defs'[n] : n \in Names} \ {0} = {} /\ conn' = "closed"
<1>1. 0 \in 0..func_i
  BY DEF TypeOK
<1>2. \A n \in Names : defs[n] \notin lost
  BY DEF Registered
<1> QED BY <1>1, <1>2 DEF TypeOK, Registered, FunctionsKnown, DropFunctions, Without

LEMMA RegisteredAfterDrop ==
    ASSUME TypeOK, Registered, DropFunctions, UNCHANGED lost,
           \A t \in Statements : pc'[t] = "none"
    PROVE  Registered'
<1>1. FunctionsKnown'
  BY DropFunctionsFacts DEF FunctionsKnown
<1>2. 0 \notin lost
  BY DEF TypeOK
<1>3. \A n \in Names : defs'[n] \notin lost'
  BY <1>2, DropFunctionsFacts
<1>4. \A m, n \in Names : defs'[m] = defs'[n] => defs'[m] = 0 \/ m = n
  BY DropFunctionsFacts
<1> QED BY <1>1, <1>3, <1>4 DEF Registered

LEMMA FinalizeStep == ASSUME ValueInv, NEW s \in Statements, Finalize(s) PROVE ValueInv'
<1>1. Changed(bound, bound', s, "null") /\ Changed(result, result', s, "null")
  BY DEF Finalize, Changed
<1>2. \A w : Times(w, <<>>) = 0 /\ Times(w, <<result[s], bound[s]>>) = Is(result[s], w) + Is(bound[s], w)
  BY TimesNone, TimesTwo
<1>3. \A w : /\ Times(w, <<>>) \in Nat /\ Times(w, <<result[s], bound[s]>>) \in Nat
             /\ w # "null" => Times(w, <<>>) - Times(w, <<result[s], bound[s]>>) =
                   (Is("null", w) - Is(bound[s], w)) + (Is("null", w) - Is(result[s], w))
             /\ ~(Times(w, <<>>) > 0)
             /\ Times(w, <<result[s], bound[s]>>) > 0 => w \in {bound[s], result[s]}
  <2> SUFFICES ASSUME NEW w
               PROVE  LET out == Times(w, <<result[s], bound[s]>>)
                      IN  /\ 0 \in Nat /\ out \in Nat
                          /\ w # "null" => 0 - out = (Is("null", w) - Is(bound[s], w)) + (Is("null", w) - Is(result[s], w))
                          /\ out > 0 => w \in {bound[s], result[s]}
    BY <1>2
  <2>1. Is(bound[s], w) \in Nat /\ Is(result[s], w) \in Nat /\ (w # "null" => Is("null", w) = 0)
    BY IsFacts
  <2>2. (Is(bound[s], w) > 0 => w = bound[s]) /\ (Is(result[s], w) > 0 => w = result[s])
    BY IsFacts
  <2> QED BY <1>2, <2>1, <2>2
<1>4. Books'
  <2>1. Exchange(<<>>, <<result[s], bound[s]>>)
    BY DEF Finalize
  <2> QED BY <1>1, <1>3, <2>1, HasValues, ExchangeKeeps
<1> USE DEF ValueInv
<1>5. pc'[s] = "none" /\ \A t \in Statements \ {s} : pc'[t] = pc[t]
  BY DEF Finalize, TypeOK
<1>6. Known'
  BY <1>1, <1>4, <1>5 DEF Known, Books, TypeOK, Changed
<1>7. CASE DropFunctions /\ \A t \in Statements \ {s} : pc[t] = "none"
  <2>1. lost' = lost /\ func_i' = func_i
    BY DEF Finalize
  <2>2. TypeOK'
    BY <1>4, <1>7, <2>1, DropFunctionsFacts DEF TypeOK, Books, Finalize
  <2>3. \A t \in Statements : pc'[t] = "none"
    BY <1>5, <1>7
  <2>4. Registered'
    BY <2>1, <2>3, <1>7, RegisteredAfterDrop
  <2> QED BY <1>4, <1>6, <2>2, <2>4 DEF Books
<1>8. CASE UNCHANGED <<conn, defs, funcs>>
  <2>1. TypeOK'
    BY <1>4, <1>8 DEF TypeOK, Books, Finalize
  <2>2. Registered'
    BY <1>5, <1>8 DEF Registered, FunctionsKnown, Finalize
  <2> QED BY <1>4, <1>6, <2>1, <2>2 DEF Books
<1> QED BY <1>7, <1>8 DEF Finalize

LEMMA CreateStep == ASSUME ValueInv, NEW n \in Names, Create(n) PROVE ValueInv'
<1> USE DEF ValueInv
<1>1. Books'
  BY SameBooks DEF Create, statements
<1>2. /\ func_i \in Nat /\ func_i' = func_i + 1 /\ func_i' \in 0..MaxFuncs
      /\ 0..func_i \subseteq 0..func_i' /\ 1..func_i \subseteq 1..func_i'
      /\ func_i' \in 1..func_i' /\ func_i' \notin 0..func_i /\ func_i' \notin 1..func_i /\ func_i' # 0
  BY ConstantsAssumption DEF Create, TypeOK
<1>3. conn' = conn /\ pc' = pc /\ conn = "open"
  BY DEF Create, statements
<1>4. Known'
  BY <1>1, <1>3 DEF Known, Books, Create, statements
<1>5. CASE funcs' = funcs \cup {func_i'} /\ lost' = lost \cup {func_i'} /\ UNCHANGED defs
  <2>1. TypeOK'
    BY <1>1, <1>2, <1>3, <1>5 DEF TypeOK, Books
  <2>2. \A m \in Names : defs[m] \in 0..func_i
    BY DEF TypeOK
  <2>3. Registered'
    BY <1>2, <1>3, <1>5, <2>2 DEF Registered, FunctionsKnown, TypeOK
  <2> QED BY <1>1, <1>4, <2>1, <2>3 DEF Books
<1>6. CASE UNCHANGED <<funcs, defs, lost>>
  <2>1. TypeOK'
    BY <1>1, <1>2, <1>3, <1>6 DEF TypeOK, Books
  <2>2. Registered'
    BY <1>3, <1>6 DEF Registered, FunctionsKnown
  <2> QED BY <1>1, <1>4, <2>1, <2>2 DEF Books
<1>7. CASE /\ funcs' = Without({defs[n]}) \cup {func_i'}
           /\ defs' = [defs EXCEPT ![n] = func_i'] /\ UNCHANGED lost
  <2>1. /\ \A m \in Names : defs[m] \in 0..func_i /\ defs[m] # func_i'
        /\ defs'[n] = func_i' /\ \A m \in Names \ {n} : defs'[m] = defs[m]
        /\ funcs' = (funcs \ {defs[n]}) \cup {func_i'} /\ func_i' \notin funcs /\ func_i' \notin lost
        /\ lost \subseteq funcs'
    BY <1>2, <1>7 DEF TypeOK, Without, Registered
  <2>2. TypeOK'
    <3>1. defs' \in [Names -> 0..func_i']
      BY <1>2, <1>7 DEF TypeOK
    <3>2. funcs' \subseteq 1..func_i' /\ lost' \subseteq funcs'
      BY <1>2, <1>7, <2>1 DEF TypeOK
    <3> QED BY <1>1, <1>2, <1>3, <3>1, <3>2 DEF TypeOK, Books
  <2>3. funcs' \ lost = {defs'[m] : m \in Names} \ {0}
    <3>1. funcs \ lost = {defs[m] : m \in Names} \ {0}
      BY DEF Registered, FunctionsKnown
    <3>2. funcs' \ lost = ((funcs \ lost) \ {defs[n]}) \cup {func_i'}
      BY <2>1
    <3>3. ASSUME NEW m \in Names, m # n, defs[m] # 0 PROVE defs[m] # defs[n]
      BY <3>3 DEF Registered
    <3> QED BY <1>2, <2>1, <3>1, <3>2, <3>3
  <2>4. Registered'
    BY <1>2, <1>3, <1>7, <2>1, <2>3 DEF Registered, FunctionsKnown
  <2> QED BY <1>1, <1>4, <2>2, <2>4 DEF Books
<1> QED BY <1>5, <1>6, <1>7 DEF Create

LEMMA CloseStep == ASSUME ValueInv, Close PROVE ValueInv'
<1> USE DEF ValueInv
<1>1. Books'
  BY SameBooks DEF Close, statements
<1>2. pc' = pc /\ func_i' = func_i /\ lost' = lost
  BY DEF Close, statements
<1>3. Known'
  BY <1>1, <1>2 DEF Known, Books, Close, statements
<1>4. CASE DropFunctions /\ \A s \in Statements : pc[s] = "none"
  <2>1. TypeOK'
    BY <1>1, <1>2, <1>4, DropFunctionsFacts DEF TypeOK, Books
  <2>2. Registered'
    BY <1>2, <1>4, RegisteredAfterDrop
  <2> QED BY <1>1, <1>3, <2>1, <2>2 DEF Books
<1>5. CASE conn' = "zombie" /\ UNCHANGED <<defs, funcs>>
  <2>1. TypeOK'
    BY <1>1, <1>2, <1>5 DEF TypeOK, Books
  <2>2. Registered'
    BY <1>2, <1>5 DEF Registered, FunctionsKnown
  <2> QED BY <1>1, <1>3, <2>1, <2>2 DEF Books
<1> QED BY <1>4, <1>5 DEF Close

LEMMA NextValueInv == ValueInv /\ [Next]_vars => ValueInv'
<1> SUFFICES ASSUME ValueInv, [Next]_vars PROVE ValueInv'
  OBVIOUS
<1>1. CASE UNCHANGED vars
  BY <1>1 DEF vars, registry, statements, functions, ValueInv, TypeOK, Counts, Holders, Known,
              Registered, FunctionsKnown
<1>2. CASE Next
  BY <1>2, MakeStep, PrepareStep, BindStep, ClearStep, StepStep, ReturnStep, FailStep, ResetStep,
     FinalizeStep, CreateStep, CloseStep DEF Next
<1> QED BY <1>1, <1>2

-----------------------------------------------------------------------------
(* The theorems.                                                           *)

\* What every bind, step, result, reset, finalize and close keeps.
THEOREM ValueInvariant == Spec => []ValueInv
<1> QED BY InitValueInv, NextValueInv, PTL DEF Spec

\* Nothing is counted that is not there: no number of references falls below zero.
THEOREM TypeCorrect == Spec => []TypeOK
<1>1. ValueInv => TypeOK
  BY DEF ValueInv
<1> QED BY <1>1, ValueInvariant, PTL

\* A Pointer has as many references as SQLite has places for it, and each copy of bytes
\* that SQLite has is in memory once; release() throws for none but a Pointer that was
\* used again once it had been destroyed.
THEOREM EverythingIsAccounted == Spec => []Accounted
<1>1. ValueInv => Accounted
  BY DEF ValueInv, Counts, Known, Accounted, GivenBack, Given
<1> QED BY <1>1, ValueInvariant, PTL

\* A statement that can still run finds its functions, and none is kept in the map that
\* SQLite no longer has, but for those whose name found no memory.
THEOREM FunctionsStayKnown == Spec => []FunctionsKnown
<1>1. ValueInv => FunctionsKnown
  BY DEF ValueInv, Registered
<1> QED BY <1>1, ValueInvariant, PTL

=============================================================================
