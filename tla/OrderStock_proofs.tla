-------------------------- MODULE OrderStock_proofs --------------------------
(***************************************************************************)
(* The stock of the shop for any orders, lines, rows, quantities and       *)
(* corrections, and any number of handlers in flight.  A batch moves its   *)
(* entries one after the other, so what holds of it is shown by induction  *)
(* over its entries; the induction is stated for a function Good from the  *)
(* number of entries moved to a set of results.                            *)
(***************************************************************************)
EXTENDS OrderStock, Sums_proofs

-----------------------------------------------------------------------------
(* Recursion over a sequence                                                *)

\* Induction: what starts good and stays good at each step ends good.
LEMMA StepInduction ==
  ASSUME NEW n \in Nat, NEW F, NEW Good, F[0] \in Good[0],
         \A i \in 1..n : F[i - 1] \in Good[i - 1] => F[i] \in Good[i]
  PROVE  F[n] \in Good[n]
<1> DEFINE Bad == {i \in 0..n : F[i] \notin Good[i]}
<1>1. SUFFICES ASSUME Bad # {} PROVE FALSE
  OBVIOUS
<1>2. PICK i \in Bad : \A k \in Bad : i <= k
  <2>1. Bad \subseteq Nat
    OBVIOUS
  <2> HIDE DEF Bad
  <2> QED BY <1>1, <2>1, LeastNumber
<1>3. i \in 1..n /\ i - 1 \in 0..n /\ ~(i <= i - 1)
  OBVIOUS
<1>4. i - 1 \notin Bad
  <2> HIDE DEF Bad
  <2> QED BY <1>2, <1>3
<1> QED BY <1>3, <1>4

Steps(n, V) == [1..n -> [V -> V]]
Runs(n, V, start, step) ==
  {f \in [0..n -> V] : f[0] = start /\ \A i \in 1..n : f[i] = step[i][f[i - 1]]}

\* Definition by recursion: a start and a step for each index have a run.
LEMMA Recursion ==
  ASSUME NEW n \in Nat, NEW V, NEW start \in V, NEW step \in Steps(n, V)
  PROVE  Runs(n, V, start, step) # {}
<1> USE DEF Steps, Runs
<1> DEFINE Built(f, k) == f[0] = start /\ \A i \in 1..k : f[i] = step[i][f[i - 1]]
           Bad == {k \in 0..n : ~ \E f \in [0..n -> V] : Built(f, k)}
<1>1. SUFFICES ASSUME Bad # {} PROVE FALSE
  <2>1. n \notin Bad
    BY <1>1
  <2> QED BY <2>1
<1>2. PICK k \in Bad : \A j \in Bad : k <= j
  <2>1. Bad \subseteq Nat
    OBVIOUS
  <2> HIDE DEF Bad
  <2> QED BY <1>1, <2>1, LeastNumber
<1>3. k # 0
  <2>1. Built([i \in 0..n |-> start], 0)
    OBVIOUS
  <2>2. [i \in 0..n |-> start] \in [0..n -> V]
    OBVIOUS
  <2> HIDE DEF Built
  <2> QED BY <2>1, <2>2
<1>4. k \in 1..n /\ k - 1 \in 0..n /\ ~(k <= k - 1)
  BY <1>3
<1>5. k - 1 \notin Bad
  <2> HIDE DEF Bad
  <2> QED BY <1>2, <1>4
<1>6. PICK f \in [0..n -> V] : Built(f, k - 1)
  BY <1>4, <1>5
<1> DEFINE g == [f EXCEPT ![k] = step[k][f[k - 1]]]
<1>7. g \in [0..n -> V]
  BY <1>4
<1>8. Built(g, k)
  <2>1. \A i \in 0..n : i # k => g[i] = f[i]
    OBVIOUS
  <2>2. g[k] = step[k][f[k - 1]]
    BY <1>4
  <2> HIDE DEF g
  <2>3. g[0] = start
    BY <1>4, <1>6, <2>1
  <2>4. ASSUME NEW i \in 1..k PROVE g[i] = step[i][g[i - 1]]
    <3>1. g[i - 1] = f[i - 1]
      BY <1>4, <2>1
    <3>2. CASE i = k
      BY <2>2, <3>1, <3>2
    <3>3. CASE i # k
      BY <1>4, <1>6, <2>1, <3>1, <3>3
    <3> QED BY <3>2, <3>3
  <2> QED BY <2>3, <2>4
<1>9. \E h \in [0..n -> V] : Built(h, k)
  <2> HIDE DEF Built, g
  <2> QED BY <1>7, <1>8
<1> QED BY <1>9

-----------------------------------------------------------------------------
(* A batch                                                                  *)

Counters == [stock : [Rows -> Int], reserved : [Rows -> Int], written : Seq(Keys)]
Untouched == [stock |-> stock, reserved |-> reserved, written |-> <<>>]

\* What an entry does to the shelf and the holds is a number of units of its row.
LEMMA KeysTyped ==
  /\ OnShelf \in [Keys -> Int] /\ OnHold \in [Keys -> Int]
  /\ \A e \in Keys : /\ e.kind \in Kinds /\ e.move \in Moves
                     /\ RowOf[e.move] \in Rows /\ Qty[e.move] \in Nat \ {0}
  /\ \A k \in Kinds, m \in Moves : Entry(k, m) \in Keys
<1>1. /\ \A e \in Keys : /\ e.kind \in Kinds /\ e.move \in Moves
                          /\ RowOf[e.move] \in Rows /\ Qty[e.move] \in Nat \ {0}
      /\ \A k \in Kinds, m \in Moves : Entry(k, m) \in Keys
  BY QuantitiesPositive DEF Keys, Entry
<1>2. OnShelf \in [Keys -> Int] /\ OnHold \in [Keys -> Int]
  BY <1>1 DEF OnShelf, OnHold
<1> QED BY <1>1, <1>2

\* A movement makes counters of counters, guarded or not.
LEMMA MoveTyped ==
  ASSUME NEW c \in Counters, NEW e \in Keys
  PROVE  Move(c, e) \in Counters
<1>1. /\ RowOf[e.move] \in Rows /\ OnShelf[e] \in Int /\ OnHold[e] \in Int
      /\ c.stock \in [Rows -> Int] /\ c.reserved \in [Rows -> Int] /\ c.written \in Seq(Keys)
  BY KeysTyped DEF Counters
<1>2. Append(c.written, e) \in Seq(Keys)
  BY <1>1
<1> QED BY <1>1, <1>2 DEF Move, Counters

\* What a batch leaves behind after each of its entries.
LEMMA BatchUnfolds ==
  ASSUME NEW entries \in Seq(Keys), stock \in [Rows -> Int], reserved \in [Rows -> Int]
  PROVE  \E f \in [0..Len(entries) -> Counters] :
           /\ f[0] = Untouched /\ \A i \in 1..Len(entries) : f[i] = Move(f[i - 1], entries[i])
           /\ After(entries) = f[Len(entries)]
<1> DEFINE n == Len(entries)
           step == [i \in 1..n |-> [c \in Counters |-> Move(c, entries[i])]]
           Body(f, i) == IF i = 0 THEN Untouched ELSE Move(f[i - 1], entries[i])
           after == CHOOSE f : f = [i \in 0..n |-> Body(f, i)]
<1>1. n \in Nat /\ \A i \in 1..n : entries[i] \in Keys
  OBVIOUS
<1>2. step \in Steps(n, Counters)
  BY <1>1, MoveTyped DEF Steps
<1>3. Untouched \in Counters
  BY DEF Untouched, Counters
<1>4. PICK f \in Runs(n, Counters, Untouched, step) : TRUE
  <2> HIDE DEF step, n
  <2> QED BY <1>1, <1>2, <1>3, Recursion
<1>4a. f \in [0..n -> Counters] /\ f[0] = Untouched /\ \A i \in 1..n : f[i] = step[i][f[i - 1]]
  <2> HIDE DEF step, n
  <2> QED BY <1>4 DEF Runs
<1>5. ASSUME NEW i \in 1..n PROVE f[i] = Move(f[i - 1], entries[i])
  <2>1. i - 1 \in 0..n /\ f \in [0..n -> Counters]
    BY <1>1, <1>4a
  <2>2. f[i - 1] \in Counters
    <3> HIDE DEF n
    <3> QED BY <2>1
  <2> QED BY <1>4a, <2>2
<1>6. f = [i \in 0..n |-> Body(f, i)]
  <2>1. \A i \in 0..n : f[i] = Body(f, i)
    BY <1>4a, <1>5
  <2>2. f \in [0..n -> Counters]
    BY <1>4a
  <2> HIDE DEF Body, n
  <2> QED BY <2>1, <2>2
<1>7. after = [i \in 0..n |-> Body(after, i)]
  BY <1>6
<1>8. \A i \in 0..n : after[i] = Body(after, i)
  <2> HIDE DEF Body, after
  <2> QED BY <1>7
<1>9. after = f
  <2> HIDE DEF after
  <2> DEFINE Good == [i \in 0..n |-> {f[i]}]
  <2>1. ASSUME NEW i \in 0..n PROVE after[i] = f[i]
    <3>1. after[0] \in Good[0]
      BY <1>4a, <1>8
    <3>2. \A j \in 1..i : after[j - 1] \in Good[j - 1] => after[j] \in Good[j]
      BY <1>5, <1>8
    <3>3. after[i] \in Good[i]
      <4> HIDE DEF Good, n
      <4> QED BY <3>1, <3>2, StepInduction
    <3> QED BY <3>3
  <2>2. \A i \in 0..n : f[i] = Body(f, i) /\ after[i] = Body(after, i)
    BY <1>6, <1>8
  <2>3. \A i \in 0..n : Body(f, i) = Body(after, i)
    <3> HIDE DEF Body, n
    <3> QED BY <2>1, <2>2
  <2> HIDE DEF Body, n
  <2> QED BY <1>6, <1>7, <2>3
<1>10. After(entries) = after[n]
  BY DEF After, Untouched
<1> HIDE DEF after, step
<1> QED BY <1>4a, <1>5, <1>9, <1>10

\* What holds of a batch after each of its entries holds of the batch.
LEMMA BatchInduction ==
  ASSUME NEW entries \in Seq(Keys), stock \in [Rows -> Int], reserved \in [Rows -> Int],
         NEW Good, Untouched \in Good[0],
         \A i \in 1..Len(entries) : \A c \in Counters :
           c \in Good[i - 1] => Move(c, entries[i]) \in Good[i]
  PROVE  After(entries) \in Good[Len(entries)] /\ After(entries) \in Counters
<1>1. PICK f \in [0..Len(entries) -> Counters] :
        /\ f[0] = Untouched /\ \A i \in 1..Len(entries) : f[i] = Move(f[i - 1], entries[i])
        /\ After(entries) = f[Len(entries)]
  BY BatchUnfolds
<1>2. Len(entries) \in Nat
  OBVIOUS
<1>3. \A i \in 1..Len(entries) : f[i - 1] \in Good[i - 1] => f[i] \in Good[i]
  BY <1>1, <1>2
<1>4. f[Len(entries)] \in Good[Len(entries)]
  BY <1>1, <1>2, <1>3, StepInduction
<1> QED BY <1>1, <1>2, <1>4

-----------------------------------------------------------------------------
(* The elements of a sequence in a set                                      *)

\* What holds of the elements kept so far holds of the elements kept.
LEMMA WithinInduction ==
  ASSUME NEW X, NEW s \in Seq(X), NEW S, NEW Good, <<>> \in Good[0],
         \A i \in 1..Len(s) : \A w \in Seq(X) :
           w \in Good[i - 1] => (IF s[i] \in S THEN Append(w, s[i]) ELSE w) \in Good[i]
  PROVE  Within(s, S) \in Good[Len(s)] /\ Within(s, S) \in Seq(X)
<1> DEFINE n == Len(s)
           Take(w, i) == IF s[i] \in S THEN Append(w, s[i]) ELSE w
           step == [i \in 1..n |-> [w \in Seq(X) |-> Take(w, i)]]
           Body(f, i) == IF i = 0 THEN <<>> ELSE Take(f[i - 1], i)
           kept == CHOOSE f : f = [i \in 0..n |-> Body(f, i)]
<1>1. n \in Nat /\ \A i \in 1..n : s[i] \in X
  OBVIOUS
<1>2. step \in Steps(n, Seq(X))
  BY <1>1 DEF Steps
<1>3. <<>> \in Seq(X)
  OBVIOUS
<1>4. PICK f \in Runs(n, Seq(X), <<>>, step) : TRUE
  <2> HIDE DEF step, n
  <2> QED BY <1>1, <1>2, <1>3, Recursion
<1>4a. f \in [0..n -> Seq(X)] /\ f[0] = <<>> /\ \A i \in 1..n : f[i] = step[i][f[i - 1]]
  <2> HIDE DEF step, n
  <2> QED BY <1>4 DEF Runs
<1>5. ASSUME NEW i \in 1..n PROVE f[i] = Take(f[i - 1], i) /\ f[i - 1] \in Seq(X)
  <2>1. i - 1 \in 0..n /\ f \in [0..n -> Seq(X)]
    BY <1>1, <1>4a
  <2>2. f[i - 1] \in Seq(X)
    <3> HIDE DEF n
    <3> QED BY <2>1
  <2>3. step[i][f[i - 1]] = Take(f[i - 1], i)
    <3> HIDE DEF Take, n
    <3> QED BY <2>2
  <2> HIDE DEF Take, step, n
  <2> QED BY <1>4a, <2>2, <2>3
<1>6. f = [i \in 0..n |-> Body(f, i)]
  <2> HIDE DEF Take
  <2>1. \A i \in 0..n : f[i] = Body(f, i)
    BY <1>4a, <1>5
  <2>2. f \in [0..n -> Seq(X)]
    BY <1>4a
  <2> HIDE DEF Body, n
  <2> QED BY <2>1, <2>2
<1>7. kept = [i \in 0..n |-> Body(kept, i)]
  BY <1>6
<1>8. \A i \in 0..n : kept[i] = Body(kept, i)
  <2> HIDE DEF Body, kept
  <2> QED BY <1>7
<1>9. \A i \in 1..n : kept[i] = Take(kept[i - 1], i)
  <2> HIDE DEF kept, Take
  <2> QED BY <1>8
<1>10. kept[0] = <<>>
  <2> HIDE DEF kept, Take
  <2> QED BY <1>1, <1>8
<1>11. kept[n] \in Good[n] \cap Seq(X)
  <2> DEFINE Fine == [i \in 0..n |-> Good[i] \cap Seq(X)]
  <2> HIDE DEF kept
  <2>1. kept[0] \in Fine[0]
    BY <1>1, <1>3, <1>10
  <2>2. ASSUME NEW i \in 1..n, kept[i - 1] \in Fine[i - 1] PROVE kept[i] \in Fine[i]
    <3>1. kept[i - 1] \in Good[i - 1] /\ kept[i - 1] \in Seq(X)
      BY <1>1, <2>2
    <3>2. Take(kept[i - 1], i) \in Good[i] /\ Take(kept[i - 1], i) \in Seq(X)
      BY <1>1, <3>1
    <3> HIDE DEF Take
    <3> QED BY <1>1, <1>9, <3>2
  <2>3. kept[n] \in Fine[n]
    <3> HIDE DEF Fine, n
    <3> QED BY <1>1, <2>1, <2>2, StepInduction
  <2> QED BY <1>1, <2>3
<1>12. Within(s, S) = kept[n]
  BY DEF Within
<1> QED BY <1>11, <1>12


\* A sub-sequence of what a sequence has in a set: all of it, in order, each once.
LEMMA WithinFacts ==
  ASSUME NEW X, NEW s \in Seq(X), NEW S
  PROVE  /\ Within(s, S) \in Seq(X)
         /\ Range(Within(s, S)) = Range(s) \cap S
         /\ IsInjective(s) => IsInjective(Within(s, S))
         /\ Range(s) \subseteq S => Within(s, S) = s
<1> DEFINE n == Len(s)
           Upto(i) == {s[j] : j \in 1..i}
           Fine(w, i) == /\ \A x \in Upto(i) \cap S : \E j \in 1..Len(w) : w[j] = x
                         /\ \A j \in 1..Len(w) : w[j] \in Upto(i) \cap S
                         /\ IsInjective(s) => \A a, b \in 1..Len(w) : w[a] = w[b] => a = b
                         /\ Range(s) \subseteq S => Len(w) = i /\ \A j \in 1..i : w[j] = s[j]
           Good == [i \in 0..n |-> {w \in Seq(X) : Fine(w, i)}]
           Take(w, i) == IF s[i] \in S THEN Append(w, s[i]) ELSE w
<1>1. n \in Nat /\ DOMAIN s = 1..n /\ \A i \in 1..n : s[i] \in X
  OBVIOUS
<1>2. <<>> \in Good[0]
  <2>1. <<>> \in Seq(X) /\ Len(<<>>) = 0 /\ Upto(0) = {}
    OBVIOUS
  <2>2. Fine(<<>>, 0)
    BY <2>1
  <2> HIDE DEF Fine
  <2> QED BY <1>1, <2>1, <2>2
<1>3. ASSUME NEW i \in 1..n, NEW w \in Seq(X), w \in Good[i - 1] PROVE Take(w, i) \in Good[i]
  <2>1. i - 1 \in 0..n /\ i \in 0..n /\ s[i] \in X /\ s[i] \in Range(s)
    BY <1>1 DEF Range
  <2>2. Fine(w, i - 1)
    <3> HIDE DEF Fine
    <3> QED BY <1>3, <2>1
  <2>3. Upto(i) = Upto(i - 1) \cup {s[i]}
    OBVIOUS
  <2>4. CASE s[i] \notin S
    <3>1. Upto(i) \cap S = Upto(i - 1) \cap S
      BY <2>3, <2>4
    <3>2. Fine(w, i)
      <4> HIDE DEF Upto
      <4> QED BY <2>1, <2>2, <2>4, <3>1
    <3> HIDE DEF Fine
    <3> QED BY <2>1, <2>4, <3>2
  <2>5. CASE s[i] \in S
    <3> DEFINE v == Append(w, s[i])
    <3>1. v \in Seq(X) /\ Len(v) = Len(w) + 1 /\ Len(w) \in Nat /\ v[Len(w) + 1] = s[i]
          /\ \A j \in 1..Len(w) : v[j] = w[j]
      BY <2>1
    <3>2. Upto(i) \cap S = (Upto(i - 1) \cap S) \cup {s[i]}
      BY <2>3, <2>5
    <3> HIDE DEF v
    <3>3. \A x \in Upto(i) \cap S : \E j \in 1..Len(v) : v[j] = x
      <4>1. SUFFICES ASSUME NEW x \in Upto(i) \cap S PROVE \E j \in 1..Len(v) : v[j] = x
        OBVIOUS
      <4>2. CASE x = s[i]
        <5>1. Len(w) + 1 \in 1..Len(v)
          BY <3>1
        <5> QED BY <4>2, <5>1, <3>1
      <4>3. CASE x \in Upto(i - 1) \cap S
        <5> HIDE DEF Upto
        <5>1. PICK j \in 1..Len(w) : w[j] = x
          BY <2>2, <4>3
        <5>2. j \in 1..Len(v) /\ v[j] = x
          BY <3>1, <5>1
        <5> QED BY <5>2
      <4> HIDE DEF Upto
      <4> QED BY <3>2, <4>2, <4>3
    <3>4. \A j \in 1..Len(v) : v[j] \in Upto(i) \cap S
      <4> HIDE DEF Upto
      <4> QED BY <2>2, <3>1, <3>2
    <3>5. ASSUME IsInjective(s), NEW a \in 1..Len(v), NEW b \in 1..Len(v), v[a] = v[b] PROVE a = b
      <4>1. s[i] \notin Upto(i - 1)
        <5>1. ASSUME NEW j \in 1..i - 1 PROVE s[j] # s[i]
          BY <1>1, <2>1, <3>5 DEF IsInjective
        <5> QED BY <5>1
      <4> HIDE DEF Upto
      <4> QED BY <2>2, <3>1, <3>5, <4>1
    <3>6. ASSUME Range(s) \subseteq S PROVE Len(v) = i /\ \A j \in 1..i : v[j] = s[j]
      <4> HIDE DEF Upto
      <4>1. Len(w) = i - 1 /\ \A j \in 1..i - 1 : w[j] = s[j]
        BY <2>2, <3>6
      <4> QED BY <2>1, <3>1, <4>1
    <3>7. Fine(v, i)
      BY <3>3, <3>4, <3>5, <3>6
    <3> HIDE DEF Fine
    <3> QED BY <2>1, <2>5, <3>1, <3>7 DEF v
  <2> QED BY <2>4, <2>5
<1> DEFINE r == Within(s, S)
<1>4. r \in Good[n] /\ r \in Seq(X)
  <2> HIDE DEF Good
  <2> QED BY <1>2, <1>3, WithinInduction
<1>5. Fine(r, n) /\ r \in Seq(X)
  <2> HIDE DEF Fine, r
  <2> QED BY <1>1, <1>4
<1> HIDE DEF r
<1>6. Len(r) \in Nat /\ DOMAIN r = 1..Len(r)
  BY <1>5
<1>7. Upto(n) = Range(s)
  BY <1>1 DEF Range
<1>8. Range(r) = Range(s) \cap S
  <2> HIDE DEF Upto
  <2> QED BY <1>5, <1>6, <1>7 DEF Range
<1>9. IsInjective(s) => IsInjective(r)
  <2> HIDE DEF Upto
  <2> QED BY <1>5, <1>6 DEF IsInjective
<1>10. ASSUME Range(s) \subseteq S PROVE r = s
  <2>1. Len(r) = n /\ \A j \in 1..n : r[j] = s[j]
    <3> HIDE DEF Upto
    <3> QED BY <1>5, <1>10
  <2>2. r \in [1..n -> X] /\ s \in [1..n -> X]
    BY <1>5, <2>1
  <2> HIDE DEF n
  <2> QED BY <2>1, <2>2
<1> QED BY <1>5, <1>8, <1>9, <1>10 DEF r

\* A sequence without repetition has as many elements as places.
LEMMA InjectiveCard ==
  ASSUME NEW X, NEW s \in Seq(X)
  PROVE  /\ IsFiniteSet(Range(s)) /\ Cardinality(Range(s)) \in Nat
         /\ IsInjective(s) => Cardinality(Range(s)) = Len(s)
<1>1. Len(s) \in Nat /\ DOMAIN s = 1..Len(s) /\ s \in [1..Len(s) -> Range(s)]
  BY DEF Range
<1>2. IsFiniteSet(1..Len(s)) /\ Cardinality(1..Len(s)) = Len(s)
  BY <1>1, FS_Interval
<1>3. s \in Surjection(1..Len(s), Range(s))
  BY <1>1 DEF Surjection, Range
<1>4. IsFiniteSet(Range(s)) /\ Cardinality(Range(s)) \in Nat
  BY <1>2, <1>3, FS_Surjection, FS_CardinalityType
<1>5. ASSUME IsInjective(s) PROVE s \in Bijection(1..Len(s), Range(s))
  BY <1>1, <1>3, <1>5 DEF Bijection, Injection, Surjection, IsInjective
<1>6. ASSUME IsInjective(s) PROVE Cardinality(Range(s)) = Len(s)
  BY <1>2, <1>5, <1>6, FS_Bijection DEF ExistsBijection
<1> QED BY <1>4, <1>6

\* One more element, and no repetition if it is a new one.
LEMMA AppendFacts ==
  ASSUME NEW X, NEW s \in Seq(X), NEW e \in X
  PROVE  /\ Append(s, e) \in Seq(X) /\ Len(Append(s, e)) = Len(s) + 1
         /\ Range(Append(s, e)) = Range(s) \cup {e}
         /\ IsInjective(s) /\ e \notin Range(s) => IsInjective(Append(s, e))
<1> DEFINE v == Append(s, e)
<1>1. /\ v \in Seq(X) /\ Len(v) = Len(s) + 1 /\ Len(s) \in Nat /\ v[Len(s) + 1] = e
      /\ \A j \in 1..Len(s) : v[j] = s[j]
      /\ DOMAIN s = 1..Len(s) /\ DOMAIN v = 1..(Len(s) + 1)
  OBVIOUS
<1> HIDE DEF v
<1>2. Range(v) = Range(s) \cup {e}
  <2>1. 1..(Len(s) + 1) = 1..Len(s) \cup {Len(s) + 1}
    BY <1>1
  <2> QED BY <1>1, <2>1 DEF Range
<1>3. ASSUME IsInjective(s), e \notin Range(s) PROVE IsInjective(v)
  <2>1. SUFFICES ASSUME NEW a \in 1..(Len(s) + 1), NEW b \in 1..(Len(s) + 1), v[a] = v[b] PROVE a = b
    BY <1>1 DEF IsInjective
  <2>2. CASE a \in 1..Len(s) /\ b \in 1..Len(s)
    BY <1>1, <1>3, <2>1, <2>2 DEF IsInjective
  <2>3. CASE a \notin 1..Len(s) \/ b \notin 1..Len(s)
    BY <1>1, <1>3, <2>1, <2>3 DEF Range
  <2> QED BY <2>2, <2>3
<1> QED BY <1>1, <1>2, <1>3 DEF v

-----------------------------------------------------------------------------
(* What a batch does to the counters                                        *)

Sound(c) ==
  /\ c.stock \in [Rows -> Nat] /\ c.reserved \in [Rows -> Nat]
  /\ \A r \in Rows : c.reserved[r] <= c.stock[r]

\* The counters c are what the entries L and the saves add up to.
Matches(c, L) ==
  /\ unledgered \in [Rows -> Int]
  /\ \A r \in Rows : /\ c.stock[r] = Opening[r] + unledgered[r] + SumOf(OnShelf, RowsFor(r, L))
                     /\ c.reserved[r] = SumOf(OnHold, RowsFor(r, L))

\* One guarded movement keeps the units held within the units on hand.
LEMMA MoveSound ==
  ASSUME NEW c \in Counters, NEW e \in Keys, Sound(c)
  PROVE  Sound(Move(c, e))
<1> DEFINE r == RowOf[e.move]
           s == c.stock[r]
           v == c.reserved[r]
           q == Qty[e.move]
<1>1. r \in Rows /\ s \in Nat /\ v \in Nat /\ v <= s /\ q \in Nat /\ e.kind \in Kinds
  BY KeysTyped DEF Sound
<1>2. CASE ~Guard(e, s, v)
  BY <1>2 DEF Move
<1>3. CASE Guard(e, s, v)
  <2>1. s + OnShelf[e] \in Nat /\ v + OnHold[e] \in Nat /\ v + OnHold[e] <= s + OnShelf[e]
    <3>1. CASE e.kind = "reserve"
      BY <1>1, <1>3, <3>1 DEF Guard, OnShelf, OnHold
    <3>2. CASE e.kind = "deduct"
      BY <1>1, <1>3, <3>2 DEF Guard, OnShelf, OnHold
    <3>3. CASE e.kind = "release"
      BY <1>1, <1>3, <3>3 DEF Guard, OnShelf, OnHold
    <3>4. CASE e.kind \in {"restore", "adjust_in"}
      BY <1>1, <1>3, <3>4 DEF Guard, OnShelf, OnHold
    <3>5. CASE e.kind = "adjust_out"
      BY <1>1, <1>3, <3>5 DEF Guard, OnShelf, OnHold
    <3> QED BY <1>1, <3>1, <3>2, <3>3, <3>4, <3>5 DEF Kinds
  <2>2. /\ Move(c, e).stock = [c.stock EXCEPT ![r] = s + OnShelf[e]]
        /\ Move(c, e).reserved = [c.reserved EXCEPT ![r] = v + OnHold[e]]
    BY <1>3 DEF Move
  <2> HIDE DEF r, s, v
  <2> QED BY <1>1, <2>1, <2>2 DEF Sound
<1> QED BY <1>2, <1>3

\* A row takes a new entry of the ledger into its sums when the entry is its own.
LEMMA MoveMatches ==
  ASSUME NEW c \in Counters, NEW e \in Keys, NEW L \in SUBSET Keys, IsFiniteSet(L), e \notin L,
         Matches(c, L), Guard(e, c.stock[RowOf[e.move]], c.reserved[RowOf[e.move]])
  PROVE  Matches(Move(c, e), L \cup {e})
<1> DEFINE q == RowOf[e.move]
           d == Move(c, e)
<1>1. /\ q \in Rows /\ OnShelf[e] \in Int /\ OnHold[e] \in Int
      /\ c.stock \in [Rows -> Int] /\ c.reserved \in [Rows -> Int]
  BY KeysTyped DEF Counters
<1>2. /\ d.stock = [c.stock EXCEPT ![q] = @ + OnShelf[e]]
      /\ d.reserved = [c.reserved EXCEPT ![q] = @ + OnHold[e]]
  BY DEF Move
<1> HIDE DEF d
<1>3. SUFFICES ASSUME NEW r \in Rows
               PROVE  /\ d.stock[r] = Opening[r] + unledgered[r] + SumOf(OnShelf, RowsFor(r, L \cup {e}))
                      /\ d.reserved[r] = SumOf(OnHold, RowsFor(r, L \cup {e}))
  BY DEF Matches, d
<1> DEFINE S == RowsFor(r, L)
<1>4. /\ c.stock[r] = Opening[r] + unledgered[r] + SumOf(OnShelf, S) /\ c.reserved[r] = SumOf(OnHold, S)
      /\ Opening[r] \in Int /\ unledgered[r] \in Int
  BY QuantitiesPositive DEF Matches
<1>5. /\ S \subseteq L /\ IsFiniteSet(S) /\ e \notin S
      /\ \A y \in S \cup {e} : OnShelf[y] \in Int /\ OnHold[y] \in Int
  <2>1. S \subseteq L
    BY DEF RowsFor
  <2>2. OnShelf \in [Keys -> Int] /\ OnHold \in [Keys -> Int]
    BY KeysTyped
  <2> HIDE DEF S
  <2> QED BY <2>1, <2>2, FS_Subset
<1>6. CASE r = q
  <2>1. RowsFor(r, L \cup {e}) = S \cup {e}
    BY <1>6 DEF RowsFor
  <2>2. /\ SumOf(OnShelf, S \cup {e}) = OnShelf[e] + SumOf(OnShelf, S)
        /\ SumOf(OnHold, S \cup {e}) = OnHold[e] + SumOf(OnHold, S)
    <3> HIDE DEF S
    <3> QED BY <1>5, SumAdd
  <2>3. SumOf(OnShelf, S) \in Int /\ SumOf(OnHold, S) \in Int
    <3> HIDE DEF S
    <3> QED BY <1>5, SumType
  <2>4. d.stock[r] = c.stock[r] + OnShelf[e] /\ d.reserved[r] = c.reserved[r] + OnHold[e]
    BY <1>1, <1>2, <1>6
  <2> DEFINE a == SumOf(OnShelf, S)
             b == SumOf(OnHold, S)
  <2>5. a \in Int /\ b \in Int /\ d.stock[r] = Opening[r] + unledgered[r] + a + OnShelf[e] /\ d.reserved[r] = b + OnHold[e]
    BY <1>1, <1>4, <2>3, <2>4
  <2>6. /\ SumOf(OnShelf, RowsFor(r, L \cup {e})) = OnShelf[e] + a
        /\ SumOf(OnHold, RowsFor(r, L \cup {e})) = OnHold[e] + b
    BY <2>1, <2>2
  <2> HIDE DEF S, a, b
  <2> QED BY <1>1, <1>4, <2>5, <2>6
<1>7. CASE r # q
  <2>1. RowsFor(r, L \cup {e}) = S
    BY <1>7 DEF RowsFor
  <2>2. d.stock[r] = c.stock[r] /\ d.reserved[r] = c.reserved[r]
    BY <1>1, <1>2, <1>7
  <2> HIDE DEF S, q
  <2> QED BY <1>4, <2>1, <2>2
<1> QED BY <1>6, <1>7

\* A batch of different entries: what it leaves is sound, what it writes is part
\* of what it was given, and when none of it was in the ledger the counters add
\* up to the ledger with it.
LEMMA BatchFacts ==
  ASSUME NEW entries \in Seq(Keys), IsInjective(entries), Sound(Untouched),
         ledger \in SUBSET Keys, IsFiniteSet(ledger), Matches(Untouched, ledger)
  PROVE  LET c == After(entries) IN
         /\ Sound(c)
         /\ c.written \in Seq(Keys) /\ Len(c.written) <= Len(entries)
         /\ Range(c.written) \subseteq Range(entries)
         /\ IsInjective(c.written)
         /\ Range(c.written) \cap ledger = {} => Matches(c, ledger \cup Range(c.written))
<1> DEFINE n == Len(entries)
           Upto(i) == {entries[j] : j \in 1..i}
           rows(c) == Range(c.written)
           Fine(c, i) == /\ Sound(c) /\ Len(c.written) <= i
                         /\ rows(c) \subseteq Upto(i)
                         /\ IsInjective(c.written)
                         /\ rows(c) \cap ledger = {} => Matches(c, ledger \cup rows(c))
           Good == [i \in 0..n |-> {c \in Counters : Fine(c, i)}]
<1>1. n \in Nat /\ DOMAIN entries = 1..n /\ \A i \in 1..n : entries[i] \in Keys
  OBVIOUS
<1>2. stock \in [Rows -> Int] /\ reserved \in [Rows -> Int] /\ Untouched \in Counters
  BY DEF Sound, Untouched, Counters
<1>3. Untouched \in Good[0]
  <2>1. Untouched.written = <<>> /\ Len(<<>>) = 0 /\ Range(<<>>) = {} /\ IsInjective(<<>>)
    BY DEF Untouched, Range, IsInjective
  <2>2. Fine(Untouched, 0)
    <3>1. Matches(Untouched, ledger \cup rows(Untouched))
      <4>1. ledger \cup rows(Untouched) = ledger
        BY <2>1
      <4> HIDE DEF rows
      <4> QED BY <4>1
    <3>2. rows(Untouched) \subseteq Upto(0) /\ Len(Untouched.written) <= 0 /\ IsInjective(Untouched.written)
      BY <2>1
    <3> HIDE DEF Upto, rows
    <3> QED BY <3>1, <3>2
  <2> HIDE DEF Fine
  <2> QED BY <1>1, <1>2, <2>2
<1>4. ASSUME NEW i \in 1..n, NEW c \in Counters, c \in Good[i - 1]
      PROVE  Move(c, entries[i]) \in Good[i]
  <2> DEFINE e == entries[i]
             d == Move(c, e)
  <2>1. i - 1 \in 0..n /\ i \in 0..n /\ e \in Keys /\ i \in Int
    BY <1>1
  <2>2. Fine(c, i - 1)
    <3> HIDE DEF Fine
    <3> QED BY <1>4, <2>1
  <2>3. d \in Counters /\ Sound(d)
    BY <2>1, <2>2, MoveTyped, MoveSound
  <2>4. Upto(i) = Upto(i - 1) \cup {e} /\ e \notin Upto(i - 1)
    <3>1. ASSUME NEW j \in 1..i - 1 PROVE entries[j] # e
      BY <1>1, <2>1 DEF IsInjective
    <3> QED BY <3>1
  <2>5. c.written \in Seq(Keys)
    BY DEF Counters
  <2> HIDE DEF e, Upto
  <2>6. Fine(d, i)
    <3>1. CASE ~Guard(e, c.stock[RowOf[e.move]], c.reserved[RowOf[e.move]])
      <4>1. d = c
        BY <3>1 DEF Move
      <4>2. Len(c.written) <= i
        BY <2>1, <2>2, <2>5
      <4>3. rows(c) \subseteq Upto(i)
        BY <2>2, <2>4
      <4> HIDE DEF d
      <4> QED BY <2>2, <4>1, <4>2, <4>3
    <3>2. CASE Guard(e, c.stock[RowOf[e.move]], c.reserved[RowOf[e.move]])
      <4>1. d.written = Append(c.written, e)
        BY <3>2 DEF Move
      <4>2. Len(d.written) = Len(c.written) + 1 /\ d.written \in Seq(Keys) /\ rows(d) = rows(c) \cup {e}
        BY <2>1, <2>5, <4>1, AppendFacts
      <4>3. e \notin rows(c)
        BY <2>2, <2>4
      <4>4. IsInjective(d.written)
        BY <2>1, <2>2, <2>5, <4>1, <4>3, AppendFacts
      <4>5. Len(d.written) <= i /\ rows(d) \subseteq Upto(i)
        BY <2>1, <2>2, <2>4, <2>5, <4>2
      <4>6. ASSUME rows(d) \cap ledger = {} PROVE Matches(d, ledger \cup rows(d))
        <5> DEFINE L == ledger \cup rows(c)
        <5>1. Matches(c, L) /\ e \notin L /\ ledger \cup rows(d) = L \cup {e}
          BY <2>2, <4>2, <4>3, <4>6
        <5>2. L \in SUBSET Keys /\ IsFiniteSet(L)
          <6>1. rows(c) \in SUBSET Keys /\ IsFiniteSet(rows(c))
            BY <2>5, InjectiveCard DEF Range
          <6> QED BY <6>1, FS_Union
        <5> HIDE DEF L
        <5> QED BY <2>1, <3>2, <5>1, <5>2, MoveMatches
      <4> HIDE DEF d
      <4> QED BY <2>3, <4>4, <4>5, <4>6
    <3> QED BY <3>1, <3>2
  <2> HIDE DEF Fine
  <2> QED BY <2>1, <2>3, <2>6 DEF e
<1> DEFINE c == After(entries)
<1>5. c \in Good[n] /\ c \in Counters
  <2> HIDE DEF Good
  <2> QED BY <1>2, <1>3, <1>4, BatchInduction
<1>6. Fine(c, n) /\ c.written \in Seq(Keys)
  <2>1. c.written \in Seq(Keys)
    <3> HIDE DEF c
    <3> QED BY <1>5 DEF Counters
  <2> HIDE DEF Fine, c
  <2> QED BY <1>1, <1>5, <2>1
<1>7. Upto(n) = Range(entries)
  BY <1>1 DEF Range
<1> HIDE DEF Upto, c
<1> QED BY <1>6, <1>7 DEF c

-----------------------------------------------------------------------------
(* What an operation gathers                                                *)

\* One entry for each line, in the order of the lines.
LEMMA EntriesFacts ==
  ASSUME NEW k \in Kinds, NEW s \in Seq(Moves)
  PROVE  /\ Entries(k, s) \in Seq(Keys) /\ Len(Entries(k, s)) = Len(s)
         /\ Range(Entries(k, s)) = {Entry(k, m) : m \in Range(s)}
         /\ IsInjective(s) => IsInjective(Entries(k, s))
<1> DEFINE v == Entries(k, s)
<1>1. DOMAIN s = 1..Len(s) /\ Len(s) \in Nat /\ \A i \in 1..Len(s) : s[i] \in Moves
  OBVIOUS
<1>2. v = [i \in 1..Len(s) |-> Entry(k, s[i])]
  BY <1>1 DEF Entries
<1>3. \A i \in 1..Len(s) : Entry(k, s[i]) \in Keys
  BY <1>1, KeysTyped
<1> HIDE DEF v
<1>4. v \in Seq(Keys) /\ Len(v) = Len(s)
  BY <1>1, <1>2, <1>3
<1>5. Range(v) = {Entry(k, m) : m \in Range(s)}
  BY <1>1, <1>2 DEF Range
<1>6. \A m, l : Entry(k, m) = Entry(k, l) => m = l
  BY DEF Entry
<1>7. ASSUME IsInjective(s) PROVE IsInjective(v)
  BY <1>1, <1>2, <1>6, <1>7 DEF IsInjective
<1> QED BY <1>4, <1>5, <1>7 DEF v

\* Two sequences that share no element make one without repetition.
LEMMA ConcatFacts ==
  ASSUME NEW X, NEW s \in Seq(X), NEW u \in Seq(X), IsInjective(s), IsInjective(u),
         Range(s) \cap Range(u) = {}
  PROVE  /\ s \o u \in Seq(X) /\ Range(s \o u) = Range(s) \cup Range(u)
         /\ IsInjective(s \o u)
<1> DEFINE v == s \o u
           n == Len(s)
           k == Len(u)
<1>1. /\ v \in Seq(X) /\ n \in Nat /\ k \in Nat /\ DOMAIN s = 1..n /\ DOMAIN u = 1..k
      /\ DOMAIN v = 1..n + k
      /\ \A i \in 1..n + k : v[i] = IF i <= n THEN s[i] ELSE u[i - n]
  OBVIOUS
<1>1a. \A i \in 1..n : i \in 1..n + k /\ v[i] = s[i]
  BY <1>1
<1>1b. \A i \in 1..k : n + i \in 1..n + k /\ v[n + i] = u[i]
  BY <1>1
<1>1c. \A i \in 1..n + k : i \in 1..n \/ (i - n \in 1..k /\ v[i] = u[i - n])
  BY <1>1
<1> HIDE DEF v, n, k
<1>2. Range(v) = Range(s) \cup Range(u)
  <2>1. \A x \in Range(v) : x \in Range(s) \cup Range(u)
    BY <1>1, <1>1a, <1>1c DEF Range
  <2>2. \A x \in Range(s) : x \in Range(v)
    BY <1>1, <1>1a DEF Range
  <2>3. \A x \in Range(u) : x \in Range(v)
    BY <1>1, <1>1b DEF Range
  <2> QED BY <2>1, <2>2, <2>3
<1>3. IsInjective(v)
  <2>1. SUFFICES ASSUME NEW a \in 1..n + k, NEW b \in 1..n + k, v[a] = v[b] PROVE a = b
    BY <1>1 DEF IsInjective
  <2>2. CASE a \in 1..n /\ b \in 1..n
    BY <1>1, <1>1a, <2>1, <2>2 DEF IsInjective
  <2>3. CASE a \notin 1..n /\ b \notin 1..n
    <3>1. u[a - n] = u[b - n] /\ a - n \in 1..k /\ b - n \in 1..k
      BY <1>1c, <2>1, <2>3
    <3>2. a - n = b - n
      BY <1>1, <3>1 DEF IsInjective
    <3> QED BY <1>1, <3>2
  <2>4. CASE a \in 1..n /\ b \notin 1..n
    <3>1. v[a] \in Range(s) /\ v[b] \in Range(u)
      BY <1>1, <1>1a, <1>1c, <2>4 DEF Range
    <3> QED BY <2>1, <3>1
  <2>5. CASE a \notin 1..n /\ b \in 1..n
    <3>1. v[b] \in Range(s) /\ v[a] \in Range(u)
      BY <1>1, <1>1a, <1>1c, <2>5 DEF Range
    <3> QED BY <2>1, <3>1
  <2> QED BY <2>2, <2>3, <2>4, <2>5
<1> QED BY <1>1, <1>2, <1>3 DEF v

\* The lines of an order the ledger has an entry of the kind for, each once.
LEMMA LinesUnderFacts ==
  ASSUME NEW o \in Orders, NEW k \in Kinds
  PROVE  /\ LinesUnder(o, k) \in Seq(Moves) /\ IsInjective(LinesUnder(o, k))
         /\ \A m \in Range(LinesUnder(o, k)) : m \in Range(Lines[o]) /\ Entry(k, m) \in ledger
<1>1. Lines[o] \in Seq(Moves) /\ IsInjective(Lines[o])
  BY LinesAreTheirOrders
<1>2. /\ LinesUnder(o, k) \in Seq(Moves) /\ IsInjective(LinesUnder(o, k))
      /\ Range(LinesUnder(o, k)) = Range(Lines[o]) \cap MovesUnder(k)
  BY <1>1, WithinFacts DEF LinesUnder
<1> QED BY <1>2 DEF MovesUnder

\* A cancellation restores what was deducted and releases what was only held.
LEMMA ReturnsFacts ==
  ASSUME NEW o \in Orders
  PROVE  /\ Returns(o) \in Seq(Keys) /\ IsInjective(Returns(o))
         /\ \A e \in Range(Returns(o)) :
              /\ e.move \in Range(Lines[o])
              /\ \/ e.kind = "restore" /\ Entry("deduct", e.move) \in ledger
                 \/ /\ e.kind = "release" /\ Entry("reserve", e.move) \in ledger
                    /\ Entry("deduct", e.move) \notin ledger
<1> DEFINE held == LinesUnder(o, "reserve")
           out == Within(held, MovesUnder("deduct"))
           back == Within(held, Moves \ MovesUnder("deduct"))
           a == Entries("restore", out)
           b == Entries("release", back)
<1>1. /\ held \in Seq(Moves) /\ IsInjective(held)
      /\ \A m \in Range(held) : m \in Range(Lines[o]) /\ Entry("reserve", m) \in ledger
  BY LinesUnderFacts DEF Kinds
<1> HIDE DEF held
<1>2. /\ out \in Seq(Moves) /\ IsInjective(out) /\ back \in Seq(Moves) /\ IsInjective(back)
      /\ Range(out) = Range(held) \cap MovesUnder("deduct")
      /\ Range(back) = Range(held) \cap (Moves \ MovesUnder("deduct"))
  BY <1>1, WithinFacts
<1> HIDE DEF out, back
<1>3. /\ a \in Seq(Keys) /\ IsInjective(a) /\ Range(a) = {Entry("restore", m) : m \in Range(out)}
      /\ b \in Seq(Keys) /\ IsInjective(b) /\ Range(b) = {Entry("release", m) : m \in Range(back)}
  BY <1>2, EntriesFacts DEF Kinds
<1> HIDE DEF a, b
<1>4. Range(a) \cap Range(b) = {}
  BY <1>3 DEF Entry
<1>5. a \o b \in Seq(Keys) /\ IsInjective(a \o b) /\ Range(a \o b) = Range(a) \cup Range(b)
  BY <1>3, <1>4, ConcatFacts
<1>6. Returns(o) = a \o b
  BY DEF Returns, a, b, out, back, held
<1>7. \A e \in Range(a) : /\ e.move \in Range(Lines[o])
                         /\ e.kind = "restore" /\ Entry("deduct", e.move) \in ledger
  <2>1. \A m \in Range(out) : m \in Range(Lines[o]) /\ Entry("deduct", m) \in ledger
    BY <1>1, <1>2 DEF MovesUnder
  <2> QED BY <1>3, <2>1 DEF Entry
<1>8. \A e \in Range(b) : /\ e.move \in Range(Lines[o])
                         /\ e.kind = "release" /\ Entry("reserve", e.move) \in ledger
                         /\ Entry("deduct", e.move) \notin ledger
  <2>1. \A m \in Range(back) : /\ m \in Range(Lines[o]) /\ Entry("reserve", m) \in ledger
                               /\ Entry("deduct", m) \notin ledger
    BY <1>1, <1>2 DEF MovesUnder
  <2> QED BY <1>3, <2>1 DEF Entry
<1> QED BY <1>5, <1>6, <1>7, <1>8

-----------------------------------------------------------------------------
(* The invariant                                                            *)

\* What has to be in the ledger L before the entry e.
Justified(e, L) ==
  /\ e.kind = "restore" => Entry("deduct", e.move) \in L
  /\ e.kind \in {"deduct", "release"} => Entry("reserve", e.move) \in L

\* What a handler in flight knows: its entries are justified by what it read,
\* which stays; a checkout is of an order that was not there, means to hold all
\* of its lines, and while the order is still not there it has planned them all.
Knows(x, L, st) ==
  x.at # "idle" =>
    /\ x.order \in Orders
    /\ x.op # "none"
    /\ x.op = "checkout" <=> x.from = "none"
    /\ IsInjective(x.moves) /\ IsInjective(x.plan)
    /\ Range(x.plan) \subseteq Range(x.moves)
    /\ x.at # "commit" => x.plan = <<>>
    /\ \A e \in Range(x.moves) : Justified(e, L) /\ (e.kind = "reserve" <=> x.op = "checkout")
    /\ x.op = "checkout" /\ x.at # "gather" => x.moves = Entries("reserve", Lines[x.order])
    /\ x.op = "checkout" /\ x.at = "commit" /\ st[x.order] = "none" =>
         x.expected["reserve"] = Len(Lines[x.order])

\* The books: counters, ledger and orders, whoever is in flight.
Books ==
  /\ stock \in [Rows -> Nat] /\ reserved \in [Rows -> Nat] /\ status \in [Orders -> Statuses]
  /\ NeverOversold
  /\ ledger \in SUBSET Keys /\ IsFiniteSet(ledger)
  /\ CountersMatchLedger
  /\ OrderIsHeld
  /\ \A e \in ledger : Justified(e, ledger)
  /\ unledgered \in [Rows -> Int] /\ saves \in 0..MaxSaves

Handlers == task \in [Tasks -> Task] /\ \A t \in Tasks : Knows(task[t], ledger, status)

IInv == Books /\ Handlers

\* What justifies an entry stays, for the ledger only grows.
LEMMA Justification ==
  ASSUME NEW L, NEW M, L \subseteq M, NEW e, Justified(e, L)
  PROVE  Justified(e, M)
BY DEF Justified

\* So does what a handler knows, for orders stay there.
LEMMA KnowledgeKeeps ==
  ASSUME NEW x, NEW L, NEW st, NEW M, NEW su, L \subseteq M, Knows(x, L, st),
         \A o \in Orders : st[o] # "none" => su[o] # "none"
  PROVE  Knows(x, M, su)
BY Justification DEF Knows

\* A handler at rest knows nothing.
LEMMA NoTaskTyped == NoTask \in Task /\ \A L, st : Knows(NoTask, L, st)
BY DEF NoTask, Task, Statuses, Kinds, Knows

\* A handler that ends, and a handler that starts, leave the others as they were.
LEMMA OneHandler ==
  ASSUME NEW t \in Tasks, NEW y \in Task, Handlers, task' = [task EXCEPT ![t] = y],
         ledger \subseteq ledger', \A o \in Orders : status[o] # "none" => status'[o] # "none",
         Knows(y, ledger', status')
  PROVE  Handlers'
<1>1. task' \in [Tasks -> Task]
  BY DEF Handlers
<1>2. ASSUME NEW u \in Tasks PROVE Knows(task'[u], ledger', status')
  <2>1. CASE u = t
    BY <2>1 DEF Handlers
  <2>2. CASE u # t
    <3>1. task'[u] = task[u] /\ Knows(task[u], ledger, status)
      BY <2>2 DEF Handlers
    <3> QED BY <3>1, KnowledgeKeeps
  <2> QED BY <2>1, <2>2
<1> QED BY <1>1, <1>2 DEF Handlers

\* A handler that ends forgets what it knew.
LEMMA Finishes ==
  ASSUME NEW t \in Tasks, Handlers, Finish(t),
         ledger \subseteq ledger', \A o \in Orders : status[o] # "none" => status'[o] # "none"
  PROVE  Handlers'
BY OneHandler, NoTaskTyped DEF Finish

\* A handler that starts knows the status it read.
LEMMA Starts ==
  ASSUME NEW t \in Tasks, NEW o \in Orders, NEW op \in {"checkout", "confirm", "cancel"},
         Handlers, Start(t, o, op), status \in [Orders -> Statuses],
         op = "checkout" <=> status[o] = "none",
         ledger' = ledger, \A p \in Orders : status[p] # "none" => status'[p] # "none"
  PROVE  Handlers'
<1> DEFINE y == [NoTask EXCEPT !.at = "gather", !.op = op, !.order = o, !.from = status[o]]
<1>1. y \in Task
  <2>1. NoTask \in Task /\ status[o] \in Statuses
    BY NoTaskTyped
  <2> QED BY <2>1 DEF Task
<1>2. Knows(y, ledger', status')
  <2>1. /\ y.at = "gather" /\ y.op = op /\ y.order = o /\ y.from = status[o]
        /\ y.moves = <<>> /\ y.plan = <<>>
    BY DEF NoTask
  <2>2. IsInjective(<<>>) /\ Range(<<>>) = {}
    BY DEF IsInjective, Range
  <2> HIDE DEF y
  <2> QED BY <2>1, <2>2 DEF Knows
<1>3. task' = [task EXCEPT ![t] = y]
  BY DEF Start
<1> HIDE DEF y
<1> QED BY <1>1, <1>2, <1>3, OneHandler

-----------------------------------------------------------------------------
(* The steps                                                                *)

\* The counters before a batch are those of the ledger.
LEMMA BooksBalance == ASSUME Books PROVE Sound(Untouched) /\ Matches(Untouched, ledger)
BY DEF Books, Untouched, Sound, Matches, NeverOversold, CountersMatchLedger

\* A batch of justified entries that are not in the ledger yet keeps the books.
LEMMA BatchStep ==
  ASSUME Books, NEW entries \in Seq(Keys), IsInjective(entries),
         \A e \in Range(entries) : Justified(e, ledger),
         Range(After(entries).written) \cap ledger = {},
         stock' = After(entries).stock, reserved' = After(entries).reserved,
         ledger' = ledger \cup Range(After(entries).written),
         status' \in [Orders -> Statuses], OrderIsHeld', UNCHANGED saved
  PROVE  Books'
<1> DEFINE c == After(entries)
           rows == Range(c.written)
<1>1. /\ Sound(c) /\ c.written \in Seq(Keys) /\ rows \subseteq Range(entries)
      /\ Matches(c, ledger \cup rows)
  <2>1. ledger \in SUBSET Keys /\ IsFiniteSet(ledger)
    BY DEF Books
  <2> QED BY <2>1, BooksBalance, BatchFacts
<1> HIDE DEF c
<1>2. stock' \in [Rows -> Nat] /\ reserved' \in [Rows -> Nat] /\ NeverOversold'
  BY <1>1 DEF Sound, NeverOversold, c
<1>3. CountersMatchLedger'
  BY <1>1 DEF Matches, CountersMatchLedger, c, saved
<1>4. ledger' \in SUBSET Keys /\ IsFiniteSet(ledger')
  <2>1. rows \in SUBSET Keys /\ IsFiniteSet(rows)
    BY <1>1, InjectiveCard DEF Range
  <2> QED BY <2>1, FS_Union DEF Books, c
<1>5. \A e \in ledger' : Justified(e, ledger')
  BY <1>1, Justification DEF Books, c
<1>6. unledgered' \in [Rows -> Int] /\ saves' \in 0..MaxSaves
  BY DEF Books, saved
<1> QED BY <1>2, <1>3, <1>4, <1>5, <1>6 DEF Books

\* Full shelves, no order and an empty ledger are in order.
LEMMA InitStep == ASSUME Init PROVE IInv
<1>1. Handlers
  BY NoTaskTyped DEF Init, Handlers
<1>2. IsFiniteSet({})
  BY FS_EmptySet
<1>3. \A r \in Rows : RowsFor(r, {}) = {} /\ SumOf(OnShelf, {}) = 0 /\ SumOf(OnHold, {}) = 0
  BY SumEmpty DEF RowsFor
<1>4. stock \in [Rows -> Nat] /\ reserved \in [Rows -> Nat] /\ status \in [Orders -> Statuses]
  BY QuantitiesPositive DEF Init, Statuses
<1>5. NeverOversold /\ CountersMatchLedger
  <2>1. ledger = {} /\ \A r \in Rows : /\ stock[r] = Opening[r] /\ Opening[r] \in Nat
                                      /\ reserved[r] = 0 /\ unledgered[r] = 0
    BY QuantitiesPositive DEF Init
  <2>2. \A r \in Rows : SumOf(OnShelf, RowsFor(r, ledger)) = 0 /\ SumOf(OnHold, RowsFor(r, ledger)) = 0
    BY <1>3, <2>1
  <2> QED BY <2>1, <2>2 DEF NeverOversold, CountersMatchLedger
<1>6. OrderIsHeld
  BY DEF Init, OrderIsHeld
<1>7. ledger = {} /\ unledgered \in [Rows -> Int] /\ saves \in 0..MaxSaves
  BY FiguresNatural DEF Init
<1>8. Books
  BY <1>2, <1>4, <1>5, <1>6, <1>7 DEF Books
<1> QED BY <1>1, <1>8 DEF IInv

\* The books do not change when nothing of them does.
LEMMA BooksStand == ASSUME Books, UNCHANGED <<stock, reserved, ledger, status, saved>> PROVE Books'
BY DEF Books, NeverOversold, CountersMatchLedger, OrderIsHeld, saved

\* A status that moves between those of an order that is there keeps the books.
LEMMA BooksFlip ==
  ASSUME Books, UNCHANGED <<stock, reserved, ledger, saved>>, NEW o \in Orders, NEW s \in Statuses,
         status[o] # "none", s # "none", status' = [status EXCEPT ![o] = s]
  PROVE  Books' /\ \A p \in Orders : status[p] # "none" => status'[p] # "none"
<1>1. status \in [Orders -> Statuses]
  BY DEF Books
<1>2. status' \in [Orders -> Statuses] /\ \A p \in Orders : status[p] # "none" <=> status'[p] # "none"
  BY <1>1
<1>3. OrderIsHeld'
  BY <1>2 DEF Books, OrderIsHeld
<1> QED BY <1>2, <1>3 DEF Books, NeverOversold, CountersMatchLedger, saved

\* What a handler gathers is justified by the ledger it reads.
LEMMA GatherStep == ASSUME IInv, NEW t \in Tasks, Gather(t) PROVE IInv'
<1> DEFINE x == task[t]
           o == x.order
           moves == CASE x.op = "checkout" -> Entries("reserve", Lines[o])
                      [] x.op = "confirm" -> Entries("deduct", LinesUnder(o, "reserve"))
                      [] x.op = "cancel" -> Returns(o)
           y == [x EXCEPT !.at = "plan", !.moves = moves]
<1>1. x \in Task /\ Knows(x, ledger, status) /\ x.at = "gather" /\ task' = [task EXCEPT ![t] = y]
  <2>1. /\ x.at = "gather" /\ UNCHANGED <<stock, reserved, ledger, status, saved>>
        /\ task' = [task EXCEPT ![t].at = "plan", ![t].moves = moves]
    BY DEF Gather
  <2>2. task \in [Tasks -> Task] /\ x \in Task /\ Knows(x, ledger, status)
    BY DEF IInv, Handlers
  <2> HIDE DEF moves
  <2>3. task' = [task EXCEPT ![t] = y]
    BY <2>1, <2>2
  <2> QED BY <2>1, <2>2, <2>3
<1>2. o \in Orders /\ x.op \in {"checkout", "confirm", "cancel"} /\ x.plan = <<>>
  BY <1>1 DEF Knows, Task
<1>3. /\ moves \in Seq(Keys) /\ IsInjective(moves)
      /\ \A e \in Range(moves) : Justified(e, ledger) /\ (e.kind = "reserve" <=> x.op = "checkout")
  <2>1. CASE x.op = "checkout"
    <3>1. /\ moves \in Seq(Keys) /\ IsInjective(moves)
          /\ Range(moves) = {Entry("reserve", m) : m \in Range(Lines[o])}
      BY <1>2, <2>1, LinesAreTheirOrders, EntriesFacts DEF Kinds
    <3> HIDE DEF moves
    <3> QED BY <2>1, <3>1 DEF Entry, Justified
  <2>2. CASE x.op = "confirm"
    <3> DEFINE held == LinesUnder(o, "reserve")
    <3>1. /\ held \in Seq(Moves) /\ IsInjective(held)
          /\ \A m \in Range(held) : Entry("reserve", m) \in ledger
      BY <1>2, LinesUnderFacts DEF Kinds
    <3> HIDE DEF held
    <3>2. /\ moves \in Seq(Keys) /\ IsInjective(moves)
          /\ Range(moves) = {Entry("deduct", m) : m \in Range(held)}
      BY <2>2, <3>1, EntriesFacts DEF Kinds, held
    <3> HIDE DEF moves
    <3> QED BY <2>2, <3>1, <3>2 DEF Entry, Justified
  <2>3. CASE x.op = "cancel"
    <3>1. moves = Returns(o)
      BY <2>3
    <3> HIDE DEF moves
    <3> QED BY <1>2, <2>3, <3>1, ReturnsFacts DEF Justified
  <2> HIDE DEF moves, x
  <2> QED BY <1>2, <2>1, <2>2, <2>3
<1>4. x.op = "checkout" => moves = Entries("reserve", Lines[o])
  OBVIOUS
<1> HIDE DEF moves
<1>5. y \in Task
  BY <1>1, <1>3 DEF Task
<1>6. /\ y.at = "plan" /\ y.op = x.op /\ y.order = o /\ y.from = x.from /\ y.moves = moves
      /\ y.plan = x.plan
  BY <1>1 DEF Task
<1>7. UNCHANGED <<stock, reserved, ledger, status, saved>>
  BY DEF Gather
<1> HIDE DEF y, x
<1>8. Knows(y, ledger, status)
  BY <1>1, <1>2, <1>3, <1>4, <1>6 DEF Knows, o, Range, IsInjective
<1>9. Handlers'
  BY <1>1, <1>5, <1>7, <1>8, OneHandler DEF IInv
<1> QED BY <1>7, <1>9, BooksStand DEF IInv

\* A plan is part of what was gathered; a checkout of an order that is not there plans
\* every line, for none of them is in the ledger.
LEMMA PlanStep == ASSUME IInv, NEW t \in Tasks, Plan(t) PROVE IInv'
<1> DEFINE x == task[t]
           o == x.order
           todo == NotDone(x.moves)
           plan == After(todo).written
           counts == [k \in Kinds |-> Cardinality({i \in DOMAIN plan : plan[i].kind = k})
                        + IF x.op = "checkout" THEN 0 ELSE Cardinality(Recorded(o, k, ledger))]
           y == [x EXCEPT !.at = "commit", !.plan = plan, !.expected = counts]
<1>1. x \in Task /\ Knows(x, ledger, status) /\ x.at = "plan" /\ task \in [Tasks -> Task]
  BY DEF IInv, Handlers, Plan
<1>2. UNCHANGED <<stock, reserved, ledger, status, saved>>
  BY DEF Plan
<1>3. CASE Finish(t)
  BY <1>2, <1>3, Finishes, BooksStand DEF IInv
<1>4. CASE /\ ~(x.op = "checkout" /\ Len(plan) < Len(todo))
           /\ task' = [task EXCEPT ![t].at = "commit", ![t].plan = plan, ![t].expected = counts]
  <2>1. /\ x.moves \in Seq(Keys) /\ IsInjective(x.moves) /\ x.op \in {"checkout", "confirm", "cancel"}
        /\ o \in Orders
    BY <1>1 DEF Task, Knows
  <2>2. /\ todo \in Seq(Keys) /\ IsInjective(todo) /\ Range(todo) \subseteq Range(x.moves)
        /\ Range(x.moves) \subseteq Keys \ ledger => todo = x.moves
    BY <2>1, WithinFacts DEF NotDone
  <2> HIDE DEF todo
  <2>3. /\ plan \in Seq(Keys) /\ IsInjective(plan) /\ Range(plan) \subseteq Range(x.moves)
        /\ Len(plan) <= Len(todo)
    <3>1. ledger \in SUBSET Keys /\ IsFiniteSet(ledger)
      BY DEF IInv, Books
    <3> QED BY <2>2, <3>1, BooksBalance, BatchFacts DEF IInv
  <2> HIDE DEF plan
  <2>4. counts \in [Kinds -> Nat]
    <3>1. ASSUME NEW k \in Kinds
          PROVE  /\ Cardinality({i \in DOMAIN plan : plan[i].kind = k}) \in Nat
                 /\ Cardinality(Recorded(o, k, ledger)) \in Nat
      <4>1. IsFiniteSet(1..Len(plan)) /\ DOMAIN plan = 1..Len(plan)
        BY <2>3, FS_Interval
      <4>2. IsFiniteSet(ledger)
        BY DEF IInv, Books
      <4>3. {i \in DOMAIN plan : plan[i].kind = k} \in SUBSET (1..Len(plan))
        BY <4>1
      <4>4. Recorded(o, k, ledger) \in SUBSET ledger
        BY DEF Recorded
      <4> QED BY <4>1, <4>2, <4>3, <4>4, FS_Subset, FS_CardinalityType
    <3> QED BY <3>1
  <2>5. x.op = "checkout" /\ status[o] = "none" => counts["reserve"] = Len(Lines[o])
    <3>1. SUFFICES ASSUME x.op = "checkout", status[o] = "none" PROVE counts["reserve"] = Len(Lines[o])
      OBVIOUS
    <3>2. x.moves = Entries("reserve", Lines[o]) /\ Lines[o] \in Seq(Moves)
      BY <1>1, <2>1, <3>1, LinesAreTheirOrders DEF Knows
    <3>3. /\ Len(x.moves) = Len(Lines[o])
          /\ Range(x.moves) = {Entry("reserve", m) : m \in Range(Lines[o])}
      BY <3>2, EntriesFacts DEF Kinds
    <3>4. Range(x.moves) \subseteq Keys \ ledger
      <4>1. \A m \in Range(Lines[o]) : Entry("reserve", m) \notin ledger
        BY <2>1, <3>1 DEF IInv, Books, OrderIsHeld
      <4>2. Range(x.moves) \subseteq Keys
        BY <2>1 DEF Range
      <4> HIDE DEF x, o
      <4> QED BY <3>3, <4>1, <4>2
    <3>5. Len(plan) = Len(Lines[o]) /\ Len(plan) \in Nat
      BY <1>4, <2>2, <2>3, <3>1, <3>3, <3>4
    <3>6. {i \in DOMAIN plan : plan[i].kind = "reserve"} = 1..Len(plan)
      <4>1. DOMAIN plan = 1..Len(plan) /\ \A i \in DOMAIN plan : plan[i] \in Range(plan)
        BY <2>3 DEF Range
      <4> QED BY <2>3, <3>3, <4>1 DEF Entry
    <3>7. Cardinality(1..Len(plan)) = Len(plan)
      BY <3>5, FS_Interval
    <3> DEFINE places == {i \in DOMAIN plan : plan[i].kind = "reserve"}
    <3>8. counts["reserve"] = Cardinality(places) + 0
      BY <3>1 DEF Kinds
    <3>9. Cardinality(places) = Len(Lines[o])
      BY <3>5, <3>6, <3>7
    <3>10. Len(Lines[o]) \in Nat
      BY <3>5
    <3> HIDE DEF counts, places, o
    <3> QED BY <3>8, <3>9, <3>10
  <2> HIDE DEF counts
  <2>6. y \in Task
    BY <1>1, <2>3, <2>4 DEF Task
  <2>7. /\ y.at = "commit" /\ y.op = x.op /\ y.order = o /\ y.from = x.from /\ y.moves = x.moves
        /\ y.plan = plan /\ y.expected = counts
    BY <1>1 DEF Task
  <2>8. task' = [task EXCEPT ![t] = y]
    BY <1>1, <1>4
  <2> HIDE DEF x, y
  <2>9. Knows(y, ledger, status)
    BY <1>1, <2>1, <2>3, <2>5, <2>7 DEF Knows
  <2>10. Handlers'
    BY <1>2, <2>6, <2>8, <2>9, OneHandler DEF IInv
  <2> QED BY <1>2, <2>10, BooksStand DEF IInv
<1> QED BY <1>3, <1>4 DEF Plan

\* The fence: a checkout that commits holds every line of its order.
LEMMA FenceHoldsAll ==
  ASSUME NEW o \in Orders, NEW L \in SUBSET Keys, IsFiniteSet(L),
         Lines[o] # <<>> => Cardinality(Recorded(o, "reserve", L)) = Len(Lines[o])
  PROVE  \A m \in Range(Lines[o]) : Entry("reserve", m) \in L
<1> DEFINE s == Lines[o]
           all == Entries("reserve", s)
           rec == Recorded(o, "reserve", L)
<1>1. s \in Seq(Moves) /\ IsInjective(s)
  BY LinesAreTheirOrders
<1>2. /\ all \in Seq(Keys) /\ IsInjective(all) /\ Len(all) = Len(s)
      /\ Range(all) = {Entry("reserve", m) : m \in Range(s)}
  BY <1>1, EntriesFacts DEF Kinds
<1>3. IsFiniteSet(Range(all)) /\ Cardinality(Range(all)) = Len(s)
  BY <1>2, InjectiveCard
<1>4. rec \subseteq Range(all) /\ rec \subseteq L
  BY <1>2 DEF Recorded, Keys, Entry
<1>5. CASE s = <<>>
  BY <1>5 DEF Range
<1>6. CASE s # <<>>
  <2>1. rec = Range(all)
    <3> HIDE DEF all, rec
    <3>1. Cardinality(rec) = Len(s)
      BY <1>6 DEF rec
    <3> QED BY <1>3, <1>4, <3>1, FS_Subset
  <2> HIDE DEF all, rec
  <2> QED BY <1>2, <1>4, <2>1
<1> QED BY <1>5, <1>6

\* Entries that hold nothing, and an order that stays there or stays away.
LEMMA HeldStays ==
  ASSUME OrderIsHeld, NEW rows, ledger' = ledger \cup rows, \A e \in rows : e.kind # "reserve",
         \A p \in Orders : status'[p] # "none" <=> status[p] # "none"
  PROVE  OrderIsHeld'
<1>1. \A m : Entry("reserve", m) \notin rows
  BY DEF Entry
<1> QED BY <1>1 DEF OrderIsHeld

\* A commit is nothing, or a justified batch that leaves the order's lines all held.
LEMMA CommitStep == ASSUME IInv, NEW t \in Tasks, Commit(t) PROVE IInv'
<1> DEFINE x == task[t]
           o == x.order
           c == After(x.plan)
           rows == Range(c.written)
<1>1. /\ x \in Task /\ Knows(x, ledger, status) /\ x.at = "commit"
      /\ Finish(t)
  BY DEF IInv, Handlers, Commit
<1>2. CASE UNCHANGED <<stock, reserved, ledger, status, saved>>
  BY <1>1, <1>2, Finishes, BooksStand DEF IInv
<1>3. CASE /\ rows \cap ledger = {} /\ Fence(t, ledger \cup rows) /\ Flips(t)
           /\ stock' = c.stock /\ reserved' = c.reserved /\ ledger' = ledger \cup rows
           /\ UNCHANGED saved
  <2>1. /\ x.plan \in Seq(Keys) /\ IsInjective(x.plan) /\ Range(x.plan) \subseteq Range(x.moves)
        /\ x.moves \in Seq(Keys) /\ IsInjective(x.moves)
        /\ x.op \in {"checkout", "confirm", "cancel"} /\ o \in Orders
        /\ \A e \in Range(x.moves) : Justified(e, ledger) /\ (e.kind = "reserve" <=> x.op = "checkout")
        /\ x.op = "checkout" <=> x.from = "none"
    BY <1>1 DEF Task, Knows
  <2>2. /\ ledger \in SUBSET Keys /\ IsFiniteSet(ledger) /\ status \in [Orders -> Statuses]
        /\ OrderIsHeld /\ Books /\ Handlers
    BY DEF IInv, Books
  <2>3. rows \subseteq Range(x.moves) /\ c.written \in Seq(Keys)
    BY <2>1, <2>2, BooksBalance, BatchFacts
  <2>4. /\ rows \in SUBSET Keys /\ IsFiniteSet(rows)
        /\ ledger \cup rows \in SUBSET Keys /\ IsFiniteSet(ledger \cup rows)
    <3>1. rows \in SUBSET Keys /\ IsFiniteSet(rows)
      BY <2>3, InjectiveCard DEF Range
    <3> QED BY <2>2, <3>1, FS_Union
  <2> HIDE DEF c, rows
  <2>5. /\ status' \in [Orders -> Statuses] /\ OrderIsHeld'
        /\ \A p \in Orders : status[p] # "none" => status'[p] # "none"
    <3>1. CASE x.op = "confirm"
      <4>1. UNCHANGED status
        BY <1>3, <3>1 DEF Flips
      <4>2. \A e \in rows : e.kind # "reserve"
        BY <2>1, <2>3, <3>1
      <4> QED BY <1>3, <2>2, <4>1, <4>2, HeldStays
    <3>2. CASE x.op = "cancel"
      <4>1. status[o] = x.from /\ status' = [status EXCEPT ![o] = "cancelled"]
        BY <1>3, <3>2 DEF Flips
      <4>2. \A e \in rows : e.kind # "reserve"
        BY <2>1, <2>3, <3>2
      <4>3. status[o] # "none"
        BY <2>1, <3>2, <4>1
      <4>4. /\ status' \in [Orders -> Statuses]
            /\ \A p \in Orders : status'[p] # "none" <=> status[p] # "none"
        BY <2>1, <2>2, <4>1, <4>3 DEF Statuses
      <4> QED BY <1>3, <2>2, <4>2, <4>4, HeldStays
    <3>3. CASE x.op = "checkout"
      <4>1. status[o] = "none" /\ status' = [status EXCEPT ![o] = "pending"]
        BY <1>3, <3>3 DEF Flips
      <4>2. /\ status' \in [Orders -> Statuses]
            /\ status'[o] = "pending" /\ \A p \in Orders \ {o} : status'[p] = status[p]
        BY <2>1, <2>2, <4>1 DEF Statuses
      <4>3. /\ x.moves = Entries("reserve", Lines[o]) /\ x.expected["reserve"] = Len(Lines[o])
            /\ Lines[o] \in Seq(Moves)
        BY <1>1, <2>1, <3>3, <4>1, LinesAreTheirOrders DEF Knows
      <4>4. Range(x.moves) = {Entry("reserve", m) : m \in Range(Lines[o])}
        BY <4>3, EntriesFacts DEF Kinds
      <4>5. Lines[o] # <<>> => Cardinality(Recorded(o, "reserve", ledger \cup rows)) = Len(Lines[o])
        <5>1. SUFFICES ASSUME Lines[o] # <<>> PROVE "reserve" \in KindsOf(x.moves)
          BY <1>3, <4>3 DEF Fence
        <5>2. PICK m : m \in Range(Lines[o])
          <6>1. Lines[o][1] \in Range(Lines[o])
            BY <4>3, <5>1 DEF Range
          <6> QED BY <6>1
        <5>3. Entry("reserve", m) \in Range(x.moves) /\ Entry("reserve", m).kind = "reserve"
          BY <4>4, <5>2 DEF Entry
        <5> HIDE DEF x
        <5> QED BY <5>3 DEF KindsOf
      <4>6. \A m \in Range(Lines[o]) : Entry("reserve", m) \in ledger'
        <5>1. \A m \in Range(Lines[o]) : Entry("reserve", m) \in ledger \cup rows
          BY <2>1, <2>4, <4>5, FenceHoldsAll
        <5> QED BY <1>3, <5>1
      <4>7. ASSUME NEW p \in Orders \ {o}, NEW m \in Range(Lines[p])
            PROVE  Entry("reserve", m) \in ledger' <=> Entry("reserve", m) \in ledger
        <5>1. m \notin Range(Lines[o])
          BY <2>1, <4>7, LinesAreTheirOrders
        <5>2. Entry("reserve", m) \notin rows
          BY <2>3, <4>4, <5>1 DEF Entry
        <5> QED BY <1>3, <5>2
      <4>8. OrderIsHeld'
        <5>1. SUFFICES ASSUME NEW p \in Orders, NEW m \in Range(Lines[p])
                       PROVE  Entry("reserve", m) \in ledger' <=> status'[p] # "none"
          BY DEF OrderIsHeld
        <5>2. CASE p = o
          BY <4>2, <4>6, <5>2
        <5>3. CASE p # o
          <6>1. Entry("reserve", m) \in ledger <=> status[p] # "none"
            BY <2>2 DEF OrderIsHeld
          <6> QED BY <4>2, <4>7, <5>3, <6>1
        <5> QED BY <5>2, <5>3
      <4> QED BY <4>1, <4>2, <4>8
    <3> QED BY <2>1, <3>1, <3>2, <3>3
  <2>6. \A e \in Range(x.plan) : Justified(e, ledger)
    BY <2>1
  <2>7. Books'
    BY <1>3, <2>1, <2>2, <2>5, <2>6, BatchStep DEF c, rows
  <2>8. Handlers'
    BY <1>1, <1>3, <2>2, <2>5, Finishes
  <2> QED BY <2>7, <2>8 DEF IInv
<1> QED BY <1>2, <1>3 DEF Commit

\* A correction is a batch of one entry, of no order.
LEMMA AdjustStep ==
  ASSUME IInv, NEW kind \in {"adjust_in", "adjust_out"}, NEW m \in Moves, Adjust(kind, m)
  PROVE  IInv'
<1> DEFINE e == Entry(kind, m)
           s == <<e>>
           rows == Range(After(s).written)
<1>1. e \in Keys /\ e.kind = kind
  BY KeysTyped DEF Kinds, Entry
<1>2. /\ e \notin ledger /\ UNCHANGED <<status, task, saved>>
      /\ stock' = After(s).stock /\ reserved' = After(s).reserved /\ ledger' = ledger \cup rows
  BY DEF Adjust
<1> HIDE DEF e
<1>3. s \in Seq(Keys) /\ IsInjective(s) /\ Range(s) = {e}
  BY <1>1 DEF IsInjective, Range
<1>4. Books /\ Handlers /\ OrderIsHeld /\ status \in [Orders -> Statuses]
  BY DEF IInv, Books
<1>5. rows \subseteq {e}
  <2>1. ledger \in SUBSET Keys /\ IsFiniteSet(ledger)
    BY <1>4 DEF Books
  <2> HIDE DEF s
  <2> QED BY <1>3, <1>4, <2>1, BooksBalance, BatchFacts
<1>6. Justified(e, ledger) /\ e.kind # "reserve"
  BY <1>1 DEF Justified
<1> HIDE DEF s
<1>7. OrderIsHeld'
  BY <1>2, <1>4, <1>5, <1>6, HeldStays
<1>8. Books'
  BY <1>2, <1>3, <1>4, <1>5, <1>6, <1>7, BatchStep
<1>9. Handlers'
  <2>1. ASSUME NEW t \in Tasks PROVE Knows(task'[t], ledger', status')
    <3>1. Knows(task[t], ledger, status) /\ task' = task /\ status' = status /\ ledger \subseteq ledger'
      BY <1>2, <1>4 DEF Handlers
    <3> QED BY <3>1, KnowledgeKeeps
  <2> QED BY <1>2, <1>4, <2>1 DEF Handlers
<1> QED BY <1>8, <1>9 DEF IInv

\* A save sets the units on hand of one row, to no less than the units held, and
\* counts what it added or took away.
LEMMA SaveStep ==
  ASSUME IInv, NEW r \in Rows, NEW figure \in Figures[r], SetStock(r, figure)
  PROVE  IInv'
<1> DEFINE after == IF figure < reserved[r] THEN reserved[r] ELSE figure
<1>1. Books /\ Handlers /\ figure \in Nat /\ MaxSaves \in Nat
  BY FiguresNatural DEF IInv
<1>2. /\ stock \in [Rows -> Nat] /\ reserved \in [Rows -> Nat]
      /\ unledgered \in [Rows -> Int] /\ saves \in 0..MaxSaves
  BY <1>1 DEF Books
<1>3. after \in Nat /\ reserved[r] <= after
  BY <1>1, <1>2
<1>4. /\ saves < MaxSaves /\ saves' = saves + 1
      /\ stock' = [stock EXCEPT ![r] = after]
      /\ unledgered' = [unledgered EXCEPT ![r] = unledgered[r] + after - stock[r]]
      /\ UNCHANGED <<reserved, ledger, status, task>>
  BY <1>2 DEF SetStock
<1> HIDE DEF after
<1>5. /\ stock' \in [Rows -> Nat] /\ reserved' \in [Rows -> Nat]
      /\ unledgered' \in [Rows -> Int] /\ saves' \in 0..MaxSaves
  BY <1>1, <1>2, <1>3, <1>4
<1>6. NeverOversold'
  BY <1>1, <1>2, <1>3, <1>4 DEF Books, NeverOversold
<1>7. CountersMatchLedger'
  <2>1. SUFFICES ASSUME NEW q \in Rows
                 PROVE  /\ stock'[q] = Opening[q] + unledgered'[q] + SumOf(OnShelf, RowsFor(q, ledger))
                        /\ reserved'[q] = SumOf(OnHold, RowsFor(q, ledger))
    BY <1>4 DEF CountersMatchLedger
  <2> DEFINE a == SumOf(OnShelf, RowsFor(q, ledger))
  <2>2. /\ stock[q] = Opening[q] + unledgered[q] + a
        /\ reserved'[q] = SumOf(OnHold, RowsFor(q, ledger))
    BY <1>1, <1>4 DEF Books, CountersMatchLedger
  <2>3. a \in Int
    <3>1. OnShelf \in [Keys -> Int] /\ RowsFor(q, ledger) \subseteq ledger
      BY KeysTyped DEF RowsFor
    <3>2. ledger \in SUBSET Keys /\ IsFiniteSet(ledger)
      BY <1>1 DEF Books
    <3> QED BY <3>1, <3>2, FS_Subset, SumType
  <2>4. Opening[q] \in Int
    BY QuantitiesPositive
  <2> HIDE DEF a
  <2>5. stock'[q] = Opening[q] + unledgered'[q] + a
    BY <1>2, <1>3, <1>4, <2>2, <2>3, <2>4
  <2> QED BY <2>2, <2>5 DEF a
<1>8. Books'
  BY <1>1, <1>4, <1>5, <1>6, <1>7 DEF Books, OrderIsHeld
<1>9. Handlers'
  BY <1>1, <1>4 DEF Handlers
<1> QED BY <1>8, <1>9 DEF IInv

\* The other steps leave the counters and the ledger alone.
LEMMA OtherSteps ==
  ASSUME IInv
  PROVE  /\ \A t \in Tasks : Crash(t) => IInv'
         /\ \A t \in Tasks, o \in Orders : Checkout(t, o) \/ Confirm(t, o) \/ Cancel(t, o) => IInv'
         /\ \A o \in Orders : BackToPending(o) => IInv'
         /\ UNCHANGED vars => IInv'
<1>1. Books /\ Handlers /\ status \in [Orders -> Statuses]
  BY DEF IInv, Books
<1>2. ASSUME NEW t \in Tasks, Crash(t) PROVE IInv'
  BY <1>1, <1>2, Finishes, BooksStand DEF IInv, Crash
<1>3. ASSUME NEW t \in Tasks, NEW o \in Orders, Checkout(t, o) PROVE IInv'
  <2>1. /\ Start(t, o, "checkout") /\ status[o] = "none"
        /\ UNCHANGED <<stock, reserved, ledger, status, saved>>
    BY <1>3 DEF Checkout
  <2>2. Handlers'
    BY <1>1, <2>1, Starts
  <2> QED BY <1>1, <2>1, <2>2, BooksStand DEF IInv
<1>4. ASSUME NEW t \in Tasks, NEW o \in Orders, Cancel(t, o) PROVE IInv'
  <2>1. /\ Start(t, o, "cancel") /\ status[o] # "none"
        /\ UNCHANGED <<stock, reserved, ledger, status, saved>>
    BY <1>4 DEF Cancel
  <2>2. Handlers'
    BY <1>1, <2>1, Starts
  <2> QED BY <1>1, <2>1, <2>2, BooksStand DEF IInv
<1>5. ASSUME NEW t \in Tasks, NEW o \in Orders, Confirm(t, o) PROVE IInv'
  <2>1. /\ Start(t, o, "confirm") /\ status[o] # "none" /\ "confirmed" \in Statuses
        /\ status' = [status EXCEPT ![o] = "confirmed"]
        /\ UNCHANGED <<stock, reserved, ledger, saved>>
    BY <1>5 DEF Confirm, Reopenable, Statuses
  <2>2. Books' /\ \A p \in Orders : status[p] # "none" => status'[p] # "none"
    BY <1>1, <2>1, BooksFlip
  <2>3. Handlers'
    BY <1>1, <2>1, <2>2, Starts
  <2> QED BY <2>2, <2>3 DEF IInv
<1>6. ASSUME NEW o \in Orders, BackToPending(o) PROVE IInv'
  <2>1. /\ status[o] # "none" /\ "pending" \in Statuses
        /\ status' = [status EXCEPT ![o] = "pending"]
        /\ UNCHANGED <<stock, reserved, ledger, task, saved>>
    BY <1>6 DEF BackToPending, Reopenable, Statuses
  <2>2. Books' /\ \A p \in Orders : status[p] # "none" => status'[p] # "none"
    BY <1>1, <2>1, BooksFlip
  <2>3. ASSUME NEW t \in Tasks PROVE Knows(task'[t], ledger', status')
    <3>1. Knows(task[t], ledger, status) /\ task' = task /\ ledger' = ledger
      BY <1>1, <2>1 DEF Handlers
    <3> QED BY <2>2, <3>1, KnowledgeKeeps
  <2>4. Handlers'
    BY <1>1, <2>1, <2>3 DEF Handlers
  <2> QED BY <2>2, <2>4 DEF IInv
<1>7. ASSUME UNCHANGED vars PROVE IInv'
  <2>1. UNCHANGED <<stock, reserved, ledger, status, saved>> /\ task' = task
    BY <1>7 DEF vars
  <2>2. Handlers'
    BY <1>1, <2>1 DEF Handlers
  <2> QED BY <1>1, <2>1, <2>2, BooksStand DEF IInv
<1> QED BY <1>2, <1>3, <1>4, <1>5, <1>6, <1>7

-----------------------------------------------------------------------------
(* The theorems                                                             *)

\* The inductive invariant, for any number of handlers, orders and rows.
THEOREM StockInvariant == Spec => []IInv
<1>1. Init => IInv
  BY InitStep
<1>2. IInv /\ [Next]_vars => IInv'
  <2>1. SUFFICES ASSUME IInv, Next PROVE IInv'
    BY OtherSteps
  <2>2. \A m \in Incoming \cup Outgoing : m \in Moves
    BY DEF Moves
  <2>3. CASE \E t \in Tasks : \/ Gather(t) \/ Plan(t) \/ Commit(t) \/ Crash(t)
                              \/ \E o \in Orders : Checkout(t, o) \/ Confirm(t, o) \/ Cancel(t, o)
    BY <2>1, <2>3, GatherStep, PlanStep, CommitStep, OtherSteps
  <2>4. CASE \E o \in Orders : BackToPending(o)
    BY <2>1, <2>4, OtherSteps
  <2>5. CASE \E m \in Incoming : Adjust("adjust_in", m)
    BY <2>1, <2>2, <2>5, AdjustStep
  <2>6. CASE \E m \in Outgoing : Adjust("adjust_out", m)
    BY <2>1, <2>2, <2>6, AdjustStep
  <2>7. CASE \E r \in Rows : \E figure \in Figures[r] : SetStock(r, figure)
    BY <2>1, <2>7, SaveStep
  <2> QED BY <2>1, <2>3, <2>4, <2>5, <2>6, <2>7 DEF Next
<1> QED BY <1>1, <1>2, PTL DEF Spec

\* The counters of every row stay natural numbers and a handler in flight stays a
\* checkout, a confirmation or a cancellation of an order.
THEOREM StockTyped == Spec => []TypeOK
<1>1. IInv => TypeOK
  BY DEF IInv, Books, Handlers, Knows, TypeOK
<1> QED BY <1>1, StockInvariant, PTL

\* No interleaving of checkouts, confirmations, cancellations, write-offs and
\* fenced saves, whatever they plan on stale counters, holds more of a row than is
\* on its shelf.
THEOREM ShelfCoversHolds == Spec => []NeverOversold
<1>1. IInv => NeverOversold
  BY DEF IInv, Books
<1> QED BY <1>1, StockInvariant, PTL

\* The units held of a row are at all times the sum of its entries in the ledger,
\* and its units on hand are its opening, that sum and what saves of products
\* changed without an entry: no entry is of a movement that did not happen, and
\* only a save moves a counter with no entry.
THEOREM LedgerExplainsCounters == Spec => []CountersMatchLedger
<1>1. IInv => CountersMatchLedger
  BY DEF IInv, Books
<1> QED BY <1>1, StockInvariant, PTL

\* An order is there exactly when all of its lines are held: the fence of a
\* checkout's batch is never passed by half an order.
THEOREM OrdersAreHeld == Spec => []OrderIsHeld
<1>1. IInv => OrderIsHeld
  BY DEF IInv, Books
<1> QED BY <1>1, StockInvariant, PTL

\* A line is restored only after it was deducted, and deducted or released only
\* after it was held.
THEOREM ReturnsAreJustified == Spec => []ReturnsFollowTaking
<1>1. IInv => ReturnsFollowTaking
  <2>1. SUFFICES ASSUME IInv, NEW m \in Moves
                 PROVE  /\ Entry("restore", m) \in ledger => Entry("deduct", m) \in ledger
                        /\ Entry("deduct", m) \in ledger \/ Entry("release", m) \in ledger
                             => Entry("reserve", m) \in ledger
    BY DEF ReturnsFollowTaking
  <2>2. \A e \in ledger : Justified(e, ledger)
    BY <2>1 DEF IInv, Books
  <2> QED BY <2>2 DEF Justified, Entry
<1> QED BY <1>1, StockInvariant, PTL

-----------------------------------------------------------------------------
(* A hold is spent once where nobody interferes                             *)

\* No two handlers work on one order at a time.
Alone ==
  \A t, u \in Tasks :
    t # u /\ task[t].at # "idle" /\ task[u].at # "idle" => task[t].order # task[u].order

\* Each handler moves its own order's lines; what it means to release was not
\* deducted, and a prepaid order being confirmed is not cancelled.
Spends(x, L, st) ==
  x.at # "idle" =>
    /\ \A e \in Range(x.moves) :
         /\ e.move \in Range(Lines[x.order])
         /\ e.kind = "deduct" => x.op = "confirm"
         /\ e.kind = "release" => x.op = "cancel" /\ Entry("deduct", e.move) \notin L
    /\ x.op = "confirm" /\ x.order \in Prepaid => st[x.order] # "cancelled"

\* A prepaid order with a released line is cancelled, and the line not deducted.
ReleasesAreFinal ==
  \A o \in Prepaid : \A m \in Range(Lines[o]) :
    Entry("release", m) \in ledger => status[o] = "cancelled" /\ Entry("deduct", m) \notin ledger

SInv == ReleasesAreFinal /\ \A t \in Tasks : Spends(task[t], ledger, status)

\* A step of one handler that neither writes the ledger nor cancels.
LEMMA SpendsOn ==
  ASSUME SInv, Handlers, NEW t \in Tasks, NEW y, task' = [task EXCEPT ![t] = y], ledger' = ledger,
         \A o \in Prepaid : status'[o] = "cancelled" <=> status[o] = "cancelled",
         Spends(y, ledger, status')
  PROVE  SInv'
<1>1. ReleasesAreFinal'
  BY DEF SInv, ReleasesAreFinal
<1>2. ASSUME NEW u \in Tasks PROVE Spends(task'[u], ledger', status')
  <2>1. CASE u = t
    BY <2>1 DEF Handlers
  <2>2. CASE u # t
    <3>1. task'[u] = task[u] /\ Spends(task[u], ledger, status)
          /\ (task[u].at # "idle" => task[u].order \in Orders)
      BY <2>2 DEF Handlers, SInv, Knows
    <3> QED BY <3>1 DEF Spends
  <2> QED BY <2>1, <2>2
<1> QED BY <1>1, <1>2 DEF SInv

\* A handler at rest, and one that has only read its order, spend nothing.
LEMMA RestSpendsNothing ==
  /\ \A L, st : Spends(NoTask, L, st)
  /\ \A o, op, from, L, st :
       (op = "confirm" /\ o \in Prepaid => st[o] # "cancelled")
         => Spends([NoTask EXCEPT !.at = "gather", !.op = op, !.order = o, !.from = from], L, st)
<1>1. \A L, st : Spends(NoTask, L, st)
  BY DEF NoTask, Spends
<1>2. ASSUME NEW o, NEW op, NEW from, NEW L, NEW st,
             op = "confirm" /\ o \in Prepaid => st[o] # "cancelled"
      PROVE  Spends([NoTask EXCEPT !.at = "gather", !.op = op, !.order = o, !.from = from], L, st)
  <2> DEFINE y == [NoTask EXCEPT !.at = "gather", !.op = op, !.order = o, !.from = from]
  <2>1. y.op = op /\ y.order = o /\ y.moves = <<>>
    BY DEF NoTask
  <2>2. Range(<<>>) = {}
    BY DEF Range
  <2> HIDE DEF y
  <2>3. Spends(y, L, st)
    BY <1>2, <2>1, <2>2 DEF Spends
  <2> QED BY <2>3 DEF y
<1> QED BY <1>1, <1>2

\* What a handler gathers it may spend.
LEMMA GatherSpends == ASSUME IInv, SInv, NEW t \in Tasks, Gather(t) PROVE SInv'
<1> DEFINE x == task[t]
           o == x.order
           y == task'[t]
<1>1. x \in Task /\ Knows(x, ledger, status) /\ x.at = "gather" /\ Handlers /\ Spends(x, ledger, status)
  BY DEF IInv, Handlers, Gather, SInv
<1>2. /\ task' = [task EXCEPT ![t] = y] /\ UNCHANGED <<ledger, status>>
      /\ y.op = x.op /\ y.order = o /\ y.at = "plan"
      /\ x.op = "checkout" => y.moves = Entries("reserve", Lines[o])
      /\ x.op = "confirm" => y.moves = Entries("deduct", LinesUnder(o, "reserve"))
      /\ x.op = "cancel" => y.moves = Returns(o)
  <2> DEFINE moves == CASE x.op = "checkout" -> Entries("reserve", Lines[o])
                        [] x.op = "confirm" -> Entries("deduct", LinesUnder(o, "reserve"))
                        [] x.op = "cancel" -> Returns(o)
  <2>1. /\ UNCHANGED <<ledger, status>>
        /\ task' = [task EXCEPT ![t].at = "plan", ![t].moves = moves]
    BY DEF Gather
  <2>2. /\ x.op = "checkout" => moves = Entries("reserve", Lines[o])
        /\ x.op = "confirm" => moves = Entries("deduct", LinesUnder(o, "reserve"))
        /\ x.op = "cancel" => moves = Returns(o)
    OBVIOUS
  <2> HIDE DEF moves
  <2>3. y = [x EXCEPT !.at = "plan", !.moves = moves] /\ task' = [task EXCEPT ![t] = y]
    BY <1>1, <2>1 DEF Handlers
  <2>4. y.op = x.op /\ y.order = o /\ y.at = "plan" /\ y.moves = moves
    BY <1>1, <2>3 DEF Task
  <2> QED BY <2>1, <2>2, <2>3, <2>4
<1>3. o \in Orders /\ x.op \in {"checkout", "confirm", "cancel"}
  BY <1>1 DEF Knows, Task
<1> HIDE DEF y
<1>4. \A e \in Range(y.moves) :
        /\ e.move \in Range(Lines[o])
        /\ e.kind = "deduct" => x.op = "confirm"
        /\ e.kind = "release" => x.op = "cancel" /\ Entry("deduct", e.move) \notin ledger
  <2>1. CASE x.op = "checkout"
    <3>1. Range(y.moves) = {Entry("reserve", m) : m \in Range(Lines[o])}
      BY <1>2, <1>3, <2>1, LinesAreTheirOrders, EntriesFacts DEF Kinds
    <3> QED BY <3>1 DEF Entry
  <2>2. CASE x.op = "confirm"
    <3>1. /\ LinesUnder(o, "reserve") \in Seq(Moves)
          /\ \A m \in Range(LinesUnder(o, "reserve")) : m \in Range(Lines[o])
      BY <1>3, LinesUnderFacts DEF Kinds
    <3>2. Range(y.moves) = {Entry("deduct", m) : m \in Range(LinesUnder(o, "reserve"))}
      BY <1>2, <2>2, <3>1, EntriesFacts DEF Kinds
    <3> QED BY <2>2, <3>1, <3>2 DEF Entry
  <2>3. CASE x.op = "cancel"
    BY <1>2, <1>3, <2>3, ReturnsFacts
  <2> QED BY <1>3, <2>1, <2>2, <2>3
<1>5. Spends(y, ledger, status')
  BY <1>1, <1>2, <1>4 DEF Spends
<1> QED BY <1>1, <1>2, <1>5, SpendsOn

LEMMA PlanSpends == ASSUME IInv, SInv, NEW t \in Tasks, Plan(t) PROVE SInv'
<1> DEFINE x == task[t]
           todo == NotDone(x.moves)
           plan == After(todo).written
           counts == [k \in Kinds |-> Cardinality({i \in DOMAIN plan : plan[i].kind = k})
                        + IF x.op = "checkout" THEN 0 ELSE Cardinality(Recorded(x.order, k, ledger))]
           y == task'[t]
<1>1. /\ x \in Task /\ Handlers /\ Spends(x, ledger, status) /\ x.at # "idle"
      /\ ledger' = ledger /\ status' = status
  BY DEF IInv, Handlers, Plan, SInv
<1>2. CASE Finish(t)
  BY <1>1, <1>2, SpendsOn, RestSpendsNothing DEF Finish
<1>3. CASE task' = [task EXCEPT ![t].at = "commit", ![t].plan = plan, ![t].expected = counts]
  <2> HIDE DEF plan, counts
  <2>1. y = [x EXCEPT !.at = "commit", !.plan = plan, !.expected = counts]
        /\ task' = [task EXCEPT ![t] = y]
    BY <1>1, <1>3 DEF Handlers
  <2>2. y.op = x.op /\ y.order = x.order /\ y.moves = x.moves
    BY <1>1, <2>1 DEF Task
  <2> HIDE DEF y
  <2>3. Spends(y, ledger, status')
    BY <1>1, <2>2 DEF Spends
  <2> QED BY <1>1, <2>1, <2>3, SpendsOn
<1> QED BY <1>2, <1>3 DEF Plan

\* A commit deducts lines of an order that is not cancelled, or releases lines
\* that were not deducted and cancels; the other handlers have other orders.
LEMMA CommitSpends == ASSUME IInv, SInv, Alone, NEW t \in Tasks, Commit(t) PROVE SInv'
<1> DEFINE x == task[t]
           o == x.order
           c == After(x.plan)
           rows == Range(c.written)
<1>1. /\ x \in Task /\ Knows(x, ledger, status) /\ x.at = "commit" /\ Finish(t)
      /\ Spends(x, ledger, status) /\ Handlers /\ Books /\ ReleasesAreFinal
  BY DEF IInv, Handlers, Commit, SInv
<1>2. CASE UNCHANGED <<stock, reserved, ledger, status, saved>>
  BY <1>1, <1>2, SpendsOn, RestSpendsNothing DEF Finish
<1>3. CASE Flips(t) /\ ledger' = ledger \cup rows
  <2>1. /\ x.plan \in Seq(Keys) /\ IsInjective(x.plan) /\ Range(x.plan) \subseteq Range(x.moves)
        /\ x.op \in {"checkout", "confirm", "cancel"} /\ o \in Orders
        /\ ledger \in SUBSET Keys /\ IsFiniteSet(ledger) /\ status \in [Orders -> Statuses]
    BY <1>1 DEF Task, Knows, Books
  <2>2. rows \subseteq Range(x.moves)
    BY <1>1, <2>1, BooksBalance, BatchFacts
  <2> HIDE DEF c, rows
  <2>3. /\ \A e \in rows : /\ e.move \in Range(Lines[o])
                           /\ e.kind = "deduct" => x.op = "confirm"
                           /\ e.kind = "release" => x.op = "cancel" /\ Entry("deduct", e.move) \notin ledger
        /\ x.op = "confirm" /\ o \in Prepaid => status[o] # "cancelled"
    BY <1>1, <2>2 DEF Spends
  <2>4. /\ \A p \in Orders : p # o => status'[p] = status[p]
        /\ x.op = "cancel" => status'[o] = "cancelled"
        /\ status[o] = "cancelled" => status'[o] = "cancelled"
    BY <1>3, <2>1 DEF Flips
  <2>5. ReleasesAreFinal'
    <3>1. ASSUME NEW p \in Prepaid, NEW m \in Range(Lines[p]), Entry("release", m) \in ledger'
          PROVE  status'[p] = "cancelled" /\ Entry("deduct", m) \notin ledger'
      <4>1. Entry("release", m) \in ledger => status[p] = "cancelled" /\ Entry("deduct", m) \notin ledger
        BY <1>1 DEF ReleasesAreFinal
      <4>2. p \in Orders /\ \A k : Entry(k, m).kind = k /\ Entry(k, m).move = m
        BY QuantitiesPositive DEF Entry
      <4>3. CASE Entry("release", m) \in rows
        <5>1. x.op = "cancel" /\ m \in Range(Lines[o]) /\ Entry("deduct", m) \notin ledger
              /\ Entry("deduct", m) \notin rows
          BY <2>3, <4>2, <4>3
        <5>2. p = o
          BY <2>1, <4>2, <5>1, LinesAreTheirOrders
        <5> QED BY <1>3, <2>4, <5>1, <5>2
      <4>4. CASE Entry("release", m) \in ledger
        <5>1. Entry("deduct", m) \notin rows
          <6>1. SUFFICES ASSUME Entry("deduct", m) \in rows PROVE FALSE
            OBVIOUS
          <6>2. m \in Range(Lines[o]) /\ x.op = "confirm"
            BY <2>3, <4>2, <6>1
          <6>3. p = o
            BY <2>1, <4>2, <6>2, LinesAreTheirOrders
          <6> QED BY <2>3, <4>1, <4>4, <6>2, <6>3
        <5> QED BY <1>3, <2>4, <4>1, <4>2, <4>4, <5>1
      <4> QED BY <1>3, <3>1, <4>3, <4>4
    <3> QED BY <3>1 DEF ReleasesAreFinal
  <2>6. ASSUME NEW u \in Tasks PROVE Spends(task'[u], ledger', status')
    <3>1. CASE u = t
      <4>1. task'[u] = NoTask
        BY <1>1, <3>1 DEF Finish, Handlers
      <4> QED BY <4>1, RestSpendsNothing
    <3>2. CASE u # t
      <4>1. task'[u] = task[u] /\ Spends(task[u], ledger, status) /\ Knows(task[u], ledger, status)
        BY <1>1, <3>2 DEF Finish, Handlers, SInv
      <4>2. SUFFICES ASSUME task[u].at # "idle" PROVE Spends(task[u], ledger', status')
        BY <4>1 DEF Spends
      <4>3. task[u].order \in Orders /\ task[u].order # o
        BY <1>1, <3>2, <4>1, <4>2 DEF Alone, Knows
      <4>4. ASSUME NEW e \in Range(task[u].moves), Entry("deduct", e.move) \in rows PROVE FALSE
        <5>1. e.move \in Range(Lines[task[u].order]) /\ e.move \in Range(Lines[o])
          BY <2>3, <4>1, <4>2, <4>4 DEF Spends, Entry
        <5> QED BY <2>1, <4>3, <5>1, LinesAreTheirOrders
      <4> QED BY <1>3, <2>4, <4>1, <4>3, <4>4 DEF Spends
    <3> QED BY <3>1, <3>2
  <2> QED BY <2>5, <2>6 DEF SInv
<1> QED BY <1>2, <1>3 DEF Commit

\* The other steps: none cancels, and none brings a prepaid order back.
LEMMA OthersSpend ==
  ASSUME IInv, SInv
  PROVE  /\ \A t \in Tasks : Crash(t) => SInv'
         /\ \A t \in Tasks, o \in Orders : Checkout(t, o) \/ Confirm(t, o) \/ Cancel(t, o) => SInv'
         /\ \A o \in Orders : BackToPending(o) => SInv'
         /\ \A k \in {"adjust_in", "adjust_out"}, m \in Moves : Adjust(k, m) => SInv'
         /\ \A r \in Rows : \A figure \in Figures[r] : SetStock(r, figure) => SInv'
         /\ UNCHANGED vars => SInv'
<1>1. /\ Handlers /\ Books /\ status \in [Orders -> Statuses]
      /\ ReleasesAreFinal /\ \A t \in Tasks : Spends(task[t], ledger, status)
  BY DEF IInv, Books, SInv
<1>2. ASSUME NEW t \in Tasks, Crash(t) PROVE SInv'
  BY <1>1, <1>2, SpendsOn, RestSpendsNothing DEF Crash, Finish
<1>3. ASSUME NEW t \in Tasks, NEW o \in Orders, Checkout(t, o) \/ Confirm(t, o) \/ Cancel(t, o)
      PROVE  SInv'
  <2>1. PICK op \in {"checkout", "confirm", "cancel"} :
          /\ Start(t, o, op) /\ ledger' = ledger
          /\ op = "confirm" => /\ status[o] = "pending" \/ o \notin Prepaid
                               /\ status' = [status EXCEPT ![o] = "confirmed"]
          /\ op # "confirm" => status' = status
    BY <1>3 DEF Checkout, Confirm, Cancel, Reopenable
  <2>2. /\ \A p \in Prepaid : status'[p] = "cancelled" <=> status[p] = "cancelled"
        /\ op = "confirm" => status'[o] # "cancelled"
    BY <1>1, <2>1, QuantitiesPositive
  <2>3. PICK from : task' = [task EXCEPT ![t] = [NoTask EXCEPT !.at = "gather", !.op = op, !.order = o,
                                                               !.from = from]]
    BY <2>1 DEF Start
  <2>4. Spends([NoTask EXCEPT !.at = "gather", !.op = op, !.order = o, !.from = from], ledger, status')
    BY <2>2, RestSpendsNothing
  <2> QED BY <1>1, <2>1, <2>2, <2>3, <2>4, SpendsOn
<1>4. ASSUME NEW st, status' = st, UNCHANGED <<ledger, task>>,
             \A p \in Prepaid : st[p] = "cancelled" <=> status[p] = "cancelled"
      PROVE  SInv'
  <2>1. ReleasesAreFinal'
    BY <1>1, <1>4 DEF ReleasesAreFinal
  <2>2. ASSUME NEW t \in Tasks PROVE Spends(task'[t], ledger', status')
    <3>1. Spends(task[t], ledger, status) /\ (task[t].at # "idle" => task[t].order \in Orders)
      BY <1>1 DEF Handlers, Knows
    <3> QED BY <1>4, <3>1 DEF Spends
  <2> QED BY <2>1, <2>2 DEF SInv
<1>5. ASSUME NEW o \in Orders, BackToPending(o) PROVE SInv'
  <2>1. /\ status[o] = "confirmed" \/ o \notin Prepaid
        /\ status' = [status EXCEPT ![o] = "pending"]
        /\ UNCHANGED <<ledger, task>>
    BY <1>5 DEF BackToPending, Reopenable
  <2>2. \A p \in Prepaid : status'[p] = "cancelled" <=> status[p] = "cancelled"
    BY <1>1, <2>1, QuantitiesPositive
  <2> QED BY <1>4, <2>1, <2>2
<1>6. ASSUME NEW k \in {"adjust_in", "adjust_out"}, NEW m \in Moves, Adjust(k, m) PROVE SInv'
  <2> DEFINE e == Entry(k, m)
             rows == Range(After(<<e>>).written)
  <2>1. e \in Keys /\ e.kind = k
    BY KeysTyped DEF Kinds, Entry
  <2>2. status' = status /\ task' = task /\ ledger' = ledger \cup rows
    BY <1>6 DEF Adjust
  <2>3. rows \subseteq {e}
    <3> HIDE DEF e
    <3> DEFINE s == <<e>>
    <3>1. s \in Seq(Keys) /\ IsInjective(s) /\ Range(s) = {e}
      BY <2>1 DEF IsInjective, Range
    <3>2. ledger \in SUBSET Keys /\ IsFiniteSet(ledger)
      BY <1>1 DEF Books
    <3> HIDE DEF s
    <3>3. Range(After(s).written) \subseteq Range(s)
      BY <1>1, <3>1, <3>2, BooksBalance, BatchFacts
    <3> QED BY <3>1, <3>3 DEF s
  <2> HIDE DEF e, rows
  <2>4. \A f \in rows : f.kind \notin {"release", "deduct"}
    BY <2>1, <2>3
  <2>5. \A j \in {"release", "deduct"} : \A l : Entry(j, l) \in ledger' <=> Entry(j, l) \in ledger
    BY <2>2, <2>4 DEF Entry
  <2>6. ReleasesAreFinal'
    BY <1>1, <2>2, <2>4, <2>5 DEF ReleasesAreFinal
  <2>7. ASSUME NEW t \in Tasks PROVE Spends(task'[t], ledger', status')
    BY <1>1, <2>2, <2>5 DEF Spends
  <2> QED BY <2>6, <2>7 DEF SInv
<1>7. ASSUME UNCHANGED vars PROVE SInv'
  BY <1>4, <1>7 DEF vars
<1>8. ASSUME NEW r \in Rows, NEW figure \in Figures[r], SetStock(r, figure) PROVE SInv'
  BY <1>4, <1>8 DEF SetStock
<1> QED BY <1>2, <1>3, <1>5, <1>6, <1>7, <1>8

\* orderInventory.ts: "What was held is what is deducted, and what was deducted is
\* what comes back".  It is so, line by line, of the orders that cannot be reopened
\* once they are cancelled, as long as no two handlers work on one order at a
\* time; the run stock_spent_twice shows that it is not so when a confirmation and
\* a cancellation of one order overlap.
THEOREM SpentOnceAlone ==
  Spec /\ []Alone
    => [](\A o \in Prepaid : \A m \in Range(Lines[o]) :
            ~(Entry("release", m) \in ledger /\ Entry("deduct", m) \in ledger))
<1> DEFINE Once == \A o \in Prepaid : \A m \in Range(Lines[o]) :
                     ~(Entry("release", m) \in ledger /\ Entry("deduct", m) \in ledger)
<1>1. Init => SInv
  BY RestSpendsNothing DEF Init, SInv, ReleasesAreFinal
<1>2. IInv /\ SInv /\ Alone /\ [Next]_vars => SInv'
  <2>1. SUFFICES ASSUME IInv, SInv, Alone, Next PROVE SInv'
    BY OthersSpend
  <2>2. \A m \in Incoming \cup Outgoing : m \in Moves
    BY DEF Moves
  <2>3. CASE \E t \in Tasks : \/ Gather(t) \/ Plan(t) \/ Commit(t) \/ Crash(t)
                              \/ \E o \in Orders : Checkout(t, o) \/ Confirm(t, o) \/ Cancel(t, o)
    BY <2>1, <2>3, GatherSpends, PlanSpends, CommitSpends, OthersSpend
  <2>4. CASE \E o \in Orders : BackToPending(o)
    BY <2>1, <2>4, OthersSpend
  <2>5. CASE \/ \E m \in Incoming : Adjust("adjust_in", m)
             \/ \E m \in Outgoing : Adjust("adjust_out", m)
    BY <2>1, <2>2, <2>5, OthersSpend
  <2>6. CASE \E r \in Rows : \E figure \in Figures[r] : SetStock(r, figure)
    BY <2>1, <2>6, OthersSpend
  <2> QED BY <2>1, <2>3, <2>4, <2>5, <2>6 DEF Next
<1>3. SInv => Once
  BY DEF SInv, ReleasesAreFinal
<1> QED BY <1>1, <1>2, <1>3, StockInvariant, PTL DEF Spec
=============================================================================
