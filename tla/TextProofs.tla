----------------------------- MODULE TextProofs -----------------------------
(* The algorithms of CommandLine and PortCodec, for lines and arguments of   *)
(* any length, every address and every port.                                 *)
(*                                                                           *)
(* What is folded over a sequence is followed by induction.  The induction   *)
(* theorems of the library speak of an operator; Induction below speaks of a *)
(* set, and rests on the least number of one.                                *)
EXTENDS CommandLine, PortCodec, FiniteSetTheorems, SequenceTheorems, WellFoundedInduction, TLAPS

-----------------------------------------------------------------------------
(* Induction.                                                                *)

\* Every set of natural numbers that is not empty has a least one.
LEMMA Least ==
    ASSUME NEW T, T \subseteq Nat, T # {}
    PROVE  \E m \in T : \A n \in T : m =< n
<1>1. PICK R : R = OpToRel(<, Nat)
  OBVIOUS
<1>2. IsWellFoundedOn(R, Nat)
  BY <1>1, NatLessThanWellFounded
<1>3. PICK m \in T : \A n \in T : ~(<<n, m>> \in R)
  BY <1>2, WFMin
<1>4. \A x, y \in Nat : <<x, y>> \in R <=> x < y
  BY <1>1 DEF OpToRel
<1>5. \A n \in T : ~(n < m)
  BY <1>3, <1>4
<1> QED
  BY <1>5

\* A set with 0, and with the number after each of its numbers, has them all.
LEMMA Induction ==
    ASSUME NEW T, 0 \in T, \A n \in Nat : n \in T => n + 1 \in T
    PROVE  Nat \subseteq T
<1> DEFINE U == Nat \ T
<1>1. CASE U = {}
  BY <1>1
<1>2. CASE U # {}
  <2>1. PICK m \in U : \A n \in U : m =< n
    BY <1>2, Least
  <2>2. m # 0 /\ m - 1 \in Nat
    OBVIOUS
  <2>3. m - 1 \in T
    BY <2>1, <2>2
  <2>4. (m - 1) + 1 \in T
    BY <2>2, <2>3
  <2>5. (m - 1) + 1 = m
    BY <2>1
  <2> QED
    BY <2>4, <2>5
<1> QED
  BY <1>1, <1>2

\* The ends of a set of positions.
LEMMA MinIs ==
    ASSUME NEW T, T \subseteq Nat, T # {}
    PROVE  Min(T) \in T /\ \A n \in T : Min(T) =< n
<1>1. \E m \in T : \A n \in T : m =< n
  BY Least
<1> QED
  BY <1>1 DEF Min

LEMMA MaxIs ==
    ASSUME NEW T, NEW n \in Nat, T \subseteq 1..n, T # {}
    PROVE  Max(T) \in T /\ \A k \in T : k =< Max(T)
<1> DEFINE U == {n - k : k \in T}
<1>1. U \subseteq Nat /\ U # {}
  <2>1. ASSUME NEW k \in T
        PROVE  n - k \in Nat
    <3>1. k \in 1..n
      OBVIOUS
    <3> QED
      BY <3>1
  <2> QED
    BY <2>1
<1>2. PICK u \in U : \A v \in U : u =< v
  BY <1>1, Least
<1>3. PICK m \in T : u = n - m
  OBVIOUS
<1>4. \A k \in T : m >= k
  <2>1. SUFFICES ASSUME NEW k \in T
                 PROVE  m >= k
    OBVIOUS
  <2>2. n - m =< n - k
    BY <1>2, <1>3
  <2> QED
    BY <2>2
<1>5. \E m0 \in T : \A k \in T : m0 >= k
  BY <1>4
<1>6. Max(T) \in T /\ \A k \in T : Max(T) >= k
  BY <1>5 DEF Max
<1> QED
  BY <1>6

-----------------------------------------------------------------------------
(* Folding from left to right.                                               *)

\* g goes from a through F[_][1], ..., F[_][n], over every part of 1..n.
Folds(g, n, A, a, F) ==
    /\ g \in [SUBSET (1..n) -> A]
    /\ \A s \in SUBSET (1..n) : g[s] = IF s = {} THEN a ELSE F[g[s \ {Max(s)}]][Max(s)]

\* The recursive function that a fold is made of exists, one element after another.
LEMMA FoldExists ==
    ASSUME NEW n \in Nat, NEW A, NEW a \in A, NEW F \in [A -> [1..n -> A]]
    PROVE  \E g : Folds(g, n, A, a, F)
<1> DEFINE Follows(g, k) ==
             \A s \in SUBSET (1..k) : g[s] = IF s = {} THEN a ELSE F[g[s \ {Max(s)}]][Max(s)]
<1> DEFINE Has(k) == k =< n => \E g \in [SUBSET (1..k) -> A] : Follows(g, k)
<1> DEFINE T == {k \in Nat : Has(k)}
<1>1. 0 \in T
  <2>1. 1..0 = {} /\ SUBSET (1..0) = {{}}
    OBVIOUS
  <2>2. PICK g : g = [s \in SUBSET (1..0) |-> a]
    OBVIOUS
  <2>3. g \in [SUBSET (1..0) -> A] /\ Follows(g, 0)
    BY <2>1, <2>2
  <2> QED
    BY <2>3
<1>2. ASSUME NEW k \in Nat, k \in T
      PROVE  k + 1 \in T
  <2> HIDE DEF Follows, Has
  <2>0. Has(k)
    BY <1>2
  <2> SUFFICES Has(k + 1)
    OBVIOUS
  <2>1. SUFFICES ASSUME k + 1 =< n
                 PROVE  \E g \in [SUBSET (1..(k + 1)) -> A] : Follows(g, k + 1)
    BY DEF Has
  <2>2. k =< n
    BY <2>1
  <2>3. PICK g \in [SUBSET (1..k) -> A] : Follows(g, k)
    BY <2>0, <2>2 DEF Has
  <2> HIDE DEF T
  <2>4. PICK h : h = [s \in SUBSET (1..(k + 1)) |->
                        IF k + 1 \in s THEN F[g[s \ {k + 1}]][k + 1] ELSE g[s]]
    OBVIOUS
  <2>5. ASSUME NEW s \in SUBSET (1..(k + 1)), k + 1 \notin s
        PROVE  s \in SUBSET (1..k) /\ h[s] = g[s]
    <3>1. \A i \in s : i \in 1..k
      BY <2>5
    <3> QED
      BY <2>4, <2>5, <3>1
  <2>6. ASSUME NEW s \in SUBSET (1..(k + 1)), k + 1 \in s
        PROVE  /\ Max(s) = k + 1
               /\ s \ {k + 1} \in SUBSET (1..k)
               /\ h[s] = F[g[s \ {k + 1}]][k + 1]
    <3>0. k + 1 \in Nat /\ s \subseteq 1..(k + 1) /\ s # {}
      BY <2>6
    <3>1. Max(s) \in s /\ k + 1 =< Max(s)
      BY <2>6, <3>0, MaxIs
    <3>2. Max(s) = k + 1
      <4>1. Max(s) \in 1..(k + 1)
        BY <3>1
      <4> QED
        BY <3>1, <4>1
    <3>3. \A i \in s \ {k + 1} : i \in 1..k
      OBVIOUS
    <3> QED
      BY <2>4, <2>6, <3>2, <3>3
  <2>7. k + 1 \in 1..n
    BY <2>1
  <2>8. h \in [SUBSET (1..(k + 1)) -> A]
    <3>1. \A s \in SUBSET (1..(k + 1)) : h[s] \in A
      <4>1. SUFFICES ASSUME NEW s \in SUBSET (1..(k + 1))
                     PROVE  h[s] \in A
        OBVIOUS
      <4>2. CASE k + 1 \in s
        <5>1. g[s \ {k + 1}] \in A
          BY <2>3, <2>6, <4>2
        <5>2. F[g[s \ {k + 1}]] \in [1..n -> A]
          BY <5>1
        <5> QED
          BY <2>6, <2>7, <4>2, <5>2
      <4>3. CASE k + 1 \notin s
        BY <2>3, <2>5, <4>3
      <4> QED
        BY <4>2, <4>3
    <3> QED
      BY <2>4, <3>1
  <2>9. Follows(h, k + 1)
    <3>1. SUFFICES ASSUME NEW s \in SUBSET (1..(k + 1))
                   PROVE  h[s] = IF s = {} THEN a ELSE F[h[s \ {Max(s)}]][Max(s)]
      BY DEF Follows
    <3>2. CASE k + 1 \in s
      <4>1. s \ {k + 1} \in SUBSET (1..(k + 1)) /\ k + 1 \notin s \ {k + 1}
        OBVIOUS
      <4>2. h[s \ {k + 1}] = g[s \ {k + 1}]
        BY <2>5, <4>1
      <4> QED
        BY <2>6, <3>2, <4>2
    <3>3. CASE k + 1 \notin s
      <4>1. s \in SUBSET (1..k) /\ h[s] = g[s]
        BY <2>5, <3>3
      <4>2. h[s \ {Max(s)}] = g[s \ {Max(s)}]
        BY <2>5, <3>3
      <4> QED
        BY <2>3, <4>1, <4>2 DEF Follows
    <3> QED
      BY <3>2, <3>3
  <2> QED
    BY <2>8, <2>9
<1>3. n \in T
  <2> HIDE DEF T
  <2> QED
    BY <1>1, <1>2, Induction
<1>4. \E g \in [SUBSET (1..n) -> A] : Follows(g, n)
  <2> HIDE DEF Follows
  <2> HIDE DEF Has
  <2>1. Has(n) /\ n =< n
    BY <1>3
  <2> QED
    BY <2>1 DEF Has
<1> QED
  BY <1>4 DEF Folds

\* What is left of the first k positions without the last of them.
LEMMA LastOfFirst ==
    ASSUME NEW n \in Nat, NEW k \in 1..n
    PROVE  1..k # {} /\ Max(1..k) = k /\ (1..k) \ {k} = 1..(k - 1)
<1>1. k \in Nat /\ k \in 1..k
  OBVIOUS
<1>2. Max(1..k) \in 1..k /\ k =< Max(1..k)
  <2>1. 1..k \subseteq 1..k /\ 1..k # {}
    BY <1>1
  <2> QED
    BY <1>1, <2>1, MaxIs
<1> QED
  BY <1>1, <1>2

-----------------------------------------------------------------------------
(* The numbers of a set in order.                                            *)

\* w runs through S from its smallest number to its greatest, the n-th.
Enumerates(w, n, S) ==
    /\ w \in [1..n -> S]
    /\ \A i, j \in 1..n : i < j => w[i] < w[j]
    /\ \A x \in S : \E i \in 1..n : w[i] = x

\* What is run through has as many numbers as there are steps.
LEMMA EnumerationCounts ==
    ASSUME NEW S, S \subseteq Nat, NEW n \in Nat, NEW w, Enumerates(w, n, S)
    PROVE  IsFiniteSet(S) /\ Cardinality(S) = n
<1>1. \A i, j \in 1..n : w[i] = w[j] => i = j
  <2>1. SUFFICES ASSUME NEW i \in 1..n, NEW j \in 1..n, i < j
                 PROVE  w[i] # w[j]
    OBVIOUS
  <2>2. w[i] < w[j] /\ w[i] \in Nat /\ w[j] \in Nat
    BY <2>1 DEF Enumerates
  <2> QED
    BY <2>2
<1>2. w \in Bijection(1..n, S)
  <2>1. w \in [1..n -> S] /\ \A x \in S : \E i \in 1..n : w[i] = x
    BY DEF Enumerates
  <2>2. w \in Injection(1..n, S)
    BY <1>1, <2>1 DEF Injection, IsInjective
  <2>3. w \in Surjection(1..n, S)
    BY <2>1 DEF Surjection
  <2> QED
    BY <2>2, <2>3 DEF Bijection
<1>3. IsFiniteSet(1..n) /\ Cardinality(1..n) = n
  <2>1. 0 \in Int /\ 1 \in Int /\ n \in Int
    OBVIOUS
  <2> QED
    BY <2>1, FS_Interval
<1>4. ExistsBijection(1..n, S)
  BY <1>2 DEF ExistsBijection
<1> QED
  BY <1>3, <1>4, FS_Bijection

\* There is one way to run through a set, and Ascending is it.
LEMMA AscendingIs ==
    ASSUME NEW S, S \subseteq Nat, NEW n \in Nat, NEW w, Enumerates(w, n, S)
    PROVE  Ascending(S) = w
<1>1. Cardinality(S) = n
  BY EnumerationCounts
<1>2. /\ w \in [1..n -> S]
      /\ \A i, j \in 1..n : i < j => w[i] < w[j]
      /\ \A x \in S : \E i \in 1..n : w[i] = x
  BY DEF Enumerates
<1>3. ASSUME NEW m \in 1..n
      PROVE  Cardinality({k \in S : k < w[m]}) = m - 1
  <2>1. PICK P : P = {k \in S : k < w[m]}
    OBVIOUS
  <2>2. PICK v : v = [i \in 1..(m - 1) |-> w[i]]
    OBVIOUS
  <2>3. \A i \in 1..(m - 1) : i \in 1..n /\ i < m
    OBVIOUS
  <2>4. v \in [1..(m - 1) -> P]
    BY <1>2, <2>1, <2>2, <2>3
  <2>5. \A i, j \in 1..(m - 1) : i < j => v[i] < v[j]
    BY <1>2, <2>2, <2>3
  <2>6. ASSUME NEW x \in P
        PROVE  \E i \in 1..(m - 1) : v[i] = x
    <3>1. PICK i \in 1..n : w[i] = x
      BY <1>2, <2>1
    <3>2. w[i] < w[m] /\ w[i] \in Nat /\ w[m] \in Nat
      BY <1>2, <2>1, <3>1
    <3>3. ~(m < i) /\ i # m
      <4>1. m < i => w[m] < w[i]
        BY <1>2
      <4> QED
        BY <3>2, <4>1
    <3>4. i \in 1..(m - 1)
      BY <3>3
    <3> QED
      BY <2>2, <3>1, <3>4
  <2>7. Enumerates(v, m - 1, P)
    BY <2>4, <2>5, <2>6 DEF Enumerates
  <2>8. P \subseteq Nat
    BY <2>1
  <2>9. m - 1 \in Nat
    OBVIOUS
  <2> QED
    BY <2>1, <2>7, <2>8, <2>9, EnumerationCounts
<1>4. ASSUME NEW m \in 1..n
      PROVE  (CHOOSE i \in S : Cardinality({k \in S : k < i}) = m - 1) = w[m]
  <2>1. w[m] \in S
    BY <1>2
  <2>2. ASSUME NEW x \in S, Cardinality({k \in S : k < x}) = m - 1
        PROVE  x = w[m]
    <3>1. PICK i \in 1..n : w[i] = x
      BY <1>2
    <3>2. i - 1 = m - 1
      BY <1>3, <2>2, <3>1
    <3> QED
      BY <3>1, <3>2
  <2> DEFINE P(x) == Cardinality({k \in S : k < x}) = m - 1
  <2>3. P(w[m])
    BY <1>3
  <2>4. \A x \in S : P(x) => x = w[m]
    BY <2>2
  <2> HIDE DEF P
  <2>5. (CHOOSE i \in S : P(i)) = w[m]
    BY <2>1, <2>3, <2>4
  <2> QED
    BY <2>5 DEF P
<1>5. Ascending(S) = [m \in 1..n |-> CHOOSE i \in S : Cardinality({k \in S : k < i}) = m - 1]
  BY <1>1 DEF Ascending
<1> QED
  <2> DEFINE C(m) == CHOOSE i \in S : Cardinality({k \in S : k < i}) = m - 1
  <2>1. \A m \in 1..n : C(m) = w[m]
    BY <1>4
  <2>2. Ascending(S) = [m \in 1..n |-> C(m)]
    BY <1>5
  <2> HIDE DEF C
  <2> QED
    BY <1>2, <2>1, <2>2

\* v is w and then x.
Continues(v, w, m, x) == v[m + 1] = x /\ \A i \in 1..m : v[i] = w[i]

\* A number greater than all of S comes after them.
LEMMA EnumerateOneMore ==
    ASSUME NEW S, S \subseteq Nat, NEW m \in Nat, NEW w, Enumerates(w, m, S),
           NEW x \in Nat, \A y \in S : y < x, NEW U, U = S \cup {x}
    PROVE  \E v : Enumerates(v, m + 1, U) /\ Continues(v, w, m, x)
<1>1. PICK v : v = [i \in 1..(m + 1) |-> IF i = m + 1 THEN x ELSE w[i]]
  OBVIOUS
<1>2. \A i \in 1..(m + 1) : i \in 1..m \/ i = m + 1
  OBVIOUS
<1>3. \A i \in 1..m : i \in 1..(m + 1) /\ i # m + 1
  OBVIOUS
<1>4. m + 1 \in 1..(m + 1)
  OBVIOUS
<1>5. v[m + 1] = x /\ \A i \in 1..m : v[i] = w[i]
  BY <1>1, <1>3, <1>4
<1>6. /\ w \in [1..m -> S]
      /\ \A i, j \in 1..m : i < j => w[i] < w[j]
      /\ \A y \in S : \E i \in 1..m : w[i] = y
  BY DEF Enumerates
<1>7. v \in [1..(m + 1) -> U]
  BY <1>1, <1>2, <1>6
<1>8. ASSUME NEW i \in 1..(m + 1), NEW j \in 1..(m + 1), i < j
      PROVE  v[i] < v[j]
  <2>1. i \in 1..m
    BY <1>8
  <2>2. CASE j \in 1..m
    BY <1>5, <1>6, <1>8, <2>1, <2>2
  <2>3. CASE j = m + 1
    <3>1. w[i] \in S
      BY <1>6, <2>1
    <3> QED
      BY <1>5, <2>1, <2>3, <3>1
  <2> QED
    BY <1>2, <2>2, <2>3
<1>9. ASSUME NEW y \in U
      PROVE  \E i \in 1..(m + 1) : v[i] = y
  <2>1. CASE y = x
    BY <1>4, <1>5, <2>1
  <2>2. CASE y \in S
    <3>1. PICK i \in 1..m : w[i] = y
      BY <1>6, <2>2
    <3> QED
      BY <1>3, <1>5, <3>1
  <2> QED
    BY <2>1, <2>2
<1>10. Enumerates(v, m + 1, U)
  BY <1>7, <1>8, <1>9 DEF Enumerates
<1> QED
  BY <1>5, <1>10 DEF Continues

-----------------------------------------------------------------------------
(* What strtok() does with one character after another.                      *)

\* What strtok() has found and what it is in.
States == [tokens : Seq(Seq(Characters)), token : Seq(Characters)]

\* A character more leaves it of that type.
LEMMA ScanStays ==
    ASSUME NEW state \in States, NEW c \in Characters
    PROVE  Scan(state, c) \in States
<1>1. state.tokens \in Seq(Seq(Characters)) /\ state.token \in Seq(Characters)
  BY DEF States
<1>2. CASE c # Space
  <2>1. Append(state.token, c) \in Seq(Characters)
    BY <1>1
  <2>2. Scan(state, c) = [tokens |-> state.tokens, token |-> Append(state.token, c)]
    BY <1>2 DEF Scan, States
  <2> QED
    BY <1>1, <2>1, <2>2 DEF States
<1>3. CASE c = Space /\ state.token # <<>>
  <2>1. Append(state.tokens, state.token) \in Seq(Seq(Characters))
    BY <1>1
  <2>2. Scan(state, c) = [tokens |-> Append(state.tokens, state.token), token |-> <<>>]
    BY <1>3 DEF Scan
  <2> QED
    BY <1>1, <2>1, <2>2 DEF States
<1> QED
  BY <1>2, <1>3 DEF Scan

\* The states strtok() goes through, one for each character.
LEMMA ScanSteps ==
    ASSUME NEW b \in Seq(Characters)
    PROVE  \E h : /\ h[0] = NoTokens
                  /\ \A k \in 1..Len(b) : h[k] = Scan(h[k - 1], b[k])
                  /\ FoldLeft(Scan, NoTokens, b) = h[Len(b)]
<1> DEFINE n == Len(b)
<1> DEFINE Follows(g) ==
             g = [s \in SUBSET DOMAIN b |->
                    IF s = {} THEN NoTokens ELSE Scan(g[s \ {Max(s)}], b[Max(s)])]
<1>1. n \in Nat /\ DOMAIN b = 1..n
  OBVIOUS
<1>2. \E g : Follows(g)
  <2> DEFINE F == [x \in States |-> [i \in 1..n |-> Scan(x, b[i])]]
  <2>1. F \in [States -> [1..n -> States]]
    BY ScanStays
  <2>2. NoTokens \in States
    BY DEF NoTokens, States
  <2>3. PICK g : Folds(g, n, States, NoTokens, F)
    <3> HIDE DEF F, n
    <3> QED
      BY <1>1, <2>1, <2>2, FoldExists
  <2>4. ASSUME NEW s \in SUBSET (1..n), s # {}
        PROVE  g[s] = Scan(g[s \ {Max(s)}], b[Max(s)])
    <3>1. Max(s) \in 1..n
      BY <1>1, <2>4, MaxIs
    <3>2. g[s \ {Max(s)}] \in States
      BY <2>3 DEF Folds
    <3>3. F[g[s \ {Max(s)}]][Max(s)] = Scan(g[s \ {Max(s)}], b[Max(s)])
      BY <3>1, <3>2
    <3> HIDE DEF F, n
    <3> QED
      BY <2>3, <2>4, <3>3 DEF Folds
  <2>5. g = [s \in SUBSET (1..n) |->
               IF s = {} THEN NoTokens ELSE Scan(g[s \ {Max(s)}], b[Max(s)])]
    <3> HIDE DEF F, n
    <3> QED
      BY <2>3, <2>4 DEF Folds
  <2> QED
    BY <1>1, <2>5
<1>3. PICK iter : iter = CHOOSE g : Follows(g)
  OBVIOUS
<1>4. Follows(iter)
  <2> HIDE DEF Follows
  <2> QED
    BY <1>2, <1>3
<1>5. FoldLeft(Scan, NoTokens, b) = iter[DOMAIN b]
  BY <1>3 DEF FoldLeft, MapThenFoldSet
<1>6. iter[{}] = NoTokens
  BY <1>4
<1>7. ASSUME NEW k \in 1..n
      PROVE  iter[1..k] = Scan(iter[1..(k - 1)], b[k])
  <2>1. 1..k \in SUBSET DOMAIN b
    BY <1>1
  <2>2. 1..k # {} /\ Max(1..k) = k /\ (1..k) \ {k} = 1..(k - 1)
    BY <1>1, LastOfFirst
  <2> QED
    BY <1>4, <2>1, <2>2
<1>8. PICK h : h = [k \in 0..n |-> iter[1..k]]
  OBVIOUS
<1>9. h[0] = NoTokens
  <2>1. 1..0 = {} /\ 0 \in 0..n
    BY <1>1
  <2> QED
    BY <1>6, <1>8, <2>1
<1>10. \A k \in 1..n : h[k] = Scan(h[k - 1], b[k])
  <2>1. \A k \in 1..n : k \in 0..n /\ k - 1 \in 0..n
    BY <1>1
  <2> QED
    BY <1>7, <1>8, <2>1
<1>11. iter[DOMAIN b] = h[n]
  BY <1>1, <1>8
<1> QED
  BY <1>5, <1>9, <1>10, <1>11

-----------------------------------------------------------------------------
(* Tokens and words.                                                         *)

\* Where a word of str begins.
Starts(str) == {i \in DOMAIN str : str[i] # Space /\ (i = 1 \/ str[i - 1] = Space)}

\* One character more of a part of a line.
LEMMA SubSeqGrows ==
    ASSUME NEW c \in Seq(Characters), NEW s \in Nat \ {0}, NEW k \in Nat,
           s =< k + 1, k + 1 =< Len(c)
    PROVE  Append(SubSeq(c, s, k), c[k + 1]) = SubSeq(c, s, k + 1)
<1>1. \A i \in s..(k + 1) : c[i] \in Characters
  OBVIOUS
<1>2. \A i \in s..k : c[i] \in Characters
  OBVIOUS
<1> DEFINE short == SubSeq(c, s, k)
<1> DEFINE long == SubSeq(c, s, k + 1)
<1>3. /\ short \in Seq(Characters)
      /\ Len(short) = k - s + 1
      /\ \A i \in 1..(k - s + 1) : short[i] = c[s + i - 1]
  <2>1. /\ short \in Seq(Characters)
        /\ Len(short) = IF s =< k THEN k - s + 1 ELSE 0
        /\ \A i \in 1..(k - s + 1) : short[i] = c[s + i - 1]
    BY <1>2, SubSeqProperties
  <2> HIDE DEF short
  <2> QED
    BY <2>1
<1>4. /\ long \in Seq(Characters)
      /\ Len(long) = k + 1 - s + 1
      /\ \A i \in 1..(k + 1 - s + 1) : long[i] = c[s + i - 1]
  <2>1. k + 1 \in Int
    OBVIOUS
  <2>2. /\ long \in Seq(Characters)
        /\ Len(long) = IF s =< k + 1 THEN k + 1 - s + 1 ELSE 0
        /\ \A i \in 1..(k + 1 - s + 1) : long[i] = c[s + i - 1]
    BY <1>1, <2>1, SubSeqProperties
  <2> HIDE DEF long
  <2> QED
    BY <2>2
<1> HIDE DEF short, long
<1> DEFINE grown == Append(short, c[k + 1])
<1>5. /\ grown \in Seq(Characters)
      /\ Len(grown) = k - s + 2
      /\ \A i \in 1..(k - s + 1) : grown[i] = c[s + i - 1]
      /\ grown[k - s + 2] = c[k + 1]
  <2>1. c[k + 1] \in Characters
    BY <1>1
  <2>2. Len(short) \in Nat /\ Len(short) + 1 = k - s + 2
    BY <1>3
  <2>3. /\ grown \in Seq(Characters)
        /\ Len(grown) = Len(short) + 1
        /\ \A i \in 1..Len(short) : grown[i] = short[i]
        /\ grown[Len(short) + 1] = c[k + 1]
    BY <1>3, <2>1
  <2> HIDE DEF grown
  <2> QED
    BY <1>3, <2>2, <2>3
<1> HIDE DEF grown
<1>6. Len(long) = k - s + 2
  BY <1>4
<1>7. ASSUME NEW i \in 1..(k - s + 2)
      PROVE  grown[i] = long[i]
  <2>1. long[i] = c[s + i - 1]
    <3>1. i \in 1..(k + 1 - s + 1)
      BY <1>7
    <3> QED
      BY <1>4, <3>1
  <2>2. CASE i \in 1..(k - s + 1)
    BY <1>5, <2>1, <2>2
  <2>3. CASE i = k - s + 2
    <3>1. s + i - 1 = k + 1
      BY <2>3
    <3> QED
      BY <1>5, <2>1, <2>3, <3>1
  <2> QED
    BY <2>2, <2>3
<1>8. grown = long
  BY <1>4, <1>5, <1>6, <1>7, SeqEqual
<1> QED
  BY <1>8 DEF grown, short, long

\* A word that begins somewhere ends at one place.
LEMMA WordEnds ==
    ASSUME NEW b \in Seq(Characters), NEW i \in 1..Len(b)
    PROVE  /\ i \in Starts(b) <=> \E j \in DOMAIN b : IsWord(b, i, j)
           /\ \A j, l \in DOMAIN b : IsWord(b, i, j) /\ IsWord(b, i, l) => j = l
<1>1. PICK n : n = Len(b)
  OBVIOUS
<1>2. n \in Nat
  BY <1>1
<1>3. i \in Nat /\ 1 =< i /\ i =< n
  BY <1>1, <1>2
<1>4. ASSUME NEW j \in 1..n
      PROVE  IsWord(b, i, j) <=> /\ i =< j
                                 /\ \A k \in i..j : b[k] # Space
                                 /\ i = 1 \/ b[i - 1] = Space
                                 /\ j = n \/ b[j + 1] = Space
  BY <1>1 DEF IsWord
<1>5. DOMAIN b = 1..n
  BY <1>1
<1>6. ASSUME i \in Starts(b)
      PROVE  \E j \in 1..n : IsWord(b, i, j)
  <2> DEFINE T == {j \in i..n : j = n \/ b[j + 1] = Space}
  <2>1. b[i] # Space /\ (i = 1 \/ b[i - 1] = Space)
    BY <1>6 DEF Starts
  <2>2. T \subseteq Nat /\ T # {}
    <3>1. n \in i..n
      BY <1>2, <1>3
    <3>2. \A j \in i..n : j \in Nat
      BY <1>2, <1>3
    <3> QED
      BY <3>1, <3>2
  <2>3. PICK j \in T : \A l \in T : j =< l
    <3> HIDE DEF T
    <3> QED
      BY <2>2, Least
  <2>4. j \in i..n
    OBVIOUS
  <2>5. j = n \/ b[j + 1] = Space
    OBVIOUS
  <2> HIDE DEF T
  <2>6. ASSUME NEW k \in i..j, k # i
        PROVE  b[k] # Space
    <3>1. k - 1 \in i..n /\ ~(j =< k - 1) /\ (k - 1) + 1 = k
      BY <1>2, <1>3, <2>4, <2>6
    <3>2. k - 1 \notin T
      BY <2>3, <3>1
    <3>3. b[(k - 1) + 1] # Space
      BY <3>1, <3>2 DEF T
    <3> QED
      BY <3>1, <3>3
  <2>7. j \in 1..n /\ i =< j
    BY <1>2, <1>3, <2>4
  <2>8. IsWord(b, i, j)
    BY <1>4, <2>1, <2>6, <2>7, <2>5
  <2> QED
    BY <2>7, <2>8
<1>7. ASSUME NEW j \in 1..n, IsWord(b, i, j)
      PROVE  i \in Starts(b)
  <2>1. i =< j
    BY <1>4, <1>7
  <2>2. i \in i..j
    BY <1>3, <2>1
  <2> QED
    <3>1. b[i] # Space
      BY <1>4, <1>7, <2>2
    <3>2. i = 1 \/ b[i - 1] = Space
      BY <1>4, <1>7
    <3>3. i \in 1..n
      BY <1>2, <1>3
    <3> QED
      BY <1>5, <3>1, <3>2, <3>3 DEF Starts
<1>8. ASSUME NEW j \in 1..n, NEW l \in 1..n, j < l,
             IsWord(b, i, j), IsWord(b, i, l)
      PROVE  FALSE
  <2>1. i =< j
    BY <1>4, <1>8
  <2>2. j + 1 \in i..l /\ j # n
    BY <1>2, <1>3, <1>8, <2>1
  <2> QED
    BY <1>4, <1>8, <2>2
<1>9. \A j, l \in 1..n : j < l \/ l < j \/ j = l
  OBVIOUS
<1> QED
  BY <1>5, <1>6, <1>7, <1>8, <1>9

\* After k characters of c, that is b and a space: the word that may be unfinished
\* begins at s, and the tokens are the words that begin before it, at w[1], w[2], ...
Reads(b, c, state, k, s, w) ==
    /\ state \in States
    /\ s \in Nat \ {0}
    /\ s =< k + 1
    /\ s = 1 \/ c[s - 1] = Space
    /\ \A i \in s..k : c[i] # Space
    /\ state.token = SubSeq(c, s, k)
    /\ Enumerates(w, Len(state.tokens), {i \in Starts(b) : i < s})
    /\ \A m \in 1..Len(state.tokens) :
          \E j \in DOMAIN b : IsWord(b, w[m], j) /\ state.tokens[m] = SubSeq(b, w[m], j)

\* One character does not change that.
LEMMA ScanReads ==
    ASSUME NEW b \in Seq(Characters), NEW c, c = Append(b, Space),
           NEW k \in Nat, k =< Len(b), NEW state, NEW s, NEW w, Reads(b, c, state, k, s, w)
    PROVE  \E s1, w1 : Reads(b, c, Scan(state, c[k + 1]), k + 1, s1, w1)
<1>1. PICK n : n = Len(b)
  OBVIOUS
<1>2. n \in Nat /\ k =< n
  BY <1>1
<1>3. c \in Seq(Characters) /\ Len(c) = n + 1
  <2>1. Space \in Characters
    BY DEF Characters, White
  <2> QED
    BY <1>1, <2>1
<1>4. \A i \in 1..n : c[i] = b[i]
  BY <1>1
<1>5. DOMAIN b = 1..n
  BY <1>1
<1>6. s \in Nat /\ 1 =< s /\ s =< k + 1
  BY DEF Reads
<1>7. /\ state \in States
      /\ s = 1 \/ c[s - 1] = Space
      /\ \A i \in s..k : c[i] # Space
      /\ state.token = SubSeq(c, s, k)
      /\ Enumerates(w, Len(state.tokens), {i \in Starts(b) : i < s})
      /\ \A m \in 1..Len(state.tokens) :
            \E j \in DOMAIN b : IsWord(b, w[m], j) /\ state.tokens[m] = SubSeq(b, w[m], j)
  BY DEF Reads
<1>8. k + 1 \in 1..(n + 1) /\ k + 1 \in Nat
  BY <1>2
<1>9. c[k + 1] \in Characters
  BY <1>3, <1>8
<1>10. PICK next : next = Scan(state, c[k + 1])
  OBVIOUS
<1>11. next \in States
  BY <1>7, <1>9, <1>10, ScanStays
<1>12. CASE c[k + 1] # Space
  <2>1. next.tokens = state.tokens /\ next.token = Append(state.token, c[k + 1])
    BY <1>7, <1>10, <1>12 DEF Scan, States
  <2>2. next.token = SubSeq(c, s, k + 1)
    <3>1. s \in Nat \ {0} /\ k + 1 =< Len(c)
      BY <1>2, <1>3, <1>6
    <3> QED
      BY <1>3, <1>6, <1>7, <2>1, <3>1, SubSeqGrows
  <2>3. \A i \in s..(k + 1) : c[i] # Space
    <3>1. \A i \in s..(k + 1) : i \in s..k \/ i = k + 1
      BY <1>6
    <3> QED
      BY <1>7, <1>12, <3>1
  <2>4. s \in Nat \ {0} /\ s =< (k + 1) + 1
    BY <1>6
  <2>5. Reads(b, c, next, k + 1, s, w)
    BY <1>7, <1>11, <2>1, <2>2, <2>3, <2>4 DEF Reads
  <2> QED
    BY <1>10, <2>5
<1>13. CASE c[k + 1] = Space
  <2> DEFINE s1 == k + 2
  <2>1. /\ s1 \in Nat \ {0}
        /\ s1 =< (k + 1) + 1
        /\ s1 - 1 = k + 1
        /\ s1..(k + 1) = {}
    OBVIOUS
  <2>2. SubSeq(c, s1, k + 1) = <<>>
    <3>1. s1 \in Int /\ k + 1 \in Int /\ k + 1 < s1
      OBVIOUS
    <3> QED
      BY <3>1, SubSeqEmpty
  <2>3. s = k + 1 \/ s =< k
    BY <1>6
  <2>4. CASE s = k + 1
    <3>1. state.token = <<>>
      <4>1. s \in Int /\ k \in Int /\ k < s
        BY <2>4
      <4> QED
        BY <1>7, <4>1, SubSeqEmpty
    <3>2. next = state
      BY <1>10, <1>13, <3>1 DEF Scan
    <3>3. {i \in Starts(b) : i < s1} = {i \in Starts(b) : i < s}
      <4>1. k + 1 \notin Starts(b)
        BY <1>4, <1>5, <1>13 DEF Starts
      <4>2. \A i \in Starts(b) : i \in Nat
        BY <1>5 DEF Starts
      <4>3. \A i \in Nat : i < s1 <=> (i < s \/ i = k + 1)
        BY <2>4
      <4> QED
        BY <4>1, <4>2, <4>3
    <3> HIDE DEF s1
    <3>4. next.token = SubSeq(c, s1, k + 1)
      BY <2>2, <3>1, <3>2
    <3>5. Enumerates(w, Len(next.tokens), {i \in Starts(b) : i < s1})
      BY <1>7, <3>2, <3>3
    <3>6. Reads(b, c, next, k + 1, s1, w)
      BY <1>7, <1>11, <1>13, <2>1, <3>2, <3>4, <3>5 DEF Reads
    <3> QED
      BY <1>10, <3>6
  <2>5. CASE s =< k
    <3>1. s \in 1..n /\ k \in 1..n
      BY <1>2, <1>6, <2>5
    <3>2. state.token # <<>>
      <4>1. \A i \in s..k : c[i] \in Characters
        BY <1>2, <1>3, <1>6
      <4>2. Len(SubSeq(c, s, k)) = IF s =< k THEN k - s + 1 ELSE 0
        <5>1. s \in Int /\ k \in Int
          BY <1>6
        <5> QED
          BY <4>1, <5>1, SubSeqProperties
      <4>3. Len(state.token) # 0
        <5>1. k - s + 1 # 0
          BY <1>6, <2>5
        <5> QED
          BY <1>7, <2>5, <4>2, <5>1
      <4>4. Len(<<>>) = 0
        OBVIOUS
      <4> QED
        BY <4>3, <4>4
    <3>3. next.tokens = Append(state.tokens, state.token) /\ next.token = <<>>
      BY <1>10, <1>13, <3>2 DEF Scan
    <3>4. PICK t : t = Len(state.tokens)
      OBVIOUS
    <3>5. state.tokens \in Seq(Seq(Characters)) /\ state.token \in Seq(Characters)
      BY <1>7 DEF States
    <3>6. /\ t \in Nat
          /\ Len(next.tokens) = t + 1
          /\ \A m \in 1..t : next.tokens[m] = state.tokens[m]
          /\ next.tokens[t + 1] = state.token
      BY <3>3, <3>4, <3>5
    <3>7. c[s] # Space /\ b[s] # Space
      <4>1. s \in s..k
        BY <1>6, <2>5
      <4> QED
        BY <1>4, <1>7, <3>1, <4>1
    <3>8. s = 1 \/ b[s - 1] = Space
      <4>1. s = 1 \/ s - 1 \in 1..n
        BY <1>2, <1>6, <3>1
      <4> QED
        BY <1>4, <1>7, <4>1
    <3>9. s \in Starts(b)
      BY <1>5, <3>1, <3>7, <3>8 DEF Starts
    <3>10. {i \in Starts(b) : i < s1} = {i \in Starts(b) : i < s} \cup {s}
      <4>1. ASSUME NEW i \in Starts(b), i < s1, ~(i < s)
            PROVE  i = s
        <5>1. i \in 1..n
          BY <1>5 DEF Starts
        <5>2. SUFFICES ASSUME i # s
                       PROVE  FALSE
          OBVIOUS
        <5>3. i - 1 \in s..k /\ i - 1 \in 1..n /\ i # 1
          BY <1>2, <1>6, <4>1, <5>1, <5>2
        <5>4. b[i - 1] = Space
          BY <5>3 DEF Starts
        <5> QED
          BY <1>4, <1>7, <5>3, <5>4
      <4>2. \A i \in Nat : i < s => i < s1
        BY <1>6
      <4>3. s < s1
        BY <2>5, <1>6
      <4>4. \A i \in Starts(b) : i \in Nat
        BY <1>5 DEF Starts
      <4> HIDE DEF s1
      <4> QED
        BY <3>9, <4>1, <4>2, <4>3, <4>4
    <3>11. IsWord(b, s, k)
      <4>1. \A i \in s..k : b[i] # Space
        <5>1. \A i \in s..k : i \in 1..n
          BY <1>2, <1>6
        <5> QED
          BY <1>4, <1>7, <5>1
      <4>2. k = n \/ b[k + 1] = Space
        <5>1. k = n \/ k + 1 \in 1..n
          BY <1>2
        <5> QED
          BY <1>4, <1>13, <5>1
      <4> QED
        BY <1>1, <2>5, <3>8, <4>1, <4>2 DEF IsWord
    <3>12. state.token = SubSeq(b, s, k)
      <4>1. SubSeq(c, s, k) = SubSeq(b, s, k)
        <5>1. <<Space>> \in Seq(Characters) /\ c = b \o <<Space>>
          BY DEF Characters, White
        <5> QED
          BY <1>1, <3>1, <5>1, SubSeqOfConcat1
      <4> QED
        BY <1>7, <4>1
    <3> HIDE DEF s1
    <3>13. PICK w1 : Enumerates(w1, t + 1, {i \in Starts(b) : i < s1}) /\ Continues(w1, w, t, s)
      <4>1. PICK S : S = {i \in Starts(b) : i < s}
        OBVIOUS
      <4>2. PICK U : U = {i \in Starts(b) : i < s1}
        OBVIOUS
      <4>3. S \subseteq Nat /\ \A y \in S : y < s
        BY <1>5, <4>1 DEF Starts
      <4>4. U = S \cup {s}
        BY <3>10, <4>1, <4>2
      <4>5. Enumerates(w, t, S)
        BY <1>7, <3>4, <4>1
      <4>6. \E w1 : Enumerates(w1, t + 1, U) /\ Continues(w1, w, t, s)
        BY <1>6, <3>6, <4>3, <4>4, <4>5, EnumerateOneMore
      <4> QED
        BY <4>2, <4>6
    <3>14. ASSUME NEW m \in 1..(t + 1)
           PROVE  \E j \in DOMAIN b : IsWord(b, w1[m], j) /\ next.tokens[m] = SubSeq(b, w1[m], j)
      <4>1. m \in 1..t \/ m = t + 1
        BY <3>6
      <4>2. CASE m \in 1..t
        <5>1. w1[m] = w[m] /\ next.tokens[m] = state.tokens[m]
          BY <3>6, <3>13, <4>2 DEF Continues
        <5> QED
          BY <1>7, <3>4, <4>2, <5>1
      <4>3. CASE m = t + 1
        <5>1. w1[m] = s /\ next.tokens[m] = SubSeq(b, s, k)
          BY <3>6, <3>12, <3>13, <4>3 DEF Continues
        <5>2. k \in DOMAIN b
          BY <1>5, <3>1
        <5> QED
          BY <3>11, <5>1, <5>2
      <4> QED
        BY <4>1, <4>2, <4>3
    <3>15. next.token = SubSeq(c, s1, k + 1)
      BY <2>2, <3>3
    <3>16. Reads(b, c, next, k + 1, s1, w1)
      BY <1>11, <1>13, <2>1, <3>6, <3>13, <3>14, <3>15 DEF Reads
    <3> QED
      BY <1>10, <3>16
  <2> QED
    BY <2>3, <2>4, <2>5
<1> QED
  BY <1>12, <1>13

\* What is read at the end of c is all of b.
LEMMA AllRead ==
    ASSUME NEW b \in Seq(Characters)
    PROVE  \E state, s, w : /\ Tokens(b) = state.tokens
                            /\ s = Len(b) + 2
                            /\ Reads(b, Append(b, Space), state, Len(b) + 1, s, w)
<1>1. PICK n : n = Len(b)
  OBVIOUS
<1>2. n \in Nat
  BY <1>1
<1>3. PICK c : c = Append(b, Space)
  OBVIOUS
<1>4. Space \in Characters
  BY DEF Characters, White
<1>5. c \in Seq(Characters) /\ Len(c) = n + 1 /\ c[n + 1] = Space
  BY <1>1, <1>3, <1>4
<1>6. PICK h : /\ h[0] = NoTokens
               /\ \A k \in 1..(n + 1) : h[k] = Scan(h[k - 1], c[k])
               /\ FoldLeft(Scan, NoTokens, c) = h[n + 1]
  BY <1>5, ScanSteps
<1> DEFINE Has(k) == k =< n + 1 => \E s, w : Reads(b, c, h[k], k, s, w)
<1> DEFINE T == {k \in Nat : Has(k)}
<1>7. 0 \in T
  <2>1. SubSeq(c, 1, 0) = <<>>
    <3>1. 1 \in Int /\ 0 \in Int /\ 0 < 1
      OBVIOUS
    <3> QED
      BY <3>1, SubSeqEmpty
  <2>2. {i \in Starts(b) : i < 1} = {}
    <3>1. \A i \in Starts(b) : i \in 1..n
      BY <1>1 DEF Starts
    <3> QED
      BY <3>1
  <2>3. <<>> \in [1..0 -> {}] /\ 1..0 = {}
    OBVIOUS
  <2>4. Enumerates(<<>>, 0, {i \in Starts(b) : i < 1})
    BY <2>2, <2>3 DEF Enumerates
  <2>5. NoTokens \in States /\ NoTokens.token = <<>> /\ NoTokens.tokens = <<>> /\ Len(NoTokens.tokens) = 0
    BY DEF NoTokens, States
  <2>6. Reads(b, c, NoTokens, 0, 1, <<>>)
    BY <2>1, <2>3, <2>4, <2>5 DEF Reads
  <2> QED
    BY <1>6, <2>6
<1>8. ASSUME NEW k \in Nat, k \in T
      PROVE  k + 1 \in T
  <2> HIDE DEF Has
  <2> SUFFICES Has(k + 1)
    OBVIOUS
  <2>1. SUFFICES ASSUME k + 1 =< n + 1
                 PROVE  \E s, w : Reads(b, c, h[k + 1], k + 1, s, w)
    BY DEF Has
  <2>2. k =< n + 1 /\ k =< Len(b)
    BY <1>1, <1>2, <2>1
  <2>3. PICK s, w : Reads(b, c, h[k], k, s, w)
    BY <1>8, <2>2 DEF Has
  <2>4. h[k + 1] = Scan(h[k], c[k + 1])
    <3>1. k + 1 \in 1..(n + 1) /\ (k + 1) - 1 = k
      BY <2>1
    <3> QED
      BY <1>6, <3>1
  <2>5. \E s1, w1 : Reads(b, c, Scan(h[k], c[k + 1]), k + 1, s1, w1)
    BY ONLY <1>3, <2>2, <2>3, ScanReads
  <2> QED
    BY <2>4, <2>5
<1>9. PICK s, w : Reads(b, c, h[n + 1], n + 1, s, w)
  <2> HIDE DEF Has
  <2>1. n + 1 \in T
    <3>1. n + 1 \in Nat
      BY <1>2
    <3> HIDE DEF T
    <3> QED
      BY <1>7, <1>8, <3>1, Induction
  <2>2. n + 1 =< n + 1
    BY <1>2
  <2> QED
    BY <2>1, <2>2 DEF Has
<1>10. s = n + 2
  <2>1. s \in Nat /\ s =< n + 2 /\ \A i \in s..(n + 1) : c[i] # Space
    BY <1>9, <1>2 DEF Reads
  <2>2. n + 1 \notin s..(n + 1)
    BY <1>5, <2>1
  <2> QED
    BY <1>2, <2>1, <2>2
<1>11. Tokens(b) = h[n + 1].tokens
  BY <1>3, <1>6 DEF Tokens
<1> QED
  BY <1>1, <1>3, <1>9, <1>10, <1>11

\* w tells where the tokens of b begin: where its words do.
Finds(b, w) ==
    /\ Tokens(b) \in Seq(Seq(Characters))
    /\ Enumerates(w, Len(Tokens(b)), Starts(b))
    /\ \A m \in 1..Len(Tokens(b)) :
          \E j \in DOMAIN b : IsWord(b, w[m], j) /\ Tokens(b)[m] = SubSeq(b, w[m], j)

LEMMA TokensFound ==
    ASSUME NEW b \in Seq(Characters)
    PROVE  \E w : Finds(b, w)
<1>1. PICK state, s, w : /\ Tokens(b) = state.tokens
                         /\ s = Len(b) + 2
                         /\ Reads(b, Append(b, Space), state, Len(b) + 1, s, w)
  BY AllRead
<1>2. {i \in Starts(b) : i < s} = Starts(b)
  <2>1. PICK n \in Nat : n = Len(b)
    OBVIOUS
  <2>2. \A i \in Starts(b) : i \in 1..n
    BY <2>1 DEF Starts
  <2>3. \A i \in 1..n : i < s
    BY <1>1, <2>1
  <2> QED
    BY <2>2, <2>3
<1>3. Tokens(b) \in Seq(Seq(Characters))
  BY <1>1 DEF Reads, States
<1>4. Enumerates(w, Len(Tokens(b)), Starts(b))
  BY <1>1, <1>2 DEF Reads
<1>5. \A m \in 1..Len(Tokens(b)) :
          \E j \in DOMAIN b : IsWord(b, w[m], j) /\ Tokens(b)[m] = SubSeq(b, w[m], j)
  BY <1>1 DEF Reads
<1> QED
  BY <1>3, <1>4, <1>5 DEF Finds

\* strtok() finds the words of a line, whatever is in it: the pieces between the spaces
\* that are not empty, each once and in their order (tokenize_buffer).
THEOREM TokensAreWords ==
    ASSUME NEW b \in Seq(Characters)
    PROVE  Tokens(b) = Words(b)
<1>1. PICK w : Finds(b, w)
  BY TokensFound
<1>2. PICK n \in Nat : n = Len(Tokens(b))
  BY <1>1 DEF Finds
<1>3. Starts(b) \subseteq 1..Len(b) /\ Starts(b) \subseteq Nat
  BY DEF Starts
<1>4. Enumerates(w, n, Starts(b)) /\ w \in [1..n -> Starts(b)]
  BY <1>1, <1>2 DEF Finds, Enumerates
<1>5. Ascending(Starts(b)) = w
  BY <1>3, <1>4, AscendingIs
<1>6. {i \in DOMAIN b : \E j \in DOMAIN b : IsWord(b, i, j)} = Starts(b)
  <2>1. DOMAIN b = 1..Len(b)
    OBVIOUS
  <2> QED
    BY <1>3, <2>1, WordEnds
<1> DEFINE WordAt(i) == SubSeq(b, i, CHOOSE j \in DOMAIN b : IsWord(b, i, j))
<1>7. Words(b) = [m \in 1..n |-> WordAt(w[m])]
  <2>1. Ascending({i \in DOMAIN b : \E j \in DOMAIN b : IsWord(b, i, j)}) = w
    BY <1>5, <1>6
  <2>2. DOMAIN w = 1..n
    BY <1>4
  <2> DEFINE starts == Ascending({i \in DOMAIN b : \E j \in DOMAIN b : IsWord(b, i, j)})
  <2>3. Words(b) = [m \in DOMAIN starts |-> WordAt(starts[m])]
    BY Zenon DEF Words
  <2> HIDE DEF starts
  <2>4. starts = w
    BY <2>1 DEF starts
  <2> HIDE DEF WordAt
  <2> QED
    BY <2>2, <2>3, <2>4
<1>8. ASSUME NEW m \in 1..n
      PROVE  Tokens(b)[m] = WordAt(w[m])
  <2>1. PICK j \in DOMAIN b : IsWord(b, w[m], j) /\ Tokens(b)[m] = SubSeq(b, w[m], j)
    BY <1>1, <1>2 DEF Finds
  <2>2. w[m] \in 1..Len(b)
    BY <1>3, <1>4
  <2>3. \A l \in DOMAIN b : IsWord(b, w[m], l) => l = j
    BY <2>1, <2>2, WordEnds
  <2>4. (CHOOSE l \in DOMAIN b : IsWord(b, w[m], l)) = j
    BY <2>1, <2>3
  <2> QED
    BY <2>1, <2>4
<1>9. Tokens(b) = [m \in 1..n |-> Tokens(b)[m]]
  BY <1>1, <1>2 DEF Finds
<1> HIDE DEF WordAt
<1> QED
  BY <1>7, <1>8, <1>9

-----------------------------------------------------------------------------
(* What parse_buffer makes of a line.                                        *)

\* No white space is left at the ends (trim).
LEMMA TrimEnds ==
    ASSUME NEW str \in Seq(Characters)
    PROVE  /\ Trim(str) \in Seq(Characters)
           /\ Trim(str) # <<>> => /\ Len(Trim(str)) \in Nat \ {0}
                                  /\ Trim(str)[1] \notin White
                                  /\ Trim(str)[Len(Trim(str))] \notin White
<1>1. PICK n \in Nat : n = Len(str)
  OBVIOUS
<1>2. DOMAIN str = 1..n /\ \A i \in 1..n : str[i] \in Characters
  BY <1>1
<1> DEFINE ink == {i \in DOMAIN str : str[i] \notin White}
<1>3. CASE ink = {}
  <2>1. Trim(str) = <<>>
    BY <1>3 DEF Trim
  <2> QED
    BY <2>1
<1>4. CASE ink # {}
  <2>1. ink \subseteq 1..n /\ ink \subseteq Nat
    BY <1>2
  <2>2. Trim(str) = SubSeq(str, Min(ink), Max(ink))
    BY <1>4 DEF Trim
  <2>3. Min(ink) \in ink /\ \A i \in ink : Min(ink) =< i
    <3> HIDE DEF ink
    <3> QED
      BY <1>4, <2>1, MinIs
  <2>4. Max(ink) \in ink /\ \A i \in ink : i =< Max(ink)
    <3> HIDE DEF ink
    <3> QED
      BY <1>4, <2>1, MaxIs
  <2>5. str[Min(ink)] \notin White /\ str[Max(ink)] \notin White
    BY <2>3, <2>4
  <2> HIDE DEF ink
  <2>6. PICK p, q : p = Min(ink) /\ q = Max(ink)
    OBVIOUS
  <2>7. p \in 1..n /\ q \in 1..n /\ p =< q
    BY <2>1, <2>3, <2>4, <2>6
  <2>8. \A i \in p..q : str[i] \in Characters
    <3>1. \A i \in p..q : i \in 1..n
      BY <2>7
    <3> QED
      BY <1>2, <3>1
  <2> DEFINE b == SubSeq(str, p, q)
  <2>9. /\ b \in Seq(Characters)
        /\ Len(b) = q - p + 1
        /\ \A i \in 1..(q - p + 1) : b[i] = str[p + i - 1]
    <3>1. p \in Int /\ q \in Int
      BY <2>7
    <3>2. /\ b \in Seq(Characters)
          /\ Len(b) = IF p =< q THEN q - p + 1 ELSE 0
          /\ \A i \in 1..(q - p + 1) : b[i] = str[p + i - 1]
      BY <2>8, <3>1, SubSeqProperties
    <3> HIDE DEF b
    <3> QED
      BY <2>7, <3>2
  <2> HIDE DEF b
  <2>10. Len(b) \in Nat \ {0} /\ 1 \in 1..(q - p + 1) /\ q - p + 1 \in 1..(q - p + 1)
    BY <2>7, <2>9
  <2>11. p + 1 - 1 = p /\ p + (q - p + 1) - 1 = q
    BY <2>7
  <2>12. b[1] = str[p] /\ b[Len(b)] = str[q]
    BY <2>9, <2>10, <2>11
  <2>13. Trim(str) = b
    BY <2>2, <2>6 DEF b
  <2> QED
    BY <2>5, <2>6, <2>9, <2>10, <2>12, <2>13
<1> QED
  BY <1>3, <1>4

\* A buffer that trim leaves behind.
Trimmed(b) ==
    /\ b \in Seq(Characters)
    /\ Len(b) \in Nat \ {0}
    /\ b[1] \notin White
    /\ b[Len(b)] \notin White

\* No two spaces in a row.
Alone(b) == \A i \in Spaces(b) : b[i + 1] # Space

\* A word begins at the start of the buffer and after every space that another does not
\* follow: count_args counts one more than there are, for each that another follows.
LEMMA WordsCounted ==
    ASSUME NEW b, Trimmed(b)
    PROVE  /\ IsFiniteSet(Starts(b))
           /\ Cardinality(Starts(b)) \in Nat \ {0}
           /\ CountArgs(b) \in Nat
           /\ Cardinality(Starts(b)) =< CountArgs(b)
           /\ Cardinality(Starts(b)) = CountArgs(b) <=> Alone(b)
<1>1. PICK n \in Nat \ {0} : n = Len(b)
  BY DEF Trimmed
<1>2. DOMAIN b = 1..n
  BY <1>1 DEF Trimmed
<1>3. b[1] # Space /\ b[n] # Space
  BY <1>1 DEF Trimmed, White
<1> DEFINE Q == {i \in Spaces(b) : b[i + 1] # Space}
<1>4. Spaces(b) \subseteq 1..n
  BY <1>2 DEF Spaces
<1>5. IsFiniteSet(1..n)
  <2>1. 1 \in Int /\ n \in Int
    OBVIOUS
  <2> QED
    BY <2>1, FS_Interval
<1>6. IsFiniteSet(Spaces(b)) /\ Cardinality(Spaces(b)) \in Nat
  BY <1>4, <1>5, FS_Subset, FS_CardinalityType
<1>7. /\ Q \subseteq Spaces(b)
      /\ IsFiniteSet(Q)
      /\ Cardinality(Q) \in Nat
      /\ Cardinality(Q) =< Cardinality(Spaces(b))
      /\ Cardinality(Q) = Cardinality(Spaces(b)) => Q = Spaces(b)
  <2>1. Q \subseteq Spaces(b)
    OBVIOUS
  <2> HIDE DEF Q
  <2> QED
    BY <1>6, <2>1, FS_Subset, FS_CardinalityType
<1>8. IsFiniteSet(Q \cup {0}) /\ Cardinality(Q \cup {0}) = Cardinality(Q) + 1
  <2>1. 0 \notin Q
    BY <1>4
  <2> HIDE DEF Q
  <2> QED
    BY <1>7, <2>1, FS_AddElement
<1>9. PICK f : f = [i \in Q \cup {0} |-> i + 1]
  OBVIOUS
<1>10. f \in Bijection(Q \cup {0}, Starts(b))
  <2>1. ASSUME NEW i \in Q
        PROVE  i + 1 \in Starts(b)
    <3>1. i \in 1..n /\ b[i] = Space /\ b[i + 1] # Space
      BY <1>2 DEF Spaces
    <3>2. i # n
      BY <1>3, <3>1
    <3>3. i + 1 \in 1..n /\ (i + 1) - 1 = i
      BY <3>1, <3>2
    <3> QED
      BY <1>2, <3>1, <3>3 DEF Starts
  <2>2. 0 + 1 \in Starts(b)
    BY <1>2, <1>3 DEF Starts
  <2>3. f \in [Q \cup {0} -> Starts(b)]
    <3> HIDE DEF Q
    <3> QED
      BY <1>9, <2>1, <2>2
  <2>4. ASSUME NEW x \in Starts(b)
        PROVE  \E i \in Q \cup {0} : f[i] = x
    <3>1. x \in 1..n /\ b[x] # Space /\ (x = 1 \/ b[x - 1] = Space)
      BY <1>2 DEF Starts
    <3>2. (x - 1) + 1 = x
      BY <3>1
    <3>3. x - 1 \in Q \cup {0}
      <4>1. CASE x = 1
        BY <4>1
      <4>2. CASE x # 1
        <5>1. x - 1 \in 1..n
          BY <3>1, <4>2
        <5>2. x - 1 \in Spaces(b)
          BY <1>2, <3>1, <4>2, <5>1 DEF Spaces
        <5> QED
          BY <3>1, <3>2, <5>2
      <4> QED
        BY <4>1, <4>2
    <3> HIDE DEF Q
    <3>4. f[x - 1] = x
      BY <1>9, <3>2, <3>3
    <3> QED
      BY <3>3, <3>4
  <2>5. \A i, j \in Q \cup {0} : f[i] = f[j] => i = j
    <3>1. \A i \in Q \cup {0} : i \in Nat
      BY <1>4
    <3> HIDE DEF Q
    <3> QED
      BY <1>9, <3>1
  <2> HIDE DEF Q
  <2>6. f \in Injection(Q \cup {0}, Starts(b))
    BY <2>3, <2>5 DEF Injection, IsInjective
  <2>7. f \in Surjection(Q \cup {0}, Starts(b))
    BY <2>3, <2>4 DEF Surjection
  <2> QED
    BY <2>6, <2>7 DEF Bijection
<1>11. IsFiniteSet(Starts(b)) /\ Cardinality(Starts(b)) = Cardinality(Q) + 1
  <2> HIDE DEF Q
  <2>1. ExistsBijection(Q \cup {0}, Starts(b))
    BY <1>10 DEF ExistsBijection
  <2> QED
    BY <1>8, <2>1, FS_Bijection
<1>12. CountArgs(b) = Cardinality(Spaces(b)) + 1
  BY DEF CountArgs
<1>13. Alone(b) <=> Q = Spaces(b)
  BY DEF Alone
<1> HIDE DEF Q
<1>14. Cardinality(Q) = Cardinality(Spaces(b)) <=> Alone(b)
  BY <1>7, <1>13
<1> QED
  BY <1>6, <1>7, <1>11, <1>12, <1>14

\* What is found in such a buffer: at least one token; each is a sequence of characters
\* and not empty; if no two spaces follow each other, the last one goes on to the end.
LEMMA TokensOf ==
    ASSUME NEW b, Trimmed(b)
    PROVE  /\ Tokens(b) \in Seq(Seq(Characters))
           /\ Len(Tokens(b)) = Cardinality(Starts(b))
           /\ Len(Tokens(b)) \in Nat \ {0}
           /\ \A m \in 1..Len(Tokens(b)) : Len(Tokens(b)[m]) \in Nat \ {0}
           /\ Alone(b) => Last(Tokens(b)[Len(Tokens(b))]) = b[Len(b)]
<1>1. b \in Seq(Characters)
  BY DEF Trimmed
<1>2. PICK n \in Nat \ {0} : n = Len(b)
  BY DEF Trimmed
<1>3. DOMAIN b = 1..n
  BY <1>1, <1>2
<1>4. PICK w : Finds(b, w)
  BY <1>1, TokensFound
<1>5. Tokens(b) \in Seq(Seq(Characters))
  BY <1>4 DEF Finds
<1>6. PICK t \in Nat : t = Len(Tokens(b))
  BY <1>5
<1>7. /\ w \in [1..t -> Starts(b)]
      /\ \A i, j \in 1..t : i < j => w[i] < w[j]
      /\ \A x \in Starts(b) : \E i \in 1..t : w[i] = x
  BY <1>4, <1>6 DEF Finds, Enumerates
<1>8. Starts(b) \subseteq 1..n /\ Starts(b) \subseteq Nat
  BY <1>3 DEF Starts
<1>9. t = Cardinality(Starts(b)) /\ t \in Nat \ {0}
  <2>1. Enumerates(w, t, Starts(b))
    BY <1>4, <1>6 DEF Finds
  <2>2. t = Cardinality(Starts(b))
    BY <1>8, <2>1, EnumerationCounts
  <2> QED
    BY <2>2, WordsCounted
<1>10. ASSUME NEW m \in 1..t
       PROVE  \E j \in 1..n : /\ w[m] \in 1..n
                              /\ w[m] =< j
                              /\ j = n \/ b[j + 1] = Space
                              /\ Len(Tokens(b)[m]) = j - w[m] + 1
                              /\ Tokens(b)[m] \in Seq(Characters)
                              /\ Tokens(b)[m][j - w[m] + 1] = b[j]
  <2>1. PICK j \in 1..n : IsWord(b, w[m], j) /\ Tokens(b)[m] = SubSeq(b, w[m], j)
    BY <1>3, <1>4, <1>6 DEF Finds
  <2>2. PICK p \in 1..n : p = w[m]
    BY <1>7, <1>8
  <2>3. p =< j /\ (j = n \/ b[j + 1] = Space)
    BY <1>2, <2>1, <2>2 DEF IsWord
  <2>4. \A i \in p..j : b[i] \in Characters
    <3>1. \A i \in p..j : i \in 1..n
      OBVIOUS
    <3> QED
      BY <1>1, <1>2, <3>1
  <2>5. /\ SubSeq(b, p, j) \in Seq(Characters)
        /\ Len(SubSeq(b, p, j)) = IF p =< j THEN j - p + 1 ELSE 0
        /\ \A i \in 1..(j - p + 1) : SubSeq(b, p, j)[i] = b[p + i - 1]
    <3>1. p \in Int /\ j \in Int
      OBVIOUS
    <3> QED
      BY <2>4, <3>1, SubSeqProperties
  <2>6. j - p + 1 \in 1..(j - p + 1) /\ p + (j - p + 1) - 1 = j
    BY <2>3
  <2> QED
    BY <2>1, <2>2, <2>3, <2>5, <2>6
<1>11. \A m \in 1..t : Len(Tokens(b)[m]) \in Nat \ {0}
  <2>1. SUFFICES ASSUME NEW m \in 1..t
                 PROVE  Len(Tokens(b)[m]) \in Nat \ {0}
    OBVIOUS
  <2>2. PICK j \in 1..n : w[m] \in 1..n /\ w[m] =< j /\ Len(Tokens(b)[m]) = j - w[m] + 1
    BY <1>10
  <2> QED
    BY <2>2
<1>12. ASSUME Alone(b)
       PROVE  Last(Tokens(b)[t]) = b[n]
  <2>1. t \in 1..t
    BY <1>9
  <2>2. PICK j \in 1..n : /\ w[t] \in 1..n
                          /\ w[t] =< j
                          /\ j = n \/ b[j + 1] = Space
                          /\ Len(Tokens(b)[t]) = j - w[t] + 1
                          /\ Tokens(b)[t][j - w[t] + 1] = b[j]
    BY <1>10, <2>1
  <2>3. ASSUME j # n
        PROVE  FALSE
    <3>1. j + 1 \in 1..n /\ b[j + 1] = Space
      BY <2>2, <2>3
    <3>2. j + 1 # n
      BY <1>2, <3>1 DEF Trimmed, White
    <3>3. (j + 1) + 1 \in 1..n /\ ((j + 1) + 1) - 1 = j + 1 /\ w[t] < (j + 1) + 1
      BY <2>2, <3>1, <3>2
    <3>4. b[(j + 1) + 1] # Space
      BY <1>3, <1>12, <3>1 DEF Alone, Spaces
    <3>5. (j + 1) + 1 \in Starts(b)
      BY <1>3, <3>1, <3>3, <3>4 DEF Starts
    <3>6. PICK i \in 1..t : w[i] = (j + 1) + 1
      BY <1>7, <3>5
    <3>7. i = t \/ w[i] < w[t]
      <4>1. i = t \/ i < t
        OBVIOUS
      <4> QED
        BY <1>7, <2>1, <4>1
    <3> QED
      BY <2>2, <3>3, <3>6, <3>7
  <2> QED
    BY <2>2, <2>3 DEF Last
<1> QED
  BY <1>2, <1>5, <1>6, <1>9, <1>11, <1>12

\* The array ends with a token, and then it is all of them; or with what malloc() left
\* there (tokenize_buffer).
LEMMA ArrayOf ==
    ASSUME NEW b, Trimmed(b), NEW array, array = TokenizeBuffer(b, CountArgs(b))
    PROVE  /\ Alone(b) => array = Tokens(b) /\ Last(array) # Unwritten
           /\ ~Alone(b) => Last(array) = Unwritten
<1>1. PICK count \in Nat : count = CountArgs(b)
  BY WordsCounted
<1>2. PICK tokens : tokens = Tokens(b)
  OBVIOUS
<1>3. PICK t \in Nat \ {0} : t = Len(tokens)
  BY <1>2, TokensOf
<1>4. t =< count /\ (t = count <=> Alone(b))
  BY <1>1, <1>2, <1>3, TokensOf, WordsCounted
<1>5. count \in 1..count
  BY <1>3, <1>4
<1>6. array = [i \in 1..count |-> IF i > t THEN Unwritten
                                  ELSE IF i = count THEN Chomp(tokens[i]) ELSE tokens[i]]
  BY <1>1, <1>2, <1>3 DEF TokenizeBuffer
<1>7. Last(array) = array[count]
  <2>1. DOMAIN array = 1..count
    BY <1>6
  <2>2. Len(array) = count
    BY <1>6
  <2> QED
    BY <2>2 DEF Last
<1>8. ASSUME ~Alone(b)
      PROVE  Last(array) = Unwritten
  <2>1. count > t
    BY <1>3, <1>4, <1>8
  <2> QED
    BY <1>5, <1>6, <1>7, <2>1
<1>9. ASSUME Alone(b)
      PROVE  array = tokens /\ Last(array) # Unwritten
  <2>1. t = count
    BY <1>4, <1>9
  <2>2. tokens \in Seq(Seq(Characters)) /\ tokens[count] \in Seq(Characters)
    <3>1. tokens \in Seq(Seq(Characters))
      BY <1>2, TokensOf
    <3>2. count \in 1..Len(tokens)
      BY <1>3, <1>5, <2>1
    <3> QED
      BY <3>1, <3>2, ElementOfSeq
  <2>3. Last(tokens[count]) \notin White
    <3>1. Last(tokens[count]) = b[Len(b)]
      BY <1>2, <1>3, <1>9, <2>1, TokensOf
    <3> QED
      BY <3>1 DEF Trimmed
  <2>4. Chomp(tokens[count]) = tokens[count]
    <3>1. Last(tokens[count]) # "\r" /\ Last(tokens[count]) # "\n"
      BY <2>3 DEF White
    <3> QED
      BY <3>1 DEF Chomp, Without
  <2>5. array = tokens
    <3>1. tokens = [i \in 1..count |-> tokens[i]]
      <4>1. tokens \in Seq(Seq(Characters)) /\ count = Len(tokens)
        BY <1>3, <2>1, <2>2
      <4> QED
        BY <4>1
    <3>2. \A i \in 1..count : ~(i > t)
      BY <2>1
    <3> QED
      BY <1>6, <2>4, <3>1, <3>2
  <2>6. tokens[count] # Unwritten
    <3>1. Len(tokens[count]) \in Nat \ {0}
      BY <1>2, <1>3, <1>5, <2>1, TokensOf
    <3>2. tokens[count][1] \in Characters
      BY <2>2, <3>1
    <3>3. Unwritten[1] \notin Characters
      BY DEF Unwritten, Characters, White, Space
    <3> QED
      BY <3>2, <3>3
  <2> QED
    BY <1>7, <2>5, <2>6
<1> QED
  BY <1>2, <1>8, <1>9

\* The name of a command is made of the characters of a line.
LEMMA NotCrashed ==
    ASSUME NEW tokens \in Seq(Seq(Characters)), Len(tokens) \in Nat \ {0},
           Len(tokens[1]) \in Nat \ {0}
    PROVE  Command(tokens) # Crashed
<1>1. tokens[1] \in Seq(Characters)
  OBVIOUS
<1>2. 1 \in DOMAIN tokens[1] /\ tokens[1][1] \in Characters
  BY <1>1
<1>3. Upper(tokens[1][1]) \in Characters
  BY <1>2 DEF Upper, Characters
<1>4. Command(tokens).name[1] = Upper(tokens[1][1])
  BY <1>2 DEF Command
<1>5. Crashed.name[1] \notin Characters
  BY DEF Crashed, Unwritten, Characters, White, Space
<1> QED
  BY <1>3, <1>4, <1>5

\* TokensFit of every line.
LEMMA Fits == line \in Seq(Characters) => TokensFit
<1> SUFFICES ASSUME line \in Seq(Characters)
             PROVE  TokensFit
  OBVIOUS
<1>1. PICK b : b = Trim(line)
  OBVIOUS
<1> SUFFICES ASSUME b # <<>>
             PROVE  /\ Len(Tokens(b)) =< CountArgs(b)
                    /\ Crashed \in Parse(line) <=> ~Single
  BY <1>1 DEF TokensFit
<1>2. Trimmed(b)
  BY <1>1, TrimEnds DEF Trimmed
<1>3. Single <=> Alone(b)
  BY <1>1 DEF Single, Alone
<1>4. PICK array : array = TokenizeBuffer(b, CountArgs(b))
  OBVIOUS
<1>5. Parse(line) = IF Last(array) = Unwritten THEN {Crashed, Command(array)} ELSE {Command(array)}
  BY <1>1, <1>4 DEF Parse
<1>6. Len(Tokens(b)) =< CountArgs(b)
  BY <1>2, TokensOf, WordsCounted
<1>7. CASE Alone(b)
  <2>1. array = Tokens(b) /\ Parse(line) = {Command(array)}
    BY <1>2, <1>4, <1>5, <1>7, ArrayOf
  <2>2. Command(array) # Crashed
    <3>1. 1 \in 1..Len(array)
      BY <1>2, <2>1, TokensOf
    <3> QED
      BY <1>2, <2>1, <3>1, TokensOf, NotCrashed
  <2> QED
    BY <1>3, <1>6, <1>7, <2>1, <2>2
<1>8. CASE ~Alone(b)
  <2>1. Last(array) = Unwritten
    BY <1>2, <1>4, <1>8, ArrayOf
  <2> QED
    BY <1>3, <1>5, <1>6, <1>8, <2>1
<1> QED
  BY <1>7, <1>8

\* ParsesWords of every line.
LEMMA Parses == line \in Seq(Characters) => ParsesWords
<1> SUFFICES ASSUME line \in Seq(Characters), Single
             PROVE  Parse(line) = {IF Words(Trim(line)) = <<>> THEN Nothing
                                   ELSE Command(Words(Trim(line)))}
  BY DEF ParsesWords
<1>1. PICK b : b = Trim(line)
  OBVIOUS
<1>2. b \in Seq(Characters)
  BY <1>1, TrimEnds
<1>3. Tokens(b) = Words(b)
  BY <1>2, TokensAreWords
<1>4. CASE b = <<>>
  <2>1. Parse(line) = {Nothing}
    BY <1>1, <1>4 DEF Parse
  <2>2. Tokens(b) = <<>>
    <3>1. PICK w : Finds(b, w)
      BY <1>2, TokensFound
    <3>2. Starts(b) = {}
      BY <1>4 DEF Starts
    <3>3. Len(Tokens(b)) \in Nat /\ Enumerates(w, Len(Tokens(b)), {})
      BY <3>1, <3>2 DEF Finds
    <3>4. Len(Tokens(b)) = 0
      BY <3>3, EnumerationCounts, FS_EmptySet
    <3> QED
      BY <3>1, <3>4, EmptySeq DEF Finds
  <2> QED
    BY <1>1, <1>3, <2>1, <2>2
<1>5. CASE b # <<>>
  <2>1. Trimmed(b)
    BY <1>1, <1>5, TrimEnds DEF Trimmed
  <2>2. Alone(b)
    BY <1>1 DEF Single, Alone
  <2>3. PICK array : array = TokenizeBuffer(b, CountArgs(b))
    OBVIOUS
  <2>4. array = Tokens(b) /\ Last(array) # Unwritten
    BY <2>1, <2>2, <2>3, ArrayOf
  <2>5. Parse(line) = {Command(array)}
    BY <1>1, <1>5, <2>3, <2>4 DEF Parse
  <2>6. Tokens(b) # <<>>
    <3>1. Len(Tokens(b)) # Len(<<>>)
      BY <2>1, TokensOf, EmptySeq
    <3> QED
      BY <3>1
  <2> QED
    BY <1>1, <1>3, <2>4, <2>5, <2>6
<1> QED
  BY <1>4, <1>5

\* A line is a sequence of characters.
LEMMA CharactersKept == LineSpec => [](line \in Seq(Characters))
<1>1. LineInit => line \in Seq(Characters)
  BY DEF LineInit
<1>2. line \in Seq(Characters) /\ [Arrive]_line => (line \in Seq(Characters))'
  BY DEF Arrive
<1> QED
  BY <1>1, <1>2, PTL DEF LineSpec

\* However long a line is and whatever white space it holds, strtok() finds no more
\* tokens than the array has room for, and the token that is read last was written
\* unless two spaces follow each other (TokensFit, count_args and tokenize_buffer).
THEOREM LineTokensFit == LineSpec => []TokensFit
BY CharactersKept, Fits, PTL

\* A line of any length that separates its words by one space is read as its words, and
\* one of white space as nothing (ParsesWords, parse_buffer).
THEOREM LineParsesWords == LineSpec => []ParsesWords
BY CharactersKept, Parses, PTL

-----------------------------------------------------------------------------
(* PORT and 227.                                                             *)

\* The fields a PORT may have.
Fields == [empty : BOOLEAN, number : Nat]

\* A field more leaves a sequence of numbers.
LEMMA PassStays ==
    ASSUME NEW numbers \in Seq(Nat), NEW field \in Fields
    PROVE  Pass(numbers, field) \in Seq(Nat)
<1>1. field.number \in Nat
  BY DEF Fields
<1>2. Append(numbers, field.number) \in Seq(Nat)
  BY <1>1
<1> QED
  BY <1>2 DEF Pass

\* The numbers get_host_port has, field by field.
LEMMA PassSteps ==
    ASSUME NEW b \in Seq(Fields)
    PROVE  \E h : /\ h[0] = <<>>
                  /\ \A k \in 1..Len(b) : h[k] = Pass(h[k - 1], b[k])
                  /\ FoldLeft(Pass, <<>>, b) = h[Len(b)]
<1> DEFINE n == Len(b)
<1> DEFINE Follows(g) ==
             g = [s \in SUBSET DOMAIN b |->
                    IF s = {} THEN <<>> ELSE Pass(g[s \ {Max(s)}], b[Max(s)])]
<1>1. n \in Nat /\ DOMAIN b = 1..n
  OBVIOUS
<1>2. \E g : Follows(g)
  <2> DEFINE F == [x \in Seq(Nat) |-> [i \in 1..n |-> Pass(x, b[i])]]
  <2>1. F \in [Seq(Nat) -> [1..n -> Seq(Nat)]]
    <3>1. \A i \in 1..n : b[i] \in Fields
      OBVIOUS
    <3>2. \A x \in Seq(Nat), i \in 1..n : Pass(x, b[i]) \in Seq(Nat)
      BY <3>1, PassStays
    <3> QED
      BY <3>2
  <2>2. <<>> \in Seq(Nat)
    OBVIOUS
  <2>3. PICK g : Folds(g, n, Seq(Nat), <<>>, F)
    <3> HIDE DEF F, n
    <3> QED
      BY <1>1, <2>1, <2>2, FoldExists
  <2>4. ASSUME NEW s \in SUBSET (1..n), s # {}
        PROVE  g[s] = Pass(g[s \ {Max(s)}], b[Max(s)])
    <3>1. Max(s) \in 1..n
      BY <1>1, <2>4, MaxIs
    <3>2. g[s \ {Max(s)}] \in Seq(Nat)
      BY <2>3 DEF Folds
    <3>3. F[g[s \ {Max(s)}]][Max(s)] = Pass(g[s \ {Max(s)}], b[Max(s)])
      BY <3>1, <3>2
    <3> HIDE DEF F, n
    <3> QED
      BY <2>3, <2>4, <3>3 DEF Folds
  <2>5. g = [s \in SUBSET (1..n) |->
               IF s = {} THEN <<>> ELSE Pass(g[s \ {Max(s)}], b[Max(s)])]
    <3> HIDE DEF F, n
    <3> QED
      BY <2>3, <2>4 DEF Folds
  <2> QED
    BY <1>1, <2>5
<1>3. PICK iter : iter = CHOOSE g : Follows(g)
  OBVIOUS
<1>4. Follows(iter)
  <2> HIDE DEF Follows
  <2> QED
    BY <1>2, <1>3
<1>5. FoldLeft(Pass, <<>>, b) = iter[DOMAIN b]
  BY <1>3 DEF FoldLeft, MapThenFoldSet
<1>6. iter[{}] = <<>>
  BY <1>4
<1>7. ASSUME NEW k \in 1..n
      PROVE  iter[1..k] = Pass(iter[1..(k - 1)], b[k])
  <2>1. 1..k \in SUBSET DOMAIN b
    BY <1>1
  <2>2. 1..k # {} /\ Max(1..k) = k /\ (1..k) \ {k} = 1..(k - 1)
    BY <1>1, LastOfFirst
  <2> QED
    BY <1>4, <2>1, <2>2
<1>8. PICK h : h = [k \in 0..n |-> iter[1..k]]
  OBVIOUS
<1>9. h[0] = <<>>
  <2>1. 1..0 = {} /\ 0 \in 0..n
    BY <1>1
  <2> QED
    BY <1>6, <1>8, <2>1
<1>10. \A k \in 1..n : h[k] = Pass(h[k - 1], b[k])
  <2>1. \A k \in 1..n : k \in 0..n /\ k - 1 \in 0..n
    BY <1>1
  <2> QED
    BY <1>7, <1>8, <2>1
<1>11. iter[DOMAIN b] = h[n]
  BY <1>1, <1>8
<1> QED
  BY <1>5, <1>9, <1>10, <1>11

\* The fields up to the k-th that are not empty.
There(fields, k) == {i \in 1..k : ~fields[i].empty}

\* strtok() finds the numbers of the fields that are not empty, in order
\* (get_host_port).
LEMMA PassesOver ==
    ASSUME NEW fields \in Seq(Fields)
    PROVE  LET numbers == FoldLeft(Pass, <<>>, fields) IN
           /\ numbers \in Seq(Nat)
           /\ \E w : /\ Enumerates(w, Len(numbers), There(fields, Len(fields)))
                     /\ \A i \in 1..Len(numbers) : numbers[i] = fields[w[i]].number
<1> DEFINE n == Len(fields)
<1>1. n \in Nat /\ \A k \in 1..n : fields[k] \in Fields
  OBVIOUS
<1>2. PICK h : /\ h[0] = <<>>
               /\ \A k \in 1..n : h[k] = Pass(h[k - 1], fields[k])
               /\ FoldLeft(Pass, <<>>, fields) = h[n]
  BY PassSteps
<1> DEFINE Found(k, w) ==
             /\ h[k] \in Seq(Nat)
             /\ Enumerates(w, Len(h[k]), There(fields, k))
             /\ \A i \in 1..Len(h[k]) : h[k][i] = fields[w[i]].number
<1> DEFINE Has(k) == k =< n => \E w : Found(k, w)
<1> DEFINE T == {k \in Nat : Has(k)}
<1>3. 0 \in T
  <2>1. h[0] = <<>> /\ h[0] \in Seq(Nat) /\ Len(h[0]) = 0
    BY <1>2
  <2>2. 1..0 = {} /\ There(fields, 0) = {}
    BY DEF There
  <2>3. <<>> \in [1..0 -> {}]
    BY <2>2
  <2>4. Found(0, <<>>)
    BY <2>1, <2>2, <2>3 DEF Enumerates
  <2> HIDE DEF Found
  <2> QED
    BY <2>4
<1>4. ASSUME NEW k \in Nat, k \in T
      PROVE  k + 1 \in T
  <2> HIDE DEF Found, Has, n
  <2>1. SUFFICES ASSUME k + 1 =< n
                 PROVE  \E w : Found(k + 1, w)
    BY DEF Has
  <2>2. PICK w : Found(k, w)
    <3>1. Has(k) /\ k =< n
      BY <1>1, <1>4, <2>1
    <3> QED
      BY <3>1 DEF Has
  <2>3. k + 1 \in 1..n /\ (k + 1) - 1 = k
    BY <1>1, <2>1
  <2>4. h[k + 1] = Pass(h[k], fields[k + 1])
    BY <1>2, <2>3
  <2>5. fields[k + 1] \in Fields
    BY <1>1, <2>3
  <2>6. /\ h[k] \in Seq(Nat)
        /\ Enumerates(w, Len(h[k]), There(fields, k))
        /\ \A i \in 1..Len(h[k]) : h[k][i] = fields[w[i]].number
    BY <2>2 DEF Found
  <2> DEFINE m == Len(h[k])
  <2>7. m \in Nat
    BY <2>6
  <2>8. CASE fields[k + 1].empty
    <3>1. h[k + 1] = h[k]
      BY <2>4, <2>8 DEF Pass
    <3>2. There(fields, k + 1) = There(fields, k)
      <4>1. \A i \in 1..(k + 1) : i \in 1..k \/ i = k + 1
        OBVIOUS
      <4>2. \A i \in 1..k : i \in 1..(k + 1)
        OBVIOUS
      <4> QED
        BY <2>8, <4>1, <4>2 DEF There
    <3>3. Found(k + 1, w)
      BY <2>6, <3>1, <3>2 DEF Found
    <3> QED
      BY <3>3
  <2>9. CASE ~fields[k + 1].empty
    <3> HIDE DEF m
    <3>1. h[k + 1] = Append(h[k], fields[k + 1].number)
      BY <2>4, <2>9 DEF Pass
    <3>2. /\ h[k + 1] \in Seq(Nat)
          /\ Len(h[k + 1]) = m + 1
          /\ \A i \in 1..m : h[k + 1][i] = h[k][i]
          /\ h[k + 1][m + 1] = fields[k + 1].number
      <4>1. fields[k + 1].number \in Nat
        BY <2>5 DEF Fields
      <4> QED
        BY <2>6, <3>1, <4>1 DEF m
    <3>3. There(fields, k + 1) = There(fields, k) \cup {k + 1}
      <4>1. \A i \in 1..(k + 1) : i \in 1..k \/ i = k + 1
        OBVIOUS
      <4>2. \A i \in 1..k : i \in 1..(k + 1)
        OBVIOUS
      <4>3. k + 1 \in 1..(k + 1)
        OBVIOUS
      <4> QED
        BY <2>9, <4>1, <4>2, <4>3 DEF There
    <3>4. There(fields, k) \subseteq Nat /\ \A y \in There(fields, k) : y < k + 1
      BY DEF There
    <3>5. Enumerates(w, m, There(fields, k))
      BY <2>6 DEF m
    <3>6. PICK v : /\ Enumerates(v, m + 1, There(fields, k + 1))
                   /\ Continues(v, w, m, k + 1)
      <4>1. k + 1 \in Nat
        OBVIOUS
      <4> QED
        BY <2>7, <3>3, <3>4, <3>5, <4>1, EnumerateOneMore
    <3>7. \A i \in 1..(m + 1) : i \in 1..m \/ i = m + 1
      BY <2>7
    <3>8. \A i \in 1..(m + 1) : h[k + 1][i] = fields[v[i]].number
      <4>1. \A i \in 1..m : h[k + 1][i] = fields[v[i]].number
        BY <2>6, <3>2, <3>6 DEF m, Continues
      <4>2. h[k + 1][m + 1] = fields[v[m + 1]].number
        BY <3>2, <3>6 DEF Continues
      <4> QED
        BY <3>7, <4>1, <4>2
    <3>9. Found(k + 1, v)
      BY <3>2, <3>6, <3>8 DEF Found
    <3> QED
      BY <3>9
  <2> QED
    BY <2>8, <2>9
<1>5. Has(n)
  <2> HIDE DEF Has, n
  <2>1. n \in T
    <3> HIDE DEF T
    <3> QED
      BY <1>1, <1>3, <1>4, Induction
  <2> QED
    BY <2>1
<1>6. \E w : Found(n, w)
  <2> HIDE DEF Found
  <2>1. n =< n
    BY <1>1
  <2> QED
    BY <1>5, <2>1
<1> QED
  BY <1>2, <1>6

Byte == 0..255

\* Splitting a port leaves two numbers merge_port accepts, and gives it back.
LEMMA SplitMerge ==
    ASSUME NEW port \in Ports
    PROVE  /\ port \div 256 \in Byte
           /\ port % 256 \in Byte
           /\ MergePort(port \div 256, port % 256) = port
<1>1. port \in Int /\ 0 =< port /\ port < 256 * 256
  <2>1. PICK top : top = 256 * 256 - 1
    OBVIOUS
  <2>2. top \in Int
    BY <2>1
  <2>3. Ports = 0..top
    BY <2>1, Zenon DEF Ports
  <2>4. port \in Int /\ 0 =< port /\ port =< top
    BY <2>2, <2>3
  <2> QED
    BY <2>1, <2>4
<1> DEFINE high == port \div 256
<1> DEFINE low == port % 256
<1>2. high \in Int /\ low \in 0..255
  BY <1>1
<1>3. port = (256 * high) + low
  BY <1>1
<1> HIDE DEF high, low
<1>4. high \in 0..255
  BY <1>1, <1>2, <1>3
<1>5. (high * 256) + low = port
  BY <1>2, <1>3
<1>6. MergePort(high, low) = port
  BY <1>2, <1>4, <1>5 DEF MergePort
<1> QED
  BY <1>2, <1>4, <1>6 DEF high, low, Byte

\* Nothing is carried from one byte of an address to the next.
LEMMA BytesStay ==
    ASSUME NEW a, a[1] \in Byte, a[2] \in Byte, a[3] \in Byte, a[4] \in Byte
    PROVE  HostAddress(a) = <<a[1], a[2], a[3], a[4]>>
<1>1. \A b \in Byte : b \div 256 = 0 /\ b % 256 = b
  BY DEF Byte
<1>2. /\ a[4] \div 256 = 0
      /\ a[4] % 256 = a[4]
  BY <1>1
<1>3. /\ a[3] + 0 = a[3]
      /\ a[2] + 0 = a[2]
      /\ a[1] + 0 = a[1]
  BY DEF Byte
<1>4. (a[3] + a[4] \div 256) \div 256 = 0
  BY <1>1, <1>2, <1>3
<1>5. (a[2] + (a[3] + a[4] \div 256) \div 256) \div 256 = 0
  BY <1>1, <1>3, <1>4
<1> QED
  BY <1>1, <1>2, <1>3, <1>4, <1>5 DEF HostAddress

\* Two octets make a port of 16 bits.
LEMMA PortFits ==
    ASSUME NEW high \in Byte, NEW low \in Byte
    PROVE  (high * 256 + low) % (256 * 256) = high * 256 + low
<1> DEFINE port == high * 256 + low
<1>1. /\ high \in Int /\ 0 =< high /\ high =< 255
      /\ low \in Int /\ 0 =< low /\ low =< 255
  BY DEF Byte
<1>2. port \in Int /\ 0 =< port /\ port < 256 * 256
  BY <1>1
<1> HIDE DEF port
<1>3. port % (256 * 256) = port
  BY <1>2
<1> QED
  BY <1>3 DEF port

\* Six octets, by whichever command, are the address and the port they name.
THEOREM OctetsNamed ==
    ASSUME NEW n, \A i \in 1..6 : n[i] \in Byte
    PROVE  SockAddr(n) = [host |-> <<n[1], n[2], n[3], n[4]>>,
                          port |-> n[5] * 256 + n[6]]
<1>1. /\ n[1] \in Byte /\ n[2] \in Byte /\ n[3] \in Byte
      /\ n[4] \in Byte /\ n[5] \in Byte /\ n[6] \in Byte
  OBVIOUS
<1>2. HostAddress(n) = <<n[1], n[2], n[3], n[4]>>
  BY <1>1, BytesStay
<1>3. MergePort(n[5], n[6]) = n[5] * 256 + n[6]
  BY <1>1 DEF MergePort, Byte
<1>4. Htons(n[5] * 256 + n[6]) = n[5] * 256 + n[6]
  BY <1>1, PortFits DEF Htons
<1> QED
  BY <1>2, <1>3, <1>4 DEF SockAddr

\* The 227 names the port the server listens on, and the client reads it back.
LEMMA PasvNames ==
    ASSUME NEW port \in Ports
    PROVE  SockAddr(PasvReply(port)) = [host |-> Loopback, port |-> port]
<1> DEFINE n == PasvReply(port)
<1>1. n = <<127, 0, 0, 1, port \div 256, port % 256>>
  BY DEF PasvReply, Loopback, SplitPort
<1>2. /\ port \div 256 \in Byte
      /\ port % 256 \in Byte
      /\ ((port \div 256) * 256) + (port % 256) = port
  <2>1. MergePort(port \div 256, port % 256) = port
    BY SplitMerge
  <2> QED
    BY <2>1, SplitMerge DEF MergePort, Byte
<1>3. /\ n[1] = 127 /\ n[2] = 0 /\ n[3] = 0 /\ n[4] = 1
      /\ n[5] = port \div 256 /\ n[6] = port % 256
  BY <1>1
<1>4. \A i \in 1..6 : n[i] \in Byte
  <2>1. 127 \in Byte /\ 0 \in Byte /\ 1 \in Byte
    BY DEF Byte
  <2> QED
    BY <1>2, <1>3, <2>1
<1> HIDE DEF n
<1>5. SockAddr(n) = [host |-> <<127, 0, 0, 1>>, port |-> port]
  BY <1>2, <1>3, <1>4, OctetsNamed
<1> QED
  BY <1>5 DEF n, Loopback

\* The six numbers that are read are those of the fields that are not empty
\* (get_host_port to setup_active_data_socket).
LEMMA Aims == argument \in Seq(Fields) => PortAims
<1> SUFFICES ASSUME argument \in Seq(Fields)
             PROVE  PortAims
  OBVIOUS
<1> DEFINE there == There(argument, Len(argument))
<1>1. PICK numbers : numbers = FoldLeft(Pass, <<>>, argument)
  OBVIOUS
<1>2. numbers \in Seq(Nat)
  BY <1>1, PassesOver
<1>3. PICK w : /\ Enumerates(w, Len(numbers), there)
               /\ \A i \in 1..Len(numbers) : numbers[i] = argument[w[i]].number
  BY <1>1, PassesOver
<1>4. Given = numbers
  <2>1. there = {i \in DOMAIN argument : ~argument[i].empty}
    BY DEF There
  <2>2. there \subseteq Nat /\ Len(numbers) \in Nat
    BY <1>2 DEF There
  <2>3. Ascending(there) = w
    <3> HIDE DEF there
    <3> QED
      BY <1>3, <2>2, AscendingIs
  <2>4. DOMAIN w = 1..Len(numbers)
    BY <1>3 DEF Enumerates
  <2>5. Given = [i \in 1..Len(numbers) |-> argument[w[i]].number]
    <3> HIDE DEF there
    <3> QED
      BY <2>1, <2>3, <2>4 DEF Given
  <2>6. numbers = [i \in 1..Len(numbers) |-> numbers[i]]
    BY <1>2
  <2> QED
    BY <1>3, <2>5, <2>6
<1>5. Len(numbers) \in Nat
  BY <1>2
<1>6. CASE Len(numbers) < 6
  <2>1. GetHostPort(argument) = <<>>
    BY <1>1, <1>6 DEF GetHostPort
  <2>2. ~(Len(numbers) >= 6)
    BY <1>5, <1>6
  <2> QED
    BY <1>4, <1>6, <2>1, <2>2 DEF PortAims
<1>7. CASE ~(Len(numbers) < 6)
  <2> DEFINE six == SubSeq(numbers, 1, 6)
  <2>1. GetHostPort(argument) = six
    BY <1>1, <1>7 DEF GetHostPort
  <2>2. \A i \in 1..6 : i \in 1..Len(numbers)
    BY <1>5, <1>7
  <2>3. Len(six) = 6 /\ six \in Seq(Nat) /\ \A i \in 1..6 : six[i] = numbers[i]
    <3>1. \A i \in 1..6 : numbers[i] \in Nat
      BY <1>2, <2>2
    <3>2. /\ six \in Seq(Nat)
          /\ Len(six) = IF 1 =< 6 THEN 6 - 1 + 1 ELSE 0
          /\ \A i \in 1..(6 - 1 + 1) : six[i] = numbers[1 + i - 1]
      <4>1. 1 \in Int /\ 6 \in Int
        OBVIOUS
      <4> QED
        BY <3>1, <4>1, SubSeqProperties
    <3> HIDE DEF six
    <3>3. \A i \in 1..6 : 1 + i - 1 = i
      OBVIOUS
    <3> QED
      BY <3>2, <3>3
  <2>4. six # <<>>
    <3> HIDE DEF six
    <3>1. Len(six) # Len(<<>>)
      BY <2>3, EmptySeq
    <3> QED
      BY <3>1
  <2>5. ASSUME \A i \in 1..6 : numbers[i] \in 0..255
        PROVE  SockAddr(six) = [host |-> <<numbers[1], numbers[2], numbers[3], numbers[4]>>,
                                port |-> numbers[5] * 256 + numbers[6]]
    <3> HIDE DEF six
    <3>1. \A i \in 1..6 : six[i] \in Byte
      BY <2>3, <2>5 DEF Byte
    <3>2. /\ six[1] = numbers[1] /\ six[2] = numbers[2] /\ six[3] = numbers[3]
          /\ six[4] = numbers[4] /\ six[5] = numbers[5] /\ six[6] = numbers[6]
      BY <2>3
    <3> QED
      BY <3>1, <3>2, OctetsNamed
  <2> HIDE DEF six
  <2> QED
    BY <1>4, <1>7, <2>1, <2>4, <2>5 DEF PortAims
<1> QED
  BY <1>6, <1>7

\* What a PASV leaves behind: a port and the numbers made from it.
Announced == listening # NoPort => listening \in Ports /\ reply = PasvReply(listening)

\* The reply is written once, when the port is known.
LEMMA AnnouncedKept == PortSpec => []Announced
<1>1. PortInit => Announced
  BY DEF PortInit, Announced
<1>2. Announced /\ [PortNext]_portVars => Announced'
  <2> SUFFICES ASSUME Announced, [PortNext]_portVars
               PROVE  Announced'
    OBVIOUS
  <2>1. CASE Give
    BY <2>1 DEF Give, Announced
  <2>2. CASE Listen
    BY <2>2 DEF Listen, Announced
  <2>3. CASE UNCHANGED portVars
    BY <2>3 DEF portVars, Announced
  <2> QED
    BY <2>1, <2>2, <2>3 DEF PortNext
<1> QED
  BY <1>1, <1>2, PTL DEF PortSpec

\* Whichever port the kernel chooses, the 227 leads the client to it
\* (PassiveRoundTrip, from set_final_port to connect_data_socket).
THEOREM PassivePortFound == PortSpec => []PassiveRoundTrip
<1>1. Announced => PassiveRoundTrip
  BY PasvNames DEF Announced, PassiveRoundTrip
<1> QED
  BY <1>1, AnnouncedKept, PTL

\* An argument is a sequence of fields.
LEMMA FieldsKept == PortSpec => [](argument \in Seq(Fields))
<1>1. PortInit => argument \in Seq(Fields)
  BY DEF PortInit
<1>2. argument \in Seq(Fields) /\ [PortNext]_portVars => (argument \in Seq(Fields))'
  <2> SUFFICES ASSUME argument \in Seq(Fields), [PortNext]_portVars
               PROVE  argument' \in Seq(Fields)
    OBVIOUS
  <2>1. CASE Give
    <3>1. PICK field \in {NoField} \cup {Field(n) : n \in Numbers} :
            argument' = Append(argument, field)
      BY <2>1 DEF Give
    <3>2. field \in Fields
      <4>1. NoField \in Fields
        BY DEF NoField, Fields
      <4>2. \A n \in Numbers : Field(n) \in Fields
        BY NumbersAssumption DEF Field, Fields
      <4> QED
        BY <4>1, <4>2
    <3> QED
      BY <3>1, <3>2
  <2>2. CASE Listen
    BY <2>2 DEF Listen
  <2>3. CASE UNCHANGED portVars
    BY <2>3 DEF portVars
  <2> QED
    BY <2>1, <2>2, <2>3 DEF PortNext
<1> QED
  BY <1>1, <1>2, PTL DEF PortSpec

\* Of an argument of any length, with empty fields anywhere, a PORT of six octets makes
\* the server connect to the address and the port they name, and fewer than six numbers
\* are refused (PortAims, from get_host_port to setup_active_data_socket).
THEOREM PortArgumentAims == PortSpec => []PortAims
BY FieldsKept, Aims, PTL

=============================================================================
