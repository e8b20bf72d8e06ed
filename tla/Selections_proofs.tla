------------------------- MODULE Selections_proofs -------------------------
(***************************************************************************)
(* Facts about numbers and sequences that the proofs of several components *)
(* share.                                                                  *)
(***************************************************************************)
EXTENDS Selections, Integers, Sequences, SequenceTheorems, WellFoundedInduction, TLAPS

\* A non-empty set of naturals has a least element.
LEMMA LeastNat ==
  ASSUME NEW T \in SUBSET Nat, T # {}
  PROVE  \E m \in T : \A n \in T : m <= n
<1>1. \E m \in T : \A n \in T : <<n, m>> \notin OpToRel(<, Nat)
  BY WFMin, NatLessThanWellFounded
<1>2. \A m, n \in Nat : <<n, m>> \notin OpToRel(<, Nat) => m <= n
  BY DEF OpToRel
<1> QED BY <1>1, <1>2

\* The first n elements of a sequence.
LEMMA Prefix ==
  ASSUME NEW S, NEW s \in Seq(S), NEW n \in 0..Len(s)
  PROVE  /\ SubSeq(s, 1, n) \in Seq(S)
         /\ Len(SubSeq(s, 1, n)) = n
         /\ \A i \in 1..n : SubSeq(s, 1, n)[i] = s[i]
<1>1. Len(s) \in Nat
  OBVIOUS
<1>2. n \in Nat /\ n \in Int /\ 1 \in Int /\ \A i \in 1..n : s[i] \in S
  BY <1>1
<1>3. /\ SubSeq(s, 1, n) \in Seq(S)
      /\ Len(SubSeq(s, 1, n)) = IF 1 <= n THEN n - 1 + 1 ELSE 0
      /\ \A i \in 1..(n - 1 + 1) : SubSeq(s, 1, n)[i] = s[1 + i - 1]
  BY <1>2, SubSeqProperties
<1>4. Len(SubSeq(s, 1, n)) = n
  BY <1>2, <1>3
<1>5. ASSUME NEW i \in 1..n PROVE SubSeq(s, 1, n)[i] = s[i]
  <2>1. i \in 1..(n - 1 + 1) /\ 1 + i - 1 = i
    BY <1>2
  <2> QED BY <1>3, <2>1
<1> QED BY <1>3, <1>4, <1>5

LEMMA Appended ==
  ASSUME NEW S, NEW s \in Seq(S), NEW e \in S
  PROVE  /\ Append(s, e) \in Seq(S)
         /\ Len(Append(s, e)) = Len(s) + 1
         /\ \A i \in 1..Len(s) : Append(s, e)[i] = s[i]
         /\ Append(s, e)[Len(s) + 1] = e
OBVIOUS

-----------------------------------------------------------------------------
(* Recursion *)

\* A recursion that makes each value from the one before defines a function.
Iterated(T, n, first, step) ==
  \E f \in [1..(n + 1) -> T] : f[1] = first /\ \A i \in 1..n : f[i + 1] = step[i][f[i]]

LEMMA Iteration ==
  ASSUME NEW T, NEW n \in Nat, NEW first \in T, NEW step \in [1..n -> [T -> T]]
  PROVE  Iterated(T, n, first, step)
<1> USE DEF Iterated
<1> DEFINE Good(m) == Iterated(T, m, first, step)
           bad == {m \in 0..n : ~Good(m)}
<1> SUFFICES ASSUME ~Good(n) PROVE FALSE
  OBVIOUS
<1>1. n \in bad /\ bad \in SUBSET Nat
  OBVIOUS
<1> HIDE DEF bad
<1>2. PICK m \in bad : \A k \in bad : m <= k
  BY <1>1, LeastNat
<1>3. m \in 0..n /\ m \in Nat /\ ~Good(m)
  BY <1>2 DEF bad
<1>4. CASE m = 0
  <2> DEFINE f == [i \in 1..1 |-> first]
  <2>1. f \in [1..(0 + 1) -> T] /\ f[1] = first /\ \A i \in 1..0 : f[i + 1] = step[i][f[i]]
    OBVIOUS
  <2> QED BY <1>3, <1>4, <2>1
<1>5. CASE m # 0
  <2>1. PICK l \in Nat : m = l + 1 /\ l \in 0..n /\ l + 1 \in 1..n /\ ~(m <= l)
    BY <1>3, <1>5
  <2>2. Good(l)
    BY <1>2, <2>1 DEF bad
  <2>3. PICK f \in [1..(l + 1) -> T] : f[1] = first /\ \A i \in 1..l : f[i + 1] = step[i][f[i]]
    BY <2>2
  <2> DEFINE last == step[l + 1][f[l + 1]]
             g == [i \in 1..(m + 1) |-> IF i = m + 1 THEN last ELSE f[i]]
  <2>4. last \in T
    <3>1. f[l + 1] \in T /\ step[l + 1] \in [T -> T]
      BY <2>1, <2>3
    <3> QED BY <3>1
  <2> HIDE DEF last
  <2>5. \A i \in 1..(m + 1) : i = m + 1 \/ i \in 1..(l + 1)
    BY <2>1
  <2>6. g \in [1..(m + 1) -> T]
    BY <2>3, <2>4, <2>5
  <2>7. g[m + 1] = last /\ \A i \in 1..(l + 1) : g[i] = f[i]
    <3>1. m + 1 \in 1..(m + 1) /\ \A i \in 1..(l + 1) : i \in 1..(m + 1) /\ i # m + 1
      BY <2>1
    <3> QED BY <3>1
  <2> HIDE DEF g
  <2>8. ASSUME NEW i \in 1..m PROVE g[i + 1] = step[i][g[i]]
    <3>1. CASE i = m
      <4>1. i = l + 1 /\ i \in 1..(l + 1)
        BY <2>1, <3>1
      <4> QED BY <2>7, <3>1, <4>1 DEF last
    <3>2. CASE i # m
      <4>1. i \in 1..l /\ i \in 1..(l + 1) /\ i + 1 \in 1..(l + 1)
        BY <2>1, <3>2
      <4> QED BY <2>3, <2>7, <4>1
    <3> QED BY <3>1, <3>2
  <2>9. g[1] = first
    <3>1. 1 \in 1..(l + 1)
      OBVIOUS
    <3> QED BY <2>3, <2>7, <3>1
  <2> QED BY <1>3, <2>6, <2>8, <2>9
<1> QED BY <1>4, <1>5

-----------------------------------------------------------------------------
(* Selected *)

\* The recursion of Selected, up to m: what the loop has kept after i elements.
Grows(f, s, positions, m) ==
  /\ f[0] = <<>>
  /\ \A i \in 1..m :
       f[i] = IF i \in positions THEN Append(f[i - 1], s[i]) ELSE f[i - 1]

\* There is a function that grows so, whatever the length of s.
LEMMA Growing ==
  ASSUME NEW S, NEW n \in Nat, NEW s, \A i \in 1..n : s[i] \in S, NEW positions
  PROVE  \E f \in [0..n -> Seq(S)] : Grows(f, s, positions, n)
<1> DEFINE step == [i \in 1..n |-> [x \in Seq(S) |->
                      IF i \in positions THEN Append(x, s[i]) ELSE x]]
<1>1. step \in [1..n -> [Seq(S) -> Seq(S)]]
  <2>1. \A i \in 1..n, x \in Seq(S) : Append(x, s[i]) \in Seq(S)
    BY Appended
  <2> QED BY <2>1
<1>2. <<>> \in Seq(S)
  OBVIOUS
<1>3. \A i \in 1..n, x \in Seq(S) : step[i][x] = IF i \in positions THEN Append(x, s[i]) ELSE x
  OBVIOUS
<1> HIDE DEF step
<1>4. PICK g \in [1..(n + 1) -> Seq(S)] :
        g[1] = <<>> /\ \A i \in 1..n : g[i + 1] = step[i][g[i]]
  <2>1. Iterated(Seq(S), n, <<>>, step)
    BY <1>1, <1>2, Iteration
  <2> QED BY <2>1 DEF Iterated
<1> DEFINE f == [i \in 0..n |-> g[i + 1]]
<1>5. \A i \in 0..n : i + 1 \in 1..(n + 1)
  OBVIOUS
<1>6. f \in [0..n -> Seq(S)] /\ f[0] = <<>>
  BY ONLY n \in Nat, <1>4, <1>5
<1>7. \A i \in 1..n : f[i] = step[i][f[i - 1]] /\ f[i - 1] \in Seq(S)
  <2> SUFFICES ASSUME NEW i \in 1..n PROVE f[i] = step[i][f[i - 1]] /\ f[i - 1] \in Seq(S)
    OBVIOUS
  <2>1. i \in 0..n /\ i - 1 \in 0..n /\ i - 1 + 1 = i
    OBVIOUS
  <2> QED BY ONLY <1>4, <1>6, <2>1, i \in 1..n
<1>8. Grows(f, s, positions, n)
  BY ONLY <1>3, <1>6, <1>7 DEF Grows
<1> QED BY <1>6, <1>8

\* Two functions that grow so agree.
LEMMA GrowsOnce ==
  ASSUME NEW n \in Nat, NEW s, NEW positions, NEW f, NEW g,
         Grows(f, s, positions, n), Grows(g, s, positions, n)
  PROVE  \A i \in 0..n : f[i] = g[i]
<1> DEFINE bad == {i \in 0..n : f[i] # g[i]}
<1> SUFFICES ASSUME bad # {} PROVE FALSE
  OBVIOUS
<1>1. bad \in SUBSET Nat
  OBVIOUS
<1> HIDE DEF bad
<1>2. PICK i \in bad : \A k \in bad : i <= k
  BY <1>1, LeastNat
<1>3. i \in 0..n /\ f[i] # g[i] /\ \A k \in 0..n : k < i => f[k] = g[k]
  <2>1. i \in 0..n /\ f[i] # g[i] /\ \A k \in 0..n : f[k] # g[k] => k \in bad
    BY <1>2 DEF bad
  <2>2. \A k \in 0..n : k < i => ~(i <= k)
    BY <2>1
  <2> QED BY <1>2, <2>1, <2>2
<1>4. i # 0
  BY <1>3 DEF Grows
<1>5. i \in 1..n /\ i - 1 \in 0..n /\ i - 1 < i
  BY <1>3, <1>4
<1>6. f[i - 1] = g[i - 1]
  BY <1>3, <1>5
<1>7. /\ f[i] = IF i \in positions THEN Append(f[i - 1], s[i]) ELSE f[i - 1]
      /\ g[i] = IF i \in positions THEN Append(g[i - 1], s[i]) ELSE g[i - 1]
  BY <1>5 DEF Grows
<1> QED BY <1>3, <1>6, <1>7

\* Selected is the last value of such a function.
LastOfGrowing(S, s, positions, n) ==
  \E f \in [0..n -> Seq(S)] :
    Grows(f, s, positions, n) /\ Selected(s, positions) = f[n]

LEMMA SelectedGrows ==
  ASSUME NEW S, NEW s \in Seq(S), NEW positions
  PROVE  \A n \in Nat : n = Len(s) => LastOfGrowing(S, s, positions, n)
<1> SUFFICES ASSUME NEW n \in Nat, n = Len(s)
             PROVE  LastOfGrowing(S, s, positions, n)
  BY Zenon
<1>1. \A i \in 1..n : s[i] \in S
  OBVIOUS
<1>2. PICK f \in [0..n -> Seq(S)] : Grows(f, s, positions, n)
  BY ONLY n \in Nat, <1>1, Growing
<1> DEFINE Upto(g, i) == IF i = 0 THEN <<>>
                         ELSE IF i \in positions THEN Append(g[i - 1], s[i]) ELSE g[i - 1]
           upto == CHOOSE g : g = [i \in 0..n |-> Upto(g, i)]
<1>3. Selected(s, positions) = upto[n]
  BY Zenon DEF Selected
<1>4. \A i \in 0..n : f[i] = Upto(f, i)
  <2>1. \A i \in 0..n : i = 0 \/ i \in 1..n
    BY ONLY n \in Nat
  <2> QED BY ONLY <1>2, <2>1 DEF Grows
<1>5. f = [i \in 0..n |-> Upto(f, i)]
  BY ONLY <1>2, <1>4
<1>6. upto = [i \in 0..n |-> Upto(upto, i)]
  BY ONLY <1>5
<1> HIDE DEF upto
<1>7. Grows(upto, s, positions, n)
  <2>1. 0 \in 0..n /\ \A i \in 1..n : i \in 0..n /\ i # 0
    BY ONLY n \in Nat
  <2>2. \A i \in 0..n : upto[i] = Upto(upto, i)
    BY ONLY <1>6
  <2> QED BY ONLY <2>1, <2>2 DEF Grows
<1>8. n \in 0..n
  BY ONLY n \in Nat
<1>9. upto[n] = f[n]
  BY ONLY n \in Nat, <1>2, <1>7, <1>8, GrowsOnce
<1> QED BY <1>2, <1>3, <1>9, Zenon DEF LastOfGrowing

\* r is made of the first n elements of s at `positions': the k-th comes from
\* at[k], in the order of s, and none is left out.
Selects(at, r, s, positions, n) ==
  /\ at \in Seq(1..n) /\ Len(at) = Len(r)
  /\ \A k \in 1..Len(r) : r[k] = s[at[k]] /\ at[k] \in positions
  /\ \A i \in 1..n : i \in positions => \E k \in 1..Len(r) : at[k] = i
  /\ \A j, k \in 1..Len(r) : j < k => at[j] < at[k]

LEMMA SelectsNext ==
  ASSUME NEW S, NEW n \in Nat, NEW s, s[n + 1] \in S, NEW positions,
         NEW r \in Seq(S), NEW at, Selects(at, r, s, positions, n)
  PROVE  \E bt : Selects(bt, IF n + 1 \in positions THEN Append(r, s[n + 1]) ELSE r,
                         s, positions, n + 1)
<1>1. PICK l \in Nat : l = Len(r) /\ l = Len(at)
  <2>1. Len(r) \in Nat /\ Len(at) = Len(r)
    BY DEF Selects
  <2> QED BY ONLY <2>1, Zenon
<1>2. /\ at \in Seq(1..n)
      /\ \A k \in 1..l : r[k] = s[at[k]] /\ at[k] \in positions
      /\ \A i \in 1..n : i \in positions => \E k \in 1..l : at[k] = i
      /\ \A j, k \in 1..l : j < k => at[j] < at[k]
  BY <1>1, Zenon DEF Selects
<1>3. \A k \in 1..l : at[k] \in 1..n
  BY ONLY <1>1, <1>2
<1>4. \A i \in 1..(n + 1) : i \in 1..n \/ i = n + 1
  BY ONLY n \in Nat
<1>5. at \in Seq(1..(n + 1))
  <2>1. 1..n \subseteq 1..(n + 1)
    BY ONLY n \in Nat
  <2> QED BY ONLY <1>2, <2>1
<1>6. CASE n + 1 \notin positions
  <2>1. \A i \in 1..(n + 1) : i \in positions => \E k \in 1..l : at[k] = i
    BY ONLY <1>2, <1>4, <1>6
  <2>2. Selects(at, r, s, positions, n + 1)
    BY ONLY <1>1, <1>2, <1>5, <2>1, Zenon DEF Selects
  <2> QED BY <1>6, <2>2, Zenon
<1>7. CASE n + 1 \in positions
  <2>1. PICK q : q = Append(r, s[n + 1])
    OBVIOUS
  <2>2. PICK bt : bt = Append(at, n + 1)
    OBVIOUS
  <2>3. Len(q) = l + 1 /\ q[l + 1] = s[n + 1] /\ \A k \in 1..l : q[k] = r[k]
    <3>1. /\ Len(Append(r, s[n + 1])) = Len(r) + 1
          /\ \A k \in 1..Len(r) : Append(r, s[n + 1])[k] = r[k]
          /\ Append(r, s[n + 1])[Len(r) + 1] = s[n + 1]
      BY Appended
    <3> QED BY ONLY <1>1, <2>1, <3>1, Zenon
  <2>4. n + 1 \in 1..(n + 1)
    BY ONLY n \in Nat
  <2>5. /\ bt \in Seq(1..(n + 1)) /\ Len(bt) = l + 1 /\ bt[l + 1] = n + 1
        /\ \A k \in 1..l : bt[k] = at[k]
    BY ONLY <1>1, <1>5, <2>2, <2>4, Appended
  <2>6. /\ \A k \in 1..(l + 1) : k \in 1..l \/ k = l + 1
        /\ l + 1 \in 1..(l + 1) /\ \A k \in 1..l : k \in 1..(l + 1)
    BY ONLY l \in Nat
  <2>7. \A k \in 1..(l + 1) : q[k] = s[bt[k]] /\ bt[k] \in positions
    BY ONLY <1>2, <1>7, <2>3, <2>5, <2>6, Zenon
  <2>8. \A i \in 1..(n + 1) : i \in positions => \E k \in 1..(l + 1) : bt[k] = i
    BY ONLY <1>2, <1>4, <2>5, <2>6, Zenon
  <2>9. ASSUME NEW j \in 1..(l + 1), NEW k \in 1..(l + 1), j < k PROVE bt[j] < bt[k]
    <3>1. j \in 1..l
      BY ONLY l \in Nat, j \in 1..(l + 1), k \in 1..(l + 1), <2>9
    <3>2. CASE k \in 1..l
      BY ONLY <1>2, <2>5, <2>9, <3>1, <3>2
    <3>3. CASE k = l + 1
      <4>1. at[j] \in 1..n /\ bt[j] = at[j] /\ bt[k] = n + 1
        BY ONLY <1>3, <2>5, <3>1, <3>3, Zenon
      <4> QED BY ONLY n \in Nat, <4>1
    <3> QED BY <2>6, <3>2, <3>3, Zenon
  <2>10. Selects(bt, q, s, positions, n + 1)
    BY ONLY <2>3, <2>5, <2>7, <2>8, <2>9, Zenon DEF Selects
  <2> QED BY <1>7, <2>1, <2>10, Zenon
<1> QED BY <1>6, <1>7, Zenon

\* What Selected keeps: the elements at the given positions, all of them, in
\* the order of the sequence.
LEMMA SelectedOrder ==
  ASSUME NEW S, NEW s \in Seq(S), NEW positions
  PROVE  /\ Selected(s, positions) \in Seq(S)
         /\ \E at : Selects(at, Selected(s, positions), s, positions, Len(s))
<1>1. PICK n \in Nat : n = Len(s)
  OBVIOUS
<1>2. PICK f \in [0..n -> Seq(S)] : Grows(f, s, positions, n) /\ Selected(s, positions) = f[n]
  <2>1. LastOfGrowing(S, s, positions, n)
    BY <1>1, SelectedGrows
  <2> QED BY <2>1, Zenon DEF LastOfGrowing
<1>3. \A i \in 1..n : s[i] \in S
  BY <1>1
<1> DEFINE bad == {i \in 0..n : ~\E at : Selects(at, f[i], s, positions, i)}
<1>4. n \in 0..n /\ f[n] \in Seq(S)
  BY ONLY n \in Nat, <1>2
<1>5. bad = {}
  <2> SUFFICES ASSUME bad # {} PROVE FALSE
    OBVIOUS
  <2>1. bad \in SUBSET Nat
    BY ONLY n \in Nat
  <2> HIDE DEF bad
  <2>2. PICK i \in bad : \A k \in bad : i <= k
    BY <2>1, LeastNat
  <2>3. i \in 0..n /\ ~\E at : Selects(at, f[i], s, positions, i)
    BY ONLY <2>2 DEF bad
  <2>4. CASE i = 0
    <3>1. PICK at : at = << >>
      OBVIOUS
    <3>2. f[i] = << >>
      BY <1>2, <2>4 DEF Grows
    <3>3. at \in Seq(1..i) /\ Len(at) = 0 /\ 1..0 = {} /\ Len(<< >>) = 0
      BY ONLY <3>1
    <3>4. Selects(at, << >>, s, positions, 0)
      BY ONLY <2>4, <3>3, Zenon DEF Selects
    <3> QED BY ONLY <2>3, <2>4, <3>2, <3>4, Zenon
  <2>5. CASE i # 0
    <3>1. PICK m \in Nat : i = m + 1 /\ m \in 0..n /\ i \in 1..n /\ m = i - 1
      BY ONLY n \in Nat, <2>3, <2>5
    <3>2. m \notin bad
      BY <2>2, <3>1
    <3>3. PICK at : Selects(at, f[m], s, positions, m)
      BY ONLY <3>1, <3>2, Zenon DEF bad
    <3>4. f[i] = IF m + 1 \in positions THEN Append(f[m], s[m + 1]) ELSE f[m]
      BY ONLY <1>2, <3>1 DEF Grows
    <3>5. f[m] \in Seq(S) /\ s[m + 1] \in S
      BY ONLY <1>2, <1>3, <3>1
    <3>6. PICK r \in Seq(S) : r = f[m] /\ Selects(at, r, s, positions, m)
      BY ONLY <3>3, <3>5, Zenon
    <3>7. \E bt : Selects(bt, IF m + 1 \in positions THEN Append(r, s[m + 1]) ELSE r,
                          s, positions, m + 1)
      BY <3>5, <3>6, SelectsNext
    <3> QED BY ONLY <2>3, <3>1, <3>4, <3>6, <3>7, Zenon
  <2> QED BY <2>4, <2>5
<1>6. \E at : Selects(at, f[n], s, positions, n)
  BY <1>4, <1>5, Zenon
<1> QED BY <1>1, <1>2, <1>4, <1>6, Zenon

\* What Selected keeps, order aside.
LEMMA SelectedElements ==
  ASSUME NEW S, NEW s \in Seq(S), NEW positions
  PROVE  /\ Selected(s, positions) \in Seq(S)
         /\ \A k \in 1..Len(Selected(s, positions)) :
              \E i \in 1..Len(s) : i \in positions /\ Selected(s, positions)[k] = s[i]
         /\ \A i \in 1..Len(s) : i \in positions =>
              \E k \in 1..Len(Selected(s, positions)) : Selected(s, positions)[k] = s[i]
<1>1. PICK r \in Seq(S) : r = Selected(s, positions)
  BY SelectedOrder
<1>2. PICK at : Selects(at, r, s, positions, Len(s))
  BY <1>1, SelectedOrder
<1>3. \A k \in 1..Len(r) : at[k] \in 1..Len(s)
  <2>1. at \in Seq(1..Len(s)) /\ Len(at) = Len(r)
    BY <1>2, Zenon DEF Selects
  <2>2. \A k \in 1..Len(at) : at[k] \in 1..Len(s)
    BY ONLY <2>1
  <2> QED BY <2>1, <2>2, Zenon
<1>4. \A k \in 1..Len(r) : \E i \in 1..Len(s) : i \in positions /\ r[k] = s[i]
  BY <1>2, <1>3, Zenon DEF Selects
<1>5. \A i \in 1..Len(s) : i \in positions => \E k \in 1..Len(r) : r[k] = s[i]
  BY <1>2, Zenon DEF Selects
<1> QED BY <1>1, <1>4, <1>5, Zenon
=============================================================================
