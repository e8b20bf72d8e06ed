------------------------ MODULE CoverageSweep_proofs ------------------------
(***************************************************************************)
(* Proofs about the coverage sweep: the gate that compares its results with *)
(* the committed baselines, for any runtimes, classes and sizes, and the   *)
(* probes of the libclang whose answers it collects, for any translation   *)
(* units, types and limits, and whatever libclang is wrong about.          *)
(***************************************************************************)
EXTENDS CoverageGate, ClangProbes, Selections_proofs, FiniteSetTheorems, TLAPS

-----------------------------------------------------------------------------
(* The gate *)

\* The classification always names one of the five statuses of RANK, and the
\* sizes recorded with it are the ones it was given.
LEMMA EntryType ==
    ASSUME NEW exp \in MaybeSize, NEW act \in MaybeSize
    PROVE  EntryOf(exp, act) \in Entries
  BY DEF EntryOf, Entries, Status, Statuses

\* Regenerating baseline files keeps the shape of the baseline.
LEMMA RegenerateType ==
    ASSUME baseline \in [Keys -> Entries], NEW Rs \in SUBSET Runtimes,
           NEW asr \in [Keys -> MaybeSize], NEW lay \in [Keys -> MaybeSize]
    PROVE  Regenerate(Rs, asr, lay) \in [Keys -> Entries]
  BY EntryType DEF Regenerate

\* A class recorded byte-accurate that did not regress is still byte-accurate,
\* at the size recorded: RANK puts nothing above OK, and the size is compared.
LEMMA OkStaysOk ==
    ASSUME NEW base \in Entries, NEW new \in Entries,
           base.status = "OK", ~Regressed(base, new)
    PROVE  new.status = "OK" /\ new.actual = base.actual
  BY DEF Entries, Statuses, Regressed, LostAssert, Rank

\* A class that was compared with an assert and did not regress still is.
LEMMA CheckedStays ==
    ASSUME NEW base \in Entries, NEW new \in Entries,
           base.status \in {"MISMATCH", "OK"}, ~Regressed(base, new)
    PROVE  new.status \in {"MISMATCH", "OK"}
  BY DEF Entries, Statuses, Regressed, LostAssert, Rank

\* Every reachable state has the declared types: whatever is swept, mined and
\* committed, the baselines hold only entries that check_regression.py can rank.
THEOREM GateTypeCorrect == Spec => []TypeOK
<1>1. Init => TypeOK
  <2> SUFFICES ASSUME Init PROVE TypeOK
    OBVIOUS
  <2>1. baseline \in [Keys -> Entries]
    BY EntryType DEF Init, HeadSnapshot, Snapshot
  <2>2. QED
    BY <2>1 DEF Init, TypeOK
<1>2. TypeOK /\ [Next]_vars => TypeOK'
  <2> SUFFICES ASSUME TypeOK, [Next]_vars PROVE TypeOK'
    OBVIOUS
  <2>1. CASE Next
    <3>1. PICK lay \in [Keys -> MaybeSize], asr \in [Keys -> MaybeSize],
               Rs \in SUBSET Runtimes : Commit(lay, asr, Rs)
      BY <2>1 DEF Next
    <3>2. baseline' \in [Keys -> Entries]
      BY <3>1, RegenerateType DEF TypeOK, Commit
    <3>3. QED
      BY <3>1, <3>2 DEF TypeOK, Commit
  <2>2. CASE UNCHANGED vars
    BY <2>2 DEF TypeOK, vars
  <2>3. QED
    BY <2>1, <2>2
<1>3. QED
  BY <1>1, <1>2, PTL DEF Spec

\* A green verdict means that every VERIFIED stamp of an archive built from
\* HEAD is true, in every reachable state and whatever was pushed before.
THEOREM GreenAccurate == Spec => []GreenMeansAccurate
<1>1. TypeOK => GreenMeansAccurate
  <2> SUFFICES ASSUME TypeOK, HeadGreen,
                      NEW k \in Keys, baseline[k].status = "OK"
               PROVE  layout[k] = baseline[k].actual /\ asserts[k] = layout[k]
    BY DEF GreenMeansAccurate
  <2>1. HeadSnapshot[k] = EntryOf(asserts[k], layout[k])
    BY DEF HeadSnapshot, Snapshot
  <2>2. HeadSnapshot[k] \in Entries /\ baseline[k] \in Entries
    BY <2>1, EntryType DEF TypeOK
  <2>3. ~Regressed(baseline[k], HeadSnapshot[k])
    BY DEF HeadGreen, Green
  <2>4. HeadSnapshot[k].status = "OK" /\ HeadSnapshot[k].actual = baseline[k].actual
    BY <2>2, <2>3, OkStaysOk
  <2>5. Status(asserts[k], layout[k]) = "OK" /\ layout[k] = baseline[k].actual
    BY <2>1, <2>4 DEF EntryOf
  <2>6. asserts[k] = layout[k]
    BY <2>5 DEF Status
  <2>7. QED
    BY <2>5, <2>6
<1>2. QED
  BY <1>1, GateTypeCorrect, PTL

\* What a commit does to one key: nothing, nothing for the worse, or something
\* that the comparison with the replaced baseline lists.
LEMMA CommitStep ==
    ASSUME TypeOK, Next, NEW k \in Keys
    PROVE  /\ baseline[k] \in Entries /\ baseline'[k] \in Entries
           /\ \/ baseline'[k] = baseline[k]
              \/ ~Regressed(baseline[k], baseline'[k])
              \/ k \in accepted'
<1>1. PICK lay \in [Keys -> MaybeSize], asr \in [Keys -> MaybeSize],
           Rs \in SUBSET Runtimes : Commit(lay, asr, Rs)
  BY DEF Next
<1>2. baseline' = Regenerate(Rs, asr, lay) /\ baseline' \in [Keys -> Entries]
  BY <1>1, RegenerateType, Zenon DEF TypeOK, Commit
<1>3. CASE k[1] \in Rs
  <2>1. baseline'[k] = EntryOf(asr[k], lay[k])
    BY <1>2, <1>3 DEF Regenerate
  <2>2. k \in accepted' <=> Regressed(baseline[k], EntryOf(asr[k], lay[k]))
    BY <1>1, <1>3 DEF Commit
  <2>3. QED
    BY <1>2, <2>1, <2>2 DEF TypeOK
<1>4. CASE k[1] \notin Rs
  BY <1>2, <1>4 DEF Regenerate, TypeOK
<1>5. QED
  BY <1>3, <1>4

\* However baselines are regenerated, a class recorded MISMATCH or OK that loses
\* its static_assert is listed by the comparison, never taken for progress.
THEOREM CheckedForever == Spec => CheckedStaysChecked
<1>1. ASSUME TypeOK, Next, NEW k \in Keys,
             baseline[k].status \in {"MISMATCH", "OK"}
      PROVE  baseline'[k].status \in {"MISMATCH", "OK"} \/ k \in accepted'
  BY <1>1, CommitStep, CheckedStays
<1>2. TypeOK /\ [Next]_vars =>
        [\A k \in Keys : baseline[k].status \in {"MISMATCH", "OK"} =>
            baseline'[k].status \in {"MISMATCH", "OK"} \/ k \in accepted']_vars
  BY <1>1
<1>3. QED
  BY <1>2, GateTypeCorrect, PTL DEF Spec, CheckedStaysChecked

\* The gate implements the ratchet, whatever is committed, regenerated or pushed
\* red: no byte-accurate class is lost or resized without being listed.
THEOREM RatchetImplemented == Spec => ImplementsRatchet
<1>1. Ratchet!OneSizeEach
  BY DEF Ratchet!OneSizeEach, Verified
<1>2. Init => Ratchet!Init
  BY <1>1 DEF Init, Ratchet!Init, Verified
<1>3. TypeOK /\ TypeOK' /\ [Next]_vars => [Ratchet!Update]_<<Verified, accepted>>
  <2>1. CASE UNCHANGED vars
    BY <2>1 DEF vars, Verified
  <2>2. ASSUME TypeOK, TypeOK', Next PROVE Ratchet!Update
    <3>1. ASSUME NEW p \in Verified PROVE p \in Verified' \/ p[1] \in accepted'
      <4>1. PICK k \in Keys, s \in Sizes :
               p = <<k, s>> /\ baseline[k].status = "OK" /\ baseline[k].actual = s
        BY <3>1 DEF Verified
      <4>2. CASE k \in accepted'
        BY <4>1, <4>2
      <4>3. CASE k \notin accepted'
        <5>1. baseline'[k].status = "OK" /\ baseline'[k].actual = s
          BY <2>2, <4>1, <4>3, CommitStep, OkStaysOk
        <5>2. QED
          BY <4>1, <5>1 DEF Verified, Keys
      <4>4. QED
        BY <4>2, <4>3
    <3>2. Verified' \subseteq Keys \X Sizes
      BY DEF Verified, Keys
    <3>3. Ratchet!OneSizeEach'
      BY DEF Ratchet!OneSizeEach, Verified, Keys
    <3>4. accepted' \subseteq Keys
      BY <2>2 DEF TypeOK
    <3>5. QED
      BY <3>1, <3>2, <3>3, <3>4 DEF Ratchet!Update
  <2>3. QED
    BY <2>1, <2>2
<1>4. QED
  BY <1>2, <1>3, GateTypeCorrect, PTL DEF Spec, ImplementsRatchet, Ratchet!Spec

-----------------------------------------------------------------------------
(* FlattenSeq *)

\* r has the elements of ss[1], ..., ss[n]: the k-th comes from the place from[k],
\* no two come from the same place and no place is left out.
Parts(from, r, ss, n) ==
  /\ \A k \in 1..Len(r) : \E i \in 1..n : \E j \in 1..Len(ss[i]) :
       from[k] = <<i, j>> /\ r[k] = ss[i][j]
  /\ \A i \in 1..n : \A j \in 1..Len(ss[i]) : \E k \in 1..Len(r) : from[k] = <<i, j>>
  /\ \A k, l \in 1..Len(r) : from[k] = from[l] => k = l

\* One more list behind those already joined: its elements are the last parts.
LEMMA PartsNext ==
  ASSUME NEW S, NEW n \in Nat, NEW ss, ss[n + 1] \in Seq(S),
         NEW r \in Seq(S), NEW from, Parts(from, r, ss, n)
  PROVE  \E more : Parts(more, r \o ss[n + 1], ss, n + 1)
<1>1. PICK t \in Seq(S) : t = ss[n + 1]
  OBVIOUS
<1>2. PICK a \in Nat : a = Len(r)
  OBVIOUS
<1>3. PICK b \in Nat : b = Len(t)
  OBVIOUS
<1>4. PICK q : q = r \o t
  OBVIOUS
<1>5. /\ Len(q) = a + b
      /\ \A k \in 1..(a + b) : q[k] = IF k <= a THEN r[k] ELSE t[k - a]
  BY <1>2, <1>3, <1>4, ConcatProperties
<1>6. /\ \A k \in 1..a : \E i \in 1..n : \E j \in 1..Len(ss[i]) :
           from[k] = <<i, j>> /\ r[k] = ss[i][j]
      /\ \A i \in 1..n : \A j \in 1..Len(ss[i]) : \E k \in 1..a : from[k] = <<i, j>>
      /\ \A k, l \in 1..a : from[k] = from[l] => k = l
  BY <1>2, Zenon DEF Parts
<1> DEFINE more == [k \in 1..(a + b) |-> IF k <= a THEN from[k] ELSE <<n + 1, k - a>>]
<1>7. \A k \in 1..a : k \in 1..(a + b) /\ more[k] = from[k] /\ q[k] = r[k]
  BY ONLY <1>5, a \in Nat, b \in Nat
<1>8. \A j \in 1..b : a + j \in 1..(a + b) /\ more[a + j] = <<n + 1, j>> /\ q[a + j] = t[j]
  <2> SUFFICES ASSUME NEW j \in 1..b
               PROVE  a + j \in 1..(a + b) /\ more[a + j] = <<n + 1, j>> /\ q[a + j] = t[j]
    OBVIOUS
  <2>1. a + j \in 1..(a + b) /\ ~(a + j <= a) /\ a + j - a = j
    OBVIOUS
  <2>2. q[a + j] = t[a + j - a]
    BY ONLY <1>5, <2>1
  <2> QED BY ONLY <2>1, <2>2
<1>9. \A k \in 1..(a + b) : k \in 1..a \/ \E j \in 1..b : k = a + j
  <2> SUFFICES ASSUME NEW k \in 1..(a + b), k \notin 1..a PROVE \E j \in 1..b : k = a + j
    OBVIOUS
  <2>1. k - a \in 1..b /\ k = a + (k - a)
    OBVIOUS
  <2> QED BY ONLY <2>1, Zenon
<1> HIDE DEF more
<1>10. /\ \A i \in 1..(n + 1) : i \in 1..n \/ i = n + 1
       /\ \A i \in 1..n : i \in 1..(n + 1) /\ i # n + 1
       /\ n + 1 \in 1..(n + 1)
  BY ONLY n \in Nat
<1>11. ASSUME NEW k \in 1..(a + b)
       PROVE  \E i \in 1..(n + 1) : \E j \in 1..Len(ss[i]) : more[k] = <<i, j>> /\ q[k] = ss[i][j]
  <2>1. CASE k \in 1..a
    <3>1. PICK i \in 1..n : \E j \in 1..Len(ss[i]) : from[k] = <<i, j>> /\ r[k] = ss[i][j]
      BY <1>6, <2>1, Zenon
    <3>2. PICK j \in 1..Len(ss[i]) : from[k] = <<i, j>> /\ r[k] = ss[i][j]
      BY <3>1
    <3>3. i \in 1..(n + 1) /\ more[k] = <<i, j>> /\ q[k] = ss[i][j]
      BY ONLY <1>7, <1>10, <2>1, <3>2, i \in 1..n
    <3> QED BY ONLY <3>3, j \in 1..Len(ss[i])
  <2>2. CASE \E j \in 1..b : k = a + j
    BY ONLY <1>1, <1>3, <1>8, <1>10, <2>2, Zenon
  <2> QED BY <1>9, <2>1, <2>2, Zenon
<1>12. ASSUME NEW i \in 1..(n + 1), NEW j \in 1..Len(ss[i])
       PROVE  \E k \in 1..(a + b) : more[k] = <<i, j>>
  <2>1. CASE i \in 1..n
    <3>1. PICK k \in 1..a : from[k] = <<i, j>>
      BY ONLY <1>6, <2>1, j \in 1..Len(ss[i]), Zenon
    <3> QED BY ONLY <1>7, <3>1, k \in 1..a, Zenon
  <2>2. CASE i = n + 1
    BY ONLY <1>1, <1>3, <1>8, <2>2, Zenon
  <2> QED BY <1>10, <2>1, <2>2, Zenon
<1>13. ASSUME NEW k \in 1..a, NEW j \in 1..b, more[k] = more[a + j] PROVE FALSE
  <2>1. PICK i \in 1..n : \E m \in 1..Len(ss[i]) : from[k] = <<i, m>>
    BY ONLY <1>6, k \in 1..a, Zenon
  <2>2. PICK m \in 1..Len(ss[i]) : from[k] = <<i, m>>
    BY <2>1
  <2>3. <<i, m>> = <<n + 1, j>>
    BY ONLY <1>7, <1>8, <1>13, <2>2, j \in 1..b, k \in 1..a, Zenon
  <2>4. i = n + 1
    BY ONLY <2>3
  <2> QED BY ONLY <1>10, <2>4
<1>14. ASSUME NEW j \in 1..b, NEW m \in 1..b, more[a + j] = more[a + m] PROVE a + j = a + m
  <2>1. <<n + 1, j>> = <<n + 1, m>>
    BY ONLY <1>8, <1>14, j \in 1..b, m \in 1..b, Zenon
  <2> QED BY ONLY <2>1
<1>15. ASSUME NEW k \in 1..(a + b), NEW l \in 1..(a + b), more[k] = more[l] PROVE k = l
  <2>1. CASE k \in 1..a /\ l \in 1..a
    BY ONLY <1>6, <1>7, <1>15, <2>1, Zenon
  <2>2. CASE k \in 1..a /\ l \notin 1..a
    BY ONLY <1>9, <1>13, <1>15, <2>2, Zenon
  <2>3. CASE k \notin 1..a /\ l \in 1..a
    BY ONLY <1>9, <1>13, <1>15, <2>3, Zenon
  <2>4. CASE k \notin 1..a /\ l \notin 1..a
    <3>1. PICK j \in 1..b : k = a + j
      BY <1>9, <2>4
    <3>2. PICK m \in 1..b : l = a + m
      BY <1>9, <2>4
    <3> QED BY ONLY <1>14, <1>15, <3>1, <3>2, Zenon
  <2> QED BY <2>1, <2>2, <2>3, <2>4, Zenon
<1>16. Parts(more, q, ss, n + 1)
  <2>1. Len(q) = a + b
    BY <1>5
  <2>2. \A k \in 1..(a + b) : \E i \in 1..(n + 1) : \E j \in 1..Len(ss[i]) :
          more[k] = <<i, j>> /\ q[k] = ss[i][j]
    BY ONLY <1>11, Zenon
  <2>3. \A i \in 1..(n + 1) : \A j \in 1..Len(ss[i]) : \E k \in 1..(a + b) : more[k] = <<i, j>>
    BY ONLY <1>12, Zenon
  <2>4. \A k, l \in 1..(a + b) : more[k] = more[l] => k = l
    BY ONLY <1>15, Zenon
  <2> QED BY ONLY <2>1, <2>2, <2>3, <2>4, Zenon DEF Parts
<1> QED BY <1>1, <1>4, <1>16, Zenon

\* FlattenSeq puts the sequences one behind the other: it has all their elements,
\* each place's once, and nothing else.
LEMMA Flattened ==
  ASSUME NEW S, NEW ss \in Seq(Seq(S))
  PROVE  /\ FlattenSeq(ss) \in Seq(S)
         /\ \E from : Parts(from, FlattenSeq(ss), ss, Len(ss))
<1>1. PICK n \in Nat : n = Len(ss)
  OBVIOUS
<1>2. \A i \in 1..n : ss[i] \in Seq(S)
  BY <1>1
<1>3. CASE n = 0
  <2>1. ss = << >> /\ Len(ss) = 0 /\ 1..0 = {} /\ Len(<< >>) = 0
    <3>1. ss = << >>
      BY <1>1, <1>3, EmptySeq, Zenon
    <3>2. 1..0 = {} /\ Len(<< >>) = 0
      OBVIOUS
    <3> QED BY ONLY <3>1, <3>2, Zenon
  <2>2. FlattenSeq(ss) = ss
    BY ONLY <2>1, Zenon DEF FlattenSeq
  <2>3. FlattenSeq(ss) = ss /\ ss = << >> /\ Len(ss) = 0 /\ 1..0 = {} /\ Len(<< >>) = 0
    BY <2>1, <2>2
  <2>4. Parts(<< >>, << >>, ss, 0)
    BY ONLY <2>3, Zenon DEF Parts
  <2>5. << >> \in Seq(S)
    OBVIOUS
  <2> QED BY ONLY <2>3, <2>4, <2>5, Zenon
<1>4. CASE n # 0
  <2> DEFINE step == [i \in 1..n |-> [x \in Seq(S) |-> x \o ss[i]]]
             Flat(f, i) == IF i = 1 THEN ss[i] ELSE f[i - 1] \o ss[i]
             flatten == CHOOSE f : f = [i \in 1..n |-> Flat(f, i)]
  <2>1. step \in [1..n -> [Seq(S) -> Seq(S)]]
    <3>1. \A i \in 1..n, x \in Seq(S) : x \o ss[i] \in Seq(S)
      BY <1>2, ConcatProperties
    <3> QED BY <3>1
  <2>2. \A i \in 1..n, x \in Seq(S) : step[i][x] = x \o ss[i]
    OBVIOUS
  <2> HIDE DEF step
  <2>3. Iterated(Seq(S), n, << >>, step)
    <3>1. << >> \in Seq(S)
      OBVIOUS
    <3> QED BY <2>1, <3>1, Iteration, Zenon
  <2>4. PICK g \in [1..(n + 1) -> Seq(S)] : g[1] = << >> /\ \A i \in 1..n : g[i + 1] = step[i][g[i]]
    BY <2>3, Zenon DEF Iterated
  <2> DEFINE f == [i \in 1..n |-> g[i + 1]]
  <2>5. \A i \in 1..n : f[i] = Flat(f, i)
    <3> SUFFICES ASSUME NEW i \in 1..n PROVE f[i] = Flat(f, i)
      OBVIOUS
    <3>1. g[i] \in Seq(S) /\ f[i] = g[i] \o ss[i]
      <4>1. i \in 1..(n + 1)
        OBVIOUS
      <4> QED BY <2>2, <2>4, <4>1, Zenon
    <3>2. CASE i = 1
      <4>1. << >> \o ss[i] = ss[i]
        BY <1>2, ConcatEmptySeq
      <4> QED BY ONLY <2>4, <3>1, <3>2, <4>1, Zenon
    <3>3. CASE i # 1
      <4>1. i - 1 \in 1..n /\ i - 1 + 1 = i
        BY <3>3
      <4> QED BY ONLY <3>1, <3>3, <4>1, Zenon
    <3> QED BY <3>2, <3>3
  <2>6. f = [i \in 1..n |-> Flat(f, i)]
    BY ONLY <2>5, Zenon
  <2> HIDE DEF f
  <2>7. flatten = [i \in 1..n |-> Flat(flatten, i)]
    BY ONLY <2>6
  <2>8. FlattenSeq(ss) = flatten[n]
    BY <1>1, <1>4, Zenon DEF FlattenSeq
  <2> HIDE DEF flatten
  <2>9. flatten[1] = ss[1] /\ \A i \in 1..n : i # 1 => flatten[i] = flatten[i - 1] \o ss[i]
    <3>1. 1 \in 1..n
      BY ONLY n \in Nat, <1>4
    <3> QED BY ONLY <2>7, <3>1, Zenon
  <2> DEFINE Good(i) == flatten[i] \in Seq(S) /\ \E from : Parts(from, flatten[i], ss, i)
             bad == {i \in 1..n : ~Good(i)}
  <2>10. Good(1)
    <3>1. ss[1] \in Seq(S) /\ ss[0 + 1] = ss[1] /\ << >> \in Seq(S)
      BY <1>2, <1>4
    <3>2. Parts(<< >>, << >>, ss, 0)
      <4>1. Len(<< >>) = 0 /\ 1..0 = {}
        OBVIOUS
      <4> QED BY ONLY <4>1, Zenon DEF Parts
    <3>3. \E more : Parts(more, << >> \o ss[0 + 1], ss, 0 + 1)
      <4>1. ss[0 + 1] \in Seq(S)
        BY <3>1
      <4>2. 0 \in Nat
        OBVIOUS
      <4> QED BY <3>1, <3>2, <4>1, <4>2, PartsNext, Zenon
    <3>4. << >> \o ss[0 + 1] = flatten[1] /\ 0 + 1 = 1
      BY <2>9, <3>1, ConcatEmptySeq
    <3> QED BY ONLY <2>9, <3>1, <3>3, <3>4
  <2>11. bad = {}
    <3> SUFFICES ASSUME bad # {} PROVE FALSE
      OBVIOUS
    <3>1. bad \in SUBSET Nat
      OBVIOUS
    <3> HIDE DEF bad
    <3>2. PICK i \in bad : \A k \in bad : i <= k
      BY <3>1, LeastNat, Zenon
    <3>3. i \in 1..n /\ ~Good(i)
      BY ONLY <3>2 DEF bad
    <3>4. i # 1
      BY <2>10, <3>3
    <3>5. PICK m \in 1..n : i = m + 1 /\ m = i - 1 /\ m \in Nat /\ ~(i <= m)
      BY <3>3, <3>4
    <3>6. Good(m)
      BY <3>2, <3>5, Zenon DEF bad
    <3>7. PICK r \in Seq(S) : r = flatten[m]
      BY <3>6
    <3>8. PICK from : Parts(from, r, ss, m)
      BY ONLY <3>6, <3>7, Zenon
    <3>9. ss[m + 1] \in Seq(S) /\ flatten[i] = r \o ss[m + 1]
      BY ONLY <1>2, <2>9, <3>3, <3>4, <3>5, <3>7, Zenon
    <3>10. \E more : Parts(more, r \o ss[m + 1], ss, m + 1)
      BY <3>5, <3>8, <3>9, PartsNext, Zenon
    <3>11. r \o ss[m + 1] \in Seq(S)
      BY <3>9, ConcatProperties
    <3> QED BY ONLY <3>3, <3>5, <3>9, <3>10, <3>11, Zenon
  <2>12. n \in 1..n
    BY ONLY n \in Nat, <1>4
  <2>13. Good(n)
    BY ONLY <2>11, <2>12, Zenon
  <2> QED BY ONLY <1>1, <2>8, <2>13, Zenon
<1> QED BY <1>3, <1>4

-----------------------------------------------------------------------------
(* Sugar *)

\* The same step taken n times.
Repeats(T, n, first, step) ==
  \E f \in [0..n -> T] : f[0] = first /\ \A i \in 1..n : f[i] = step[f[i - 1]]

\* The function that starts with `first' and goes on with `step' exists.
LEMMA Repeated ==
  ASSUME NEW T, NEW n \in Nat, NEW first \in T, NEW step \in [T -> T]
  PROVE  Repeats(T, n, first, step)
<1> DEFINE steps == [i \in 1..n |-> step]
<1>1. steps \in [1..n -> [T -> T]] /\ \A i \in 1..n : steps[i] = step
  OBVIOUS
<1> HIDE DEF steps
<1>2. Iterated(T, n, first, steps)
  BY <1>1, Iteration
<1>3. PICK g \in [1..(n + 1) -> T] : g[1] = first /\ \A i \in 1..n : g[i + 1] = steps[i][g[i]]
  BY <1>2 DEF Iterated
<1> DEFINE f == [i \in 0..n |-> g[i + 1]]
<1>4. \A i \in 0..n : i + 1 \in 1..(n + 1)
  OBVIOUS
<1>5. f \in [0..n -> T] /\ f[0] = first
  BY ONLY n \in Nat, <1>3, <1>4
<1>6. \A i \in 1..n : f[i] = step[f[i - 1]]
  <2> SUFFICES ASSUME NEW i \in 1..n PROVE f[i] = step[f[i - 1]]
    OBVIOUS
  <2>1. i \in 0..n /\ i - 1 \in 0..n /\ i - 1 + 1 = i
    OBVIOUS
  <2> QED BY ONLY <1>1, <1>3, <2>1, i \in 1..n
<1> HIDE DEF f
<1> QED BY <1>5, <1>6 DEF Repeats

\* Taking off the layers of t, one at a time, as long as there is one below.
Peels(off, t) ==
  /\ off[0] = t
  /\ \A n \in 1..MaxLayers :
       off[n] = IF Info[off[n - 1]].below = NoType THEN off[n - 1] ELSE Info[off[n - 1]].below

\* What is left of a type is what the loop leaves after MaxLayers turns.
LEMMA UnwrappedPeels ==
  ASSUME NEW t \in Types
  PROVE  \E off \in [0..MaxLayers -> Types] : Peels(off, t) /\ Unwrapped(t) = off[MaxLayers]
<1>1. PICK m \in Nat : m = MaxLayers
  BY InputsAssumption
<1> DEFINE step == [s \in Types |-> IF Info[s].below = NoType THEN s ELSE Info[s].below]
           Off(f, n) == IF n = 0 THEN t
                        ELSE IF Info[f[n - 1]].below = NoType THEN f[n - 1] ELSE Info[f[n - 1]].below
           off == CHOOSE f : f = [n \in 0..m |-> Off(f, n)]
<1>2. step \in [Types -> Types]
  BY InputsAssumption
<1>3. \A s \in Types : step[s] = IF Info[s].below = NoType THEN s ELSE Info[s].below
  OBVIOUS
<1> HIDE DEF step
<1>4. PICK f \in [0..m -> Types] : f[0] = t /\ \A n \in 1..m : f[n] = step[f[n - 1]]
  <2>1. Repeats(Types, m, t, step)
    BY ONLY <1>2, m \in Nat, t \in Types, Repeated
  <2> QED BY ONLY <2>1 DEF Repeats
<1>5. \A n \in 0..m : f[n] = Off(f, n)
  <2> SUFFICES ASSUME NEW n \in 0..m PROVE f[n] = Off(f, n)
    OBVIOUS
  <2>1. CASE n = 0
    BY <1>4, <2>1
  <2>2. CASE n # 0
    <3>1. n \in 1..m /\ n - 1 \in 0..m
      BY <2>2
    <3> QED BY ONLY <1>3, <1>4, <2>2, <3>1
  <2> QED BY <2>1, <2>2
<1>6. f = [n \in 0..m |-> Off(f, n)]
  BY ONLY <1>4, <1>5
<1>7. off = [n \in 0..m |-> Off(off, n)]
  BY ONLY <1>6
<1>8. Unwrapped(t) = off[m]
  BY <1>1, Zenon DEF Unwrapped
<1> HIDE DEF off
<1>9. off[0] = t /\ \A n \in 1..m : off[n] =
        IF Info[off[n - 1]].below = NoType THEN off[n - 1] ELSE Info[off[n - 1]].below
  <2>1. 0 \in 0..m /\ \A n \in 1..m : n \in 0..m /\ n # 0
    OBVIOUS
  <2> QED BY ONLY <1>7, <2>1
<1>10. \A n \in 0..m : off[n] \in Types
  <2> DEFINE bad == {n \in 0..m : off[n] \notin Types}
  <2> SUFFICES ASSUME bad # {} PROVE FALSE
    OBVIOUS
  <2>1. bad \in SUBSET Nat
    OBVIOUS
  <2> HIDE DEF bad
  <2>2. PICK n \in bad : \A k \in bad : n <= k
    BY <2>1, LeastNat
  <2>3. n \in 0..m /\ off[n] \notin Types
    BY ONLY <2>2 DEF bad
  <2>4. n # 0
    BY <1>9, <2>3
  <2>5. PICK k \in 0..m : k = n - 1 /\ n \in 1..m /\ ~(n <= k)
    BY <2>3, <2>4
  <2>6. off[k] \in Types
    BY <2>2, <2>5 DEF bad
  <2> QED BY <1>9, <2>3, <2>5, <2>6, InputsAssumption, Zenon
<1>11. off \in [0..m -> Types]
  BY ONLY <1>7, <1>10
<1> QED BY ONLY <1>1, <1>8, <1>9, <1>11 DEF Peels

\* The types n layers of sugar below t, up to one more than are taken off.
Descends(depth, t) ==
  /\ depth[0] = {t}
  /\ \A n \in 1..(MaxLayers + 1) :
       depth[n] = {Info[s].below : s \in depth[n - 1] \ {NoType}} \ {NoType}

\* The types under a type, layer by layer.
LEMMA LayersDescend ==
  ASSUME NEW t \in Types
  PROVE  \E depth : Descends(depth, t) /\ Layers(t) = depth[MaxLayers + 1]
<1>1. PICK m \in Nat : m = MaxLayers + 1
  BY InputsAssumption
<1> DEFINE below(T) == {Info[s].below : s \in T \ {NoType}} \ {NoType}
           step == [T \in SUBSET Types |-> below(T)]
           At(f, n) == IF n = 0 THEN {t} ELSE {Info[s].below : s \in f[n - 1] \ {NoType}} \ {NoType}
           depth == CHOOSE f : f = [n \in 0..m |-> At(f, n)]
<1>2. step \in [SUBSET Types -> SUBSET Types]
  <2>1. \A T \in SUBSET Types : below(T) \in SUBSET Types
    BY InputsAssumption
  <2> HIDE DEF below
  <2> QED BY <2>1
<1>3. \A T \in SUBSET Types : step[T] = below(T)
  OBVIOUS
<1> HIDE DEF step
<1>4. PICK f \in [0..m -> SUBSET Types] : f[0] = {t} /\ \A n \in 1..m : f[n] = step[f[n - 1]]
  <2>1. {t} \in SUBSET Types
    OBVIOUS
  <2>2. Repeats(SUBSET Types, m, {t}, step)
    BY ONLY <1>2, <2>1, m \in Nat, Repeated
  <2> QED BY ONLY <2>2 DEF Repeats
<1>5. \A n \in 0..m : f[n] = At(f, n)
  <2> SUFFICES ASSUME NEW n \in 0..m PROVE f[n] = At(f, n)
    OBVIOUS
  <2>1. CASE n = 0
    BY <1>4, <2>1
  <2>2. CASE n # 0
    <3>1. n \in 1..m /\ n - 1 \in 0..m
      BY <2>2
    <3>2. f[n] = below(f[n - 1])
      BY ONLY <1>3, <1>4, <3>1
    <3> QED BY ONLY <2>2, <3>2, Zenon
  <2> QED BY <2>1, <2>2
<1>6. f = [n \in 0..m |-> At(f, n)]
  BY ONLY <1>4, <1>5
<1>7. depth = [n \in 0..m |-> At(depth, n)]
  BY ONLY <1>6, Zenon
<1>8. Layers(t) = depth[m]
  BY <1>1, Zenon DEF Layers
<1> HIDE DEF depth
<1>9. depth[0] = {t} /\ \A n \in 1..m : depth[n] =
        {Info[s].below : s \in depth[n - 1] \ {NoType}} \ {NoType}
  <2>1. 0 \in 0..m /\ \A n \in 1..m : n \in 0..m /\ n # 0
    OBVIOUS
  <2> QED BY ONLY <1>7, <2>1
<1> QED BY ONLY <1>1, <1>8, <1>9 DEF Descends

\* A type with no more layers than are taken off loses all of them.
LEMMA NoLayerLeft ==
  ASSUME NEW t \in Types
  PROVE  /\ Unwrapped(t) \in Types
         /\ Layers(t) = {} => Info[Unwrapped(t)].below = NoType
<1>1. PICK m \in Nat : m = MaxLayers
  BY InputsAssumption
<1>2. PICK off \in [0..m -> Types] : Peels(off, t) /\ Unwrapped(t) = off[m]
  BY <1>1, UnwrappedPeels
<1>3. PICK depth : Descends(depth, t) /\ Layers(t) = depth[m + 1]
  BY <1>1, LayersDescend
<1>4. /\ off[0] = t
      /\ \A n \in 1..m : off[n] =
           IF Info[off[n - 1]].below = NoType THEN off[n - 1] ELSE Info[off[n - 1]].below
  BY <1>1, <1>2 DEF Peels
<1>5. /\ depth[0] = {t}
      /\ \A n \in 1..(m + 1) : depth[n] = {Info[s].below : s \in depth[n - 1] \ {NoType}} \ {NoType}
  BY <1>1, <1>3 DEF Descends
<1> DEFINE Good(n) == Info[off[n]].below = NoType \/ depth[n] = {off[n]}
           bad == {n \in 0..m : ~Good(n)}
<1>6. bad = {}
  <2> SUFFICES ASSUME bad # {} PROVE FALSE
    OBVIOUS
  <2>1. bad \in SUBSET Nat
    OBVIOUS
  <2> HIDE DEF bad
  <2>2. PICK n \in bad : \A k \in bad : n <= k
    BY <2>1, LeastNat
  <2>3. n \in 0..m /\ ~Good(n)
    BY ONLY <2>2 DEF bad
  <2>4. n # 0
    BY <1>4, <1>5, <2>3
  <2>5. PICK k \in 0..m : k = n - 1 /\ n \in 1..m /\ n \in 1..(m + 1) /\ ~(n <= k)
    BY <2>3, <2>4
  <2>6. Good(k)
    BY <2>2, <2>5 DEF bad
  <2>7. CASE Info[off[k]].below = NoType
    BY <1>4, <2>3, <2>5, <2>7
  <2>8. CASE Info[off[k]].below # NoType
    <3>1. off[n] = Info[off[k]].below /\ off[k] \in Types /\ depth[k] = {off[k]}
      BY <1>2, <1>4, <2>5, <2>6, <2>8
    <3>2. depth[n] = {Info[s].below : s \in {off[k]} \ {NoType}} \ {NoType}
      BY <1>5, <2>5, <3>1
    <3>3. off[k] # NoType
      BY <3>1, InputsAssumption
    <3>4. depth[n] = {Info[off[k]].below}
      BY ONLY <2>8, <3>2, <3>3, Zenon
    <3> QED BY <2>3, <3>1, <3>4
  <2> QED BY <2>7, <2>8
<1>7. m \in 0..m /\ m + 1 \in 1..(m + 1) /\ m + 1 - 1 = m
  OBVIOUS
<1>8. off[m] \in Types /\ off[m] # NoType
  BY <1>2, <1>7, InputsAssumption
<1>9. ASSUME Layers(t) = {}, Info[off[m]].below # NoType PROVE FALSE
  <2>1. depth[m] = {off[m]}
    BY <1>6, <1>7, <1>9
  <2>2. depth[m + 1] = {Info[s].below : s \in {off[m]} \ {NoType}} \ {NoType}
    BY ONLY <1>5, <1>7, <2>1
  <2>3. Info[off[m]].below \in depth[m + 1]
    BY ONLY <1>8, <1>9, <2>2, Zenon
  <2> QED BY <1>3, <1>9, <2>3
<1> QED BY <1>2, <1>8, <1>9

-----------------------------------------------------------------------------
(* Questions *)

\* A function from 1..n is a sequence of length n.
LEMMA SequenceOf ==
  ASSUME NEW S, NEW n \in Nat, NEW f \in [1..n -> S]
  PROVE  f \in Seq(S) /\ Len(f) = n
<1>1. f \in Seq(S)
  BY SeqDef
<1>2. DOMAIN f = 1..n /\ DOMAIN f = 1..Len(f) /\ Len(f) \in Nat
  BY <1>1, LenProperties
<1> QED BY <1>1, <1>2

\* Two lists, one behind the other: every element of either is in the whole.
LEMMA Joined ==
  ASSUME NEW S, NEW s \in Seq(S), NEW t \in Seq(S)
  PROVE  /\ s \o t \in Seq(S)
         /\ \A i \in 1..Len(s) : \E j \in 1..Len(s \o t) : (s \o t)[j] = s[i]
         /\ \A i \in 1..Len(t) : \E j \in 1..Len(s \o t) : (s \o t)[j] = t[i]
<1>1. PICK a \in Nat : a = Len(s)
  OBVIOUS
<1>2. PICK b \in Nat : b = Len(t)
  OBVIOUS
<1>3. PICK q \in Seq(S) : q = s \o t
  BY ConcatProperties, Zenon
<1>4. Len(q) = a + b /\ \A i \in 1..(a + b) : q[i] = IF i <= a THEN s[i] ELSE t[i - a]
  BY <1>1, <1>2, <1>3, ConcatProperties
<1>5. \A i \in 1..a : i \in 1..(a + b) /\ q[i] = s[i]
  BY ONLY <1>4, a \in Nat, b \in Nat
<1>6. ASSUME NEW i \in 1..b PROVE a + i \in 1..(a + b) /\ q[a + i] = t[i]
  <2>1. a + i \in 1..(a + b) /\ ~(a + i <= a) /\ a + i - a = i
    OBVIOUS
  <2> QED BY ONLY <1>4, <2>1
<1>7. /\ \A i \in 1..a : \E j \in 1..(a + b) : q[j] = s[i]
      /\ \A i \in 1..b : \E j \in 1..(a + b) : q[j] = t[i]
  BY ONLY <1>5, <1>6, Zenon
<1> QED BY ONLY <1>1, <1>2, <1>3, <1>4, <1>7, Zenon

\* Every element of the first n sequences is one of q.
HasAll(q, ss, n) ==
  \A i \in 1..n : \A j \in 1..Len(ss[i]) : \E k \in 1..Len(q) : q[k] = ss[i][j]

\* FlattenSeq leaves out no element of the sequences.
LEMMA FlattenedElements ==
  ASSUME NEW S, NEW n \in Nat, NEW ss \in [1..n -> Seq(S)]
  PROVE  FlattenSeq(ss) \in Seq(S) /\ HasAll(FlattenSeq(ss), ss, n)
<1>1. ss \in Seq(Seq(S)) /\ Len(ss) = n
  BY SequenceOf
<1>2. PICK q \in Seq(S) : q = FlattenSeq(ss)
  BY <1>1, Flattened
<1>3. PICK from : Parts(from, q, ss, n)
  BY <1>1, <1>2, Flattened
<1>4. /\ \A k \in 1..Len(q) : \E i \in 1..n : \E j \in 1..Len(ss[i]) :
           from[k] = <<i, j>> /\ q[k] = ss[i][j]
      /\ \A i \in 1..n : \A j \in 1..Len(ss[i]) : \E k \in 1..Len(q) : from[k] = <<i, j>>
  BY <1>3, Zenon DEF Parts
<1>5. ASSUME NEW i \in 1..n, NEW j \in 1..Len(ss[i])
      PROVE  \E k \in 1..Len(q) : q[k] = ss[i][j]
  <2>1. PICK k \in 1..Len(q) : from[k] = <<i, j>>
    BY <1>4, Zenon
  <2>2. PICK h \in 1..n : \E m \in 1..Len(ss[h]) : from[k] = <<h, m>> /\ q[k] = ss[h][m]
    BY <1>4, Zenon
  <2>3. PICK m \in 1..Len(ss[h]) : from[k] = <<h, m>> /\ q[k] = ss[h][m]
    BY <2>2
  <2>4. h = i /\ m = j
    BY ONLY <2>1, <2>3
  <2> QED BY ONLY <2>3, <2>4, k \in 1..Len(q), Zenon
<1>6. HasAll(q, ss, n)
  BY ONLY <1>5, Zenon DEF HasAll
<1> QED BY ONLY <1>2, <1>6, Zenon

\* Every cursor of a unit has a type, and that a canonical type.
LEMMA UnitType ==
  ASSUME unit \in Units
  PROVE  /\ unit \in Seq(Cursors) /\ Len(unit) \in Nat
         /\ \A i \in 1..Len(unit) :
              /\ unit[i] \in Cursors
              /\ unit[i].type \in Types /\ Info[unit[i].type].canonical \in Types
<1>1. unit \in Seq(Cursors)
  BY InputsAssumption
<1>2. Len(unit) \in Nat /\ \A i \in 1..Len(unit) : unit[i] \in Cursors
  BY ONLY <1>1, LenProperties, ElementOfSeq
<1>3. \A i \in 1..Len(unit) : unit[i].type \in Types
  BY <1>2 DEF Cursors
<1> QED BY <1>1, <1>2, <1>3, InputsAssumption

\* Every question the programs put together is a question about a type.
LEMMA QuestionTypes ==
  ASSUME NEW t \in Types
  PROVE  /\ Size(t) \in Questions /\ Kind(t) \in Questions
         /\ <<"arguments", t>> \in Questions /\ <<"fields", t>> \in Questions
         /\ <<Size(t)>> \in Seq(Questions)
<1>1. /\ Size(t) \in Questions /\ Kind(t) \in Questions
      /\ <<"arguments", t>> \in Questions /\ <<"fields", t>> \in Questions
  BY DEF Size, Kind, Questions
<1> QED BY <1>1

\* How many template arguments are asked about.
Few(t) == Min({Len(Info[t].args), MaxArgs})

\* A number, and each argument up to it is a type.
LEMMA FewType ==
  ASSUME NEW t \in Types
  PROVE  Few(t) \in Nat /\ \A k \in 1..Few(t) : Info[t].args[k] \in Types
<1>1. PICK a \in Nat : a = Len(Info[t].args)
  BY InputsAssumption
<1>2. PICK b \in Nat : b = MaxArgs
  BY InputsAssumption
<1>3. \E x \in {a, b} : \A y \in {a, b} : x <= y
  OBVIOUS
<1>4. Few(t) \in {a, b} /\ Few(t) <= a
  BY ONLY <1>1, <1>2, <1>3 DEF Few, Min
<1>5. \A k \in 1..a : Info[t].args[k] \in Types
  BY <1>1, InputsAssumption
<1> QED BY <1>4, <1>5

\* The questions about template arguments: the number, and the size of the first ones.
LEMMA ArgumentQuestions ==
  ASSUME NEW t \in Types
  PROVE  /\ ArgumentsOf(t) \in Seq(Questions)
         /\ \E j \in 1..Len(ArgumentsOf(t)) : ArgumentsOf(t)[j] = <<"arguments", t>>
         /\ \A k \in 1..Few(t) :
              \E j \in 1..Len(ArgumentsOf(t)) : ArgumentsOf(t)[j] = Size(Info[t].args[k])
<1>1. PICK n \in Nat : n = Few(t)
  BY FewType
<1>2. PICK args : args = [i \in 1..n |-> Size(Info[t].args[i])]
  OBVIOUS
<1>3. \A i \in 1..n : Size(Info[t].args[i]) \in Questions
  BY <1>1, FewType, QuestionTypes, Zenon
<1>4. args \in [1..n -> Questions] /\ \A i \in 1..n : args[i] = Size(Info[t].args[i])
  BY ONLY <1>2, <1>3
<1>5. args \in Seq(Questions) /\ Len(args) = n
  BY <1>4, SequenceOf
<1>6. PICK first : first = <<<<"arguments", t>>>>
  OBVIOUS
<1>7. first \in Seq(Questions) /\ Len(first) = 1 /\ first[1] = <<"arguments", t>>
  <2>1. <<"arguments", t>> \in Questions
    BY QuestionTypes, Zenon
  <2> QED BY ONLY <1>6, <2>1
<1>8. ArgumentsOf(t) = first \o args
  BY ONLY <1>1, <1>2, <1>6, Zenon DEF ArgumentsOf, Few
<1>9. /\ first \o args \in Seq(Questions)
      /\ \A i \in 1..Len(first) : \E j \in 1..Len(first \o args) : (first \o args)[j] = first[i]
      /\ \A i \in 1..Len(args) : \E j \in 1..Len(first \o args) : (first \o args)[j] = args[i]
  <2>1. first \in Seq(Questions) /\ args \in Seq(Questions)
    BY <1>5, <1>7
  <2> QED BY <2>1, Joined
<1>10. 1 \in 1..Len(first)
  BY <1>7
<1>11. PICK q : q = first \o args
  OBVIOUS
<1>12. \E j \in 1..Len(q) : q[j] = <<"arguments", t>>
  BY ONLY <1>7, <1>9, <1>10, <1>11, Zenon
<1>13. \A k \in 1..n : \E j \in 1..Len(q) : q[j] = Size(Info[t].args[k])
  BY ONLY <1>4, <1>5, <1>9, <1>11, Zenon
<1>14. q \in Seq(Questions) /\ ArgumentsOf(t) = q
  BY <1>8, <1>9, <1>11
<1> QED BY ONLY <1>1, <1>12, <1>13, <1>14, Zenon

\* What the sweep asks about at a cursor of type t.
SweptBy(t) ==
  {t, Info[t].canonical} \cup {Info[Info[t].canonical].args[k] : k \in 1..Few(Info[t].canonical)}

\* What the sweep asks at one cursor covers the type there and its arguments.
LEMMA TrafficHere ==
  ASSUME NEW c \in Cursors
  PROVE  /\ TrafficOf(c) \in Seq(Questions)
         /\ c.kind = "field" \/ c.definition =>
              \A t \in SweptBy(c.type) :
                \E j \in 1..Len(TrafficOf(c)) : TrafficOf(c)[j][2] = t
<1>1. c.type \in Types
  BY DEF Cursors
<1>2. PICK t \in Types : t = c.type
  BY <1>1
<1>3. PICK u \in Types : u = Info[t].canonical
  BY InputsAssumption
<1>4. PICK a \in Seq(Questions) : a = <<Size(t)>>
  BY QuestionTypes, Zenon
<1>5. PICK b \in Seq(Questions) : b = ArgumentsOf(u)
  BY ArgumentQuestions
<1>6. PICK q \in Seq(Questions) : q = a \o b
  BY Joined, Zenon
<1>7. CASE ~(c.kind = "field" \/ c.definition)
  <2>1. TrafficOf(c) = << >>
    BY <1>7, Zenon DEF TrafficOf
  <2> QED BY <1>7, <2>1
<1>8. CASE c.kind = "field" \/ c.definition
  <2>1. TrafficOf(c) = q
    BY ONLY <1>2, <1>3, <1>4, <1>5, <1>6, <1>8, Zenon DEF TrafficOf
  <2>2. /\ \A i \in 1..Len(a) : \E j \in 1..Len(q) : q[j] = a[i]
        /\ \A i \in 1..Len(b) : \E j \in 1..Len(q) : q[j] = b[i]
    BY ONLY <1>6, Joined
  <2>3. 1 \in 1..Len(a) /\ a[1] = Size(t)
    BY ONLY <1>4
  <2>4. \E j \in 1..Len(q) : q[j][2] = t
    <3>1. PICK j \in 1..Len(q) : q[j] = Size(t)
      BY ONLY <2>2, <2>3, Zenon
    <3> QED BY <3>1 DEF Size
  <2>5. \E j \in 1..Len(q) : q[j][2] = u
    <3>1. PICK i \in 1..Len(b) : b[i] = <<"arguments", u>>
      BY <1>5, ArgumentQuestions, Zenon
    <3>2. PICK j \in 1..Len(q) : q[j] = <<"arguments", u>>
      BY ONLY <2>2, <3>1, Zenon
    <3> QED BY <3>2
  <2>6. ASSUME NEW k \in 1..Few(u) PROVE \E j \in 1..Len(q) : q[j][2] = Info[u].args[k]
    <3>1. PICK i \in 1..Len(b) : b[i] = Size(Info[u].args[k])
      BY <1>5, ArgumentQuestions, Zenon
    <3>2. PICK j \in 1..Len(q) : q[j] = Size(Info[u].args[k])
      BY ONLY <2>2, <3>1, Zenon
    <3> QED BY <3>2 DEF Size
  <2>7. ASSUME NEW s \in SweptBy(t) PROVE \E j \in 1..Len(q) : q[j][2] = s
    <3>1. s = t \/ s = u \/ \E k \in 1..Few(u) : s = Info[u].args[k]
      BY ONLY <1>3, <2>7, Zenon DEF SweptBy
    <3> QED BY ONLY <2>4, <2>5, <2>6, <3>1, Zenon
  <2> QED BY ONLY <1>2, <2>1, <2>7, Zenon
<1> QED BY <1>7, <1>8

\* The sweep asks about every type of Swept.
LEMMA TrafficSweeps ==
  ASSUME unit \in Units
  PROVE  /\ Traffic \in Seq(Questions)
         /\ \A t \in Swept : \E j \in 1..Len(Traffic) : Traffic[j][2] = t
<1>1. PICK n \in Nat : n = Len(unit)
  BY UnitType
<1>2. \A i \in 1..n : unit[i] \in Cursors
  BY <1>1, UnitType
<1>3. \A i \in 1..n : TrafficOf(unit[i]) \in Seq(Questions)
  BY <1>2, TrafficHere
<1>4. PICK ss \in [1..n -> Seq(Questions)] : ss = [i \in 1..n |-> TrafficOf(unit[i])]
  BY ONLY <1>3, Zenon
<1>5. \A i \in 1..n : ss[i] = TrafficOf(unit[i])
  BY ONLY <1>4
<1>6. Traffic = FlattenSeq(ss)
  BY <1>1, <1>4, Zenon DEF Traffic
<1>7. /\ Traffic \in Seq(Questions)
      /\ \A i \in 1..n : \A j \in 1..Len(ss[i]) : \E k \in 1..Len(Traffic) : Traffic[k] = ss[i][j]
  <2>1. FlattenSeq(ss) \in Seq(Questions) /\ HasAll(FlattenSeq(ss), ss, n)
    BY ONLY n \in Nat, ss \in [1..n -> Seq(Questions)], FlattenedElements
  <2> QED BY ONLY <1>6, <2>1, Zenon DEF HasAll
<1>8. ASSUME NEW t \in Swept PROVE \E j \in 1..Len(Traffic) : Traffic[j][2] = t
  <2>1. PICK i \in 1..n : (unit[i].kind = "field" \/ unit[i].definition) /\ t \in SweptBy(unit[i].type)
    <3> DEFINE subjects == {unit[i].type : i \in {j \in 1..n : unit[j].kind = "field" \/ unit[j].definition}}
    <3>1. t \in subjects \/ \E s \in subjects :
             \/ t = Info[s].canonical
             \/ t \in {Info[Info[s].canonical].args[k] :
                         k \in 1..Min({MaxArgs, Len(Info[Info[s].canonical].args)})}
      BY ONLY <1>1, <1>8, Zenon DEF Swept
    <3>2. \A s : {MaxArgs, Len(Info[Info[s].canonical].args)} = {Len(Info[Info[s].canonical].args), MaxArgs}
      OBVIOUS
    <3>3. PICK s \in subjects : t \in SweptBy(s)
      BY ONLY <3>1, <3>2, Zenon DEF SweptBy, Few
    <3> QED BY ONLY <3>3, Zenon
  <2>2. PICK j \in 1..Len(ss[i]) : ss[i][j][2] = t
    <3>1. PICK c \in Cursors : c = unit[i]
      BY <1>2
    <3>2. \E j \in 1..Len(TrafficOf(c)) : TrafficOf(c)[j][2] = t
      BY ONLY <2>1, <3>1, TrafficHere, Zenon
    <3>3. ss[i] = TrafficOf(c)
      BY <1>5, <3>1
    <3> QED BY ONLY <3>2, <3>3, Zenon
  <2>3. PICK k \in 1..Len(Traffic) : Traffic[k] = ss[i][j]
    BY <1>7
  <2> QED BY <2>2, <2>3
<1> QED BY <1>7, <1>8

\* The fields at a record.
FieldsAt(record) == {i \in 1..Len(unit) : unit[i].kind = "field" /\ unit[i].parent = record}

\* The visitor meets each field of the record once.
LEMMA FieldsMet ==
  ASSUME unit \in Units, NEW record
  PROVE  /\ FieldsOf(record) \in Seq(1..Len(unit))
         /\ \A k \in 1..Len(FieldsOf(record)) : FieldsOf(record)[k] \in FieldsAt(record)
         /\ \A i \in FieldsAt(record) : \E k \in 1..Len(FieldsOf(record)) : FieldsOf(record)[k] = i
         /\ \A j, k \in 1..Len(FieldsOf(record)) :
              FieldsOf(record)[j] = FieldsOf(record)[k] => j = k
<1>1. PICK n \in Nat : n = Len(unit)
  BY UnitType
<1>2. PICK s : s = [i \in 1..n |-> i]
  OBVIOUS
<1>3. s \in [1..n -> 1..n] /\ \A i \in 1..n : s[i] = i
  BY ONLY <1>2
<1>4. s \in Seq(1..n) /\ Len(s) = n
  BY <1>3, SequenceOf
<1>5. PICK r \in Seq(1..n) : r = Selected(s, FieldsAt(record))
  BY <1>4, SelectedOrder
<1>6. PICK met : Selects(met, r, s, FieldsAt(record), n)
  BY <1>4, <1>5, SelectedOrder
<1>7. FieldsOf(record) = r
  BY ONLY <1>1, <1>2, <1>5, Zenon DEF FieldsOf, FieldsAt
<1>8. PICK l \in Nat : l = Len(r) /\ Len(met) = l
  <2>1. Len(r) \in Nat
    BY <1>5
  <2> QED BY <1>6, <2>1 DEF Selects
<1>9. /\ met \in Seq(1..n)
      /\ \A k \in 1..l : r[k] = s[met[k]] /\ met[k] \in FieldsAt(record)
      /\ \A i \in 1..n : i \in FieldsAt(record) => \E k \in 1..l : met[k] = i
      /\ \A j, k \in 1..l : j < k => met[j] < met[k]
  BY ONLY <1>6, <1>8, Zenon DEF Selects
<1>10. \A k \in 1..l : met[k] \in 1..n /\ r[k] = met[k]
  <2>1. \A k \in 1..l : met[k] \in 1..n
    BY ONLY <1>8, <1>9
  <2> QED BY ONLY <1>3, <1>9, <2>1, Zenon
<1>11. \A k \in 1..l : r[k] \in FieldsAt(record)
  BY ONLY <1>9, <1>10
<1>12. FieldsAt(record) \subseteq 1..n
  BY <1>1 DEF FieldsAt
<1>13. \A i \in FieldsAt(record) : \E k \in 1..l : r[k] = i
  BY ONLY <1>9, <1>10, <1>12, Zenon
<1>14. \A j, k \in 1..l : r[j] = r[k] => j = k
  <2> SUFFICES ASSUME NEW j \in 1..l, NEW k \in 1..l, r[j] = r[k] PROVE j = k
    OBVIOUS
  <2>1. met[j] = met[k] /\ met[j] \in 1..n
    BY <1>10
  <2>2. ~(met[j] < met[k]) /\ ~(met[k] < met[j])
    BY ONLY <2>1, n \in Nat
  <2>3. ~(j < k) /\ ~(k < j)
    BY ONLY <1>9, <2>2, j \in 1..l, k \in 1..l
  <2> QED BY ONLY <2>3, l \in Nat, j \in 1..l, k \in 1..l
<1> QED BY ONLY <1>1, <1>5, <1>7, <1>8, <1>11, <1>13, <1>14, Zenon

\* query_targets asks questions about types of the unit.
LEMMA QueryType ==
  ASSUME unit \in Units, matches \in Seq(1..Len(unit)), refs \in Seq(1..Len(unit))
  PROVE  QueryTargets \in Seq(Questions)
<1>1. PICK m \in Nat : m = Len(matches)
  OBVIOUS
<1>2. PICK n \in Nat : n = Len(refs)
  OBVIOUS
<1> DEFINE OfMatch(i) == <<Size(unit[matches[i]].type)>>
           OfRef(i) == LET t == unit[refs[i]].type IN <<Size(t)>> \o ArgumentsOf(Info[t].canonical)
<1>3. \A i \in 1..m : OfMatch(i) \in Seq(Questions)
  <2>1. \A i \in 1..m : matches[i] \in 1..Len(unit)
    BY <1>1
  <2>2. \A i \in 1..m : unit[matches[i]].type \in Types
    BY <2>1, UnitType
  <2> QED BY <2>2, QuestionTypes, Zenon
<1>4. ASSUME NEW i \in 1..n PROVE OfRef(i) \in Seq(Questions)
  <2>1. refs[i] \in 1..Len(unit)
    BY <1>2
  <2>2. PICK t \in Types : t = unit[refs[i]].type
    BY <2>1, UnitType
  <2>3. PICK u \in Types : u = Info[t].canonical
    BY InputsAssumption
  <2>4. <<Size(t)>> \in Seq(Questions) /\ ArgumentsOf(u) \in Seq(Questions)
    BY QuestionTypes, ArgumentQuestions, Zenon
  <2>5. <<Size(t)>> \o ArgumentsOf(u) \in Seq(Questions)
    BY <2>4, ConcatProperties
  <2> QED BY ONLY <2>2, <2>3, <2>5, Zenon
<1> HIDE DEF OfMatch, OfRef
<1>5. PICK s : s = [i \in 1..m |-> OfMatch(i)]
  OBVIOUS
<1>6. PICK r : r = [i \in 1..n |-> OfRef(i)]
  OBVIOUS
<1>7. s \in [1..m -> Seq(Questions)]
  BY ONLY <1>3, <1>5
<1>8. r \in [1..n -> Seq(Questions)]
  BY ONLY <1>4, <1>6
<1>9. FlattenSeq(s) \in Seq(Questions) /\ FlattenSeq(r) \in Seq(Questions)
  BY <1>7, <1>8, FlattenedElements
<1>10. FlattenSeq(s) \o FlattenSeq(r) \in Seq(Questions)
  BY <1>9, ConcatProperties
<1>11. QueryTargets = FlattenSeq(s) \o FlattenSeq(r)
  BY ONLY <1>1, <1>2, <1>5, <1>6, Zenon DEF QueryTargets, OfMatch, OfRef
<1> QED BY <1>10, <1>11

\* arv_deep_dive asks questions about types of the unit.
LEMMA DiveType ==
  ASSUME unit \in Units
  PROVE  DeepDive \in Seq(Questions)
<1> DEFINE named == {i \in 1..Len(matches) : unit[matches[i]].name = DivedInto}
<1>1. CASE named = {}
  <2>1. DeepDive = << >>
    BY <1>1, Zenon DEF DeepDive
  <2> QED BY <2>1
<1>2. CASE named # {}
  <2>1. PICK fields \in Seq(1..Len(unit)) : fields = FieldsOf(matches[Min(named)])
    BY FieldsMet, Zenon
  <2>2. PICK n \in Nat : n = Len(fields)
    OBVIOUS
  <2> DEFINE Of(i) == LET t == unit[fields[i]].type
                      IN <<Size(t)>> \o ArgumentsOf(t) \o ArgumentsOf(Info[t].canonical)
  <2>3. ASSUME NEW i \in 1..n PROVE Of(i) \in Seq(Questions)
    <3>1. fields[i] \in 1..Len(unit)
      BY <2>2
    <3>2. PICK t \in Types : t = unit[fields[i]].type
      BY <3>1, UnitType
    <3>3. PICK u \in Types : u = Info[t].canonical
      BY InputsAssumption
    <3>4. PICK a \in Seq(Questions) : a = <<Size(t)>>
      BY QuestionTypes, Zenon
    <3>5. PICK b \in Seq(Questions) : b = ArgumentsOf(t)
      BY ArgumentQuestions
    <3>6. PICK c \in Seq(Questions) : c = ArgumentsOf(u)
      BY ArgumentQuestions
    <3>7. a \o b \in Seq(Questions)
      BY ConcatProperties
    <3>8. (a \o b) \o c \in Seq(Questions)
      BY <3>7, ConcatProperties
    <3> QED BY ONLY <3>2, <3>3, <3>4, <3>5, <3>6, <3>8, Zenon
  <2> HIDE DEF Of
  <2>4. PICK s : s = [i \in 1..n |-> Of(i)]
    OBVIOUS
  <2>5. s \in [1..n -> Seq(Questions)]
    BY ONLY <2>3, <2>4
  <2>6. FlattenSeq(s) \in Seq(Questions)
    BY <2>5, FlattenedElements
  <2>7. DeepDive = FlattenSeq(s)
    BY ONLY <1>2, <2>1, <2>2, <2>4, Zenon DEF DeepDive, Of
  <2> QED BY <2>6, <2>7
<1> QED BY <1>1, <1>2

\* So does the report of a phase.
LEMMA ReportType ==
  ASSUME unit \in Units, matches \in Seq(1..Len(unit)), refs \in Seq(1..Len(unit))
  PROVE  Report \in Seq(Questions)
<1>1. QueryTargets \in Seq(Questions) /\ DeepDive \in Seq(Questions)
  BY QueryType, DiveType
<1> QED BY <1>1, ConcatProperties DEF Report

-----------------------------------------------------------------------------
(* The kinds nested_probe.c prints *)

\* The fields of the records nested_probe.c looks for, of the one at i.
NestedFields(i) == IF i \in Definitions(Nested) THEN FieldsAt(i) ELSE {}

\* The questions r ask for the kind of each of `fields' once, unwrapped; field[k]
\* is the field the k-th question is about.
AsksKinds(field, r, fields) ==
  /\ \A k \in 1..Len(r) : r[k][1] = "kind" =>
       field[k] \in fields /\ r[k][2] = Unwrapped(unit[field[k]].type)
  /\ \A f \in fields : \E k \in 1..Len(r) : r[k][1] = "kind" /\ field[k] = f
  /\ \A k, l \in 1..Len(r) :
       r[k][1] = "kind" /\ r[l][1] = "kind" /\ field[k] = field[l] => k = l

\* What is asked about a field.
AboutField(t) == LET u == Unwrapped(t) IN <<Kind(u), Size(u), Size(Info[u].canonical), <<"fields", u>>>>

\* Four questions, the first of them the only one for the kind.
LEMMA AboutFieldAsks ==
  ASSUME NEW t \in Types
  PROVE  /\ AboutField(t) \in Seq(Questions) /\ Len(AboutField(t)) = 4
         /\ AboutField(t)[1] = <<"kind", Unwrapped(t)>>
         /\ \A m \in 1..4 : AboutField(t)[m][1] = "kind" => m = 1
<1>1. PICK u \in Types : u = Unwrapped(t)
  BY NoLayerLeft
<1>2. PICK c \in Types : c = Info[u].canonical
  BY InputsAssumption
<1>3. PICK q : q = <<Kind(u), Size(u), Size(c), <<"fields", u>>>>
  OBVIOUS
<1>4. AboutField(t) = q
  BY ONLY <1>1, <1>2, <1>3, Zenon DEF AboutField
<1>5. /\ Kind(u) \in Questions /\ Size(u) \in Questions /\ Size(c) \in Questions
      /\ <<"fields", u>> \in Questions
  BY QuestionTypes, Zenon
<1>6. q \in Seq(Questions) /\ Len(q) = 4
  BY ONLY <1>3, <1>5
<1>7. q[1] = <<"kind", u>> /\ q[2] = <<"sizeof", u>> /\ q[3] = <<"sizeof", c>> /\ q[4] = <<"fields", u>>
  BY ONLY <1>3 DEF Kind, Size
<1>8. q[2][1] # "kind" /\ q[3][1] # "kind" /\ q[4][1] # "kind"
  BY ONLY <1>7
<1>9. \A m \in 1..4 : m = 1 \/ m = 2 \/ m = 3 \/ m = 4
  OBVIOUS
<1>10. \A m \in 1..4 : q[m][1] = "kind" => m = 1
  BY ONLY <1>8, <1>9, Zenon
<1> QED BY ONLY <1>1, <1>4, <1>6, <1>7, <1>10, Zenon

\* Several lists of questions, one behind the other, about disjoint sets of fields.
LEMMA KindsJoined ==
  ASSUME NEW n \in Nat, NEW ss \in [1..n -> Seq(Questions)], NEW sets, NEW field,
         \A i \in 1..n : AsksKinds(field[i], ss[i], sets[i]),
         \A i, j \in 1..n : \A f \in sets[i] : f \in sets[j] => i = j,
         NEW all, \A f : f \in all <=> \E i \in 1..n : f \in sets[i]
  PROVE  /\ FlattenSeq(ss) \in Seq(Questions)
         /\ \E h : AsksKinds(h, FlattenSeq(ss), all)
<1>1. ss \in Seq(Seq(Questions)) /\ Len(ss) = n
  BY SequenceOf
<1>2. PICK q \in Seq(Questions) : q = FlattenSeq(ss)
  BY <1>1, Flattened
<1>3. PICK from : Parts(from, q, ss, n)
  BY <1>1, <1>2, Flattened
<1>4. PICK l \in Nat : l = Len(q)
  OBVIOUS
<1>5. /\ \A k \in 1..l : \E i \in 1..n : \E j \in 1..Len(ss[i]) :
           from[k] = <<i, j>> /\ q[k] = ss[i][j]
      /\ \A i \in 1..n : \A j \in 1..Len(ss[i]) : \E k \in 1..l : from[k] = <<i, j>>
      /\ \A j, k \in 1..l : from[j] = from[k] => j = k
  BY ONLY <1>3, <1>4, Zenon DEF Parts
<1>6. PICK h : h = [k \in 1..l |-> field[from[k][1]][from[k][2]]]
  OBVIOUS
<1>7. ASSUME NEW k \in 1..l
      PROVE  \E i \in 1..n : \E j \in 1..Len(ss[i]) :
               from[k] = <<i, j>> /\ q[k] = ss[i][j] /\ h[k] = field[i][j]
  <2>1. PICK i \in 1..n : \E j \in 1..Len(ss[i]) : from[k] = <<i, j>> /\ q[k] = ss[i][j]
    BY <1>5, Zenon
  <2>2. PICK j \in 1..Len(ss[i]) : from[k] = <<i, j>> /\ q[k] = ss[i][j]
    BY <2>1
  <2>3. h[k] = field[i][j]
    <3>1. from[k][1] = i /\ from[k][2] = j
      BY ONLY <2>2
    <3> QED BY ONLY <1>6, <3>1, k \in 1..l
  <2> QED BY ONLY <2>2, <2>3, i \in 1..n, j \in 1..Len(ss[i]), Zenon
<1>8. \A i \in 1..n :
        /\ \A k \in 1..Len(ss[i]) : ss[i][k][1] = "kind" =>
             field[i][k] \in sets[i] /\ ss[i][k][2] = Unwrapped(unit[field[i][k]].type)
        /\ \A f \in sets[i] : \E k \in 1..Len(ss[i]) : ss[i][k][1] = "kind" /\ field[i][k] = f
        /\ \A k, j \in 1..Len(ss[i]) :
             ss[i][k][1] = "kind" /\ ss[i][j][1] = "kind" /\ field[i][k] = field[i][j] => k = j
  BY Zenon DEF AsksKinds
<1>9. ASSUME NEW k \in 1..l, q[k][1] = "kind"
      PROVE  h[k] \in all /\ q[k][2] = Unwrapped(unit[h[k]].type)
  <2>1. PICK i \in 1..n : \E j \in 1..Len(ss[i]) :
          from[k] = <<i, j>> /\ q[k] = ss[i][j] /\ h[k] = field[i][j]
    BY <1>7, Zenon
  <2>2. PICK j \in 1..Len(ss[i]) : q[k] = ss[i][j] /\ h[k] = field[i][j]
    BY <2>1, Zenon
  <2>3. h[k] \in sets[i] /\ q[k][2] = Unwrapped(unit[h[k]].type)
    <3>1. ss[i][j][1] = "kind"
      BY ONLY <1>9, <2>2, Zenon
    <3>2. field[i][j] \in sets[i] /\ ss[i][j][2] = Unwrapped(unit[field[i][j]].type)
      BY ONLY <1>8, <3>1, i \in 1..n, j \in 1..Len(ss[i]), Zenon
    <3> QED BY ONLY <2>2, <3>2
  <2> QED BY <2>3, Zenon
<1>10. ASSUME NEW f \in all PROVE \E k \in 1..l : q[k][1] = "kind" /\ h[k] = f
  <2>1. PICK i \in 1..n : f \in sets[i]
    BY Zenon
  <2>2. PICK j \in 1..Len(ss[i]) : ss[i][j][1] = "kind" /\ field[i][j] = f
    BY ONLY <1>8, <2>1, Zenon
  <2>3. PICK k \in 1..l : from[k] = <<i, j>>
    BY ONLY <1>5, i \in 1..n, j \in 1..Len(ss[i]), Zenon
  <2>4. PICK i2 \in 1..n : \E j2 \in 1..Len(ss[i2]) :
          from[k] = <<i2, j2>> /\ q[k] = ss[i2][j2] /\ h[k] = field[i2][j2]
    BY <1>7, Zenon
  <2>5. PICK j2 \in 1..Len(ss[i2]) :
          from[k] = <<i2, j2>> /\ q[k] = ss[i2][j2] /\ h[k] = field[i2][j2]
    BY <2>4
  <2>6. i2 = i /\ j2 = j
    BY ONLY <2>3, <2>5
  <2>7. q[k][1] = "kind" /\ h[k] = f
    BY ONLY <2>2, <2>5, <2>6, Zenon
  <2> QED BY ONLY <2>7, k \in 1..l, Zenon
<1>11. ASSUME NEW k \in 1..l, NEW m \in 1..l, q[k][1] = "kind", q[m][1] = "kind", h[k] = h[m]
       PROVE  k = m
  <2>1. PICK i \in 1..n : \E j \in 1..Len(ss[i]) :
          from[k] = <<i, j>> /\ q[k] = ss[i][j] /\ h[k] = field[i][j]
    BY <1>7, Zenon
  <2>2. PICK j \in 1..Len(ss[i]) : from[k] = <<i, j>> /\ q[k] = ss[i][j] /\ h[k] = field[i][j]
    BY <2>1
  <2>3. PICK i2 \in 1..n : \E j2 \in 1..Len(ss[i2]) :
          from[m] = <<i2, j2>> /\ q[m] = ss[i2][j2] /\ h[m] = field[i2][j2]
    BY <1>7, Zenon
  <2>4. PICK j2 \in 1..Len(ss[i2]) :
          from[m] = <<i2, j2>> /\ q[m] = ss[i2][j2] /\ h[m] = field[i2][j2]
    BY <2>3
  <2>5. ss[i][j][1] = "kind" /\ ss[i2][j2][1] = "kind" /\ field[i][j] = field[i2][j2]
    BY ONLY <1>11, <2>2, <2>4, Zenon
  <2>6. h[k] \in sets[i] /\ h[m] \in sets[i2]
    <3>1. field[i][j] \in sets[i]
      BY ONLY <1>8, <2>5, i \in 1..n, j \in 1..Len(ss[i]), Zenon
    <3>2. field[i2][j2] \in sets[i2]
      BY ONLY <1>8, <2>5, i2 \in 1..n, j2 \in 1..Len(ss[i2]), Zenon
    <3> QED BY ONLY <2>2, <2>4, <3>1, <3>2
  <2>7. i2 = i
    BY ONLY <1>11, <2>6, i \in 1..n, i2 \in 1..n, Zenon,
            \A i_, j_ \in 1..n : \A f \in sets[i_] : f \in sets[j_] => i_ = j_
  <2>8. j2 = j
    <3>1. /\ j2 \in 1..Len(ss[i]) /\ ss[i][j2][1] = "kind"
          /\ field[i][j] = field[i][j2]
      BY ONLY <2>7, <2>5, j2 \in 1..Len(ss[i2])
    <3> QED BY ONLY <1>8, <2>5, <3>1, i \in 1..n, j \in 1..Len(ss[i]), Zenon
  <2>9. from[k] = from[m]
    BY ONLY <2>2, <2>4, <2>7, <2>8, Zenon
  <2> QED BY ONLY <1>5, <2>9, k \in 1..l, m \in 1..l, Zenon
<1>12. AsksKinds(h, q, all)
  <2>1. Len(q) = l
    BY <1>4
  <2>2. \A k \in 1..l : q[k][1] = "kind" => h[k] \in all /\ q[k][2] = Unwrapped(unit[h[k]].type)
    BY ONLY <1>9, Zenon
  <2>3. \A f \in all : \E k \in 1..l : q[k][1] = "kind" /\ h[k] = f
    BY ONLY <1>10, Zenon
  <2>4. \A k, m \in 1..l : q[k][1] = "kind" /\ q[m][1] = "kind" /\ h[k] = h[m] => k = m
    BY ONLY <1>11, Zenon
  <2> QED BY ONLY <2>1, <2>2, <2>3, <2>4, Zenon DEF AsksKinds
<1> QED BY ONLY <1>2, <1>12, Zenon

\* nested_probe.c asks for the kind of each field of a record once.
LEMMA RecordAsks ==
  ASSUME unit \in Units, NEW i \in 1..Len(unit)
  PROVE  /\ NestedOf(i) \in Seq(Questions)
         /\ \E h : AsksKinds(h, NestedOf(i), NestedFields(i))
<1>1. unit[i].kind = "record" /\ unit[i].definition /\ unit[i].name \in Nested <=> i \in Definitions(Nested)
  BY DEF Definitions
<1>2. CASE i \notin Definitions(Nested)
  <2>1. NestedOf(i) = << >> /\ NestedFields(i) = {}
    BY ONLY <1>1, <1>2, Zenon DEF NestedOf, NestedFields
  <2>2. << >> \in Seq(Questions) /\ Len(<< >>) = 0 /\ 1..0 = {}
    OBVIOUS
  <2>3. AsksKinds(<< >>, << >>, {})
    BY ONLY <2>2, Zenon DEF AsksKinds
  <2> QED BY ONLY <2>1, <2>2, <2>3, Zenon
<1>3. CASE i \in Definitions(Nested)
  <2>1. PICK fields \in Seq(1..Len(unit)) : fields = FieldsOf(i)
    BY FieldsMet
  <2>2. PICK n \in Nat : n = Len(fields)
    OBVIOUS
  <2>3. /\ \A j \in 1..n : fields[j] \in FieldsAt(i)
        /\ \A f \in FieldsAt(i) : \E j \in 1..n : fields[j] = f
        /\ \A j, k \in 1..n : fields[j] = fields[k] => j = k
    BY ONLY <2>1, <2>2, unit \in Units, FieldsMet
  <2>4. \A j \in 1..n : unit[fields[j]].type \in Types
    <3>1. \A j \in 1..n : fields[j] \in 1..Len(unit)
      BY <2>2
    <3> QED BY <3>1, UnitType
  <2>5. PICK ss : ss = [j \in 1..n |-> AboutField(unit[fields[j]].type)]
    OBVIOUS
  <2>6. \A j \in 1..n : AboutField(unit[fields[j]].type) \in Seq(Questions)
    BY <2>4, AboutFieldAsks
  <2>7. ss \in [1..n -> Seq(Questions)] /\ \A j \in 1..n : ss[j] = AboutField(unit[fields[j]].type)
    BY ONLY <2>5, <2>6
  <2>8. PICK sets : sets = [j \in 1..n |-> {fields[j]}]
    OBVIOUS
  <2>9. PICK field : field = [j \in 1..n |-> [k \in 1..4 |-> fields[j]]]
    OBVIOUS
  <2>10. ASSUME NEW j \in 1..n PROVE AsksKinds(field[j], ss[j], sets[j])
    <3>1. PICK t \in Types : t = unit[fields[j]].type
      BY <2>4, Zenon
    <3>2. PICK q : q = ss[j] /\ q = AboutField(t)
      BY ONLY <2>7, <3>1, j \in 1..n, Zenon
    <3>3. Len(q) = 4 /\ q[1] = <<"kind", Unwrapped(t)>> /\ \A m \in 1..4 : q[m][1] = "kind" => m = 1
      BY ONLY <3>2, AboutFieldAsks
    <3>4. PICK g : g = field[j] /\ \A k \in 1..4 : g[k] = fields[j]
      <4>1. PICK f : f = fields[j]
        OBVIOUS
      <4>2. PICK g : g = [k \in 1..4 |-> f]
        OBVIOUS
      <4>3. g = field[j]
        BY ONLY <2>9, <4>1, <4>2, j \in 1..n, Zenon
      <4>4. \A k \in 1..4 : g[k] = f
        BY ONLY <4>2, Zenon
      <4> QED BY ONLY <4>1, <4>3, <4>4, Zenon
    <3>5. sets[j] = {fields[j]}
      BY ONLY <2>8, j \in 1..n, Zenon
    <3>6. q[1][1] = "kind" /\ q[1][2] = Unwrapped(t) /\ 1 \in 1..4
      BY ONLY <3>3
    <3>7. \A k \in 1..4 : q[k][1] = "kind" =>
            g[k] \in {fields[j]} /\ q[k][2] = Unwrapped(unit[g[k]].type)
      BY ONLY <3>1, <3>3, <3>4, <3>6, Zenon
    <3>8. \A f \in {fields[j]} : \E k \in 1..4 : q[k][1] = "kind" /\ g[k] = f
      BY ONLY <3>4, <3>6, Zenon
    <3>9. \A k, l \in 1..4 : q[k][1] = "kind" /\ q[l][1] = "kind" /\ g[k] = g[l] => k = l
      BY ONLY <3>3, Zenon
    <3>10. Len(q) = 4
      BY <3>3
    <3>11. AsksKinds(g, q, {fields[j]})
      BY ONLY <3>7, <3>8, <3>9, <3>10, Zenon DEF AsksKinds
    <3> QED BY ONLY <3>2, <3>4, <3>5, <3>11, Zenon
  <2>11. \A j \in 1..n : sets[j] = {fields[j]}
    BY ONLY <2>8
  <2>12. \A j, k \in 1..n : \A f \in sets[j] : f \in sets[k] => j = k
    <3> SUFFICES ASSUME NEW j \in 1..n, NEW k \in 1..n, NEW f \in sets[j], f \in sets[k]
                 PROVE  j = k
      OBVIOUS
    <3>1. f = fields[j] /\ f = fields[k]
      BY <2>11
    <3> QED BY ONLY <2>3, <3>1, j \in 1..n, k \in 1..n, Zenon
  <2>13. \A f : f \in FieldsAt(i) <=> \E j \in 1..n : f \in sets[j]
    <3>1. ASSUME NEW f, NEW j \in 1..n, f \in sets[j] PROVE f \in FieldsAt(i)
      <4>1. f = fields[j]
        BY <2>11, <3>1
      <4> QED BY ONLY <2>3, <4>1, j \in 1..n
    <3>2. ASSUME NEW f \in FieldsAt(i) PROVE \E j \in 1..n : f \in sets[j]
      <4>1. PICK j \in 1..n : fields[j] = f
        BY <2>3
      <4> QED BY ONLY <2>11, <4>1, j \in 1..n
    <3> QED BY ONLY <3>1, <3>2, Zenon
  <2>14. /\ FlattenSeq(ss) \in Seq(Questions)
         /\ \E h : AsksKinds(h, FlattenSeq(ss), FieldsAt(i))
    <3>1. ss \in [1..n -> Seq(Questions)]
      BY <2>7
    <3>2. \A j \in 1..n : AsksKinds(field[j], ss[j], sets[j])
      BY ONLY <2>10, Zenon
    <3> QED BY ONLY <2>12, <2>13, <3>1, <3>2, n \in Nat, KindsJoined, Zenon
  <2>15. NestedOf(i) = FlattenSeq(ss)
    BY ONLY <1>1, <1>3, <2>1, <2>2, <2>5, Zenon DEF NestedOf, AboutField
  <2>16. NestedFields(i) = FieldsAt(i)
    BY <1>3 DEF NestedFields
  <2> QED BY ONLY <2>14, <2>15, <2>16, Zenon
<1> QED BY <1>2, <1>3

\* The fields of all the records nested_probe.c looks for.
AllNestedFields ==
  {i \in 1..Len(unit) : unit[i].kind = "field" /\ unit[i].parent \in Definitions(Nested)}

\* The report of nested_probe.c asks for one kind for each of those fields.
LEMMA NestedAsks ==
  ASSUME unit \in Units
  PROVE  /\ NestedReport \in Seq(Questions)
         /\ \E h : AsksKinds(h, NestedReport, AllNestedFields)
<1>1. PICK n \in Nat : n = Len(unit)
  BY UnitType
<1>2. PICK ss : ss = [i \in 1..n |-> NestedOf(i)]
  OBVIOUS
<1>3. \A i \in 1..n : NestedOf(i) \in Seq(Questions) /\ \E h : AsksKinds(h, NestedOf(i), NestedFields(i))
  BY <1>1, RecordAsks
<1>4. ss \in [1..n -> Seq(Questions)] /\ \A i \in 1..n : ss[i] = NestedOf(i)
  BY ONLY <1>2, <1>3
<1>5. PICK sets : sets = [i \in 1..n |-> NestedFields(i)]
  OBVIOUS
<1>6. PICK field : field = [i \in 1..n |-> CHOOSE h : AsksKinds(h, NestedOf(i), NestedFields(i))]
  OBVIOUS
<1>7. ASSUME NEW i \in 1..n PROVE AsksKinds(field[i], ss[i], sets[i])
  <2>1. PICK h : h = CHOOSE g : AsksKinds(g, NestedOf(i), NestedFields(i))
    OBVIOUS
  <2>2. AsksKinds(h, NestedOf(i), NestedFields(i))
    BY ONLY <1>3, <2>1, i \in 1..n, Zenon
  <2>3. field[i] = h
    BY ONLY <1>6, <2>1, i \in 1..n, Zenon
  <2>4. ss[i] = NestedOf(i) /\ sets[i] = NestedFields(i)
    BY ONLY <1>2, <1>5, i \in 1..n, Zenon
  <2> QED BY ONLY <2>2, <2>3, <2>4, Zenon
<1>8. \A i \in 1..n : sets[i] = NestedFields(i)
  BY ONLY <1>5
<1>9. \A i, j \in 1..n : \A f \in sets[i] : f \in sets[j] => i = j
  <2>1. ASSUME NEW i \in 1..n, NEW f \in sets[i] PROVE unit[f].parent = i
    BY ONLY <1>8, <2>1, Zenon DEF NestedFields, FieldsAt
  <2> QED BY ONLY <2>1, Zenon
<1>10. \A f : f \in AllNestedFields <=> \E i \in 1..n : f \in sets[i]
  <2>1. Definitions(Nested) \subseteq 1..n
    BY <1>1 DEF Definitions
  <2>2. ASSUME NEW f \in AllNestedFields PROVE \E i \in 1..n : f \in sets[i]
    <3>1. PICK i : i = unit[f].parent
      OBVIOUS
    <3>2. i \in Definitions(Nested) /\ i \in 1..n /\ f \in FieldsAt(i)
      BY ONLY <2>1, <2>2, <3>1 DEF AllNestedFields, FieldsAt
    <3> QED BY ONLY <1>8, <3>2, Zenon DEF NestedFields
  <2>3. ASSUME NEW f, NEW i \in 1..n, f \in sets[i] PROVE f \in AllNestedFields
    <3>1. f \in NestedFields(i)
      BY <1>8, <2>3
    <3>2. i \in Definitions(Nested) /\ f \in FieldsAt(i)
      BY ONLY <3>1, Zenon DEF NestedFields
    <3> QED BY ONLY <3>2 DEF AllNestedFields, FieldsAt
  <2> QED BY ONLY <2>2, <2>3, Zenon
<1>11. /\ FlattenSeq(ss) \in Seq(Questions)
       /\ \E h : AsksKinds(h, FlattenSeq(ss), AllNestedFields)
  <2>1. ss \in [1..n -> Seq(Questions)]
    BY <1>4
  <2>2. \A i \in 1..n : AsksKinds(field[i], ss[i], sets[i])
    BY ONLY <1>7, Zenon
  <2> QED BY ONLY <1>9, <1>10, <2>1, <2>2, n \in Nat, KindsJoined, Zenon
<1>12. NestedReport = FlattenSeq(ss)
  BY ONLY <1>1, <1>2, Zenon DEF NestedReport
<1> QED BY ONLY <1>11, <1>12, Zenon

\* There are as many questions for a kind as fields.
LEMMA KindsCounted ==
  ASSUME NEW r \in Seq(Questions), NEW fields, NEW h, AsksKinds(h, r, fields)
  PROVE  Cardinality({k \in 1..Len(r) : r[k][1] = "kind"}) = Cardinality(fields)
<1>1. PICK n \in Nat : n = Len(r)
  OBVIOUS
<1>2. PICK kinds : kinds = {k \in 1..n : r[k][1] = "kind"}
  OBVIOUS
<1>3. IsFiniteSet(kinds)
  <2>1. IsFiniteSet(1..n)
    BY FS_Interval
  <2>2. kinds \in SUBSET (1..n)
    BY <1>2
  <2> QED BY <2>1, <2>2, FS_Subset, Zenon
<1>4. PICK f : f = [k \in kinds |-> h[k]]
  OBVIOUS
<1>5. /\ \A k \in 1..n : r[k][1] = "kind" => h[k] \in fields
      /\ \A x \in fields : \E k \in 1..n : r[k][1] = "kind" /\ h[k] = x
      /\ \A k, l \in 1..n : r[k][1] = "kind" /\ r[l][1] = "kind" /\ h[k] = h[l] => k = l
  BY <1>1, Zenon DEF AsksKinds
<1>6. /\ \A k \in kinds : h[k] \in fields
      /\ \A x \in fields : \E k \in kinds : h[k] = x
      /\ \A k, l \in kinds : h[k] = h[l] => k = l
  BY ONLY <1>2, <1>5, Zenon
<1>7. f \in Bijection(kinds, fields)
  BY ONLY <1>4, <1>6 DEF Bijection, Injection, Surjection, IsInjective
<1>8. ExistsBijection(kinds, fields)
  BY <1>7 DEF ExistsBijection
<1>9. Cardinality(fields) = Cardinality(kinds)
  BY ONLY <1>3, <1>8, FS_Bijection
<1> QED BY <1>1, <1>2, <1>9

-----------------------------------------------------------------------------
(* The invariant *)

Printing == {"PHASE0", "PHASE1", "PHASE3"}
Lines == Questions \X {"right", "wrong"}

\* `lines' answer the first questions of q, and `rest' are the others.
Answered(lines, rest, q) ==
  /\ Len(lines) + Len(rest) = Len(q)
  /\ \A i \in 1..Len(lines) : lines[i][1] = q[i]
  /\ \A i \in 1..Len(rest) : rest[i] = q[Len(lines) + i]

\* Which phases a program is in, and what it has not printed yet.
Phases ==
  /\ phase \in {"collect", "PHASE1", "PHASE2", "PHASE3"} => probe = "scale"
  /\ phase = "PHASE0" => probe = "nested"
  /\ phase \in {"parse", "collect", "done", "failed"} => todo = << >>
  /\ phase = "parse" => out["PHASE0"] = << >>
  /\ probe = "scale" => out["PHASE0"] = << >>
  /\ probe = "nested" => out["PHASE1"] = << >> /\ out["PHASE3"] = << >>
  /\ phase \in {"parse", "collect"} => out["PHASE1"] = << >>
  /\ phase \in {"parse", "collect", "PHASE1", "PHASE2"} => out["PHASE3"] = << >>
  /\ phase = "failed" => \A p \in Printing : out[p] = << >>

\* After the sweep.
LastPhase == phase = "PHASE3" \/ (phase = "done" /\ probe = "scale")

\* What is printed are the answers to the questions of the phase, in their order.
Reports ==
  /\ phase = "PHASE0" => Answered(out["PHASE0"], todo, NestedReport)
  /\ phase = "done" /\ probe = "nested" => Answered(out["PHASE0"], << >>, NestedReport)
  /\ phase = "PHASE1" => Answered(out["PHASE1"], todo, Report)
  /\ phase = "PHASE2" \/ LastPhase => Answered(out["PHASE1"], << >>, Report)
  /\ phase = "PHASE3" => Answered(out["PHASE3"], todo, Report)
  /\ phase = "done" /\ probe = "scale" => Answered(out["PHASE3"], << >>, Report)

\* libclang is wrong only after what upsets it.
Wrongs ==
  \A p \in Printing : \A i \in 1..Len(out[p]) :
    out[p][i][2] = "wrong" => upset[out[p][i][1][2]] \in asked

\* The sweep is asked in full before PHASE3, whose answers show it.
Sweep ==
  /\ phase = "PHASE2" =>
       \A i \in 1..Len(Traffic) :
         Traffic[i][2] \in asked \/ \E j \in 1..Len(todo) : todo[j] = Traffic[i]
  /\ LastPhase =>
       /\ \A i \in 1..Len(Traffic) : Traffic[i][2] \in asked
       /\ \A i \in 1..Len(out["PHASE3"]) : \A j \in 1..Len(Traffic) :
            Traffic[j][2] = upset[out["PHASE3"][i][1][2]] => out["PHASE3"][i][2] = "wrong"

Inv == ProbesTypeOK /\ Phases /\ Reports /\ Wrongs /\ Sweep

-----------------------------------------------------------------------------
(* Its parts *)

\* At the start of a phase all its questions are still to come.
LEMMA NoneAnswered ==
  ASSUME NEW q, Len(q) \in Nat
  PROVE  Answered(<< >>, q, q)
<1>1. Len(<< >>) = 0 /\ 1..0 = {}
  OBVIOUS
<1>2. 0 + Len(q) = Len(q) /\ \A i \in 1..Len(q) : 0 + i = i
  OBVIOUS
<1> QED BY ONLY <1>1, <1>2 DEF Answered

\* The first question and the others.
LEMMA HeadAndTail ==
  ASSUME NEW S, NEW s \in Seq(S), s # << >>
  PROVE  /\ Head(s) \in S /\ Tail(s) \in Seq(S) /\ Len(Tail(s)) \in Nat
         /\ Len(s) = Len(Tail(s)) + 1 /\ Head(s) = s[1]
         /\ \A i \in 1..Len(Tail(s)) : Tail(s)[i] = s[i + 1]
OBVIOUS

\* An answer to the next question moves it from those to come to those answered.
LEMMA OneAnswered ==
  ASSUME NEW lines \in Seq(Lines), NEW rest \in Seq(Questions), rest # << >>,
         NEW q, Answered(lines, rest, q), NEW line \in Lines, line[1] = Head(rest)
  PROVE  Answered(Append(lines, line), Tail(rest), q)
<1>1. PICK a \in Nat : a = Len(lines)
  OBVIOUS
<1>2. PICK tail \in Seq(Questions) : tail = Tail(rest)
  BY HeadAndTail, Zenon
<1>3. PICK b \in Nat : b = Len(tail)
  OBVIOUS
<1>4. Len(rest) = b + 1 /\ Head(rest) = rest[1] /\ \A i \in 1..b : tail[i] = rest[i + 1]
  BY <1>2, <1>3, HeadAndTail
<1>5. PICK more : more = Append(lines, line)
  OBVIOUS
<1>6. Len(more) = a + 1 /\ more[a + 1] = line /\ \A i \in 1..a : more[i] = lines[i]
  BY <1>1, <1>5, Appended
<1>7. /\ a + (b + 1) = Len(q)
      /\ \A i \in 1..a : lines[i][1] = q[i]
      /\ \A i \in 1..(b + 1) : rest[i] = q[a + i]
  BY ONLY <1>1, <1>4, Answered(lines, rest, q) DEF Answered
<1>8. a + 1 + b = Len(q)
  BY <1>7
<1>9. ASSUME NEW i \in 1..(a + 1) PROVE more[i][1] = q[i]
  <2>1. CASE i \in 1..a
    BY ONLY <1>6, <1>7, <2>1
  <2>2. CASE i = a + 1
    <3>1. 1 \in 1..(b + 1)
      OBVIOUS
    <3> QED BY ONLY <1>4, <1>6, <1>7, <2>2, <3>1, line[1] = Head(rest)
  <2> QED BY <2>1, <2>2
<1>10. ASSUME NEW i \in 1..b PROVE tail[i] = q[a + 1 + i]
  <2>1. i + 1 \in 1..(b + 1) /\ a + (i + 1) = a + 1 + i
    OBVIOUS
  <2> QED BY ONLY <1>4, <1>7, <2>1, i \in 1..b, Zenon
<1>11. Answered(more, tail, q)
  BY ONLY <1>3, <1>6, <1>8, <1>9, <1>10, Zenon DEF Answered
<1> QED BY ONLY <1>2, <1>5, <1>11

\* The questions depend on the unit and on what was collected.
LEMMA QuestionsKept ==
  ASSUME UNCHANGED <<unit, matches, refs>>
  PROVE  Report' = Report /\ NestedReport' = NestedReport /\ Traffic' = Traffic
<1>1. unit' = unit /\ matches' = matches /\ refs' = refs
  OBVIOUS
<1>2. Traffic' = Traffic
  BY ONLY <1>1, Zenon DEF Traffic
<1>3. NestedReport' = NestedReport
  BY ONLY <1>1, Zenon DEF NestedReport, NestedOf, FieldsOf
<1>4. Report' = Report
  BY ONLY <1>1, Zenon DEF Report, QueryTargets, DeepDive, FieldsOf
<1> QED BY <1>2, <1>3, <1>4

\* Nothing printed, nothing asked.
LEMMA Started ==
  ProbesInit => Inv
<1> SUFFICES ASSUME ProbesInit PROVE Inv
  OBVIOUS
<1> USE DEF ProbesInit
<1>1. Len(unit) \in Nat
  BY UnitType
<1>2. ProbesTypeOK
  BY <1>1, InputsAssumption DEF ProbesTypeOK
<1>3. Phases /\ Reports /\ Sweep
  BY DEF Phases, Reports, Sweep, LastPhase, Printing
<1>4. Wrongs
  BY DEF Wrongs, Printing
<1> QED BY <1>2, <1>3, <1>4 DEF Inv

\* A step that prints nothing and after which nothing else was asked.
LEMMA WrongsKept ==
  ASSUME Wrongs, UNCHANGED <<out, upset, asked>>
  PROVE  Wrongs'
BY DEF Wrongs

\* scale_probe.c goes on to collect; nested_probe.c has its questions at once.
LEMMA ParseStep ==
  ASSUME Inv, NEW ok \in BOOLEAN, Parse(ok)
  PROVE  Inv'
<1>1. NestedReport \in Seq(Questions)
  BY NestedAsks DEF Inv, ProbesTypeOK
<1>2. ProbesTypeOK'
  BY <1>1 DEF Inv, ProbesTypeOK, Parse
<1>3. /\ phase = "parse" /\ phase' \in {"failed", "collect", "PHASE0"}
      /\ probe' = probe /\ out' = out
      /\ phase' = "PHASE0" => probe = "nested" /\ todo' = NestedReport
      /\ phase' = "collect" => probe = "scale" /\ todo' = << >>
      /\ phase' = "failed" => todo' = << >>
  BY DEF Parse, Inv, ProbesTypeOK
<1>4. out["PHASE0"] = << >> /\ out["PHASE1"] = << >> /\ out["PHASE3"] = << >>
  BY <1>3 DEF Inv, Phases
<1>5. Phases'
  BY <1>3, <1>4 DEF Phases, Printing, Inv
<1>6. Reports'
  <2>1. NestedReport' = NestedReport
    BY QuestionsKept DEF Parse
  <2>2. Answered(<< >>, NestedReport, NestedReport)
    <3>1. Len(NestedReport) \in Nat
      BY <1>1
    <3> QED BY <3>1, NoneAnswered
  <2>3. phase' = "PHASE0" => Answered(out["PHASE0"], NestedReport, NestedReport)
    BY ONLY <1>4, <2>2
  <2> QED BY ONLY <1>3, <2>1, <2>3 DEF Reports, LastPhase
<1>7. Wrongs'
  BY WrongsKept DEF Parse, Inv
<1>8. Sweep'
  BY ONLY <1>3 DEF Sweep, LastPhase
<1> QED BY <1>2, <1>5, <1>6, <1>7, <1>8 DEF Inv

\* A full array takes no more.
LEMMA Taken ==
  ASSUME NEW S, NEW s \in Seq(S), NEW e \in S, NEW max \in Nat, Len(s) <= max, NEW t,
         t = s \/ (t = Append(s, e) /\ Len(s) < max)
  PROVE  t \in Seq(S) /\ Len(t) <= max
<1>1. CASE t = s
  BY <1>1
<1>2. CASE t = Append(s, e) /\ Len(s) < max
  <2>1. Append(s, e) \in Seq(S) /\ Len(Append(s, e)) = Len(s) + 1 /\ Len(s) \in Nat
    BY Appended
  <2> QED BY <1>2, <2>1
<1> QED BY <1>1, <1>2

\* The visitor that collects asks and prints nothing.
LEMMA CollectStep ==
  ASSUME Inv, Collect
  PROVE  Inv'
<1>1. phase = "collect" /\ UNCHANGED <<probe, unit, phase, todo, asked, out, upset>>
  BY DEF Collect
<1>2. ProbesTypeOK'
  <2>1. Len(unit) \in Nat /\ at \in 1..Len(unit) /\ at' = at + 1
    BY UnitType DEF Inv, ProbesTypeOK, Collect
  <2>2. at' \in 1..(Len(unit) + 1)
    BY <2>1
  <2>3. matches' \in Seq(1..Len(unit)) /\ Len(matches') <= MaxMatches
    <3>1. matches' = matches \/ (matches' = Append(matches, at) /\ Len(matches) < MaxMatches)
      BY DEF Collect
    <3>2. matches \in Seq(1..Len(unit)) /\ Len(matches) <= MaxMatches /\ MaxMatches \in Nat
      BY InputsAssumption DEF Inv, ProbesTypeOK
    <3>3. at \in 1..Len(unit)
      BY <2>1
    <3> QED BY <3>1, <3>2, <3>3, Taken, Zenon
  <2>4. refs' \in Seq(1..Len(unit)) /\ Len(refs') <= MaxRefs
    <3>1. refs' = refs \/ (refs' = Append(refs, at) /\ Len(refs) < MaxRefs)
      BY DEF Collect
    <3>2. refs \in Seq(1..Len(unit)) /\ Len(refs) <= MaxRefs /\ MaxRefs \in Nat
      BY InputsAssumption DEF Inv, ProbesTypeOK
    <3>3. at \in 1..Len(unit)
      BY <2>1
    <3> QED BY <3>1, <3>2, <3>3, Taken, Zenon
  <2> QED BY <1>1, <2>2, <2>3, <2>4 DEF Inv, ProbesTypeOK
<1>3. Phases'
  BY <1>1 DEF Inv, Phases
<1>4. Reports' /\ Sweep'
  BY ONLY <1>1 DEF Reports, Sweep, LastPhase
<1>5. Wrongs'
  BY <1>1, WrongsKept DEF Inv
<1> QED BY <1>2, <1>3, <1>4, <1>5 DEF Inv

\* PHASE1 begins with the report of what was collected.
LEMMA CollectedStep ==
  ASSUME Inv, Collected
  PROVE  Inv'
<1>1. /\ phase = "collect" /\ phase' = "PHASE1" /\ todo' = Report
      /\ UNCHANGED <<probe, unit, at, matches, refs, asked, out, upset>>
  BY DEF Collected
<1>2. Report \in Seq(Questions) /\ Report' = Report
  <2>1. unit \in Units /\ matches \in Seq(1..Len(unit)) /\ refs \in Seq(1..Len(unit))
    BY DEF Inv, ProbesTypeOK
  <2> QED BY <1>1, <2>1, ReportType, QuestionsKept
<1>3. ProbesTypeOK'
  BY <1>1, <1>2 DEF Inv, ProbesTypeOK
<1>4. Phases'
  BY <1>1 DEF Inv, Phases
<1>5. Reports'
  <2>1. out["PHASE1"] = << >>
    BY <1>1 DEF Inv, Phases
  <2>2. Answered(<< >>, Report, Report)
    <3>1. Len(Report) \in Nat
      BY <1>2
    <3> QED BY <3>1, NoneAnswered
  <2>3. Answered(out["PHASE1"], Report, Report)
    BY ONLY <2>1, <2>2
  <2> QED BY ONLY <1>1, <1>2, <2>3 DEF Reports, LastPhase
<1>6. Wrongs'
  BY <1>1, WrongsKept DEF Inv
<1>7. Sweep'
  BY ONLY <1>1 DEF Sweep, LastPhase
<1> QED BY <1>3, <1>4, <1>5, <1>6, <1>7 DEF Inv

\* A phase ends when its questions are answered: what it was to ask was asked.
LEMMA NextPhaseStep ==
  ASSUME Inv, NextPhase
  PROVE  Inv'
<1>1. /\ phase \in {"PHASE1", "PHASE2", "PHASE3", "PHASE0"} /\ todo = << >>
      /\ UNCHANGED <<probe, unit, at, matches, refs, asked, out, upset>>
  BY DEF NextPhase
<1>2. /\ phase = "PHASE1" => phase' = "PHASE2" /\ todo' = Traffic
      /\ phase = "PHASE2" => phase' = "PHASE3" /\ todo' = Report
      /\ phase = "PHASE3" => phase' = "done" /\ todo' = << >>
      /\ phase = "PHASE0" => phase' = "done" /\ todo' = << >>
  BY DEF NextPhase, After
<1>3. Report \in Seq(Questions) /\ Traffic \in Seq(Questions) /\ << >> \in Seq(Questions)
  <2>1. unit \in Units /\ matches \in Seq(1..Len(unit)) /\ refs \in Seq(1..Len(unit))
    BY DEF Inv, ProbesTypeOK
  <2> QED BY <2>1, ReportType, TrafficSweeps
<1>4. Report' = Report /\ NestedReport' = NestedReport /\ Traffic' = Traffic
  BY <1>1, QuestionsKept
<1>5. ProbesTypeOK'
  BY <1>1, <1>2, <1>3, Zenon DEF Inv, ProbesTypeOK
<1>6. probe \in {"scale", "nested"}
  BY DEF Inv, ProbesTypeOK
<1>7. Phases'
  <2>1. Phases
    BY DEF Inv
  <2> QED BY ONLY <1>1, <1>2, <1>6, <2>1 DEF Phases
<1>8. phase = "PHASE0" => probe = "nested"
  BY DEF Inv, Phases
<1>9. phase # "PHASE0" => probe = "scale"
  BY <1>1 DEF Inv, Phases
<1>10. Reports'
  <2>1. Reports
    BY DEF Inv
  <2>2. Answered(<< >>, Report, Report)
    <3>1. Len(Report) \in Nat
      BY <1>3
    <3> QED BY <3>1, NoneAnswered
  <2>3. phase = "PHASE2" => Answered(out["PHASE3"], Report, Report)
    <3>1. phase = "PHASE2" => out["PHASE3"] = << >>
      BY DEF Inv, Phases
    <3> QED BY ONLY <2>2, <3>1
  <2>4. CASE phase = "PHASE1"
    BY ONLY <1>1, <1>2, <1>4, <2>1, <2>4, Zenon DEF Reports, LastPhase
  <2>5. CASE phase = "PHASE2"
    BY ONLY <1>1, <1>2, <1>4, <2>1, <2>3, <2>5, Zenon DEF Reports, LastPhase
  <2>6. CASE phase = "PHASE3"
    BY ONLY <1>1, <1>2, <1>4, <1>9, <2>1, <2>6, Zenon DEF Reports, LastPhase
  <2>7. CASE phase = "PHASE0"
    BY ONLY <1>1, <1>2, <1>4, <1>8, <2>1, <2>7, Zenon DEF Reports, LastPhase
  <2> QED BY <1>1, <2>4, <2>5, <2>6, <2>7
<1>11. Wrongs'
  BY <1>1, WrongsKept DEF Inv
<1>12. Sweep'
  <2>1. Sweep
    BY DEF Inv
  <2>2. CASE phase = "PHASE1"
    BY ONLY <1>1, <1>2, <1>4, <2>2, Zenon DEF Sweep, LastPhase
  <2>3. CASE phase = "PHASE2"
    <3>1. \A i \in 1..Len(Traffic) : Traffic[i][2] \in asked
      <4>1. Len(todo) = 0 /\ 1..0 = {}
        BY <1>1
      <4> QED BY ONLY <2>1, <2>3, <4>1, Zenon DEF Sweep
    <3>2. 1..Len(out["PHASE3"]) = {}
      <4>1. out["PHASE3"] = << >>
        BY <2>3 DEF Inv, Phases
      <4>2. Len(<< >>) = 0 /\ 1..0 = {}
        OBVIOUS
      <4> QED BY ONLY <4>1, <4>2
    <3>3. phase' = "PHASE3" /\ asked' = asked /\ out' = out
      BY <1>1, <1>2, <2>3
    <3> QED BY ONLY <1>4, <3>1, <3>2, <3>3 DEF Sweep, LastPhase
  <2>4. CASE phase = "PHASE3"
    BY ONLY <1>1, <1>2, <1>4, <2>1, <2>4, Zenon DEF Sweep, LastPhase
  <2>5. CASE phase = "PHASE0"
    BY ONLY <1>1, <1>2, <1>8, <2>5, Zenon DEF Sweep, LastPhase
  <2> QED BY <1>1, <2>2, <2>3, <2>4, <2>5
<1> QED BY <1>5, <1>7, <1>10, <1>11, <1>12 DEF Inv

\* One question: in a phase that prints, its answer is the next line.
LEMMA AskStep ==
  ASSUME Inv, Ask
  PROVE  Inv'
<1>1. todo \in Seq(Questions) /\ todo # << >>
  BY DEF Inv, ProbesTypeOK, Ask
<1>2. PICK q \in Questions : q = Head(todo)
  BY <1>1, HeadAndTail
<1>3. PICK t \in Types : t = q[2]
  BY DEF Questions
<1>4. PICK rest \in Seq(Questions) : rest = Tail(todo)
  BY <1>1, HeadAndTail, Zenon
<1>5. /\ Len(rest) \in Nat /\ Len(todo) = Len(rest) + 1 /\ todo[1] = q
      /\ \A i \in 1..Len(rest) : rest[i] = todo[i + 1]
  BY <1>1, <1>2, <1>4, HeadAndTail
<1>6. PICK line : line = <<q, Answer(t)>>
  OBVIOUS
<1>7. line \in Lines /\ line[1] = q /\ line[1][2] = t
      /\ (line[2] = "wrong" <=> upset[t] \in asked)
  BY ONLY <1>3, <1>6, q \in Questions DEF Lines, Answer
<1>8. /\ UNCHANGED <<probe, unit, phase, at, matches, refs, upset>>
      /\ asked' = asked \cup {t} /\ todo' = rest
      /\ out' = IF phase = "PHASE2" THEN out ELSE [out EXCEPT ![phase] = Append(@, line)]
  BY ONLY <1>2, <1>3, <1>4, <1>6, Ask, Zenon DEF Ask
<1>9. /\ phase \in {"PHASE0", "PHASE1", "PHASE2", "PHASE3"}
      /\ phase = "PHASE0" => probe = "nested"
      /\ phase # "PHASE0" => probe = "scale"
  BY <1>1 DEF Inv, ProbesTypeOK, Phases
<1>10. out \in [Printing -> Seq(Lines)]
  BY DEF Inv, ProbesTypeOK, Printing, Lines
<1>11. /\ out' \in [Printing -> Seq(Lines)]
       /\ \A p \in Printing : p # phase => out'[p] = out[p]
       /\ phase \in Printing => out'[phase] = Append(out[phase], line)
       /\ phase = "PHASE2" => out' = out
  <2>1. CASE phase = "PHASE2"
    <3>1. "PHASE2" \notin Printing
      BY DEF Printing
    <3> QED BY ONLY <1>8, <1>10, <2>1, <3>1
  <2>2. CASE phase # "PHASE2"
    <3>1. phase \in Printing
      BY <1>9, <2>2 DEF Printing
    <3>2. Append(out[phase], line) \in Seq(Lines)
      <4>1. out[phase] \in Seq(Lines)
        BY <1>10, <3>1
      <4> QED BY <1>7, <4>1, Appended
    <3>3. out' = [out EXCEPT ![phase] = Append(@, line)]
      BY <1>8, <2>2
    <3> QED BY ONLY <1>10, <2>2, <3>1, <3>2, <3>3
  <2> QED BY <2>1, <2>2
<1>12. ProbesTypeOK'
  <2>1. asked' \subseteq Types
    BY <1>8 DEF Inv, ProbesTypeOK
  <2>2. out' \in [{"PHASE0", "PHASE1", "PHASE3"} -> Seq(Questions \X {"right", "wrong"})]
    BY <1>11 DEF Printing, Lines
  <2>3. todo' \in Seq(Questions)
    BY <1>8
  <2> QED BY <1>8, <2>1, <2>2, <2>3, Zenon DEF Inv, ProbesTypeOK
<1>13. Report' = Report /\ NestedReport' = NestedReport /\ Traffic' = Traffic
  BY <1>8, QuestionsKept
<1>14. Phases'
  <2>1. Phases
    BY DEF Inv
  <2>2. \A p \in {"PHASE0", "PHASE1", "PHASE3"} : p # phase => out'[p] = out[p]
    BY <1>11 DEF Printing
  <2>3. phase' = phase /\ probe' = probe
    BY <1>8
  <2> QED BY ONLY <1>9, <2>1, <2>2, <2>3 DEF Phases, Printing
<1>15. Reports'
  <2>1. Reports
    BY DEF Inv
  <2>2. ASSUME NEW all, phase \in Printing, Answered(out[phase], todo, all)
        PROVE  Answered(out'[phase], rest, all)
    <3>1. out[phase] \in Seq(Lines) /\ out'[phase] = Append(out[phase], line)
      BY <1>10, <1>11, <2>2
    <3>2. line[1] = Head(todo)
      BY <1>2, <1>7
    <3>3. Answered(Append(out[phase], line), Tail(todo), all)
      BY <1>1, <1>7, <2>2, <3>1, <3>2, OneAnswered
    <3> QED BY ONLY <1>4, <3>1, <3>3
  <2>3. /\ phase = "PHASE0" => Answered(out'["PHASE0"], rest, NestedReport)
        /\ phase = "PHASE1" => Answered(out'["PHASE1"], rest, Report)
        /\ phase = "PHASE3" => Answered(out'["PHASE3"], rest, Report)
    BY ONLY <2>1, <2>2 DEF Reports, Printing
  <2>4. phase = "PHASE2" \/ phase = "PHASE3" => Answered(out'["PHASE1"], << >>, Report)
    <3>1. phase = "PHASE2" \/ phase = "PHASE3" => out'["PHASE1"] = out["PHASE1"]
      BY <1>11 DEF Printing
    <3> QED BY ONLY <2>1, <3>1 DEF Reports, LastPhase
  <2>5. phase' = phase /\ todo' = rest /\ phase # "done"
    BY <1>8, <1>9
  <2> QED BY ONLY <1>13, <2>3, <2>4, <2>5 DEF Reports, LastPhase
<1>16. ASSUME NEW p \in Printing, NEW i \in 1..Len(out'[p])
       PROVE  \/ i \in 1..Len(out[p]) /\ out'[p][i] = out[p][i]
              \/ p = phase /\ out'[p][i] = line
  <2>1. CASE p # phase
    BY <1>11, <2>1
  <2>2. CASE p = phase
    <3>1. PICK s \in Seq(Lines) : s = out[p]
      BY <1>10
    <3>2. out'[p] = Append(s, line)
      BY <1>11, <2>2, <3>1
    <3>3. /\ Len(Append(s, line)) = Len(s) + 1 /\ Len(s) \in Nat
          /\ \A k \in 1..Len(s) : Append(s, line)[k] = s[k]
          /\ Append(s, line)[Len(s) + 1] = line
      BY <1>7, Appended
    <3>4. i \in 1..Len(s) \/ i = Len(s) + 1
      BY ONLY <3>2, <3>3, i \in 1..Len(out'[p])
    <3> QED BY ONLY <2>2, <3>1, <3>2, <3>3, <3>4
  <2> QED BY <2>1, <2>2
<1>17. Wrongs'
  <2> SUFFICES ASSUME NEW p \in Printing, NEW i \in 1..Len(out'[p]), out'[p][i][2] = "wrong"
               PROVE  upset[out'[p][i][1][2]] \in asked \cup {t}
    BY <1>8 DEF Wrongs
  <2>1. CASE i \in 1..Len(out[p]) /\ out'[p][i] = out[p][i]
    <3>1. upset[out[p][i][1][2]] \in asked
      BY <2>1 DEF Inv, Wrongs
    <3> QED BY <2>1, <3>1
  <2>2. CASE out'[p][i] = line
    BY ONLY <1>7, <2>2, out'[p][i][2] = "wrong"
  <2> QED BY <1>16, <2>1, <2>2
<1>18. Sweep'
  <2>1. Sweep /\ phase' = phase /\ probe' = probe /\ Traffic' = Traffic
        /\ asked' = asked \cup {t} /\ todo' = rest /\ upset' = upset /\ phase # "done"
    BY <1>8, <1>9, <1>13 DEF Inv
  <2>2. ASSUME phase = "PHASE2", NEW i \in 1..Len(Traffic)
        PROVE  Traffic[i][2] \in asked \cup {t} \/ \E j \in 1..Len(rest) : rest[j] = Traffic[i]
    <3>1. CASE Traffic[i][2] \in asked
      BY <3>1
    <3>2. CASE \E j \in 1..Len(todo) : todo[j] = Traffic[i]
      <4>1. PICK j \in 1..Len(todo) : todo[j] = Traffic[i]
        BY <3>2
      <4>2. CASE j = 1
        BY ONLY <1>3, <1>5, <4>1, <4>2
      <4>3. CASE j # 1
        <5>1. j - 1 \in 1..Len(rest) /\ j - 1 + 1 = j
          BY ONLY <1>5, <4>3, j \in 1..Len(todo)
        <5>2. rest[j - 1] = Traffic[i]
          BY ONLY <1>5, <4>1, <5>1
        <5> QED BY ONLY <5>1, <5>2
      <4> QED BY <4>2, <4>3
    <3> QED BY <2>1, <2>2, <3>1, <3>2 DEF Sweep
  <2>3. CASE phase = "PHASE3"
    <3>1. \A i \in 1..Len(Traffic) : Traffic[i][2] \in asked
      BY <2>1, <2>3 DEF Sweep, LastPhase
    <3>2. ASSUME NEW i \in 1..Len(out'["PHASE3"]), NEW j \in 1..Len(Traffic),
                 Traffic[j][2] = upset[out'["PHASE3"][i][1][2]]
          PROVE  out'["PHASE3"][i][2] = "wrong"
      <4>1. "PHASE3" \in Printing
        BY DEF Printing
      <4>2. CASE i \in 1..Len(out["PHASE3"]) /\ out'["PHASE3"][i] = out["PHASE3"][i]
        <5>1. Traffic[j][2] = upset[out["PHASE3"][i][1][2]]
          BY <3>2, <4>2
        <5>2. out["PHASE3"][i][2] = "wrong"
          BY ONLY <2>1, <2>3, <4>2, <5>1, j \in 1..Len(Traffic) DEF Sweep, LastPhase
        <5> QED BY <4>2, <5>2
      <4>3. CASE out'["PHASE3"][i] = line
        BY ONLY <1>7, <3>1, <3>2, <4>3
      <4> QED BY <1>16, <4>1, <4>2, <4>3
    <3> QED BY ONLY <2>1, <2>3, <3>1, <3>2 DEF Sweep, LastPhase
  <2>4. CASE phase = "PHASE2"
    BY ONLY <2>1, <2>2, <2>4 DEF Sweep, LastPhase
  <2>5. CASE phase \notin {"PHASE2", "PHASE3"}
    BY ONLY <2>1, <2>5 DEF Sweep, LastPhase
  <2> QED BY <2>3, <2>4, <2>5
<1> QED BY <1>12, <1>14, <1>15, <1>17, <1>18 DEF Inv

\* The invariant.
LEMMA Invariance ==
  ProbesSpec => []Inv
<1>1. ProbesInit => Inv
  BY Started
<1>2. Inv /\ [ProbesNext]_probesVars => Inv'
  <2> SUFFICES ASSUME Inv, [ProbesNext]_probesVars PROVE Inv'
    OBVIOUS
  <2>1. ASSUME NEW ok \in BOOLEAN, Parse(ok) PROVE Inv'
    BY <2>1, ParseStep
  <2>2. CASE Collect
    BY <2>2, CollectStep
  <2>3. CASE Collected
    BY <2>3, CollectedStep
  <2>4. CASE Ask
    BY <2>4, AskStep
  <2>5. CASE NextPhase
    BY <2>5, NextPhaseStep
  <2>6. CASE UNCHANGED probesVars
    <3>1. /\ probe' = probe /\ unit' = unit /\ phase' = phase /\ at' = at
          /\ matches' = matches /\ refs' = refs /\ todo' = todo /\ asked' = asked
          /\ out' = out /\ upset' = upset
      BY <2>6 DEF probesVars
    <3>2. Report' = Report /\ NestedReport' = NestedReport /\ Traffic' = Traffic
      BY <3>1, QuestionsKept
    <3>3. ProbesTypeOK' /\ Phases' /\ Wrongs'
      BY <3>1, Zenon DEF Inv, ProbesTypeOK, Phases, Wrongs
    <3>4. Reports' /\ Sweep'
      BY <3>1, <3>2 DEF Inv, Reports, Sweep, LastPhase
    <3> QED BY <3>3, <3>4 DEF Inv
  <2> QED BY <2>1, <2>2, <2>3, <2>4, <2>5, <2>6 DEF ProbesNext
<1> QED BY <1>1, <1>2, PTL DEF ProbesSpec

-----------------------------------------------------------------------------
(* The properties *)

\* For any units, types and limits, the programs of scale_probe.c and
\* nested_probe.c keep their types: no array overflows, and every question is
\* about a type libclang knows.
THEOREM ProbesTypeCorrect == ProbesSpec => []ProbesTypeOK
<1>1. Inv => ProbesTypeOK
  BY DEF Inv
<1> QED BY <1>1, Invariance, PTL

\* For any units and any libclang, PHASE1 and PHASE3 of scale_probe.c differ only
\* where an answer does: the two ask the same questions in the same order.
THEOREM DiffIsDisorder == ProbesSpec => []DiffMeansDisorder
<1>1. ASSUME Inv, phase = "done", out["PHASE1"] # out["PHASE3"]
      PROVE  \E i \in 1..Len(out["PHASE1"]) : upset[out["PHASE1"][i][1][2]] \in asked
  <2>1. PICK a \in Seq(Lines) : a = out["PHASE1"]
    BY <1>1 DEF Inv, ProbesTypeOK, Lines
  <2>2. PICK b \in Seq(Lines) : b = out["PHASE3"]
    BY <1>1 DEF Inv, ProbesTypeOK, Lines
  <2>3. probe = "scale"
    BY <1>1 DEF Inv, ProbesTypeOK, Phases
  <2>4. Answered(a, << >>, Report) /\ Answered(b, << >>, Report)
    BY <1>1, <2>1, <2>2, <2>3 DEF Inv, Reports, LastPhase
  <2>5. PICK n \in Nat : n = Len(a)
    BY <2>1
  <2>6. /\ Len(b) = n /\ \A i \in 1..n : a[i][1] = b[i][1]
    <3>1. Len(<< >>) = 0 /\ Len(a) \in Nat /\ Len(b) \in Nat
      BY <2>1, <2>2
    <3> QED BY ONLY <2>4, <2>5, <3>1 DEF Answered
  <2>7. \A i \in 1..n : /\ a[i] = <<a[i][1], a[i][2]>> /\ b[i] = <<b[i][1], b[i][2]>>
                        /\ a[i][2] \in {"right", "wrong"} /\ b[i][2] \in {"right", "wrong"}
    <3>1. \A i \in 1..n : a[i] \in Lines /\ b[i] \in Lines
      BY <2>5, <2>6
    <3> QED BY ONLY <3>1 DEF Lines
  <2>8. PICK i \in 1..n : a[i] # b[i]
    BY <1>1, <2>1, <2>2, <2>5, <2>6, SeqEqual
  <2>9. a[i][2] = "wrong" \/ b[i][2] = "wrong"
    <3>1. a[i][1] = b[i][1]
      BY <2>6
    <3>2. a[i][2] # b[i][2]
      BY ONLY <2>7, <2>8, <3>1, i \in 1..n, Zenon
    <3> QED BY ONLY <2>7, <3>2, i \in 1..n
  <2>10. Wrongs /\ "PHASE1" \in Printing /\ "PHASE3" \in Printing
    BY <1>1 DEF Inv, Printing
  <2>11. CASE a[i][2] = "wrong"
    BY ONLY <2>1, <2>5, <2>10, <2>11, i \in 1..n DEF Wrongs
  <2>12. CASE b[i][2] = "wrong"
    <3>1. upset[b[i][1][2]] \in asked
      BY ONLY <2>2, <2>6, <2>10, <2>12, i \in 1..n DEF Wrongs
    <3> QED BY ONLY <2>1, <2>5, <2>6, <3>1, i \in 1..n
  <2> QED BY <2>9, <2>11, <2>12
<1>2. Inv => DiffMeansDisorder
  BY <1>1 DEF DiffMeansDisorder
<1> QED BY <1>2, Invariance, PTL

\* For any units and any libclang, whatever of the sweep upsets libclang about a
\* type shows in every line of PHASE3 about that type.
THEOREM UpsetsShown == ProbesSpec => []UpsetShows
<1>1. ASSUME Inv, phase = "done", probe = "scale", NEW i \in 1..Len(out["PHASE3"]),
             upset[out["PHASE3"][i][1][2]] \in Swept
      PROVE  out["PHASE3"][i][2] = "wrong"
  <2>1. unit \in Units /\ Sweep
    BY <1>1 DEF Inv, ProbesTypeOK
  <2>2. PICK j \in 1..Len(Traffic) : Traffic[j][2] = upset[out["PHASE3"][i][1][2]]
    BY <1>1, <2>1, TrafficSweeps
  <2> QED BY ONLY <1>1, <2>1, <2>2 DEF Sweep, LastPhase
<1>2. Inv => UpsetShows
  BY <1>1 DEF UpsetShows
<1> QED BY <1>2, Invariance, PTL

\* For any units, nested_probe.c prints one kind for each field of the records it
\* looks for, and none of a sugared type unless a type has more layers than are
\* taken off.
THEOREM KindsTrue == ProbesSpec => []KindsUnwrapped
<1>1. ASSUME Inv, phase = "done", probe = "nested" PROVE KindsUnwrapped
  <2>1. unit \in Units /\ Answered(out["PHASE0"], << >>, NestedReport)
    BY <1>1 DEF Inv, ProbesTypeOK, Reports
  <2>2. PICK r \in Seq(Questions) : r = NestedReport
    BY <2>1, NestedAsks
  <2>3. PICK h : AsksKinds(h, r, AllNestedFields)
    BY <2>1, <2>2, NestedAsks
  <2>4. PICK lines \in Seq(Lines) : lines = out["PHASE0"]
    BY <1>1 DEF Inv, ProbesTypeOK, Lines
  <2>5. Len(lines) = Len(r) /\ \A k \in 1..Len(r) : lines[k][1] = r[k]
    <3>1. Len(<< >>) = 0 /\ Len(lines) \in Nat /\ Len(r) \in Nat
      BY <2>2, <2>4
    <3> QED BY ONLY <2>1, <2>2, <2>4, <3>1 DEF Answered
  <2>6. PICK kinds : kinds = {k \in 1..Len(lines) : lines[k][1][1] = "kind"}
    OBVIOUS
  <2>7. kinds = {k \in 1..Len(r) : r[k][1] = "kind"}
    BY ONLY <2>5, <2>6
  <2>8. Cardinality(kinds) = Cardinality(AllNestedFields)
    <3>1. Cardinality({k \in 1..Len(r) : r[k][1] = "kind"}) = Cardinality(AllNestedFields)
      BY <2>3, KindsCounted
    <3> QED BY ONLY <2>7, <3>1
  <2>9. ASSUME \A f \in AllNestedFields : Layers(unit[f].type) = {}, NEW k \in kinds
        PROVE  Info[lines[k][1][2]].below = NoType
    <3>1. k \in 1..Len(r) /\ r[k][1] = "kind" /\ lines[k][1] = r[k]
      BY ONLY <2>5, <2>7, <2>9
    <3>2. h[k] \in AllNestedFields /\ r[k][2] = Unwrapped(unit[h[k]].type)
      BY ONLY <2>3, <3>1, Zenon DEF AsksKinds
    <3>3. PICK t \in Types : t = unit[h[k]].type
      <4>1. h[k] \in 1..Len(unit)
        BY ONLY <3>2 DEF AllNestedFields
      <4> QED BY <2>1, <4>1, UnitType
    <3>4. Layers(t) = {}
      BY ONLY <2>9, <3>2, <3>3
    <3>5. Info[Unwrapped(t)].below = NoType
      BY <3>4, NoLayerLeft
    <3> QED BY ONLY <3>1, <3>2, <3>3, <3>5
  <2> QED BY ONLY <2>4, <2>6, <2>8, <2>9, Zenon DEF KindsUnwrapped, AllNestedFields
<1>2. Inv => KindsUnwrapped
  BY <1>1 DEF KindsUnwrapped
<1> QED BY <1>2, Invariance, PTL
=============================================================================
