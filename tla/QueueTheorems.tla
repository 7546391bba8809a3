--------------------------- MODULE QueueTheorems ----------------------------
(***************************************************************************)
(* What the operators of MessageQueue return, for every queue.             *)
(***************************************************************************)
EXTENDS MessageQueue, FiniteSetTheorems, SequenceTheorems, WellFoundedInduction, TLAPS

\* Every nonempty set of naturals has a least member.
LEMMA LeastNatural ==
  ASSUME NEW T \in SUBSET Nat, T # {}
  PROVE  \E m \in T : \A k \in T : m <= k
<1>1. \E m \in T : \A k \in T : ~ (<<k, m>> \in OpToRel(<, Nat))
  BY NatLessThanWellFounded, WFMin
<1>2. PICK m \in T : \A k \in T : ~ (<<k, m>> \in OpToRel(<, Nat))
  BY <1>1
<1>3. \A k \in T : ~ (k < m)
  BY <1>2 DEF OpToRel
<1> QED
  BY <1>3

\* A set of positions is finite, and no larger than the sequence.
LEMMA Positions ==
  ASSUME NEW n \in Nat, NEW J, \A k \in J : k \in 1..n
  PROVE  IsFiniteSet(J) /\ Cardinality(J) \in 0..n
<1>1. IsFiniteSet(1..n) /\ Cardinality(1..n) = n
  BY FS_Interval
<1>2. J \in SUBSET (1..n)
  OBVIOUS
<1>3. IsFiniteSet(J) /\ Cardinality(J) <= Cardinality(1..n)
  BY <1>1, <1>2, FS_Subset
<1>4. Cardinality(J) \in Nat
  BY <1>3, FS_CardinalityType
<1> QED
  BY <1>1, <1>3, <1>4

\* The i-th smallest member of a set of positions exists: the number of members
\* up to k grows by at most one with k, so it takes the value i, first at a member.
LEMMA NthMember ==
  ASSUME NEW n \in Nat, NEW J, \A k \in J : k \in 1..n,
         NEW i \in 1..Cardinality(J)
  PROVE  /\ Nth(J, i) \in J
         /\ Cardinality({k \in J : k <= Nth(J, i)}) = i
<1> DEFINE upTo(m) == {k \in J : k <= m}
           T == {m \in 0..n : i <= Cardinality(upTo(m))}
<1>1. IsFiniteSet(J) /\ Cardinality(J) \in Nat
  BY Positions
<1>2. \A m : IsFiniteSet(upTo(m)) /\ Cardinality(upTo(m)) \in Nat
  BY <1>1, FS_Subset, FS_CardinalityType
<1>3. n \in T
  <2>1. upTo(n) = J
    OBVIOUS
  <2> QED
    BY <2>1, <1>1
<1>4. PICK m \in T : \A k \in T : m <= k
  <2>1. T \in SUBSET Nat /\ T # {}
    BY <1>3
  <2> QED
    BY <2>1, LeastNatural
<1>5. m > 0
  <2>1. upTo(0) = {}
    OBVIOUS
  <2>2. Cardinality(upTo(0)) = 0
    BY <2>1, FS_EmptySet
  <2> QED
    BY <2>2, <1>4
<1>6. Cardinality(upTo(m - 1)) < i
  <2>1. m - 1 \in 0..n /\ m - 1 \notin T
    BY <1>4, <1>5
  <2>2. Cardinality(upTo(m - 1)) \in Nat
    BY <1>2
  <2> QED
    BY <2>1, <2>2
<1>7. m \in J
  <2>1. SUFFICES ASSUME m \notin J PROVE FALSE
    OBVIOUS
  <2>2. upTo(m) = upTo(m - 1)
    BY <2>1, <1>4, <1>5
  <2> QED
    BY <2>2, <1>2, <1>4, <1>6
<1>8. Cardinality(upTo(m)) = Cardinality(upTo(m - 1)) + 1
  <2>1. \A k \in J : k <= m <=> (k <= m - 1 \/ k = m)
    BY <1>4, <1>5
  <2>2. upTo(m) = upTo(m - 1) \cup {m}
    BY <2>1, <1>7
  <2>3. m \notin upTo(m - 1)
    BY <1>4
  <2>4. IsFiniteSet(upTo(m - 1))
    BY <1>2
  <2> HIDE DEF upTo
  <2> QED
    BY <2>2, <2>3, <2>4, FS_AddElement
<1>9. Cardinality(upTo(m)) = i
  BY <1>2, <1>4, <1>6, <1>8
<1> QED
  BY <1>7, <1>9 DEF Nth

\* A list comprehension keeps elements of the list, and none of the ones it drops.
LEMMA WithoutType ==
  ASSUME NEW S, NEW s \in Seq(S), NEW X
  PROVE  /\ Without(s, X) \in Seq(S)
         /\ \A i \in 1..Len(Without(s, X)) : Without(s, X)[i] \notin X
<1> DEFINE keep == {i \in 1..Len(s) : s[i] \notin X}
<1>1. (\A k \in keep : k \in 1..Len(s)) /\ Len(s) \in Nat
  OBVIOUS
<1>2. Cardinality(keep) \in Nat
  BY <1>1, Positions
<1>3. \A i \in 1..Cardinality(keep) : Nth(keep, i) \in keep
  BY <1>1, NthMember
<1>4. \A i \in 1..Cardinality(keep) : s[Nth(keep, i)] \in S \ X
  BY <1>3
<1> DEFINE kept == [i \in 1..Cardinality(keep) |-> s[Nth(keep, i)]]
<1>5. Without(s, X) = kept
  BY DEF Without
<1> HIDE DEF keep
<1>6. kept \in Seq(S) /\ Len(kept) = Cardinality(keep)
  BY <1>2, <1>4
<1>7. \A i \in 1..Len(kept) : kept[i] \notin X
  BY <1>4, <1>6
<1> HIDE DEF kept
<1> QED
  BY <1>5, <1>6, <1>7

\* add_message puts the message somewhere among the others.
LEMMA AddMessageType ==
  ASSUME NEW S, NEW s \in Seq(S), NEW m \in S, NEW prio, NEW type
  PROVE  AddMessage(s, m, prio, type) \in Seq(S)
<1> DEFINE n == Cardinality(Ahead(s, m, prio, type))
<1>1. n \in 0..Len(s)
  <2>1. (\A k \in Ahead(s, m, prio, type) : k \in 1..Len(s)) /\ Len(s) \in Nat
    BY DEF Ahead
  <2> QED
    BY <2>1, Positions
<1> HIDE DEF n
<1>2. SubSeq(s, 1, n) \in Seq(S) /\ SubSeq(s, n + 1, Len(s)) \in Seq(S)
  BY <1>1
<1>3. AddMessage(s, m, prio, type) = SubSeq(s, 1, n) \o <<m>> \o SubSeq(s, n + 1, Len(s))
  BY DEF AddMessage, n
<1> QED
  BY <1>2, <1>3
\* Every member of a set of positions is the i-th smallest for one i.
LEMMA NthOnto ==
  ASSUME NEW n \in Nat, NEW J, \A k \in J : k \in 1..n
  PROVE  /\ Cardinality(J) \in Nat
         /\ \A i \in 1..Cardinality(J) : Nth(J, i) \in J
         /\ \A i, j \in 1..Cardinality(J) : Nth(J, i) = Nth(J, j) => i = j
         /\ \A x \in J : \E i \in 1..Cardinality(J) : Nth(J, i) = x
<1> DEFINE D == 1..Cardinality(J)
           nth == [i \in D |-> Nth(J, i)]
<1>1. IsFiniteSet(J) /\ Cardinality(J) \in Nat
  BY Positions
<1>2. \A i \in D : Nth(J, i) \in J /\ Cardinality({k \in J : k <= Nth(J, i)}) = i
  BY NthMember
<1>3. \A i, j \in D : Nth(J, i) = Nth(J, j) => i = j
  BY <1>2
<1>4. ASSUME NEW x \in J, \A i \in D : Nth(J, i) # x
      PROVE  FALSE
  <2>1. IsFiniteSet(J \ {x}) /\ Cardinality(J \ {x}) = Cardinality(J) - 1
    BY <1>1, FS_RemoveElement
  <2>2. IsFiniteSet(D) /\ Cardinality(D) = Cardinality(J)
    BY <1>1, FS_Interval
  <2>3. nth \in [D -> J \ {x}]
    BY <1>2, <1>4
  <2>4. Cardinality(J \ {x}) < Cardinality(D)
    BY <1>1, <2>1, <2>2
  <2>5. \A i \in D : nth[i] = Nth(J, i)
    OBVIOUS
  <2>6. \E i, j \in D : i # j /\ nth[i] = nth[j]
    <3> HIDE DEF D, nth
    <3> QED
      BY <2>1, <2>2, <2>3, <2>4, FS_PigeonHole
  <2> QED
    BY <1>3, <2>5, <2>6
<1> QED
  BY <1>1, <1>2, <1>3, <1>4

\* What a list holds, and that it holds nothing twice.
Members(s) == {s[i] : i \in 1..Len(s)}
Distinct(s) == \A i, j \in 1..Len(s) : s[i] = s[j] => i = j

\* A list comprehension keeps what it does not drop, each as often as it was there.
LEMMA WithoutMembers ==
  ASSUME NEW S, NEW s \in Seq(S), NEW X
  PROVE  /\ Members(Without(s, X)) = Members(s) \ X
         /\ Distinct(s) => Distinct(Without(s, X))
<1>1. PICK J : J = {i \in 1..Len(s) : s[i] \notin X}
  OBVIOUS
<1>2. (\A k \in J : k \in 1..Len(s)) /\ Len(s) \in Nat
  BY <1>1
<1>3. /\ Cardinality(J) \in Nat
      /\ \A i \in 1..Cardinality(J) : Nth(J, i) \in J
      /\ \A i, j \in 1..Cardinality(J) : Nth(J, i) = Nth(J, j) => i = j
      /\ \A x \in J : \E i \in 1..Cardinality(J) : Nth(J, i) = x
  BY <1>2, NthOnto
<1>4. PICK u : u = Without(s, X)
  OBVIOUS
<1>5. u = [i \in 1..Cardinality(J) |-> s[Nth(J, i)]]
  BY <1>1, <1>4 DEF Without
<1>6. Len(u) = Cardinality(J) /\ \A i \in 1..Cardinality(J) : u[i] = s[Nth(J, i)]
  BY <1>3, <1>5
<1>7. Members(u) \subseteq Members(s) \ X
  <2>1. \A i \in 1..Len(u) : s[Nth(J, i)] \in Members(s) \ X
    BY <1>1, <1>3, <1>6 DEF Members
  <2> QED
    BY <1>6, <2>1 DEF Members
<1>8. ASSUME NEW x \in Members(s) \ X
      PROVE  x \in Members(u)
  <2>1. PICK k \in 1..Len(s) : s[k] = x
    BY DEF Members
  <2>2. PICK i \in 1..Cardinality(J) : Nth(J, i) = k
    BY <1>1, <1>3, <2>1
  <2> QED
    BY <1>6, <2>1, <2>2 DEF Members
<1>9. ASSUME Distinct(s)
      PROVE  Distinct(u)
  <2>1. SUFFICES ASSUME NEW i \in 1..Len(u), NEW j \in 1..Len(u), u[i] = u[j]
                 PROVE  i = j
    BY DEF Distinct
  <2>2. Nth(J, i) \in 1..Len(s) /\ Nth(J, j) \in 1..Len(s) /\ s[Nth(J, i)] = s[Nth(J, j)]
    BY <1>2, <1>3, <1>6, <2>1
  <2>3. Nth(J, i) = Nth(J, j)
    BY <1>9, <2>2 DEF Distinct
  <2> QED
    BY <1>3, <1>6, <2>3
<1> QED
  BY <1>4, <1>7, <1>8, <1>9

\* add_message leaves every other message where it was or one place later.
LEMMA AddMessageAt ==
  ASSUME NEW S, NEW s \in Seq(S), NEW m \in S, NEW prio, NEW type
  PROVE  \E n, u :
           /\ n = Cardinality(Ahead(s, m, prio, type)) /\ u = AddMessage(s, m, prio, type)
           /\ n \in 0..Len(s) /\ Len(s) \in Nat /\ Len(u) = Len(s) + 1
           /\ \A i \in 1..Len(u) :
                u[i] = IF i <= n THEN s[i] ELSE IF i = n + 1 THEN m ELSE s[i - 1]
<1>1. PICK n : n = Cardinality(Ahead(s, m, prio, type))
  OBVIOUS
<1>2. PICK u : u = AddMessage(s, m, prio, type)
  OBVIOUS
<1>3. n \in 0..Len(s) /\ Len(s) \in Nat
  <2>1. (\A k \in Ahead(s, m, prio, type) : k \in 1..Len(s)) /\ Len(s) \in Nat
    BY DEF Ahead
  <2> QED
    BY <1>1, <2>1, Positions
<1>4. u = SubSeq(s, 1, n) \o <<m>> \o SubSeq(s, n + 1, Len(s))
  BY <1>1, <1>2 DEF AddMessage
<1>5. /\ Len(u) = Len(s) + 1
      /\ \A i \in 1..Len(u) : u[i] = IF i <= n THEN s[i] ELSE IF i = n + 1 THEN m ELSE s[i - 1]
  <2>1. PICK a : a = SubSeq(s, 1, n)
    OBVIOUS
  <2>2. PICK b : b = SubSeq(s, n + 1, Len(s))
    OBVIOUS
  <2>3. a \in Seq(S) /\ Len(a) = n /\ \A i \in 1..n : a[i] = s[i]
    BY <1>3, <2>1
  <2>4. b \in Seq(S) /\ Len(b) = Len(s) - n /\ \A i \in 1..Len(b) : b[i] = s[n + i]
    BY <1>3, <2>2
  <2>5. PICK v : v = a \o <<m>>
    OBVIOUS
  <2>6. v \in Seq(S) /\ Len(v) = n + 1 /\ (\A i \in 1..n : v[i] = s[i]) /\ v[n + 1] = m
    BY <1>3, <2>3, <2>5
  <2>7. u = v \o b
    BY <1>4, <2>1, <2>2, <2>5
  <2>8. /\ Len(u) = Len(v) + Len(b)
        /\ \A i \in 1..Len(u) : u[i] = IF i <= Len(v) THEN v[i] ELSE b[i - Len(v)]
    <3>1. v \in Seq(S) /\ b \in Seq(S)
      BY <2>4, <2>6
    <3>2. /\ Len(v \o b) = Len(v) + Len(b)
          /\ \A i \in 1..Len(v) + Len(b) :
               (v \o b)[i] = IF i <= Len(v) THEN v[i] ELSE b[i - Len(v)]
      BY <3>1, ConcatProperties
    <3> QED
      BY <2>7, <3>2
  <2>9. \A i \in 1..Len(u) : i > n + 1 => i - (n + 1) \in 1..Len(b) /\ n + (i - (n + 1)) = i - 1
    BY <1>3, <2>4, <2>6, <2>8
  <2>10. \A i \in 1..Len(u) : i > n + 1 => u[i] = s[i - 1]
    <3>1. SUFFICES ASSUME NEW i \in 1..Len(u), i > n + 1
                   PROVE  u[i] = s[i - 1]
      OBVIOUS
    <3>2. u[i] = b[i - (n + 1)]
      BY <1>3, <2>6, <2>8, <3>1
    <3>3. PICK k \in 1..Len(b) : k = i - (n + 1) /\ n + k = i - 1
      BY <2>9, <3>1
    <3>4. b[k] = s[n + k]
      BY <2>4, <3>3
    <3> QED
      BY <3>2, <3>3, <3>4
  <2>11. \A i \in 1..Len(u) : i <= n => i \in 1..n /\ u[i] = s[i]
    BY <1>3, <2>4, <2>6, <2>8
  <2>12. \A i \in 1..Len(u) : i = n + 1 => u[i] = m
    BY <1>3, <2>4, <2>6, <2>8
  <2>13. Len(u) = Len(s) + 1
    BY <1>3, <2>4, <2>6, <2>8
  <2> QED
    BY <1>3, <2>10, <2>11, <2>12, <2>13
<1> QED
  BY <1>3, <1>5, <1>1, <1>2

\* It adds the message to those of the queue.
LEMMA AddMessageMembers ==
  ASSUME NEW S, NEW s \in Seq(S), NEW m \in S, NEW prio, NEW type
  PROVE  /\ Members(AddMessage(s, m, prio, type)) = Members(s) \cup {m}
         /\ Distinct(s) /\ m \notin Members(s) => Distinct(AddMessage(s, m, prio, type))
<1>1. PICK n, u :
        /\ n = Cardinality(Ahead(s, m, prio, type)) /\ u = AddMessage(s, m, prio, type)
        /\ n \in 0..Len(s) /\ Len(s) \in Nat /\ Len(u) = Len(s) + 1
        /\ \A i \in 1..Len(u) :
             u[i] = IF i <= n THEN s[i] ELSE IF i = n + 1 THEN m ELSE s[i - 1]
  BY AddMessageAt
<1>2. u = AddMessage(s, m, prio, type)
  BY <1>1
<1>3. n \in 0..Len(s) /\ Len(s) \in Nat /\ Len(u) = Len(s) + 1
  BY <1>1
<1>4. Members(u) = Members(s) \cup {m}
  <2>1. \A i \in 1..Len(u) : u[i] \in Members(s) \cup {m}
    <3>1. \A i \in 1..Len(u) : i <= n \/ i = n + 1 \/ (i # n + 1 /\ i - 1 \in 1..Len(s))
      BY <1>3, <1>1
    <3> QED
      BY <1>3, <1>1, <3>1 DEF Members
  <2>2. \A k \in 1..Len(s) : s[k] \in Members(u)
    <3>1. \A k \in 1..Len(s) : /\ k <= n => k \in 1..Len(u) /\ u[k] = s[k]
                               /\ k > n => k + 1 \in 1..Len(u) /\ u[k + 1] = s[k]
      BY <1>3, <1>1
    <3>2. ASSUME NEW k \in 1..Len(s), k <= n PROVE s[k] \in Members(u)
      BY <3>1, <3>2 DEF Members
    <3>3. ASSUME NEW k \in 1..Len(s), k > n PROVE s[k] \in Members(u)
      BY <3>1, <3>3 DEF Members
    <3>4. \A k \in 1..Len(s) : k <= n \/ k > n
      BY <1>3
    <3> QED
      BY <3>2, <3>3, <3>4
  <2>3. m \in Members(u)
    <3>1. n + 1 \in 1..Len(u) /\ u[n + 1] = m
      BY <1>3, <1>1
    <3> QED
      BY <3>1 DEF Members
  <2> QED
    BY <2>1, <2>2, <2>3 DEF Members
<1>5. ASSUME Distinct(s), m \notin Members(s)
      PROVE  Distinct(u)
  <2>1. PICK at : at = [i \in 1..Len(u) |-> IF i <= n THEN i ELSE i - 1]
    OBVIOUS
  <2>2. \A i \in 1..Len(u) : i # n + 1 => at[i] \in 1..Len(s) /\ u[i] = s[at[i]] /\ u[i] # m
    <3>1. ASSUME NEW i \in 1..Len(u), i # n + 1
          PROVE  at[i] \in 1..Len(s) /\ u[i] = s[at[i]]
      <4>1. CASE i <= n
        <5>1. at[i] = i /\ i \in 1..Len(s)
          BY <1>3, <2>1, <4>1
        <5> QED
          BY <1>1, <4>1, <5>1
      <4>2. CASE i > n
        <5>1. at[i] = i - 1 /\ i - 1 \in 1..Len(s) /\ ~(i <= n)
          BY <1>3, <2>1, <3>1, <4>2
        <5> QED
          BY <1>1, <3>1, <5>1
      <4> QED
        BY <1>3, <4>1, <4>2
    <3> QED
      BY <1>5, <3>1 DEF Members
  <2>3. \A i, j \in 1..Len(u) : i # n + 1 /\ j # n + 1 /\ at[i] = at[j] => i = j
    BY SMTT(30), <1>3, <2>1
  <2>4. \A i \in 1..Len(u) : i = n + 1 => u[i] = m
    BY <1>3, <1>1
  <2>5. SUFFICES ASSUME NEW i \in 1..Len(u), NEW j \in 1..Len(u), u[i] = u[j]
                 PROVE  i = j
    BY DEF Distinct
  <2>6. CASE i # n + 1 /\ j # n + 1
    <3>1. at[i] = at[j]
      BY <1>5, <2>2, <2>5, <2>6 DEF Distinct
    <3> QED
      BY <2>3, <2>6, <3>1
  <2> QED
    BY <2>2, <2>4, <2>5, <2>6
<1> QED
  BY <1>2, <1>4, <1>5

\* A pop takes the first message, and no other.
LEMMA PopMembers ==
  ASSUME NEW S, NEW s \in Seq(S), s # <<>>
  PROVE  /\ Head(s) \in Members(s) /\ Members(s) = Members(Tail(s)) \cup {Head(s)}
         /\ Distinct(s) => Distinct(Tail(s)) /\ Head(s) \notin Members(Tail(s))
<1>1. /\ Len(s) \in Nat /\ Len(s) >= 1 /\ Head(s) = s[1]
      /\ Len(Tail(s)) = Len(s) - 1
      /\ \A k \in 1..Len(Tail(s)) : k + 1 \in 1..Len(s) /\ Tail(s)[k] = s[k + 1]
  BY HeadTailProperties, LenProperties, EmptySeq
<1>2. 1 \in 1..Len(s) /\ Head(s) \in Members(s)
  BY <1>1 DEF Members
<1>3. Members(s) \subseteq Members(Tail(s)) \cup {Head(s)}
  <2>1. \A k \in 1..Len(s) : k = 1 \/ (k - 1 \in 1..Len(Tail(s)) /\ Tail(s)[k - 1] = s[k])
    BY <1>1
  <2> QED
    BY <1>1, <2>1 DEF Members
<1>4. Members(Tail(s)) \subseteq Members(s)
  BY <1>1 DEF Members
<1>5. ASSUME Distinct(s)
      PROVE  Distinct(Tail(s)) /\ Head(s) \notin Members(Tail(s))
  <2>1. Distinct(Tail(s))
    <3>1. SUFFICES ASSUME NEW i \in 1..Len(Tail(s)), NEW j \in 1..Len(Tail(s)),
                          Tail(s)[i] = Tail(s)[j]
                   PROVE  i = j
      BY DEF Distinct
    <3>2. i + 1 = j + 1
      BY <1>1, <1>5, <3>1 DEF Distinct
    <3> QED
      BY <1>1, <3>2
  <2>2. ASSUME NEW k \in 1..Len(Tail(s)), Tail(s)[k] = Head(s)
        PROVE  FALSE
    <3>1. k + 1 = 1
      BY <1>1, <1>2, <1>5, <2>2 DEF Distinct
    <3> QED
      BY <1>1, <3>1
  <2> QED
    BY <2>1, <2>2 DEF Members
<1> QED
  BY <1>2, <1>3, <1>4, <1>5

\* Nth counts upwards.
LEMMA NthRises ==
  ASSUME NEW n \in Nat, NEW J, \A k \in J : k \in 1..n,
         NEW i \in 1..Cardinality(J), NEW j \in 1..Cardinality(J), i < j
  PROVE  Nth(J, i) < Nth(J, j)
<1>1. PICK x \in J : x = Nth(J, i) /\ Cardinality({k \in J : k <= x}) = i
  BY NthMember
<1>2. PICK y \in J : y = Nth(J, j) /\ Cardinality({k \in J : k <= y}) = j
  BY NthMember
<1>3. SUFFICES ASSUME y <= x
               PROVE  FALSE
  BY <1>1, <1>2
<1>4. PICK A : A = {k \in J : k <= y}
  OBVIOUS
<1>5. PICK B : B = {k \in J : k <= x}
  OBVIOUS
<1>6. A \subseteq B /\ \A k \in B : k \in 1..n
  BY <1>3, <1>4, <1>5
<1>7. IsFiniteSet(B)
  BY <1>6, Positions
<1>8. Cardinality(A) <= Cardinality(B)
  BY <1>6, <1>7, FS_Subset
<1>9. j <= i
  BY <1>1, <1>2, <1>4, <1>5, <1>8
<1>10. Cardinality(J) \in Nat
  BY Positions
<1> QED
  BY <1>9, <1>10

\* A list comprehension keeps the order.
LEMMA WithoutOrder ==
  ASSUME NEW S, NEW s \in Seq(S), NEW X
  PROVE  \A i, j \in 1..Len(Without(s, X)) :
           i < j => \E k, l \in 1..Len(s) :
                      k < l /\ Without(s, X)[i] = s[k] /\ Without(s, X)[j] = s[l]
<1>1. PICK J : J = {i \in 1..Len(s) : s[i] \notin X}
  OBVIOUS
<1>2. (\A k \in J : k \in 1..Len(s)) /\ Len(s) \in Nat
  BY <1>1
<1>3. Cardinality(J) \in Nat
  BY <1>2, Positions
<1>4. PICK u : u = Without(s, X)
  OBVIOUS
<1>5. u = [i \in 1..Cardinality(J) |-> s[Nth(J, i)]]
  BY <1>1, <1>4 DEF Without
<1>6. Len(u) = Cardinality(J) /\ \A i \in 1..Len(u) : u[i] = s[Nth(J, i)]
  BY <1>3, <1>5
<1>7. ASSUME NEW i \in 1..Len(u), NEW j \in 1..Len(u), i < j
      PROVE  \E k, l \in 1..Len(s) : k < l /\ u[i] = s[k] /\ u[j] = s[l]
  <2>1. PICK k \in J : k = Nth(J, i)
    BY <1>2, <1>6, NthMember
  <2>2. PICK l \in J : l = Nth(J, j)
    BY <1>2, <1>6, NthMember
  <2>3. k < l
    BY <1>2, <1>6, <1>7, <2>1, <2>2, NthRises
  <2> QED
    BY <1>2, <1>6, <2>1, <2>2, <2>3
<1> QED
  BY <1>4, <1>7

\* A set of positions with those before each of its members is an interval.
LEMMA FirstPositions ==
  ASSUME NEW n \in Nat, NEW A, \A k \in A : k \in 1..n,
         \A k \in A : \A i \in 1..k : i \in A
  PROVE  A = 1..Cardinality(A) /\ Cardinality(A) \in 0..n
<1>1. PICK T : T = {m \in Nat : m + 1 \notin A}
  OBVIOUS
<1>2. n + 1 \notin A
  OBVIOUS
<1>3. PICK m \in T : \A k \in T : m <= k
  BY <1>1, <1>2, LeastNatural
<1>4. \A k \in 1..m : k \in A
  <2>1. SUFFICES ASSUME NEW k \in 1..m, k \notin A
                 PROVE  FALSE
    OBVIOUS
  <2>2. k - 1 \in Nat /\ (k - 1) + 1 = k /\ m \in Nat
    BY <1>1, <1>3
  <2>3. k - 1 \in T
    BY <1>1, <2>1, <2>2
  <2> QED
    BY <1>3, <2>2, <2>3
<1>5. \A k \in A : k \in 1..m
  <2>1. SUFFICES ASSUME NEW k \in A, k \notin 1..m
                 PROVE  FALSE
    OBVIOUS
  <2>2. m + 1 \in 1..k
    BY <1>1, <1>3, <2>1
  <2> QED
    BY <1>1, <1>3, <2>2
<1>6. A = 1..m
  BY <1>4, <1>5
<1>7. Cardinality(A) = m
  BY <1>1, <1>3, <1>6, FS_Interval
<1>8. Cardinality(A) \in 0..n
  BY Positions
<1> QED
  BY <1>6, <1>7, <1>8

\* The messages of a queue are by descending priority; add_message keeps that, and
\* puts the message behind those of its priority, or in a LIFO queue before them.
Falling(s, prio) == \A i, j \in 1..Len(s) : i < j => prio[s[i]] >= prio[s[j]]

\* u is s with m behind its first n members, which pop before m as the others do after it.
Inserted(s, m, prio, type, n, u) ==
  /\ Falling(u, prio)
  /\ n \in 0..Len(s) /\ Len(s) \in Nat /\ Len(u) = Len(s) + 1
  /\ \A i \in 1..Len(u) :
       u[i] = IF i <= n THEN s[i] ELSE IF i = n + 1 THEN m ELSE s[i - 1]
  /\ \A i \in 1..Len(s) :
       /\ i <= n => prio[s[i]] > prio[m] \/ (prio[s[i]] = prio[m] /\ type # "LIFO")
       /\ i > n => prio[s[i]] < prio[m] \/ (prio[s[i]] = prio[m] /\ type = "LIFO")

\* add_message in terms of positions: what pops before the new message and what after it.
LEMMA AddMessageFalls ==
  ASSUME NEW S, NEW s \in Seq(S), NEW m \in S, NEW prio, NEW type,
         \A i \in 1..Len(s) : prio[s[i]] \in Int, prio[m] \in Int, Falling(s, prio)
  PROVE  \E n, u : u = AddMessage(s, m, prio, type) /\ Inserted(s, m, prio, type, n, u)
<1>1. PICK A : A = Ahead(s, m, prio, type)
  OBVIOUS
<1>2. \A k : k \in A <=>
        /\ k \in 1..Len(s)
        /\ (prio[s[k]] > prio[m] \/ (prio[s[k]] = prio[m] /\ type # "LIFO"))
  BY <1>1 DEF Ahead
<1>3. PICK n, u :
        /\ n = Cardinality(Ahead(s, m, prio, type)) /\ u = AddMessage(s, m, prio, type)
        /\ n \in 0..Len(s) /\ Len(s) \in Nat /\ Len(u) = Len(s) + 1
        /\ \A i \in 1..Len(u) :
             u[i] = IF i <= n THEN s[i] ELSE IF i = n + 1 THEN m ELSE s[i - 1]
  BY AddMessageAt
<1>4. /\ n \in 0..Len(s) /\ Len(s) \in Nat /\ Len(u) = Len(s) + 1
      /\ \A i \in 1..Len(u) : u[i] = IF i <= n THEN s[i] ELSE IF i = n + 1 THEN m ELSE s[i - 1]
  BY <1>3
<1>5. ASSUME NEW k \in A, NEW i \in 1..k
      PROVE  i \in A
  <2>1. k \in 1..Len(s) /\ i \in 1..Len(s) /\ (i = k \/ i < k)
    BY <1>2, <1>4
  <2>2. i < k => prio[s[i]] >= prio[s[k]]
    BY <2>1 DEF Falling
  <2>3. prio[s[i]] \in Int /\ prio[s[k]] \in Int
    BY <2>1
  <2> QED
    BY <1>2, <2>1, <2>2, <2>3
<1>6. A = 1..n
  <2>1. Cardinality(A) = n /\ \A k \in A : k \in 1..Len(s)
    BY <1>1, <1>2, <1>3
  <2> QED
    BY <1>4, <1>5, <2>1, FirstPositions
<1>7. ASSUME NEW i \in 1..Len(s)
      PROVE  /\ i <= n => prio[s[i]] > prio[m] \/ (prio[s[i]] = prio[m] /\ type # "LIFO")
             /\ i > n => prio[s[i]] < prio[m] \/ (prio[s[i]] = prio[m] /\ type = "LIFO")
  <2>1. (i <= n => i \in A) /\ (i > n => i \notin A)
    BY <1>4, <1>6
  <2>2. prio[s[i]] \in Int
    OBVIOUS
  <2> QED
    BY <1>2, <2>1, <2>2
<1>8. Falling(u, prio)
  <2>1. SUFFICES ASSUME NEW i \in 1..Len(u), NEW j \in 1..Len(u), i < j
                 PROVE  prio[u[i]] >= prio[u[j]]
    BY DEF Falling
  <2>2. CASE i # n + 1 /\ j # n + 1
    <3>1. PICK k \in 1..Len(s), l \in 1..Len(s) : k < l /\ u[i] = s[k] /\ u[j] = s[l]
      <4>1. CASE j <= n
        BY <1>4, <2>1, <4>1
      <4>2. CASE i <= n /\ j > n + 1
        <5>1. i \in 1..Len(s) /\ j - 1 \in 1..Len(s) /\ i < j - 1
          BY <1>4, <2>1, <4>2
        <5> QED
          BY <1>4, <2>1, <4>2, <5>1
      <4>3. CASE i > n + 1
        <5>1. i - 1 \in 1..Len(s) /\ j - 1 \in 1..Len(s) /\ i - 1 < j - 1
          BY <1>4, <2>1, <4>3
        <5> QED
          BY <1>4, <2>1, <4>3, <5>1
      <4> QED
        BY <1>4, <2>1, <2>2, <4>1, <4>2, <4>3
    <3> QED
      BY <3>1 DEF Falling
  <2>3. CASE i = n + 1
    <3>1. u[i] = m /\ u[j] = s[j - 1] /\ j - 1 \in 1..Len(s) /\ j - 1 > n
      BY <1>4, <2>1, <2>3
    <3> QED
      BY <1>7, <3>1
  <2>4. CASE j = n + 1
    <3>1. u[j] = m /\ u[i] = s[i] /\ i \in 1..Len(s) /\ i <= n
      BY <1>4, <2>1, <2>4
    <3> QED
      BY <1>7, <3>1
  <2> QED
    BY <2>2, <2>3, <2>4
<1> QED
  BY <1>7, <1>8, <1>3 DEF Inserted
=============================================================================
