----------------------------- MODULE ListLemmas -----------------------------
(***************************************************************************)
(* What the list operations of the sources do to a list without            *)
(* repetitions.                                                            *)
(***************************************************************************)
EXTENDS Integers, Sequences, SequencesExt, TLAPS

Elements(s) == {s[i] : i \in DOMAIN s}
Distinct(s) == \A i, j \in DOMAIN s : i # j => s[i] # s[j]

\* Appending a new element to a list without repetitions.
LEMMA AppendElement ==
  ASSUME NEW S, NEW s \in Seq(S), NEW x \in S, Distinct(s), x \notin Elements(s)
  PROVE  /\ Append(s, x) \in Seq(S)
         /\ Distinct(Append(s, x))
         /\ Elements(Append(s, x)) = Elements(s) \cup {x}
<1> DEFINE a == Append(s, x)
<1>1. /\ a \in Seq(S) /\ Len(a) = Len(s) + 1 /\ Len(s) \in Nat
      /\ DOMAIN a = 1..(Len(s) + 1) /\ DOMAIN s = 1..Len(s)
      /\ \A i \in 1..Len(s) : a[i] = s[i]
      /\ a[Len(s) + 1] = x
  OBVIOUS
<1> HIDE DEF a
<1>2. \A i \in 1..Len(s) : s[i] # x
  BY <1>1 DEF Elements
<1>3. Distinct(a)
  BY <1>1, <1>2 DEF Distinct
<1>4. Elements(a) = Elements(s) \cup {x}
  <2>1. ASSUME NEW y \in Elements(a) PROVE y \in Elements(s) \cup {x}
    BY <1>1, <2>1 DEF Elements
  <2>2. ASSUME NEW y \in Elements(s) PROVE y \in Elements(a)
    <3>1. PICK i \in 1..Len(s) : y = s[i]
      BY <1>1, <2>2 DEF Elements
    <3>2. i \in DOMAIN a /\ a[i] = y
      BY <1>1, <3>1
    <3> QED BY <3>2 DEF Elements
  <2>3. x \in Elements(a)
    BY <1>1 DEF Elements
  <2> QED BY <2>1, <2>2, <2>3
<1> QED BY <1>1, <1>3, <1>4 DEF a

\* Removing one position of a list without repetitions removes its element.
LEMMA RemoveElement ==
  ASSUME NEW S, NEW s \in Seq(S), NEW k \in DOMAIN s, Distinct(s)
  PROVE  /\ RemoveAt(s, k) \in Seq(S)
         /\ Distinct(RemoveAt(s, k))
         /\ Elements(RemoveAt(s, k)) = Elements(s) \ {s[k]}
<1> DEFINE n == Len(s)
           r == RemoveAt(s, k)
<1>1. n \in Nat /\ DOMAIN s = 1..n /\ k \in 1..n
  OBVIOUS
<1>2. /\ r \in Seq(S) /\ Len(r) = n - 1
      /\ \A i \in 1..(n - 1) : r[i] = IF i < k THEN s[i] ELSE s[i + 1]
  <2> DEFINE p == SubSeq(s, 1, k - 1)
             q == SubSeq(s, k + 1, n)
  <2>1. p \in Seq(S) /\ Len(p) = k - 1 /\ \A i \in 1..(k - 1) : p[i] = s[i]
    BY <1>1
  <2>2. q \in Seq(S) /\ Len(q) = n - k /\ \A i \in 1..(n - k) : q[i] = s[k + i]
    BY <1>1
  <2>3. r = p \o q
    BY DEF RemoveAt
  <2> HIDE DEF p, q, n, r
  <2>4. /\ r \in Seq(S) /\ Len(r) = (k - 1) + (n - k)
        /\ \A i \in 1..((k - 1) + (n - k)) : r[i] = IF i <= k - 1 THEN p[i] ELSE q[i - (k - 1)]
    BY <1>1, <2>1, <2>2, <2>3
  <2>5. ASSUME NEW i \in 1..(n - 1) PROVE r[i] = IF i < k THEN s[i] ELSE s[i + 1]
    <3>1. CASE i < k
      BY <1>1, <2>1, <2>4, <3>1
    <3>2. CASE i >= k
      <4>1. i - (k - 1) \in 1..(n - k) /\ k + (i - (k - 1)) = i + 1
        BY <1>1, <3>2
      <4>2. r[i] = q[i - (k - 1)]
        BY <1>1, <2>4, <3>2
      <4> QED BY <1>1, <2>2, <3>2, <4>1, <4>2
    <3> QED BY <1>1, <3>1, <3>2
  <2> QED BY <1>1, <2>4, <2>5
<1> HIDE DEF n, r
<1>5. r \in Seq(S) /\ DOMAIN r = 1..(n - 1)
  BY <1>1, <1>2
<1>6. Distinct(r)
  <2> SUFFICES ASSUME NEW i \in 1..(n - 1), NEW j \in 1..(n - 1), i # j
               PROVE  r[i] # r[j]
    BY <1>5 DEF Distinct
  <2> DEFINE from(m) == IF m < k THEN m ELSE m + 1
  <2>1. from(i) \in 1..n /\ from(j) \in 1..n /\ from(i) # from(j)
    BY <1>1
  <2>2. r[i] = s[from(i)] /\ r[j] = s[from(j)]
    BY <1>1, <1>2
  <2> QED BY <1>1, <2>1, <2>2 DEF Distinct
<1>7. ASSUME NEW y \in Elements(r) PROVE y \in Elements(s) \ {s[k]}
  <2>1. PICK i \in 1..(n - 1) : y = r[i]
    BY <1>5, <1>7 DEF Elements
  <2>2. PICK j \in 1..n : y = s[j] /\ j # k
    BY <1>1, <1>2, <2>1
  <2> QED BY <1>1, <2>2 DEF Elements, Distinct
<1>8. ASSUME NEW y \in Elements(s) \ {s[k]} PROVE y \in Elements(r)
  <2>1. PICK j \in 1..n : y = s[j] /\ j # k
    BY <1>1, <1>8 DEF Elements
  <2>2. \E i \in 1..(n - 1) : r[i] = y
    <3>1. CASE j < k
      BY <1>1, <1>2, <2>1, <3>1
    <3>2. CASE j > k
      <4>1. j - 1 \in 1..(n - 1) /\ r[j - 1] = y
        BY <1>1, <1>2, <2>1, <3>2
      <4> QED BY <4>1
    <3> QED BY <1>1, <2>1, <3>1, <3>2
  <2> QED BY <1>5, <2>2 DEF Elements
<1> QED BY <1>5, <1>6, <1>7, <1>8 DEF r

\* Putting a new element in front of a list without repetitions.
LEMMA PrependElement ==
  ASSUME NEW S, NEW s \in Seq(S), NEW x \in S, Distinct(s), x \notin Elements(s)
  PROVE  /\ <<x>> \o s \in Seq(S)
         /\ Distinct(<<x>> \o s)
         /\ Elements(<<x>> \o s) = Elements(s) \cup {x}
<1> DEFINE a == <<x>> \o s
<1>1. /\ a \in Seq(S) /\ Len(s) \in Nat
      /\ DOMAIN a = 1..(Len(s) + 1) /\ DOMAIN s = 1..Len(s)
      /\ \A i \in 1..Len(s) : a[i + 1] = s[i]
      /\ a[1] = x
  OBVIOUS
<1> HIDE DEF a
<1>2. \A i \in 1..(Len(s) + 1) : i = 1 \/ (i - 1 \in 1..Len(s) /\ a[i] = s[i - 1])
  BY <1>1
<1>3. \A i \in 1..Len(s) : s[i] # x
  BY <1>1 DEF Elements
<1>4. Distinct(a)
  <2> SUFFICES ASSUME NEW i \in 1..(Len(s) + 1), NEW j \in 1..(Len(s) + 1), i # j
               PROVE  a[i] # a[j]
    BY <1>1 DEF Distinct
  <2>1. CASE i = 1 \/ j = 1
    BY <1>1, <1>2, <1>3, <2>1
  <2>2. CASE i # 1 /\ j # 1
    <3>1. i - 1 # j - 1
      BY <1>1
    <3> QED BY <1>1, <1>2, <2>2, <3>1 DEF Distinct
  <2> QED BY <2>1, <2>2
<1>5. ASSUME NEW y \in Elements(a) PROVE y \in Elements(s) \cup {x}
  BY <1>1, <1>2, <1>5 DEF Elements
<1>6. ASSUME NEW y \in Elements(s) PROVE y \in Elements(a)
  <2>1. PICK i \in 1..Len(s) : y = s[i]
    BY <1>1, <1>6 DEF Elements
  <2>2. i + 1 \in DOMAIN a /\ a[i + 1] = y
    BY <1>1, <2>1
  <2> QED BY <2>2 DEF Elements
<1>7. x \in Elements(a)
  BY <1>1 DEF Elements
<1> QED BY <1>1, <1>4, <1>5, <1>6, <1>7 DEF a

\* Taking the first element of a list without repetitions.
LEMMA TailElement ==
  ASSUME NEW S, NEW s \in Seq(S), s # <<>>, Distinct(s)
  PROVE  /\ Head(s) \in Elements(s)
         /\ Tail(s) \in Seq(S)
         /\ Distinct(Tail(s))
         /\ Elements(Tail(s)) = Elements(s) \ {Head(s)}
<1> DEFINE r == Tail(s)
<1>1. /\ r \in Seq(S) /\ Len(s) \in Nat /\ Len(s) >= 1 /\ DOMAIN s = 1..Len(s)
      /\ DOMAIN r = 1..(Len(s) - 1) /\ \A i \in 1..(Len(s) - 1) : r[i] = s[i + 1]
      /\ Head(s) = s[1]
  OBVIOUS
<1> HIDE DEF r
<1>2. Head(s) \in Elements(s)
  BY <1>1 DEF Elements
<1>3. Distinct(r)
  <2> SUFFICES ASSUME NEW i \in 1..(Len(s) - 1), NEW j \in 1..(Len(s) - 1), i # j
               PROVE  r[i] # r[j]
    BY <1>1 DEF Distinct
  <2>1. i + 1 \in 1..Len(s) /\ j + 1 \in 1..Len(s) /\ i + 1 # j + 1
    BY <1>1
  <2>2. s[i + 1] # s[j + 1]
    BY <1>1, <2>1 DEF Distinct
  <2> QED BY <1>1, <2>2
<1>4. ASSUME NEW y \in Elements(r) PROVE y \in Elements(s) \ {Head(s)}
  <2>1. PICK i \in 1..(Len(s) - 1) : y = r[i]
    BY <1>1, <1>4 DEF Elements
  <2>2. i + 1 \in 1..Len(s) /\ i + 1 # 1 /\ 1 \in 1..Len(s) /\ y = s[i + 1]
    BY <1>1, <2>1
  <2>3. y \in Elements(s)
    BY <1>1, <2>2 DEF Elements
  <2>4. s[i + 1] # s[1]
    BY <1>1, <2>2 DEF Distinct
  <2> QED BY <1>1, <2>2, <2>3, <2>4
<1>5. ASSUME NEW y \in Elements(s) \ {Head(s)} PROVE y \in Elements(r)
  <2>1. PICK j \in 1..Len(s) : y = s[j] /\ j # 1
    BY <1>1, <1>5 DEF Elements
  <2>2. j - 1 \in 1..(Len(s) - 1) /\ r[j - 1] = y
    BY <1>1, <2>1
  <2> QED BY <1>1, <2>2 DEF Elements
<1> QED BY <1>1, <1>2, <1>3, <1>4, <1>5 DEF r
=============================================================================
