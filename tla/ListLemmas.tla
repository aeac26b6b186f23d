----------------------------- MODULE ListLemmas -----------------------------
(***************************************************************************)
(* What the operations on LoadBalance's two lists do to a list without     *)
(* repetition: erase at a position, push_back, and insert at the end.      *)
(***************************************************************************)
EXTENDS SequencesExt, SequenceTheorems, TLAPS

\* Erasing position i shifts what follows it.
LEMMA RemoveAtIsShift ==
  ASSUME NEW S, NEW s \in Seq(S), NEW i \in DOMAIN s
  PROVE  /\ RemoveAt(s, i) \in Seq(S)
         /\ Len(RemoveAt(s, i)) = Len(s) - 1
         /\ \A k \in 1 .. Len(s) - 1 :
              RemoveAt(s, i)[k] = IF k < i THEN s[k] ELSE s[k + 1]
  <1> DEFINE a == SubSeq(s, 1, i - 1)
             b == SubSeq(s, i + 1, Len(s))
  <1>1. i \in 1 .. Len(s) /\ Len(s) \in Nat
    BY LenProperties
  <1>2. \A k \in 1 .. Len(s) : s[k] \in S
    BY ElementOfSeq
  <1>3. /\ a \in Seq(S)
        /\ Len(a) = IF 1 <= i - 1 THEN i - 1 - 1 + 1 ELSE 0
        /\ \A k \in 1 .. (i - 1) - 1 + 1 : a[k] = s[1 + k - 1]
    <2>1. 1 \in Int /\ i - 1 \in Int /\ \A k \in 1 .. i - 1 : s[k] \in S
      BY <1>1, <1>2
    <2> QED
      BY <2>1, SubSeqProperties
  <1>4. Len(a) = i - 1 /\ \A k \in 1 .. i - 1 : a[k] = s[k]
    BY <1>1, <1>3
  <1>5. /\ b \in Seq(S)
        /\ Len(b) = IF i + 1 <= Len(s) THEN Len(s) - (i + 1) + 1 ELSE 0
        /\ \A k \in 1 .. Len(s) - (i + 1) + 1 : b[k] = s[i + 1 + k - 1]
    <2>1. /\ i + 1 \in Int /\ Len(s) \in Int
          /\ \A k \in i + 1 .. Len(s) : s[k] \in S
      BY <1>1, <1>2
    <2> QED
      BY <2>1, SubSeqProperties
  <1>6. Len(b) = Len(s) - i /\ \A k \in 1 .. Len(s) - i : b[k] = s[i + k]
    <2> HIDE DEF b
    <2>1. Len(b) = Len(s) - i
      BY <1>1, <1>5
    <2>2. ASSUME NEW k \in 1 .. Len(s) - i
          PROVE  b[k] = s[i + k]
      <3>1. k \in 1 .. Len(s) - (i + 1) + 1 /\ i + 1 + k - 1 = i + k
        BY <1>1
      <3> QED
        BY <3>1, <1>5
    <2> QED
      BY <2>1, <2>2
  <1> HIDE DEF a, b
  <1>7. /\ a \o b \in Seq(S) /\ Len(a \o b) = Len(s) - 1
        /\ \A k \in 1 .. Len(s) - 1 :
             (a \o b)[k] = IF k <= i - 1 THEN a[k] ELSE b[k - (i - 1)]
    <2>1. /\ a \o b \in Seq(S) /\ Len(a \o b) = Len(a) + Len(b)
          /\ \A k \in 1 .. Len(a) + Len(b) :
               (a \o b)[k] = IF k <= Len(a) THEN a[k] ELSE b[k - Len(a)]
      BY <1>3, <1>5, ConcatProperties
    <2>2. Len(a) = i - 1 /\ Len(a) + Len(b) = Len(s) - 1
      BY <1>1, <1>4, <1>6
    <2> QED
      BY <2>1, <2>2
  <1>8. ASSUME NEW k \in 1 .. Len(s) - 1
        PROVE  (a \o b)[k] = IF k < i THEN s[k] ELSE s[k + 1]
    <2>1. CASE k < i
      BY <2>1, <1>1, <1>4, <1>7
    <2>2. CASE ~(k < i)
      <3>1. /\ k - (i - 1) \in 1 .. Len(s) - i
            /\ i + (k - (i - 1)) = k + 1
            /\ ~(k <= i - 1)
        BY <2>2, <1>1
      <3> QED
        BY <2>2, <3>1, <1>6, <1>7
    <2> QED
      BY <2>1, <2>2
  <1> QED
    BY <1>7, <1>8 DEF RemoveAt, a, b

\* Erasing a position of a list without repetition takes its element away, and
\* no other.
LEMMA RemoveAtDistinct ==
  ASSUME NEW S, NEW s \in Seq(S), NEW i \in DOMAIN s, IsInjective(s)
  PROVE  /\ RemoveAt(s, i) \in Seq(S)
         /\ IsInjective(RemoveAt(s, i))
         /\ ToSet(RemoveAt(s, i)) = ToSet(s) \ {s[i]}
  <1> DEFINE r == RemoveAt(s, i)
  <1>1. /\ Len(s) \in Nat /\ DOMAIN s = 1 .. Len(s) /\ i \in 1 .. Len(s)
    BY LenProperties
  <1>2. /\ r \in Seq(S) /\ Len(r) = Len(s) - 1
        /\ \A k \in 1 .. Len(s) - 1 :
             r[k] = IF k < i THEN s[k] ELSE s[k + 1]
    BY RemoveAtIsShift
  <1> HIDE DEF r
  <1>3. DOMAIN r = 1 .. Len(s) - 1
    BY <1>2, LenProperties
  <1>4. \A j, k \in 1 .. Len(s) : s[j] = s[k] => j = k
    BY <1>1 DEF IsInjective
  <1>5. ASSUME NEW j \in 1 .. Len(s) - 1, NEW k \in 1 .. Len(s) - 1, r[j] = r[k]
        PROVE  j = k
    <2> DEFINE f(n) == IF n < i THEN n ELSE n + 1
    <2>1. f(j) \in 1 .. Len(s) /\ f(k) \in 1 .. Len(s)
      BY <1>1
    <2>2. r[j] = s[f(j)] /\ r[k] = s[f(k)]
      BY <1>2
    <2>3. f(j) = f(k)
      BY <2>1, <2>2, <1>4, <1>5
    <2> QED
      BY <2>3, <1>1
  <1>6. IsInjective(r)
    BY <1>3, <1>5 DEF IsInjective
  <1>7. ASSUME NEW x \in ToSet(r)
        PROVE  x \in ToSet(s) /\ x # s[i]
    <2>1. PICK k \in 1 .. Len(s) - 1 : x = r[k]
      BY <1>3, <1>7 DEF ToSet
    <2>2. CASE k < i
      <3>1. x = s[k] /\ k \in 1 .. Len(s) /\ k # i
        BY <1>1, <1>2, <2>1, <2>2
      <3> QED
        BY <3>1, <1>1, <1>4 DEF ToSet
    <2>3. CASE ~(k < i)
      <3>1. x = s[k + 1] /\ k + 1 \in 1 .. Len(s) /\ k + 1 # i
        BY <1>1, <1>2, <2>1, <2>3
      <3> QED
        BY <3>1, <1>1, <1>4 DEF ToSet
    <2> QED
      BY <2>2, <2>3
  <1>8. ASSUME NEW x \in ToSet(s), x # s[i]
        PROVE  x \in ToSet(r)
    <2>1. PICK k \in 1 .. Len(s) : x = s[k]
      BY <1>1, <1>8 DEF ToSet
    <2>2. CASE k < i
      <3>1. k \in 1 .. Len(s) - 1 /\ x = r[k]
        BY <1>1, <1>2, <2>1, <2>2
      <3> QED
        BY <3>1, <1>3 DEF ToSet
    <2>3. CASE ~(k < i)
      <3>1. k # i
        BY <1>8, <2>1
      <3>2. k - 1 \in 1 .. Len(s) - 1 /\ ~(k - 1 < i) /\ (k - 1) + 1 = k
        BY <1>1, <2>1, <2>3, <3>1
      <3>3. x = r[k - 1]
        BY <1>2, <2>1, <3>2
      <3> QED
        BY <3>2, <3>3, <1>3 DEF ToSet
    <2> QED
      BY <2>2, <2>3
  <1>9. ToSet(r) = ToSet(s) \ {s[i]}
    BY <1>7, <1>8
  <1> QED
    BY <1>2, <1>6, <1>9 DEF r

\* Pushing a new element.
LEMMA AppendDistinct ==
  ASSUME NEW S, NEW s \in Seq(S), NEW x \in S, IsInjective(s), x \notin ToSet(s)
  PROVE  /\ Append(s, x) \in Seq(S)
         /\ IsInjective(Append(s, x))
         /\ ToSet(Append(s, x)) = ToSet(s) \cup {x}
  <1> DEFINE a == Append(s, x)
  <1>1. /\ Len(s) \in Nat /\ DOMAIN s = 1 .. Len(s)
    BY LenProperties
  <1>2. /\ a \in Seq(S) /\ Len(a) = Len(s) + 1
        /\ \A k \in 1 .. Len(s) : a[k] = s[k]
        /\ a[Len(s) + 1] = x
    BY AppendProperties
  <1> HIDE DEF a
  <1>3. DOMAIN a = 1 .. Len(s) + 1
    BY <1>2, LenProperties
  <1>4. \A k \in 1 .. Len(s) : s[k] \in ToSet(s)
    BY <1>1 DEF ToSet
  <1>5. \A j, k \in 1 .. Len(s) : s[j] = s[k] => j = k
    BY <1>1 DEF IsInjective
  <1>6. \A k \in 1 .. Len(s) + 1 : k \in 1 .. Len(s) \/ k = Len(s) + 1
    BY <1>1
  <1>7. IsInjective(a)
    BY <1>2, <1>3, <1>4, <1>5, <1>6 DEF IsInjective
  <1>8. \A k \in 1 .. Len(s) : k \in 1 .. Len(s) + 1
    BY <1>1
  <1>9. Len(s) + 1 \in 1 .. Len(s) + 1
    BY <1>1
  <1>10. ToSet(a) = ToSet(s) \cup {x}
    BY <1>1, <1>2, <1>3, <1>6, <1>8, <1>9 DEF ToSet
  <1> QED
    BY <1>2, <1>7, <1>10 DEF a

\* Inserting a list after another that has no element in common with it.
LEMMA ConcatDistinct ==
  ASSUME NEW S, NEW s \in Seq(S), NEW u \in Seq(S),
         IsInjective(s), IsInjective(u), ToSet(s) \cap ToSet(u) = {}
  PROVE  /\ s \o u \in Seq(S)
         /\ IsInjective(s \o u)
         /\ ToSet(s \o u) = ToSet(s) \cup ToSet(u)
  <1> DEFINE c == s \o u
  <1>1. /\ Len(s) \in Nat /\ DOMAIN s = 1 .. Len(s)
        /\ Len(u) \in Nat /\ DOMAIN u = 1 .. Len(u)
    BY LenProperties
  <1>2. /\ c \in Seq(S) /\ Len(c) = Len(s) + Len(u)
        /\ \A k \in 1 .. Len(s) + Len(u) :
             c[k] = IF k <= Len(s) THEN s[k] ELSE u[k - Len(s)]
    BY ConcatProperties
  <1> HIDE DEF c
  <1>3. DOMAIN c = 1 .. Len(s) + Len(u)
    BY <1>2, LenProperties
  <1>4. \A k \in 1 .. Len(s) : c[k] = s[k] /\ c[k] \in ToSet(s)
    <2>1. \A k \in 1 .. Len(s) : k \in 1 .. Len(s) + Len(u) /\ k <= Len(s)
      BY <1>1
    <2> QED
      BY <1>1, <1>2, <2>1 DEF ToSet
  <1>5. \A k \in 1 .. Len(s) + Len(u) : k > Len(s) =>
          /\ k - Len(s) \in 1 .. Len(u)
          /\ c[k] = u[k - Len(s)] /\ c[k] \in ToSet(u)
    <2>1. \A k \in 1 .. Len(s) + Len(u) :
            k > Len(s) => k - Len(s) \in 1 .. Len(u) /\ ~(k <= Len(s))
      BY <1>1
    <2> QED
      BY <1>1, <1>2, <2>1 DEF ToSet
  <1>6. ASSUME NEW j \in 1 .. Len(s) + Len(u), NEW k \in 1 .. Len(s) + Len(u),
               c[j] = c[k]
        PROVE  j = k
    <2>1. CASE j <= Len(s) /\ k <= Len(s)
      <3>1. j \in 1 .. Len(s) /\ k \in 1 .. Len(s)
        BY <2>1, <1>1
      <3> QED
        BY <3>1, <1>1, <1>4, <1>6 DEF IsInjective
    <2>2. CASE j > Len(s) /\ k > Len(s)
      <3>1. j - Len(s) = k - Len(s)
        BY <2>2, <1>1, <1>5, <1>6 DEF IsInjective
      <3> QED
        BY <3>1, <1>1
    <2>3. CASE j <= Len(s) /\ k > Len(s)
      <3>1. j \in 1 .. Len(s)
        BY <2>3, <1>1
      <3> QED
        BY <3>1, <2>3, <1>4, <1>5, <1>6
    <2>4. CASE j > Len(s) /\ k <= Len(s)
      <3>1. k \in 1 .. Len(s)
        BY <2>4, <1>1
      <3> QED
        BY <3>1, <2>4, <1>4, <1>5, <1>6
    <2> QED
      BY <1>1, <2>1, <2>2, <2>3, <2>4
  <1>7. IsInjective(c)
    BY <1>3, <1>6 DEF IsInjective
  <1>8. ToSet(c) \subseteq ToSet(s) \cup ToSet(u)
    <2> SUFFICES ASSUME NEW k \in 1 .. Len(s) + Len(u)
                 PROVE  c[k] \in ToSet(s) \cup ToSet(u)
      BY <1>3 DEF ToSet
    <2>1. CASE k <= Len(s)
      BY <2>1, <1>1, <1>4
    <2>2. CASE k > Len(s)
      BY <2>2, <1>5
    <2> QED
      BY <2>1, <2>2, <1>1
  <1>9. ASSUME NEW k \in 1 .. Len(s)
        PROVE  s[k] \in ToSet(c)
    <2>1. k \in 1 .. Len(s) + Len(u)
      BY <1>1
    <2> QED
      BY <2>1, <1>3, <1>4 DEF ToSet
  <1>10. ASSUME NEW k \in 1 .. Len(u)
         PROVE  u[k] \in ToSet(c)
    <2>1. /\ Len(s) + k \in 1 .. Len(s) + Len(u)
          /\ ~(Len(s) + k <= Len(s)) /\ (Len(s) + k) - Len(s) = k
      BY <1>1
    <2>2. c[Len(s) + k] = u[k]
      BY <1>2, <2>1
    <2> QED
      BY <2>1, <2>2, <1>3 DEF ToSet
  <1>11. ToSet(s) \subseteq ToSet(c) /\ ToSet(u) \subseteq ToSet(c)
    BY <1>1, <1>9, <1>10 DEF ToSet
  <1> QED
    BY <1>2, <1>7, <1>8, <1>11 DEF c

-----------------------------------------------------------------------------
\* Taking the first element off a queue without repetitions.
LEMMA TailDistinct ==
  ASSUME NEW S, NEW s \in Seq(S), s # << >>, IsInjective(s)
  PROVE  /\ Tail(s) \in Seq(S)
         /\ Len(Tail(s)) = Len(s) - 1
         /\ IsInjective(Tail(s))
         /\ Head(s) \in S /\ Head(s) \in ToSet(s)
         /\ ToSet(Tail(s)) = ToSet(s) \ {Head(s)}
  <1> DEFINE r == Tail(s)
  <1>1. /\ Len(s) \in Nat /\ DOMAIN s = 1 .. Len(s) /\ Len(s) > 0
        /\ Head(s) = s[1] /\ s[1] \in S
    BY LenProperties, EmptySeq, HeadTailProperties
  <1>2. /\ r \in Seq(S) /\ Len(r) = Len(s) - 1
        /\ \A k \in 1 .. Len(s) - 1 : r[k] = s[k + 1]
    BY <1>1, HeadTailProperties
  <1>3. DOMAIN r = 1 .. Len(s) - 1
    BY <1>2, LenProperties
  <1>4. \A i, j \in 1 .. Len(s) : s[i] = s[j] => i = j
    BY <1>1 DEF IsInjective
  <1> HIDE DEF r
  <1>5. IsInjective(r)
    <2> SUFFICES ASSUME NEW i \in 1 .. Len(s) - 1, NEW j \in 1 .. Len(s) - 1,
                        r[i] = r[j]
                 PROVE  i = j
      BY <1>3 DEF IsInjective
    <2>1. s[i + 1] = s[j + 1] /\ i + 1 \in 1 .. Len(s) /\ j + 1 \in 1 .. Len(s)
      BY <1>1, <1>2
    <2>2. i + 1 = j + 1
      BY <1>4, <2>1
    <2> QED
      BY <1>1, <2>2
  <1>6. ToSet(r) = ToSet(s) \ {Head(s)}
    <2>1. ASSUME NEW k \in 1 .. Len(s) - 1
          PROVE  r[k] \in ToSet(s) \ {Head(s)}
      <3>1. r[k] = s[k + 1] /\ k + 1 \in 1 .. Len(s) /\ k + 1 # 1
        BY <1>1, <1>2
      <3>2. s[k + 1] # s[1]
        BY <1>1, <1>4, <3>1
      <3> QED
        BY <1>1, <3>1, <3>2 DEF ToSet
    <2>2. ASSUME NEW k \in 1 .. Len(s), s[k] # Head(s) PROVE s[k] \in ToSet(r)
      <3>1. k - 1 \in 1 .. Len(s) - 1 /\ r[k - 1] = s[k]
        BY <1>1, <1>2, <2>2
      <3> QED
        BY <1>3, <3>1 DEF ToSet
    <2>3. ToSet(r) \subseteq ToSet(s) \ {Head(s)}
      BY <1>3, <2>1 DEF ToSet
    <2>4. ToSet(s) \ {Head(s)} \subseteq ToSet(r)
      BY <1>1, <2>2 DEF ToSet
    <2> QED
      BY <2>3, <2>4
  <1>7. Head(s) \in ToSet(s)
    BY <1>1 DEF ToSet
  <1> QED
    BY <1>1, <1>2, <1>5, <1>6, <1>7 DEF r

\* Pushing to a queue that is not empty leaves its head.
LEMMA AppendTail ==
  ASSUME NEW S, NEW s \in Seq(S), NEW x \in S, s # << >>
  PROVE  /\ Append(s, x) # << >>
         /\ Head(Append(s, x)) = Head(s)
         /\ Tail(Append(s, x)) = Append(Tail(s), x)
  <1> DEFINE a == Append(s, x)
             l == Append(Tail(s), x)
  <1>1. /\ Len(s) \in Nat /\ Len(s) > 0 /\ Head(s) = s[1]
    BY LenProperties, EmptySeq, HeadTailProperties
  <1>2. /\ a \in Seq(S) /\ Len(a) = Len(s) + 1
        /\ \A k \in 1 .. Len(s) : a[k] = s[k]
        /\ a[Len(s) + 1] = x
    BY AppendProperties
  <1>3. /\ Tail(s) \in Seq(S) /\ Len(Tail(s)) = Len(s) - 1
        /\ \A k \in 1 .. Len(s) - 1 : Tail(s)[k] = s[k + 1]
    BY <1>1, HeadTailProperties
  <1>4. /\ l \in Seq(S) /\ Len(l) = Len(s)
        /\ \A k \in 1 .. Len(s) - 1 : l[k] = s[k + 1]
        /\ l[Len(s)] = x
    <2>1. /\ l \in Seq(S) /\ Len(l) = Len(Tail(s)) + 1
          /\ \A k \in 1 .. Len(Tail(s)) : l[k] = Tail(s)[k]
          /\ l[Len(Tail(s)) + 1] = x
      BY <1>3, AppendProperties
    <2> HIDE DEF l
    <2> QED
      BY <1>1, <1>3, <2>1
  <1> HIDE DEF a, l
  <1>5. a # << >> /\ Head(a) = a[1] /\ a[1] = s[1]
    BY <1>1, <1>2, EmptySeq, HeadTailProperties
  <1>6. /\ Tail(a) \in Seq(S) /\ Len(Tail(a)) = Len(s)
        /\ \A k \in 1 .. Len(s) : Tail(a)[k] = a[k + 1]
    <2>1. /\ Tail(a) \in Seq(S) /\ Len(Tail(a)) = Len(a) - 1
          /\ \A k \in 1 .. Len(a) - 1 : Tail(a)[k] = a[k + 1]
      BY <1>2, <1>5, HeadTailProperties
    <2> QED
      BY <1>1, <1>2, <2>1
  <1>7. ASSUME NEW k \in 1 .. Len(s) PROVE Tail(a)[k] = l[k]
    <2>1. CASE k = Len(s)
      BY <2>1, <1>1, <1>2, <1>4, <1>6
    <2>2. CASE k # Len(s)
      <3>1. k \in 1 .. Len(s) - 1 /\ k + 1 \in 1 .. Len(s)
        BY <2>2, <1>1
      <3> QED
        BY <3>1, <1>2, <1>4, <1>6
    <2> QED
      BY <2>1, <2>2
  <1>8. Tail(a) = l
    BY <1>4, <1>6, <1>7, SeqEqual
  <1> QED
    BY <1>1, <1>5, <1>8 DEF a, l

=============================================================================
