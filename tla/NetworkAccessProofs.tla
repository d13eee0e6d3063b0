------------------------ MODULE NetworkAccessProofs ------------------------
(***************************************************************************)
(* Proofs about NetworkAccess, for any requests, domains and backends: the *)
(* text of a host is compared as its labels would be.                      *)
(***************************************************************************)
EXTENDS NetworkAccess, NumberLemmas, SequenceTheorems

-----------------------------------------------------------------------------
(* The text of the first n labels *)

JoinOf(labels, f) ==
  [n \in 0..Len(labels) |-> IF n = 0 THEN <<>>
                            ELSE IF n = 1 THEN labels[1]
                            ELSE f[n - 1] \o <<".">> \o labels[n]]

First(labels) == CHOOSE f : f = JoinOf(labels, f)

(* The recursion of Joined has a solution. *)
LEMMA JoinUnfolds ==
  ASSUME NEW labels \in Seq(Label)
  PROVE  /\ First(labels) = JoinOf(labels, First(labels))
         /\ Joined(labels) = First(labels)[Len(labels)]
<1> DEFINE N == Len(labels)
           Body(f, n) == IF n = 0 THEN <<>>
                         ELSE IF n = 1 THEN labels[1]
                         ELSE f[n - 1] \o <<".">> \o labels[n]
           UpTo(m, f) == f = [n \in 0..m |-> Body(f, n)]
           S == {m \in Nat : \E f : UpTo(m, f)}
<1>1. N \in Nat
  OBVIOUS
<1>2. UpTo(0, [n \in 0..0 |-> <<>>])
  OBVIOUS
<1>3. ASSUME NEW m \in S PROVE m + 1 \in S
  <2>1. PICK f : UpTo(m, f)
    OBVIOUS
  <2> DEFINE g == [n \in 0..(m + 1) |-> Body(f, n)]
  <2>2. m \in Nat
    OBVIOUS
  <2>3. ASSUME NEW n \in 0..m PROVE g[n] = f[n]
    <3>1. f[n] = Body(f, n)
      BY <2>1
    <3>2. g[n] = Body(f, n)
      BY <2>2
    <3> QED BY <3>1, <3>2
  <2>4. ASSUME NEW n \in 0..(m + 1) PROVE Body(f, n) = Body(g, n)
    <3>1. n > 1 => n - 1 \in 0..m /\ n \in Nat
      BY <2>2
    <3>2. n > 1 => g[n - 1] = f[n - 1]
      BY <2>3, <3>1
    <3>3. n = 0 \/ n = 1 \/ n > 1
      BY <2>2
    <3> HIDE DEF g
    <3> QED BY <3>2, <3>3
  <2>5. UpTo(m + 1, g)
    BY <2>4
  <2> HIDE DEF UpTo, g
  <2> QED BY <2>2, <2>5
<1>4. N \in S
  BY <1>1, <1>2, <1>3, AllNumbers
<1>5. \E f : f = JoinOf(labels, f)
  BY <1>4 DEF JoinOf
<1>6. First(labels) = JoinOf(labels, First(labels))
  BY <1>5 DEF First
<1>7. Joined(labels) = First(labels)[Len(labels)]
  BY Zenon DEF Joined, First, JoinOf
<1> QED BY <1>6, <1>7

HostPiece == Word \cup {"."}

LEMMA LabelText ==
  ASSUME NEW l \in Label
  PROVE  /\ l \in Seq(HostPiece)
         /\ \A i \in 1..Len(l) : l[i] # "."
<1>1. l \in Seq(Word)
  BY DEF Label
<1>2. "." \notin Word
  BY NetworkAssumption DEF Separator
<1> QED BY <1>1, <1>2 DEF HostPiece

(* Two texts with a dot between them *)
LEMMA Dotted ==
  ASSUME NEW a \in Seq(HostPiece), NEW l \in Seq(HostPiece)
  PROVE  LET s == a \o <<".">> \o l IN
         /\ s \in Seq(HostPiece) /\ Len(s) = Len(a) + 1 + Len(l)
         /\ s[Len(a) + 1] = "."
         /\ \A i \in 1..Len(a) : s[i] = a[i]
         /\ \A i \in 1..Len(l) : s[Len(a) + 1 + i] = l[i]
<1> DEFINE v == a \o <<".">>
           s == v \o l
<1>1. <<".">> \in Seq(HostPiece) /\ Len(<<".">>) = 1 /\ <<".">>[1] = "."
  BY DEF HostPiece
<1>2. v \in Seq(HostPiece) /\ Len(v) = Len(a) + 1
  BY <1>1
<1>3. v[Len(a) + 1] = "." /\ \A i \in 1..Len(a) : v[i] = a[i]
  BY <1>1
<1> HIDE DEF v
<1>4. s \in Seq(HostPiece) /\ Len(s) = Len(v) + Len(l)
  BY <1>2
<1>5. /\ \A i \in 1..Len(v) : s[i] = v[i]
      /\ \A i \in 1..Len(l) : s[Len(v) + i] = l[i]
  BY <1>2
<1> HIDE DEF s
<1>6. /\ s \in Seq(HostPiece) /\ Len(s) = Len(a) + 1 + Len(l)
      /\ s[Len(a) + 1] = "."
      /\ \A i \in 1..Len(a) : s[i] = a[i]
      /\ \A i \in 1..Len(l) : s[Len(a) + 1 + i] = l[i]
  BY <1>2, <1>3, <1>4, <1>5
<1> QED BY <1>6 DEF s, v

(* The text of a host, of one label or more *)
LEMMA JoinText ==
  ASSUME NEW labels \in Seq(Label) \ {<<>>}
  PROVE  /\ First(labels)[1] = labels[1]
         /\ \A n \in 2..Len(labels) :
              First(labels)[n] = First(labels)[n - 1] \o <<".">> \o labels[n]
         /\ \A n \in 1..Len(labels) : First(labels)[n] \in Seq(HostPiece)
         /\ \A n \in 2..Len(labels) : First(labels)[n] # <<>>
<1> DEFINE F == First(labels)
           N == Len(labels)
           Good(t) == t \in Seq(HostPiece)
           S == {n \in Nat : n \in 1..N => Good(F[n])}
<1>1. N \in Nat /\ N # 0
  OBVIOUS
<1>2. F = JoinOf(labels, F)
  BY JoinUnfolds
<1> HIDE DEF F
<1>3. F[1] = labels[1]
  BY <1>1, <1>2 DEF JoinOf
<1>4. ASSUME NEW n \in 2..N PROVE F[n] = F[n - 1] \o <<".">> \o labels[n]
  <2>1. n \in 0..N /\ n # 0 /\ n # 1
    BY <1>1
  <2>2. JoinOf(labels, F)[n] = F[n - 1] \o <<".">> \o labels[n]
    BY <2>1, Zenon DEF JoinOf
  <2> QED BY <1>2, <2>2
<1>5. ASSUME NEW n \in 1..N PROVE Good(labels[n])
  <2>1. labels[n] \in Label
    OBVIOUS
  <2> QED BY <2>1, LabelText
<1>6. ASSUME NEW s, NEW t, Good(s), Good(t)
      PROVE  Good(s \o <<".">> \o t) /\ s \o <<".">> \o t # <<>>
  <2> DEFINE u == s \o <<".">> \o t
  <2>1. u \in Seq(HostPiece) /\ Len(u) = Len(s) + 1 + Len(t)
    BY <1>6, Dotted
  <2> HIDE DEF u
  <2>2. Good(u) /\ u # <<>>
    BY <1>6, <2>1
  <2> QED BY <2>2 DEF u
<1>7. 0 \in S
  OBVIOUS
<1>8. ASSUME NEW n \in S PROVE n + 1 \in S
  <2> SUFFICES ASSUME n + 1 \in 1..N PROVE Good(F[n + 1])
    OBVIOUS
  <2>1. n \in Nat
    OBVIOUS
  <2>2. CASE n = 0
    <3>1. 1 \in 1..N
      BY <1>1
    <3>2. Good(labels[1])
      BY <1>5, <3>1
    <3> HIDE DEF Good
    <3> QED BY <1>3, <2>2, <3>2
  <2>3. CASE n # 0
    <3>1. n \in 1..N /\ n + 1 \in 2..N /\ n + 1 \in 1..N /\ n + 1 - 1 = n
      BY <2>1, <2>3
    <3>2. Good(F[n]) /\ Good(labels[n + 1])
      BY <1>5, <3>1
    <3> HIDE DEF Good
    <3>3. Good(F[n] \o <<".">> \o labels[n + 1])
      BY <1>6, <3>2
    <3>4. \A m \in 2..N : F[m] = F[m - 1] \o <<".">> \o labels[m]
      BY <1>4
    <3>5. PICK m \in 2..N : m = n + 1 /\ m - 1 = n
      BY <3>1
    <3>6. Good(F[m])
      BY <3>3, <3>4, <3>5
    <3> QED BY <3>5, <3>6
  <2> QED BY <2>2, <2>3
<1>9. \A n \in 1..N : Good(F[n])
  <2>1. S \in SUBSET Nat
    OBVIOUS
  <2>2. \A n \in Nat : n \in S
    <3> HIDE DEF S
    <3> QED BY <1>7, <1>8, <2>1, AllNumbers
  <2> QED BY <2>2
<1>10. ASSUME NEW n \in 2..N PROVE F[n] # <<>>
  <2>1. n \in 1..N /\ n - 1 \in 1..N
    BY <1>1
  <2>2. Good(F[n - 1]) /\ Good(labels[n])
    BY <1>5, <1>9, <2>1
  <2> HIDE DEF Good
  <2>3. F[n - 1] \o <<".">> \o labels[n] # <<>>
    BY <1>6, <2>2
  <2> QED BY <1>4, <2>3
<1> QED BY <1>3, <1>4, <1>9, <1>10 DEF F

-----------------------------------------------------------------------------
(* Endings of texts *)

(* What follows the last dot, and what is before it, are unique. *)
LEMMA LastDot ==
  ASSUME NEW a \in Seq(HostPiece), NEW b \in Seq(HostPiece),
         NEW l \in Label, NEW m \in Label,
         a \o <<".">> \o l = b \o <<".">> \o m
  PROVE  a = b /\ l = m
<1> DEFINE s == a \o <<".">> \o l
<1>1. /\ l \in Seq(HostPiece) /\ \A i \in 1..Len(l) : l[i] # "."
      /\ m \in Seq(HostPiece) /\ \A i \in 1..Len(m) : m[i] # "."
  BY LabelText
<1>2. /\ Len(s) = Len(a) + 1 + Len(l) /\ s[Len(a) + 1] = "."
      /\ \A i \in 1..Len(a) : s[i] = a[i]
      /\ \A i \in 1..Len(l) : s[Len(a) + 1 + i] = l[i]
  BY <1>1, Dotted
<1>3. s = b \o <<".">> \o m
  OBVIOUS
<1> HIDE DEF s
<1>4. /\ Len(s) = Len(b) + 1 + Len(m) /\ s[Len(b) + 1] = "."
      /\ \A i \in 1..Len(b) : s[i] = b[i]
      /\ \A i \in 1..Len(m) : s[Len(b) + 1 + i] = m[i]
  BY <1>3, <1>1, Dotted
<1>5. ~(Len(a) < Len(b))
  <2> SUFFICES ASSUME Len(a) < Len(b) PROVE FALSE
    OBVIOUS
  <2> DEFINE i == Len(b) - Len(a)
  <2>1. i \in 1..Len(l) /\ Len(a) + 1 + i = Len(b) + 1
    BY <1>2, <1>4
  <2>2. l[i] = "."
    BY <1>2, <1>4, <2>1
  <2> QED BY <1>1, <2>1, <2>2
<1>6. ~(Len(b) < Len(a))
  <2> SUFFICES ASSUME Len(b) < Len(a) PROVE FALSE
    OBVIOUS
  <2> DEFINE i == Len(a) - Len(b)
  <2>1. i \in 1..Len(m) /\ Len(b) + 1 + i = Len(a) + 1
    BY <1>2, <1>4
  <2>2. m[i] = "."
    BY <1>2, <1>4, <2>1
  <2> QED BY <1>1, <2>1, <2>2
<1>7. Len(a) = Len(b) /\ Len(l) = Len(m)
  BY <1>2, <1>4, <1>5, <1>6
<1>8. \A i \in 1..Len(a) : a[i] = b[i]
  BY <1>2, <1>4, <1>7
<1>9. \A i \in 1..Len(l) : l[i] = m[i]
  <2> SUFFICES ASSUME NEW i \in 1..Len(l) PROVE l[i] = m[i]
    OBVIOUS
  <2>1. s[Len(a) + 1 + i] = l[i]
    BY <1>2
  <2>2. s[Len(b) + 1 + i] = m[i]
    BY <1>4, <1>7
  <2> QED BY <1>7, <2>1, <2>2
<1> QED BY <1>1, <1>7, <1>8, <1>9, SeqEqual

Ending(s, t) == Len(s) <= Len(t) /\ \A i \in 1..Len(s) : s[i] = t[Len(t) - Len(s) + i]

LEMMA SuffixAt ==
  ASSUME NEW S, NEW s \in Seq(S), NEW t \in Seq(S)
  PROVE  IsSuffix(s, t) <=> Ending(s, t)
<1>1. ASSUME NEW u \in Seq(S)
      PROVE  /\ Reverse(u) \in Seq(S) /\ Len(Reverse(u)) = Len(u)
             /\ \A i \in 1..Len(u) : Reverse(u)[i] = u[Len(u) - i + 1]
  BY DEF Reverse
<1>2. IsSuffix(s, t) <=> Len(s) <= Len(t) /\ \A i \in 1..Len(s) : Reverse(s)[i] = Reverse(t)[i]
  <2> DEFINE p == Reverse(s)
             q == Reverse(t)
  <2>1. p \in Seq(S) /\ q \in Seq(S) /\ Len(p) = Len(s) /\ Len(q) = Len(t)
    BY <1>1
  <2>2. IsSuffix(s, t) <=> Len(p) <= Len(q) /\ SubSeq(p, 1, Len(p)) = SubSeq(q, 1, Len(p))
    BY DEF IsSuffix, IsPrefix
  <2> HIDE DEF p, q
  <2>3. Len(p) <= Len(q) =>
          (SubSeq(p, 1, Len(p)) = SubSeq(q, 1, Len(p)) <=> \A i \in 1..Len(p) : p[i] = q[i])
    BY <2>1
  <2> QED BY <2>1, <2>2, <2>3 DEF p, q
<1>3. ASSUME Len(s) <= Len(t), \A i \in 1..Len(s) : Reverse(s)[i] = Reverse(t)[i],
             NEW i \in 1..Len(s)
      PROVE  s[i] = t[Len(t) - Len(s) + i]
  <2> DEFINE j == Len(s) - i + 1
  <2>1. /\ j \in 1..Len(s) /\ j \in 1..Len(t)
        /\ Len(s) - j + 1 = i /\ Len(t) - j + 1 = Len(t) - Len(s) + i
    BY <1>3
  <2> HIDE DEF j
  <2> QED BY <1>1, <1>3, <2>1
<1>4. ASSUME Ending(s, t), NEW i \in 1..Len(s) PROVE Reverse(s)[i] = Reverse(t)[i]
  <2> DEFINE j == Len(s) - i + 1
  <2>1. j \in 1..Len(s) /\ i \in 1..Len(t) /\ Len(t) - Len(s) + j = Len(t) - i + 1
    BY <1>4 DEF Ending
  <2>2. s[j] = t[Len(t) - Len(s) + j]
    BY <1>4, <2>1 DEF Ending
  <2>3. Reverse(s)[i] = s[j] /\ Reverse(t)[i] = t[Len(t) - i + 1]
    BY <1>1, <2>1
  <2> QED BY <2>1, <2>2, <2>3
<1> QED BY <1>2, <1>3, <1>4 DEF Ending

LEMMA SuffixIs ==
  ASSUME NEW S, NEW s \in Seq(S), NEW t \in Seq(S)
  PROVE  IsSuffix(s, t) <=> \E x \in Seq(S) : t = x \o s
<1>1. ASSUME Ending(s, t) PROVE \E x \in Seq(S) : t = x \o s
  <2> DEFINE x == SubSeq(t, 1, Len(t) - Len(s))
             y == x \o s
  <2>1. x \in Seq(S) /\ Len(x) = Len(t) - Len(s) /\ \A i \in 1..Len(x) : x[i] = t[i]
    BY <1>1 DEF Ending
  <2> HIDE DEF x
  <2>2. y \in Seq(S) /\ Len(y) = Len(x) + Len(s)
    BY <2>1
  <2>3. /\ \A i \in 1..Len(x) : y[i] = x[i]
        /\ \A i \in 1..Len(s) : y[Len(x) + i] = s[i]
    BY <2>1
  <2> HIDE DEF y
  <2>4. ASSUME NEW i \in 1..Len(t) PROVE t[i] = y[i]
    <3>1. CASE i <= Len(x)
      BY <2>1, <2>3, <3>1
    <3>2. CASE i > Len(x)
      <4>1. i - Len(x) \in 1..Len(s) /\ Len(x) + (i - Len(x)) = i
        BY <2>1, <3>2
      <4>2. y[i] = s[i - Len(x)]
        BY <2>3, <4>1
      <4>3. s[i - Len(x)] = t[Len(t) - Len(s) + (i - Len(x))]
        BY <1>1, <4>1 DEF Ending
      <4> QED BY <2>1, <4>1, <4>2, <4>3
    <3> QED BY <2>1, <3>1, <3>2
  <2>5. Len(y) = Len(t)
    BY <2>1, <2>2
  <2>6. t = y
    BY <2>2, <2>4, <2>5, SeqEqual
  <2> QED BY <2>1, <2>6 DEF y
<1>2. ASSUME NEW x \in Seq(S), t = x \o s PROVE Ending(s, t)
  BY <1>2 DEF Ending
<1> QED BY <1>1, <1>2, SuffixAt

(* A text meets another if it is that one, or ends with it after a dot.    *)
Meets(s, t) == s = t \/ \E x \in Seq(HostPiece) : t = x \o <<".">> \o s

LEMMA MeetsOneOne ==
  ASSUME NEW m \in Label, NEW l \in Label
  PROVE  Meets(m, l) <=> m = l
<1>1. ASSUME NEW x \in Seq(HostPiece), l = x \o <<".">> \o m PROVE FALSE
  <2>1. /\ m \in Seq(HostPiece) /\ Len(x) \in Nat /\ Len(m) \in Nat
        /\ \A i \in 1..Len(l) : l[i] # "."
    BY LabelText
  <2>2. Len(l) = Len(x) + 1 + Len(m) /\ l[Len(x) + 1] = "."
    BY <1>1, <2>1, Dotted
  <2> QED BY <2>1, <2>2
<1> QED BY <1>1 DEF Meets

LEMMA MeetsOneMany ==
  ASSUME NEW m \in Label, NEW a \in Seq(HostPiece), NEW l \in Label
  PROVE  Meets(m, a \o <<".">> \o l) <=> m = l
<1>1. ASSUME m = a \o <<".">> \o l PROVE FALSE
  <2>1. Meets(l, m)
    BY <1>1 DEF Meets
  <2>2. l = m
    BY <2>1, MeetsOneOne
  <2>3. l \in Seq(HostPiece) /\ Len(a) \in Nat /\ Len(l) \in Nat
    BY LabelText
  <2>4. Len(m) = Len(a) + 1 + Len(l)
    BY <1>1, <2>3, Dotted
  <2> QED BY <2>2, <2>3, <2>4
<1>2. ASSUME NEW x \in Seq(HostPiece), a \o <<".">> \o l = x \o <<".">> \o m PROVE m = l
  BY <1>2, LastDot
<1> QED BY <1>1, <1>2 DEF Meets

LEMMA MeetsManyOne ==
  ASSUME NEW b \in Seq(HostPiece), NEW m \in Label, NEW l \in Label
  PROVE  ~Meets(b \o <<".">> \o m, l)
<1> DEFINE s == b \o <<".">> \o m
<1>1. /\ m \in Seq(HostPiece) /\ \A i \in 1..Len(l) : l[i] # "."
      /\ Len(b) \in Nat /\ Len(m) \in Nat /\ Len(l) \in Nat
  BY LabelText
<1>2. s \in Seq(HostPiece) /\ Len(s) = Len(b) + 1 + Len(m) /\ s[Len(b) + 1] = "."
  BY <1>1, Dotted
<1> HIDE DEF s
<1>3. s # l
  BY <1>1, <1>2
<1>4. ASSUME NEW x \in Seq(HostPiece), l = x \o <<".">> \o s PROVE FALSE
  <2> DEFINE t == x \o <<".">> \o s
  <2>1. Len(t) = Len(x) + 1 + Len(s) /\ t[Len(x) + 1] = "."
    BY <1>2, Dotted
  <2>2. l = t /\ Len(x) \in Nat
    BY <1>4
  <2> HIDE DEF t
  <2> QED BY <1>1, <1>2, <2>1, <2>2
<1>5. ~Meets(s, l)
  BY <1>3, <1>4 DEF Meets
<1> QED BY <1>5 DEF s

LEMMA MeetsManyMany ==
  ASSUME NEW b \in Seq(HostPiece), NEW m \in Label, NEW a \in Seq(HostPiece), NEW l \in Label
  PROVE  Meets(b \o <<".">> \o m, a \o <<".">> \o l) <=> m = l /\ Meets(b, a)
<1> DEFINE s == b \o <<".">> \o m
           t == a \o <<".">> \o l
<1>1. m \in Seq(HostPiece)
  BY LabelText
<1>2. ASSUME NEW x \in Seq(HostPiece)
      PROVE  /\ x \o <<".">> \o s = (x \o <<".">> \o b) \o <<".">> \o m
             /\ x \o <<".">> \o b \in Seq(HostPiece)
  <2> DEFINE dot == <<".">>
  <2>1. dot \in Seq(HostPiece)
    BY DEF HostPiece
  <2> HIDE DEF dot
  <2> DEFINE u == b \o dot
             v == x \o dot
  <2>2. x \o dot \o (b \o dot \o m) = (x \o dot \o b) \o dot \o m
    <3>1. u \in Seq(HostPiece) /\ v \in Seq(HostPiece) /\ v \o b \in Seq(HostPiece)
      BY <2>1
    <3>2. v \o (u \o m) = v \o u \o m
      <4> HIDE DEF u, v
      <4> QED BY <1>1, <3>1
    <3>3. v \o u = v \o b \o dot
      <4> HIDE DEF v
      <4> QED BY <2>1, <3>1
    <3> QED BY <3>2, <3>3
  <2>3. x \o <<".">> \o b \in Seq(HostPiece)
    BY Dotted
  <2> QED BY <2>2, <2>3 DEF dot
<1>3. s = t <=> b = a /\ m = l
  BY LastDot
<1>4. ASSUME NEW x \in Seq(HostPiece)
      PROVE  t = x \o <<".">> \o s <=> a = x \o <<".">> \o b /\ l = m
  <2>1. ASSUME t = x \o <<".">> \o s PROVE a = x \o <<".">> \o b /\ l = m
    <3> DEFINE c == x \o <<".">> \o b
    <3>1. c \in Seq(HostPiece) /\ a \o <<".">> \o l = c \o <<".">> \o m
      BY <1>2, <2>1
    <3> HIDE DEF c
    <3>2. a = c /\ l = m
      <4>1. c \in Seq(HostPiece)
        BY <3>1
      <4>2. a \o <<".">> \o l = c \o <<".">> \o m => a = c /\ l = m
        BY <4>1, LastDot
      <4> QED BY <3>1, <4>2
    <3> QED BY <3>2 DEF c
  <2>2. ASSUME a = x \o <<".">> \o b, l = m PROVE t = x \o <<".">> \o s
    BY <1>2, <2>2
  <2> QED BY <2>1, <2>2
<1> HIDE DEF s, t
<1>5. Meets(s, t) <=> m = l /\ Meets(b, a)
  BY <1>3, <1>4 DEF Meets
<1> QED BY <1>5 DEF s, t

-----------------------------------------------------------------------------
(* A host ends with the labels of a domain exactly if its text meets that  *)
(* of the domain: induction over the labels of the domain, from the first. *)
LEMMA MeetsByLabels ==
  ASSUME NEW d \in Seq(Label) \ {<<>>}, NEW h \in Seq(Label) \ {<<>>}
  PROVE  Meets(Joined(d), Joined(h)) <=> IsSuffix(d, h)
<1> DEFINE D == First(d)
           H == First(h)
           Same(j, i) == j <= i /\ \A k \in 1..j : d[k] = h[i - j + k]
           Agree(j, i) == Meets(D[j], H[i]) <=> Same(j, i)
           S == {j \in Nat : j \in 1..Len(d) => \A i \in 1..Len(h) : Agree(j, i)}
<1>1. /\ Len(d) \in Nat \ {0} /\ Len(h) \in Nat \ {0}
      /\ \A j \in 1..Len(d) : d[j] \in Label
      /\ \A i \in 1..Len(h) : h[i] \in Label
  OBVIOUS
<1>2. /\ D[1] = d[1]
      /\ \A n \in 2..Len(d) : D[n] = D[n - 1] \o <<".">> \o d[n]
      /\ \A n \in 1..Len(d) : D[n] \in Seq(HostPiece)
  BY JoinText
<1>3. /\ H[1] = h[1]
      /\ \A n \in 2..Len(h) : H[n] = H[n - 1] \o <<".">> \o h[n]
      /\ \A n \in 1..Len(h) : H[n] \in Seq(HostPiece)
  BY JoinText
<1> HIDE DEF D, H
<1>4. ASSUME NEW i \in 1..Len(h) PROVE Meets(D[1], H[i]) <=> d[1] = h[i]
  <2>1. d[1] \in Label /\ h[i] \in Label
    BY <1>1
  <2>2. CASE i = 1
    BY <1>2, <1>3, <2>1, <2>2, MeetsOneOne
  <2>3. CASE i # 1
    <3>1. i \in 2..Len(h) /\ i - 1 \in 1..Len(h)
      BY <1>1, <2>3
    <3>2. H[i - 1] \in Seq(HostPiece) /\ H[i] = H[i - 1] \o <<".">> \o h[i]
      BY <1>3, <3>1
    <3>3. Meets(d[1], H[i - 1] \o <<".">> \o h[i]) <=> d[1] = h[i]
      BY <2>1, <3>2, MeetsOneMany
    <3> QED BY <1>2, <3>2, <3>3
  <2> QED BY <2>2, <2>3
<1>5. ASSUME NEW j \in 2..Len(d) PROVE ~Meets(D[j], H[1])
  <2>1. j - 1 \in 1..Len(d) /\ j \in 1..Len(d) /\ 1 \in 1..Len(h)
    BY <1>1
  <2>2. d[j] \in Label /\ h[1] \in Label /\ D[j - 1] \in Seq(HostPiece)
    BY <1>1, <1>2, <2>1
  <2>3. ~Meets(D[j - 1] \o <<".">> \o d[j], h[1])
    BY <2>2, MeetsManyOne
  <2>4. D[j] = D[j - 1] \o <<".">> \o d[j]
    BY <1>2
  <2> QED BY <1>3, <2>3, <2>4
<1>6. ASSUME NEW j \in 2..Len(d), NEW i \in 2..Len(h)
      PROVE  Meets(D[j], H[i]) <=> d[j] = h[i] /\ Meets(D[j - 1], H[i - 1])
  <2>1. j - 1 \in 1..Len(d) /\ j \in 1..Len(d) /\ i - 1 \in 1..Len(h) /\ i \in 1..Len(h)
    BY <1>1
  <2>2. /\ d[j] \in Label /\ h[i] \in Label
        /\ D[j - 1] \in Seq(HostPiece) /\ H[i - 1] \in Seq(HostPiece)
    BY <1>1, <1>2, <1>3, <2>1
  <2>3. Meets(D[j - 1] \o <<".">> \o d[j], H[i - 1] \o <<".">> \o h[i])
          <=> d[j] = h[i] /\ Meets(D[j - 1], H[i - 1])
    BY <2>2, MeetsManyMany
  <2>4. D[j] = D[j - 1] \o <<".">> \o d[j] /\ H[i] = H[i - 1] \o <<".">> \o h[i]
    BY <1>2, <1>3
  <2> QED BY <2>3, <2>4
<1>7. ASSUME NEW i \in 1..Len(h) PROVE Same(1, i) <=> d[1] = h[i]
  BY <1>1
<1>8. ASSUME NEW j \in 2..Len(d), NEW i \in 2..Len(h)
      PROVE  Same(j, i) <=> d[j] = h[i] /\ Same(j - 1, i - 1)
  <2>1. j \in Nat /\ i \in Nat /\ (i - 1) - (j - 1) = i - j
    BY <1>1
  <2>2. Same(j - 1, i - 1) <=> j <= i /\ \A k \in 1..(j - 1) : d[k] = h[i - j + k]
    BY <2>1
  <2>3. \A k \in 1..j : k \in 1..(j - 1) \/ k = j
    BY <2>1
  <2>4. \A k \in 1..(j - 1) : k \in 1..j
    BY <2>1
  <2>5. j \in 1..j /\ i - j + j = i
    BY <2>1
  <2>6. ASSUME Same(j, i) PROVE d[j] = h[i] /\ Same(j - 1, i - 1)
    BY <2>2, <2>4, <2>5, <2>6
  <2>7. ASSUME d[j] = h[i], Same(j - 1, i - 1) PROVE Same(j, i)
    BY <2>2, <2>3, <2>5, <2>7
  <2> QED BY <2>6, <2>7
<1>9. ASSUME NEW j \in 2..Len(d) PROVE ~Same(j, 1)
  BY <1>1
<1> HIDE DEF Same
<1>10. 0 \in S
  OBVIOUS
<1>11. ASSUME NEW j \in S PROVE j + 1 \in S
  <2> SUFFICES ASSUME j + 1 \in 1..Len(d), NEW i \in 1..Len(h) PROVE Agree(j + 1, i)
    OBVIOUS
  <2>1. j \in Nat
    OBVIOUS
  <2>2. CASE j = 0
    <3>1. Agree(1, i)
      BY <1>4, <1>7
    <3> HIDE DEF Agree
    <3> QED BY <2>2, <3>1
  <2>3. CASE j # 0
    <3>1. PICK m \in 2..Len(d) : m = j + 1 /\ m - 1 = j /\ j \in 1..Len(d)
      BY <1>1, <2>1, <2>3
    <3>2. CASE i = 1
      <4>1. Agree(m, 1)
        BY <1>5, <1>9
      <4> HIDE DEF Agree
      <4> QED BY <3>1, <3>2, <4>1
    <3>3. CASE i # 1
      <4>1. i \in 2..Len(h) /\ i - 1 \in 1..Len(h)
        BY <1>1, <3>3
      <4>2. Agree(m - 1, i - 1)
        <5>1. Agree(j, i - 1)
          BY <3>1, <4>1
        <5> HIDE DEF Agree
        <5> QED BY <3>1, <5>1
      <4>3. Agree(m, i)
        BY <1>6, <1>8, <4>1, <4>2
      <4> HIDE DEF Agree
      <4> QED BY <3>1, <4>3
    <3> QED BY <3>2, <3>3
  <2> QED BY <2>2, <2>3
<1>12. Agree(Len(d), Len(h))
  <2>1. S \in SUBSET Nat
    OBVIOUS
  <2> HIDE DEF Agree
  <2>2. Len(d) \in S
    <3> HIDE DEF S
    <3> QED BY <1>1, <1>10, <1>11, <2>1, AllNumbers
  <2> QED BY <1>1, <2>2
<1>13. Joined(d) = D[Len(d)] /\ Joined(h) = H[Len(h)]
  BY JoinUnfolds DEF D, H
<1>14. IsSuffix(d, h) <=> Ending(d, h)
  BY SuffixAt
<1>15. Same(Len(d), Len(h)) <=> Ending(d, h)
  BY DEF Same, Ending
<1> QED BY <1>12, <1>13, <1>14, <1>15

-----------------------------------------------------------------------------
(* Cutting a text at the first separator of a kind *)

LEMMA FirstIs ==
  ASSUME NEW S, NEW text \in Seq(S), NEW pieces
  PROVE  LET i == FirstOf(text, pieces) IN
         \/ i = 0 /\ \A k \in 1..Len(text) : text[k] \notin pieces
         \/ /\ i \in 1..Len(text) /\ text[i] \in pieces
            /\ \A k \in 1..Len(text) : k < i => text[k] \notin pieces
<1> DEFINE I == {i \in 1..Len(text) : text[i] \in pieces}
<1>1. FirstOf(text, pieces) = IF I # {} THEN Min(I) ELSE 0
  BY DEF FirstOf, SelectInSeq
<1>2. I \subseteq Nat
  OBVIOUS
<1>3. CASE I = {}
  BY <1>1, <1>3
<1>4. CASE I # {}
  <2>1. \E i \in I : \A k \in I : i <= k
    BY <1>2, <1>4, LeastNumber
  <2>2. Min(I) \in I /\ \A k \in I : Min(I) <= k
    <3> HIDE DEF I
    <3> QED BY <2>1 DEF Min
  <2>3. FirstOf(text, pieces) = Min(I)
    BY <1>1, <1>4
  <2> DEFINE i == Min(I)
  <2>4. i \in 1..Len(text) /\ text[i] \in pieces
    BY <2>2
  <2>5. ASSUME NEW k \in 1..Len(text), k < i PROVE text[k] \notin pieces
    <3>1. k \notin I
      BY <2>2, <2>4, <2>5
    <3> QED BY <3>1
  <2> HIDE DEF i
  <2> QED BY <2>3, <2>4, <2>5 DEF i
<1> QED BY <1>3, <1>4

(* What is before the first separator, if one follows right after s. *)
LEMMA FirstAfter ==
  ASSUME NEW S, NEW s \in Seq(S), NEW q \in Seq(S), NEW pieces,
         \A i \in 1..Len(s) : s[i] \notin pieces
  PROVE  /\ q # <<>> /\ q[1] \in pieces => FirstOf(s \o q, pieces) = Len(s) + 1
         /\ q = <<>> => FirstOf(s \o q, pieces) = 0
         /\ q # <<>> /\ q[1] \notin pieces =>
              FirstOf(s \o q, pieces) = 0 \/ FirstOf(s \o q, pieces) > Len(s) + 1
<1> DEFINE t == s \o q
           i == FirstOf(t, pieces)
<1>1. /\ t \in Seq(S) /\ Len(t) = Len(s) + Len(q)
      /\ \A k \in 1..Len(s) : t[k] = s[k]
      /\ \A k \in 1..Len(q) : t[Len(s) + k] = q[k]
      /\ Len(s) \in Nat /\ Len(q) \in Nat
  OBVIOUS
<1>2. q # <<>> => /\ Len(s) + 1 \in 1..Len(t) /\ t[Len(s) + 1] = q[1]
  BY <1>1
<1> HIDE DEF t
<1>3. \/ i = 0 /\ \A k \in 1..Len(t) : t[k] \notin pieces
      \/ /\ i \in 1..Len(t) /\ t[i] \in pieces
         /\ \A k \in 1..Len(t) : k < i => t[k] \notin pieces
  BY <1>1, FirstIs
<1> HIDE DEF i
<1>4. i # 0 => i \in Nat /\ i > Len(s)
  BY <1>1, <1>3
<1>5. q = <<>> => i = 0
  BY <1>1, <1>3, <1>4
<1>6. ASSUME q # <<>>, q[1] \in pieces PROVE i = Len(s) + 1
  <2>1. Len(s) + 1 \in 1..Len(t) /\ t[Len(s) + 1] \in pieces
    BY <1>2, <1>6
  <2>2. i # 0
    BY <1>3, <2>1
  <2>3. ~(Len(s) + 1 < i)
    BY <1>3, <2>1, <2>2
  <2> QED BY <1>1, <1>4, <2>2, <2>3
<1>7. q # <<>> /\ q[1] \notin pieces => i = 0 \/ i > Len(s) + 1
  BY <1>1, <1>2, <1>3, <1>4
<1> QED BY <1>5, <1>6, <1>7 DEF i, t

LEMMA Concatenation ==
  ASSUME NEW S, NEW a \in Seq(S), NEW b \in Seq(S)
  PROVE  /\ a \o b \in Seq(S) /\ Len(a \o b) = Len(a) + Len(b)
         /\ \A k \in 1..Len(a) : (a \o b)[k] = a[k]
         /\ \A k \in 1..Len(b) : (a \o b)[Len(a) + k] = b[k]
  OBVIOUS

LEMMA BeforeIs ==
  ASSUME NEW S, NEW s \in Seq(S), NEW q \in Seq(S), NEW pieces,
         \A i \in 1..Len(s) : s[i] \notin pieces
  PROVE  \/ (q # <<>> => q[1] \in pieces) /\ Before(s \o q, pieces) = s
         \/ /\ q # <<>> /\ q[1] \notin pieces
            /\ \E p \in Seq(S) : Before(s \o q, pieces) = s \o p /\ p # <<>> /\ p[1] = q[1]
<1> DEFINE t == s \o q
           i == FirstOf(t, pieces)
<1>1. /\ t \in Seq(S) /\ Len(t) = Len(s) + Len(q)
      /\ \A k \in 1..Len(s) : t[k] = s[k]
      /\ \A k \in 1..Len(q) : t[Len(s) + k] = q[k]
      /\ Len(s) \in Nat /\ Len(q) \in Nat
  OBVIOUS
<1>2. Before(t, pieces) = IF i = 0 THEN t ELSE SubSeq(t, 1, i - 1)
  BY DEF Before
<1>3. /\ q # <<>> /\ q[1] \in pieces => i = Len(s) + 1
      /\ q = <<>> => i = 0
      /\ q # <<>> /\ q[1] \notin pieces => i = 0 \/ i > Len(s) + 1
  BY FirstAfter
<1>4. i = 0 \/ i \in 1..Len(t)
  BY <1>1, FirstIs
<1>5. ASSUME q = <<>> PROVE Before(t, pieces) = s
  <2>1. t = s
    BY <1>5
  <2> HIDE DEF t
  <2> QED BY <1>2, <1>3, <1>5, <2>1
<1> HIDE DEF t, i
<1>6. ASSUME q # <<>>, q[1] \in pieces PROVE Before(t, pieces) = s
  <2>1. Before(t, pieces) = SubSeq(t, 1, Len(s))
    BY <1>1, <1>2, <1>3, <1>6
  <2>2. Len(s) <= Len(t)
    BY <1>1
  <2>3. /\ SubSeq(t, 1, Len(s)) \in Seq(S) /\ Len(SubSeq(t, 1, Len(s))) = Len(s)
        /\ \A k \in 1..Len(s) : SubSeq(t, 1, Len(s))[k] = t[k]
    BY <1>1, <2>2
  <2> QED BY <1>1, <2>1, <2>3, SeqEqual
<1>7. ASSUME q # <<>>, q[1] \notin pieces
      PROVE  \E p \in Seq(S) : Before(t, pieces) = s \o p /\ p # <<>> /\ p[1] = q[1]
  <2>1. CASE i = 0
    BY <1>2, <1>7, <2>1 DEF t
  <2>2. CASE i # 0
    <3> DEFINE n == i - 1
               u == SubSeq(t, 1, n)
               p == SubSeq(q, 1, n - Len(s))
               v == s \o p
    <3>1. /\ i \in 1..Len(t) /\ i > Len(s) + 1 /\ n \in Nat /\ n <= Len(t)
          /\ n - Len(s) \in 1..Len(q)
      BY <1>1, <1>3, <1>4, <1>7, <2>2
    <3> HIDE DEF n
    <3>2. /\ u \in Seq(S) /\ Len(u) = n /\ \A k \in 1..n : u[k] = t[k]
      BY <1>1, <3>1
    <3>3. /\ p \in Seq(S) /\ Len(p) = n - Len(s) /\ \A k \in 1..Len(p) : p[k] = q[k]
      BY <3>1
    <3> HIDE DEF u, p
    <3>4. /\ v \in Seq(S) /\ Len(v) = Len(s) + Len(p)
          /\ \A k \in 1..Len(s) : v[k] = s[k]
          /\ \A k \in 1..Len(p) : v[Len(s) + k] = p[k]
      <4>1. p \in Seq(S)
        BY <3>3
      <4> QED BY <4>1, Concatenation
    <3> HIDE DEF v
    <3>5. ASSUME NEW k \in 1..n PROVE u[k] = v[k]
      <4>1. CASE k <= Len(s)
        BY <1>1, <3>2, <3>4, <4>1
      <4>2. CASE k > Len(s)
        <5>1. k - Len(s) \in 1..Len(p) /\ k - Len(s) \in 1..Len(q) /\ Len(s) + (k - Len(s)) = k
          BY <1>1, <3>1, <3>3, <4>2
        <5>2. v[k] = p[k - Len(s)] /\ t[k] = q[k - Len(s)]
          BY <1>1, <3>4, <5>1
        <5> QED BY <3>2, <3>3, <5>1, <5>2
      <4> QED BY <1>1, <4>1, <4>2
    <3>6. Len(u) = Len(v)
      BY <1>1, <3>1, <3>2, <3>3, <3>4
    <3>7. u = v
      BY <3>2, <3>4, <3>5, <3>6, SeqEqual
    <3>8. p # <<>> /\ p[1] = q[1]
      BY <3>1, <3>3
    <3>9. Before(t, pieces) = u
      BY <1>2, <2>2 DEF u, n
    <3> QED BY <3>3, <3>7, <3>8, <3>9 DEF v
  <2> QED BY <2>1, <2>2
<1> QED BY <1>5, <1>6, <1>7 DEF t

-----------------------------------------------------------------------------
(* The host of a request's text *)

LEMMA HostText ==
  ASSUME NEW h \in Seq(Label)
  PROVE  /\ Joined(h) \in Seq(HostPiece) /\ Joined(h) \in Seq(Piece)
         /\ \A i \in 1..Len(Joined(h)) : Joined(h)[i] \notin {"://", "/", ":", "@"}
         /\ h # << <<>> >> => (Joined(h) = <<>> <=> h = <<>>)
<1> DEFINE t == Joined(h)
<1>1. CASE h = <<>>
  <2> DEFINE F == First(h)
  <2>1. F = JoinOf(h, F) /\ t = F[Len(h)] /\ Len(h) = 0
    BY <1>1, JoinUnfolds
  <2> HIDE DEF t, F
  <2>2. t = <<>>
    BY <2>1 DEF JoinOf
  <2>3. t \in Seq(HostPiece) /\ t \in Seq(Piece) /\ \A i \in 1..Len(t) : FALSE
    BY <2>2
  <2> QED BY <1>1, <2>2, <2>3 DEF t
<1>2. CASE h # <<>>
  <2> DEFINE F == First(h)
  <2>1. Len(h) \in Nat \ {0} /\ h \in Seq(Label) \ {<<>>} /\ t = F[Len(h)]
    BY <1>2, JoinUnfolds
  <2>2. t \in Seq(HostPiece)
    <3>1. \A n \in 1..Len(h) : F[n] \in Seq(HostPiece)
      BY <2>1, JoinText
    <3> HIDE DEF F, t
    <3>2. Len(h) \in 1..Len(h)
      BY <2>1
    <3> QED BY <2>1, <3>1, <3>2
  <2>5. ASSUME h # << <<>> >> PROVE t # <<>>
    <3>1. /\ F[1] = h[1]
          /\ \A n \in 2..Len(h) : F[n] # <<>>
      BY <2>1, JoinText
    <3> HIDE DEF F, t
    <3>2. CASE Len(h) = 1
      <4>1. h = <<h[1]>>
        BY <2>1, <3>2
      <4>2. h[1] # <<>>
        BY <2>5, <4>1
      <4> QED BY <2>1, <3>1, <3>2, <4>2
    <3>3. CASE Len(h) # 1
      <4> DEFINE n == Len(h)
      <4>1. n \in Nat \ {0} /\ n # 1
        BY <2>1, <3>3
      <4> HIDE DEF n
      <4>2. n \in 2..n
        BY <4>1
      <4> QED BY <2>1, <3>1, <4>2 DEF n
    <3> QED BY <3>2, <3>3
  <2> HIDE DEF t
  <2>3. HostPiece \subseteq Piece /\ HostPiece \cap {"://", "/", ":", "@"} = {}
    BY NetworkAssumption DEF HostPiece, Piece, Separator
  <2>4. t \in Seq(Piece) /\ \A i \in 1..Len(t) : t[i] \notin {"://", "/", ":", "@"}
    BY <2>2, <2>3
  <2> QED BY <1>2, <2>2, <2>4, <2>5 DEF t
<1> QED BY <1>1, <1>2

(* Two cuts after the "://": what a port or a path adds goes. *)
LEMMA CutTwice ==
  ASSUME NEW S, NEW t \in Seq(S), NEW q \in Seq(S),
         \A i \in 1..Len(t) : t[i] \notin {"://", "/", ":"},
         q # <<>> => q[1] \in {"/", ":", "://"}
  PROVE  Before(Before(t \o q, {"/", "://"}), {":", "://"}) = t
<1> DEFINE u == Before(t \o q, {"/", "://"})
<1>1. \A i \in 1..Len(t) : t[i] \notin {"/", "://"} /\ t[i] \notin {":", "://"}
  OBVIOUS
<1>2. /\ q # <<>> /\ q[1] \in {"/", "://"} => u = t
      /\ q = <<>> => u = t
      /\ q # <<>> /\ q[1] \notin {"/", "://"} =>
           \E p \in Seq(S) : u = t \o p /\ p # <<>> /\ p[1] = q[1]
  <2> DEFINE cut == {"/", "://"}
  <2>1. \A i \in 1..Len(t) : t[i] \notin cut
    BY <1>1
  <2> HIDE DEF cut
  <2>2. \/ (q # <<>> => q[1] \in cut) /\ Before(t \o q, cut) = t
        \/ /\ q # <<>> /\ q[1] \notin cut
           /\ \E p \in Seq(S) : Before(t \o q, cut) = t \o p /\ p # <<>> /\ p[1] = q[1]
    BY <2>1, BeforeIs
  <2> QED BY <2>2 DEF cut
<1> HIDE DEF u
<1>3. \E p \in Seq(S) : u = t \o p /\ (p # <<>> => p[1] \in {":", "://"})
  <2>1. CASE u = t
    <3>1. u = t \o <<>> /\ <<>> \in Seq(S)
      BY <2>1
    <3> QED BY <3>1
  <2>2. CASE u # t
    BY <1>2, <2>2
  <2> QED BY <2>1, <2>2
<1>4. PICK p \in Seq(S) : u = t \o p /\ (p # <<>> => p[1] \in {":", "://"})
  BY <1>3
<1>5. Before(t \o p, {":", "://"}) = t
  BY <1>1, <1>4, BeforeIs
<1> QED BY <1>4, <1>5 DEF u

(* What is of fewer pieces is of pieces. *)
LEMMA FewerPieces ==
  ASSUME NEW S, NEW T, S \subseteq T, NEW s \in Seq(S)
  PROVE  s \in Seq(T) /\ \A i \in 1..Len(s) : s[i] \in S
OBVIOUS

(* The parts of a request as texts *)
LEMMA RequestText ==
  ASSUME NEW r \in Request
  PROVE  /\ r.absolute \in BOOLEAN /\ r.host \in Seq(Label) /\ r.host # << <<>> >>
         /\ r.scheme \in Seq(Piece) /\ \A i \in 1..Len(r.scheme) : r.scheme[i] # "://"
         /\ r.user \in Seq(Piece)
         /\ \A i \in 1..Len(r.user) : r.user[i] \notin {"://", "/"}
         /\ r.user # <<>> => r.user[Len(r.user)] = "@"
         /\ r.port \in Seq(Piece) /\ \A i \in 1..Len(r.port) : r.port[i] # "://"
         /\ r.port # <<>> => r.port[1] = ":"
         /\ r.rest \in Seq(Piece)
         /\ r.rest # <<>> => r.rest[1] \in {"/", "?", "#", "://"}
<1>1. /\ r.absolute \in BOOLEAN /\ r.scheme \in Seq(Word \cup {"."})
      /\ r.user \in Seq(Word \cup {":", ".", "@"}) /\ r.host \in Seq(Label) \ {<< <<>> >>}
      /\ r.port \in Seq(Word \cup {":", "."}) /\ r.rest \in Seq(Piece)
      /\ r.user # <<>> => Last(r.user) = "@"
      /\ r.port # <<>> => Head(r.port) = ":"
      /\ r.rest # <<>> => Head(r.rest) \in {"/", "?", "#", "://"}
  BY NetworkAssumption
<1>2. Word \subseteq Piece /\ Separator \subseteq Piece /\ "://" \notin Word /\ "/" \notin Word
  BY NetworkAssumption DEF Piece, Separator
<1>3. r.scheme \in Seq(Piece) /\ \A i \in 1..Len(r.scheme) : r.scheme[i] # "://"
  <2> DEFINE S == Word \cup {"."}
  <2>1. S \subseteq Piece /\ "://" \notin S
    BY <1>2 DEF Separator
  <2> HIDE DEF S
  <2>2. r.scheme \in Seq(Piece) /\ \A i \in 1..Len(r.scheme) : r.scheme[i] \in S
    BY <1>1, <2>1, FewerPieces DEF S
  <2> QED BY <2>1, <2>2
<1>4. r.user \in Seq(Piece) /\ \A i \in 1..Len(r.user) : r.user[i] \notin {"://", "/"}
  <2> DEFINE S == Word \cup {":", ".", "@"}
  <2>1. S \subseteq Piece /\ "://" \notin S /\ "/" \notin S
    BY <1>2 DEF Separator
  <2>2. r.user \in Seq(S)
    BY <1>1
  <2> HIDE DEF S
  <2>3. r.user \in Seq(Piece) /\ \A i \in 1..Len(r.user) : r.user[i] \in S
    BY <2>1, <2>2, FewerPieces
  <2> QED BY <2>1, <2>3
<1>5. r.port \in Seq(Piece) /\ \A i \in 1..Len(r.port) : r.port[i] # "://"
  <2> DEFINE S == Word \cup {":", "."}
  <2>1. S \subseteq Piece /\ "://" \notin S
    BY <1>2 DEF Separator
  <2>2. r.port \in Seq(S)
    BY <1>1
  <2> HIDE DEF S
  <2>3. r.port \in Seq(Piece) /\ \A i \in 1..Len(r.port) : r.port[i] \in S
    BY <2>1, <2>2, FewerPieces
  <2> QED BY <2>1, <2>3
<1>6. /\ r.user # <<>> => r.user[Len(r.user)] = "@"
      /\ r.port # <<>> => r.port[1] = ":"
      /\ r.rest # <<>> => r.rest[1] \in {"/", "?", "#", "://"}
  BY <1>1 DEF Last
<1> QED BY <1>1, <1>3, <1>4, <1>5, <1>6

LEMMA JoinNone ==
  ASSUME NEW S, NEW a \in Seq(S), NEW b \in Seq(S), NEW e,
         \A i \in 1..Len(a) : a[i] # e, \A i \in 1..Len(b) : b[i] # e
  PROVE  \A i \in 1..Len(a \o b) : (a \o b)[i] # e
<1> DEFINE v == a \o b
<1>1. /\ v \in Seq(S) /\ Len(v) = Len(a) + Len(b)
      /\ \A k \in 1..Len(a) : v[k] = a[k]
      /\ \A k \in 1..Len(b) : v[Len(a) + k] = b[k]
  BY Concatenation
<1> HIDE DEF v
<1>2. ASSUME NEW k \in 1..Len(v) PROVE v[k] # e
  <2>1. CASE k <= Len(a)
    BY <1>1, <2>1
  <2>2. CASE k > Len(a)
    <3>1. k - Len(a) \in 1..Len(b) /\ Len(a) + (k - Len(a)) = k
      BY <1>1, <2>2
    <3> DEFINE j == k - Len(a)
    <3>2. v[Len(a) + j] = b[j]
      BY <1>1, <3>1
    <3> QED BY <3>1, <3>2
  <2> QED BY <1>1, <2>1, <2>2
<1> QED BY <1>2 DEF v

LEMMA JoinHead ==
  ASSUME NEW S, NEW a \in Seq(S), NEW b \in Seq(S), a \o b # <<>>
  PROVE  \/ a # <<>> /\ (a \o b)[1] = a[1]
         \/ a = <<>> /\ b # <<>> /\ (a \o b)[1] = b[1]
<1> DEFINE v == a \o b
<1>1. /\ v \in Seq(S) /\ Len(v) = Len(a) + Len(b) /\ v # <<>>
      /\ \A k \in 1..Len(a) : v[k] = a[k]
      /\ \A k \in 1..Len(b) : v[Len(a) + k] = b[k]
  BY Concatenation
<1> HIDE DEF v
<1>2. CASE a = <<>>
  <2>1. Len(a) = 0 /\ Len(b) \in Nat \ {0} /\ 1 \in 1..Len(b)
    BY <1>1, <1>2
  <2>2. v[Len(a) + 1] = b[1] /\ Len(a) + 1 = 1
    BY <1>1, <2>1
  <2> QED BY <1>2, <2>1, <2>2 DEF v
<1>3. CASE a # <<>>
  BY <1>1, <1>3 DEF v
<1> QED BY <1>2, <1>3

(* What follows the host, as extract_host meets it *)
LEMMA AfterHost ==
  ASSUME NEW port \in Seq(Piece), NEW rest \in Seq(Piece), NEW absolute \in BOOLEAN,
         \A i \in 1..Len(port) : port[i] # "://",
         port # <<>> => port[1] = ":",
         port = <<>> /\ rest # <<>> => rest[1] \in {"/", "://"},
         ~absolute => \A i \in 1..Len(rest) : rest[i] # "://"
  PROVE  /\ port \o rest \in Seq(Piece)
         /\ port \o rest # <<>> => (port \o rest)[1] \in {"/", ":", "://"}
         /\ ~absolute => \A i \in 1..Len(port \o rest) : (port \o rest)[i] # "://"
<1>1. port \o rest \in Seq(Piece)
  OBVIOUS
<1>2. ASSUME port \o rest # <<>> PROVE (port \o rest)[1] \in {"/", ":", "://"}
  <2>1. \/ port # <<>> /\ (port \o rest)[1] = port[1]
        \/ port = <<>> /\ rest # <<>> /\ (port \o rest)[1] = rest[1]
    BY <1>2, JoinHead
  <2> DEFINE first == (port \o rest)[1]
  <2>2. \/ port # <<>> /\ first = port[1]
        \/ port = <<>> /\ rest # <<>> /\ first = rest[1]
    BY <2>1
  <2> HIDE DEF first
  <2>3. first \in {"/", ":", "://"}
    BY <2>2
  <2> QED BY <2>3 DEF first
<1>3. ASSUME ~absolute PROVE \A i \in 1..Len(port \o rest) : (port \o rest)[i] # "://"
  <2> DEFINE e == "://"
  <2>1. (\A i \in 1..Len(port) : port[i] # e) /\ \A i \in 1..Len(rest) : rest[i] # e
    BY <1>3
  <2> HIDE DEF e
  <2>2. \A i \in 1..Len(port \o rest) : (port \o rest)[i] # e
    BY <2>1, JoinNone
  <2> QED BY <2>2 DEF e
<1> QED BY <1>1, <1>2, <1>3

(* The text after "a://", with w after it *)
LEMMA SchemeCut ==
  ASSUME NEW a \in Seq(Piece), NEW w \in Seq(Piece), NEW c \in Seq(Piece), Len(c) = 1
  PROVE  /\ a \o c \o w = a \o (c \o w)
         /\ c \o w \in Seq(Piece) /\ c \o w # <<>> /\ (c \o w)[1] = c[1]
         /\ SubSeq(a \o c \o w, Len(a) + 2, Len(a \o c \o w)) = w
<1> DEFINE v == a \o c
           s == v \o w
<1>1. /\ v \in Seq(Piece) /\ Len(v) = Len(a) + 1 /\ Len(a) \in Nat
  <2>1. v \in Seq(Piece) /\ Len(v) = Len(a) + Len(c)
    BY Concatenation
  <2> HIDE DEF v
  <2> QED BY <2>1
<1>2. a \o c \o w = a \o (c \o w)
  OBVIOUS
<1> DEFINE b == c \o w
<1>3. /\ b \in Seq(Piece) /\ Len(b) = Len(c) + Len(w)
      /\ \A k \in 1..Len(c) : b[k] = c[k]
  BY Concatenation
<1> HIDE DEF v, b
<1>4. b # <<>> /\ b[1] = c[1]
  BY <1>3
<1>5. /\ s \in Seq(Piece) /\ Len(s) = Len(a) + 1 + Len(w) /\ Len(w) \in Nat
      /\ \A k \in 1..Len(w) : s[Len(v) + k] = w[k]
  <2>1. v \in Seq(Piece) /\ w \in Seq(Piece)
    BY <1>1
  <2>2. /\ s \in Seq(Piece) /\ Len(s) = Len(v) + Len(w)
        /\ \A k \in 1..Len(w) : s[Len(v) + k] = w[k]
    BY <2>1, Concatenation
  <2> QED BY <1>1, <2>1, <2>2
<1> HIDE DEF s
<1>6. /\ SubSeq(s, Len(a) + 2, Len(s)) \in Seq(Piece)
      /\ Len(SubSeq(s, Len(a) + 2, Len(s))) = Len(w)
      /\ \A k \in 1..Len(w) : SubSeq(s, Len(a) + 2, Len(s))[k] = s[Len(a) + 1 + k]
  BY <1>1, <1>5
<1>7. SubSeq(s, Len(a) + 2, Len(s)) = w
  <2> DEFINE x == SubSeq(s, Len(a) + 2, Len(s))
  <2>1. \A k \in 1..Len(w) : s[Len(a) + 1 + k] = w[k]
    BY <1>1, <1>5
  <2>2. x \in Seq(Piece) /\ Len(x) = Len(w) /\ \A k \in 1..Len(w) : x[k] = w[k]
    BY <1>6, <2>1
  <2> HIDE DEF x
  <2>3. x = w
    BY <2>2, SeqEqual
  <2> QED BY <2>3 DEF x
<1> QED BY <1>2, <1>3, <1>4, <1>7 DEF s, v, b

(* extract_host gives the user information and the text of the host, of a  *)
(* URL that has a scheme, and nothing otherwise.                           *)
LEMMA ExtractHostIs ==
  ASSUME NEW r \in Request, ~Misread(r)
  PROVE  ExtractHost(Text(r)) = IF r.absolute THEN Named(r) ELSE <<>>
<1> DEFINE t == Named(r)
           q == After(r)
           text == Text(r)
<1>1. /\ r.absolute \in BOOLEAN /\ r.host \in Seq(Label)
      /\ r.scheme \in Seq(Piece) /\ \A i \in 1..Len(r.scheme) : r.scheme[i] # "://"
      /\ r.user \in Seq(Piece) /\ \A i \in 1..Len(r.user) : r.user[i] \notin {"://", "/"}
      /\ r.port \in Seq(Piece) /\ \A i \in 1..Len(r.port) : r.port[i] # "://"
      /\ r.port # <<>> => r.port[1] = ":"
      /\ r.rest \in Seq(Piece)
      /\ r.rest # <<>> => r.rest[1] \in {"/", "?", "#", "://"}
  BY RequestText
<1>2. /\ \A i \in 1..Len(r.user) : r.user[i] # ":"
      /\ r.port = <<>> /\ r.rest # <<>> => r.rest[1] \in {"/", "://"}
      /\ ~r.absolute => \A i \in 1..Len(r.rest) : r.rest[i] # "://"
  BY <1>1 DEF Misread, ToSet
<1>3. t \in Seq(Piece) /\ \A i \in 1..Len(t) : t[i] \notin {"://", "/", ":"}
  <2> DEFINE h == Joined(r.host)
  <2>1. h \in Seq(Piece) /\ \A i \in 1..Len(h) : h[i] \notin {"://", "/", ":"}
    BY <1>1, HostText
  <2> HIDE DEF h
  <2>2. \A e \in {"://", "/", ":"} : \A i \in 1..Len(r.user \o h) : (r.user \o h)[i] # e
    <3>1. TAKE e \in {"://", "/", ":"}
    <3>2. (\A i \in 1..Len(r.user) : r.user[i] # e) /\ \A i \in 1..Len(h) : h[i] # e
      BY <1>1, <1>2, <2>1
    <3> QED BY <1>1, <2>1, <3>2, JoinNone
  <2>3. r.user \o h \in Seq(Piece)
    BY <1>1, <2>1
  <2>4. t = r.user \o h
    BY DEF Named, h
  <2> HIDE DEF t
  <2> QED BY <2>2, <2>3, <2>4
<1>4. /\ q \in Seq(Piece)
      /\ q # <<>> => q[1] \in {"/", ":", "://"}
      /\ ~r.absolute => \A i \in 1..Len(q) : q[i] # "://"
  <2>1. q = r.port \o r.rest
    BY DEF After
  <2> DEFINE port == r.port
             rest == r.rest
             absolute == r.absolute
  <2>2. /\ port \in Seq(Piece) /\ rest \in Seq(Piece) /\ absolute \in BOOLEAN
        /\ \A i \in 1..Len(port) : port[i] # "://"
        /\ port # <<>> => port[1] = ":"
        /\ port = <<>> /\ rest # <<>> => rest[1] \in {"/", "://"}
        /\ ~absolute => \A i \in 1..Len(rest) : rest[i] # "://"
    BY <1>1, <1>2
  <2>3. q = port \o rest
    BY <2>1
  <2> HIDE DEF q, port, rest, absolute
  <2>4. /\ q \in Seq(Piece)
        /\ q # <<>> => q[1] \in {"/", ":", "://"}
        /\ ~absolute => \A i \in 1..Len(q) : q[i] # "://"
    BY <2>2, <2>3, AfterHost
  <2> QED BY <2>4 DEF absolute
<1> HIDE DEF t, q
<1>5. CASE r.absolute
  <2> DEFINE a == r.scheme
             c == <<"://">>
             w == t \o q
             i == FirstOf(text, {"://"})
  <2>1. text = a \o c \o w
    BY <1>5 DEF Text, t, q
  <2>2. /\ a \in Seq(Piece) /\ w \in Seq(Piece) /\ c \in Seq(Piece)
        /\ Len(c) = 1 /\ c[1] \in {"://"}
        /\ \A k \in 1..Len(a) : a[k] \notin {"://"}
    BY <1>1, <1>3, <1>4 DEF Piece, Separator
  <2> HIDE DEF a, c, w, text
  <2>3. /\ text = a \o (c \o w)
        /\ c \o w \in Seq(Piece) /\ c \o w # <<>> /\ (c \o w)[1] \in {"://"}
        /\ SubSeq(text, Len(a) + 2, Len(text)) = w
    <3>1. a \in Seq(Piece) /\ w \in Seq(Piece) /\ c \in Seq(Piece) /\ Len(c) = 1
      BY <2>2
    <3>2. /\ a \o c \o w = a \o (c \o w)
          /\ c \o w \in Seq(Piece) /\ c \o w # <<>> /\ (c \o w)[1] = c[1]
          /\ SubSeq(a \o c \o w, Len(a) + 2, Len(a \o c \o w)) = w
      BY <3>1, SchemeCut
    <3> DEFINE b == c \o w
    <3>3. /\ text = a \o b /\ b \in Seq(Piece) /\ b # <<>> /\ b[1] = c[1]
          /\ SubSeq(text, Len(a) + 2, Len(text)) = w
      BY <2>1, <3>2
    <3> HIDE DEF b
    <3>4. b[1] \in {"://"}
      BY <2>2, <3>3
    <3> QED BY <3>3, <3>4 DEF b
  <2>4. i = Len(a) + 1
    <3> DEFINE b == c \o w
    <3>1. b \in Seq(Piece) /\ b # <<>> /\ b[1] \in {"://"} /\ text = a \o b
      BY <2>3
    <3> HIDE DEF b
    <3>2. FirstOf(a \o b, {"://"}) = Len(a) + 1
      BY <2>2, <3>1, FirstAfter
    <3> QED BY <3>1, <3>2
  <2>5. i # 0 /\ SubSeq(text, i + 1, Len(text)) = w
    <3>1. Len(a) \in Nat
      BY <2>2
    <3>2. i # 0 /\ i + 1 = Len(a) + 2
      BY <2>4, <3>1
    <3> QED BY <2>3, <3>2
  <2>6. Before(Before(w, {"/", "://"}), {":", "://"}) = t
    BY <1>3, <1>4, CutTwice DEF w
  <2>7. ExtractHost(text) = t
    BY <2>5, <2>6 DEF ExtractHost
  <2> QED BY <1>5, <2>7 DEF t, text
<1>6. CASE ~r.absolute
  <2>1. text = t \o q
    <3>1. text = <<>> \o (t \o q)
      BY <1>6 DEF Text, t, q
    <3>2. t \o q \in Seq(Piece)
      BY <1>3, <1>4
    <3> DEFINE w == t \o q
    <3>3. <<>> \o w = w
      <4> HIDE DEF w
      <4> QED BY <3>2
    <3> QED BY <3>1, <3>3
  <2>2. text \in Seq(Piece) /\ \A k \in 1..Len(text) : text[k] \notin {"://"}
    <3>1. \A k \in 1..Len(t \o q) : (t \o q)[k] # "://"
      BY <1>3, <1>4, <1>6, JoinNone
    <3>2. t \o q \in Seq(Piece)
      BY <1>3, <1>4
    <3> HIDE DEF text
    <3> QED BY <2>1, <3>1, <3>2
  <2> HIDE DEF text
  <2>3. FirstOf(text, {"://"}) = 0
    BY <2>2, FirstIs
  <2>4. ExtractHost(text) = <<>>
    BY <2>3 DEF ExtractHost
  <2> QED BY <1>6, <2>4 DEF text
<1> QED BY <1>1, <1>5, <1>6

(* An ending without "@" is an ending of what follows the last one. *)
LEMMA EndingAfterUser ==
  ASSUME NEW u \in Seq(Piece), u = <<>> \/ u[Len(u)] = "@",
         NEW t \in Seq(Piece), NEW s \in Seq(Piece), \A i \in 1..Len(s) : s[i] # "@"
  PROVE  IsSuffix(s, u \o t) <=> IsSuffix(s, t)
<1> DEFINE v == u \o t
<1>1. /\ v \in Seq(Piece) /\ Len(v) = Len(u) + Len(t)
      /\ \A k \in 1..Len(u) : v[k] = u[k]
      /\ \A k \in 1..Len(t) : v[Len(u) + k] = t[k]
  BY Concatenation
<1> HIDE DEF v
<1>2. ASSUME Ending(s, v) PROVE Len(s) <= Len(t)
  <2> SUFFICES ASSUME Len(s) > Len(t) PROVE FALSE
    OBVIOUS
  <2>1. Len(u) \in 1..Len(u) /\ u[Len(u)] = "@"
    BY <1>1, <1>2 DEF Ending
  <2> DEFINE i == Len(s) - Len(t)
  <2>2. i \in 1..Len(s) /\ Len(v) - Len(s) + i = Len(u)
    BY <1>1, <1>2 DEF Ending
  <2>3. s[i] = v[Len(v) - Len(s) + i]
    BY <1>2, <2>2 DEF Ending
  <2>4. s[i] = "@"
    BY <1>1, <2>1, <2>2, <2>3
  <2> QED BY <2>2, <2>4
<1>3. ASSUME Len(s) <= Len(t), NEW i \in 1..Len(s)
      PROVE  v[Len(v) - Len(s) + i] = t[Len(t) - Len(s) + i]
  <2> DEFINE k == Len(t) - Len(s) + i
  <2>1. k \in 1..Len(t) /\ Len(u) + k = Len(v) - Len(s) + i
    BY <1>1, <1>3
  <2>2. v[Len(u) + k] = t[k]
    BY <1>1, <2>1
  <2> QED BY <2>1, <2>2
<1>4. Ending(s, v) <=> Ending(s, t)
  <2>1. Len(s) <= Len(t) => Len(s) <= Len(v)
    BY <1>1
  <2> QED BY <1>2, <1>3, <2>1 DEF Ending
<1>5. IsSuffix(s, v) <=> Ending(s, v)
  BY <1>1, SuffixAt
<1>6. IsSuffix(s, t) <=> Ending(s, t)
  BY SuffixAt
<1> QED BY <1>4, <1>5, <1>6 DEF v

(* Hosts that end with each other are one. *)
LEMMA EndingsEqual ==
  ASSUME NEW d \in Seq(Label), NEW h \in Seq(Label), IsSuffix(d, h), IsSuffix(h, d)
  PROVE  d = h
<1>1. Ending(d, h) /\ Ending(h, d)
  BY SuffixAt
<1>2. Len(d) = Len(h)
  BY <1>1 DEF Ending
<1>3. \A i \in 1..Len(d) : d[i] = h[i]
  BY <1>1, <1>2 DEF Ending
<1> QED BY <1>2, <1>3, SeqEqual

(* The domain policy reads the text as the labels say. *)
LEMMA DomainMatch ==
  ASSUME NEW r \in Request, NEW d \in Domain, ~Misread(r)
  PROVE  MatchesDomain(Text(r), d) <=> Under(r, d) /\ (r.user = <<>> \/ r.host # d)
<1> DEFINE h == r.host
           u == r.user
           s == Joined(d)
           t == Joined(h)
           e == <<".">> \o s
<1>1. /\ r.absolute \in BOOLEAN /\ h \in Seq(Label) /\ h # << <<>> >>
      /\ d \in Seq(Label) \ {<<>>}
      /\ u \in Seq(Piece) /\ (u # <<>> => u[Len(u)] = "@")
  BY RequestText, NetworkAssumption
<1>2. /\ s \in Seq(HostPiece) /\ s \in Seq(Piece) /\ \A i \in 1..Len(s) : s[i] # "@"
      /\ t \in Seq(HostPiece) /\ t \in Seq(Piece)
      /\ t = <<>> <=> h = <<>>
  BY <1>1, HostText
<1>3. ExtractHost(Text(r)) = IF r.absolute THEN u \o t ELSE <<>>
  BY ExtractHostIs DEF Named
<1>4. /\ e \in Seq(HostPiece) /\ e \in Seq(Piece) /\ Len(e) = Len(s) + 1
      /\ \A i \in 1..Len(e) : e[i] # "@"
  <2> HIDE DEF s
  <2> DEFINE dot == <<".">>
  <2>1. dot \in Seq(HostPiece) /\ dot \in Seq(Piece) /\ Len(dot) = 1 /\ dot[1] = "."
    BY DEF HostPiece, Piece, Separator
  <2>2. \A i \in 1..Len(dot) : dot[i] # "@"
    BY <2>1
  <2> HIDE DEF dot
  <2>3. \A i \in 1..Len(dot \o s) : (dot \o s)[i] # "@"
    BY <1>2, <2>1, <2>2, JoinNone
  <2>4. dot \o s \in Seq(HostPiece) /\ dot \o s \in Seq(Piece) /\ Len(dot \o s) = Len(s) + 1
    <3>1. dot \o s \in Seq(HostPiece)
      BY <1>2, <2>1
    <3>2. dot \o s \in Seq(Piece) /\ Len(dot \o s) = Len(dot) + Len(s) /\ Len(s) \in Nat
      BY <1>2, <2>1, Concatenation
    <3> QED BY <2>1, <3>1, <3>2
  <2>5. e = dot \o s
    BY DEF dot
  <2> HIDE DEF e
  <2> QED BY <2>3, <2>4, <2>5
<1>5. IsSuffix(e, t) <=> \E x \in Seq(HostPiece) : t = x \o <<".">> \o s
  <2>1. IsSuffix(e, t) <=> \E x \in Seq(HostPiece) : t = x \o e
    BY <1>2, <1>4, SuffixIs
  <2>2. ASSUME NEW x \in Seq(HostPiece) PROVE x \o e = x \o <<".">> \o s
    <3> HIDE DEF s, t
    <3>1. <<".">> \in Seq(HostPiece)
      BY DEF HostPiece
    <3> QED BY <1>2, <3>1
  <2> QED BY <2>1, <2>2
<1> HIDE DEF e, s, t
<1>6. t = s \/ IsSuffix(e, t) <=> Meets(s, t)
  BY <1>5 DEF Meets
<1>7. h # <<>> => (Meets(s, t) <=> IsSuffix(d, h))
  BY <1>1, MeetsByLabels DEF s, t
<1>8. h = <<>> => ~IsSuffix(d, h)
  <2>1. IsSuffix(d, h) <=> Ending(d, h)
    BY <1>1, SuffixAt
  <2> QED BY <1>1, <2>1 DEF Ending
<1>9. IsSuffix(e, t) => t # s
  <2>1. IsSuffix(e, t) <=> Ending(e, t)
    BY <1>2, <1>4, SuffixAt
  <2>2. Len(s) \in Nat
    BY <1>2
  <2> QED BY <1>4, <2>1, <2>2 DEF Ending
<1>10. h # <<>> /\ IsSuffix(d, h) => (t = s <=> h = d)
  <2> SUFFICES ASSUME h # <<>>, IsSuffix(d, h) PROVE t = s <=> h = d
    OBVIOUS
  <2>1. h = d => t = s
    BY DEF s, t
  <2>2. ASSUME t = s PROVE h = d
    <3>1. Meets(t, s)
      BY <2>2 DEF Meets
    <3>2. IsSuffix(h, d)
      BY <1>1, <3>1, MeetsByLabels DEF s, t
    <3> QED BY <1>1, <3>2, EndingsEqual
  <2> QED BY <2>1, <2>2
<1> HIDE DEF u
<1>11. IsSuffix(e, u \o t) <=> IsSuffix(e, t)
  <2>1. /\ u \in Seq(Piece) /\ (u = <<>> \/ u[Len(u)] = "@")
        /\ t \in Seq(Piece) /\ e \in Seq(Piece) /\ \A i \in 1..Len(e) : e[i] # "@"
    BY <1>1, <1>2, <1>4
  <2> QED BY <2>1, EndingAfterUser
<1>12. MatchesDomain(Text(r), d) <=>
         r.absolute /\ u \o t # <<>> /\ (u \o t = s \/ IsSuffix(e, u \o t))
  <2>1. MatchesDomain(Text(r), d) <=>
          /\ ExtractHost(Text(r)) # <<>>
          /\ ExtractHost(Text(r)) = s \/ IsSuffix(e, ExtractHost(Text(r)))
    BY DEF MatchesDomain, s, e
  <2>2. CASE r.absolute
    BY <1>3, <2>1, <2>2
  <2>3. CASE ~r.absolute
    BY <1>3, <2>1, <2>3
  <2> QED BY <1>1, <2>2, <2>3
<1>13. CASE u = <<>>
  <2>1. u \o t = t
    BY <1>2, <1>13
  <2> QED BY <1>2, <1>6, <1>7, <1>8, <1>12, <1>13, <2>1 DEF Under, u
<1>14. CASE u # <<>>
  <2> DEFINE v == u \o t
  <2>1. /\ v \in Seq(Piece) /\ Len(v) = Len(u) + Len(t)
        /\ \A k \in 1..Len(u) : v[k] = u[k]
    <3>1. u \in Seq(Piece) /\ t \in Seq(Piece)
      BY <1>1, <1>2
    <3> QED BY <3>1, Concatenation
  <2> HIDE DEF v
  <2>2. Len(u) \in 1..Len(u) /\ Len(u) \in 1..Len(v) /\ v[Len(u)] = "@"
    <3>1. u \in Seq(Piece) /\ u # <<>> /\ u[Len(u)] = "@" /\ t \in Seq(Piece)
      BY <1>1, <1>2, <1>14
    <3> QED BY <2>1, <3>1
  <2>3. v # <<>> /\ v # s
    BY <1>2, <2>1, <2>2
  <2>4. MatchesDomain(Text(r), d) <=> r.absolute /\ IsSuffix(e, t)
    BY <1>11, <1>12, <2>3 DEF v
  <2>5. IsSuffix(e, t) => h # <<>>
    <3>1. IsSuffix(e, t) <=> Ending(e, t)
      BY <1>2, <1>4, SuffixAt
    <3> QED BY <1>2, <1>4, <3>1 DEF Ending
  <2>6. IsSuffix(e, t) <=> IsSuffix(d, h) /\ h # d
    BY <1>6, <1>7, <1>8, <1>9, <1>10, <2>5
  <2> QED BY <1>1, <1>14, <2>4, <2>6 DEF Under, u
<1> QED BY <1>13, <1>14

-----------------------------------------------------------------------------
(* The fetches *)

Answered == {"granted", "ok"}

(* A fetch past its grant had one to have; an answer is the backend's. *)
Granted ==
  \A f \in Fetch : pc[f] \in Answered => holds[f] /\ Allowed(Text(request[f]))

AnsweredByBackend ==
  \A f \in Fetch : pc[f] = "ok" => body[f] = Responses[Text(request[f])]

NetInv ==
  /\ request \in [Fetch -> Request]
  /\ pc = [f \in Fetch |-> pc[f]]
  /\ body = [f \in Fetch |-> body[f]]
  /\ Granted
  /\ AnsweredByBackend

LEMMA InitNetInv == Init => NetInv
BY DEF Init, NetInv, Granted, AnsweredByBackend, Answered

LEMMA NextNetInv == NetInv /\ [Next]_vars => NetInv'
<1> SUFFICES ASSUME NetInv, [Next]_vars PROVE NetInv'
  OBVIOUS
<1>1. CASE UNCHANGED vars
  BY <1>1 DEF NetInv, Granted, AnsweredByBackend, vars, Allowed, MatchesUrl
<1>2. ASSUME NEW f \in Fetch, Ask(f) PROVE NetInv'
  BY <1>2 DEF NetInv, Granted, AnsweredByBackend, Answered, Ask
<1>3. ASSUME NEW f \in Fetch, Refuse(f) PROVE NetInv'
  BY <1>3 DEF NetInv, Granted, AnsweredByBackend, Answered, Refuse
<1>4. ASSUME NEW f \in Fetch, Grant(f) PROVE NetInv'
  BY <1>4 DEF NetInv, Granted, AnsweredByBackend, Answered, Grant
<1>5. ASSUME NEW f \in Fetch, Answer(f) PROVE NetInv'
  BY <1>5 DEF NetInv, Granted, AnsweredByBackend, Answered, Answer
<1>6. ASSUME NEW f \in Fetch, Drop(f) PROVE NetInv'
  BY <1>6 DEF NetInv, Granted, AnsweredByBackend, Answered, Drop
<1> QED BY <1>1, <1>2, <1>3, <1>4, <1>5, <1>6 DEF Next, Proceed

LEMMA NetInvHolds == Spec => []NetInv
<1> QED BY InitNetInv, NextNetInv, PTL DEF Spec

(* For every request that is not misread and every domain: the domain      *)
(* policy, which sees only the text of the URL (extract_host, the grant of *)
(* AllowDomainFetchPolicy), answers what the labels of its host say, with  *)
(* any scheme, port and path; but after user information it wants one more *)
(* label.                                                                  *)
THEOREM HostsByLabels == Spec => []DomainByLabels
<1>1. NetInv => DomainByLabels
  <2> SUFFICES ASSUME NetInv, NEW f \in Fetch, NEW d \in Domain, ~Misread(request[f])
               PROVE  MatchesDomain(Text(request[f]), d) <=>
                        /\ Under(request[f], d)
                        /\ request[f].user = <<>> \/ request[f].host # d
    BY DEF DomainByLabels
  <2>1. request[f] \in Request
    BY DEF NetInv
  <2> QED BY <2>1, DomainMatch
<1> QED BY <1>1, NetInvHolds, PTL

(* fetch_url returns what the backend has for the URL, and only in a       *)
(* context with the capability and for a URL that a policy lists, whose    *)
(* host is under the domain of one, or whose host the policies misread: at *)
(* a user name with a ":" or a query right after the host.                 *)
THEOREM FetchesOfTheGranted == Spec => []FetchAsGranted
<1>1. NetInv => FetchAsGranted
  <2> SUFFICES ASSUME NetInv, NEW f \in Fetch, pc[f] = "ok"
               PROVE  /\ holds[f]
                      /\ \/ Text(request[f]) \in ExactUrl
                         \/ \E d \in Domain : Under(request[f], d)
                         \/ Misread(request[f])
                      /\ body[f] = Responses[Text(request[f])]
    BY DEF FetchAsGranted
  <2>1. request[f] \in Request /\ pc[f] \in Answered
    BY DEF NetInv, Answered
  <2>2. holds[f] /\ Allowed(Text(request[f]))
    BY <2>1 DEF NetInv, Granted
  <2>3. body[f] = Responses[Text(request[f])]
    BY DEF NetInv, AnsweredByBackend
  <2>4. \/ Text(request[f]) \in ExactUrl
        \/ \E d \in Domain : Under(request[f], d)
        \/ Misread(request[f])
    BY <2>1, <2>2, DomainMatch DEF Allowed, MatchesUrl
  <2> QED BY <2>2, <2>3, <2>4
<1> QED BY <1>1, NetInvHolds, PTL

=============================================================================
