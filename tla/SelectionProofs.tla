--------------------------- MODULE SelectionProofs ---------------------------
(***************************************************************************)
(* Lemmas about Only, for all sequences and sets.                          *)
(***************************************************************************)
EXTENDS Selection, SequenceTheorems, WellFoundedInduction, TLAPS

(***************************************************************************)
(* Induction over the natural numbers, for a set of numbers in place of a  *)
(* predicate.                                                              *)
(***************************************************************************)

LEMMA LeastElement ==
  ASSUME NEW T, T \subseteq Nat, T # {}
  PROVE  \E n \in T : \A m \in T : n <= m
<1> DEFINE R == OpToRel(<, Nat)
<1>1. IsWellFoundedOn(R, Nat)
  BY NatLessThanWellFounded
<1>2. \A m, n \in Nat : m < n => <<m, n>> \in R
  BY DEF OpToRel
<1> HIDE DEF R
<1>3. PICK n \in T : \A m \in T : ~(<<m, n>> \in R)
  BY <1>1, WFMin
<1>4. ASSUME NEW m \in T
      PROVE  n <= m
  <2>1. m \in Nat /\ n \in Nat
    OBVIOUS
  <2>2. ~(m < n)
    BY <1>2, <1>3, <2>1
  <2> QED BY <2>1, <2>2
<1> QED BY <1>4

LEMMA Induction ==
  ASSUME NEW T \in SUBSET Nat, 0 \in T, \A n \in T : n + 1 \in T
  PROVE  \A n \in Nat : n \in T
<1> SUFFICES ASSUME T # Nat PROVE FALSE
  OBVIOUS
<1>1. PICK n \in Nat \ T : \A m \in Nat \ T : n <= m
  BY LeastElement
<1>2. n # 0 /\ n - 1 \in T
  BY <1>1
<1> QED BY <1>1, <1>2

(***************************************************************************)
(* The recursive function is what its definition says.                     *)
(***************************************************************************)

IsUpto(f, s, S, n) ==
  f = [i \in 0 .. n |-> IF i = 0 THEN <<>>
                        ELSE IF s[i] \in S THEN Append(f[i - 1], s[i]) ELSE f[i - 1]]

LEMMA UptoExists ==
  ASSUME NEW s, NEW S
  PROVE  \A n \in Nat : \E f : IsUpto(f, s, S, n)
<1> DEFINE T == {n \in Nat : \E f : IsUpto(f, s, S, n)}
<1>1. 0 \in T
  <2>1. IsUpto([i \in 0 .. 0 |-> <<>>], s, S, 0)
    BY DEF IsUpto
  <2> QED BY <2>1
<1>2. ASSUME NEW n \in T
      PROVE  n + 1 \in T
  <2>1. PICK f : IsUpto(f, s, S, n)
    OBVIOUS
  <2> DEFINE g == [i \in 0 .. n + 1 |->
                     IF i <= n THEN f[i]
                     ELSE IF s[i] \in S THEN Append(f[n], s[i]) ELSE f[n]]
  <2>2. \A i \in 0 .. n : f[i] = IF i = 0 THEN <<>>
                          ELSE IF s[i] \in S THEN Append(f[i - 1], s[i]) ELSE f[i - 1]
    BY <2>1 DEF IsUpto
  <2>3. \A i \in 0 .. n + 1 : g[i] = IF i = 0 THEN <<>>
                          ELSE IF s[i] \in S THEN Append(g[i - 1], s[i]) ELSE g[i - 1]
    <3> TAKE i \in 0 .. n + 1
    <3>1. CASE i <= n
      BY <3>1, <2>2
    <3>2. CASE i = n + 1
      BY <3>2
    <3> QED BY <3>1, <3>2
  <2>4. g = [i \in 0 .. n + 1 |-> g[i]]
    OBVIOUS
  <2>5. IsUpto(g, s, S, n + 1)
    <3> HIDE DEF g
    <3> QED BY <2>3, <2>4 DEF IsUpto
  <2> QED BY <2>5
<1> HIDE DEF T
<1>3. \A n \in Nat : n \in T
  <2>1. T \in SUBSET Nat
    BY DEF T
  <2> QED BY <1>1, <1>2, <2>1, Induction
<1> QED BY <1>3 DEF T

\* Only, told by any function that satisfies the equation.
LEMMA UptoUnique ==
  ASSUME NEW s, NEW t, NEW S, NEW m \in Nat, NEW n \in Nat, m <= n,
         \A i \in 1 .. m : s[i] = t[i],
         NEW f, IsUpto(f, s, S, m), NEW g, IsUpto(g, t, S, n)
  PROVE  \A i \in 0 .. m : f[i] = g[i]
<1> DEFINE T == {i \in Nat : i <= m => f[i] = g[i]}
<1>1. 0 \in T
  BY DEF IsUpto
<1>2. ASSUME NEW i \in T
      PROVE  i + 1 \in T
  <2> SUFFICES ASSUME i + 1 <= m PROVE f[i + 1] = g[i + 1]
    OBVIOUS
  <2>1. f[i + 1] = IF s[i + 1] \in S THEN Append(f[i], s[i + 1]) ELSE f[i]
    <3>1. i + 1 \in 0 .. m /\ i + 1 # 0 /\ (i + 1) - 1 = i
      OBVIOUS
    <3> QED BY <3>1 DEF IsUpto
  <2>2. g[i + 1] = IF t[i + 1] \in S THEN Append(g[i], t[i + 1]) ELSE g[i]
    <3>1. i + 1 \in 0 .. n /\ i + 1 # 0 /\ (i + 1) - 1 = i
      OBVIOUS
    <3> QED BY <3>1 DEF IsUpto
  <2> QED BY <2>1, <2>2
<1>3. T \in SUBSET Nat
  OBVIOUS
<1> HIDE DEF T
<1>4. \A i \in Nat : i \in T
  BY <1>1, <1>2, <1>3, Induction
<1> QED BY <1>4 DEF T

LEMMA OnlyIs ==
  ASSUME NEW X, NEW s \in Seq(X), NEW S
  PROVE  \E f : IsUpto(f, s, S, Len(s)) /\ Only(s, S) = f[Len(s)]
<1>1. Len(s) \in Nat
  BY LenProperties
<1> DEFINE f == CHOOSE f : IsUpto(f, s, S, Len(s))
<1>2. IsUpto(f, s, S, Len(s))
  BY <1>1, UptoExists
<1>3. Only(s, S) = f[Len(s)]
  BY DEF Only, IsUpto
<1> QED BY <1>2, <1>3

(***************************************************************************)
(* What Only does to the ways sequences are built.                         *)
(***************************************************************************)

LEMMA OnlyEmpty ==
  ASSUME NEW S
  PROVE  Only(<<>>, S) = <<>>
<1>1. <<>> \in Seq({}) /\ Len(<<>>) = 0
  BY EmptySeq
<1>2. PICK f : IsUpto(f, <<>>, S, 0) /\ Only(<<>>, S) = f[0]
  BY <1>1, OnlyIs
<1> QED BY <1>2 DEF IsUpto

LEMMA OnlyAppend ==
  ASSUME NEW X, NEW s \in Seq(X), NEW e \in X, NEW S
  PROVE  Only(Append(s, e), S) = IF e \in S THEN Append(Only(s, S), e) ELSE Only(s, S)
<1> DEFINE t == Append(s, e)
<1>1. /\ t \in Seq(X) /\ Len(t) = Len(s) + 1 /\ Len(s) \in Nat
      /\ \A i \in 1 .. Len(s) : t[i] = s[i]
      /\ t[Len(s) + 1] = e
  BY AppendProperties, LenProperties
<1> HIDE DEF t
<1>2. PICK f : IsUpto(f, s, S, Len(s)) /\ Only(s, S) = f[Len(s)]
  BY OnlyIs
<1>3. PICK g : IsUpto(g, t, S, Len(t)) /\ Only(t, S) = g[Len(t)]
  BY <1>1, OnlyIs
<1>4. f[Len(s)] = g[Len(s)]
  <2> DEFINE m == Len(s)
             n == Len(t)
  <2>1. m \in Nat /\ n \in Nat /\ m <= n /\ \A i \in 1 .. m : s[i] = t[i]
    BY <1>1
  <2>2. IsUpto(f, s, S, m) /\ IsUpto(g, t, S, n)
    BY <1>2, <1>3
  <2> HIDE DEF m, n
  <2>3. \A i \in 0 .. m : f[i] = g[i]
    BY <2>1, <2>2, UptoUnique
  <2>4. m \in 0 .. m
    BY <2>1
  <2> QED BY <2>3, <2>4 DEF m
<1>5. g[Len(s) + 1] = IF e \in S THEN Append(g[Len(s)], e) ELSE g[Len(s)]
  <2>1. Len(s) + 1 \in 0 .. Len(t) /\ Len(s) + 1 # 0 /\ (Len(s) + 1) - 1 = Len(s)
    BY <1>1
  <2> QED BY <1>1, <1>3, <2>1 DEF IsUpto
<1> QED BY <1>1, <1>2, <1>3, <1>4, <1>5 DEF t

\* Induction over the length of a sequence: SelectionProofs' lemmas about all
\* sequences follow this scheme.
LEMMA SeqInduction ==
  ASSUME NEW X, NEW T \in SUBSET Seq(X), <<>> \in T,
         \A s \in T, e \in X : Append(s, e) \in T
  PROVE  \A s \in Seq(X) : s \in T
<1> DEFINE N == {n \in Nat : \A s \in Seq(X) : Len(s) = n => s \in T}
<1>1. 0 \in N
  BY EmptySeq
<1>2. ASSUME NEW n \in N
      PROVE  n + 1 \in N
  <2> SUFFICES ASSUME NEW s \in Seq(X), Len(s) = n + 1
               PROVE  s \in T
    OBVIOUS
  <2>1. s # <<>>
    BY EmptySeq
  <2>2. PICK r \in Seq(X), e \in X : s = Append(r, e)
    BY <2>1, SequenceEmptyOrAppend
  <2>3. Len(r) = n
    BY <2>2, AppendProperties, LenProperties
  <2> QED BY <2>2, <2>3
<1>3. N \in SUBSET Nat
  OBVIOUS
<1> HIDE DEF N
<1>4. \A n \in Nat : n \in N
  BY <1>1, <1>2, <1>3, Induction
<1> QED BY <1>4, LenProperties DEF N

LEMMA OnlyType ==
  ASSUME NEW X, NEW S
  PROVE  \A s \in Seq(X) : Only(s, S) \in Seq(X \cap S)
<1> DEFINE T == {s \in Seq(X) : Only(s, S) \in Seq(X \cap S)}
<1>1. <<>> \in T
  BY OnlyEmpty, EmptySeq
<1>2. ASSUME NEW s \in T, NEW e \in X
      PROVE  Append(s, e) \in T
  <2>1. s \in Seq(X) /\ Append(s, e) \in Seq(X)
    BY AppendProperties
  <2>2. CASE e \in S
    <3>1. Only(Append(s, e), S) = Append(Only(s, S), e)
      BY <2>1, <2>2, OnlyAppend
    <3>2. e \in X \cap S /\ Only(s, S) \in Seq(X \cap S)
      BY <2>2
    <3>3. Append(Only(s, S), e) \in Seq(X \cap S)
      BY <3>2, AppendProperties
    <3> QED BY <2>1, <3>1, <3>3
  <2>3. CASE e \notin S
    BY <2>1, <2>3, OnlyAppend
  <2> QED BY <2>2, <2>3
<1>3. T \in SUBSET Seq(X)
  OBVIOUS
<1> HIDE DEF T
<1>4. \A s \in Seq(X) : s \in T
  BY <1>1, <1>2, <1>3, SeqInduction
<1> QED BY <1>4 DEF T

LEMMA ConcatThenAppend ==
  ASSUME NEW X, NEW s \in Seq(X), NEW t \in Seq(X), NEW e \in X
  PROVE  s \o Append(t, e) = Append(s \o t, e)
<1>1. <<e>> \in Seq(X) /\ s \o t \in Seq(X)
  <2>1. Append(<<>>, e) = <<e>>
    OBVIOUS
  <2> QED BY <2>1, EmptySeq, AppendProperties, ConcatProperties
<1>2. Append(t, e) = t \o <<e>> /\ Append(s \o t, e) = (s \o t) \o <<e>>
  BY <1>1, AppendIsConcat
<1> QED BY <1>1, <1>2, ConcatAssociative

LEMMA OnlyConcat ==
  ASSUME NEW X, NEW S, NEW s \in Seq(X)
  PROVE  \A t \in Seq(X) : Only(s \o t, S) = Only(s, S) \o Only(t, S)
<1> DEFINE T == {t \in Seq(X) : Only(s \o t, S) = Only(s, S) \o Only(t, S)}
<1>0. Only(s, S) \in Seq(X \cap S)
  BY OnlyType
<1>1. <<>> \in T
  <2>1. <<>> \in Seq(X) /\ s \o <<>> = s
    BY EmptySeq, ConcatEmptySeq
  <2>2. Only(s, S) \o <<>> = Only(s, S)
    BY <1>0, ConcatEmptySeq
  <2> QED BY <2>1, <2>2, OnlyEmpty
<1>2. ASSUME NEW t \in T, NEW e \in X
      PROVE  Append(t, e) \in T
  <2>1. t \in Seq(X) /\ Append(t, e) \in Seq(X) /\ s \o t \in Seq(X)
    BY AppendProperties, ConcatProperties
  <2>2. s \o Append(t, e) = Append(s \o t, e)
    BY ConcatThenAppend
  <2>3. Only(t, S) \in Seq(X \cap S)
    BY OnlyType
  <2>4. Only(s \o t, S) = Only(s, S) \o Only(t, S)
    OBVIOUS
  <2> HIDE DEF T
  <2>5. CASE e \in S
    <3>1. Only(s, S) \o Append(Only(t, S), e) = Append(Only(s, S) \o Only(t, S), e)
      BY <1>0, <2>3, <2>5, ConcatThenAppend
    <3>2. Only(Append(t, e), S) = Append(Only(t, S), e)
      BY <2>5, OnlyAppend DEF T
    <3>3. Only(Append(s \o t, e), S) = Append(Only(s \o t, S), e)
      <4> DEFINE u == s \o t
      <4>1. u \in Seq(X)
        BY <2>1
      <4> HIDE DEF u
      <4>2. Only(Append(u, e), S) = Append(Only(u, S), e)
        BY <2>5, <4>1, OnlyAppend
      <4> QED BY <4>2 DEF u
    <3> QED BY <2>1, <2>2, <2>4, <3>1, <3>2, <3>3 DEF T
  <2>6. CASE e \notin S
    <3>2. Only(Append(t, e), S) = Only(t, S)
      BY <2>6, OnlyAppend DEF T
    <3>3. Only(Append(s \o t, e), S) = Only(s \o t, S)
      BY <2>1, <2>6, OnlyAppend
    <3> QED BY <2>1, <2>2, <2>4, <3>2, <3>3 DEF T
  <2> QED BY <2>5, <2>6
<1>3. T \in SUBSET Seq(X)
  OBVIOUS
<1> HIDE DEF T
<1>4. \A t \in Seq(X) : t \in T
  BY <1>1, <1>2, <1>3, SeqInduction
<1> QED BY <1>4 DEF T

\* Two sets that agree on the elements of s select the same.
LEMMA OnlyAgree ==
  ASSUME NEW X, NEW S, NEW U
  PROVE  \A s \in Seq(X) : (\A i \in 1 .. Len(s) : s[i] \in S <=> s[i] \in U)
                             => Only(s, S) = Only(s, U)
<1> DEFINE Agree(s) == \A i \in 1 .. Len(s) : s[i] \in S <=> s[i] \in U
           T == {s \in Seq(X) : Agree(s) => Only(s, S) = Only(s, U)}
<1>1. <<>> \in T
  BY EmptySeq, OnlyEmpty
<1>2. ASSUME NEW s \in T, NEW e \in X
      PROVE  Append(s, e) \in T
  <2>1. /\ s \in Seq(X) /\ Append(s, e) \in Seq(X)
        /\ Len(Append(s, e)) = Len(s) + 1 /\ Len(s) \in Nat
        /\ \A i \in 1 .. Len(s) : Append(s, e)[i] = s[i]
        /\ Append(s, e)[Len(s) + 1] = e
    BY AppendProperties, LenProperties
  <2> SUFFICES ASSUME Agree(Append(s, e))
               PROVE  Only(Append(s, e), S) = Only(Append(s, e), U)
    BY <2>1
  <2>2. Agree(s)
    BY <2>1
  <2>3. e \in S <=> e \in U
    BY <2>1
  <2>4. Only(s, S) = Only(s, U)
    BY <2>2
  <2>5. Only(Append(s, e), S) = IF e \in S THEN Append(Only(s, S), e) ELSE Only(s, S)
    BY <2>1, OnlyAppend
  <2>6. Only(Append(s, e), U) = IF e \in U THEN Append(Only(s, U), e) ELSE Only(s, U)
    BY <2>1, OnlyAppend
  <2> QED BY <2>3, <2>4, <2>5, <2>6
<1>3. T \in SUBSET Seq(X)
  OBVIOUS
<1> HIDE DEF T
<1>4. \A s \in Seq(X) : s \in T
  BY <1>1, <1>2, <1>3, SeqInduction
<1> QED BY <1>4 DEF T

\* What is selected from s is what s has of S.
LEMMA RangeAppend ==
  ASSUME NEW X, NEW s \in Seq(X), NEW e \in X
  PROVE  Range(Append(s, e)) = Range(s) \cup {e}
<1>1. /\ Append(s, e) \in Seq(X) /\ Len(Append(s, e)) = Len(s) + 1 /\ Len(s) \in Nat
      /\ \A i \in 1 .. Len(s) : Append(s, e)[i] = s[i]
      /\ Append(s, e)[Len(s) + 1] = e
  BY AppendProperties, LenProperties
<1> DEFINE t == Append(s, e)
<1>2. Range(s) = {s[i] : i \in 1 .. Len(s)} /\ Range(t) = {t[i] : i \in 1 .. Len(t)}
  BY <1>1, RangeEquality
<1>3. \A i \in 1 .. Len(t) : t[i] \in Range(s) \cup {e}
  <2> TAKE i \in 1 .. Len(t)
  <2>1. CASE i = Len(s) + 1
    BY <1>1, <2>1
  <2>2. CASE i # Len(s) + 1
    BY <1>1, <1>2, <2>2
  <2> QED BY <2>1, <2>2
<1>4. \A i \in 1 .. Len(s) : i \in 1 .. Len(t) /\ t[i] = s[i]
  BY <1>1
<1>5. Len(s) + 1 \in 1 .. Len(t) /\ t[Len(s) + 1] = e
  BY <1>1
<1> HIDE DEF t
<1>6. Range(t) = Range(s) \cup {e}
  BY <1>2, <1>3, <1>4, <1>5
<1> QED BY <1>6 DEF t

LEMMA OnlyRange ==
  ASSUME NEW X, NEW S
  PROVE  \A s \in Seq(X) : Range(Only(s, S)) = Range(s) \cap S
<1> DEFINE T == {s \in Seq(X) : Range(Only(s, S)) = Range(s) \cap S}
<1>0. \A s \in Seq(X), e \in X : Range(Append(s, e)) = Range(s) \cup {e}
  BY RangeAppend
<1>1. <<>> \in T
  <2>1. <<>> \in Seq(X) /\ Range(<<>>) = {}
    <3>1. \A Y : <<>> \in Seq(Y)
      BY EmptySeq
    <3>2. <<>> \in Seq({})
      BY <3>1
    <3>3. Range(<<>>) \in SUBSET {}
      BY <3>2, RangeOfSeq
    <3> QED BY <3>1, <3>3
  <2> QED BY <2>1, OnlyEmpty
<1>2. ASSUME NEW s \in T, NEW e \in X
      PROVE  Append(s, e) \in T
  <2>1. s \in Seq(X) /\ Append(s, e) \in Seq(X) /\ Range(Only(s, S)) = Range(s) \cap S
    BY AppendProperties
  <2>2. Range(Append(s, e)) = Range(s) \cup {e}
    BY <1>0
  <2>3. CASE e \in S
    <3> DEFINE o == Only(s, S)
    <3>1. Only(Append(s, e), S) = Append(o, e)
      BY <2>1, <2>3, OnlyAppend
    <3>2. o \in Seq(X)
      <4>1. o \in Seq(X \cap S)
        BY <2>1, OnlyType
      <4> DEFINE Y == X \cap S
      <4>2. Y \subseteq X
        OBVIOUS
      <4> HIDE DEF o, Y
      <4> QED BY <4>1, <4>2, SeqMonotonic DEF Y
    <3> HIDE DEF o
    <3>3. Range(Append(o, e)) = Range(o) \cup {e}
      BY <1>0, <3>2
    <3> QED BY <2>1, <2>2, <2>3, <3>1, <3>3 DEF o
  <2>4. CASE e \notin S
    <3>1. Only(Append(s, e), S) = Only(s, S)
      BY <2>1, <2>4, OnlyAppend
    <3> QED BY <2>1, <2>2, <2>4, <3>1
  <2> QED BY <2>3, <2>4
<1>3. T \in SUBSET Seq(X)
  OBVIOUS
<1> HIDE DEF T
<1>4. \A s \in Seq(X) : s \in T
  BY <1>1, <1>2, <1>3, SeqInduction
<1> QED BY <1>4 DEF T

(***************************************************************************)
(* Only picks elements in their order, and is all there is to be picked.   *)
(***************************************************************************)

\* t is what s has at the places phi, in this order.
Embeds(t, s, phi) ==
  /\ phi \in [1 .. Len(t) -> 1 .. Len(s)]
  /\ \A i, j \in 1 .. Len(t) : i < j => phi[i] < phi[j]
  /\ \A i \in 1 .. Len(t) : t[i] = s[phi[i]]

LEMMA OnlyEmbeds ==
  ASSUME NEW X, NEW S
  PROVE  \A s \in Seq(X) : \E phi : Embeds(Only(s, S), s, phi)
<1> DEFINE T == {s \in Seq(X) : \E phi : Embeds(Only(s, S), s, phi)}
<1>1. <<>> \in T
  <2> DEFINE phi == [i \in 1 .. 0 |-> 1]
  <2>1. <<>> \in Seq(X) /\ Len(<<>>) = 0
    BY EmptySeq
  <2>2. Embeds(<<>>, <<>>, phi)
    BY <2>1 DEF Embeds
  <2> QED BY <2>1, <2>2, OnlyEmpty
<1>2. ASSUME NEW s \in T, NEW e \in X
      PROVE  Append(s, e) \in T
  <2> DEFINE o == Only(s, S)
             new == Append(s, e)
  <2>1. PICK phi : Embeds(o, s, phi)
    OBVIOUS
  <2>2. /\ s \in Seq(X) /\ Len(s) \in Nat /\ new \in Seq(X) /\ Len(new) = Len(s) + 1
        /\ new[Len(s) + 1] = e /\ \A i \in 1 .. Len(s) : new[i] = s[i]
    BY AppendProperties, LenProperties
  <2>3. o \in Seq(X) /\ Len(o) \in Nat
    <3>1. o \in Seq(X \cap S)
      BY <2>2, OnlyType
    <3> DEFINE Y == X \cap S
    <3>2. Y \subseteq X
      OBVIOUS
    <3> HIDE DEF o, Y
    <3>3. o \in Seq(X)
      BY <3>1, <3>2, SeqMonotonic DEF Y
    <3> QED BY <3>3, LenProperties
  <2>4. Only(new, S) = IF e \in S THEN Append(o, e) ELSE o
    BY <2>2, OnlyAppend
  <2> HIDE DEF o, new
  <2>5. CASE e \in S
    <3> DEFINE t == Append(o, e)
               psi == [i \in 1 .. Len(o) + 1 |-> IF i <= Len(o) THEN phi[i] ELSE Len(s) + 1]
    <3>1. Len(t) = Len(o) + 1 /\ t[Len(o) + 1] = e /\ \A i \in 1 .. Len(o) : t[i] = o[i]
      BY <2>3, AppendProperties
    <3> HIDE DEF t
    <3>2. \A i \in 1 .. Len(o) : psi[i] = phi[i] /\ phi[i] \in 1 .. Len(s)
      BY <2>1, <2>3 DEF Embeds
    <3>3. psi[Len(o) + 1] = Len(s) + 1
      BY <2>3
    <3>4. psi \in [1 .. Len(t) -> 1 .. Len(new)]
      <4>1. \A i \in 1 .. Len(o) + 1 : psi[i] \in 1 .. Len(new)
        <5> HIDE DEF psi
        <5> TAKE i \in 1 .. Len(o) + 1
        <5>1. CASE i \in 1 .. Len(o)
          BY <2>2, <3>2, <5>1
        <5>2. CASE i = Len(o) + 1
          BY <2>2, <3>3, <5>2
        <5> QED BY <2>3, <5>1, <5>2
      <4>2. psi = [i \in 1 .. Len(o) + 1 |-> psi[i]]
        OBVIOUS
      <4> HIDE DEF psi
      <4> QED BY <3>1, <4>1, <4>2
    <3> HIDE DEF psi
    <3>5. ASSUME NEW i \in 1 .. Len(t), NEW j \in 1 .. Len(t), i < j
          PROVE  psi[i] < psi[j]
      <4>1. i \in 1 .. Len(o)
        BY <2>3, <3>1, <3>5
      <4>2. CASE j \in 1 .. Len(o)
        BY <2>1, <3>2, <3>5, <4>1, <4>2 DEF Embeds
      <4>3. CASE j = Len(o) + 1
        BY <2>2, <3>2, <3>3, <4>1, <4>3
      <4> QED BY <2>3, <3>1, <4>2, <4>3
    <3>6. ASSUME NEW i \in 1 .. Len(t)
          PROVE  t[i] = new[psi[i]]
      <4>1. CASE i \in 1 .. Len(o)
        BY ZenonT(60), <2>1, <2>2, <3>1, <3>2, <4>1 DEF Embeds
      <4>2. CASE i = Len(o) + 1
        BY <2>2, <3>1, <3>3, <4>2
      <4> QED BY <2>3, <3>1, <4>1, <4>2
    <3>7. Embeds(t, new, psi)
      BY <3>4, <3>5, <3>6 DEF Embeds
    <3> QED BY <2>2, <2>4, <2>5, <3>7 DEF t, new
  <2>6. CASE e \notin S
    <3>1. \A i \in 1 .. Len(o) : phi[i] \in 1 .. Len(s) /\ o[i] = s[phi[i]]
      BY <2>1 DEF Embeds
    <3>2. \A i \in 1 .. Len(o) : phi[i] \in 1 .. Len(new) /\ o[i] = new[phi[i]]
      BY <2>2, <3>1
    <3>3. phi \in [1 .. Len(o) -> 1 .. Len(new)]
      BY <2>1, <3>2 DEF Embeds
    <3>4. Embeds(o, new, phi)
      BY <2>1, <3>2, <3>3 DEF Embeds
    <3> QED BY <2>2, <2>4, <2>6, <3>4 DEF new
  <2> QED BY <2>5, <2>6
<1>3. T \in SUBSET Seq(X)
  OBVIOUS
<1> HIDE DEF T
<1>4. \A s \in Seq(X) : s \in T
  BY <1>1, <1>2, <1>3, SeqInduction
<1> QED BY <1>4 DEF T

LEMMA EmbeddedIsOnly ==
  ASSUME NEW X
  PROVE  \A s \in Seq(X) : (\A k, l \in 1 .. Len(s) : s[k] = s[l] => k = l) =>
           \A t \in Seq(X) : \A phi : Embeds(t, s, phi) => t = Only(s, Range(t))
<1> DEFINE Distinct(s) == \A k, l \in 1 .. Len(s) : s[k] = s[l] => k = l
           Holds(s) == \A t \in Seq(X) : \A phi : Embeds(t, s, phi) => t = Only(s, Range(t))
           T == {s \in Seq(X) : Distinct(s) => Holds(s)}
<1>1. <<>> \in T
  <2>1. <<>> \in Seq(X) /\ Len(<<>>) = 0
    BY EmptySeq
  <2>2. ASSUME NEW t \in Seq(X), NEW phi, Embeds(t, <<>>, phi)
        PROVE  t = Only(<<>>, Range(t))
    <3>1. Len(t) \in Nat /\ \A i \in 1 .. Len(t) : phi[i] \in 1 .. 0
      BY <2>1, <2>2, LenProperties DEF Embeds
    <3>2. Len(t) = 0
      BY <3>1
    <3>3. t = <<>>
      BY <3>2, EmptySeq
    <3> QED BY <3>3, OnlyEmpty
  <2> QED BY <2>1, <2>2
<1>2. ASSUME NEW s \in T, NEW e \in X
      PROVE  Append(s, e) \in T
  <2> DEFINE new == Append(s, e)
  <2>1. /\ s \in Seq(X) /\ Len(s) \in Nat /\ new \in Seq(X) /\ Len(new) = Len(s) + 1
        /\ new[Len(s) + 1] = e /\ \A i \in 1 .. Len(s) : new[i] = s[i]
    BY AppendProperties, LenProperties
  <2> HIDE DEF new
  <2> SUFFICES ASSUME Distinct(new), NEW t \in Seq(X), NEW phi, Embeds(t, new, phi)
               PROVE  t = Only(new, Range(t))
    BY <2>1 DEF new
  <2>2. Holds(s)
    <3>1. Distinct(s)
      BY <2>1
    <3> QED BY <3>1
  <2>3. \A i \in 1 .. Len(s) : s[i] # e
    BY <2>1
  <2>4. Len(t) \in Nat
    BY LenProperties
  <2>5. /\ \A i \in 1 .. Len(t) : phi[i] \in 1 .. Len(new) /\ t[i] = new[phi[i]]
        /\ \A i, j \in 1 .. Len(t) : i < j => phi[i] < phi[j]
        /\ phi \in [1 .. Len(t) -> 1 .. Len(new)]
    BY DEF Embeds
  <2>6. \A U : Only(new, U) = IF e \in U THEN Append(Only(s, U), e) ELSE Only(s, U)
    BY <2>1, OnlyAppend DEF new
  <2>7. CASE \A i \in 1 .. Len(t) : phi[i] # Len(s) + 1
    <3>1. \A i \in 1 .. Len(t) : phi[i] \in 1 .. Len(s) /\ t[i] = s[phi[i]]
      BY <2>1, <2>5, <2>7
    <3>2. Embeds(t, s, phi)
      BY <2>5, <3>1 DEF Embeds
    <3>3. t = Only(s, Range(t))
      BY <2>2, <3>2
    <3>4. e \notin Range(t)
      <4>1. \A i \in 1 .. Len(t) : t[i] # e
        BY <2>3, <3>1
      <4>2. Range(t) = {t[i] : i \in 1 .. Len(t)}
        BY RangeEquality
      <4> QED BY <4>1, <4>2
    <3> QED BY <2>6, <3>3, <3>4
  <2>8. ASSUME NEW n \in 1 .. Len(t), phi[n] = Len(s) + 1
        PROVE  t = Only(new, Range(t))
    <3>1. n = Len(t)
      <4> SUFFICES ASSUME n # Len(t) PROVE FALSE
        OBVIOUS
      <4>1. Len(t) \in 1 .. Len(t) /\ n < Len(t)
        BY <2>4
      <4>2. phi[n] < phi[Len(t)] /\ phi[Len(t)] \in 1 .. Len(new)
        BY <2>5, <4>1
      <4> QED BY <2>1, <2>8, <4>2
    <3>2. t # <<>>
      BY <2>4, EmptySeq
    <3>3. PICK u \in Seq(X), x \in X : t = Append(u, x)
      BY <3>2, SequenceEmptyOrAppend
    <3>4. /\ Len(t) = Len(u) + 1 /\ Len(u) \in Nat
          /\ \A i \in 1 .. Len(u) : t[i] = u[i]
          /\ t[Len(u) + 1] = x
      BY <3>3, AppendProperties, LenProperties
    <3>5. x = e
      BY <2>1, <2>5, <2>8, <3>1, <3>4
    <3> DEFINE psi == [i \in 1 .. Len(u) |-> phi[i]]
    <3>6. \A i \in 1 .. Len(u) : phi[i] \in 1 .. Len(s) /\ u[i] = s[phi[i]]
      <4> TAKE i \in 1 .. Len(u)
      <4>1. i \in 1 .. Len(t) /\ i < n
        BY <3>1, <3>4
      <4>2. phi[i] < Len(s) + 1 /\ phi[i] \in 1 .. Len(new)
        BY <2>5, <2>8, <4>1
      <4>3. phi[i] \in 1 .. Len(s)
        BY <2>1, <4>2
      <4> QED BY <2>1, <2>5, <3>4, <4>1, <4>3
    <3>7. Embeds(u, s, psi)
      <4>1. \A i \in 1 .. Len(u) : psi[i] = phi[i]
        OBVIOUS
      <4>2. psi \in [1 .. Len(u) -> 1 .. Len(s)]
        BY <3>6
      <4> HIDE DEF psi
      <4>3. \A i \in 1 .. Len(u) : i \in 1 .. Len(t)
        BY <3>4
      <4>4. \A i, j \in 1 .. Len(u) : i < j => psi[i] < psi[j]
        BY <2>5, <4>1, <4>3
      <4> QED BY <3>6, <4>1, <4>2, <4>4 DEF Embeds
    <3>8. u = Only(s, Range(u))
      BY <2>2, <3>7
    <3>9. Range(t) = Range(u) \cup {e}
      BY <3>3, <3>5, RangeAppend
    <3>10. Only(s, Range(t)) = Only(s, Range(u))
      <4>1. \A i \in 1 .. Len(s) : s[i] \in Range(t) <=> s[i] \in Range(u)
        BY <2>3, <3>9
      <4> QED BY <2>1, <4>1, OnlyAgree
    <3> QED BY <2>6, <3>3, <3>5, <3>8, <3>9, <3>10
  <2> QED BY <2>7, <2>8
<1>3. T \in SUBSET Seq(X)
  OBVIOUS
<1> HIDE DEF T
<1>4. \A s \in Seq(X) : s \in T
  BY <1>1, <1>2, <1>3, SeqInduction
<1> QED BY <1>4 DEF T

=============================================================================
