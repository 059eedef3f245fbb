---------------------------- MODULE CharsetProofs ----------------------------
(***************************************************************************)
(* For any text and any dictionaries: what is sent can be read.  UTF-8 is  *)
(* read back as it was; of a text for a Mac the letters that it has arrive *)
(* in their order, and a text it has arrives whole.                        *)
(*                                                                         *)
(* A reader that goes over a sequence once makes of it what its parts are  *)
(* made into, part after part; a character is one part of UTF-8, and a     *)
(* word is one part of a text that is romanized.  A character that neither *)
(* is nor makes a letter of the Mac may be composed, or spelled, in any    *)
(* way: the letters before and after it stay what they are.                *)
(***************************************************************************)
EXTENDS Charset, SequenceTheorems, FiniteSetTheorems, FunctionTheorems,
        WellFoundedInduction, TLAPS

(***************************************************************************)
(* Induction over the naturals, in the form of sets.                       *)
(***************************************************************************)
Below == {p \in Nat \X Nat : p[1] < p[2]}

\* The naturals are well founded.
LEMMA BelowWellFounded == IsWellFoundedOn(Below, Nat)
<1>1. Below = OpToRel(<, Nat)
  BY DEF Below, OpToRel
<1> QED
  BY <1>1, NatLessThanWellFounded

\* A set of naturals that is not empty has a least element.
LEMMA Least ==
  ASSUME NEW T, T \subseteq Nat, T # {}
  PROVE  \E x \in T : \A y \in T : x <= y
<1>1. PICK x \in T : \A y \in T : ~ (<<y, x>> \in Below)
  BY BelowWellFounded, WFMin, Zenon
<1>2. ASSUME NEW y \in T
      PROVE  x <= y
  <2>1. <<y, x>> \in Nat \X Nat /\ <<y, x>>[1] = y /\ <<y, x>>[2] = x
    OBVIOUS
  <2> QED
    BY <1>1, <2>1 DEF Below
<1> QED
  BY <1>2

\* A set of naturals with 0 and every successor is all of them.
LEMMA SetInduction ==
  ASSUME NEW G, 0 \in G, \A n \in Nat : n \in G => n + 1 \in G
  PROVE  Nat \subseteq G
<1> SUFFICES ASSUME ~ Nat \subseteq G
             PROVE  FALSE
  OBVIOUS
<1>1. PICK x \in Nat \ G : \A y \in Nat \ G : x <= y
  BY Least
<1>2. x # 0 /\ x - 1 \in Nat /\ x - 1 \in G
  BY <1>1
<1> QED
  BY <1>1, <1>2

(***************************************************************************)
(* The filter                                                              *)
(***************************************************************************)
\* The recursion of Kept, as a relation.
Keeps(k, n, s, S) ==
  k = [m \in 0 .. n |->
         IF m = 0 THEN <<>>
         ELSE IF s[m] \in S THEN Append(k[m - 1], s[m]) ELSE k[m - 1]]

\* There is a function that the recursion defines.
LEMMA KeepsExists ==
  ASSUME NEW s, NEW S, NEW N \in Nat
  PROVE  \E k : Keeps(k, N, s, S)
<1> DEFINE G == {m \in Nat : \E k : Keeps(k, m, s, S)}
<1>1. 0 \in G
  <2>1. Keeps([m \in 0 .. 0 |-> <<>>], 0, s, S)
    BY DEF Keeps
  <2> QED BY <2>1
<1>2. ASSUME NEW m \in Nat, m \in G PROVE m + 1 \in G
  <2>1. PICK k : Keeps(k, m, s, S)
    BY <1>2
  <2> DEFINE h == [n \in 0 .. m + 1 |->
               IF n <= m THEN k[n]
               ELSE IF s[n] \in S THEN Append(k[n - 1], s[n]) ELSE k[n - 1]]
  <2>2. \A n \in 0 .. m : h[n] = k[n]
    OBVIOUS
  <2>3. \A n \in 0 .. m : k[n] =  IF n = 0 THEN <<>>
        ELSE IF s[n] \in S THEN Append(k[n - 1], s[n]) ELSE k[n - 1]
    BY <2>1 DEF Keeps
  <2>4. \A n \in 0 .. m + 1 : h[n] = IF n = 0 THEN <<>>
        ELSE IF s[n] \in S THEN Append(h[n - 1], s[n]) ELSE h[n - 1]
    BY <2>2, <2>3
  <2>5. Keeps(h, m + 1, s, S)
    BY <2>4 DEF Keeps
  <2> QED BY <2>5
<1> QED BY <1>1, <1>2, SetInduction

\* The sequences that the recursion of Kept goes through.
KeptUpTo(s, S) == CHOOSE k : Keeps(k, Len(s), s, S)

\* The one chosen obeys the recursion,
LEMMA KeptUpToKeeps ==
  ASSUME NEW s, NEW S, Len(s) \in Nat
  PROVE  Keeps(KeptUpTo(s, S), Len(s), s, S)
BY KeepsExists DEF KeptUpTo

\* and the filter is its last value;
LEMMA KeptIsLast ==
  ASSUME NEW s, NEW S
  PROVE  Kept(s, S) = KeptUpTo(s, S)[Len(s)]
BY DEF Kept, KeptUpTo, Keeps

\* it starts with nothing
LEMMA KeptZero ==
  ASSUME NEW s, NEW S, Len(s) \in Nat
  PROVE  KeptUpTo(s, S)[0] = <<>>
BY KeptUpToKeeps DEF Keeps

\* and goes on one entry at a time.
LEMMA KeptNext ==
  ASSUME NEW s, NEW S, Len(s) \in Nat, NEW m \in Nat, m + 1 <= Len(s)
  PROVE  KeptUpTo(s, S)[m + 1] =
           IF s[m + 1] \in S THEN Append(KeptUpTo(s, S)[m], s[m + 1]) ELSE KeptUpTo(s, S)[m]
<1> DEFINE k == KeptUpTo(s, S)
<1>1. Keeps(k, Len(s), s, S)
  BY KeptUpToKeeps
<1> HIDE DEF k
<1>2. m + 1 \in 0 .. Len(s) /\ m + 1 # 0 /\ (m + 1) - 1 = m
  OBVIOUS
<1>3. k[m + 1] = IF s[m + 1] \in S THEN Append(k[m], s[m + 1]) ELSE k[m]
  BY <1>1, <1>2 DEF Keeps
<1> QED
  BY <1>3 DEF k

\* What is kept of the first n entries: no more than n, of S and of s.
LEMMA KeptUpToType ==
  ASSUME NEW T, NEW s \in Seq(T), NEW S, NEW n \in 0 .. Len(s)
  PROVE  KeptUpTo(s, S)[n] \in Seq(T \cap S) /\ Len(KeptUpTo(s, S)[n]) <= n
<1> DEFINE k == KeptUpTo(s, S)
           P(m) == m <= Len(s) => k[m] \in Seq(T \cap S) /\ Len(k[m]) <= m
<1>0. Len(s) \in Nat
  OBVIOUS
<1>1. P(0)
  <2>1. k[0] = <<>>
    BY <1>0, KeptZero
  <2> HIDE DEF k
  <2> QED BY <2>1
<1>2. ASSUME NEW m \in Nat, P(m) PROVE P(m + 1)
  <2> SUFFICES ASSUME m + 1 <= Len(s)
               PROVE  k[m + 1] \in Seq(T \cap S) /\ Len(k[m + 1]) <= m + 1
    OBVIOUS
  <2>1. k[m] \in Seq(T \cap S) /\ Len(k[m]) <= m
    BY <1>2, <1>0
  <2>2. k[m + 1] = IF s[m + 1] \in S THEN Append(k[m], s[m + 1]) ELSE k[m]
    BY <1>0, KeptNext
  <2>3. s[m + 1] \in T
    OBVIOUS
  <2> HIDE DEF k
  <2> QED BY <2>1, <2>2, <2>3
<1> HIDE DEF P
<1>3. \A m \in Nat : P(m)
  <2> DEFINE G == {m \in Nat : P(m)}
  <2>1. 0 \in G /\ \A m \in Nat : m \in G => m + 1 \in G
    BY <1>1, <1>2
  <2> HIDE DEF G
  <2>2. Nat \subseteq G
    BY <2>1, SetInduction
  <2> QED
    BY <2>2 DEF G
<1>4. P(n)
  BY <1>0, <1>3
<1> QED
  BY <1>4 DEF P

\* The filter: entries of s that are in S, no more than s has.
LEMMA KeptType ==
  ASSUME NEW T, NEW s \in Seq(T), NEW S
  PROVE  Kept(s, S) \in Seq(T \cap S) /\ Len(Kept(s, S)) <= Len(s)
<1>1. Len(s) \in 0 .. Len(s)
  OBVIOUS
<1> QED
  BY <1>1, KeptIsLast, KeptUpToType

\* Appending to the second part appends to the whole.
LEMMA AppendConcat ==
  ASSUME NEW T, NEW s \in Seq(T), NEW t \in Seq(T), NEW e \in T
  PROVE  Append(s \o t, e) = s \o Append(t, e)
OBVIOUS

\* Filtering the parts is filtering the whole.
LEMMA KeptConcat ==
  ASSUME NEW T, NEW s \in Seq(T), NEW t \in Seq(T), NEW S
  PROVE  Kept(s \o t, S) = Kept(s, S) \o Kept(t, S)
<1> DEFINE u == s \o t
           a == KeptUpTo(s, S)
           b == KeptUpTo(t, S)
           c == KeptUpTo(u, S)
           W == T \cap S
<1>0. /\ Len(s) \in Nat /\ Len(t) \in Nat /\ u \in Seq(T) /\ Len(u) = Len(s) + Len(t)
      /\ \A i \in 1 .. Len(s) : u[i] = s[i]
      /\ \A i \in 1 .. Len(t) : u[Len(s) + i] = t[i]
  OBVIOUS
<1>l. Len(s) \in Nat /\ Len(t) \in Nat /\ Len(u) \in Nat /\ u \in Seq(T)
  BY <1>0
<1> HIDE DEF u
<1>1. c[0] = <<>> /\ a[0] = <<>> /\ b[0] = <<>>
  BY <1>l, KeptZero
<1>2. ASSUME NEW n \in Nat, n + 1 <= Len(u)
      PROVE  c[n + 1] = IF u[n + 1] \in S THEN Append(c[n], u[n + 1]) ELSE c[n]
  BY <1>2, <1>l, KeptNext
<1>3. ASSUME NEW n \in Nat, n + 1 <= Len(s)
      PROVE  a[n + 1] = IF s[n + 1] \in S THEN Append(a[n], s[n + 1]) ELSE a[n]
  BY <1>3, <1>l, KeptNext
<1>4. ASSUME NEW n \in Nat, n + 1 <= Len(t)
      PROVE  b[n + 1] = IF t[n + 1] \in S THEN Append(b[n], t[n + 1]) ELSE b[n]
  BY <1>4, <1>l, KeptNext
<1>5. a[Len(s)] \in Seq(W)
  <2>1. Len(s) \in 0 .. Len(s)
    BY <1>l
  <2> QED BY <2>1, KeptUpToType
<1>6. ASSUME NEW n \in 0 .. Len(t)
      PROVE  b[n] \in Seq(W)
  BY KeptUpToType
<1> HIDE DEF a, b, c
<1>7. c[Len(s)] = a[Len(s)]
  <2> DEFINE P(n) == n <= Len(s) => c[n] = a[n]
  <2>1. P(0)
    BY <1>1
  <2>2. ASSUME NEW n \in Nat, P(n) PROVE P(n + 1)
    <3> SUFFICES ASSUME n + 1 <= Len(s) PROVE c[n + 1] = a[n + 1]
      OBVIOUS
    <3>1. u[n + 1] = s[n + 1] /\ c[n] = a[n] /\ n + 1 <= Len(u)
      BY <1>0, <2>2
    <3> QED BY <1>2, <1>3, <3>1
  <2> HIDE DEF P
  <2>3. \A n \in Nat : P(n)
    <3> DEFINE G == {m \in Nat : P(m)}
    <3>1. 0 \in G /\ \A m \in Nat : m \in G => m + 1 \in G
      BY <2>1, <2>2
    <3> HIDE DEF G
    <3>2. Nat \subseteq G
      BY <3>1, SetInduction
    <3> QED
      BY <3>2 DEF G
  <2>4. P(Len(s))
    BY <2>3, <1>l
  <2> QED BY <2>4, <1>l DEF P
<1>8. c[Len(s) + Len(t)] = a[Len(s)] \o b[Len(t)]
  <2> DEFINE P(n) == n <= Len(t) => c[Len(s) + n] = a[Len(s)] \o b[n]
  <2>1. P(0)
    <3>1. c[Len(s) + 0] = a[Len(s)] \o <<>>
      BY <1>0, <1>7, <1>5
    <3> QED BY <1>1, <3>1
  <2>2. ASSUME NEW n \in Nat, P(n) PROVE P(n + 1)
    <3> SUFFICES ASSUME n + 1 <= Len(t)
                 PROVE  c[Len(s) + (n + 1)] = a[Len(s)] \o b[n + 1]
      OBVIOUS
    <3> DEFINE l == Len(s) + n
    <3>0. l \in Nat /\ l + 1 = Len(s) + (n + 1) /\ l + 1 <= Len(u) /\ n \in 0 .. Len(t)
      BY <1>0
    <3>1. u[l + 1] = t[n + 1]
      BY <1>0, <3>0
    <3>2. c[l] = a[Len(s)] \o b[n]
      <4>1. n <= Len(t)
        BY <1>l
      <4> QED BY <2>2, <4>1, Zenon
    <3>3. b[n] \in Seq(W)
      BY <3>0, <1>6
    <3> HIDE DEF l
    <3>4. c[l + 1] = IF u[l + 1] \in S THEN Append(c[l], u[l + 1]) ELSE c[l]
      BY <1>2, <3>0
    <3>5. b[n + 1] = IF t[n + 1] \in S THEN Append(b[n], t[n + 1]) ELSE b[n]
      BY <1>4
    <3>6. CASE t[n + 1] \in S
      <4>1. t[n + 1] \in W
        BY <1>0, <3>6
      <4> HIDE DEF W
      <4>2. \A x, y \in Seq(W), e \in W : Append(x \o y, e) = x \o Append(y, e)
        BY SMTT(40), AppendConcat
      <4>3. Append(a[Len(s)] \o b[n], t[n + 1]) = a[Len(s)] \o Append(b[n], t[n + 1])
        BY <1>5, <3>3, <4>1, <4>2, Zenon
      <4>4. c[l + 1] = a[Len(s)] \o b[n + 1]
        BY <3>1, <3>2, <3>4, <3>5, <3>6, <4>3
      <4> QED BY <4>4, <3>0
    <3>7. CASE t[n + 1] \notin S
      <4>1. c[l + 1] = a[Len(s)] \o b[n + 1]
        BY <3>1, <3>2, <3>4, <3>5, <3>7
      <4> QED BY <4>1, <3>0
    <3> QED BY <3>6, <3>7
  <2> HIDE DEF P
  <2>3. \A n \in Nat : P(n)
    <3> DEFINE G == {m \in Nat : P(m)}
    <3>1. 0 \in G /\ \A m \in Nat : m \in G => m + 1 \in G
      BY <2>1, <2>2
    <3> HIDE DEF G
    <3>2. Nat \subseteq G
      BY <3>1, SetInduction
    <3> QED
      BY <3>2 DEF G
  <2>4. P(Len(t)) /\ Len(t) <= Len(t)
    BY <2>3, <1>l
  <2> QED BY <2>4, Zenon DEF P
<1>9. Kept(u, S) = c[Len(u)] /\ Kept(s, S) = a[Len(s)] /\ Kept(t, S) = b[Len(t)]
  BY KeptIsLast DEF a, b, c
<1>10. Kept(u, S) = Kept(s, S) \o Kept(t, S)
  BY <1>0, <1>8, <1>9
<1> QED
  BY <1>10 DEF u

\* Of distinct entries those in S are kept, each once.
Distinct(s) == \A i, j \in 1 .. Len(s) : s[i] = s[j] => i = j
EntriesOf(s) == {s[i] : i \in 1 .. Len(s)}

\* An entry that is new keeps the entries distinct.
LEMMA AppendDistinct ==
  ASSUME NEW T, NEW s \in Seq(T), Distinct(s), NEW e \in T, e \notin EntriesOf(s)
  PROVE  Distinct(Append(s, e)) /\ EntriesOf(Append(s, e)) = EntriesOf(s) \cup {e}
<1> DEFINE t == Append(s, e)
<1>1. /\ Len(s) \in Nat /\ Len(t) = Len(s) + 1
      /\ \A i \in 1 .. Len(s) : t[i] = s[i]
      /\ t[Len(s) + 1] = e
  OBVIOUS
<1> HIDE DEF t
<1>2. \A i \in 1 .. Len(s) : t[i] # e
  BY <1>1 DEF EntriesOf
<1>3. Distinct(t)
  BY <1>1, <1>2 DEF Distinct
<1>4. EntriesOf(t) = EntriesOf(s) \cup {e}
  <2>1. \A i \in 1 .. Len(t) : i \in 1 .. Len(s) \/ i = Len(s) + 1
    BY <1>1
  <2>2. \A i \in 1 .. Len(s) : i \in 1 .. Len(t)
    BY <1>1
  <2>3. Len(s) + 1 \in 1 .. Len(t)
    BY <1>1
  <2> QED BY <1>1, <2>1, <2>2, <2>3 DEF EntriesOf
<1> QED
  BY <1>3, <1>4 DEF t

\* What is kept of distinct entries is distinct, and all that S has of them.
LEMMA KeptDistinct ==
  ASSUME NEW T, NEW s \in Seq(T), NEW S, Distinct(s)
  PROVE  Distinct(Kept(s, S)) /\ EntriesOf(Kept(s, S)) = EntriesOf(s) \cap S
<1> DEFINE k == KeptUpTo(s, S)
           Upto(n) == {s[i] : i \in 1 .. n} \cap S
           P(n) == n <= Len(s) => Distinct(k[n]) /\ EntriesOf(k[n]) = Upto(n)
<1>0. Len(s) \in Nat
  OBVIOUS
<1>1. P(0)
  <2>1. k[0] = <<>>
    BY <1>0, KeptZero
  <2> HIDE DEF k
  <2> QED BY <2>1 DEF Distinct, EntriesOf
<1>2. ASSUME NEW n \in Nat, P(n) PROVE P(n + 1)
  <2> SUFFICES ASSUME n + 1 <= Len(s) PROVE Distinct(k[n + 1]) /\ EntriesOf(k[n + 1]) = Upto(n + 1)
    OBVIOUS
  <2>1. Distinct(k[n]) /\ EntriesOf(k[n]) = Upto(n)
    BY <1>2, <1>0
  <2>2. k[n + 1] = IF s[n + 1] \in S THEN Append(k[n], s[n + 1]) ELSE k[n]
    BY <1>0, KeptNext
  <2>3. k[n] \in Seq(T \cap S)
    <3>1. n \in 0 .. Len(s)
      BY <1>0
    <3> QED BY <3>1, KeptUpToType
  <2> HIDE DEF k
  <2>4. {s[i] : i \in 1 .. n + 1} = {s[i] : i \in 1 .. n} \cup {s[n + 1]}
    OBVIOUS
  <2>5. CASE s[n + 1] \notin S
    BY <2>1, <2>2, <2>4, <2>5
  <2>6. CASE s[n + 1] \in S
    <3>1. s[n + 1] \in T \cap S
      BY <2>6
    <3>2. s[n + 1] \notin {s[i] : i \in 1 .. n}
      BY <1>0 DEF Distinct
    <3>3. /\ Distinct(Append(k[n], s[n + 1]))
          /\ EntriesOf(Append(k[n], s[n + 1])) = EntriesOf(k[n]) \cup {s[n + 1]}
      BY <2>1, <2>3, <3>1, <3>2, AppendDistinct
    <3> QED BY <2>1, <2>2, <2>4, <2>6, <3>3
  <2> QED BY <2>5, <2>6
<1> HIDE DEF P
<1>3. \A n \in Nat : P(n)
  <2> DEFINE G == {m \in Nat : P(m)}
  <2>1. 0 \in G /\ \A m \in Nat : m \in G => m + 1 \in G
    BY <1>1, <1>2
  <2> HIDE DEF G
  <2>2. Nat \subseteq G
    BY <2>1, SetInduction
  <2> QED
    BY <2>2 DEF G
<1>4. P(Len(s))
  BY <1>0, <1>3
<1> QED
  BY <1>0, <1>4, KeptIsLast DEF P, EntriesOf

(***************************************************************************)
(* Sequences of whatever elements                                          *)
(***************************************************************************)
IsSeq(s) == \E T : s \in Seq(T)

\* Nothing is a sequence,
LEMMA EmptyIsSeq == IsSeq(<<>>)
BY EmptySeq DEF IsSeq

\* and a sequence has a length,
LEMMA IsSeqLen ==
  ASSUME NEW s, IsSeq(s)
  PROVE  Len(s) \in Nat
BY DEF IsSeq

\* and is defined up to it.
LEMMA IsSeqDef ==
  ASSUME NEW s, IsSeq(s)
  PROVE  DOMAIN s = 1 .. Len(s)
BY DEF IsSeq

\* So is a function on the first naturals,
LEMMA FunctionIsSeq ==
  ASSUME NEW n \in Nat, NEW T, NEW f \in [1 .. n -> T]
  PROVE  IsSeq(f) /\ Len(f) = n
<1>1. f \in Seq(T)
  BY SeqDef
<1> QED
  BY <1>1 DEF IsSeq

\* two sequences one after the other,
LEMMA ConcatIsSeq ==
  ASSUME NEW s, NEW t, IsSeq(s), IsSeq(t)
  PROVE  /\ IsSeq(s \o t)
         /\ Len(s \o t) = Len(s) + Len(t)
         /\ \A i \in 1 .. Len(s) + Len(t) :
              (s \o t)[i] = IF i <= Len(s) THEN s[i] ELSE t[i - Len(s)]
<1>1. PICK T : s \in Seq(T)
  BY DEF IsSeq
<1>2. PICK U : t \in Seq(U)
  BY DEF IsSeq
<1>3. s \in Seq(T \cup U) /\ t \in Seq(T \cup U)
  BY <1>1, <1>2, SeqMonotonic
<1> QED
  BY <1>3, ConcatProperties DEF IsSeq

\* a sequence with one entry more,
LEMMA AppendIsSeq ==
  ASSUME NEW s, NEW x, IsSeq(s)
  PROVE  /\ IsSeq(Append(s, x))
         /\ Len(Append(s, x)) = Len(s) + 1
         /\ \A i \in 1 .. Len(s) + 1 : Append(s, x)[i] = IF i = Len(s) + 1 THEN x ELSE s[i]
<1>1. PICK T : s \in Seq(T)
  BY DEF IsSeq
<1>2. s \in Seq(T \cup {x})
  BY <1>1, SeqMonotonic
<1>3. Append(s, x) \in Seq(T \cup {x})
  BY <1>2
<1> QED
  BY <1>2, <1>3 DEF IsSeq

\* and a single entry.
LEMMA OneIsSeq == ASSUME NEW x PROVE IsSeq(<<x>>)
BY <<x>> \in Seq({x}) DEF IsSeq

(***************************************************************************)
(* FlattenSeq                                                              *)
(***************************************************************************)
\* The recursion of FlattenSeq, as a relation.
Flattens(f, n, seqs) ==
  f = [i \in 1 .. n |-> IF i = 1 THEN seqs[i] ELSE f[i - 1] \o seqs[i]]

\* There is a function that the recursion of FlattenSeq defines;
LEMMA FlattensExists ==
  ASSUME NEW seqs, NEW N \in Nat
  PROVE  \E f : Flattens(f, N, seqs)
<1> DEFINE G == {m \in Nat : \E f : Flattens(f, m, seqs)}
<1>1. 0 \in G
  <2>1. Flattens([i \in 1 .. 0 |-> <<>>], 0, seqs)
    BY DEF Flattens
  <2> QED BY <2>1
<1>2. ASSUME NEW m \in Nat, m \in G PROVE m + 1 \in G
  <2>1. PICK f : Flattens(f, m, seqs)
    BY <1>2
  <2> DEFINE h == [i \in 1 .. m + 1 |->
               IF i <= m THEN f[i] ELSE IF i = 1 THEN seqs[i] ELSE f[i - 1] \o seqs[i]]
  <2>2. \A i \in 1 .. m : h[i] = f[i]
    OBVIOUS
  <2>3. \A i \in 1 .. m : f[i] = IF i = 1 THEN seqs[i] ELSE f[i - 1] \o seqs[i]
    BY <2>1 DEF Flattens
  <2>4. \A i \in 1 .. m + 1 : h[i] = IF i = 1 THEN seqs[i] ELSE h[i - 1] \o seqs[i]
    BY <2>2, <2>3
  <2>5. Flattens(h, m + 1, seqs)
    BY <2>4 DEF Flattens
  <2> QED BY <2>5
<1> QED BY <1>1, <1>2, SetInduction

Flat(seqs) == CHOOSE f : Flattens(f, Len(seqs), seqs)

\* the one chosen obeys it,
LEMMA FlatFlattens ==
  ASSUME NEW seqs, Len(seqs) \in Nat
  PROVE  Flattens(Flat(seqs), Len(seqs), seqs)
BY FlattensExists DEF Flat

\* and FlattenSeq is its last value:
LEMMA FlattenIsLast ==
  ASSUME NEW seqs
  PROVE  FlattenSeq(seqs) = IF Len(seqs) = 0 THEN seqs ELSE Flat(seqs)[Len(seqs)]
BY DEF FlattenSeq, Flat, Flattens

\* a sequence, if its parts are.
LEMMA FlattenIsSeq ==
  ASSUME NEW seqs, IsSeq(seqs), \A i \in 1 .. Len(seqs) : IsSeq(seqs[i])
  PROVE  IsSeq(FlattenSeq(seqs))
<1>0. Len(seqs) \in Nat
  BY IsSeqLen
<1>1. CASE Len(seqs) = 0
  BY <1>1, FlattenIsLast
<1>2. CASE Len(seqs) # 0
  <2> DEFINE f == Flat(seqs)
             P(m) == m + 1 <= Len(seqs) => IsSeq(f[m + 1])
  <2>1. Flattens(f, Len(seqs), seqs)
    BY <1>0, FlatFlattens
  <2> HIDE DEF f
  <2>2. P(0)
    <3>1. 1 \in 1 .. Len(seqs)
      BY <1>0, <1>2
    <3>2. f[1] = seqs[1]
      BY <2>1, <3>1 DEF Flattens
    <3> QED BY <3>1, <3>2
  <2>3. ASSUME NEW m \in Nat, P(m) PROVE P(m + 1)
    <3> SUFFICES ASSUME m + 2 <= Len(seqs) PROVE IsSeq(f[m + 2])
      BY <1>0
    <3>1. m + 2 \in 1 .. Len(seqs) /\ m + 2 # 1 /\ (m + 2) - 1 = m + 1 /\ m + 1 <= Len(seqs)
      BY <1>0
    <3>2. f[m + 2] = f[m + 1] \o seqs[m + 2]
      BY <2>1, <3>1 DEF Flattens
    <3>3. IsSeq(f[m + 1]) /\ IsSeq(seqs[m + 2])
      BY <2>3, <3>1
    <3> HIDE DEF P
    <3>4. IsSeq(f[m + 1] \o seqs[m + 2])
      BY <3>3, ConcatIsSeq
    <3> QED BY <3>2, <3>4
  <2> HIDE DEF P
  <2>4. \A m \in Nat : P(m)
    <3> DEFINE G == {m \in Nat : P(m)}
    <3>1. 0 \in G /\ \A m \in Nat : m \in G => m + 1 \in G
      BY <2>2, <2>3
    <3> HIDE DEF G
    <3>2. Nat \subseteq G
      BY <3>1, SetInduction
    <3> QED BY <3>2 DEF G
  <2>5. Len(seqs) - 1 \in Nat
    BY <1>0, <1>2
  <2>6. IsSeq(f[Len(seqs)])
    BY <1>0, <2>4, <2>5 DEF P
  <2> QED
    BY <1>2, <2>6, FlattenIsLast DEF f
<1> QED BY <1>1, <1>2

\* What is true of the first, and of one more whenever it is of those before,
\* is true of all: the way FlattenSeq goes.
LEMMA FlattenGoes ==
  ASSUME NEW seqs, IsSeq(seqs), Len(seqs) # 0
  PROVE  /\ FlattenSeq(seqs) = Flat(seqs)[Len(seqs)] /\ Flat(seqs)[1] = seqs[1]
         /\ \A m \in 1 .. Len(seqs) - 1 : Flat(seqs)[m + 1] = Flat(seqs)[m] \o seqs[m + 1]
<1>1. Len(seqs) \in Nat
  BY IsSeqLen
<1>2. Flattens(Flat(seqs), Len(seqs), seqs)
  BY <1>1, FlatFlattens
<1>3. FlattenSeq(seqs) = Flat(seqs)[Len(seqs)]
  BY FlattenIsLast
<1> DEFINE f == Flat(seqs)
<1> HIDE DEF f
<1>4. f = [i \in 1 .. Len(seqs) |-> IF i = 1 THEN seqs[i] ELSE f[i - 1] \o seqs[i]]
  BY <1>2 DEF Flattens, f
<1>5. f[1] = seqs[1]
  <2>1. 1 \in 1 .. Len(seqs)
    BY <1>1
  <2> QED BY <1>4, <2>1
<1>6. ASSUME NEW m \in 1 .. Len(seqs) - 1 PROVE f[m + 1] = f[m] \o seqs[m + 1]
  <2>1. m + 1 \in 1 .. Len(seqs) /\ m + 1 # 1 /\ (m + 1) - 1 = m
    BY <1>1
  <2> QED BY <1>4, <2>1
<1> QED BY <1>3, <1>5, <1>6 DEF f

-----------------------------------------------------------------------------
(* A recursion that goes up: from i it continues at next[i], or ends.      *)

Chains(f, n, head, next) ==
  f = [i \in 1 .. n |-> IF next[i] = 0 THEN <<>> ELSE head[i] \o f[next[i]]]

\* Such a recursion has a solution.
LEMMA ChainsExists ==
  ASSUME NEW n \in Nat, NEW head, NEW next,
         \A i \in 1 .. n : next[i] = 0 \/ next[i] \in i + 1 .. n
  PROVE  \E f : Chains(f, n, head, next)
<1> DEFINE Holds(f, i) == f[i] = IF next[i] = 0 THEN <<>> ELSE head[i] \o f[next[i]]
           P(m) == \E f : \A i \in n + 1 - m .. n : Holds(f, i)
           G == {m \in Nat : m <= n => P(m)}
<1>1. 0 \in G
  OBVIOUS
<1>2. ASSUME NEW m \in Nat, m \in G PROVE m + 1 \in G
  <2> HIDE DEF P
  <2> SUFFICES ASSUME m + 1 <= n PROVE P(m + 1)
    OBVIOUS
  <2>0. n + 1 - (m + 1) = n - m
    OBVIOUS
  <2>1. PICK f : \A i \in n + 1 - m .. n : Holds(f, i)
    BY <1>2 DEF P
  <2> DEFINE b == IF next[n - m] = 0 THEN <<>> ELSE head[n - m] \o f[next[n - m]]
             h == [i \in 1 .. n |-> IF i = n - m THEN b ELSE f[i]]
  <2>2. h[n - m] = b /\ \A i \in n + 1 - m .. n : h[i] = f[i]
    <3> HIDE DEF b
    <3>1. n - m \in 1 .. n /\ \A i \in n + 1 - m .. n : i \in 1 .. n /\ i # n - m
      OBVIOUS
    <3> QED BY <3>1
  <2> HIDE DEF h
  <2>3. ASSUME NEW i \in n - m .. n PROVE Holds(h, i)
    <3>1. i \in 1 .. n /\ (next[i] # 0 => next[i] \in n + 1 - m .. n)
      OBVIOUS
    <3>2. CASE i = n - m
      BY <2>2, <3>1, <3>2
    <3>3. CASE i # n - m
      BY <2>1, <2>2, <3>1, <3>3
    <3> QED BY <3>2, <3>3
  <2> HIDE DEF Holds
  <2> QED BY <2>0, <2>3 DEF P
<1>3. n \in G
  <2> HIDE DEF G
  <2> QED BY <1>1, <1>2, SetInduction
<1>4. PICK f : \A i \in 1 .. n : Holds(f, i)
  BY <1>3
<1> DEFINE h == [i \in 1 .. n |-> f[i]]
<1>5. \A i \in 1 .. n : h[i] = IF next[i] = 0 THEN <<>> ELSE head[i] \o h[next[i]]
  BY <1>4
<1>6. Chains(h, n, head, next)
  BY <1>5 DEF Chains
<1> QED BY <1>6

-----------------------------------------------------------------------------
(* Sequences laid end to end *)

\* One sequence after another.
LEMMA NatConcat ==
  ASSUME NEW a \in Seq(Nat), NEW b \in Seq(Nat)
  PROVE  /\ a \o b \in Seq(Nat) /\ Len(a \o b) = Len(a) + Len(b)
         /\ \A k \in 1 .. Len(a) + Len(b) :
              (a \o b)[k] = IF k <= Len(a) THEN a[k] ELSE b[k - Len(a)]
BY ConcatProperties

\* f is h and then g.
Joins(f, h, g) == f = h \o g

\* What joins two sequences is as long as both.
LEMMA JoinsLen ==
  ASSUME NEW h \in Seq(Nat), NEW g \in Seq(Nat), NEW f, Joins(f, h, g)
  PROVE  f \in Seq(Nat) /\ Len(f) = Len(h) + Len(g)
BY ConcatProperties DEF Joins

\* Where the first y rows end.
PartAt(seqs, y) == IF y = 0 THEN 0 ELSE Len(Flat(seqs)[y])

\* The first m rows, laid end to end.
Laid(seqs, m) ==
  /\ Flat(seqs)[m] \in Seq(Nat)
  /\ \A y \in 1 .. m : PartAt(seqs, y - 1) \in Nat
                         /\ PartAt(seqs, y) = PartAt(seqs, y - 1) + Len(seqs[y])
                         /\ PartAt(seqs, y) <= PartAt(seqs, m)
  /\ \A y \in 1 .. m : \A k \in 1 .. Len(seqs[y]) :
       Flat(seqs)[m][PartAt(seqs, y - 1) + k] = seqs[y][k]

\* In the first m sequences, every row is where the ones before it end.
LEMMA FlatLaid ==
  ASSUME NEW seqs, Len(seqs) \in Nat, \A y \in 1 .. Len(seqs) : seqs[y] \in Seq(Nat),
         NEW m0 \in 1 .. Len(seqs)
  PROVE  Laid(seqs, m0)
<1> DEFINE f == Flat(seqs)
           O(y) == PartAt(seqs, y)
           P(m) == m + 1 <= Len(seqs) => Laid(seqs, m + 1)
           G == {m \in Nat : P(m)}
<1>0. Flattens(f, Len(seqs), seqs)
  BY FlattensExists DEF Flat
<1>f. /\ 1 <= Len(seqs) => f[1] = seqs[1]
      /\ \A i \in 2 .. Len(seqs) : f[i] = f[i - 1] \o seqs[i]
  <2> HIDE DEF f
  <2>1. \A i \in 1 .. Len(seqs) : f[i] = IF i = 1 THEN seqs[i] ELSE f[i - 1] \o seqs[i]
    BY <1>0 DEF Flattens
  <2>2. 1 <= Len(seqs) => 1 \in 1 .. Len(seqs)
    OBVIOUS
  <2>3. \A i \in 2 .. Len(seqs) : i \in 1 .. Len(seqs) /\ i # 1
    OBVIOUS
  <2> QED BY <2>1, <2>2, <2>3
<1>1. 0 \in G
  <2> SUFFICES ASSUME 0 + 1 <= Len(seqs) PROVE Laid(seqs, 0 + 1)
    OBVIOUS
  <2>1. f[1] = seqs[1] /\ seqs[1] \in Seq(Nat)
    BY <1>f
  <2>2. O(0) = 0 /\ O(1) = Len(seqs[1])
    BY <2>1 DEF PartAt
  <2>3. Len(seqs[1]) \in Nat
    BY <2>1
  <2>4. ASSUME NEW y \in 1 .. 1
        PROVE  /\ O(y - 1) \in Nat /\ O(y) = O(y - 1) + Len(seqs[y]) /\ O(y) <= O(1)
               /\ \A k \in 1 .. Len(seqs[y]) : f[1][O(y - 1) + k] = seqs[y][k]
    <3>1. y = 1 /\ y - 1 = 0
      OBVIOUS
    <3> HIDE DEF O, f
    <3>2. \A k \in 1 .. Len(seqs[1]) : 0 + k = k
      OBVIOUS
    <3> QED BY <2>1, <2>2, <2>3, <3>1, <3>2
  <2> QED BY <2>1, <2>4 DEF Laid
<1>2. ASSUME NEW m \in Nat, m \in G PROVE m + 1 \in G
  <2> SUFFICES ASSUME m + 1 + 1 <= Len(seqs) PROVE Laid(seqs, m + 1 + 1)
    OBVIOUS
  <2> DEFINE i == m + 1
             j == m + 1 + 1
             h == f[i]
             r == seqs[j]
             g == f[j]
  <2>0. i \in Nat /\ i >= 1 /\ j = i + 1 /\ j \in 2 .. Len(seqs) /\ j \in 1 .. Len(seqs)
        /\ i <= Len(seqs) /\ j - 1 = i
    OBVIOUS
  <2>1. Laid(seqs, i)
    BY <1>2, <2>0
  <2> HIDE DEF i, j, f
  <2>2. h \in Seq(Nat) /\ r \in Seq(Nat) /\ Joins(g, h, r)
    BY <1>f, <2>0, <2>1 DEF Laid, Joins, f
  <2> HIDE DEF h, r, g
  <2>3. g \in Seq(Nat) /\ Len(g) = Len(h) + Len(r)
    BY <2>2, JoinsLen
  <2>4. \A k \in 1 .. Len(h) + Len(r) : g[k] = IF k <= Len(h) THEN h[k] ELSE r[k - Len(h)]
    BY <2>2, NatConcat DEF Joins
  <2>5. O(i) = Len(h) /\ O(j) = Len(g)
    BY <2>0 DEF PartAt, h, g, f
  <2>6. Len(h) \in Nat /\ Len(r) \in Nat
    BY <2>2
  <2>7. ASSUME NEW y \in 1 .. j
        PROVE  /\ O(y - 1) \in Nat /\ O(y) = O(y - 1) + Len(seqs[y]) /\ O(y) <= O(j)
               /\ \A k \in 1 .. Len(seqs[y]) : g[O(y - 1) + k] = seqs[y][k]
    <3>1. CASE y = j
      <4>1. y - 1 = i /\ seqs[y] = r
        BY <2>0, <3>1 DEF r
      <4> HIDE DEF O
      <4>2. O(y - 1) = Len(h) /\ O(y) = Len(h) + Len(r)
        BY <2>3, <2>5, <3>1, <4>1
      <4>3. ASSUME NEW k \in 1 .. Len(r) PROVE g[Len(h) + k] = r[k]
        <5>1. Len(h) + k \in 1 .. Len(h) + Len(r) /\ ~(Len(h) + k <= Len(h))
              /\ Len(h) + k - Len(h) = k
          BY <2>6
        <5> QED BY <2>4, <5>1
      <4>4. O(y) <= O(j)
        BY <2>3, <2>5, <2>6, <4>2
      <4>5. \A k \in 1 .. Len(seqs[y]) : g[O(y - 1) + k] = seqs[y][k]
        BY <4>1, <4>2, <4>3
      <4> QED BY <2>6, <4>1, <4>2, <4>4, <4>5
    <3>2. CASE y # j
      <4>1. y \in 1 .. i
        BY <2>0, <3>2
      <4>2. /\ O(y - 1) \in Nat /\ O(y) = O(y - 1) + Len(seqs[y]) /\ O(y) <= O(i)
            /\ \A k \in 1 .. Len(seqs[y]) : h[O(y - 1) + k] = seqs[y][k]
        BY <2>1, <4>1 DEF Laid, h, f
      <4>3. Len(seqs[y]) \in Nat
        <5>1. y \in 1 .. Len(seqs)
          BY <2>0, <4>1
        <5> QED BY <5>1
      <4> HIDE DEF O
      <4>4. O(i) <= O(j)
        BY <2>3, <2>5, <2>6
      <4>5. ASSUME NEW k \in 1 .. Len(seqs[y]) PROVE g[O(y - 1) + k] = seqs[y][k]
        <5>1. O(y - 1) + k \in 1 .. Len(h) + Len(r) /\ O(y - 1) + k <= Len(h)
          <6>1. O(y - 1) \in Nat /\ O(y) = O(y - 1) + Len(seqs[y]) /\ O(y) <= Len(h)
            BY <2>5, <4>2
          <6>2. k \in Nat /\ 1 <= k /\ k <= Len(seqs[y])
            BY <4>3
          <6> QED BY <2>6, <4>3, <6>1, <6>2
        <5>2. g[O(y - 1) + k] = h[O(y - 1) + k]
          BY <2>4, <5>1
        <5> QED BY <4>2, <5>2
      <4>6. O(y) <= O(j)
        BY <2>3, <2>5, <2>6, <4>2, <4>3, <4>4
      <4> QED BY <4>2, <4>5, <4>6
    <3> QED BY <3>1, <3>2
  <2>8. Laid(seqs, j)
    BY <2>3, <2>7 DEF Laid, g, f
  <2> QED BY <2>8 DEF j
<1>3. m0 - 1 \in G
  <2> HIDE DEF G
  <2>1. Nat \subseteq G
    BY <1>1, <1>2, SetInduction
  <2>2. m0 - 1 \in Nat
    OBVIOUS
  <2> QED BY <2>1, <2>2
<1> QED BY <1>3

\* In all of them, every row is where the ones before it end.
LEMMA FlattenLaid ==
  ASSUME NEW seqs, Len(seqs) \in Nat \ {0}, \A y \in 1 .. Len(seqs) : seqs[y] \in Seq(Nat)
  PROVE  LET data == FlattenSeq(seqs)
         IN  /\ data \in Seq(Nat) /\ PartAt(seqs, 0) = 0
             /\ \A y \in 1 .. Len(seqs) :
                  /\ PartAt(seqs, y - 1) \in Nat
                  /\ PartAt(seqs, y) = PartAt(seqs, y - 1) + Len(seqs[y])
                  /\ PartAt(seqs, y) <= Len(data)
                  /\ \A k \in 1 .. Len(seqs[y]) : data[PartAt(seqs, y - 1) + k] = seqs[y][k]
             /\ Len(data) = PartAt(seqs, Len(seqs))
<1> DEFINE n == Len(seqs)
<1>1. n \in Nat /\ n # 0 /\ n \in 1 .. n
  OBVIOUS
<1>2. FlattenSeq(seqs) = Flat(seqs)[n]
  BY <1>1, FlattenIsLast
<1>3. Laid(seqs, n)
  BY <1>1, FlatLaid
<1>4. PartAt(seqs, n) = Len(Flat(seqs)[n]) /\ PartAt(seqs, 0) = 0
  BY <1>1 DEF PartAt
<1> HIDE DEF n
<1> QED BY <1>2, <1>3, <1>4 DEF Laid, n

-----------------------------------------------------------------------------
(* The reader that goes over a sequence once                               *)

\* The recursion of Walk, as a relation.
Walks(from, made, taken) ==
  from = [i \in 1 .. Len(made) + 1 |->
            IF i > Len(made) THEN <<>> ELSE made[i] \o from[i + taken[i]]]

Walked(made, taken) == CHOOSE from : Walks(from, made, taken)

\* It goes on, and not beyond the end.
Strides(taken, n) == \A i \in 1 .. n : taken[i] \in Nat \ {0} /\ i + taken[i] <= n + 1

\* What the reader makes of the rest, at each place, is what it makes here
\* and of the rest after it.
LEMMA WalkGoes ==
  ASSUME NEW made, NEW taken, NEW n \in Nat, Len(made) = n, Strides(taken, n)
  PROVE  /\ Walk(made, taken) = Walked(made, taken)[1]
         /\ Walked(made, taken)[n + 1] = <<>>
         /\ \A i \in 1 .. n :
              Walked(made, taken)[i] = made[i] \o Walked(made, taken)[i + taken[i]]
<1> DEFINE next == [i \in 1 .. n + 1 |-> IF i > n THEN 0 ELSE i + taken[i]]
<1>1. \A i \in 1 .. n : next[i] = i + taken[i] /\ next[i] # 0 /\ next[i] \in i + 1 .. n + 1
  BY DEF Strides
<1>2. next[n + 1] = 0
  OBVIOUS
<1> HIDE DEF next
<1>3. \A i \in 1 .. n + 1 : next[i] = 0 \/ next[i] \in i + 1 .. n + 1
  BY <1>1, <1>2
<1>4. n + 1 \in Nat
  OBVIOUS
<1>5. PICK f : Chains(f, n + 1, made, next)
  BY <1>3, <1>4, ChainsExists
<1>6. \A i \in 1 .. n + 1 :
        (IF next[i] = 0 THEN <<>> ELSE made[i] \o f[next[i]])
          = IF i > n THEN <<>> ELSE made[i] \o f[i + taken[i]]
  <2> TAKE i \in 1 .. n + 1
  <2>1. CASE i \in 1 .. n
    BY <1>1, <2>1
  <2>2. CASE i = n + 1
    <3>1. i > n /\ next[i] = 0
      BY <1>2, <2>2
    <3> QED BY <3>1
  <2> QED BY <2>1, <2>2
<1>7. f = [i \in 1 .. n + 1 |-> IF i > n THEN <<>> ELSE made[i] \o f[i + taken[i]]]
  BY <1>5, <1>6 DEF Chains
<1>8. Walks(f, made, taken)
  BY <1>7 DEF Walks
<1> DEFINE w == Walked(made, taken)
<1>9. Walks(w, made, taken)
  BY <1>8 DEF Walked
<1>10. Walk(made, taken) = w[1]
  BY DEF Walk, Walked, Walks
<1> HIDE DEF w
<1>11. \A i \in 1 .. n + 1 : w[i] = IF i > n THEN <<>> ELSE made[i] \o w[i + taken[i]]
  BY <1>9 DEF Walks
<1>12. w[n + 1] = <<>> /\ \A i \in 1 .. n : w[i] = made[i] \o w[i + taken[i]]
  <2>1. n + 1 \in 1 .. n + 1 /\ n + 1 > n /\ \A i \in 1 .. n : i \in 1 .. n + 1 /\ ~(i > n)
    OBVIOUS
  <2> QED BY <1>11, <2>1
<1> QED BY <1>10, <1>12 DEF w

\* The entries of s from j on.
After(s, j) == SubSeq(s, j, Len(s))

\* One entry, and those after it.
LEMMA OneMore ==
  ASSUME NEW T, NEW s \in Seq(T), NEW j \in 1 .. Len(s)
  PROVE  <<s[j]>> \o After(s, j + 1) = After(s, j)
<1>1. s[j] \in T
  OBVIOUS
<1> QED BY <1>1 DEF After

\* The places where it stops, and makes an entry of s at each.
Stops(at, s, made, taken, n) ==
  /\ at[1] = 1 /\ at[Len(s) + 1] = n + 1
  /\ \A j \in 1 .. Len(s) : /\ at[j] \in 1 .. n /\ made[at[j]] = <<s[j]>>
                           /\ at[j] + taken[at[j]] = at[j + 1]

\* A reader that makes one entry of s of each of the parts that follow one
\* another reads s.
LEMMA WalkReads ==
  ASSUME NEW T, NEW s \in Seq(T), NEW made, NEW taken, NEW n \in Nat, Len(made) = n,
         Strides(taken, n), NEW at, Stops(at, s, made, taken, n)
  PROVE  Walk(made, taken) = s
<1> DEFINE w == Walked(made, taken)
           m == Len(s)
           P(d) == d <= m => w[at[m + 1 - d]] = After(s, m + 1 - d)
           G == {d \in Nat : P(d)}
<1>2. m \in Nat
  OBVIOUS
<1> HIDE DEF w
<1>1. /\ Walk(made, taken) = w[1] /\ w[n + 1] = <<>>
      /\ \A i \in 1 .. n : w[i] = made[i] \o w[i + taken[i]]
  <2>1. Walk(made, taken) = w[1]
    BY WalkGoes DEF w
  <2>2. w[n + 1] = <<>>
    <3>1. Walked(made, taken)[n + 1] = <<>>
      BY ZenonT(60), WalkGoes
    <3> QED BY <3>1 DEF w
  <2>3. ASSUME NEW i \in 1 .. n PROVE w[i] = made[i] \o w[i + taken[i]]
    <3>1. Walked(made, taken)[i] = made[i] \o Walked(made, taken)[i + taken[i]]
      BY ZenonT(60), WalkGoes
    <3> QED BY <3>1 DEF w
  <2> QED BY <2>1, <2>2, <2>3
<1>3. 0 \in G
  <2>1. After(s, m + 1) = <<>>
    BY DEF After
  <2>2. at[m + 1] = n + 1
    BY DEF Stops
  <2> QED BY <1>1, <1>2, <2>1, <2>2
<1>4. ASSUME NEW d \in Nat, d \in G PROVE d + 1 \in G
  <2> SUFFICES ASSUME d + 1 <= m PROVE w[at[m + 1 - (d + 1)]] = After(s, m + 1 - (d + 1))
    OBVIOUS
  <2> DEFINE j == m + 1 - (d + 1)
  <2>1. j \in 1 .. m /\ j + 1 = m + 1 - d
    BY <1>2
  <2>2. w[at[j + 1]] = After(s, j + 1)
    BY <1>2, <1>4, <2>1
  <2> HIDE DEF j
  <2>s. at[j] \in 1 .. n /\ made[at[j]] = <<s[j]>> /\ at[j] + taken[at[j]] = at[j + 1]
    BY <2>1 DEF Stops
  <2>3. w[at[j]] = <<s[j]>> \o After(s, j + 1)
    BY <1>1, <2>2, <2>s
  <2>4. w[at[j]] = After(s, j)
    BY <2>1, <2>3, OneMore
  <2> QED BY <2>4 DEF j
<1>5. m \in G
  <2> HIDE DEF G
  <2> QED BY <1>2, <1>3, <1>4, SetInduction
<1>6. m + 1 - m = 1
  BY <1>2
<1>9. at[1] = 1
  BY DEF Stops
<1>7. w[1] = After(s, 1)
  BY <1>5, <1>6, <1>9
<1>8. After(s, 1) = s
  BY DEF After
<1> QED BY <1>1, <1>7, <1>8

-----------------------------------------------------------------------------
(* UTF-8                                                                   *)

\* A quotient and a remainder are those of what they make up.
LEMMA QuotientIs ==
  ASSUME NEW d \in Nat \ {0}, NEW q \in Nat, NEW r \in 0 .. d - 1, NEW c, c = d * q + r
  PROVE  c \div d = q /\ c % d = r
OBVIOUS

\* The six bits that end a character, and those before them.
LEMMA Sixth ==
  ASSUME NEW c \in Nat
  PROVE  c \div 64 \in Nat /\ c % 64 \in 0 .. 63 /\ c = 64 * (c \div 64) + (c % 64)
OBVIOUS

\* The characters, by comparison.
LEMMA CharsAre == \A c : c \in Chars <=> c \in Nat /\ c <= 65535
<1> DEFINE top == 65535
<1>1. Chars = 0 .. top /\ top \in Nat
  BY DEF Chars
<1> HIDE DEF top
<1>2. \A c : c \in Chars <=> c \in Nat /\ c <= top
  BY <1>1
<1> QED BY SMTT(40), <1>2 DEF top

\* The bits of a character by sixes.
High(c) == c \div 4096
Middle(c) == (c \div 64) % 64
Low(c) == c % 64

\* Two digits of base 64, and what they are of.
LEMMA Sixes ==
  ASSUME NEW c \in Chars
  PROVE  /\ High(c) \in 0 .. 15 /\ Middle(c) \in 0 .. 63 /\ Low(c) \in 0 .. 63
         /\ c = High(c) * 4096 + Middle(c) * 64 + Low(c)
         /\ c \div 64 = High(c) * 64 + Middle(c)
<1>0. c \in Nat /\ c < 65536
  BY CharsAre
<1> DEFINE q == c \div 64
<1>1. q \in Nat /\ c % 64 \in 0 .. 63 /\ c = 64 * q + (c % 64)
  BY <1>0, Sixth
<1> HIDE DEF q
<1> DEFINE h == q \div 64
           m == q % 64
           l == c % 64
<1>2. h \in Nat /\ m \in 0 .. 63 /\ q = 64 * h + m
  BY <1>1, Sixth
<1>3. l \in 0 .. 63 /\ c = 64 * q + l
  BY <1>1
<1> HIDE DEF h, m, l
<1>4. 64 * m + l \in 0 .. 4096 - 1 /\ c = 4096 * h + (64 * m + l) /\ h < 16
  BY <1>0, <1>2, <1>3
<1>5. High(c) = h
  <2> DEFINE r == 64 * m + l
  <2> HIDE DEF r
  <2>1. r \in 0 .. 4096 - 1 /\ c = 4096 * h + r /\ 4096 \in Nat \ {0}
    BY <1>4 DEF r
  <2> QED BY <1>2, <2>1, QuotientIs DEF High
<1>6. Middle(c) = m /\ Low(c) = l
  BY DEF Middle, Low, m, l, q
<1>7. h \in 0 .. 15 /\ c = h * 4096 + m * 64 + l /\ q = h * 64 + m
  BY SMTT(40), <1>2, <1>3, <1>4
<1> QED BY <1>2, <1>3, <1>5, <1>6, <1>7 DEF q

\* The bytes of a character, by how large it is.
LEMMA Utf8CharIs ==
  ASSUME NEW c \in Chars
  PROVE  /\ c < 128 => Utf8Char(c) = <<c>>
         /\ c >= 128 /\ c < 2048 =>
              High(c) = 0 /\ Middle(c) < 32 /\ Utf8Char(c) = <<192 + Middle(c), 128 + Low(c)>>
         /\ c >= 2048 => Utf8Char(c) = <<224 + High(c), 128 + Middle(c), 128 + Low(c)>>
<1> DEFINE x == <<c>>
           y == <<192 + c \div 64, 128 + (c % 64)>>
           z == <<224 + c \div 4096, 128 + ((c \div 64) % 64), 128 + (c % 64)>>
<1>0. c \in Nat
  BY CharsAre
<1>1. Utf8Char(c) = CASE c < 128 -> x [] c >= 128 /\ c < 2048 -> y [] OTHER -> z
  BY DEF Utf8Char
<1>2. z = <<224 + High(c), 128 + Middle(c), 128 + Low(c)>>
  BY DEF High, Middle, Low
<1>3. y = <<192 + c \div 64, 128 + Low(c)>>
  BY DEF Low
<1> HIDE DEF x, y, z
<1>4. c < 128 => Utf8Char(c) = x
  BY <1>0, <1>1
<1>5. c >= 128 /\ c < 2048 => Utf8Char(c) = y
  BY <1>0, <1>1
<1>6. c >= 2048 => Utf8Char(c) = z
  BY <1>0, <1>1
<1>7. c >= 128 /\ c < 2048 => High(c) = 0 /\ Middle(c) < 32 /\ c \div 64 = Middle(c)
  <2> DEFINE h == High(c)
             m == Middle(c)
             l == Low(c)
             q == c \div 64
  <2>1. h \in 0 .. 15 /\ m \in 0 .. 63 /\ l \in 0 .. 63
    BY Sixes
  <2>2. c = h * 4096 + m * 64 + l /\ q = h * 64 + m
    BY SMTT(40), Sixes
  <2> HIDE DEF h, m, l, q
  <2>3. c < 2048 => h = 0
    BY <1>0, <2>1, <2>2
  <2>4. c < 2048 => m < 32 /\ q = m
    BY <1>0, <2>1, <2>2, <2>3
  <2> QED BY <2>3, <2>4 DEF h, m, q
<1> QED BY <1>2, <1>3, <1>4, <1>5, <1>6, <1>7 DEF x

\* A character has one to three bytes.
LEMMA Utf8CharType ==
  ASSUME NEW c \in Chars
  PROVE  Utf8Char(c) \in Seq(0 .. 255) /\ Len(Utf8Char(c)) \in 1 .. 3
<1>n. c \in Nat
  BY CharsAre
<1>0. c \in Nat /\ High(c) \in 0 .. 15 /\ Middle(c) \in 0 .. 63 /\ Low(c) \in 0 .. 63
  BY <1>n, Sixes
<1>1. CASE c < 128
  <2>1. Utf8Char(c) = <<c>> /\ c \in 0 .. 255
    BY <1>0, <1>1, Utf8CharIs
  <2> QED BY <2>1
<1>2. CASE c >= 128 /\ c < 2048
  <2>1. /\ 192 + Middle(c) \in 0 .. 255 /\ 128 + Low(c) \in 0 .. 255
        /\ Utf8Char(c) = <<192 + Middle(c), 128 + Low(c)>>
    BY <1>0, <1>2, Utf8CharIs
  <2> QED BY <2>1
<1>3. CASE c >= 2048
  <2>1. /\ 224 + High(c) \in 0 .. 255 /\ 128 + Middle(c) \in 0 .. 255 /\ 128 + Low(c) \in 0 .. 255
        /\ Utf8Char(c) = <<224 + High(c), 128 + Middle(c), 128 + Low(c)>>
    BY <1>0, <1>3, Utf8CharIs
  <2> QED BY <2>1
<1> QED BY <1>0, <1>1, <1>2, <1>3

\* The two bytes of a character, and its three, tell it.
LEMMA TwoBytes ==
  ASSUME NEW c \in Chars, c >= 128, c < 2048, NEW a, NEW b, a = 192 + Middle(c), b = 128 + Low(c)
  PROVE  a \in 192 .. 223 /\ (a - 192) * 64 + (b % 64) = c
<1>1. Middle(c) \in 0 .. 63 /\ Middle(c) < 32 /\ Low(c) \in 0 .. 63
  BY Sixes, Utf8CharIs
<1>2. c = Middle(c) * 64 + Low(c)
  BY Sixes, Utf8CharIs
<1>3. a \in 192 .. 223 /\ (a - 192) * 64 + (b % 64) = Middle(c) * 64 + Low(c)
  <2> DEFINE m == Middle(c)
             l == Low(c)
  <2>1. m \in 0 .. 63 /\ m < 32 /\ l \in 0 .. 63 /\ a = 192 + m /\ b = 128 + l
    BY <1>1
  <2> HIDE DEF m, l
  <2>2. b % 64 = l
    BY <2>1
  <2>3. a \in 192 .. 223 /\ (a - 192) * 64 + (b % 64) = m * 64 + l
    BY <2>1, <2>2
  <2> QED BY <2>3 DEF m, l
<1> QED BY <1>2, <1>3

\* A character of three bytes, as they are read.
LEMMA ThreeBytes ==
  ASSUME NEW c \in Chars, NEW a, NEW b, NEW d,
         a = 224 + High(c), b = 128 + Middle(c), d = 128 + Low(c)
  PROVE  /\ a \notin 192 .. 223 /\ a >= 224
         /\ (a - 224) * 4096 + (b % 64) * 64 + (d % 64) = c
<1>1. High(c) \in 0 .. 15 /\ Middle(c) \in 0 .. 63 /\ Low(c) \in 0 .. 63
  BY Sixes
<1>2. c = High(c) * 4096 + Middle(c) * 64 + Low(c)
  BY Sixes
<1>3. /\ a \notin 192 .. 223 /\ a >= 224
      /\ (a - 224) * 4096 + (b % 64) * 64 + (d % 64) = High(c) * 4096 + Middle(c) * 64 + Low(c)
  <2> DEFINE h == High(c)
             m == Middle(c)
             l == Low(c)
  <2>1. /\ h \in 0 .. 15 /\ m \in 0 .. 63 /\ l \in 0 .. 63
        /\ a = 224 + h /\ b = 128 + m /\ d = 128 + l
    BY <1>1
  <2> HIDE DEF h, m, l
  <2>2. b % 64 = m
    BY <2>1
  <2>3. d % 64 = l
    BY <2>1
  <2>4. /\ a \notin 192 .. 223 /\ a >= 224
        /\ (a - 224) * 4096 + (b % 64) * 64 + (d % 64) = h * 4096 + m * 64 + l
    BY <2>1, <2>2, <2>3
  <2> QED BY <2>4 DEF h, m, l
<1> QED BY <1>2, <1>3

\* The entries of s are in t, from i on.
Stand(t, i, s) == i + Len(s) - 1 <= Len(t) /\ \A k \in 1 .. Len(s) : t[i + k - 1] = s[k]

\* Wherever the bytes of a character are, the reader finds it and all of them.
LEMMA Utf8CharReads ==
  ASSUME NEW c \in Chars, NEW bytes, NEW i \in Nat, Len(bytes) \in Nat,
         Stand(bytes, i, Utf8Char(c))
  PROVE  CharAt(bytes, i) = c /\ WidthAt(bytes, i) = Len(Utf8Char(c))
<1>n. c \in Nat
  BY CharsAre
<1>i. i + 1 - 1 = i /\ i + 2 - 1 = i + 1 /\ i + 3 - 1 = i + 2
  OBVIOUS
<1> DEFINE a == bytes[i]
           b == bytes[i + 1]
           d == bytes[i + 2]
<1>w. WidthAt(bytes, i) = IF a \in 192 .. 223 /\ i < Len(bytes) THEN 2
                          ELSE IF a >= 224 /\ i + 1 < Len(bytes) THEN 3 ELSE 1
  BY DEF WidthAt
<1>c. /\ WidthAt(bytes, i) = 3 => CharAt(bytes, i) = (a - 224) * 4096 + (b % 64) * 64 + (d % 64)
      /\ WidthAt(bytes, i) = 2 => CharAt(bytes, i) = (a - 192) * 64 + (b % 64)
      /\ WidthAt(bytes, i) = 1 => CharAt(bytes, i) = IF a < 128 THEN a ELSE 65533
  <2> DEFINE x == (a - 224) * 4096 + (b % 64) * 64 + (d % 64)
             y == (a - 192) * 64 + (b % 64)
             z == IF a < 128 THEN a ELSE 65533
             w == WidthAt(bytes, i)
  <2>1. CharAt(bytes, i) = CASE w = 3 -> x [] w = 2 -> y [] OTHER -> z
    BY DEF CharAt
  <2> HIDE DEF x, y, z, w
  <2>2. (w = 3 => CharAt(bytes, i) = x) /\ (w = 2 => CharAt(bytes, i) = y)
        /\ (w = 1 => CharAt(bytes, i) = z)
    BY <2>1
  <2> QED BY <2>2 DEF x, y, z, w
<1>1. CASE c < 128
  <2>1. Utf8Char(c) = <<c>>
    BY <1>1, Utf8CharIs
  <2>2. a = c /\ Len(Utf8Char(c)) = 1
    <3>1. Len(Utf8Char(c)) = 1 /\ 1 \in 1 .. 1 /\ Utf8Char(c)[1] = c
      BY <2>1
    <3> QED BY <1>i, <3>1 DEF Stand
  <2> HIDE DEF a
  <2>3. WidthAt(bytes, i) = 1
    BY <1>n, <1>1, <1>w, <2>2
  <2> QED BY <1>1, <1>c, <2>2, <2>3
<1>2. CASE c >= 128 /\ c < 2048
  <2>1. Utf8Char(c) = <<192 + Middle(c), 128 + Low(c)>>
    BY <1>2, Utf8CharIs
  <2>2. Len(Utf8Char(c)) = 2
    BY <2>1
  <2>e. a = 192 + Middle(c) /\ b = 128 + Low(c)
    <3>1. 1 \in 1 .. 2 /\ 2 \in 1 .. 2
      OBVIOUS
    <3>2. bytes[i + 1 - 1] = Utf8Char(c)[1] /\ bytes[i + 2 - 1] = Utf8Char(c)[2]
      BY <2>2, <3>1 DEF Stand
    <3> QED BY <1>i, <2>1, <3>2
  <2>3. i < Len(bytes)
    BY <2>2 DEF Stand
  <2> HIDE DEF a, b
  <2>a. a \in 192 .. 223 /\ (a - 192) * 64 + (b % 64) = c
    BY <1>2, <2>e, TwoBytes
  <2>5. WidthAt(bytes, i) = 2
    BY <1>w, <2>3, <2>a
  <2>7. CharAt(bytes, i) = (a - 192) * 64 + (b % 64)
    BY <1>c, <2>5
  <2> QED BY <2>2, <2>5, <2>7, <2>a
<1>3. CASE c >= 2048
  <2>1. Utf8Char(c) = <<224 + High(c), 128 + Middle(c), 128 + Low(c)>>
    BY <1>3, Utf8CharIs
  <2>2. Len(Utf8Char(c)) = 3
    BY <2>1
  <2>e. a = 224 + High(c) /\ b = 128 + Middle(c) /\ d = 128 + Low(c)
    <3>1. 1 \in 1 .. 3 /\ 2 \in 1 .. 3 /\ 3 \in 1 .. 3
      OBVIOUS
    <3>2. /\ bytes[i + 1 - 1] = Utf8Char(c)[1] /\ bytes[i + 2 - 1] = Utf8Char(c)[2]
          /\ bytes[i + 3 - 1] = Utf8Char(c)[3]
      BY <2>2, <3>1 DEF Stand
    <3> QED BY <1>i, <2>1, <3>2
  <2>3. i + 1 < Len(bytes)
    BY <2>2 DEF Stand
  <2> HIDE DEF a, b, d
  <2>a. /\ a \notin 192 .. 223 /\ a >= 224
        /\ (a - 224) * 4096 + (b % 64) * 64 + (d % 64) = c
    BY <2>e, ThreeBytes
  <2>5. WidthAt(bytes, i) = 3
    BY <1>w, <2>3, <2>a
  <2>7. CharAt(bytes, i) = (a - 224) * 4096 + (b % 64) * 64 + (d % 64)
    BY <1>c, <2>5
  <2> QED BY <2>2, <2>5, <2>7, <2>a
<1> QED BY <1>n, <1>1, <1>2, <1>3

\* The reader of UTF-8 goes on by a byte or more, and not beyond the end.
LEMMA Utf8Strides ==
  ASSUME NEW bytes, NEW n \in Nat, Len(bytes) = n
  PROVE  Strides([i \in 1 .. n |-> WidthAt(bytes, i)], n)
<1> DEFINE taken == [i \in 1 .. n |-> WidthAt(bytes, i)]
<1>1. ASSUME NEW i \in 1 .. n PROVE taken[i] \in Nat \ {0} /\ i + taken[i] <= n + 1
  <2>1. taken[i] = WidthAt(bytes, i)
    OBVIOUS
  <2> HIDE DEF taken
  <2>2. \/ WidthAt(bytes, i) = 2 /\ i < n
        \/ WidthAt(bytes, i) = 3 /\ i + 1 < n
        \/ WidthAt(bytes, i) = 1
    BY DEF WidthAt
  <2> QED BY <2>1, <2>2
<1> QED BY <1>1 DEF Strides

\* The reader of no bytes reads nothing.
LEMMA WalkNothing ==
  ASSUME NEW made, NEW taken, Len(made) = 0
  PROVE  Walk(made, taken) = <<>>
<1> DEFINE n == 0
<1>0. n \in Nat /\ Len(made) = n /\ n + 1 = 1 /\ \A i \in 1 .. n : FALSE
  OBVIOUS
<1> HIDE DEF n
<1>1. Strides(taken, n)
  BY <1>0 DEF Strides
<1>2. Walk(made, taken) = Walked(made, taken)[1]
  BY <1>0, <1>1, WalkGoes
<1>3. Walked(made, taken)[n + 1] = <<>>
  BY <1>0, <1>1, WalkGoes
<1> QED BY <1>0, <1>2, <1>3

\* A text in UTF-8 reads as the text.
THEOREM Utf8ReadsBack ==
  ASSUME NEW s \in Seq(Chars)
  PROVE  FromUtf8(ToUtf8(s)) = s
<1> DEFINE seqs == [i \in 1 .. Len(s) |-> Utf8Char(s[i])]
           data == ToUtf8(s)
           n == Len(data)
           made == [i \in 1 .. n |-> <<CharAt(data, i)>>]
           taken == [i \in 1 .. n |-> WidthAt(data, i)]
           at == [j \in 1 .. Len(s) + 1 |-> PartAt(seqs, j - 1) + 1]
<1>0. Len(s) \in Nat /\ Len(seqs) = Len(s)
  OBVIOUS
<1>1. data = FlattenSeq(seqs)
  BY DEF ToUtf8
<1>2. FromUtf8(data) = Walk(made, taken)
  BY DEF FromUtf8
<1>3. CASE Len(s) = 0
  <2>1. s = <<>>
    BY <1>3
  <2>2. Len(data) = 0
    <3> HIDE DEF seqs, data
    <3>1. data = seqs
      BY <1>0, <1>1, <1>3, FlattenIsLast
    <3> QED BY <1>0, <1>3, <3>1
  <2>3. Len(made) = 0
    BY <2>2
  <2> HIDE DEF made, taken
  <2>4. Walk(made, taken) = <<>>
    BY <2>3, WalkNothing
  <2> QED BY <1>2, <2>1, <2>4
<1>4. CASE Len(s) # 0
  <2>s. ASSUME NEW j \in 1 .. Len(s)
        PROVE  seqs[j] = Utf8Char(s[j]) /\ s[j] \in Chars /\ seqs[j] \in Seq(Nat)
               /\ Len(seqs[j]) \in 1 .. 3
    <3>1. seqs[j] = Utf8Char(s[j]) /\ s[j] \in Chars
      OBVIOUS
    <3>2. Utf8Char(s[j]) \in Seq(0 .. 255) /\ Len(Utf8Char(s[j])) \in 1 .. 3
      BY <3>1, Utf8CharType
    <3>3. Utf8Char(s[j]) \in Seq(Nat)
      <4>1. 0 .. 255 \subseteq Nat
        OBVIOUS
      <4> QED BY <3>2, <4>1, SeqMonotonic
    <3> HIDE DEF seqs
    <3> QED BY <3>1, <3>2, <3>3
  <2>a. \A j \in 1 .. Len(s) + 1 : at[j] = PartAt(seqs, j - 1) + 1
    OBVIOUS
  <2>m. \A i \in 1 .. n : made[i] = <<CharAt(data, i)>> /\ taken[i] = WidthAt(data, i)
    OBVIOUS
  <2> HIDE DEF seqs
  <2>1. /\ data \in Seq(Nat) /\ PartAt(seqs, 0) = 0 /\ n = PartAt(seqs, Len(s))
        /\ \A y \in 1 .. Len(s) :
             /\ PartAt(seqs, y - 1) \in Nat
             /\ PartAt(seqs, y) = PartAt(seqs, y - 1) + Len(seqs[y])
             /\ PartAt(seqs, y) <= n
             /\ \A k \in 1 .. Len(seqs[y]) : data[PartAt(seqs, y - 1) + k] = seqs[y][k]
    <3> HIDE DEF data
    <3> QED BY <1>0, <1>1, <1>4, <2>s, FlattenLaid
  <2>2. n \in Nat
    BY <2>1
  <2>3. Len(made) = n
    BY <2>2
  <2>4. Strides(taken, n)
    <3> HIDE DEF data
    <3> QED BY <2>2, Utf8Strides
  <2> HIDE DEF data, n, made, taken, at
  <2>n. Len(data) = n
    BY DEF n
  <2>5. ASSUME NEW j \in 1 .. Len(s)
        PROVE  /\ at[j] \in 1 .. n /\ made[at[j]] = <<s[j]>>
               /\ at[j] + taken[at[j]] = at[j + 1]
    <3> DEFINE o == PartAt(seqs, j - 1)
               c == s[j]
               u == Utf8Char(c)
    <3>1. j \in 1 .. Len(s) + 1 /\ j + 1 \in 1 .. Len(s) + 1 /\ (j + 1) - 1 = j
      BY <1>0
    <3>2. at[j] = o + 1 /\ at[j + 1] = PartAt(seqs, j) + 1
      BY <2>a, <3>1
    <3>3. o \in Nat /\ PartAt(seqs, j) = o + Len(u) /\ PartAt(seqs, j) <= n /\ Len(u) \in 1 .. 3
      BY <2>1, <2>s
    <3>d. \A k \in 1 .. Len(u) : data[o + k] = u[k]
      BY <2>1, <2>s
    <3>4. c \in Chars
      BY <2>s
    <3> HIDE DEF o, c, u
    <3>5. o + 1 \in 1 .. n
      <4> DEFINE e == PartAt(seqs, j)
                 l == Len(u)
      <4>1. o \in Nat /\ e = o + l /\ e <= n /\ l \in 1 .. 3
        BY <3>3
      <4> HIDE DEF e, l
      <4> QED BY <2>2, <4>1
    <3>6. Stand(data, o + 1, u)
      <4>1. o + 1 + Len(u) - 1 <= Len(data)
        BY <2>n, <3>3, <2>2
      <4>2. ASSUME NEW k \in 1 .. Len(u) PROVE data[o + 1 + k - 1] = u[k]
        <5>1. o + 1 + k - 1 = o + k
          BY <3>3
        <5> QED BY <3>d, <5>1
      <4> QED BY <4>1, <4>2 DEF Stand
    <3>7. CharAt(data, o + 1) = c /\ WidthAt(data, o + 1) = Len(u)
      <4>1. o + 1 \in Nat /\ Len(data) \in Nat
        BY <2>2, <2>n, <3>3
      <4> QED BY <3>4, <3>6, <4>1, Utf8CharReads DEF u
    <3>8. made[o + 1] = <<c>> /\ taken[o + 1] = Len(u)
      BY <2>m, <3>5, <3>7
    <3>9. o + 1 + Len(u) = PartAt(seqs, j) + 1
      BY <3>3
    <3> QED BY <3>2, <3>5, <3>8, <3>9 DEF c
  <2>6. at[1] = 1 /\ at[Len(s) + 1] = n + 1
    <3>1. 1 \in 1 .. Len(s) + 1 /\ Len(s) + 1 \in 1 .. Len(s) + 1 /\ 1 - 1 = 0
          /\ (Len(s) + 1) - 1 = Len(s)
      BY <1>0
    <3> QED BY <2>1, <2>a, <3>1
  <2>7. Stops(at, s, made, taken, n)
    BY <2>5, <2>6 DEF Stops
  <2>8. Walk(made, taken) = s
    BY <2>2, <2>3, <2>4, <2>7, WalkReads
  <2> QED BY <1>2, <2>8 DEF data
<1> QED BY <1>3, <1>4

-----------------------------------------------------------------------------
(* The filter, entry by entry                                              *)

\* One entry is kept or not,
LEMMA KeptOne ==
  ASSUME NEW e, NEW S
  PROVE  Kept(<<e>>, S) = IF e \in S THEN <<e>> ELSE <<>>
<1> DEFINE s == <<e>>
<1>1. Len(s) = 1 /\ s[1] = e
  OBVIOUS
<1> HIDE DEF s
<1>n. Len(s) \in Nat
  BY <1>1
<1>2. Kept(s, S) = KeptUpTo(s, S)[1] /\ KeptUpTo(s, S)[0] = <<>>
  <2>1. Kept(s, S) = KeptUpTo(s, S)[Len(s)]
    BY KeptIsLast
  <2>2. KeptUpTo(s, S)[0] = <<>>
    BY <1>n, KeptZero
  <2> QED BY <1>1, <2>1, <2>2
<1>3. KeptUpTo(s, S)[0 + 1] =
        IF s[0 + 1] \in S THEN Append(KeptUpTo(s, S)[0], s[0 + 1]) ELSE KeptUpTo(s, S)[0]
  <2>1. Len(s) \in Nat /\ 0 \in Nat /\ 0 + 1 <= Len(s)
    BY <1>1
  <2> QED BY <2>1, KeptNext
<1>4. Kept(s, S) = IF e \in S THEN Append(<<>>, e) ELSE <<>>
  BY <1>1, <1>2, <1>3
<1>5. Append(<<>>, e) = <<e>>
  OBVIOUS
<1> QED BY <1>4, <1>5 DEF s

\* and one entry more.
LEMMA KeptAppend ==
  ASSUME NEW T, NEW s \in Seq(T), NEW e \in T, NEW S
  PROVE  Kept(Append(s, e), S) = IF e \in S THEN Append(Kept(s, S), e) ELSE Kept(s, S)
<1>1. Append(s, e) = s \o <<e>> /\ <<e>> \in Seq(T)
  OBVIOUS
<1>2. Kept(s \o <<e>>, S) = Kept(s, S) \o Kept(<<e>>, S)
  <2> DEFINE t == <<e>>
  <2>1. t \in Seq(T)
    BY <1>1
  <2> HIDE DEF t
  <2>2. Kept(s \o t, S) = Kept(s, S) \o Kept(t, S)
    BY <2>1, KeptConcat
  <2> QED BY <2>2 DEF t
<1>3. Kept(s, S) \in Seq(T)
  <2>1. Kept(s, S) \in Seq(T \cap S) /\ T \cap S \subseteq T
    BY KeptType
  <2> QED BY <2>1, SeqMonotonic
<1> DEFINE k == Kept(s, S)
<1> HIDE DEF k
<1>4. k \o <<e>> = Append(k, e) /\ k \o <<>> = k
  BY <1>3 DEF k
<1>5. Kept(<<e>>, S) = IF e \in S THEN <<e>> ELSE <<>>
  BY KeptOne
<1> QED BY <1>1, <1>2, <1>4, <1>5 DEF k

\* Nothing is kept of entries of which none is wanted.
LEMMA KeptNone ==
  ASSUME NEW T, NEW s \in Seq(T), NEW S, T \cap S = {}
  PROVE  Kept(s, S) = <<>>
<1>1. Kept(s, S) \in Seq({})
  BY KeptType
<1> DEFINE k == Kept(s, S)
<1> HIDE DEF k
<1>2. ASSUME Len(k) # 0 PROVE FALSE
  <2>1. k \in Seq({}) /\ 1 \in 1 .. Len(k)
    BY <1>1, <1>2 DEF k
  <2> QED BY <2>1
<1>3. k = <<>>
  BY <1>1, <1>2 DEF k
<1> QED BY <1>3 DEF k

-----------------------------------------------------------------------------
(* The letters of the Mac                                                  *)

Letters == {c \in Nat : c >= 128 /\ c <= 65000 /\ (c <= 9999 \/ c >= 60000)}

\* Those of the table are such letters,
LEMMA LettersAre == LatinExt \in Seq(Letters)
BY DEF LatinExt, Letters

\* one for each byte from 128 on,
LEMMA HowManyLetters == Len(LatinExt) = 128
BY DEF LatinExt

\* each of them.
LEMMA LetterIs ==
  ASSUME NEW i \in 1 .. Len(LatinExt)
  PROVE  LatinExt[i] \in Letters
BY LettersAre

\* None of them is ASCII, or Japanese.
LEMMA AccentsAre ==
  ASSUME NEW c \in Accents
  PROVE  c \in Nat /\ c >= 128 /\ c <= 65535 /\ ~IsJapaneseScript(c)
<1>1. c \in Letters
  BY LetterIs DEF Accents
<1>2. c \in Nat /\ c >= 128 /\ c <= 65000 /\ (c <= 9999 \/ c >= 60000)
  BY <1>1 DEF Letters
<1>3. ASSUME NEW block \in JapaneseBlocks PROVE ~(block[1] <= c /\ c <= block[2])
  BY <1>2 DEF JapaneseBlocks
<1> QED BY <1>2, <1>3 DEF IsJapaneseScript

\* ASCII, by comparison.
LEMMA AsciiIs == \A c : c \in Ascii <=> c \in Nat /\ c < 128
BY DEF Ascii

\* No letter of the table is ASCII.
LEMMA AsciiIsPlain == Ascii \cap Accents = {}
<1>1. ASSUME NEW c \in Accents PROVE c \notin Ascii
  <2>1. c \in Nat /\ c >= 128
    BY AccentsAre
  <2> QED BY <2>1, AsciiIs
<1> QED BY <1>1

\* A byte, as the Mac shows it.
MacChar(b) == IF b < 128 THEN b ELSE LatinExt[b - 127]

\* Bytes one after the other are shown one after the other.
LEMMA MacConcat ==
  ASSUME NEW a \in Seq(0 .. 255), NEW b \in Seq(0 .. 255)
  PROVE  FromMacRoman(a \o b) = FromMacRoman(a) \o FromMacRoman(b)
<1> DEFINE M(x) == [i \in 1 .. Len(x) |-> MacChar(x[i])]
           c == a \o b
           l == Len(a)
           m == Len(b)
<1>1. \A x : FromMacRoman(x) = M(x)
  BY DEF FromMacRoman, MacChar
<1>2. l \in Nat /\ m \in Nat /\ Len(c) = l + m
      /\ \A i \in 1 .. l + m : c[i] = IF i <= l THEN a[i] ELSE b[i - l]
  BY ConcatProperties
<1>l. Len(a) = l /\ Len(b) = m
  OBVIOUS
<1> HIDE DEF c, l, m
<1>3. IsSeq(M(a)) /\ IsSeq(M(b)) /\ Len(M(a)) = l /\ Len(M(b)) = m
  <2>1. M(a) \in [1 .. l -> {MacChar(a[i]) : i \in 1 .. l}]
    BY <1>l
  <2>2. M(b) \in [1 .. m -> {MacChar(b[i]) : i \in 1 .. m}]
    BY <1>l
  <2> HIDE DEF M
  <2> QED BY <1>2, <2>1, <2>2, FunctionIsSeq
<1>m. /\ \A i \in 1 .. l : M(a)[i] = MacChar(a[i])
      /\ \A i \in 1 .. m : M(b)[i] = MacChar(b[i])
      /\ M(c) = [i \in 1 .. l + m |-> MacChar(c[i])]
  BY <1>2, <1>l
<1> HIDE DEF M
<1> DEFINE g == M(a) \o M(b)
<1>4. IsSeq(g) /\ Len(g) = l + m
      /\ \A i \in 1 .. l + m : g[i] = IF i <= l THEN M(a)[i] ELSE M(b)[i - l]
  BY <1>3, ConcatIsSeq
<1> HIDE DEF g
<1>5. ASSUME NEW i \in 1 .. l + m PROVE g[i] = MacChar(c[i])
  <2>1. CASE i <= l
    <3>1. i \in 1 .. l
      BY <1>2, <2>1
    <3> QED BY <1>2, <1>4, <1>m, <2>1, <3>1
  <2>2. CASE ~(i <= l)
    <3>1. i - l \in 1 .. m
      BY <1>2, <2>2
    <3> QED BY <1>2, <1>4, <1>m, <2>2, <3>1
  <2> QED BY <2>1, <2>2
<1>6. g = [i \in 1 .. l + m |-> MacChar(c[i])]
  <2>1. DOMAIN g = 1 .. l + m /\ g = [i \in DOMAIN g |-> g[i]]
    BY <1>4, IsSeqDef DEF IsSeq
  <2> QED BY <1>5, <2>1
<1> QED BY <1>1, <1>6, <1>m DEF g, c

\* ASCII is shown as it is.
LEMMA MacAscii ==
  ASSUME NEW a \in Seq(Ascii)
  PROVE  FromMacRoman(a) = a /\ a \in Seq(0 .. 255)
<1>1. ASSUME NEW i \in 1 .. Len(a) PROVE a[i] < 128
  <2>1. a[i] \in Ascii
    OBVIOUS
  <2> QED BY <2>1, AsciiIs
<1>2. FromMacRoman(a) = [i \in 1 .. Len(a) |-> a[i]]
  BY <1>1 DEF FromMacRoman
<1>3. Ascii \subseteq 0 .. 255
  BY DEF Ascii
<1>4. a \in Seq(0 .. 255)
  BY ZenonT(60), <1>3, SeqMonotonic
<1> QED BY <1>2, <1>4

\* What deunicode returns.
LEMMA ApproxIs == \A c \in DOMAIN Approx : Approx[c] \in Seq(Ascii)
BY CharsetAssumption

\* What a character is sent as: itself if the Mac has it, ASCII if not.
LEMMA EncodeCharShows ==
  ASSUME NEW c \in Chars
  PROVE  /\ EncodeChar(c) \in Seq(0 .. 255)
         /\ OnTheMac(c) => FromMacRoman(EncodeChar(c)) = <<c>>
         /\ ~OnTheMac(c) => EncodeChar(c) \in Seq(Ascii)
<1> DEFINE w == <<c>>
           j == CHOOSE i \in 1 .. Len(LatinExt) : LatinExt[i] = c
           x == <<127 + j>>
           y == <<>>
           z == IF c \in DOMAIN Approx THEN Approx[c] ELSE <<63>>
<1>1. EncodeChar(c) = CASE c < 128 -> w [] c >= 128 /\ c \in Accents -> x
                        [] c \in Marks \ Accents -> y [] OTHER -> z
  BY DEF EncodeChar
<1>0. c \in Nat
  BY CharsAre
<1>2. ASSUME c \in Accents PROVE c >= 128
  <2>1. c \in Nat /\ c >= 128
    BY <1>2, AccentsAre
  <2> QED BY <2>1
<1>3. c \in Marks => c >= 128
  BY DEF Marks
<1> HIDE DEF w, x, y, z
<1>4. c < 128 => EncodeChar(c) = w
  BY <1>0, <1>1, <1>2, <1>3
<1>5. c \in Accents => EncodeChar(c) = x
  BY <1>0, <1>1, <1>2, <1>3
<1>6. ~OnTheMac(c) => EncodeChar(c) = y \/ EncodeChar(c) = z
  BY <1>0, <1>1, <1>2, <1>3 DEF OnTheMac
<1>7. CASE c < 128
  <2>1. w \in Seq(Ascii) /\ w = <<c>>
    BY <1>0, <1>7, AsciiIs DEF w
  <2>2. FromMacRoman(w) = w /\ w \in Seq(0 .. 255)
    BY <2>1, MacAscii
  <2> QED BY <1>4, <1>7, <2>1, <2>2 DEF OnTheMac
<1>8. CASE c \in Accents
  <2>1. j \in 1 .. 128 /\ LatinExt[j] = c
    <3>1. \E i \in 1 .. Len(LatinExt) : LatinExt[i] = c
      BY <1>8 DEF Accents
    <3>2. j \in 1 .. Len(LatinExt) /\ LatinExt[j] = c
      BY <3>1
    <3> HIDE DEF j
    <3>3. Len(LatinExt) = 128
      BY HowManyLetters
    <3> QED BY <3>2, <3>3
  <2> HIDE DEF j
  <2> DEFINE b == 127 + j
  <2>2. b \in 0 .. 255 /\ ~(b < 128) /\ b - 127 = j
    BY <2>1
  <2>x. x = <<b>>
    BY DEF x
  <2> HIDE DEF b
  <2>3. <<b>> \in Seq(0 .. 255) /\ Len(<<b>>) = 1 /\ <<b>>[1] = b
    BY <2>2
  <2>4. FromMacRoman(<<b>>) = [i \in 1 .. 1 |-> LatinExt[b - 127]]
    <3>1. FromMacRoman(<<b>>) = [i \in 1 .. 1 |-> MacChar(<<b>>[i])]
      BY <2>3 DEF FromMacRoman, MacChar
    <3>2. \A i \in 1 .. 1 : <<b>>[i] = b
      BY <2>3
    <3>3. MacChar(b) = LatinExt[b - 127]
      BY <2>2 DEF MacChar
    <3> QED BY <3>1, <3>2, <3>3
  <2>5. [i \in 1 .. 1 |-> c] = <<c>>
    OBVIOUS
  <2>6. FromMacRoman(<<b>>) = <<c>>
    BY <2>1, <2>2, <2>4, <2>5
  <2> QED BY <1>5, <1>8, <2>3, <2>6, <2>x DEF OnTheMac
<1>9. CASE ~OnTheMac(c)
  <2>1. y \in Seq(Ascii)
    BY DEF y
  <2>2. z \in Seq(Ascii)
    <3>1. <<63>> \in Seq(Ascii)
      BY AsciiIs
    <3>2. c \in DOMAIN Approx => Approx[c] \in Seq(Ascii)
      BY ApproxIs
    <3> QED BY <3>1, <3>2 DEF z
  <2>3. y \in Seq(0 .. 255) /\ z \in Seq(0 .. 255)
    BY <2>1, <2>2, MacAscii
  <2> QED BY <1>6, <1>9, <2>1, <2>2, <2>3
<1> QED BY <1>7, <1>8, <1>9 DEF OnTheMac

-----------------------------------------------------------------------------
(* What a Mac shows of a text                                              *)

\* An entry of a sequence.
LEMMA EntryIs ==
  ASSUME NEW T, NEW s \in Seq(T), NEW i \in 1 .. Len(s)
  PROVE  s[i] \in T
OBVIOUS

\* The letters of the Mac are characters.
LEMMA LettersAreChars == Letters \subseteq Chars
<1>1. ASSUME NEW c \in Letters PROVE c \in Chars
  <2>1. c \in Nat /\ c <= 65000
    BY DEF Letters
  <2>2. c <= 65535
    BY <2>1
  <2> QED BY <2>1, <2>2, CharsAre
<1> QED BY <1>1

\* Whatever byte it is, the Mac has a character for it.
LEMMA MacCharType ==
  ASSUME NEW b \in 0 .. 255
  PROVE  MacChar(b) \in Chars
<1>1. b \in Nat /\ b <= 255
  OBVIOUS
<1>2. CASE b < 128
  <2>1. b \in Chars
    BY <1>1, <1>2, CharsAre
  <2> QED BY <1>2, <2>1 DEF MacChar
<1>3. CASE ~(b < 128)
  <2> DEFINE i == b - 127
             n == Len(LatinExt)
  <2>1. n = 128
    BY HowManyLetters
  <2> HIDE DEF n
  <2>2. i \in 1 .. n
    BY <1>1, <1>3, <2>1
  <2>3. i \in 1 .. Len(LatinExt)
    BY <2>2 DEF n
  <2> HIDE DEF i
  <2>4. LatinExt[i] \in Chars
    BY <2>3, LetterIs, LettersAreChars
  <2> QED BY <1>3, <2>4 DEF MacChar, i
<1> QED BY <1>2, <1>3

\* Whatever bytes they are, the Mac shows characters.
LEMMA FromMacType ==
  ASSUME NEW a \in Seq(0 .. 255)
  PROVE  FromMacRoman(a) \in Seq(Chars)
<1>1. FromMacRoman(a) = [i \in 1 .. Len(a) |-> MacChar(a[i])]
  BY DEF FromMacRoman, MacChar
<1>2. ASSUME NEW i \in 1 .. Len(a) PROVE MacChar(a[i]) \in Chars
  <2>1. a[i] \in 0 .. 255
    BY EntryIs
  <2> QED BY <2>1, MacCharType
<1>3. Len(a) \in Nat
  OBVIOUS
<1> QED BY <1>1, <1>2, <1>3

\* The bytes f are what is to be sent of the text p: the letters a Mac has are
\* read back in their order, and all of the text if it has nothing else.
Conveys(f, p) ==
  /\ f \in Seq(0 .. 255)
  /\ p \in Seq(Chars)
  /\ Kept(FromMacRoman(f), Accents) = Kept(p, Accents)
  /\ (\A i \in 1 .. Len(p) : OnTheMac(p[i])) => FromMacRoman(f) = p

\* Nothing is sent of nothing.
LEMMA SentNothing == Conveys(<<>>, <<>>)
<1> DEFINE e == <<>>
<1>1. e \in Seq(Ascii) /\ e \in Seq(Chars)
  OBVIOUS
<1> HIDE DEF e
<1>2. FromMacRoman(e) = e /\ e \in Seq(0 .. 255)
  BY <1>1, MacAscii
<1>3. Conveys(e, e)
  BY <1>1, <1>2 DEF Conveys
<1> QED BY <1>3 DEF e

\* A letter more.
LEMMA SentAppend ==
  ASSUME NEW f, NEW p, Conveys(f, p), NEW c \in Chars
  PROVE  Conveys(f \o EncodeChar(c), Append(p, c))
<1> DEFINE b == EncodeChar(c)
           F == FromMacRoman(f)
           B == FromMacRoman(b)
           q == Append(p, c)
           g == f \o b
<1>1. /\ b \in Seq(0 .. 255)
      /\ OnTheMac(c) => B = <<c>>
      /\ ~OnTheMac(c) => b \in Seq(Ascii)
  BY EncodeCharShows
<1> HIDE DEF b
<1>2. /\ f \in Seq(0 .. 255) /\ p \in Seq(Chars)
      /\ Kept(F, Accents) = Kept(p, Accents)
      /\ (\A i \in 1 .. Len(p) : OnTheMac(p[i])) => F = p
  BY DEF Conveys
<1>3. FromMacRoman(g) = F \o B
  BY <1>1, <1>2, MacConcat
<1>4. F \in Seq(Chars) /\ B \in Seq(Chars)
  BY <1>1, <1>2, FromMacType
<1>5. g \in Seq(0 .. 255)
  BY <1>1, <1>2, ConcatProperties
<1>6. q \in Seq(Chars) /\ Len(q) = Len(p) + 1 /\ q[Len(p) + 1] = c
      /\ \A i \in 1 .. Len(p) : q[i] = p[i]
  BY <1>2
<1>B. OnTheMac(c) => B = <<c>>
  BY <1>1
<1>b. ~OnTheMac(c) => b \in Seq(Ascii)
  BY <1>1
<1> HIDE DEF F, B
<1>7. Kept(q, Accents) = IF c \in Accents THEN Append(Kept(p, Accents), c) ELSE Kept(p, Accents)
  BY <1>2, KeptAppend
<1>8. Kept(F \o B, Accents) = Kept(F, Accents) \o Kept(B, Accents)
  BY <1>4, KeptConcat
<1> DEFINE k == Kept(p, Accents)
<1>9. k \in Seq(Chars)
  <2>1. k \in Seq(Chars \cap Accents)
    BY <1>2, KeptType
  <2> QED BY <2>1, SeqMonotonic
<1>k. Kept(F, Accents) = k
  BY <1>2
<1> HIDE DEF k
<1>10. Kept(F \o B, Accents) = Kept(q, Accents)
  <2>1. CASE OnTheMac(c)
    <3>1. Kept(B, Accents) = IF c \in Accents THEN <<c>> ELSE <<>>
      BY <1>B, <2>1, KeptOne
    <3>2. k \o <<c>> = Append(k, c) /\ k \o <<>> = k
      BY <1>9
    <3> QED BY <1>7, <1>8, <1>k, <3>1, <3>2 DEF k
  <2>2. CASE ~OnTheMac(c)
    <3>1. c \notin Accents /\ b \in Seq(Ascii)
      BY <1>b, <2>2 DEF OnTheMac
    <3>2. B = b
      BY <3>1, MacAscii DEF B
    <3>3. Kept(B, Accents) = <<>>
      BY <3>1, <3>2, AsciiIsPlain, KeptNone
    <3>4. k \o <<>> = k
      BY <1>9
    <3> QED BY <1>7, <1>8, <1>k, <3>1, <3>3, <3>4 DEF k
  <2> QED BY <2>1, <2>2
<1>11. ASSUME \A i \in 1 .. Len(q) : OnTheMac(q[i]) PROVE F \o B = q
  <2>1. Len(p) + 1 \in 1 .. Len(q) /\ Len(p) \in Nat
    BY <1>2, <1>6
  <2>2. OnTheMac(c)
    BY <1>6, <1>11, <2>1
  <2>3. ASSUME NEW i \in 1 .. Len(p) PROVE OnTheMac(p[i])
    <3>1. i \in 1 .. Len(q)
      BY <1>6, <2>1
    <3> QED BY <1>6, <1>11, <3>1
  <2>4. F = p
    BY <1>2, <2>3 DEF F
  <2>5. p \o <<c>> = Append(p, c)
    BY <1>2
  <2> QED BY <1>B, <2>2, <2>4, <2>5
<1>12. Kept(FromMacRoman(g), Accents) = Kept(q, Accents)
  BY <1>3, <1>10
<1>13. (\A i \in 1 .. Len(q) : OnTheMac(q[i])) => FromMacRoman(g) = q
  BY <1>3, <1>11
<1> HIDE DEF g, q
<1>14. Conveys(g, q)
  BY <1>5, <1>6, <1>12, <1>13 DEF Conveys
<1> QED BY <1>14 DEF g, q, b

\* A text, character by character.
LEMMA MacShows ==
  ASSUME NEW n \in Seq(Chars)
  PROVE  Conveys(FlattenSeq([i \in 1 .. Len(n) |-> EncodeChar(n[i])]), n)
<1> DEFINE e == [i \in 1 .. Len(n) |-> EncodeChar(n[i])]
<1>1. Len(n) \in Nat
  OBVIOUS
<1>2. /\ IsSeq(e) /\ Len(e) = Len(n)
      /\ \A i \in 1 .. Len(n) : e[i] = EncodeChar(n[i])
  <2>1. e \in [1 .. Len(n) -> {EncodeChar(n[i]) : i \in 1 .. Len(n)}]
    OBVIOUS
  <2>2. \A i \in 1 .. Len(n) : e[i] = EncodeChar(n[i])
    OBVIOUS
  <2> HIDE DEF e
  <2> QED BY <1>1, <2>1, <2>2, FunctionIsSeq
<1> HIDE DEF e
<1>3. CASE Len(n) = 0
  <2>1. n = <<>>
    BY <1>3
  <2>2. FlattenSeq(e) = e
    BY <1>2, <1>3, FlattenIsLast
  <2>3. e = <<>>
    BY <1>2, <1>3 DEF IsSeq
  <2> QED BY <2>1, <2>2, <2>3, SentNothing DEF e
<1>4. CASE Len(n) # 0
  <2> DEFINE f == Flat(e)
             u(m) == SubSeq(n, 1, m)
  <2>1. FlattenSeq(e) = f[Len(n)] /\ f[1] = e[1]
        /\ \A m \in 1 .. Len(n) - 1 : f[m + 1] = f[m] \o e[m + 1]
    BY <1>2, <1>4, FlattenGoes
  <2> HIDE DEF f
  <2> DEFINE P(m) == m + 1 <= Len(n) => Conveys(f[m + 1], u(m + 1))
             G == {m \in Nat : P(m)}
  <2>2. \A m \in 1 .. Len(n) : u(m) \in Seq(Chars) /\ Len(u(m)) = m
                               /\ \A i \in 1 .. m : u(m)[i] = n[i]
    BY <1>1
  <2>3. ASSUME NEW m \in 1 .. Len(n) - 1 PROVE u(m + 1) = Append(u(m), n[m + 1])
    BY <1>1, <2>3
  <2>4. u(Len(n)) = n
    BY <1>1, <1>4
  <2>5. u(1) = Append(<<>>, n[1])
    <3> DEFINE c == n[1]
    <3>1. SubSeq(n, 1, 1) = [i \in 1 .. 1 |-> c]
      BY <1>1, <1>4
    <3> HIDE DEF c
    <3>2. [i \in 1 .. 1 |-> c] = <<c>> /\ Append(<<>>, c) = <<c>>
      OBVIOUS
    <3> QED BY <3>1, <3>2 DEF c
  <2> HIDE DEF u
  <2>6. 0 \in G
    <3>1. 1 \in 1 .. Len(n) /\ n[1] \in Chars
      BY <1>1, <1>4
    <3>2. EncodeChar(n[1]) \in Seq(0 .. 255)
      BY <3>1, EncodeCharShows
    <3>3. <<>> \o EncodeChar(n[1]) = EncodeChar(n[1])
      BY <3>2
    <3>4. Conveys(<<>> \o EncodeChar(n[1]), Append(<<>>, n[1]))
      BY <3>1, SentNothing, SentAppend
    <3>5. Conveys(f[1], u(1))
      BY <1>2, <2>1, <2>5, <3>1, <3>3, <3>4
    <3> QED BY <3>5
  <2>7. ASSUME NEW m \in Nat, m \in G PROVE m + 1 \in G
    <3>1. ASSUME m + 1 + 1 <= Len(n) PROVE Conveys(f[m + 1 + 1], u(m + 1 + 1))
      <4> DEFINE j == m + 1
      <4>1. j \in 1 .. Len(n) - 1 /\ j + 1 \in 1 .. Len(n) /\ Conveys(f[j], u(j))
        BY <1>1, <2>7, <3>1
      <4> HIDE DEF j
      <4>2. n[j + 1] \in Chars /\ f[j + 1] = f[j] \o EncodeChar(n[j + 1])
        <5>1. n[j + 1] \in Chars /\ e[j + 1] = EncodeChar(n[j + 1])
          BY <1>2, <4>1
        <5>2. f[j + 1] = f[j] \o e[j + 1]
          BY <2>1, <4>1
        <5> QED BY <5>1, <5>2
      <4>3. Conveys(f[j] \o EncodeChar(n[j + 1]), Append(u(j), n[j + 1]))
        BY <4>1, <4>2, SentAppend
      <4>4. Conveys(f[j + 1], u(j + 1))
        BY <2>3, <4>1, <4>2, <4>3
      <4> QED BY <4>4 DEF j
    <3> HIDE DEF Conveys
    <3> QED BY <3>1
  <2> HIDE DEF G
  <2>8. Nat \subseteq G
    BY <2>6, <2>7, SetInduction
  <2>9. Conveys(f[Len(n)], u(Len(n)))
    <3>1. Len(n) - 1 \in G /\ Len(n) - 1 + 1 = Len(n)
      BY <1>1, <1>4, <2>8
    <3>2. P(Len(n) - 1)
      BY <3>1 DEF G
    <3> QED BY <1>1, <3>1, <3>2
  <2> QED BY <2>1, <2>4, <2>9 DEF e
<1> QED BY <1>3, <1>4

-----------------------------------------------------------------------------
(* Composition, character by character                                     *)

\* The recursion of Nfc, begun on what is composed already.
Composes(k, n, o, s) ==
  k = [m \in 0 .. n |-> IF m = 0 THEN o ELSE Compose(k[m - 1], s[m])]

\* There is a function that the recursion defines.
LEMMA ComposesExists ==
  ASSUME NEW s, NEW o, NEW N \in Nat
  PROVE  \E k : Composes(k, N, o, s)
<1> DEFINE G == {m \in Nat : \E k : Composes(k, m, o, s)}
<1>1. 0 \in G
  <2>1. Composes([m \in 0 .. 0 |-> o], 0, o, s)
    BY DEF Composes
  <2> QED BY <2>1
<1>2. ASSUME NEW m \in Nat, m \in G PROVE m + 1 \in G
  <2>1. PICK k : Composes(k, m, o, s)
    BY <1>2
  <2> DEFINE h == [n \in 0 .. m + 1 |-> IF n <= m THEN k[n] ELSE Compose(k[n - 1], s[n])]
  <2>2. \A n \in 0 .. m : h[n] = k[n]
    OBVIOUS
  <2>3. \A n \in 0 .. m : k[n] = IF n = 0 THEN o ELSE Compose(k[n - 1], s[n])
    BY <2>1 DEF Composes
  <2>4. \A n \in 0 .. m + 1 : h[n] = IF n = 0 THEN o ELSE Compose(h[n - 1], s[n])
    BY <2>2, <2>3
  <2>5. Composes(h, m + 1, o, s)
    BY <2>4 DEF Composes
  <2> QED BY <2>5
<1> QED BY <1>1, <1>2, SetInduction

\* What has been composed after each character of s, beginning on o.
ComposedUpTo(o, s) == CHOOSE k : Composes(k, Len(s), o, s)
Onto(o, s) == ComposedUpTo(o, s)[Len(s)]

\* It begins on o and goes on one character at a time.
LEMMA ComposedGoes ==
  ASSUME NEW s, NEW o, Len(s) \in Nat
  PROVE  /\ ComposedUpTo(o, s)[0] = o
         /\ \A m \in Nat : m + 1 <= Len(s) =>
              ComposedUpTo(o, s)[m + 1] = Compose(ComposedUpTo(o, s)[m], s[m + 1])
<1> DEFINE k == ComposedUpTo(o, s)
<1>1. Composes(k, Len(s), o, s)
  BY ComposesExists DEF ComposedUpTo
<1> HIDE DEF k
<1>2. \A m \in 0 .. Len(s) : k[m] = IF m = 0 THEN o ELSE Compose(k[m - 1], s[m])
  BY <1>1 DEF Composes
<1>3. k[0] = o
  BY <1>2
<1>4. ASSUME NEW m \in Nat, m + 1 <= Len(s) PROVE k[m + 1] = Compose(k[m], s[m + 1])
  <2>1. m + 1 \in 0 .. Len(s) /\ m + 1 # 0 /\ (m + 1) - 1 = m
    BY <1>4
  <2> QED BY <1>2, <2>1
<1> QED BY <1>3, <1>4 DEF k

\* Nfc begins on nothing.
LEMMA NfcIsOnto ==
  ASSUME NEW s
  PROVE  Nfc(s) = Onto(<<>>, s)
BY DEF Nfc, Onto, ComposedUpTo, Composes

\* Nothing more, and one character more.
LEMMA OntoNothing ==
  ASSUME NEW s, NEW o, Len(s) = 0
  PROVE  Onto(o, s) = o
<1>1. ComposedUpTo(o, s)[0] = o
  BY ComposedGoes
<1> QED BY <1>1 DEF Onto

\* And one character.
LEMMA OntoOne ==
  ASSUME NEW e, NEW o
  PROVE  Onto(o, <<e>>) = Compose(o, e)
<1> DEFINE s == <<e>>
<1>1. Len(s) = 1 /\ s[1] = e
  OBVIOUS
<1> HIDE DEF s
<1> DEFINE k == ComposedUpTo(o, s)
<1>2. k[0] = o /\ \A m \in Nat : m + 1 <= Len(s) => k[m + 1] = Compose(k[m], s[m + 1])
  BY <1>1, ComposedGoes
<1>3. Onto(o, s) = k[1]
  BY <1>1 DEF Onto
<1> HIDE DEF k
<1>4. k[0 + 1] = Compose(k[0], s[0 + 1])
  BY <1>1, <1>2
<1> QED BY <1>1, <1>2, <1>3, <1>4 DEF s

\* What holds of the text composed so far, and is kept by a character of S,
\* holds of it after a text of S.
LEMMA OntoConcat ==
  ASSUME NEW T, NEW s \in Seq(T), NEW t \in Seq(T), NEW o
  PROVE  Onto(o, s \o t) = Onto(Onto(o, s), t)
<1> DEFINE u == s \o t
           p == Onto(o, s)
           a == ComposedUpTo(o, s)
           b == ComposedUpTo(p, t)
           c == ComposedUpTo(o, u)
           l == Len(s)
<1>0. /\ l \in Nat /\ Len(t) \in Nat /\ u \in Seq(T) /\ Len(u) = l + Len(t)
      /\ \A i \in 1 .. l : u[i] = s[i]
      /\ \A i \in 1 .. Len(t) : u[l + i] = t[i]
  OBVIOUS
<1>p. p = a[l]
  BY DEF Onto
<1>l. l = Len(s)
  OBVIOUS
<1>u. Len(u) \in Nat
  BY <1>0
<1> HIDE DEF u, l, p
<1>1. c[0] = o /\ \A n \in Nat : n + 1 <= Len(u) => c[n + 1] = Compose(c[n], u[n + 1])
  BY <1>u, ComposedGoes
<1>2. a[0] = o /\ \A n \in Nat : n + 1 <= l => a[n + 1] = Compose(a[n], s[n + 1])
  <2>1. Len(s) \in Nat
    BY <1>0, <1>l
  <2>2. a[0] = o /\ \A n \in Nat : n + 1 <= Len(s) => a[n + 1] = Compose(a[n], s[n + 1])
    BY <2>1, ComposedGoes
  <2> QED BY <1>l, <2>2
<1>3. b[0] = p /\ \A n \in Nat : n + 1 <= Len(t) => b[n + 1] = Compose(b[n], t[n + 1])
  BY <1>0, ComposedGoes
<1>9. Onto(o, u) = c[Len(u)] /\ Onto(p, t) = b[Len(t)]
  BY DEF Onto
<1> HIDE DEF a, b, c
<1>4. c[l] = a[l]
  <2> DEFINE P(n) == n <= l => c[n] = a[n]
             G == {m \in Nat : P(m)}
  <2>1. 0 \in G
    BY <1>1, <1>2
  <2>2. ASSUME NEW n \in Nat, n \in G PROVE n + 1 \in G
    <3>1. ASSUME n + 1 <= l PROVE c[n + 1] = a[n + 1]
      <4>1. u[n + 1] = s[n + 1] /\ c[n] = a[n] /\ n + 1 <= Len(u)
        BY <1>0, <2>2, <3>1
      <4>2. c[n + 1] = Compose(c[n], u[n + 1])
        BY <1>1, <4>1
      <4>3. a[n + 1] = Compose(a[n], s[n + 1])
        BY <1>2, <3>1
      <4> QED BY <4>1, <4>2, <4>3
    <3> QED BY <3>1
  <2> HIDE DEF G
  <2>3. Nat \subseteq G
    BY <2>1, <2>2, SetInduction
  <2>4. l \in G
    BY <1>0, <2>3
  <2> QED BY <1>0, <2>4 DEF G
<1>5. c[l + Len(t)] = b[Len(t)]
  <2> DEFINE P(n) == n <= Len(t) => c[l + n] = b[n]
             G == {m \in Nat : P(m)}
  <2>1. 0 \in G
    <3>1. c[l + 0] = b[0]
      BY <1>0, <1>3, <1>4, <1>p
    <3> QED BY <3>1
  <2>2. ASSUME NEW n \in Nat, n \in G PROVE n + 1 \in G
    <3>1. ASSUME n + 1 <= Len(t) PROVE c[l + (n + 1)] = b[n + 1]
      <4> DEFINE m == l + n
      <4>1. m \in Nat /\ m + 1 = l + (n + 1) /\ m + 1 <= Len(u) /\ u[m + 1] = t[n + 1]
        BY <1>0, <3>1
      <4>2. c[m] = b[n]
        BY <1>0, <2>2, <3>1
      <4> HIDE DEF m
      <4>3. c[m + 1] = Compose(c[m], u[m + 1])
        BY <1>1, <4>1
      <4>4. b[n + 1] = Compose(b[n], t[n + 1])
        BY <1>3, <3>1
      <4> QED BY <4>1, <4>2, <4>3, <4>4
    <3> QED BY <3>1
  <2> HIDE DEF G
  <2>3. Nat \subseteq G
    BY <2>1, <2>2, SetInduction
  <2>4. Len(t) \in G
    BY <1>0, <2>3
  <2> QED BY <1>0, <2>4 DEF G
<1>6. Onto(o, u) = Onto(p, t)
  BY <1>0, <1>5, <1>9
<1> QED BY <1>6 DEF u, p

\* What a character of C keeps, a text of C keeps: the sets are those of the
\* texts composed so far.
LEMMA OntoStays ==
  ASSUME NEW C, NEW s \in Seq(C), NEW H, NEW o \in H,
         \A h \in H : \A e \in C : Compose(h, e) \in H
  PROVE  Onto(o, s) \in H
<1> DEFINE k == ComposedUpTo(o, s)
           G == {m \in Nat : m <= Len(s) => k[m] \in H}
<1>0. Len(s) \in Nat /\ \A i \in 1 .. Len(s) : s[i] \in C
  OBVIOUS
<1>1. k[0] = o /\ \A m \in Nat : m + 1 <= Len(s) => k[m + 1] = Compose(k[m], s[m + 1])
  BY <1>0, ComposedGoes
<1> HIDE DEF k
<1>2. 0 \in G
  BY <1>1
<1>3. ASSUME NEW m \in Nat, m \in G PROVE m + 1 \in G
  <2>1. ASSUME m + 1 <= Len(s) PROVE k[m + 1] \in H
    <3>1. k[m] \in H /\ s[m + 1] \in C
      BY <1>0, <1>3, <2>1
    <3>2. k[m + 1] = Compose(k[m], s[m + 1])
      BY <1>1, <2>1
    <3> QED BY <3>1, <3>2
  <2> QED BY <2>1
<1> HIDE DEF G
<1>4. Nat \subseteq G
  BY <1>2, <1>3, SetInduction
<1>5. Len(s) \in G
  BY <1>0, <1>4
<1>6. k[Len(s)] \in H
  BY <1>0, <1>5 DEF G
<1> QED BY <1>6 DEF Onto, k

-----------------------------------------------------------------------------
(* What composition keeps                                                  *)

\* What a mark is, and what is composed with it.
LEMMA MarksAre ==
  ASSUME NEW pair \in DOMAIN Composed
  PROVE  /\ pair[2] \notin Ascii /\ pair[2] \notin Accents /\ pair[2] \in Combining
         /\ Composed[pair] \in Chars /\ Composed[pair] \notin Ascii
         /\ Composed[pair] \in Accents => OnTheMac(pair[1]) /\ ~IsJapaneseScript(pair[2])
         /\ pair[2] \notin Accenting => pair[1] \notin Accents /\ Composed[pair] \notin Accents
<1>1. /\ pair[2] \notin Ascii /\ pair[2] \notin Accents
      /\ Composed[pair] \in Chars /\ Composed[pair] \notin Ascii
      /\ Composed[pair] \in Accents => OnTheMac(pair[1]) /\ ~IsJapaneseScript(pair[2])
  BY CharsetAssumption
<1>2. pair[2] \in Combining
  BY DEF Combining
<1>3. ASSUME pair[1] \in Accents \/ Composed[pair] \in Accents PROVE pair[2] \in Accenting
  <2>1. {pair[1], Composed[pair]} \cap Accents # {}
    BY <1>3
  <2> QED BY <2>1 DEF Accenting
<1> QED BY <1>1, <1>2, <1>3

\* A text ends with its last character.
LEMMA FrontLast ==
  ASSUME NEW T, NEW o \in Seq(T), o # <<>>
  PROVE  Front(o) \in Seq(T) /\ Last(o) \in T /\ o = Append(Front(o), Last(o))
<1>1. Len(o) \in Nat /\ Len(o) # 0
  OBVIOUS
<1>2. Front(o) \in Seq(T) /\ Last(o) \in T /\ Len(Front(o)) = Len(o) - 1
      /\ \A i \in 1 .. Len(o) - 1 : Front(o)[i] = o[i]
  <2> DEFINE m == Len(o) - 1
  <2>1. Front(o) = SubSeq(o, 1, m) /\ Last(o) = o[Len(o)]
    BY DEF Front, Last
  <2>2. Len(o) \in 1 .. Len(o) /\ m \in Nat /\ m <= Len(o)
    BY <1>1
  <2>3. o[Len(o)] \in T
    BY <2>2
  <2> HIDE DEF m
  <2>4. SubSeq(o, 1, m) \in Seq(T) /\ Len(SubSeq(o, 1, m)) = m
        /\ \A i \in 1 .. m : SubSeq(o, 1, m)[i] = o[i]
    BY <2>2
  <2> QED BY <2>1, <2>3, <2>4 DEF m
<1> DEFINE a == Append(Front(o), Last(o))
<1>3. a \in Seq(T) /\ Len(a) = Len(o) /\ \A i \in 1 .. Len(o) : a[i] = o[i]
  BY <1>1, <1>2 DEF Last
<1> HIDE DEF a
<1>4. a = o
  BY <1>3
<1> QED BY <1>2, <1>4 DEF a

\* A character is put after the text, or in the place of its last.
LEMMA ComposeIs ==
  ASSUME NEW o \in Seq(Chars), NEW c
  PROVE  \/ /\ o # <<>> /\ <<Last(o), c>> \in DOMAIN Composed
            /\ Compose(o, c) = Append(Front(o), Composed[<<Last(o), c>>])
         \/ /\ o = <<>> \/ <<Last(o), c>> \notin DOMAIN Composed
            /\ Compose(o, c) = Append(o, c)
BY DEF Compose

\* Characters compose to characters,
LEMMA ComposeType ==
  ASSUME NEW o \in Seq(Chars), NEW c \in Chars
  PROVE  Compose(o, c) \in Seq(Chars)
<1>1. CASE o # <<>> /\ <<Last(o), c>> \in DOMAIN Composed
  <2> DEFINE p == <<Last(o), c>>
  <2>1. Composed[p] \in Chars
    BY <1>1, MarksAre
  <2>2. Front(o) \in Seq(Chars)
    BY <1>1, FrontLast
  <2>3. Compose(o, c) = Append(Front(o), Composed[p])
    BY <1>1 DEF Compose
  <2> HIDE DEF p
  <2> QED BY <2>1, <2>2, <2>3
<1>2. CASE ~(o # <<>> /\ <<Last(o), c>> \in DOMAIN Composed)
  <2>1. Compose(o, c) = Append(o, c)
    BY <1>2 DEF Compose
  <2> QED BY <2>1
<1> QED BY <1>1, <1>2

\* and a text to a text.
LEMMA NfcType ==
  ASSUME NEW s \in Seq(Chars)
  PROVE  Nfc(s) \in Seq(Chars)
<1>1. \A h \in Seq(Chars) : \A e \in Chars : Compose(h, e) \in Seq(Chars)
  BY ComposeType
<1> DEFINE H == Seq(Chars)
           n == <<>>
<1>2. n \in H
  OBVIOUS
<1>3. \A h \in H : \A e \in Chars : Compose(h, e) \in H
  BY <1>1
<1> HIDE DEF H, n
<1>4. Onto(n, s) \in H
  BY <1>2, <1>3, OntoStays
<1> QED BY <1>4, NfcIsOnto DEF H, n

\* The letters of the Mac in a text, without its last character.
LEMMA KeptFront ==
  ASSUME NEW o \in Seq(Chars), o # <<>>
  PROVE  Kept(o, Accents) = IF Last(o) \in Accents THEN Append(Kept(Front(o), Accents), Last(o))
                            ELSE Kept(Front(o), Accents)
<1>1. Front(o) \in Seq(Chars) /\ Last(o) \in Chars /\ o = Append(Front(o), Last(o))
  BY FrontLast
<1> DEFINE f == Front(o)
           l == Last(o)
<1> HIDE DEF f, l
<1>2. Kept(Append(f, l), Accents) = IF l \in Accents THEN Append(Kept(f, Accents), l) ELSE Kept(f, Accents)
  BY <1>1, KeptAppend DEF f, l
<1> QED BY <1>1, <1>2 DEF f, l

\* What is kept of a text is a text.
LEMMA KeptChars ==
  ASSUME NEW o \in Seq(Chars)
  PROVE  Kept(o, Accents) \in Seq(Chars)
<1>1. Kept(o, Accents) \in Seq(Chars \cap Accents)
  BY KeptType
<1> QED BY <1>1, SeqMonotonic

\* A character that neither is nor makes a letter of the Mac leaves them as
\* they are.
IsQuiet(c) == c \in Chars /\ c \notin Accents /\ c \notin Accenting

\* Whether it composes or not.
LEMMA QuietKeeps ==
  ASSUME NEW o \in Seq(Chars), NEW c, IsQuiet(c)
  PROVE  Kept(Compose(o, c), Accents) = Kept(o, Accents)
<1>0. c \in Chars /\ c \notin Accents /\ c \notin Accenting
  BY DEF IsQuiet
<1>1. CASE o # <<>> /\ <<Last(o), c>> \in DOMAIN Composed
  <2> DEFINE p == <<Last(o), c>>
             x == Composed[p]
             f == Front(o)
  <2>0. p[1] = Last(o) /\ p[2] = c /\ p \in DOMAIN Composed
    BY <1>1
  <2>1. x \in Chars /\ Last(o) \notin Accents /\ x \notin Accents
    BY <1>0, <2>0, MarksAre
  <2>2. f \in Seq(Chars)
    BY <1>1, FrontLast
  <2>3. Compose(o, c) = Append(f, x)
    BY <1>1 DEF Compose
  <2>4. Kept(o, Accents) = Kept(f, Accents)
    BY <1>1, <2>1, KeptFront
  <2> HIDE DEF p, x, f
  <2>5. Kept(Append(f, x), Accents) = Kept(f, Accents)
    BY <2>1, <2>2, KeptAppend
  <2> QED BY <2>3, <2>4, <2>5
<1>2. CASE ~(o # <<>> /\ <<Last(o), c>> \in DOMAIN Composed)
  <2>1. Compose(o, c) = Append(o, c)
    BY <1>2 DEF Compose
  <2>2. Kept(Append(o, c), Accents) = Kept(o, Accents)
    BY <1>0, KeptAppend
  <2> QED BY <2>1, <2>2
<1> QED BY <1>1, <1>2

\* Nor does a text of such characters.
LEMMA QuietRun ==
  ASSUME NEW o \in Seq(Chars), NEW Q, \A c \in Q : IsQuiet(c), NEW w \in Seq(Q)
  PROVE  Onto(o, w) \in Seq(Chars) /\ Kept(Onto(o, w), Accents) = Kept(o, Accents)
<1> DEFINE k == Kept(o, Accents)
           H == {h \in Seq(Chars) : Kept(h, Accents) = k}
<1>1. o \in H
  OBVIOUS
<1> HIDE DEF k
<1>2. ASSUME NEW h \in H, NEW c \in Q PROVE Compose(h, c) \in H
  <2>1. IsQuiet(c) /\ c \in Chars /\ h \in Seq(Chars) /\ Kept(h, Accents) = k
    BY DEF IsQuiet
  <2>2. Compose(h, c) \in Seq(Chars)
    BY <2>1, ComposeType
  <2>3. Kept(Compose(h, c), Accents) = Kept(h, Accents)
    BY <2>1, QuietKeeps
  <2> QED BY <2>1, <2>2, <2>3
<1> HIDE DEF H
<1>3. Onto(o, w) \in H
  BY <1>1, <1>2, OntoStays
<1> QED BY <1>3 DEF H, k

-----------------------------------------------------------------------------
(* Two texts with the same letters of the Mac                              *)

Alike(a, b) ==
  a \in Seq(Chars) /\ b \in Seq(Chars) /\ Kept(a, Accents) = Kept(b, Accents)

\* Their last characters, on which the next may compose.
SameLast(a, b) ==
  \/ a = <<>> /\ b = <<>>
  \/ a # <<>> /\ b # <<>> /\ Last(a) = Last(b)

\* The same character put after both.
LEMMA AlikeAppend ==
  ASSUME NEW a, NEW b, Alike(a, b), NEW c \in Chars
  PROVE  Alike(Append(a, c), Append(b, c)) /\ SameLast(Append(a, c), Append(b, c))
<1>1. a \in Seq(Chars) /\ b \in Seq(Chars) /\ Kept(a, Accents) = Kept(b, Accents)
  BY DEF Alike
<1> DEFINE p == Append(a, c)
           q == Append(b, c)
<1>2. Kept(p, Accents) = IF c \in Accents THEN Append(Kept(a, Accents), c) ELSE Kept(a, Accents)
  BY <1>1, KeptAppend
<1>3. Kept(q, Accents) = IF c \in Accents THEN Append(Kept(b, Accents), c) ELSE Kept(b, Accents)
  BY <1>1, KeptAppend
<1>4. p \in Seq(Chars) /\ q \in Seq(Chars)
  BY <1>1
<1>5. p # <<>> /\ q # <<>> /\ Last(p) = c /\ Last(q) = c
  BY <1>1 DEF Last
<1> HIDE DEF p, q
<1>6. Alike(p, q)
  BY <1>1, <1>2, <1>3, <1>4 DEF Alike
<1>7. SameLast(p, q)
  BY <1>5 DEF SameLast
<1> QED BY <1>6, <1>7 DEF p, q

\* The texts without their last character, when it is the same.
LEMMA AlikeFront ==
  ASSUME NEW a, NEW b, Alike(a, b), a # <<>>, b # <<>>, Last(a) = Last(b)
  PROVE  Alike(Front(a), Front(b))
<1> DEFINE l == Last(a)
           f == Kept(Front(a), Accents)
           g == Kept(Front(b), Accents)
<1>1. a \in Seq(Chars) /\ b \in Seq(Chars) /\ Kept(a, Accents) = Kept(b, Accents)
  BY DEF Alike
<1>2. Front(a) \in Seq(Chars) /\ Front(b) \in Seq(Chars)
  BY <1>1, FrontLast
<1>3. Kept(a, Accents) = IF l \in Accents THEN Append(f, l) ELSE f
  BY <1>1, KeptFront
<1>4. Kept(b, Accents) = IF l \in Accents THEN Append(g, l) ELSE g
  BY <1>1, KeptFront
<1>5. f \in Seq(Chars) /\ g \in Seq(Chars) /\ l \in Chars
  BY <1>1, <1>2, KeptChars, FrontLast
<1> HIDE DEF f, g, l
<1>6. f = g
  <2>1. CASE l \in Accents
    <3>1. Append(f, l) = Append(g, l)
      BY <1>1, <1>3, <1>4, <2>1
    <3> QED BY <1>5, <3>1, AppendProperties
  <2>2. CASE l \notin Accents
    BY <1>1, <1>3, <1>4, <2>2
  <2> QED BY <2>1, <2>2
<1> QED BY <1>2, <1>6 DEF Alike, f, g

\* The next character: what is composed keeps alike, and ends alike if the
\* character is no mark of Japanese.
LEMMA AlikeStep ==
  ASSUME NEW a, NEW b, Alike(a, b), NEW c \in Chars, c \in Accenting => SameLast(a, b)
  PROVE  /\ Alike(Compose(a, c), Compose(b, c))
         /\ c \in Combining \ Accenting \/ SameLast(Compose(a, c), Compose(b, c))
<1>0. a \in Seq(Chars) /\ b \in Seq(Chars) /\ Kept(a, Accents) = Kept(b, Accents)
  BY DEF Alike
<1>1. CASE c \notin Combining
  <2>1. <<Last(a), c>> \notin DOMAIN Composed /\ <<Last(b), c>> \notin DOMAIN Composed
    <3>1. ASSUME NEW x, <<x, c>> \in DOMAIN Composed PROVE FALSE
      <4>1. <<x, c>>[2] \in Combining
        BY <3>1, MarksAre
      <4> QED BY <1>1, <4>1
    <3> QED BY <3>1
  <2>2. Compose(a, c) = Append(a, c) /\ Compose(b, c) = Append(b, c)
    BY <2>1 DEF Compose
  <2> QED BY <2>2, AlikeAppend
<1>2. CASE c \in Combining \ Accenting
  <2>1. c \notin Accents
    <3>1. PICK p \in DOMAIN Composed : p[2] = c
      BY <1>2 DEF Combining
    <3> QED BY <3>1, MarksAre
  <2>2. IsQuiet(c)
    BY <1>2, <2>1 DEF IsQuiet
  <2>3. Kept(Compose(a, c), Accents) = Kept(a, Accents)
    BY <1>0, <2>2, QuietKeeps
  <2>4. Kept(Compose(b, c), Accents) = Kept(b, Accents)
    BY <1>0, <2>2, QuietKeeps
  <2>5. Compose(a, c) \in Seq(Chars) /\ Compose(b, c) \in Seq(Chars)
    BY <1>0, ComposeType
  <2>6. Alike(Compose(a, c), Compose(b, c))
    BY <1>0, <2>3, <2>4, <2>5 DEF Alike
  <2> QED BY <1>2, <2>6
<1>3. CASE c \in Accenting
  <2>0. SameLast(a, b)
    BY <1>3
  <2>1. CASE a # <<>> /\ b # <<>> /\ Last(a) = Last(b) /\ <<Last(a), c>> \in DOMAIN Composed
    <3> DEFINE x == Composed[<<Last(a), c>>]
    <3>1. Compose(a, c) = Append(Front(a), x) /\ Compose(b, c) = Append(Front(b), x)
      BY <2>1 DEF Compose
    <3>2. x \in Chars
      BY <2>1, MarksAre
    <3>3. Alike(Front(a), Front(b))
      BY <2>1, AlikeFront
    <3> HIDE DEF x
    <3> QED BY <3>1, <3>2, <3>3, AlikeAppend
  <2>2. CASE ~(a # <<>> /\ b # <<>> /\ Last(a) = Last(b) /\ <<Last(a), c>> \in DOMAIN Composed)
    <3>1. Compose(a, c) = Append(a, c) /\ Compose(b, c) = Append(b, c)
      BY <2>0, <2>2 DEF Compose, SameLast
    <3> QED BY <3>1, AlikeAppend
  <2> QED BY <2>1, <2>2
<1> QED BY <1>1, <1>2, <1>3

-----------------------------------------------------------------------------
(* The words of a text                                                     *)

\* The largest of some places.
LEMMA LargestIs ==
  ASSUME NEW n \in Nat, NEW S, S \subseteq 1 .. n, S # {}
  PROVE  Max(S) \in S
<1> DEFINE B == {k \in Nat : \A y \in S : y <= k}
<1>1. n \in B
  OBVIOUS
<1>2. PICK k \in B : \A y \in B : k <= y
  <2> HIDE DEF B
  <2>1. B \subseteq Nat
    BY DEF B
  <2> QED BY <1>1, <2>1, Least
<1>3. k \in S
  <2> SUFFICES ASSUME k \notin S PROVE FALSE
    OBVIOUS
  <2>1. k \in Nat /\ \A y \in S : y \in Nat /\ y >= 1 /\ y <= k /\ y # k
    OBVIOUS
  <2>2. PICK z \in S : TRUE
    OBVIOUS
  <2>3. k - 1 \in Nat
    BY <2>1, <2>2
  <2>4. k - 1 \in B
    BY <2>1, <2>3
  <2>5. k <= k - 1
    BY <1>2, <2>4
  <2> QED BY <2>1, <2>5
<1>4. \A y \in S : k >= y
  BY <1>2
<1>5. \E x \in S : \A y \in S : x >= y
  BY <1>3, <1>4
<1> QED BY <1>5 DEF Max

\* A word that begins at i.
LEMMA TakenIs ==
  ASSUME NEW s \in Seq(Chars), NEW i \in 1 .. Len(s)
  PROVE  /\ Taken(s, i) \in 1 .. Len(s) - i + 1
         /\ Hits(s, i) # {} => SubSeq(s, i, i + Taken(s, i) - 1) \in DOMAIN Romaji
<1>0. Len(s) \in Nat /\ Len(s) - i + 1 \in Nat /\ 1 \in 1 .. Len(s) - i + 1
  OBVIOUS
<1>1. CASE Hits(s, i) = {}
  <2>1. Taken(s, i) = 1
    BY <1>1 DEF Taken
  <2> QED BY <1>0, <1>1, <2>1
<1>2. CASE Hits(s, i) # {}
  <2>1. Hits(s, i) \subseteq 1 .. Len(s) - i + 1
    BY DEF Hits
  <2>2. Max(Hits(s, i)) \in Hits(s, i)
    BY <1>0, <1>2, <2>1, LargestIs
  <2>3. Taken(s, i) \in Hits(s, i)
    BY <1>2, <2>2 DEF Taken
  <2> QED BY <2>3 DEF Hits
<1> QED BY <1>1, <1>2

QuietChars == {c \in Chars : IsQuiet(c)}

\* By definition.
LEMMA QuietAre == \A c \in QuietChars : IsQuiet(c)
BY DEF QuietChars

\* ASCII is quiet: it is no letter of the table, and no mark.
LEMMA AsciiIsQuiet == Ascii \subseteq QuietChars
<1>1. ASSUME NEW c \in Ascii PROVE c \in QuietChars
  <2>1. c \in Chars
    <3>1. c \in Nat /\ c < 128
      BY AsciiIs
    <3>2. c <= 65535
      BY <3>1
    <3> QED BY <3>1, <3>2, CharsAre
  <2>2. c \notin Accents
    BY AsciiIsPlain
  <2>3. ASSUME c \in Accenting PROVE FALSE
    <3>1. PICK p \in DOMAIN Composed : p[2] = c
      BY <2>3 DEF Accenting
    <3> QED BY <3>1, MarksAre
  <2> QED BY <2>1, <2>2, <2>3 DEF QuietChars, IsQuiet
<1> QED BY <1>1

\* Where a word begins, the text and what is spelled of it have no letters of
\* the Mac, and end on a character of the word.
LEMMA WordIs ==
  ASSUME NEW s \in Seq(Chars), NEW i \in 1 .. Len(s), Hits(s, i) # {}
  PROVE  /\ SubSeq(s, i, i + Taken(s, i) - 1) \in Seq(QuietChars)
         /\ Spelled(s, i) \in Seq(QuietChars)
         /\ s[i + Taken(s, i) - 1] \in Kana
<1> DEFINE t == Taken(s, i)
           u == SubSeq(s, i, i + t - 1)
           r == Romaji[u]
           g == Gap(s, i + t)
<1>0. Len(s) \in Nat
  OBVIOUS
<1>1. t \in 1 .. Len(s) - i + 1 /\ u \in DOMAIN Romaji
  BY TakenIs
<1>s. Spelled(s, i) = r \o g
  BY DEF Spelled
<1> HIDE DEF t
<1>2. u \in Seq(Chars) /\ Len(u) = t /\ \A j \in 1 .. t : u[j] = s[i + j - 1] /\ u[j] \in Chars
  <2>1. i \in Nat /\ i >= 1 /\ t \in Nat /\ t >= 1 /\ i + t - 1 \in Nat /\ i + t - 1 <= Len(s)
    BY <1>0, <1>1
  <2>2. Len(u) = t /\ \A j \in 1 .. t : u[j] = s[i + j - 1]
    BY <2>1
  <2>3. u \in Seq(Chars)
    BY <2>1
  <2> HIDE DEF u
  <2> QED BY <2>2, <2>3
<1> HIDE DEF u, r, g
<1>3. ASSUME NEW j \in 1 .. t PROVE u[j] \in QuietChars
  <2>1. u[j] \notin Accents \cup Accenting /\ u[j] \in Chars
    BY <1>1, <1>2, CharsetAssumption
  <2> QED BY <2>1 DEF QuietChars, IsQuiet
<1>4. u \in Seq(QuietChars)
  BY <1>2, <1>3
<1>5. r \in Seq(Ascii)
  BY <1>1, CharsetAssumption DEF r
<1>6. g \in Seq(Ascii)
  <2>1. Space \in Ascii
    BY AsciiIs DEF Space
  <2>2. g = <<Space>> \/ g = <<>>
    BY DEF g, Gap
  <2>3. <<Space>> \in Seq(Ascii) /\ <<>> \in Seq(Ascii)
    BY <2>1
  <2> QED BY <2>2, <2>3
<1>7. r \in Seq(QuietChars) /\ g \in Seq(QuietChars)
  BY <1>5, <1>6, AsciiIsQuiet, SeqMonotonic
<1>8. r \o g \in Seq(QuietChars)
  BY <1>7
<1>9. s[i + t - 1] \in Kana
  <2>1. t \in 1 .. t /\ u[t] = s[i + t - 1]
    BY <1>1, <1>2
  <2>2. t \in DOMAIN u
    BY <1>2, <2>1
  <2>3. u[t] \in ToSet(u)
    BY <2>2 DEF ToSet
  <2>4. u[t] \in Kana
    BY <1>1, <2>3 DEF Kana
  <2> QED BY <2>1, <2>4
<1> QED BY <1>4, <1>8, <1>9, <1>s DEF t, u

-----------------------------------------------------------------------------
(* A text and its romanization                                             *)

\* What comes first, and what comes after it.
LEMMA AfterIs ==
  ASSUME NEW s \in Seq(Chars), NEW i \in 1 .. Len(s), NEW t \in 1 .. Len(s) - i + 1
  PROVE  /\ SubSeq(s, i, i + t - 1) \in Seq(Chars)
         /\ After(s, i + t) \in Seq(Chars)
         /\ After(s, i) = SubSeq(s, i, i + t - 1) \o After(s, i + t)
<1> DEFINE n == Len(s)
           m == n - i + 1
           a == SubSeq(s, i, i + t - 1)
           b == SubSeq(s, i + t, n)
           c == SubSeq(s, i, n)
           d == a \o b
<1>0. n \in Nat /\ i \in Nat /\ i >= 1 /\ i <= n /\ t \in Nat /\ t >= 1 /\ i + t - 1 <= n
      /\ m \in Nat /\ m - t \in Nat
  OBVIOUS
<1>1. a \in Seq(Chars) /\ Len(a) = t /\ \A j \in 1 .. t : a[j] = s[i + j - 1]
  BY <1>0
<1>2. b \in Seq(Chars) /\ Len(b) = m - t /\ \A j \in 1 .. m - t : b[j] = s[i + t + j - 1]
  BY <1>0
<1>3. c \in Seq(Chars) /\ Len(c) = m /\ \A j \in 1 .. m : c[j] = s[i + j - 1]
  BY <1>0
<1>A. After(s, i + t) = b /\ After(s, i) = c
  BY DEF After
<1> HIDE DEF a, b, c
<1>4. d \in Seq(Chars) /\ Len(d) = m
      /\ \A j \in 1 .. m : d[j] = IF j <= t THEN a[j] ELSE b[j - t]
  <2>1. d \in Seq(Chars) /\ Len(d) = Len(a) + Len(b)
        /\ \A j \in 1 .. Len(a) + Len(b) : d[j] = IF j <= Len(a) THEN a[j] ELSE b[j - Len(a)]
    BY <1>1, <1>2, ConcatProperties
  <2>2. Len(a) + Len(b) = m /\ Len(a) = t
    BY <1>0, <1>1, <1>2
  <2> HIDE DEF d, m
  <2> QED BY <2>1, <2>2
<1> HIDE DEF d, m
<1>5. ASSUME NEW j \in 1 .. m PROVE d[j] = c[j]
  <2>1. CASE j <= t
    <3>1. j \in 1 .. t
      BY <1>0, <2>1
    <3> QED BY <1>1, <1>3, <1>4, <2>1, <3>1
  <2>2. CASE ~(j <= t)
    <3>1. j - t \in 1 .. m - t /\ i + t + (j - t) - 1 = i + j - 1
      BY <1>0, <2>2
    <3>2. b[j - t] = s[i + t + (j - t) - 1]
      BY <1>2, <3>1
    <3> QED BY <1>3, <1>4, <2>2, <3>1, <3>2
  <2> QED BY <2>1, <2>2
<1>6. d = c
  BY SMTT(40), <1>3, <1>4, <1>5
<1> QED BY <1>1, <1>2, <1>6, <1>A DEF d, a

\* What the reader of words makes of the rest of s from i on, when what is
\* composed before it is a of the text and b of the romanized text.
Follows(s, i, a, b) ==
  /\ Alike(a, b)
  /\ SameLast(a, b) \/ (i > 1 /\ s[i - 1] \in Kana)

\* The marks of Japanese are among its characters.
LEMMA MarksAreKana == Combining \ Accenting \subseteq Kana
BY DEF Kana

\* Composed on texts with the same letters, the rest of s and r have the same.
MatchesRest(s, i, r) ==
  /\ r \in Seq(Chars)
  /\ \A a, b : Follows(s, i, a, b) =>
       Kept(Onto(a, After(s, i)), Accents) = Kept(Onto(b, r), Accents)

\* The end of the text.
LEMMA MatchesNothing ==
  ASSUME NEW s \in Seq(Chars)
  PROVE  MatchesRest(s, Len(s) + 1, <<>>)
<1> DEFINE i == Len(s) + 1
           e == <<>>
<1>1. After(s, i) = e /\ Len(e) = 0 /\ e \in Seq(Chars)
  BY DEF After
<1> HIDE DEF i, e
<1>2. ASSUME NEW a, NEW b, Follows(s, i, a, b)
      PROVE  Kept(Onto(a, After(s, i)), Accents) = Kept(Onto(b, e), Accents)
  <2>1. Onto(a, e) = a /\ Onto(b, e) = b
    BY <1>1, OntoNothing
  <2> QED BY <1>1, <1>2, <2>1 DEF Follows, Alike
<1>3. MatchesRest(s, i, e)
  BY <1>1, <1>2 DEF MatchesRest
<1> QED BY <1>3 DEF i, e

\* A word, or a character that begins none, and what follows it.
LEMMA MatchesMore ==
  ASSUME NEW s, Writable(s), HasJapanese(s), NEW i \in 1 .. Len(s), NEW r,
         MatchesRest(s, i + Taken(s, i), r)
  PROVE  MatchesRest(s, i, Spelled(s, i) \o r)
<1> DEFINE t == Taken(s, i)
           u == SubSeq(s, i, i + t - 1)
           v == After(s, i + t)
           w == Spelled(s, i)
<1>0. s \in Seq(Chars)
      /\ \A j \in 1 .. Len(s) - 1 : s[j + 1] \in Accenting => s[j] \notin Kana
  BY DEF Writable
<1>n. Len(s) \in Nat /\ s[i] \in Chars
  BY <1>0
<1>1. t \in 1 .. Len(s) - i + 1
  BY <1>0, TakenIs
<1> HIDE DEF t
<1>2. u \in Seq(Chars) /\ v \in Seq(Chars) /\ After(s, i) = u \o v
  BY <1>0, <1>1, AfterIs
<1>3. r \in Seq(Chars)
      /\ \A a, b : Follows(s, i + t, a, b) => Kept(Onto(a, v), Accents) = Kept(Onto(b, r), Accents)
  BY DEF MatchesRest, t
<1>4. Hits(s, i) # {} => u \in Seq(QuietChars) /\ w \in Seq(QuietChars) /\ s[i + t - 1] \in Kana
  BY <1>0, WordIs DEF t
<1>5. ASSUME Hits(s, i) = {} PROVE t = 1 /\ u = <<s[i]>> /\ w = <<s[i]>>
  <2>1. t = 1 /\ w = <<s[i]>>
    BY <1>5 DEF t, Taken, Spelled
  <2>2. SubSeq(s, i, i) = <<s[i]>>
    <3> DEFINE c == s[i]
    <3>1. SubSeq(s, i, i) = [j \in 1 .. 1 |-> c]
      BY <1>0, <1>n
    <3> HIDE DEF c
    <3>2. [j \in 1 .. 1 |-> c] = <<c>>
      OBVIOUS
    <3> QED BY <3>1, <3>2 DEF c
  <2>3. i + t - 1 = i
    BY <2>1
  <2> QED BY <2>1, <2>2, <2>3
<1>6. QuietChars \subseteq Chars
  BY DEF QuietChars
<1> HIDE DEF u, v, w
<1>7. w \in Seq(Chars)
  <2>1. CASE Hits(s, i) = {}
    <3> DEFINE c == s[i]
    <3>1. c \in Chars /\ w = <<c>>
      BY <1>5, <1>n, <2>1
    <3> HIDE DEF c
    <3> QED BY <3>1
  <2>2. CASE Hits(s, i) # {}
    BY <1>4, <1>6, <2>2, SeqMonotonic
  <2> QED BY <2>1, <2>2
<1>8. ASSUME NEW a, NEW b, Follows(s, i, a, b)
      PROVE  Follows(s, i + t, Onto(a, u), Onto(b, w))
  <2>0. Alike(a, b) /\ (SameLast(a, b) \/ (i > 1 /\ s[i - 1] \in Kana))
    BY <1>8 DEF Follows
  <2>a. a \in Seq(Chars) /\ b \in Seq(Chars) /\ Kept(a, Accents) = Kept(b, Accents)
    BY <2>0 DEF Alike
  <2>1. CASE Hits(s, i) # {}
    <3>1. Onto(a, u) \in Seq(Chars) /\ Kept(Onto(a, u), Accents) = Kept(a, Accents)
      BY <1>4, <2>1, <2>a, QuietAre, QuietRun
    <3>2. Onto(b, w) \in Seq(Chars) /\ Kept(Onto(b, w), Accents) = Kept(b, Accents)
      BY <1>4, <2>1, <2>a, QuietAre, QuietRun
    <3>3. Alike(Onto(a, u), Onto(b, w))
      BY <2>a, <3>1, <3>2 DEF Alike
    <3>4. i + t > 1 /\ s[i + t - 1] \in Kana
      BY <1>1, <1>4, <2>1
    <3> DEFINE p == Onto(a, u)
               q == Onto(b, w)
               j == i + t
    <3>5. Alike(p, q) /\ j > 1 /\ s[j - 1] \in Kana
      <4>1. j - 1 = i + t - 1
        BY <1>1
      <4> HIDE DEF j
      <4> QED BY <3>3, <3>4, <4>1 DEF j
    <3> HIDE DEF p, q, j
    <3>6. Follows(s, j, p, q)
      BY <3>5 DEF Follows
    <3> QED BY <3>6 DEF p, q, j
  <2>2. CASE Hits(s, i) = {}
    <3> DEFINE c == s[i]
    <3>1. t = 1 /\ u = <<c>> /\ w = <<c>> /\ c \in Chars
      BY <1>5, <1>n, <2>2
    <3>2. ASSUME c \in Accenting PROVE SameLast(a, b)
      <4>1. ASSUME i > 1 PROVE s[i - 1] \notin Kana
        <5>1. i - 1 \in 1 .. Len(s) - 1 /\ (i - 1) + 1 = i
          BY <1>n, <4>1
        <5> QED BY <1>0, <3>2, <5>1
      <4> QED BY <2>0, <4>1
    <3>c. i + t > 1 /\ s[i + t - 1] = c
      <4>1. i + 1 > 1 /\ i + 1 - 1 = i
        OBVIOUS
      <4> QED BY <3>1, <4>1
    <3>d. c \in Combining \ Accenting => c \in Kana
      BY MarksAreKana
    <3> HIDE DEF c
    <3>3. /\ Alike(Compose(a, c), Compose(b, c))
          /\ c \in Combining \ Accenting \/ SameLast(Compose(a, c), Compose(b, c))
      BY <2>0, <3>1, <3>2, AlikeStep
    <3>4. Onto(a, u) = Compose(a, c) /\ Onto(b, w) = Compose(b, c)
      BY <3>1, OntoOne
    <3> DEFINE p == Onto(a, u)
               q == Onto(b, w)
               j == i + t
    <3>5. Alike(p, q) /\ (SameLast(p, q) \/ (j > 1 /\ s[j - 1] \in Kana))
      <4>1. j - 1 = i + t - 1
        BY <3>1
      <4>2. j > 1 /\ s[j - 1] = c
        <5> HIDE DEF j
        <5> QED BY <3>c, <4>1 DEF j
      <4> HIDE DEF j
      <4> QED BY <3>3, <3>4, <3>d, <4>2
    <3> HIDE DEF p, q, j
    <3>6. Follows(s, j, p, q)
      BY <3>5 DEF Follows
    <3> QED BY <3>6 DEF p, q, j
  <2> QED BY <2>1, <2>2
<1>9. ASSUME NEW a, NEW b, Follows(s, i, a, b)
      PROVE  Kept(Onto(a, After(s, i)), Accents) = Kept(Onto(b, w \o r), Accents)
  <2>1. Follows(s, i + t, Onto(a, u), Onto(b, w))
    BY <1>8, <1>9
  <2>2. Kept(Onto(Onto(a, u), v), Accents) = Kept(Onto(Onto(b, w), r), Accents)
    BY <1>3, <2>1
  <2>3. Onto(a, u \o v) = Onto(Onto(a, u), v)
    BY <1>2, OntoConcat
  <2>4. Onto(b, w \o r) = Onto(Onto(b, w), r)
    BY <1>3, <1>7, OntoConcat
  <2> QED BY <1>2, <2>2, <2>3, <2>4
<1>10. w \o r \in Seq(Chars)
  BY <1>3, <1>7
<1>11. MatchesRest(s, i, w \o r)
  BY <1>9, <1>10 DEF MatchesRest
<1> QED BY <1>11 DEF w

\* The whole text.
LEMMA RomanizedKeeps ==
  ASSUME NEW s, Writable(s), HasJapanese(s)
  PROVE  /\ RomanizeJapanese(s) \in Seq(Chars)
         /\ Kept(Nfc(RomanizeJapanese(s)), Accents) = Kept(Nfc(s), Accents)
<1> DEFINE n == Len(s)
           made == [i \in 1 .. n |-> Spelled(s, i)]
           taken == [i \in 1 .. n |-> Taken(s, i)]
           w == Walked(made, taken)
<1>0. s \in Seq(Chars) /\ n \in Nat
  BY DEF Writable
<1>1. Len(made) = n /\ \A i \in 1 .. n : made[i] = Spelled(s, i) /\ taken[i] = Taken(s, i)
  <2>1. \A i \in 1 .. n : made[i] = Spelled(s, i) /\ taken[i] = Taken(s, i)
    OBVIOUS
  <2>2. made \in [1 .. n -> {Spelled(s, i) : i \in 1 .. n}]
    OBVIOUS
  <2> HIDE DEF made, taken
  <2>3. Len(made) = n
    BY <1>0, <2>2, FunctionIsSeq
  <2> QED BY <2>1, <2>3
<1>2. RomanizeJapanese(s) = Walk(made, taken)
  BY DEF RomanizeJapanese
<1>L. n = Len(s)
  OBVIOUS
<1> HIDE DEF made, taken, n
<1>3. ASSUME NEW i \in 1 .. n
      PROVE  taken[i] \in Nat \ {0} /\ i + taken[i] <= n + 1
  <2>1. Taken(s, i) \in 1 .. n - i + 1
    BY <1>0, <1>L, TakenIs
  <2>2. taken[i] = Taken(s, i)
    BY <1>1
  <2> QED BY <1>0, <2>1, <2>2
<1>4. Strides(taken, n)
  BY <1>3 DEF Strides
<1>5. Walk(made, taken) = w[1] /\ w[n + 1] = <<>>
      /\ \A i \in 1 .. n : w[i] = made[i] \o w[i + taken[i]]
  <2>1. Walk(made, taken) = w[1]
    <3>1. Len(made) = n
      BY <1>1
    <3> QED BY <1>0, <1>4, <3>1, WalkGoes
  <2>2. Walked(made, taken)[n + 1] = <<>>
    <3>1. Len(made) = n
      BY <1>1
    <3> QED BY <1>0, <1>4, <3>1, WalkGoes
  <2>3. ASSUME NEW i \in 1 .. n
        PROVE  Walked(made, taken)[i] = made[i] \o Walked(made, taken)[i + taken[i]]
    <3>1. Len(made) = n
      BY <1>1
    <3> QED BY ZenonT(60), <1>0, <1>4, <3>1, WalkGoes
  <2> QED BY <2>1, <2>2, <2>3
<1> HIDE DEF w
<1> DEFINE P(d) == d <= n => MatchesRest(s, n + 1 - d, w[n + 1 - d])
           G == {m \in Nat : \A d \in 0 .. m : P(d)}
<1>6. 0 \in G
  <2>1. MatchesRest(s, n + 1, w[n + 1])
    BY <1>0, <1>5, <1>L, MatchesNothing
  <2>2. n + 1 - 0 = n + 1
    BY <1>0
  <2>3. P(0)
    BY <2>1, <2>2
  <2> QED BY <2>3
<1>7. ASSUME NEW m \in Nat, m \in G PROVE m + 1 \in G
  <2>1. ASSUME m + 1 <= n PROVE MatchesRest(s, n + 1 - (m + 1), w[n + 1 - (m + 1)])
    <3> DEFINE i == n + 1 - (m + 1)
               j == i + taken[i]
    <3>1. i \in 1 .. n
      BY <1>0, <2>1
    <3>2. taken[i] \in Nat \ {0} /\ j <= n + 1
      BY <1>3, <3>1
    <3>3. n + 1 - j \in 0 .. m /\ n + 1 - j <= n /\ n + 1 - (n + 1 - j) = j
      BY <1>0, <3>1, <3>2, <2>1
    <3>4. P(n + 1 - j)
      BY <1>7, <3>3
    <3>5. MatchesRest(s, j, w[j])
      BY <3>3, <3>4
    <3> HIDE DEF i
    <3>6. taken[i] = Taken(s, i) /\ made[i] = Spelled(s, i) /\ w[i] = made[i] \o w[j]
      BY <1>1, <1>5, <3>1
    <3>7. MatchesRest(s, i, Spelled(s, i) \o w[j])
      <4>1. MatchesRest(s, i + Taken(s, i), w[j])
        BY <3>5, <3>6
      <4> HIDE DEF j
      <4> QED BY <1>L, <3>1, <4>1, MatchesMore
    <3>8. MatchesRest(s, i, w[i])
      BY <3>6, <3>7
    <3> QED BY <3>8 DEF i
  <2>2. P(m + 1)
    BY <2>1
  <2>3. \A d \in 0 .. m : P(d)
    BY <1>7
  <2> HIDE DEF P
  <2>4. \A d \in 0 .. m + 1 : d \in 0 .. m \/ d = m + 1
    OBVIOUS
  <2> QED BY <2>2, <2>3, <2>4
<1>8. MatchesRest(s, 1, w[1])
  <2> HIDE DEF G
  <2>1. Nat \subseteq G
    BY <1>6, <1>7, SetInduction
  <2>2. n \in G
    BY <1>0, <2>1
  <2> USE DEF G
  <2>3. n \in 0 .. n /\ n <= n /\ n + 1 - n = 1
    BY <1>0
  <2>4. P(n)
    BY <2>2, <2>3
  <2> QED BY <2>3, <2>4
<1>9. After(s, 1) = s
  BY <1>0 DEF After
<1>10. Follows(s, 1, <<>>, <<>>)
  <2> DEFINE e == <<>>
  <2>1. e \in Seq(Chars) /\ e = <<>>
    OBVIOUS
  <2> HIDE DEF e
  <2>2. Follows(s, 1, e, e)
    BY <2>1 DEF Follows, Alike, SameLast
  <2> QED BY <2>2 DEF e
<1>11. w[1] \in Seq(Chars) /\ Kept(Onto(<<>>, s), Accents) = Kept(Onto(<<>>, w[1]), Accents)
  BY <1>8, <1>9, <1>10 DEF MatchesRest
<1> QED BY <1>2, <1>5, <1>11, NfcIsOnto

-----------------------------------------------------------------------------
(* A text with Japanese is not all on the Mac                              *)

HasOther(o) == \E i \in 1 .. Len(o) : ~OnTheMac(o[i])

\* It is among the first, or it is the last.
LEMMA OtherAppend ==
  ASSUME NEW f \in Seq(Chars), NEW x \in Chars
  PROVE  HasOther(Append(f, x)) <=> HasOther(f) \/ ~OnTheMac(x)
<1> DEFINE a == Append(f, x)
           n == Len(f)
<1>1. n \in Nat /\ Len(a) = n + 1 /\ a[n + 1] = x /\ \A i \in 1 .. n : a[i] = f[i]
  OBVIOUS
<1>2. n = Len(f)
  OBVIOUS
<1> HIDE DEF a, n
<1>3. ASSUME HasOther(a) PROVE HasOther(f) \/ ~OnTheMac(x)
  <2>1. PICK i \in 1 .. n + 1 : ~OnTheMac(a[i])
    BY <1>1, <1>3 DEF HasOther
  <2>2. CASE i = n + 1
    BY <1>1, <2>1, <2>2
  <2>3. CASE i # n + 1
    <3>1. i \in 1 .. n
      BY <1>1, <2>3
    <3>2. ~OnTheMac(f[i])
      BY <1>1, <2>1, <3>1
    <3> QED BY <1>2, <3>1, <3>2 DEF HasOther
  <2> QED BY <2>2, <2>3
<1>4. ASSUME HasOther(f) PROVE HasOther(a)
  <2>1. PICK i \in 1 .. n : ~OnTheMac(f[i])
    BY <1>2, <1>4 DEF HasOther
  <2>2. i \in 1 .. n + 1 /\ ~OnTheMac(a[i])
    BY <1>1, <2>1
  <2> QED BY <1>1, <2>2 DEF HasOther
<1>5. ASSUME ~OnTheMac(x) PROVE HasOther(a)
  <2>1. n + 1 \in 1 .. n + 1 /\ ~OnTheMac(a[n + 1])
    BY <1>1, <1>5
  <2> QED BY <1>1, <2>1 DEF HasOther
<1> QED BY <1>3, <1>4, <1>5 DEF a

\* What is composed is not ASCII.
LEMMA NotAscii ==
  ASSUME NEW x \in Chars, x \notin Ascii, x \notin Accents
  PROVE  ~OnTheMac(x)
<1>1. x \in Nat /\ ~(x < 128)
  BY AsciiIs, CharsAre
<1> QED BY <1>1 DEF OnTheMac

\* A character that a Mac does not have stays one whatever is composed on it,
LEMMA OtherStays ==
  ASSUME NEW o \in Seq(Chars), HasOther(o), NEW c \in Chars
  PROVE  HasOther(Compose(o, c))
<1>1. CASE o # <<>> /\ <<Last(o), c>> \in DOMAIN Composed
  <2> DEFINE p == <<Last(o), c>>
             x == Composed[p]
             f == Front(o)
             l == Last(o)
  <2>0. p[1] = l /\ p \in DOMAIN Composed
    BY <1>1
  <2>1. x \in Chars /\ x \notin Ascii /\ (x \in Accents => OnTheMac(l))
    BY <2>0, MarksAre
  <2>2. f \in Seq(Chars) /\ l \in Chars /\ o = Append(f, l)
    BY <1>1, FrontLast
  <2>3. Compose(o, c) = Append(f, x)
    BY <1>1 DEF Compose
  <2> HIDE DEF p, x, f, l
  <2>4. HasOther(f) \/ ~OnTheMac(l)
    BY <2>2, OtherAppend
  <2>5. HasOther(f) \/ ~OnTheMac(x)
    BY <2>1, <2>4, NotAscii
  <2> QED BY <2>1, <2>2, <2>3, <2>5, OtherAppend
<1>2. CASE ~(o # <<>> /\ <<Last(o), c>> \in DOMAIN Composed)
  <2>1. Compose(o, c) = Append(o, c)
    BY <1>2 DEF Compose
  <2> QED BY <2>1, OtherAppend
<1> QED BY <1>1, <1>2

\* and a Japanese one is none the Mac has, alone or composed.
LEMMA OtherComes ==
  ASSUME NEW o \in Seq(Chars), NEW c \in Chars, IsJapaneseScript(c)
  PROVE  HasOther(Compose(o, c))
<1>1. CASE o # <<>> /\ <<Last(o), c>> \in DOMAIN Composed
  <2> DEFINE p == <<Last(o), c>>
             x == Composed[p]
             f == Front(o)
  <2>0. p[2] = c /\ p \in DOMAIN Composed
    BY <1>1
  <2>1. x \in Chars /\ x \notin Ascii /\ x \notin Accents
    BY <2>0, MarksAre
  <2>2. f \in Seq(Chars)
    BY <1>1, FrontLast
  <2>3. Compose(o, c) = Append(f, x)
    BY <1>1 DEF Compose
  <2> HIDE DEF p, x, f
  <2> QED BY <2>1, <2>2, <2>3, NotAscii, OtherAppend
<1>2. CASE ~(o # <<>> /\ <<Last(o), c>> \in DOMAIN Composed)
  <2>1. Compose(o, c) = Append(o, c)
    BY <1>2 DEF Compose
  <2>2. ~OnTheMac(c)
    <3>1. c \notin Accents
      BY AccentsAre
    <3>2. PICK block \in JapaneseBlocks : block[1] <= c /\ c <= block[2]
      BY DEF IsJapaneseScript
    <3>3. block[1] \in Nat /\ block[1] >= 128
      BY DEF JapaneseBlocks
    <3>4. c \in Nat
      BY CharsAre
    <3>5. ~(c < 128)
      BY <3>2, <3>3, <3>4
    <3> QED BY <3>1, <3>5 DEF OnTheMac
  <2> QED BY <2>1, <2>2, OtherAppend
<1> QED BY <1>1, <1>2

\* So a text with Japanese has one when it is composed.
LEMMA NfcOther ==
  ASSUME NEW s \in Seq(Chars), HasJapanese(s)
  PROVE  HasOther(Nfc(s))
<1>1. PICK j \in 1 .. Len(s) : IsJapaneseScript(s[j])
  BY DEF HasJapanese
<1> DEFINE k == ComposedUpTo(<<>>, s)
           n == Len(s)
<1>0. n \in Nat /\ \A i \in 1 .. n : s[i] \in Chars
  OBVIOUS
<1>2. k[0] = <<>> /\ \A m \in Nat : m + 1 <= n => k[m + 1] = Compose(k[m], s[m + 1])
  BY <1>0, ComposedGoes
<1>3. Nfc(s) = k[n]
  BY NfcIsOnto DEF Onto
<1>4. j \in 1 .. n /\ IsJapaneseScript(s[j])
  BY <1>1
<1> HIDE DEF k, n
<1> DEFINE P(m) == m <= n => k[m] \in Seq(Chars) /\ (j <= m => HasOther(k[m]))
           G == {m \in Nat : P(m)}
<1>5. 0 \in G
  <2>1. k[0] \in Seq(Chars) /\ ~(j <= 0)
    BY <1>2, <1>4
  <2> QED BY <2>1
<1>6. ASSUME NEW m \in Nat, m \in G PROVE m + 1 \in G
  <2>1. ASSUME m + 1 <= n PROVE k[m + 1] \in Seq(Chars) /\ (j <= m + 1 => HasOther(k[m + 1]))
    <3>1. k[m] \in Seq(Chars) /\ (j <= m => HasOther(k[m])) /\ s[m + 1] \in Chars
      BY <1>0, <1>6, <2>1
    <3>2. k[m + 1] = Compose(k[m], s[m + 1])
      BY <1>2, <2>1
    <3>3. k[m + 1] \in Seq(Chars)
      BY <3>1, <3>2, ComposeType
    <3>4. ASSUME j <= m PROVE HasOther(k[m + 1])
      BY <3>1, <3>2, <3>4, OtherStays
    <3>5. ASSUME j = m + 1 PROVE HasOther(k[m + 1])
      BY <1>4, <3>1, <3>2, <3>5, OtherComes
    <3>6. j <= m + 1 => j <= m \/ j = m + 1
      BY <1>4
    <3> QED BY <3>3, <3>4, <3>5, <3>6
  <2> QED BY <2>1
<1> HIDE DEF G
<1>7. Nat \subseteq G
  BY <1>5, <1>6, SetInduction
<1>8. n \in G
  BY <1>0, <1>7
<1>9. P(n)
  BY <1>8 DEF G
<1>10. n <= n /\ j <= n
  BY <1>0, <1>4
<1> QED BY <1>3, <1>9, <1>10

-----------------------------------------------------------------------------
(* What a Mac makes of a text                                              *)

\* charset.rs::to_macroman: the letters of the composed text that a Mac has
\* arrive in their order, whatever is romanized, transliterated or dropped
\* between them, and a text the Mac has arrives as it is.
THEOREM MacRomanShows ==
  ASSUME NEW s, Writable(s)
  PROVE  LET shown == FromMacRoman(ToMacRoman(s))
         IN  /\ Kept(shown, Accents) = Kept(Nfc(s), Accents)
             /\ ((\A i \in 1 .. Len(Nfc(s)) : OnTheMac(Nfc(s)[i])) => shown = Nfc(s))
<1> DEFINE r == IF HasJapanese(s) THEN RomanizeJapanese(s) ELSE s
           n == Nfc(r)
           f == FlattenSeq([i \in 1 .. Len(n) |-> EncodeChar(n[i])])
<1>0. s \in Seq(Chars)
  BY DEF Writable
<1>1. r \in Seq(Chars) /\ Kept(Nfc(r), Accents) = Kept(Nfc(s), Accents)
  <2>1. CASE HasJapanese(s)
    BY <2>1, RomanizedKeeps
  <2>2. CASE ~HasJapanese(s)
    BY <1>0, <2>2
  <2> QED BY <2>1, <2>2
<1>2. ToMacRoman(s) = f
  BY DEF ToMacRoman
<1>r. ~HasJapanese(s) => r = s
  OBVIOUS
<1> HIDE DEF r
<1>3. n \in Seq(Chars)
  BY <1>1, NfcType
<1>4. Conveys(f, n)
  BY <1>3, MacShows
<1> HIDE DEF f
<1>5. /\ Kept(FromMacRoman(f), Accents) = Kept(n, Accents)
      /\ (\A i \in 1 .. Len(n) : OnTheMac(n[i])) => FromMacRoman(f) = n
  BY <1>4 DEF Conveys
<1>6. ASSUME \A i \in 1 .. Len(Nfc(s)) : OnTheMac(Nfc(s)[i])
      PROVE  FromMacRoman(f) = Nfc(s)
  <2>1. ~HasOther(Nfc(s))
    BY <1>6 DEF HasOther
  <2>2. ~HasJapanese(s)
    BY <1>0, <2>1, NfcOther
  <2>3. r = s
    BY <1>r, <2>2
  <2> QED BY <1>5, <1>6, <2>3
<1> QED BY <1>1, <1>2, <1>5, <1>6

\* Charset::encode: what is sent of a text can be read at the other end.
THEOREM EncodedIsLegible ==
  ASSUME NEW s, Writable(s), NEW cs \in {Utf8, MacRoman}
  PROVE  Legible(cs, s, Shown(cs, Encode(cs, s)))
<1>0. s \in Seq(Chars)
  BY DEF Writable
<1>1. Utf8 # MacRoman
  BY DEF Utf8, MacRoman
<1>2. CASE cs = Utf8
  <2>1. FromUtf8(ToUtf8(s)) = s
    BY <1>0, Utf8ReadsBack
  <2> QED BY <1>1, <1>2, <2>1 DEF Legible, Shown, Encode
<1>3. CASE cs = MacRoman
  <2> DEFINE shown == FromMacRoman(ToMacRoman(s))
  <2>1. /\ Kept(shown, Accents) = Kept(Nfc(s), Accents)
        /\ ((\A i \in 1 .. Len(Nfc(s)) : OnTheMac(Nfc(s)[i])) => shown = Nfc(s))
    BY MacRomanShows
  <2>2. Shown(cs, Encode(cs, s)) = shown
    BY <1>3 DEF Shown, Encode
  <2> HIDE DEF shown
  <2>3. Legible(cs, s, shown)
    BY <1>1, <1>3, <2>1 DEF Legible
  <2> QED BY <2>2, <2>3
<1> QED BY <1>2, <1>3
=============================================================================
