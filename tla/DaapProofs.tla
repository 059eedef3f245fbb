----------------------------- MODULE DaapProofs -----------------------------
(***************************************************************************)
(* The listings.  For any library, any playlists and any orders the source *)
(* may answer in: pages join to the listing, positions grow, and mtco is   *)
(* its length.  The order of sort.rs is shown to be strict and total,      *)
(* hence a sort puts every track at its place, the number of tracks ahead  *)
(* of it, whatever order they came in; a page is a cut of the listing,     *)
(* adjoining cuts join.                                                    *)
(*                                                                         *)
(* The wire.  A body reads as what was written, wherever it is and         *)
(* whatever follows: numbers, strings and containers, one after the other  *)
(* or within each other; so the dictionary of /content-codes is the table  *)
(* it is made from, and a client learns its session and the revision from  *)
(* the bytes of /login and /update, the counts of the library from those   *)
(* of /server-info and /databases, and a listing from those of its pages.  *)
(*                                                                         *)
(* The sessions.  No two clients have the same, and an answered /update    *)
(* is news.  Last, all of it together: a client that goes from             *)
(* /content-codes to its listings and has nothing but bytes.               *)
(***************************************************************************)
EXTENDS Daap, CharsetProofs

(***************************************************************************)
(* The order                                                               *)
(***************************************************************************)
Value == Nat \cup {None}

KeysOK(keys) == Len(keys) \in Nat /\ \A n \in 1 .. Len(keys) : IsKey(keys[n])

\* cmp_opt calls equal what is equal,
LEMMA CmpEqual ==
  ASSUME NEW x, NEW y, NEW desc
  PROVE  Cmp(x, y, desc) = "equal" <=> x = y
BY DEF Cmp

\* tells apart what is not, in either direction,
LEMMA CmpTotal ==
  ASSUME NEW x \in Value, NEW y \in Value, NEW desc \in BOOLEAN, x # y
  PROVE  Cmp(x, y, desc) = "less" <=> Cmp(y, x, desc) # "less"
<1> USE ListingAssumption DEF Value
<1>1. CASE x = None \/ y = None
  BY <1>1 DEF Cmp
<1>2. CASE x # None /\ y # None
  <2>1. x \in Nat /\ y \in Nat
    BY <1>2
  <2>2. CASE desc = TRUE
    <3>1. Cmp(x, y, desc) = "less" <=> ~ (x < y)
      BY <1>2, <2>2, Zenon DEF Cmp
    <3>2. Cmp(y, x, desc) = "less" <=> ~ (y < x)
      BY <1>2, <2>2, Zenon DEF Cmp
    <3> QED
      BY <2>1, <3>1, <3>2
  <2>3. CASE desc = FALSE
    BY <1>2, <2>1, <2>3 DEF Cmp
  <2> QED
    BY <2>2, <2>3
<1> QED
  BY <1>1, <1>2

\* and is transitive, missing values last.
LEMMA CmpTransitive ==
  ASSUME NEW x \in Value, NEW y \in Value, NEW z \in Value, NEW desc \in BOOLEAN,
         Cmp(x, y, desc) = "less", Cmp(y, z, desc) = "less"
  PROVE  Cmp(x, z, desc) = "less"
<1> USE ListingAssumption DEF Value
<1>1. x # None
  BY DEF Cmp
<1>2. y # None
  BY DEF Cmp
<1>3. CASE z = None
  BY <1>1, <1>3 DEF Cmp
<1>4. CASE z # None
  <2>1. x \in Nat /\ y \in Nat /\ z \in Nat
    BY <1>1, <1>2, <1>4
  <2>2. CASE desc = TRUE
    <3>1. \A u, v \in Nat : u # v => (Cmp(u, v, desc) = "less" <=> ~ (u < v))
      BY <2>2, Zenon DEF Cmp
    <3>2. x # y /\ y # z
      BY CmpEqual
    <3>3. y < x /\ z < y
      BY <2>1, <3>1, <3>2
    <3> QED
      BY <2>1, <3>1, <3>3
  <2>3. CASE desc = FALSE
    BY <1>1, <1>2, <1>4, <2>1, <2>3 DEF Cmp
  <2> QED
    BY <2>2, <2>3
<1> QED
  BY <1>3, <1>4

\* What two tracks have in a field of the keys.
LEMMA FieldValue ==
  ASSUME NEW keys, KeysOK(keys), NEW n \in 1 .. Len(keys), NEW t \in Tracks
  PROVE  t[keys[n].field] \in Value /\ keys[n].desc \in BOOLEAN
BY DEF KeysOK, IsKey, Value

\* a belongs before b by key n, or they are alike in it.
LessAt(a, b, keys, n) == CmpKey(a, b, keys[n]) = "less"
AlikeAt(a, b, keys, n) == a[keys[n].field] = b[keys[n].field]
AlikeUpTo(a, b, keys, n) == \A m \in 1 .. n - 1 : AlikeAt(a, b, keys, m)

\* The comparator: the first key that tells two tracks apart, or their ids.
LEMMA LessDef ==
  ASSUME NEW a, NEW b, NEW keys
  PROVE  Less(a, b, keys) <=>
           \/ \E n \in 1 .. Len(keys) : LessAt(a, b, keys, n) /\ AlikeUpTo(a, b, keys, n)
           \/ (\A n \in 1 .. Len(keys) : AlikeAt(a, b, keys, n)) /\ a.id < b.id
BY CmpEqual DEF Less, LessAt, AlikeAt, AlikeUpTo, CmpKey

\* A key orders any two tracks that are not alike in it,
LEMMA LessAtTotal ==
  ASSUME NEW keys, KeysOK(keys), NEW n \in 1 .. Len(keys), NEW a \in Tracks, NEW b \in Tracks,
         ~ AlikeAt(a, b, keys, n)
  PROVE  LessAt(a, b, keys, n) <=> ~ LessAt(b, a, keys, n)
BY FieldValue, CmpTotal DEF AlikeAt, LessAt, CmpKey

\* transitively,
LEMMA LessAtTransitive ==
  ASSUME NEW keys, KeysOK(keys), NEW n \in 1 .. Len(keys),
         NEW a \in Tracks, NEW b \in Tracks, NEW c \in Tracks,
         LessAt(a, b, keys, n), LessAt(b, c, keys, n)
  PROVE  LessAt(a, c, keys, n)
BY FieldValue, CmpTransitive DEF LessAt, CmpKey

\* and only those.
LEMMA LessAtNotAlike ==
  ASSUME NEW keys, NEW n, NEW a, NEW b, LessAt(a, b, keys, n)
  PROVE  ~ AlikeAt(a, b, keys, n)
BY CmpEqual DEF AlikeAt, LessAt, CmpKey

\* Tracks that are alike in a key may stand for one another in it.
LEMMA LessAtAlike ==
  ASSUME NEW keys, NEW n, NEW a, NEW b, NEW c
  PROVE  /\ AlikeAt(a, b, keys, n) /\ LessAt(b, c, keys, n) => LessAt(a, c, keys, n)
         /\ LessAt(a, b, keys, n) /\ AlikeAt(b, c, keys, n) => LessAt(a, c, keys, n)
         /\ AlikeAt(a, b, keys, n) /\ AlikeAt(b, c, keys, n) => AlikeAt(a, c, keys, n)
         /\ AlikeAt(a, b, keys, n) => AlikeAt(b, a, keys, n)
BY DEF AlikeAt, LessAt, CmpKey

\* The ids decide at last: the order is strict and total.
LEMMA LessIrreflexive ==
  ASSUME NEW keys, KeysOK(keys), NEW a \in Tracks
  PROVE  ~ Less(a, a, keys)
<1>1. a.id \in Nat
  BY ListingAssumption
<1>2. \A n : AlikeAt(a, a, keys, n)
  BY DEF AlikeAt
<1> QED
  BY <1>1, <1>2, LessDef, LessAtNotAlike

\* Of two different tracks one comes before the other.
LEMMA LessTotal ==
  ASSUME NEW keys, KeysOK(keys), NEW a \in Tracks, NEW b \in Tracks, a # b
  PROVE  Less(a, b, keys) \/ Less(b, a, keys)
<1> DEFINE T == {n \in 1 .. Len(keys) : ~ AlikeAt(a, b, keys, n)}
<1>0. Len(keys) \in Nat /\ a.id \in Nat /\ b.id \in Nat /\ a.id # b.id
  BY ListingAssumption DEF KeysOK
<1>1. CASE T = {}
  <2>1. \A n \in 1 .. Len(keys) : AlikeAt(a, b, keys, n) /\ AlikeAt(b, a, keys, n)
    BY <1>1 DEF AlikeAt
  <2>2. a.id < b.id \/ b.id < a.id
    BY <1>0
  <2> QED
    BY <2>1, <2>2, LessDef
<1>2. CASE T # {}
  <2>1. T \subseteq Nat
    BY <1>0
  <2>2. PICK n \in T : \A m \in T : n <= m
    BY <1>2, <2>1, Least
  <2>3. n \in 1 .. Len(keys) /\ ~ AlikeAt(a, b, keys, n)
    BY <2>2
  <2>4. AlikeUpTo(a, b, keys, n)
    BY <2>2, <2>3, <1>0 DEF AlikeUpTo
  <2>5. AlikeUpTo(b, a, keys, n)
    BY <2>4, LessAtAlike DEF AlikeUpTo
  <2>6. LessAt(a, b, keys, n) \/ LessAt(b, a, keys, n)
    BY <2>3, LessAtTotal
  <2> QED
    BY <2>3, <2>4, <2>5, <2>6, LessDef
<1> QED
  BY <1>1, <1>2

\* A track before one that is before a third is before the third.
LEMMA LessTransitive ==
  ASSUME NEW keys, KeysOK(keys), NEW a \in Tracks, NEW b \in Tracks, NEW c \in Tracks,
         Less(a, b, keys), Less(b, c, keys)
  PROVE  Less(a, c, keys)
<1>0. Len(keys) \in Nat /\ a.id \in Nat /\ b.id \in Nat /\ c.id \in Nat
  BY ListingAssumption DEF KeysOK
<1> DEFINE Key(x, y, n) == LessAt(x, y, keys, n) /\ AlikeUpTo(x, y, keys, n)
           EachKey(x, y) == (\A n \in 1 .. Len(keys) : AlikeAt(x, y, keys, n)) /\ x.id < y.id
<1>1. \/ \E n \in 1 .. Len(keys) : Key(a, b, n)
      \/ EachKey(a, b)
  BY LessDef
<1>2. \/ \E n \in 1 .. Len(keys) : Key(b, c, n)
      \/ EachKey(b, c)
  BY LessDef
<1>3. ASSUME NEW n \in 1 .. Len(keys), Key(a, b, n), NEW m \in 1 .. Len(keys), Key(b, c, m)
      PROVE  Less(a, c, keys)
  <2>1. CASE n < m
    <3>1. LessAt(a, c, keys, n)
      BY <1>3, <2>1, LessAtAlike DEF AlikeUpTo
    <3>2. AlikeUpTo(a, c, keys, n)
      BY <1>3, <2>1, LessAtAlike DEF AlikeUpTo
    <3> QED BY <3>1, <3>2, LessDef
  <2>2. CASE m < n
    <3>1. LessAt(a, c, keys, m)
      BY <1>3, <2>2, LessAtAlike DEF AlikeUpTo
    <3>2. AlikeUpTo(a, c, keys, m)
      BY <1>3, <2>2, LessAtAlike DEF AlikeUpTo
    <3> QED BY <3>1, <3>2, LessDef
  <2>3. CASE n = m
    <3>1. LessAt(a, c, keys, n)
      BY <1>3, <2>3, LessAtTransitive
    <3>2. AlikeUpTo(a, c, keys, n)
      BY <1>3, <2>3, LessAtAlike DEF AlikeUpTo
    <3> QED BY <3>1, <3>2, LessDef
  <2> QED BY <2>1, <2>2, <2>3
<1>4. ASSUME NEW n \in 1 .. Len(keys), Key(a, b, n), EachKey(b, c)
      PROVE  Less(a, c, keys)
  <2>1. LessAt(a, c, keys, n)
    BY <1>4, LessAtAlike
  <2>2. AlikeUpTo(a, c, keys, n)
    BY SMTT(40), <1>4, LessAtAlike DEF AlikeUpTo
  <2> QED BY <2>1, <2>2, LessDef
<1>5. ASSUME EachKey(a, b), NEW m \in 1 .. Len(keys), Key(b, c, m)
      PROVE  Less(a, c, keys)
  <2>1. LessAt(a, c, keys, m)
    BY <1>5, LessAtAlike
  <2>2. \A n \in 1 .. m - 1 : n \in 1 .. Len(keys)
    BY <1>0
  <2>3. AlikeUpTo(a, c, keys, m)
    BY <1>5, <2>2, LessAtAlike DEF AlikeUpTo
  <2> QED BY <2>1, <2>3, LessDef
<1>6. ASSUME EachKey(a, b), EachKey(b, c)
      PROVE  Less(a, c, keys)
  <2>1. \A n \in 1 .. Len(keys) : AlikeAt(a, c, keys, n)
    BY <1>6, LessAtAlike
  <2>2. a.id < c.id
    BY <1>0, <1>6
  <2> QED BY <2>1, <2>2, LessDef
<1> QED
  BY <1>1, <1>2, <1>3, <1>4, <1>5, <1>6

\* The recursion of Precedes, as a relation, and what it computes.
PrecedesFrom(f, a, b, keys) ==
  f = [n \in 1 .. Len(keys) + 1 |->
        IF n > Len(keys) THEN a.id < b.id
        ELSE LET x == a[keys[n].field]
                 y == b[keys[n].field]
             IN  CASE x = y -> f[n + 1]
                   [] x # y /\ None \in {x, y} -> y = None
                   [] OTHER -> IF keys[n].desc THEN y < x ELSE x < y]

LessFrom(a, b, keys, n) ==
  \/ \E m \in n .. Len(keys) :
       LessAt(a, b, keys, m) /\ \A k \in n .. m - 1 : AlikeAt(a, b, keys, k)
  \/ (\A m \in n .. Len(keys) : AlikeAt(a, b, keys, m)) /\ a.id < b.id

\* After the last key the ids decide.
LEMMA LessFromEnd ==
  ASSUME NEW keys, KeysOK(keys), NEW a, NEW b, NEW n \in Nat, n > Len(keys)
  PROVE  LessFrom(a, b, keys, n) <=> a.id < b.id
BY DEF LessFrom, KeysOK

\* Tracks alike in a key are told apart by the later ones.
LEMMA LessFromAlike ==
  ASSUME NEW keys, KeysOK(keys), NEW a \in Tracks, NEW b \in Tracks, NEW n \in 1 .. Len(keys),
         AlikeAt(a, b, keys, n)
  PROVE  LessFrom(a, b, keys, n) <=> LessFrom(a, b, keys, n + 1)
<1>0. Len(keys) \in Nat /\ ~ LessAt(a, b, keys, n)
  BY LessAtNotAlike DEF KeysOK
<1>1. \A m \in Nat : m \in n .. Len(keys) <=> m = n \/ m \in n + 1 .. Len(keys)
  BY <1>0
<1>2. \A m \in n + 1 .. Len(keys) : \A k : k \in n .. m - 1 <=> k = n \/ k \in n + 1 .. m - 1
  BY <1>0
<1> QED
  BY <1>0, <1>1, <1>2 DEF LessFrom

\* Tracks that differ in a key are told apart by it.
LEMMA LessFromApart ==
  ASSUME NEW keys, KeysOK(keys), NEW a \in Tracks, NEW b \in Tracks, NEW n \in 1 .. Len(keys),
         ~ AlikeAt(a, b, keys, n)
  PROVE  LessFrom(a, b, keys, n) <=> LessAt(a, b, keys, n)
<1>0. Len(keys) \in Nat
  BY DEF KeysOK
<1>1. ASSUME LessFrom(a, b, keys, n)
      PROVE  LessAt(a, b, keys, n)
  <2>1. PICK m \in n .. Len(keys) :
          LessAt(a, b, keys, m) /\ \A k \in n .. m - 1 : AlikeAt(a, b, keys, k)
    BY <1>0, <1>1 DEF LessFrom
  <2>2. m = n
    BY <1>0, <2>1
  <2> QED BY <2>1, <2>2
<1>2. ASSUME LessAt(a, b, keys, n)
      PROVE  LessFrom(a, b, keys, n)
  BY <1>0, <1>2 DEF LessFrom
<1> QED
  BY <1>1, <1>2

\* From the first key on it is the whole comparison.
LEMMA LessFromOne ==
  ASSUME NEW keys, NEW a, NEW b
  PROVE  LessFrom(a, b, keys, 1) <=> Less(a, b, keys)
BY LessDef DEF LessFrom, AlikeUpTo

\* How the definition says it.
LEMMA CmpSpelled ==
  ASSUME NEW x \in Value, NEW y \in Value, NEW desc \in BOOLEAN, x # y
  PROVE  Cmp(x, y, desc) = "less" <=>
           IF None \in {x, y} THEN y = None
           ELSE IF desc THEN y < x ELSE x < y
<1>1. CASE None \in {x, y}
  BY <1>1 DEF Cmp
<1>2. CASE None \notin {x, y} /\ desc = TRUE
  <2>1. x \in Nat /\ y \in Nat
    BY <1>2 DEF Value
  <2>2. Cmp(x, y, desc) = "less" <=> ~ (x < y)
    BY <1>2, Zenon DEF Cmp
  <2>3. ~ (x < y) <=> y < x
    BY <2>1
  <2> QED
    BY <1>2, <2>2, <2>3
<1>3. CASE None \notin {x, y} /\ desc = FALSE
  <2>1. Cmp(x, y, desc) = "less" <=> (x < y) # FALSE
    BY <1>3, Zenon DEF Cmp
  <2>2. (x < y) \in BOOLEAN
    OBVIOUS
  <2> QED
    BY <1>3, <2>1, <2>2
<1> QED
  BY <1>1, <1>2, <1>3

\* The same of the values that two tracks have for a key.
LEMMA LessAtSpelled ==
  ASSUME NEW keys, KeysOK(keys), NEW a \in Tracks, NEW b \in Tracks, NEW n \in 1 .. Len(keys),
         NEW x, NEW y, x = a[keys[n].field], y = b[keys[n].field], x # y
  PROVE  LessAt(a, b, keys, n) <=>
           IF None \in {x, y} THEN y = None
           ELSE IF keys[n].desc THEN y < x ELSE x < y
<1>1. x \in Value /\ y \in Value /\ keys[n].desc \in BOOLEAN
  BY FieldValue
<1>2. LessAt(a, b, keys, n) <=> Cmp(x, y, keys[n].desc) = "less"
  BY DEF LessAt, CmpKey
<1> QED
  BY <1>1, <1>2, CmpSpelled

\* There is a function that the recursion of Precedes defines.
LEMMA PrecedesFromExists ==
  ASSUME NEW keys, KeysOK(keys), NEW a \in Tracks, NEW b \in Tracks
  PROVE  \E f : PrecedesFrom(f, a, b, keys)
<1> DEFINE f == [n \in 1 .. Len(keys) + 1 |-> LessFrom(a, b, keys, n)]
           Inner(n) == IF n > Len(keys) THEN a.id < b.id
                      ELSE LET x == a[keys[n].field]
                               y == b[keys[n].field]
                           IN  CASE x = y -> f[n + 1]
                                 [] x # y /\ None \in {x, y} -> y = None
                                 [] OTHER -> IF keys[n].desc THEN y < x ELSE x < y
<1>0. Len(keys) \in Nat
  BY DEF KeysOK
<1>1. ASSUME NEW n \in 1 .. Len(keys) + 1
      PROVE  LessFrom(a, b, keys, n) = Inner(n)
  <2>1. LessFrom(a, b, keys, n) \in BOOLEAN
    BY DEF LessFrom
  <2>2. CASE n > Len(keys)
    <3>1. LessFrom(a, b, keys, n) <=> a.id < b.id
      BY <1>0, <2>2, LessFromEnd
    <3>2. Inner(n) = (a.id < b.id)
      BY <2>2
    <3> QED BY <3>1, <3>2, <2>1
  <2>3. CASE ~ (n > Len(keys))
    <3>0. n \in 1 .. Len(keys) /\ n + 1 \in 1 .. Len(keys) + 1
      BY <1>0, <2>3
    <3> DEFINE x == a[keys[n].field]
               y == b[keys[n].field]
    <3>1. CASE x = y
      <4>1. Inner(n) = f[n + 1]
        BY <2>3, <3>1, Zenon
      <4>2. f[n + 1] = LessFrom(a, b, keys, n + 1)
        BY <3>0
      <4>3. LessFrom(a, b, keys, n) <=> LessFrom(a, b, keys, n + 1)
        BY <3>0, <3>1, LessFromAlike DEF AlikeAt
      <4>4. LessFrom(a, b, keys, n + 1) \in BOOLEAN
        BY DEF LessFrom
      <4> QED BY <4>1, <4>2, <4>3, <4>4, <2>1, Zenon
    <3>2. CASE x # y
      <4> DEFINE R == IF None \in {x, y} THEN y = None
                      ELSE IF keys[n].desc THEN y < x ELSE x < y
      <4>1. Inner(n) = R
        BY <2>3, <3>2, Zenon
      <4>2. LessFrom(a, b, keys, n) <=> LessAt(a, b, keys, n)
        BY <3>0, <3>2, LessFromApart DEF AlikeAt
      <4>3. LessAt(a, b, keys, n) <=> R
        BY <3>0, <3>2, LessAtSpelled
      <4>4. R \in BOOLEAN
        <5>1. (y = None) \in BOOLEAN /\ (y < x) \in BOOLEAN /\ (x < y) \in BOOLEAN
          OBVIOUS
        <5> QED BY <5>1, Zenon
      <4> HIDE DEF R, Inner
      <4> QED BY <4>1, <4>2, <4>3, <4>4, <2>1, Zenon
    <3> QED BY <3>1, <3>2
  <2> QED BY <2>2, <2>3
<1>2. f = [n \in 1 .. Len(keys) + 1 |-> Inner(n)]
  BY <1>1, Zenon
<1> QED
  BY <1>2, Zenon DEF PrecedesFrom

\* Precedes is Less, though one looks at the keys from the first on and the
\* other defers to the rest of them.
LEMMA PrecedesIsLess ==
  ASSUME NEW keys, KeysOK(keys), NEW a \in Tracks, NEW b \in Tracks
  PROVE  Precedes(a, b, keys) <=> Less(a, b, keys)
<1> DEFINE f == CHOOSE g : PrecedesFrom(g, a, b, keys)
<1>0. Len(keys) \in Nat
  BY DEF KeysOK
<1>1. Precedes(a, b, keys) = f[1]
  BY Zenon DEF Precedes, PrecedesFrom
<1>2. PrecedesFrom(f, a, b, keys)
  BY PrecedesFromExists, Zenon
<1> HIDE DEF f
<1> DEFINE P(d) == d <= Len(keys) =>
             (f[Len(keys) + 1 - d] <=> LessFrom(a, b, keys, Len(keys) + 1 - d))
<1>3. ASSUME NEW n \in 1 .. Len(keys) + 1, n > Len(keys)
      PROVE  f[n] = (a.id < b.id)
  BY <1>2, <1>3 DEF PrecedesFrom
<1>4. ASSUME NEW n \in 1 .. Len(keys), AlikeAt(a, b, keys, n)
      PROVE  f[n] = f[n + 1]
  BY <1>0, <1>2, <1>4 DEF PrecedesFrom, AlikeAt
<1>5. ASSUME NEW n \in 1 .. Len(keys), ~ AlikeAt(a, b, keys, n)
      PROVE  f[n] <=> LessAt(a, b, keys, n)
  <2> DEFINE x == a[keys[n].field]
             y == b[keys[n].field]
             R == IF None \in {x, y} THEN y = None
                  ELSE IF keys[n].desc THEN y < x ELSE x < y
  <2>1. n \in 1 .. Len(keys) + 1 /\ ~ (n > Len(keys))
    BY <1>0
  <2>2. x # y
    BY <1>5 DEF AlikeAt
  <2>3. f[n] = R
    BY <1>2, <2>1, <2>2, Zenon DEF PrecedesFrom
  <2>4. LessAt(a, b, keys, n) <=> R
    BY <2>2, LessAtSpelled
  <2> HIDE DEF R
  <2> QED BY <2>3, <2>4, Zenon
<1>6. P(0)
  <2>1. Len(keys) + 1 - 0 = Len(keys) + 1 /\ Len(keys) + 1 \in 1 .. Len(keys) + 1
        /\ Len(keys) + 1 > Len(keys) /\ Len(keys) + 1 \in Nat
    BY <1>0
  <2>2. f[Len(keys) + 1] = (a.id < b.id)
    BY <1>3, <2>1
  <2>3. LessFrom(a, b, keys, Len(keys) + 1) <=> a.id < b.id
    BY <2>1, LessFromEnd
  <2> QED BY <2>1, <2>2, <2>3
<1>7. ASSUME NEW d \in Nat, P(d) PROVE P(d + 1)
  <2> SUFFICES ASSUME d + 1 <= Len(keys)
               PROVE  f[Len(keys) + 1 - (d + 1)] <=> LessFrom(a, b, keys, Len(keys) + 1 - (d + 1))
    OBVIOUS
  <2> DEFINE n == Len(keys) - d
  <2>1. /\ Len(keys) + 1 - (d + 1) = n /\ Len(keys) + 1 - d = n + 1 /\ n \in 1 .. Len(keys)
        /\ d <= Len(keys)
    BY <1>0
  <2>2. f[n + 1] <=> LessFrom(a, b, keys, n + 1)
    BY <1>7, <2>1
  <2> HIDE DEF n
  <2>3. f[n] <=> LessFrom(a, b, keys, n)
    <3>1. CASE AlikeAt(a, b, keys, n)
      <4>1. f[n] = f[n + 1]
        BY <1>4, <2>1, <3>1
      <4>2. LessFrom(a, b, keys, n) <=> LessFrom(a, b, keys, n + 1)
        BY <2>1, <3>1, LessFromAlike
      <4> QED BY <2>2, <4>1, <4>2, Zenon
    <3>2. CASE ~ AlikeAt(a, b, keys, n)
      <4>1. f[n] <=> LessAt(a, b, keys, n)
        BY <1>5, <2>1, <3>2
      <4>2. LessFrom(a, b, keys, n) <=> LessAt(a, b, keys, n)
        BY <2>1, <3>2, LessFromApart
      <4> QED BY <4>1, <4>2
    <3> QED BY <3>1, <3>2
  <2> QED BY <2>1, <2>3
<1> HIDE DEF P
<1>8. \A d \in Nat : P(d)
  <2> DEFINE G == {m \in Nat : P(m)}
  <2>1. 0 \in G /\ \A m \in Nat : m \in G => m + 1 \in G
    BY <1>6, <1>7
  <2> HIDE DEF G
  <2>2. Nat \subseteq G
    BY <2>1, SetInduction
  <2> QED
    BY <2>2 DEF G
<1>9. f[1] <=> LessFrom(a, b, keys, 1)
  <2>1. P(Len(keys)) /\ Len(keys) <= Len(keys) /\ Len(keys) + 1 - Len(keys) = 1
    BY <1>0, <1>8
  <2> QED BY <2>1 DEF P
<1> QED
  BY <1>1, <1>9, LessFromOne

(***************************************************************************)
(* Ranks: by how many a strict total order of 1 .. n puts before.          *)
(***************************************************************************)
Ranked(B, n, i) == Cardinality({j \in 1 .. n : <<j, i>> \in B}) + 1

StrictTotal(B, n) ==
  /\ \A i \in 1 .. n : <<i, i>> \notin B
  /\ \A i, j, k \in 1 .. n : <<i, j>> \in B /\ <<j, k>> \in B => <<i, k>> \in B
  /\ \A i, j \in 1 .. n : i # j => <<i, j>> \in B \/ <<j, i>> \in B

\* A rank is one of 1 .. n.
LEMMA RankedType ==
  ASSUME NEW n \in Nat, NEW B, StrictTotal(B, n), NEW i \in 1 .. n
  PROVE  Ranked(B, n, i) \in 1 .. n
<1> DEFINE S == {j \in 1 .. n : <<j, i>> \in B}
<1>1. IsFiniteSet(1 .. n) /\ Cardinality(1 .. n) = n
  BY FS_Interval
<1>2. S \subseteq (1 .. n) \ {i}
  BY DEF StrictTotal
<1>3. IsFiniteSet((1 .. n) \ {i}) /\ Cardinality((1 .. n) \ {i}) = n - 1
  BY <1>1, FS_RemoveElement
<1> HIDE DEF S
<1>4. IsFiniteSet(S) /\ Cardinality(S) <= Cardinality((1 .. n) \ {i})
  BY <1>2, <1>3, FS_Subset
<1>5. Cardinality(S) \in Nat
  BY <1>4, FS_CardinalityType
<1>6. Cardinality(S) + 1 \in 1 .. n
  BY <1>3, <1>4, <1>5
<1> QED
  BY <1>6 DEF Ranked, S

\* What is before has the lower rank,
LEMMA RankedMonotone ==
  ASSUME NEW n \in Nat, NEW B, StrictTotal(B, n), NEW i \in 1 .. n, NEW k \in 1 .. n,
         <<i, k>> \in B
  PROVE  Ranked(B, n, i) < Ranked(B, n, k)
<1> DEFINE S(m) == {j \in 1 .. n : <<j, m>> \in B}
<1>1. IsFiniteSet(1 .. n)
  BY FS_Interval
<1>2. S(i) \cup {i} \subseteq S(k)
  BY DEF StrictTotal
<1>3. i \notin S(i)
  BY DEF StrictTotal
<1>4. IsFiniteSet(S(i)) /\ IsFiniteSet(S(k))
  BY <1>1, FS_Subset
<1>5. Cardinality(S(i)) \in Nat /\ Cardinality(S(k)) \in Nat
  BY <1>4, FS_CardinalityType
<1>6. Cardinality(S(i) \cup {i}) = Cardinality(S(i)) + 1
  BY <1>3, <1>4, FS_AddElement
<1>7. Cardinality(S(i) \cup {i}) <= Cardinality(S(k))
  BY <1>2, <1>4, FS_Subset
<1> HIDE DEF S
<1>8. Cardinality(S(i)) + 1 < Cardinality(S(k)) + 1
  BY <1>5, <1>6, <1>7
<1> QED
  BY <1>8 DEF Ranked, S

\* so no two have the same,
LEMMA RankedInjective ==
  ASSUME NEW n \in Nat, NEW B, StrictTotal(B, n), NEW i \in 1 .. n, NEW k \in 1 .. n,
         Ranked(B, n, i) = Ranked(B, n, k)
  PROVE  i = k
<1> SUFFICES ASSUME i # k PROVE FALSE
  OBVIOUS
<1>1. <<i, k>> \in B \/ <<k, i>> \in B
  BY DEF StrictTotal
<1>2. Ranked(B, n, i) < Ranked(B, n, k) \/ Ranked(B, n, k) < Ranked(B, n, i)
  BY <1>1, RankedMonotone
<1>3. Ranked(B, n, i) \in 1 .. n
  BY RankedType
<1> QED
  BY <1>2, <1>3

\* and every rank is taken.
LEMMA RankedOnto ==
  ASSUME NEW n \in Nat, NEW B, StrictTotal(B, n), NEW r \in 1 .. n
  PROVE  \E i \in 1 .. n : Ranked(B, n, i) = r
<1> DEFINE F == [i \in 1 .. n |-> Ranked(B, n, i)]
<1>1. F \in [1 .. n -> 1 .. n]
  BY RankedType
<1>2. \A a, b \in 1 .. n : F[a] = F[b] => a = b
  BY RankedInjective
<1>3. IsFiniteSet(1 .. n)
  BY FS_Interval
<1> HIDE DEF F
<1>4. F \in Injection(1 .. n, 1 .. n)
  BY <1>1, <1>2, Fun_IsInj
<1>5. F \in Surjection(1 .. n, 1 .. n)
  BY <1>3, <1>4, FS_Injection
<1>6. \E i \in 1 .. n : F[i] = r
  BY <1>5 DEF Surjection
<1> QED
  BY <1>6 DEF F

\* Distinct entries are counted by their places.
LEMMA CountEntries ==
  ASSUME NEW T, NEW s \in Seq(T), Distinct(s), NEW P
  PROVE  Cardinality({j \in 1 .. Len(s) : s[j] \in P}) = Cardinality(EntriesOf(s) \cap P)
<1> DEFINE J == {j \in 1 .. Len(s) : s[j] \in P}
           E == EntriesOf(s) \cap P
           F == [j \in J |-> s[j]]
<1>0. Len(s) \in Nat
  OBVIOUS
<1>1. F \in [J -> E]
  BY DEF EntriesOf
<1>2. \A a, b \in J : F[a] = F[b] => a = b
  BY DEF Distinct
<1>3. \A e \in E : \E j \in J : F[j] = e
  BY DEF EntriesOf
<1>4. IsFiniteSet(1 .. Len(s))
  BY <1>0, FS_Interval
<1>5. IsFiniteSet(J)
  BY <1>4, FS_Subset
<1> HIDE DEF J, E, F
<1>6. F \in Bijection(J, E)
  BY <1>1, <1>2, <1>3, Fun_IsBij
<1>7. ExistsBijection(J, E)
  BY <1>6 DEF ExistsBijection
<1>8. Cardinality(J) = Cardinality(E)
  BY <1>5, <1>7, FS_Bijection
<1> QED
  BY <1>8 DEF J, E

\* A sequence of distinct entries is as long as it has entries.
LEMMA LenEntries ==
  ASSUME NEW T, NEW s \in Seq(T), Distinct(s)
  PROVE  Len(s) = Cardinality(EntriesOf(s)) /\ IsFiniteSet(EntriesOf(s))
<1> DEFINE F == [j \in 1 .. Len(s) |-> s[j]]
<1>0. Len(s) \in Nat
  OBVIOUS
<1>1. IsFiniteSet(1 .. Len(s)) /\ Cardinality(1 .. Len(s)) = Len(s)
  BY <1>0, FS_Interval
<1>2. F \in [1 .. Len(s) -> EntriesOf(s)] /\ \A e \in EntriesOf(s) : \E j \in 1 .. Len(s) : F[j] = e
  BY DEF EntriesOf
<1>3. \A a, b \in 1 .. Len(s) : F[a] = F[b] => a = b
  BY DEF Distinct
<1> HIDE DEF F
<1>4. F \in Bijection(1 .. Len(s), EntriesOf(s))
  BY <1>2, <1>3, Fun_IsBij
<1>5. ExistsBijection(1 .. Len(s), EntriesOf(s))
  BY <1>4 DEF ExistsBijection
<1> QED
  BY <1>1, <1>5, FS_Bijection

(***************************************************************************)
(* Sorting                                                                 *)
(***************************************************************************)
\* The order of the places of s: by the keys, and as they are when alike.
Ahead(s, keys, i, j) == Less(s[i], s[j], keys) \/ (s[i] = s[j] /\ i < j)

OrderOf(s, keys) ==
  {p \in (1 .. Len(s)) \X (1 .. Len(s)) : Ahead(s, keys, p[1], p[2])}

Place(s, keys, i) == Ranked(OrderOf(s, keys), Len(s), i)

\* The pairs of places of which the first is ahead.
LEMMA OrderOfDef ==
  ASSUME NEW s, NEW keys, NEW i \in 1 .. Len(s), NEW j \in 1 .. Len(s)
  PROVE  <<i, j>> \in OrderOf(s, keys) <=> Ahead(s, keys, i, j)
BY DEF OrderOf

\* Being ahead is transitive, for entries that are twice there too.
LEMMA AheadTransitive ==
  ASSUME NEW s \in Seq(Tracks), NEW keys, KeysOK(keys),
         NEW i \in 1 .. Len(s), NEW j \in 1 .. Len(s), NEW k \in 1 .. Len(s),
         Ahead(s, keys, i, j), Ahead(s, keys, j, k)
  PROVE  Ahead(s, keys, i, k)
<1>0. Len(s) \in Nat
  OBVIOUS
<1>1. s[i] \in Tracks /\ s[j] \in Tracks /\ s[k] \in Tracks
  OBVIOUS
<1>2. CASE s[i] = s[j] /\ i < j /\ s[j] = s[k] /\ j < k
  <2>1. i < k
    BY <1>0, <1>2
  <2> QED
    BY <1>2, <2>1 DEF Ahead
<1>3. CASE Less(s[i], s[j], keys) \/ Less(s[j], s[k], keys)
  <2>1. Less(s[i], s[k], keys)
    <3>1. CASE Less(s[i], s[j], keys) /\ Less(s[j], s[k], keys)
      BY <1>1, <3>1, LessTransitive
    <3>2. CASE Less(s[i], s[j], keys) /\ s[j] = s[k]
      BY <3>2
    <3>3. CASE s[i] = s[j] /\ Less(s[j], s[k], keys)
      BY <3>3
    <3> QED
      BY <1>3, <3>1, <3>2, <3>3 DEF Ahead
  <2> QED
    BY <2>1 DEF Ahead
<1> QED
  BY <1>2, <1>3 DEF Ahead

\* It is a strict total order of the places,
LEMMA OrderOfTotal ==
  ASSUME NEW s \in Seq(Tracks), NEW keys, KeysOK(keys)
  PROVE  StrictTotal(OrderOf(s, keys), Len(s))
<1> DEFINE N == 1 .. Len(s)
<1>0. Len(s) \in Nat /\ \A i \in N : s[i] \in Tracks
  OBVIOUS
<1>1. ASSUME NEW i \in N
      PROVE  ~ Ahead(s, keys, i, i)
  BY <1>0, LessIrreflexive DEF Ahead
<1>2. ASSUME NEW i \in N, NEW j \in N, i # j
      PROVE  Ahead(s, keys, i, j) \/ Ahead(s, keys, j, i)
  <2>1. CASE s[i] = s[j]
    <3>1. i < j \/ j < i
      BY <1>0, <1>2
    <3> QED
      BY <2>1, <3>1 DEF Ahead
  <2>2. CASE s[i] # s[j]
    <3>1. Less(s[i], s[j], keys) \/ Less(s[j], s[i], keys)
      BY <1>0, <2>2, LessTotal
    <3> QED
      BY <3>1 DEF Ahead
  <2> QED
    BY <2>1, <2>2
<1> QED
  BY <1>1, <1>2, AheadTransitive, OrderOfDef DEF StrictTotal

\* hence there is an entry for every place,
LEMMA PlaceOnto ==
  ASSUME NEW s \in Seq(Tracks), NEW keys, KeysOK(keys), NEW r \in 1 .. Len(s)
  PROVE  \E i \in 1 .. Len(s) : Place(s, keys, i) = r
<1>1. Len(s) \in Nat
  OBVIOUS
<1> QED
  BY <1>1, OrderOfTotal, RankedOnto DEF Place

\* and no two for one.
LEMMA PlaceInjective ==
  ASSUME NEW s \in Seq(Tracks), NEW keys, KeysOK(keys),
         NEW i \in 1 .. Len(s), NEW j \in 1 .. Len(s), Place(s, keys, i) = Place(s, keys, j)
  PROVE  i = j
<1>1. Len(s) \in Nat
  OBVIOUS
<1> QED
  BY <1>1, OrderOfTotal, RankedInjective DEF Place

\* The place of i is one more than what is ahead of it.
LEMMA PlaceIs ==
  ASSUME NEW s, NEW keys, NEW i \in 1 .. Len(s)
  PROVE  Place(s, keys, i) = Cardinality({j \in 1 .. Len(s) : Ahead(s, keys, j, i)}) + 1
<1>1. {j \in 1 .. Len(s) : <<j, i>> \in OrderOf(s, keys)}
        = {j \in 1 .. Len(s) : Ahead(s, keys, j, i)}
  BY OrderOfDef
<1> QED
  BY <1>1 DEF Place, Ranked

\* The rank that a stable sort counts is the place.
LEMMA StablePlace ==
  ASSUME NEW s \in Seq(Tracks), NEW keys, KeysOK(keys), NEW i \in 1 .. Len(s)
  PROVE  Cardinality({j \in 1 .. Len(s) :
                        \/ Less(s[j], s[i], keys)
                        \/ ~Less(s[i], s[j], keys) /\ j <= i}) = Place(s, keys, i)
<1> DEFINE N == 1 .. Len(s)
           R == {j \in N : Less(s[j], s[i], keys) \/ (~Less(s[i], s[j], keys) /\ j <= i)}
           A == {j \in N : Ahead(s, keys, j, i)}
<1>0. Len(s) \in Nat /\ \A j \in N : s[j] \in Tracks
  OBVIOUS
<1>1. ASSUME NEW j \in N
      PROVE  j \in R <=> j \in A \cup {i}
  <2>1. CASE j = i
    <3>1. ~ Less(s[i], s[i], keys)
      BY <1>0, LessIrreflexive
    <3>2. i <= i
      BY <1>0
    <3> QED
      BY <2>1, <3>1, <3>2
  <2>2. CASE j # i /\ s[j] = s[i]
    <3>1. ~ Less(s[j], s[i], keys) /\ ~ Less(s[i], s[j], keys)
      BY <1>0, <2>2, LessIrreflexive
    <3>2. j <= i <=> j < i
      BY <1>0, <2>2
    <3> QED
      BY <2>2, <3>1, <3>2 DEF Ahead
  <2>3. CASE s[j] # s[i]
    <3>1. Less(s[j], s[i], keys) <=> ~ Less(s[i], s[j], keys)
      BY <1>0, <2>3, LessTotal, LessTransitive, LessIrreflexive
    <3>2. j # i
      BY <2>3
    <3>3. j \in R <=> Less(s[j], s[i], keys)
      BY <3>1
    <3>4. j \in A <=> Less(s[j], s[i], keys)
      BY <2>3 DEF Ahead
    <3> HIDE DEF R, A
    <3> QED
      BY <3>2, <3>3, <3>4
  <2> QED
    BY <2>1, <2>2, <2>3
<1>2. i \notin A
  BY <1>0, LessIrreflexive DEF Ahead
<1>3. IsFiniteSet(N)
  BY <1>0, FS_Interval
<1>4. IsFiniteSet(A)
  BY <1>3, FS_Subset
<1>5. R = A \cup {i}
  BY <1>1
<1> HIDE DEF R, A
<1>6. Cardinality(R) = Cardinality(A) + 1
  BY <1>2, <1>4, <1>5, FS_AddElement
<1>7. Place(s, keys, i) = Cardinality(A) + 1
  BY PlaceIs DEF A
<1> QED
  BY <1>6, <1>7 DEF R

\* So is the rank by which the listing is defined.
LEMMA InOrderPlace ==
  ASSUME NEW s \in Seq(Tracks), NEW keys, KeysOK(keys), NEW i \in 1 .. Len(s)
  PROVE  Cardinality({j \in 1 .. Len(s) :
                        Precedes(s[j], s[i], keys) \/ (s[j] = s[i] /\ j < i)}) + 1
           = Place(s, keys, i)
<1>1. \A j \in 1 .. Len(s) : Precedes(s[j], s[i], keys) <=> Less(s[j], s[i], keys)
  BY PrecedesIsLess
<1>2. {j \in 1 .. Len(s) : Precedes(s[j], s[i], keys) \/ (s[j] = s[i] /\ j < i)}
        = {j \in 1 .. Len(s) : Ahead(s, keys, j, i)}
  BY <1>1 DEF Ahead
<1> QED
  BY <1>2, PlaceIs

\* What has place r, if there is such a place.
At(s, keys, r) == CHOOSE i \in 1 .. Len(s) : Place(s, keys, i) = r

\* What is chosen for a place has it,
LEMMA AtPlace ==
  ASSUME NEW s \in Seq(Tracks), NEW keys, KeysOK(keys), NEW r \in 1 .. Len(s)
  PROVE  At(s, keys, r) \in 1 .. Len(s) /\ Place(s, keys, At(s, keys, r)) = r
BY PlaceOnto DEF At

\* and nothing else does.
LEMMA AtUnique ==
  ASSUME NEW s \in Seq(Tracks), NEW keys, KeysOK(keys), NEW r \in 1 .. Len(s),
         NEW i \in 1 .. Len(s), Place(s, keys, i) = r
  PROVE  At(s, keys, r) = i
BY AtPlace, PlaceInjective

\* What the server's sort puts where.
LEMMA SortTracksAt ==
  ASSUME NEW s \in Seq(Tracks), NEW sort, KeysOK(sort.keys)
  PROVE  SortTracks(s, sort) = [r \in 1 .. Len(s) |-> s[At(s, sort.keys, r)]]
<1> DEFINE N == 1 .. Len(s)
           keys == sort.keys
           rank(i) == Cardinality({j \in 1 .. Len(s) :
                        \/ Less(s[j], s[i], keys)
                        \/ ~Less(s[i], s[j], keys) /\ j <= i})
           pick(r) == CHOOSE i \in 1 .. Len(s) : rank(i) = r
<1>1. SortTracks(s, sort) = [r \in N |-> s[pick(r)]]
  BY DEF SortTracks, StableSort
<1>2. \A i \in N : rank(i) = Place(s, keys, i)
  BY StablePlace
<1> HIDE DEF rank, keys
<1>3. ASSUME NEW r \in N
      PROVE  pick(r) = At(s, keys, r)
  <2>1. At(s, keys, r) \in N /\ rank(At(s, keys, r)) = r
    BY <1>2, AtPlace DEF keys
  <2>2. pick(r) \in N /\ rank(pick(r)) = r
    BY <2>1
  <2>3. Place(s, keys, pick(r)) = r
    BY <1>2, <2>2
  <2> HIDE DEF pick
  <2> QED
    BY <2>2, <2>3, AtUnique DEF keys
<1> HIDE DEF pick
<1>4. [r \in N |-> s[pick(r)]] = [r \in N |-> s[At(s, keys, r)]]
  BY <1>3
<1> QED
  BY <1>1, <1>4 DEF keys

\* The listing, as it is defined, has the same there.
LEMMA InOrderAt ==
  ASSUME NEW s \in Seq(Tracks), KeysOK(req.sort.keys)
  PROVE  InOrder(s, req.sort.keys) = [r \in 1 .. Len(s) |-> s[At(s, req.sort.keys, r)].id]
<1> DEFINE N == 1 .. Len(s)
           keys == req.sort.keys
           rank(i) == Cardinality({j \in 1 .. Len(s) :
                        Precedes(s[j], s[i], keys) \/ (s[j] = s[i] /\ j < i)}) + 1
           pick(r) == CHOOSE i \in 1 .. Len(s) : rank(i) = r
<1>1. InOrder(s, req.sort.keys) = [r \in N |-> s[pick(r)].id]
  BY DEF InOrder
<1>2. \A i \in N : rank(i) = Place(s, keys, i)
  BY InOrderPlace
<1> HIDE DEF rank, keys
<1>3. ASSUME NEW r \in N
      PROVE  pick(r) = At(s, keys, r)
  <2>1. At(s, keys, r) \in N /\ rank(At(s, keys, r)) = r
    BY <1>2, AtPlace DEF keys
  <2>2. pick(r) \in N /\ rank(pick(r)) = r
    BY <2>1
  <2>3. Place(s, keys, pick(r)) = r
    BY <1>2, <2>2
  <2> HIDE DEF pick
  <2> QED
    BY <2>2, <2>3, AtUnique DEF keys
<1> HIDE DEF pick
<1>4. [r \in N |-> s[pick(r)].id] = [r \in N |-> s[At(s, keys, r)].id]
  BY <1>3
<1> QED
  BY <1>1, <1>4 DEF keys

\* Sorting gives tracks,
LEMMA SortTracksType ==
  ASSUME NEW s \in Seq(Tracks), NEW sort, KeysOK(sort.keys)
  PROVE  SortTracks(s, sort) \in Seq(Tracks)
<1>1. Len(s) \in Nat /\ \A r \in 1 .. Len(s) : s[At(s, sort.keys, r)] \in Tracks
  BY AtPlace
<1> QED
  BY <1>1, SortTracksAt

\* as many as there were.
LEMMA SortTracksLen ==
  ASSUME NEW s \in Seq(Tracks), NEW sort, KeysOK(sort.keys)
  PROVE  Len(SortTracks(s, sort)) = Len(s)
<1>1. Len(s) \in Nat
  OBVIOUS
<1> QED
  BY <1>1, SortTracksAt

\* The server sorts as the listing is defined.
LEMMA SortedIsInOrder ==
  ASSUME NEW s \in Seq(Tracks), KeysOK(req.sort.keys)
  PROVE  Ids(SortTracks(s, req.sort)) = InOrder(s, req.sort.keys)
<1> DEFINE keys == req.sort.keys
           t == [r \in 1 .. Len(s) |-> s[At(s, keys, r)]]
<1>0. Len(s) \in Nat
  OBVIOUS
<1>1. SortTracks(s, req.sort) = t
  BY SortTracksAt
<1>2. Len(t) = Len(s)
  BY <1>0
<1>3. Ids(t) = [r \in 1 .. Len(s) |-> s[At(s, keys, r)].id]
  BY <1>2 DEF Ids
<1> HIDE DEF t
<1> QED
  BY <1>1, <1>3, InOrderAt

\* Of distinct tracks the place depends on which they are, not on where.
LEMMA PlaceOfDistinct ==
  ASSUME NEW s \in Seq(Tracks), NEW keys, KeysOK(keys), Distinct(s), NEW i \in 1 .. Len(s)
  PROVE  Place(s, keys, i) = Cardinality(EntriesOf(s) \cap {u \in Tracks : Less(u, s[i], keys)}) + 1
<1> DEFINE P == {u \in Tracks : Less(u, s[i], keys)}
<1>0. Len(s) \in Nat /\ \A j \in 1 .. Len(s) : s[j] \in Tracks
  OBVIOUS
<1>1. ASSUME NEW j \in 1 .. Len(s)
      PROVE  Ahead(s, keys, j, i) <=> s[j] \in P
  <2>1. CASE s[j] = s[i]
    <3>1. j = i
      BY <2>1 DEF Distinct
    <3> QED
      BY <1>0, <2>1, <3>1, LessIrreflexive DEF Ahead
  <2>2. CASE s[j] # s[i]
    BY <1>0, <2>2 DEF Ahead
  <2> QED
    BY <2>1, <2>2
<1> HIDE DEF P
<1>2. {j \in 1 .. Len(s) : Ahead(s, keys, j, i)} = {j \in 1 .. Len(s) : s[j] \in P}
  BY <1>1
<1>3. Cardinality({j \in 1 .. Len(s) : s[j] \in P}) = Cardinality(EntriesOf(s) \cap P)
  BY CountEntries
<1> QED
  BY <1>2, <1>3, PlaceIs DEF P

\* Hence any two orders of the same tracks are sorted into the same one.
LEMMA SortedTheSame ==
  ASSUME NEW s \in Seq(Tracks), NEW t \in Seq(Tracks), NEW sort, KeysOK(sort.keys),
         Distinct(s), Distinct(t), EntriesOf(s) = EntriesOf(t)
  PROVE  SortTracks(s, sort) = SortTracks(t, sort)
<1> DEFINE keys == sort.keys
<1>0. Len(s) = Len(t) /\ Len(s) \in Nat
  BY LenEntries
<1>1. ASSUME NEW r \in 1 .. Len(s)
      PROVE  s[At(s, keys, r)] = t[At(t, keys, r)]
  <2> DEFINE i == At(s, keys, r)
  <2>1. i \in 1 .. Len(s) /\ Place(s, keys, i) = r
    BY AtPlace
  <2>2. s[i] \in EntriesOf(t)
    BY <2>1 DEF EntriesOf
  <2>3. PICK j \in 1 .. Len(t) : t[j] = s[i]
    BY <2>2 DEF EntriesOf
  <2> HIDE DEF i
  <2>4. Place(s, keys, i) = Cardinality(EntriesOf(s) \cap {u \in Tracks : Less(u, s[i], keys)}) + 1
    BY <2>1, PlaceOfDistinct
  <2>5. Place(t, keys, j) = Cardinality(EntriesOf(t) \cap {u \in Tracks : Less(u, t[j], keys)}) + 1
    BY PlaceOfDistinct
  <2>6. Place(t, keys, j) = r
    BY <2>1, <2>3, <2>4, <2>5
  <2>7. At(t, keys, r) = j
    BY <1>0, <2>6, AtUnique
  <2> QED
    BY <2>3, <2>7 DEF i
<1>2. [r \in 1 .. Len(s) |-> s[At(s, keys, r)]] = [r \in 1 .. Len(t) |-> t[At(t, keys, r)]]
  BY <1>0, <1>1
<1> QED
  BY <1>2, SortTracksAt

(***************************************************************************)
(* Pages                                                                   *)
(***************************************************************************)
\* The entries of s from the index a up to, and without, the index b.
Cut(s, a, b) == SubSeq(s, a + 1, IF b < Len(s) THEN b ELSE Len(s))

\* A page has entries of the listing, no more than were asked for.
LEMMA CutType ==
  ASSUME NEW T, NEW s \in Seq(T), NEW a \in Nat, NEW b \in Nat, a <= b
  PROVE  Cut(s, a, b) \in Seq(T) /\ Len(Cut(s, a, b)) <= b - a
<1>1. Len(s) \in Nat
  OBVIOUS
<1> DEFINE e == IF b < Len(s) THEN b ELSE Len(s)
<1>2. e \in Nat /\ e <= b /\ e <= Len(s)
  BY <1>1
<1> HIDE DEF e
<1>3. \A i \in a + 1 .. e : s[i] \in T
  BY <1>1, <1>2
<1>4. SubSeq(s, a + 1, e) \in Seq(T)
  BY <1>2, <1>3, SubSeqProperties
<1>5. Len(SubSeq(s, a + 1, e)) = IF a + 1 <= e THEN e - (a + 1) + 1 ELSE 0
  BY <1>2, <1>3, SubSeqProperties
<1>6. Len(SubSeq(s, a + 1, e)) <= b - a
  BY <1>2, <1>5
<1> QED
  BY <1>4, <1>6 DEF Cut, e

\* A page from the end on, or up to where it begins, is empty.
LEMMA CutEmpty ==
  ASSUME NEW T, NEW s \in Seq(T), NEW a \in Nat, NEW b \in Nat, a = b \/ Len(s) <= a
  PROVE  Cut(s, a, b) = <<>>
<1>1. Len(s) \in Nat
  OBVIOUS
<1> DEFINE e == IF b < Len(s) THEN b ELSE Len(s)
<1>2. e \in Nat /\ e < a + 1
  BY <1>1
<1> HIDE DEF e
<1>3. SubSeq(s, a + 1, e) = <<>>
  BY <1>2, SubSeqEmpty
<1> QED
  BY <1>3 DEF Cut, e

\* Adjoining pages join.
LEMMA CutJoin ==
  ASSUME NEW T, NEW s \in Seq(T), NEW a \in Nat, NEW b \in Nat, NEW c \in Nat, a <= b, b <= c
  PROVE  Cut(s, a, b) \o Cut(s, b, c) = Cut(s, a, c)
<1>1. Len(s) \in Nat
  OBVIOUS
<1>2. CASE b < Len(s)
  <2> DEFINE e == IF c < Len(s) THEN c ELSE Len(s)
  <2>1. a + 1 \in 1 .. Len(s) + 1 /\ b \in (a + 1) - 1 .. Len(s) /\ e \in b .. Len(s)
    BY <1>1, <1>2
  <2> HIDE DEF e
  <2>2. SubSeq(s, a + 1, b) \o SubSeq(s, b + 1, e) = SubSeq(s, a + 1, e)
    BY <2>1, ConcatAdjacentSubSeq
  <2> QED
    BY <1>2, <2>2 DEF Cut, e
<1>3. CASE ~ (b < Len(s))
  <2>1. Cut(s, b, c) = <<>>
    BY <1>1, <1>3, CutEmpty
  <2>2. ~ (c < Len(s))
    BY <1>1, <1>3
  <2>3. Cut(s, a, b) = Cut(s, a, c)
    BY <1>3, <2>2 DEF Cut
  <2>4. Cut(s, a, b) \in Seq(T)
    BY CutType
  <2>5. Cut(s, a, b) \o <<>> = Cut(s, a, b)
    BY <2>4, ConcatEmptySeq
  <2> QED
    BY <2>1, <2>3, <2>5
<1> QED
  BY <1>2, <1>3

\* A range that asks for the entries from a up to b, of n that there are.
Window(range, a, b, n) ==
  \/ /\ range.range = TRUE /\ range.open = FALSE
     /\ range.start = a /\ range.end = b - 1 /\ a < b
  \/ /\ range.range = TRUE /\ range.open = TRUE
     /\ range.start = a /\ n <= b
  \/ range = NoRange /\ a = 0 /\ n <= b

\* The position of the first entry sent is that of the index asked for.
LEMMA WindowOffset ==
  ASSUME NEW range, NEW a \in Nat, NEW b, NEW n, Window(range, a, b, n)
  PROVE  Offset(range) = a
BY DEF Window, Offset, NoRange

\* A window of a listing is one of any shorter listing.
LEMMA WindowLess ==
  ASSUME NEW range, NEW a \in Nat, NEW b \in Nat, NEW n \in Nat, NEW m \in Nat, m <= n,
         Window(range, a, b, n)
  PROVE  Window(range, a, b, m)
BY DEF Window

\* The last index that is wanted and there.
LEMMA WindowLast ==
  ASSUME NEW range, NEW a \in Nat, NEW b \in Nat, NEW n \in Nat, Window(range, a, b, n),
         range # NoRange, a < n
  PROVE  /\ LastOf(range, n) \in Nat
         /\ LastOf(range, n) + 1 = IF b < n THEN b ELSE n
BY DEF Window, LastOf, NoRange

\* apply_index_range cuts the page that was asked for.
LEMMA RangeCut ==
  ASSUME NEW T, NEW s \in Seq(T), NEW range, NEW a \in Nat, NEW b \in Nat,
         Window(range, a, b, Len(s))
  PROVE  ApplyIndexRange(s, range) = Cut(s, a, b)
<1>1. Len(s) \in Nat
  OBVIOUS
<1>2. CASE range = NoRange
  <2>1. a = 0 /\ ~ (b < Len(s))
    BY <1>1, <1>2 DEF Window, NoRange
  <2>2. Cut(s, a, b) = SubSeq(s, 1, Len(s))
    BY <2>1 DEF Cut
  <2>3. Cut(s, a, b) = s
    BY <2>2, SubSeqFull
  <2>4. ApplyIndexRange(s, range) = s
    BY <1>2 DEF ApplyIndexRange, NoRange
  <2> QED
    BY <2>3, <2>4
<1>3. CASE range # NoRange
  <2>1. range.range = TRUE /\ range.start = a
    BY <1>3 DEF Window
  <2>2. CASE a >= Len(s)
    <3>1. ApplyIndexRange(s, range) = <<>>
      BY <2>1, <2>2 DEF ApplyIndexRange
    <3> QED
      BY <1>1, <2>2, <3>1, CutEmpty
  <2>3. CASE a < Len(s)
    <3>1. LastOf(range, Len(s)) + 1 = IF b < Len(s) THEN b ELSE Len(s)
      BY <1>1, <1>3, <2>3, WindowLast
    <3>2. ~ (a >= Len(s))
      BY <1>1, <2>3
    <3>3. ApplyIndexRange(s, range) = SubSeq(s, range.start + 1, LastOf(range, Len(s)) + 1)
      BY <2>1, <3>2 DEF ApplyIndexRange
    <3> QED
      BY <2>1, <3>1, <3>3 DEF Cut
  <2> QED
    BY <1>1, <2>2, <2>3
<1> QED
  BY <1>2, <1>3

\* Concatenation, by length and by index.
LEMMA ConcatLen ==
  ASSUME NEW T, NEW u \in Seq(T), NEW v \in Seq(T)
  PROVE  Len(u \o v) = Len(u) + Len(v)
OBVIOUS

LEMMA ConcatFirst ==
  ASSUME NEW T, NEW u \in Seq(T), NEW v \in Seq(T), NEW i \in 1 .. Len(u)
  PROVE  (u \o v)[i] = u[i]
OBVIOUS

LEMMA ConcatSecond ==
  ASSUME NEW T, NEW u \in Seq(T), NEW v \in Seq(T), NEW i \in 1 .. Len(v)
  PROVE  (u \o v)[Len(u) + i] = v[i]
OBVIOUS

\* The Library in front of the playlists: with it, and after it.
LEMMA AfterLibrary ==
  ASSUME NEW T, NEW x \in Seq(T), LibraryId \in T,
         NEW i \in 1 .. Len(x), NEW j \in 1 .. Len(x)
  PROVE  SubSeq(<<LibraryId>> \o x, i + 1, j + 1) = SubSeq(x, i, j)
<1> DEFINE lib == <<LibraryId>>
           m == i + 1
           n == j + 1
<1>1. lib \in Seq(T) /\ Len(lib) = 1
  OBVIOUS
<1>2. Len(x) \in Nat
  OBVIOUS
<1> HIDE DEF lib
<1>3. /\ m \in Len(lib) + 1 .. Len(lib) + Len(x)
      /\ n \in Len(lib) + 1 .. Len(lib) + Len(x)
  BY <1>1, <1>2
<1>4. m - Len(lib) = i /\ n - Len(lib) = j
  BY <1>1, <1>2
<1> HIDE DEF m, n
<1>5. SubSeq(lib \o x, m, n) = SubSeq(x, m - Len(lib), n - Len(lib))
  BY <1>1, <1>3, SubSeqOfConcat2
<1> QED
  BY <1>4, <1>5 DEF m, n, lib

\* The playlists with the Library in front.
LEMMA LibraryConcat ==
  ASSUME NEW T, NEW x \in Seq(T), LibraryId \in T
  PROVE  /\ <<LibraryId>> \o x \in Seq(T)
         /\ Len(<<LibraryId>> \o x) = 1 + Len(x)
         /\ (<<LibraryId>> \o x)[1] = LibraryId
<1> DEFINE lib == <<LibraryId>>
<1>1. lib \in Seq(T) /\ Len(lib) = 1 /\ lib[1] = LibraryId
  OBVIOUS
<1>2. Len(x) \in Nat
  OBVIOUS
<1> HIDE DEF lib
<1>3. lib \o x \in Seq(T)
  BY <1>1
<1>4. Len(lib \o x) = 1 + Len(x)
  BY <1>1, ConcatLen
<1>5. \A i \in 1 .. Len(lib) : (lib \o x)[i] = lib[i]
  BY <1>1, ConcatFirst
<1>6. (lib \o x)[1] = LibraryId
  <2>1. 1 \in 1 .. Len(lib)
    BY <1>1
  <2> QED
    BY <1>1, <1>5, <2>1, Zenon
<1> QED
  BY <1>3, <1>4, <1>6 DEF lib

LEMMA WithLibrary ==
  ASSUME NEW T, NEW x \in Seq(T), LibraryId \in T, NEW j \in 0 .. Len(x)
  PROVE  SubSeq(<<LibraryId>> \o x, 1, j + 1) = <<LibraryId>> \o SubSeq(x, 1, j)
<1> DEFINE all == <<LibraryId>> \o x
           m == j + 1
<1>0. Len(x) \in Nat
  OBVIOUS
<1>1. all \in Seq(T) /\ Len(all) = 1 + Len(x) /\ all[1] = LibraryId
  BY LibraryConcat
<1>2. 1 \in 1 .. Len(all) /\ m \in 1 .. Len(all)
  BY <1>0, <1>1
<1>3. SubSeq(all, 2, m) = SubSeq(x, 1, j)
  <2>1. CASE j = 0
    <3>1. SubSeq(all, 2, 1) = <<>> /\ SubSeq(x, 1, 0) = <<>>
      BY SubSeqEmpty
    <3> QED
      BY <2>1, <3>1
  <2>2. CASE j # 0
    <3>1. 1 \in 1 .. Len(x) /\ j \in 1 .. Len(x)
      BY <1>0, <2>2
    <3>2. SubSeq(all, 1 + 1, j + 1) = SubSeq(x, 1, j)
      BY <3>1, AfterLibrary
    <3>3. 1 + 1 = 2
      OBVIOUS
    <3> QED
      BY <3>2, <3>3
  <2> QED
    BY <2>1, <2>2
<1> HIDE DEF all, m
<1>4. SubSeq(all, 1, m) = <<all[1]>> \o SubSeq(all, 1 + 1, m)
  BY <1>1, <1>2, SubSeqRecursiveFirst
<1>5. 1 + 1 = 2
  OBVIOUS
<1>6. SubSeq(all, 1, m) = <<LibraryId>> \o SubSeq(x, 1, j)
  BY <1>1, <1>3, <1>4, <1>5, Zenon
<1> QED
  BY <1>6 DEF all, m

\* The Library and the playlists are cut as one listing.
LEMMA SliceCut ==
  ASSUME NEW T, NEW x \in Seq(T), LibraryId \in T, NEW range, NEW a \in Nat, NEW b \in Nat,
         Window(range, a, b, 1 + Len(x))
  PROVE  SlicePlaylists(range, x) = Cut(<<LibraryId>> \o x, a, b)
<1> DEFINE all == <<LibraryId>> \o x
           n == 1 + Len(x)
           from == (IF range.start = 0 THEN 0 ELSE range.start - 1) + 1
           last == LastOf(range, n)
<1>1. Len(x) \in Nat /\ n \in Nat
  OBVIOUS
<1>2. all \in Seq(T) /\ Len(all) = n
  BY LibraryConcat
<1>3. CASE range = NoRange
  <2>1. a = 0 /\ ~ (b < n)
    BY <1>1, <1>3 DEF Window, NoRange
  <2> HIDE DEF all
  <2>2. Cut(all, a, b) = SubSeq(all, 1, Len(all))
    BY <1>2, <2>1 DEF Cut
  <2>3. Cut(all, a, b) = all
    BY <1>2, <2>2, SubSeqFull
  <2>4. SlicePlaylists(range, x) = all
    BY <1>3 DEF SlicePlaylists, NoRange, all
  <2> QED
    BY <2>3, <2>4 DEF all
<1>4. CASE range # NoRange
  <2>1. range.range = TRUE /\ range.start = a
    BY <1>4 DEF Window
  <2>2. CASE a >= n
    <3>1. SlicePlaylists(range, x) = <<>>
      BY <2>1, <2>2 DEF SlicePlaylists
    <3> HIDE DEF all
    <3>2. Cut(all, a, b) = <<>>
      BY <1>1, <1>2, <2>2, CutEmpty
    <3> QED
      BY <3>1, <3>2 DEF all
  <2>3. CASE a < n
    <3>1. last \in Nat /\ last + 1 = IF b < n THEN b ELSE n
      BY <1>1, <1>4, <2>3, WindowLast
    <3>2. ~ (a >= n)
      BY <1>1, <2>3
    <3>3. SlicePlaylists(range, x) =
            (IF range.start = 0 THEN <<LibraryId>> ELSE <<>>) \o SubSeq(x, from, last)
      BY <2>1, <3>2 DEF SlicePlaylists
    <3>4. a < b
      BY <1>1, <1>4, <2>3 DEF Window
    <3>5. a <= last /\ last <= Len(x)
      BY <1>1, <2>3, <3>1, <3>4
    <3> HIDE DEF last, n, all
    <3>6. Cut(all, a, b) = SubSeq(all, a + 1, last + 1)
      BY <1>2, <3>1 DEF Cut
    <3>7. CASE a = 0
      <4>1. SlicePlaylists(range, x) = <<LibraryId>> \o SubSeq(x, 1, last)
        BY <2>1, <3>3, <3>7
      <4>2. last \in 0 .. Len(x)
        BY <1>1, <3>1, <3>5
      <4>3. SubSeq(all, 1, last + 1) = <<LibraryId>> \o SubSeq(x, 1, last)
        BY <4>2, WithLibrary DEF all
      <4>4. a + 1 = 1
        BY <3>7
      <4> QED
        BY <3>6, <4>1, <4>3, <4>4 DEF all
    <3>8. CASE a # 0
      <4>1. from = a
        BY <2>1, <3>8
      <4>2. SubSeq(x, a, last) \in Seq(T)
        <5>1. \A i \in a .. last : x[i] \in T
          BY <1>1, <3>1, <3>5, <3>8
        <5> QED
          BY <3>1, <5>1, SubSeqProperties
      <4>3. SlicePlaylists(range, x) = <<>> \o SubSeq(x, a, last)
        BY <2>1, <3>3, <3>8, <4>1
      <4>4. SlicePlaylists(range, x) = SubSeq(x, a, last)
        BY <4>2, <4>3, ConcatEmptySeq
      <4>5. a \in 1 .. Len(x) /\ last \in 1 .. Len(x)
        BY <1>1, <3>1, <3>5, <3>8
      <4>6. SubSeq(all, a + 1, last + 1) = SubSeq(x, a, last)
        BY <4>5, AfterLibrary DEF all
      <4> QED
        BY <3>6, <4>4, <4>6 DEF all
    <3> QED
      BY <3>7, <3>8
  <2> QED
    BY <1>1, <2>2, <2>3
<1> QED
  BY <1>3, <1>4

(***************************************************************************)
(* What the handlers answer                                                *)
(***************************************************************************)
IdOf == Nat \cup {PlaylistOrder(Lists)[i].id : i \in 1 .. Len(Lists)}
EntryType == [id : IdOf, mpco : Nat \cup {None}]

\* The ids of a sequence of entries; of those received, GotIds.
LEMMA IdsType ==
  ASSUME NEW T, NEW s, Len(s) \in Nat, \A i \in 1 .. Len(s) : s[i].id \in T
  PROVE  Ids(s) \in Seq(T) /\ Len(Ids(s)) = Len(s)
BY DEF Ids

\* The ids of a page are the page of the ids.
LEMMA IdsOfCut ==
  ASSUME NEW T, NEW s \in Seq(T), NEW a \in Nat, NEW b \in Nat
  PROVE  Ids(Cut(s, a, b)) = Cut(Ids(s), a, b)
<1>1. Len(s) \in Nat
  OBVIOUS
<1>2. Ids(s) = [i \in 1 .. Len(s) |-> s[i].id] /\ Len(Ids(s)) = Len(s)
  BY <1>1 DEF Ids
<1> DEFINE e == IF b < Len(s) THEN b ELSE Len(s)
           U == {s[i].id : i \in 1 .. Len(s)}
           m == a + 1
<1>3. e \in Nat /\ e <= Len(s) /\ m \in Nat /\ 1 <= m
  BY <1>1
<1>4. Cut(s, a, b) = SubSeq(s, m, e) /\ Cut(Ids(s), a, b) = SubSeq(Ids(s), m, e)
  BY <1>2 DEF Cut
<1>5. \A i \in 1 .. Len(s) : Ids(s)[i] = s[i].id
  BY <1>2
<1> HIDE DEF e, m
<1>6. (\A i \in m .. e : s[i] \in T) /\ (\A i \in m .. e : Ids(s)[i] \in U)
  <2>1. m .. e \subseteq 1 .. Len(s)
    BY <1>1, <1>3
  <2> QED
    BY <1>5, <2>1
<1> HIDE DEF U
<1> DEFINE x == SubSeq(s, m, e)
           y == SubSeq(Ids(s), m, e)
           n == IF m <= e THEN e - m + 1 ELSE 0
<1>7. x \in Seq(T) /\ Len(x) = n /\ \A i \in 1 .. e - m + 1 : x[i] = s[m + i - 1]
  BY <1>3, <1>6, SubSeqProperties
<1>8. y \in Seq(U) /\ Len(y) = n /\ \A i \in 1 .. e - m + 1 : y[i] = Ids(s)[m + i - 1]
  BY <1>3, <1>6, SubSeqProperties
<1>9. n \in Nat /\ \A i \in 1 .. n : i \in 1 .. e - m + 1 /\ m + i - 1 \in 1 .. Len(s)
  BY <1>1, <1>3
<1> HIDE DEF x, y, n
<1>10. Ids(x) = [i \in 1 .. n |-> x[i].id]
  BY <1>7 DEF Ids
<1>11. y = [i \in 1 .. n |-> y[i]]
  BY <1>8
<1>12. \A i \in 1 .. n : y[i] = x[i].id
  BY <1>5, <1>7, <1>8, <1>9
<1>13. Ids(x) = y
  BY <1>10, <1>11, <1>12
<1> QED
  BY <1>4, <1>13 DEF x, y

\* What is in S altogether is kept as it is.
LEMMA KeptAll ==
  ASSUME NEW T, NEW s \in Seq(T), NEW S, EntriesOf(s) \subseteq S
  PROVE  Kept(s, S) = s
<1> DEFINE k == KeptUpTo(s, S)
           P(m) == m <= Len(s) => k[m] = SubSeq(s, 1, m)
<1>0. Len(s) \in Nat
  OBVIOUS
<1>1. P(0)
  <2>1. SubSeq(s, 1, 0) = <<>>
    BY SubSeqEmpty
  <2>2. k[0] = <<>>
    BY <1>0, KeptZero
  <2> QED
    BY <2>1, <2>2
<1>2. ASSUME NEW m \in Nat, P(m)
      PROVE  P(m + 1)
  <2> SUFFICES ASSUME m + 1 <= Len(s)
               PROVE  k[m + 1] = SubSeq(s, 1, m + 1)
    OBVIOUS
  <2>1. s[m + 1] \in S
    BY <1>0 DEF EntriesOf
  <2>2. k[m + 1] = Append(k[m], s[m + 1])
    BY <1>0, <2>1, KeptNext
  <2>3. k[m] = SubSeq(s, 1, m)
    BY <1>0, <1>2
  <2>4. 1 \in 1 .. Len(s) /\ m + 1 \in 1 .. Len(s)
    BY <1>0
  <2> DEFINE j == m + 1
  <2> HIDE DEF j
  <2>5. SubSeq(s, 1, j) = SubSeq(s, 1, j - 1) \o <<s[j]>>
    BY <2>4, SubSeqRecursiveSecond DEF j
  <2>6. j - 1 = m
    BY DEF j
  <2>7. SubSeq(s, 1, m) \in Seq(T)
    BY <1>0, SubSeqProperties
  <2>8. s[m + 1] \in T
    BY <1>0
  <2>9. Append(SubSeq(s, 1, m), s[m + 1]) = SubSeq(s, 1, m) \o <<s[m + 1]>>
    BY <2>7, <2>8, AppendIsConcat
  <2> QED
    BY <2>2, <2>3, <2>5, <2>6, <2>9, Zenon DEF j
<1> HIDE DEF P
<1>3. \A m \in Nat : P(m)
  <2> DEFINE G == {m \in Nat : P(m)}
  <2>1. 0 \in G /\ \A m \in Nat : m \in G => m + 1 \in G
    BY <1>1, <1>2
  <2> HIDE DEF G
  <2>2. Nat \subseteq G
    BY <2>1, SetInduction
  <2> QED
    BY <2>2 DEF G
<1>4. P(Len(s))
  BY <1>0, <1>3
<1>5. k[Len(s)] = SubSeq(s, 1, Len(s))
  BY <1>0, <1>4 DEF P
<1> QED
  BY <1>5, KeptIsLast, SubSeqFull

\* Every order of the source is made of all tracks, each once.
LEMMA OrderType ==
  ASSUME NEW order \in Orders
  PROVE  order \in Seq(Tracks)
BY ListingAssumption

\* each once,
LEMMA OrderDistinct ==
  ASSUME NEW order \in Orders
  PROVE  Distinct(order)
BY ListingAssumption DEF Distinct

\* and with all of them.
LEMMA OrderEntries ==
  ASSUME NEW order \in Orders
  PROVE  EntriesOf(order) = Tracks
<1>1. order \in Seq(Tracks) /\ \A t \in Tracks : \E i \in 1 .. Len(order) : order[i] = t
  BY ListingAssumption
<1> QED
  BY <1>1 DEF EntriesOf

\* So whatever the order was, what the filter and the sort make of it is the
\* same, and as long as there are tracks to keep.
LEMMA SortedListed ==
  ASSUME NEW order \in Orders, NEW S, KeysOK(req.sort.keys)
  PROVE  /\ SortTracks(Kept(order, S), req.sort) \in Seq(Tracks)
         /\ Ids(SortTracks(Kept(order, S), req.sort)) = InOrder(Listed(S), req.sort.keys)
         /\ Len(SortTracks(Kept(order, S), req.sort)) = Cardinality(Tracks \cap S)
<1> DEFINE c == CHOOSE o \in Orders : TRUE
           x == Kept(order, S)
           y == Kept(c, S)
<1>1. c \in Orders
  BY ListingAssumption
<1> HIDE DEF c
<1>2. x \in Seq(Tracks \cap S) /\ y \in Seq(Tracks \cap S)
  BY <1>1, OrderType, KeptType
<1>3. x \in Seq(Tracks) /\ y \in Seq(Tracks)
  BY <1>2
<1>4. Distinct(x) /\ EntriesOf(x) = Tracks \cap S
  BY OrderType, OrderDistinct, OrderEntries, KeptDistinct
<1>5. Distinct(y) /\ EntriesOf(y) = Tracks \cap S
  BY <1>1, OrderType, OrderDistinct, OrderEntries, KeptDistinct
<1> HIDE DEF x, y
<1>6. SortTracks(x, req.sort) = SortTracks(y, req.sort)
  BY <1>3, <1>4, <1>5, SortedTheSame
<1>7. Ids(SortTracks(y, req.sort)) = InOrder(y, req.sort.keys)
  BY <1>3, SortedIsInOrder
<1>8. Len(x) = Cardinality(Tracks \cap S)
  BY <1>3, <1>4, LenEntries
<1>9. y = Listed(S)
  BY DEF y, c, Listed
<1>10. SortTracks(x, req.sort) \in Seq(Tracks) /\ Len(SortTracks(x, req.sort)) = Len(x)
  BY <1>3, SortTracksType, SortTracksLen
<1> QED
  BY <1>6, <1>7, <1>8, <1>9, <1>10 DEF x

\* There is a playlist of this id.
IsList(cid) == \E i \in 1 .. Len(Lists) : Lists[i].id = cid

\* The length of the listing that is asked for.
Whole ==
  CASE req.endpoint = "items"      -> Cardinality(Wanted)
    [] req.endpoint = "containers" -> 1 + Len(Lists)
    [] req.endpoint = "container" /\ req.cid = LibraryId -> Cardinality(Tracks)
    [] OTHER -> IF IsList(req.cid) THEN Len(Entries(req.cid)) ELSE 0

\* The tracks of a playlist that are there.
Rows(ids) == [i \in 1 .. Len(Resolved(ids)) |-> TrackOf(Resolved(ids)[i])]

\* The listing of /containers.
Playlists == <<LibraryId>> \o Ids(PlaylistOrder(Lists))

(***************************************************************************)
(* What is asked for                                                       *)
(***************************************************************************)
LEMMA RequestKeys ==
  ASSUME req \in Requests
  PROVE  KeysOK(req.sort.keys)
<1>1. req.sort \in {NoSort, BadSort} \cup {By(k) : k \in Sorts}
  BY DEF Requests, Request
<1>2. CASE req.sort \in {NoSort, BadSort}
  <2>1. req.sort.keys = <<>>
    BY <1>2 DEF NoSort, BadSort
  <2>2. Len(<<>>) = 0
    OBVIOUS
  <2> QED
    BY <2>1, <2>2 DEF KeysOK
<1>3. CASE req.sort \in {By(k) : k \in Sorts}
  <2>1. req.sort.keys \in Sorts
    BY <1>3 DEF By
  <2> QED
    BY <2>1, ListingAssumption DEF KeysOK
<1> QED
  BY <1>1, <1>2, <1>3

\* A query asks for fields that tracks have, or for unknown ones.
LEMMA RequestClauses ==
  ASSUME req \in Requests, NEW c \in req.query.clauses, c.field # "unknown", NEW t \in Tracks
  PROVE  c.field \in DOMAIN t
<1>1. req.query \in {NoQuery, BadQuery} \cup {Search(k) : k \in Queries}
  BY DEF Requests, Request
<1>2. req.query \notin {NoQuery, BadQuery}
  BY DEF NoQuery, BadQuery
<1>3. req.query.clauses \in Queries
  BY <1>1, <1>2 DEF Search
<1> QED
  BY <1>3, ListingAssumption

\* A request asks for a page that is not empty.
LEMMA RequestType ==
  ASSUME req \in Requests
  PROVE  /\ req.endpoint \in {"items", "containers", "container"}
         /\ req.page \in Nat /\ 1 <= req.page
<1>1. MaxPage \in Nat
  BY ListingAssumption
<1>2. req.endpoint \in {"items", "containers", "container"}
  BY DEF Requests, Request
<1>3. req.page \in 1 .. MaxPage
  BY DEF Requests, Request
<1> QED
  BY <1>1, <1>2, <1>3

\* The filter keeps what is wanted.
LEMMA MatchingIsWanted ==
  ASSUME req \in Requests
  PROVE  Tracks \cap {t \in Tracks : req.query = NoQuery \/ Matches(req.query, t)} = Wanted
<1>1. ASSUME NEW t \in Tracks
      PROVE  Matches(req.query, t) <=>
               \E c \in req.query.clauses : c.field # "unknown" /\ t[c.field] \in c.hits
  <2>1. "unknown" \notin DOMAIN t
    BY ListingAssumption
  <2>2. \A c \in req.query.clauses : c.field # "unknown" <=> c.field \in DOMAIN t
    BY <2>1, RequestClauses
  <2> QED
    BY <2>2 DEF Matches
<1> QED
  BY <1>1 DEF Wanted

\* The first playlist with an id is the only one.
LEMMA EntriesAre ==
  ASSUME NEW cid, NEW i \in 1 .. Len(Lists), Lists[i].id = cid
  PROVE  Entries(cid) = Lists[i].trackIds /\ Entries(cid) \in Seq(Nat)
<1> DEFINE S == {Lists[j] : j \in 1 .. Len(Lists)}
           p == CHOOSE q \in S : q.id = cid
<1>1. p \in S /\ p.id = cid
  OBVIOUS
<1>2. PICK j \in 1 .. Len(Lists) : p = Lists[j]
  BY <1>1
<1>3. j = i
  BY <1>1, <1>2, ListingAssumption
<1>4. Entries(cid) = p.trackIds
  BY DEF Entries
<1> HIDE DEF p
<1>5. Entries(cid) = Lists[i].trackIds
  BY <1>2, <1>3, <1>4
<1> QED
  BY <1>5, ListingAssumption

\* The ids of a playlist are its entries,
LEMMA IdsOfList ==
  ASSUME NEW order, NEW cid, IsList(cid)
  PROVE  IdsOf(order, cid) = Entries(cid)
<1> DEFINE hits == {i \in 1 .. Len(Lists) : Lists[i].id = cid}
           h == CHOOSE i \in hits : \A j \in hits : i <= j
<1>1. hits # {} /\ hits \subseteq Nat /\ cid # LibraryId
  <2>1. Len(Lists) \in Nat
    BY ListingAssumption
  <2>2. PICK i \in 1 .. Len(Lists) : Lists[i].id = cid
    BY DEF IsList
  <2>3. Lists[i].id # LibraryId
    BY ListingAssumption
  <2> QED
    BY <2>1, <2>2, <2>3
<1>2. IdsOf(order, cid) = Lists[h].trackIds
  BY <1>1 DEF IdsOf
<1> HIDE DEF hits
<1>3. \E i \in hits : \A j \in hits : i <= j
  BY <1>1, Least
<1>4. h \in hits
  BY <1>3
<1> HIDE DEF h
<1> QED
  BY <1>2, <1>4, EntriesAre DEF hits

\* those of the Library are the ids of all tracks,
LEMMA IdsOfLibrary ==
  ASSUME NEW order \in Orders
  PROVE  IdsOf(order, LibraryId) = Ids(order)
BY DEF IdsOf

\* and an unknown playlist has none.
LEMMA IdsOfUnknown ==
  ASSUME NEW order, NEW cid, cid # LibraryId, ~ IsList(cid)
  PROVE  IdsOf(order, cid) = <<>>
<1>1. {i \in 1 .. Len(Lists) : Lists[i].id = cid} = {}
  BY DEF IsList
<1> QED
  BY <1>1 DEF IdsOf

\* The ids of all tracks.
LEMMA IdsOfOrder ==
  ASSUME NEW order \in Orders
  PROVE  Ids(order) \in Seq(Nat) /\ Len(Ids(order)) = Cardinality(Tracks)
<1>1. order \in Seq(Tracks) /\ Len(order) \in Nat
  BY OrderType
<1>2. \A i \in 1 .. Len(order) : order[i].id \in Nat
  BY <1>1, ListingAssumption
<1>3. Len(order) = Cardinality(EntriesOf(order))
  BY OrderType, OrderDistinct, LenEntries
<1> QED
  BY <1>1, <1>2, <1>3, OrderEntries, IdsType

\* Any playlist that is asked for is a sequence of ids, as long as it says.
LEMMA IdsOfType ==
  ASSUME req \in Requests, req.endpoint = "container", NEW order \in Orders
  PROVE  IdsOf(order, req.cid) \in Seq(Nat) /\ Len(IdsOf(order, req.cid)) = Whole
<1>1. CASE req.cid = LibraryId
  BY <1>1, IdsOfLibrary, IdsOfOrder DEF Whole
<1>2. CASE IsList(req.cid)
  <2>1. Entries(req.cid) \in Seq(Nat) /\ req.cid # LibraryId
    BY <1>2, EntriesAre, ListingAssumption DEF IsList
  <2> QED
    BY <1>2, <2>1, IdsOfList DEF Whole
<1>3. CASE req.cid # LibraryId /\ ~ IsList(req.cid)
  <2>1. IdsOf(order, req.cid) = <<>>
    BY <1>3, IdsOfUnknown
  <2>2. Whole = 0
    BY <1>3 DEF Whole
  <2>3. <<>> \in Seq(Nat) /\ Len(<<>>) = 0
    OBVIOUS
  <2> QED
    BY <2>1, <2>2, <2>3
<1> QED
  BY <1>1, <1>2, <1>3

(***************************************************************************)
(* Looking up                                                              *)
(***************************************************************************)
LEMMA TrackOfId ==
  ASSUME NEW t \in Tracks
  PROVE  TrackOf(t.id) = t
BY ListingAssumption DEF TrackOf

\* Looking up leaves ids of tracks, no more than there were.
LEMMA ResolvedType ==
  ASSUME NEW ids \in Seq(Nat)
  PROVE  Resolved(ids) \in Seq(Nat \cap Known) /\ Len(Resolved(ids)) <= Len(ids)
BY KeptType DEF Resolved

\* The tracks looked up.
LEMMA RowsType ==
  ASSUME NEW ids \in Seq(Nat)
  PROVE  Rows(ids) \in Seq(Tracks) /\ Len(Rows(ids)) = Len(Resolved(ids))
<1> DEFINE r == Resolved(ids)
<1>1. r \in Seq(Nat \cap Known)
  BY ResolvedType
<1> HIDE DEF r
<1>2. Len(r) \in Nat /\ \A i \in 1 .. Len(r) : r[i] \in Known
  BY <1>1
<1>3. \A i \in 1 .. Len(r) : TrackOf(r[i]) \in Tracks
  BY <1>2, TrackOfId DEF Known
<1>4. Rows(ids) = [i \in 1 .. Len(r) |-> TrackOf(r[i])]
  BY DEF Rows, r
<1> QED
  BY <1>2, <1>3, <1>4 DEF r

\* Every id of the Library is found, as the track that it is of.
LEMMA RowsOfOrder ==
  ASSUME NEW order \in Orders
  PROVE  Rows(Ids(order)) = order
<1> DEFINE ids == Ids(order)
<1>1. order \in Seq(Tracks) /\ Len(order) \in Nat
  BY OrderType
<1>2. ids \in Seq(Nat)
  BY IdsOfOrder
<1>3. ids = [i \in 1 .. Len(order) |-> order[i].id] /\ Len(ids) = Len(order)
  BY <1>1 DEF Ids
<1>4. EntriesOf(ids) \subseteq Known
  BY <1>1, <1>3 DEF EntriesOf, Known
<1> HIDE DEF ids
<1>5. Resolved(ids) = ids
  BY <1>2, <1>4, KeptAll DEF Resolved
<1>6. Rows(ids) = [i \in 1 .. Len(order) |-> TrackOf(ids[i])]
  BY <1>3, <1>5 DEF Rows
<1>7. \A i \in 1 .. Len(order) : TrackOf(ids[i]) = order[i]
  BY <1>1, <1>3, TrackOfId
<1>8. order = [i \in 1 .. Len(order) |-> order[i]]
  BY <1>1
<1>9. Rows(ids) = order
  BY <1>6, <1>7, <1>8
<1> QED
  BY <1>9 DEF ids

(***************************************************************************)
(* Pages of a listing                                                      *)
(***************************************************************************)
Full == WantsFullMetadata(req.meta)

\* The ids are those of the listing from the index a up to b.
Joined(ids, a, b) ==
  /\ req.endpoint = "items" => ids = Cut(InOrder(Listed(Wanted), req.sort.keys), a, b)
  /\ req.endpoint = "containers" => ids = Cut(Playlists, a, b)
  /\ req.endpoint = "container" /\ IsList(req.cid) /\ ~ Full => ids = Cut(Entries(req.cid), a, b)
  /\ req.endpoint = "container" /\ IsList(req.cid) /\ Full /\ req.sort = NoSort =>
       ids = Resolved(Cut(Entries(req.cid), a, b))
  /\ req.endpoint = "container" /\ IsList(req.cid) /\ Full /\ req.sort # NoSort =>
       ids = Cut(InOrder(Rows(Entries(req.cid)), req.sort.keys), a, b)
  /\ req.endpoint = "container" /\ req.cid = LibraryId /\ Full /\ req.sort # NoSort =>
       ids = Cut(InOrder(Listed(Tracks), req.sort.keys), a, b)

\* The positions are between a and b, and grow.
Fits(es, a, b) ==
  /\ \A i \in 1 .. Len(es) : es[i].mpco = None \/ es[i].mpco \in a + 1 .. b
  /\ \A i, j \in 1 .. Len(es) :
       i < j => es[i].mpco = None \/ es[j].mpco = None \/ es[i].mpco < es[j].mpco

\* An answer that is right for a request of the entries from a up to b.
Page(answer, a, b) ==
  /\ answer.is \in {"ok", "refused", "panicked"}
  /\ answer.entries \in Seq(EntryType)
  /\ Fits(answer.entries, a, b)
  /\ answer.is = "ok" => answer.total = Whole /\ Joined(Ids(answer.entries), a, b)

\* A request that is refused, or panics, sends nothing.
LEMMA NoPage ==
  ASSUME NEW answer \in {BadRequest, Panics}, NEW a, NEW b
  PROVE  Page(answer, a, b)
<1>1. answer.entries = <<>> /\ answer.is \in {"refused", "panicked"}
  BY DEF BadRequest, Panics
<1>2. <<>> \in Seq(EntryType) /\ Len(<<>>) = 0
  OBVIOUS
<1>3. Fits(<<>>, a, b)
  BY <1>2 DEF Fits
<1> QED
  BY <1>1, <1>2, <1>3 DEF Page

\* An empty page is right where the listing has nothing.
LEMMA EmptyPage ==
  ASSUME NEW a, NEW b, Joined(<<>>, a, b)
  PROVE  Page(Answer(<<>>, Whole), a, b)
<1>1. <<>> \in Seq(EntryType) /\ Len(<<>>) = 0
  OBVIOUS
<1>2. Fits(<<>>, a, b)
  BY <1>1 DEF Fits
<1>3. Ids(<<>>) = <<>>
  BY <1>1 DEF Ids
<1> QED
  BY <1>1, <1>2, <1>3 DEF Page, Answer

\* A page without positions is right if its ids are,
LEMMA UnnumberedPage ==
  ASSUME NEW ids \in Seq(IdOf), NEW a, NEW b, Joined(ids, a, b)
  PROVE  Page(Answer(Unnumbered(ids), Whole), a, b)
<1> DEFINE es == Unnumbered(ids)
<1>1. Len(ids) \in Nat /\ \A i \in 1 .. Len(ids) : ids[i] \in IdOf
  OBVIOUS
<1>2. es = [i \in 1 .. Len(ids) |-> [id |-> ids[i], mpco |-> None]]
  BY DEF Unnumbered
<1>3. \A i \in 1 .. Len(ids) : [id |-> ids[i], mpco |-> None] \in EntryType
  BY <1>1 DEF EntryType
<1>4. es \in Seq(EntryType) /\ Len(es) = Len(ids)
  BY <1>1, <1>2, <1>3
<1>5. \A i \in 1 .. Len(ids) : es[i].id = ids[i] /\ es[i].mpco = None
  BY <1>2
<1> HIDE DEF es
<1>6. Ids(es) = ids
  BY <1>1, <1>4, <1>5 DEF Ids
<1>7. Fits(es, a, b)
  BY <1>4, <1>5 DEF Fits
<1> QED
  BY <1>4, <1>6, <1>7 DEF Page, Answer, es

\* and so is one that numbers them from the index asked for on.
LEMMA NumberedPage ==
  ASSUME NEW ids \in Seq(IdOf), NEW a \in Nat, NEW b \in Nat, Len(ids) <= b - a,
         Joined(ids, a, b)
  PROVE  Page(Answer(Numbered(ids, a), Whole), a, b)
<1> DEFINE es == Numbered(ids, a)
<1>1. Len(ids) \in Nat /\ \A i \in 1 .. Len(ids) : ids[i] \in IdOf
  OBVIOUS
<1>2. es = [i \in 1 .. Len(ids) |-> [id |-> ids[i], mpco |-> a + i]]
  BY DEF Numbered
<1>3. \A i \in 1 .. Len(ids) : [id |-> ids[i], mpco |-> a + i] \in EntryType
  BY <1>1 DEF EntryType
<1>4. es \in Seq(EntryType) /\ Len(es) = Len(ids)
  BY <1>1, <1>2, <1>3
<1>5. \A i \in 1 .. Len(ids) : es[i].id = ids[i] /\ es[i].mpco = a + i
  BY <1>2
<1> HIDE DEF es
<1>6. Ids(es) = ids
  BY <1>1, <1>4, <1>5 DEF Ids
<1>7. Fits(es, a, b)
  BY <1>1, <1>4, <1>5 DEF Fits
<1> QED
  BY <1>4, <1>6, <1>7 DEF Page, Answer, es

\* What is found of a playlist, or of a page of it, are ids.
LEMMA SomeIds ==
  ASSUME NEW T, T \subseteq Nat, NEW ids \in Seq(T)
  PROVE  ids \in Seq(IdOf)
<1>1. T \subseteq IdOf
  BY DEF IdOf
<1>2. Len(ids) \in Nat /\ \A i \in 1 .. Len(ids) : ids[i] \in IdOf
  <2>1. \A i \in 1 .. Len(ids) : ids[i] \in T
    OBVIOUS
  <2>2. Len(ids) \in Nat
    OBVIOUS
  <2> QED
    BY <1>1, <2>1, <2>2, Zenon
<1>3. ids = [i \in 1 .. Len(ids) |-> ids[i]]
  OBVIOUS
<1> QED
  BY <1>2, <1>3

\* handle_items.
LEMMA ItemsPage ==
  ASSUME req \in Requests, req.endpoint = "items", NEW order \in Orders, NEW range,
         NEW a \in Nat, NEW b \in Nat, a <= b,
         Window(range, a, b, HandleItems(order, range).total)
  PROVE  Page(HandleItems(order, range), a, b)
<1> DEFINE S == {t \in Tracks : req.query = NoQuery \/ Matches(req.query, t)}
           sorted == SortTracks(Matching(order), req.sort)
<1>1. CASE req.query = BadQuery \/ req.sort = BadSort
  <2>1. HandleItems(order, range) = BadRequest
    BY <1>1 DEF HandleItems
  <2> QED
    BY <2>1, NoPage
<1>2. CASE ~ (req.query = BadQuery \/ req.sort = BadSort)
  <2>1. HandleItems(order, range) =
          Answer(Unnumbered(Ids(ApplyIndexRange(sorted, range))), Len(sorted))
    BY <1>2 DEF HandleItems
  <2>2. S = Wanted /\ Tracks \cap S = S
    BY MatchingIsWanted
  <2>3. Matching(order) = Kept(order, S)
    BY DEF Matching
  <2>4. KeysOK(req.sort.keys)
    BY RequestKeys
  <2> HIDE DEF S
  <2>5. /\ SortTracks(Kept(order, S), req.sort) \in Seq(Tracks)
        /\ Ids(SortTracks(Kept(order, S), req.sort)) = InOrder(Listed(S), req.sort.keys)
        /\ Len(SortTracks(Kept(order, S), req.sort)) = Cardinality(Tracks \cap S)
    BY <2>4, SortedListed
  <2>6. /\ sorted \in Seq(Tracks)
        /\ Ids(sorted) = InOrder(Listed(Wanted), req.sort.keys)
        /\ Len(sorted) = Whole
    BY <2>2, <2>3, <2>5 DEF Whole
  <2> HIDE DEF sorted
  <2>7. Window(range, a, b, Len(sorted))
    BY <2>1 DEF Answer
  <2>8. ApplyIndexRange(sorted, range) = Cut(sorted, a, b)
    BY <2>6, <2>7, RangeCut
  <2>9. Ids(Cut(sorted, a, b)) = Cut(InOrder(Listed(Wanted), req.sort.keys), a, b)
    BY <2>6, IdsOfCut
  <2>10. Ids(Cut(sorted, a, b)) \in Seq(IdOf)
    <3>1. Cut(sorted, a, b) \in Seq(Tracks)
      BY <2>6, CutType
    <3> DEFINE c == Cut(sorted, a, b)
    <3> HIDE DEF c
    <3>2. Len(c) \in Nat /\ \A i \in 1 .. Len(c) : c[i].id \in Nat
      BY <3>1, ListingAssumption DEF c
    <3>3. Ids(c) \in Seq(Nat)
      BY <3>2, IdsType
    <3> QED
      BY <3>3, SomeIds DEF c
  <2>11. Joined(Ids(Cut(sorted, a, b)), a, b)
    BY <2>9 DEF Joined
  <2> QED
    BY <2>1, <2>6, <2>8, <2>10, <2>11, UnnumberedPage
<1> QED
  BY <1>1, <1>2

\* The playlists in their order are as many as there are.
LEMMA PlaylistIds ==
  Ids(PlaylistOrder(Lists)) \in Seq(IdOf) /\ Len(Ids(PlaylistOrder(Lists))) = Len(Lists)
<1>1. Len(Lists) \in Nat
  BY ListingAssumption
<1>2. Len(PlaylistOrder(Lists)) = Len(Lists)
  BY <1>1 DEF PlaylistOrder, StableSort
<1> DEFINE o == PlaylistOrder(Lists)
<1>3. \A i \in 1 .. Len(Lists) : o[i].id \in IdOf
  BY DEF IdOf
<1> HIDE DEF o
<1>4. Ids(o) \in Seq(IdOf) /\ Len(Ids(o)) = Len(o)
  BY <1>1, <1>2, <1>3, IdsType DEF o
<1> QED
  BY <1>2, <1>4 DEF o

\* handle_containers.
LEMMA ContainersPage ==
  ASSUME req \in Requests, req.endpoint = "containers", NEW range,
         NEW a \in Nat, NEW b \in Nat, a <= b,
         Window(range, a, b, HandleContainers(range).total)
  PROVE  Page(HandleContainers(range), a, b)
<1> DEFINE x == Ids(PlaylistOrder(Lists))
<1>0. x \in Seq(IdOf) /\ Len(x) = Len(Lists) /\ LibraryId \in IdOf
  BY PlaylistIds DEF IdOf, LibraryId
<1>1. Len(PlaylistOrder(Lists)) = Len(x)
  <2>1. Len(Lists) \in Nat
    BY ListingAssumption
  <2>2. Len(PlaylistOrder(Lists)) = Len(Lists)
    BY <2>1 DEF PlaylistOrder, StableSort
  <2> QED
    BY <1>0, <2>2
<1>2. HandleContainers(range) = Answer(Unnumbered(SlicePlaylists(range, x)), 1 + Len(x))
  BY <1>1 DEF HandleContainers
<1>3. Playlists = <<LibraryId>> \o x
  BY DEF Playlists
<1>4. 1 + Len(x) = Whole
  BY <1>0 DEF Whole
<1> HIDE DEF x
<1>5. Window(range, a, b, 1 + Len(x))
  BY <1>2 DEF Answer
<1>6. SlicePlaylists(range, x) = Cut(Playlists, a, b)
  BY <1>0, <1>3, <1>5, SliceCut
<1>7. Playlists \in Seq(IdOf)
  BY <1>0, <1>3, LibraryConcat
<1>8. Cut(Playlists, a, b) \in Seq(IdOf)
  BY <1>7, CutType
<1>9. Joined(Cut(Playlists, a, b), a, b)
  BY DEF Joined
<1> QED
  BY <1>2, <1>4, <1>6, <1>8, <1>9, UnnumberedPage

\* playlist_songs: the ids as the playlist has them.
LEMMA IdsPage ==
  ASSUME req \in Requests, req.endpoint = "container", NEW order \in Orders, NEW range,
         NEW a \in Nat, NEW b \in Nat, a <= b, ~ Full, Window(range, a, b, Whole)
  PROVE  Page(HandleIds(IdsOf(order, req.cid), range), a, b)
<1> DEFINE ids == IdsOf(order, req.cid)
<1>1. ids \in Seq(Nat) /\ Len(ids) = Whole
  BY IdsOfType
<1>2. IsList(req.cid) => ids = Entries(req.cid)
  BY IdsOfList
<1> HIDE DEF ids
<1>3. ApplyIndexRange(ids, range) = Cut(ids, a, b)
  BY <1>1, RangeCut
<1>4. HandleIds(ids, range) = Answer(Numbered(Cut(ids, a, b), a), Whole)
  BY <1>1, <1>3, WindowOffset DEF HandleIds
<1>5. Cut(ids, a, b) \in Seq(Nat) /\ Len(Cut(ids, a, b)) <= b - a
  BY <1>1, CutType
<1>6. Cut(ids, a, b) \in Seq(IdOf)
  BY <1>5, SomeIds
<1>7. Joined(Cut(ids, a, b), a, b)
  BY <1>2 DEF Joined
<1>8. Page(Answer(Numbered(Cut(ids, a, b), a), Whole), a, b)
  BY <1>5, <1>6, <1>7, NumberedPage
<1> QED
  BY <1>4, <1>8 DEF ids

\* playlist_songs_full: cut, then looked up.
LEMMA FullPage ==
  ASSUME req \in Requests, req.endpoint = "container", NEW order \in Orders, NEW range,
         NEW a \in Nat, NEW b \in Nat, a <= b, Full, req.sort = NoSort,
         Window(range, a, b, Whole)
  PROVE  Page(HandleFull(IdsOf(order, req.cid), range), a, b)
<1> DEFINE ids == IdsOf(order, req.cid)
           page == Resolved(Cut(ids, a, b))
<1>1. ids \in Seq(Nat) /\ Len(ids) = Whole
  BY IdsOfType
<1>2. IsList(req.cid) => ids = Entries(req.cid)
  BY IdsOfList
<1> HIDE DEF ids
<1>3. ApplyIndexRange(ids, range) = Cut(ids, a, b)
  BY <1>1, RangeCut
<1>4. HandleFull(ids, range) = Answer(Numbered(page, a), Whole)
  BY <1>1, <1>3, WindowOffset DEF HandleFull
<1>5. Cut(ids, a, b) \in Seq(Nat) /\ Len(Cut(ids, a, b)) <= b - a
  BY <1>1, CutType
<1>6. page \in Seq(Nat \cap Known) /\ Len(page) <= Len(Cut(ids, a, b))
  BY <1>5, ResolvedType
<1>7. Joined(page, a, b)
  BY <1>2 DEF Joined
<1>8. page \in Seq(IdOf)
  BY <1>6, SomeIds
<1>9. Len(page) <= b - a
  <2>1. Len(page) \in Nat /\ Len(Cut(ids, a, b)) \in Nat
    BY <1>5, <1>6
  <2> QED
    BY <1>5, <1>6, <2>1
<1> HIDE DEF page
<1>10. Page(Answer(Numbered(page, a), Whole), a, b)
  BY <1>7, <1>8, <1>9, NumberedPage
<1> QED
  BY <1>4, <1>10 DEF ids

\* The Library, sorted: the order of the source no longer shows.
LEMMA LibraryInOrder ==
  ASSUME req \in Requests, NEW order \in Orders
  PROVE  InOrder(order, req.sort.keys) = InOrder(Listed(Tracks), req.sort.keys)
<1>1. order \in Seq(Tracks) /\ KeysOK(req.sort.keys)
  BY OrderType, RequestKeys
<1>2. Kept(order, Tracks) = order
  BY <1>1, OrderEntries, KeptAll
<1>3. Ids(SortTracks(Kept(order, Tracks), req.sort)) = InOrder(Listed(Tracks), req.sort.keys)
  BY <1>1, SortedListed
<1>4. Ids(SortTracks(order, req.sort)) = InOrder(order, req.sort.keys)
  BY <1>1, SortedIsInOrder
<1> QED
  BY <1>2, <1>3, <1>4

\* playlist_songs_full with sort=: looked up, sorted, then cut.
LEMMA FullSortedPage ==
  ASSUME req \in Requests, req.endpoint = "container", NEW order \in Orders, NEW range,
         NEW a \in Nat, NEW b \in Nat, a <= b, Full, req.sort # NoSort,
         Window(range, a, b, Whole)
  PROVE  Page(HandleFullSorted(IdsOf(order, req.cid), range), a, b)
<1> DEFINE ids == IdsOf(order, req.cid)
           rows == Rows(ids)
           all == SortTracks(rows, req.sort)
           page == Cut(all, a, b)
<1>1. ids \in Seq(Nat) /\ Len(ids) = Whole
  BY IdsOfType
<1>2. IsList(req.cid) => ids = Entries(req.cid)
  BY IdsOfList
<1>3. req.cid = LibraryId => rows = order
  BY IdsOfLibrary, RowsOfOrder
<1> HIDE DEF ids
<1>4. rows \in Seq(Tracks) /\ Len(rows) = Len(Resolved(ids))
  BY <1>1, RowsType
<1>5. Resolved(ids) \in Seq(Nat \cap Known) /\ Len(Resolved(ids)) <= Len(ids)
  BY <1>1, ResolvedType
<1>6. KeysOK(req.sort.keys)
  BY RequestKeys
<1>7. HandleFullSorted(ids, range) =
        CASE all = <<>> /\ Offset(range) = 0 -> Panics
          [] range.range /\ Offset(range) > 0 /\ Offset(range) >= Len(all) -> Answer(<<>>, Len(ids))
          [] OTHER -> Answer(Numbered(Ids(ApplyIndexRange(all, range)), Offset(range)), Len(ids))
  BY DEF HandleFullSorted, Rows
<1> HIDE DEF rows
<1>8. all \in Seq(Tracks) /\ Len(all) = Len(rows)
  BY <1>4, <1>6, SortTracksType, SortTracksLen
<1>9. Ids(all) = InOrder(rows, req.sort.keys)
  BY <1>4, <1>6, SortedIsInOrder
<1> HIDE DEF all
<1>10. Len(all) \in Nat /\ Whole \in Nat /\ Len(all) <= Whole
  BY <1>1, <1>4, <1>5, <1>8
<1>11. Window(range, a, b, Len(all))
  BY <1>10, WindowLess
<1>12. ApplyIndexRange(all, range) = page /\ Offset(range) = a
  BY <1>8, <1>11, RangeCut, WindowOffset
<1>13. page \in Seq(Tracks) /\ Len(page) <= b - a
  BY <1>8, CutType
<1>14. Ids(page) = Cut(InOrder(rows, req.sort.keys), a, b)
  BY <1>8, <1>9, IdsOfCut
<1>15. Joined(Ids(page), a, b)
  <2>1. IsList(req.cid) =>
          InOrder(rows, req.sort.keys) = InOrder(Rows(Entries(req.cid)), req.sort.keys)
    BY <1>2 DEF rows
  <2>2. req.cid = LibraryId => InOrder(rows, req.sort.keys) = InOrder(Listed(Tracks), req.sort.keys)
    BY <1>3, LibraryInOrder
  <2> QED
    BY <1>14, <2>1, <2>2 DEF Joined
<1>16. Page(Answer(Numbered(Ids(page), a), Whole), a, b)
  <2> HIDE DEF page
  <2>1. Len(page) \in Nat /\ \A i \in 1 .. Len(page) : page[i].id \in Nat
    BY <1>13, ListingAssumption
  <2>2. Ids(page) \in Seq(Nat) /\ Len(Ids(page)) = Len(page)
    BY <2>1, IdsType
  <2>3. Ids(page) \in Seq(IdOf)
    BY <2>2, SomeIds
  <2> QED
    BY <1>13, <1>15, <2>2, <2>3, NumberedPage
<1>17. CASE all = <<>> /\ a = 0
  <2>1. HandleFullSorted(ids, range) = Panics
    BY <1>7, <1>12, <1>17
  <2> QED
    BY <2>1, NoPage DEF ids
<1>18. CASE range.range /\ a > 0 /\ a >= Len(all)
  <2>1. HandleFullSorted(ids, range) = Answer(<<>>, Whole)
    BY <1>1, <1>7, <1>12, <1>18
  <2>2. page = <<>>
    BY <1>8, <1>10, <1>18, CutEmpty
  <2>3. Ids(<<>>) = <<>>
    BY DEF Ids
  <2>4. Joined(<<>>, a, b)
    BY <1>15, <2>2, <2>3
  <2> QED
    BY <2>1, <2>4, EmptyPage DEF ids
<1>19. CASE /\ ~ (all = <<>> /\ a = 0)
            /\ ~ (range.range /\ a > 0 /\ a >= Len(all))
  <2>1. HandleFullSorted(ids, range) = Answer(Numbered(Ids(page), a), Whole)
    BY <1>1, <1>7, <1>12, <1>19
  <2> QED
    BY <1>16, <2>1 DEF ids
<1> QED
  BY <1>17, <1>18, <1>19

\* handle_container_items.
LEMMA ContainerItemsPage ==
  ASSUME req \in Requests, req.endpoint = "container", NEW order \in Orders, NEW range,
         NEW a \in Nat, NEW b \in Nat, a <= b,
         Window(range, a, b, HandleContainerItems(order, range).total)
  PROVE  Page(HandleContainerItems(order, range), a, b)
<1> DEFINE ids == IdsOf(order, req.cid)
           h == HandleContainerItems(order, range)
<1>1. Len(ids) = Whole
  BY IdsOfType
<1>2. CASE ~ Full
  <2>1. h = HandleIds(ids, range)
    BY <1>2 DEF HandleContainerItems, Full
  <2>2. h.total = Whole
    BY <1>1, <2>1 DEF HandleIds, Answer
  <2> QED
    BY <1>2, <2>1, <2>2, IdsPage
<1>3. CASE Full /\ req.sort = BadSort
  <2>1. NoSort # BadSort
    BY DEF NoSort, BadSort
  <2>2. h = BadRequest
    BY <1>3, <2>1 DEF HandleContainerItems, Full
  <2> QED
    BY <2>2, NoPage
<1>4. CASE Full /\ req.sort = NoSort
  <2>1. NoSort # BadSort
    BY DEF NoSort, BadSort
  <2>2. h = HandleFull(ids, range)
    BY <1>4, <2>1 DEF HandleContainerItems, Full
  <2>3. h.total = Whole
    BY <1>1, <2>2 DEF HandleFull, Answer
  <2> QED
    BY <1>4, <2>2, <2>3, FullPage
<1>5. CASE Full /\ req.sort # BadSort /\ req.sort # NoSort
  <2>1. h = HandleFullSorted(ids, range)
    BY <1>5 DEF HandleContainerItems, Full
  <2>2. h = Panics \/ h.total = Len(ids)
    BY <2>1 DEF HandleFullSorted, Answer
  <2>3. CASE h = Panics
    BY <2>3, NoPage
  <2>4. CASE h.total = Len(ids)
    BY <1>1, <1>5, <2>1, <2>4, FullSortedPage
  <2> QED
    BY <2>2, <2>3, <2>4
<1> QED
  BY <1>2, <1>3, <1>4, <1>5

\* Whatever order the source answers in, a request is answered with the page
\* that it is for.
LEMMA HandlePage ==
  ASSUME req \in Requests, NEW order \in Orders, NEW range,
         NEW a \in Nat, NEW b \in Nat, a <= b,
         Window(range, a, b, Handle(order, range).total)
  PROVE  Page(Handle(order, range), a, b)
<1>1. req.endpoint \in {"items", "containers", "container"}
  BY RequestType
<1>2. CASE req.endpoint = "items"
  BY <1>2, ItemsPage DEF Handle
<1>3. CASE req.endpoint = "containers"
  BY <1>3, ContainersPage DEF Handle
<1>4. CASE req.endpoint = "container"
  BY <1>4, ContainerItemsPage DEF Handle
<1> QED
  BY <1>1, <1>2, <1>3, <1>4

\* The length of a listing is a number,
LEMMA WholeType ==
  ASSUME req \in Requests
  PROVE  Whole \in Nat
<1>1. CASE req.endpoint = "items"
  <2>1. IsFiniteSet(Wanted)
    <3>1. IsFiniteSet(Tracks) /\ Wanted \subseteq Tracks
      BY ListingAssumption DEF Wanted
    <3> QED
      BY <3>1, FS_Subset
  <2>2. Cardinality(Wanted) \in Nat
    BY <2>1, FS_CardinalityType
  <2> QED
    BY <1>1, <2>2 DEF Whole
<1>2. CASE req.endpoint = "containers"
  <2>1. Len(Lists) \in Nat
    BY ListingAssumption
  <2> QED
    BY <1>2, <2>1 DEF Whole
<1>3. CASE req.endpoint = "container"
  <2>1. PICK order \in Orders : TRUE
    BY ListingAssumption
  <2>2. IdsOf(order, req.cid) \in Seq(Nat) /\ Len(IdsOf(order, req.cid)) = Whole
    BY <1>3, IdsOfType
  <2> DEFINE ids == IdsOf(order, req.cid)
  <2> HIDE DEF ids
  <2>3. Len(ids) \in Nat
    BY <2>2 DEF ids
  <2> QED
    BY <2>2, <2>3 DEF ids
<1> QED
  BY <1>1, <1>2, <1>3, RequestType

\* The total of an answer, right or not, does not depend on the page.
LEMMA TotalType ==
  ASSUME req \in Requests, NEW order \in Orders, NEW range
  PROVE  Handle(order, range).total \in {0, Whole}
<1>1. CASE req.endpoint = "items"
  <2> DEFINE S == {t \in Tracks : req.query = NoQuery \/ Matches(req.query, t)}
             sorted == SortTracks(Kept(order, S), req.sort)
  <2>1. Len(sorted) = Cardinality(Tracks \cap S)
    <3> HIDE DEF S
    <3> QED
      BY RequestKeys, SortedListed
  <2>2. Len(sorted) = Whole
    BY <1>1, <2>1, MatchingIsWanted DEF Whole
  <2>3. sorted = SortTracks(Matching(order), req.sort)
    BY DEF Matching
  <2> HIDE DEF sorted
  <2>4. HandleItems(order, range).total \in {0, Len(sorted)}
    BY <2>3 DEF HandleItems, BadRequest, Answer
  <2> QED
    BY <1>1, <2>2, <2>4 DEF Handle
<1>2. CASE req.endpoint = "containers"
  <2>1. Len(Lists) \in Nat
    BY ListingAssumption
  <2>2. Len(PlaylistOrder(Lists)) = Len(Lists)
    BY <2>1 DEF PlaylistOrder, StableSort
  <2>3. HandleContainers(range).total = 1 + Len(Lists)
    BY <2>2 DEF HandleContainers, Answer
  <2> QED
    BY <1>2, <2>3 DEF Handle, Whole
<1>3. CASE req.endpoint = "container"
  <2> DEFINE ids == IdsOf(order, req.cid)
  <2>1. Len(ids) = Whole
    BY <1>3, IdsOfType
  <2> HIDE DEF ids
  <2>2. HandleIds(ids, range).total = Len(ids) /\ HandleFull(ids, range).total = Len(ids)
    BY DEF HandleIds, HandleFull, Answer
  <2>3. HandleFullSorted(ids, range).total \in {0, Len(ids)}
    BY DEF HandleFullSorted, Panics, Answer
  <2>4. HandleContainerItems(order, range) \in
          {HandleIds(ids, range), BadRequest, HandleFull(ids, range), HandleFullSorted(ids, range)}
    BY DEF HandleContainerItems, ids
  <2>5. BadRequest.total = 0
    BY DEF BadRequest
  <2>6. HandleContainerItems(order, range).total \in {0, Len(ids)}
    BY <2>2, <2>3, <2>4, <2>5
  <2> QED
    BY <1>3, <2>1, <2>6 DEF Handle
<1> QED
  BY <1>1, <1>2, <1>3, RequestType

(***************************************************************************)
(* Pages that join                                                         *)
(***************************************************************************)
LEMMA IdsConcat ==
  ASSUME NEW T, NEW x \in Seq(T), NEW y \in Seq(T)
  PROVE  Ids(x \o y) = Ids(x) \o Ids(y)
<1> DEFINE z == x \o y
           U == {x[i].id : i \in 1 .. Len(x)} \cup {y[i].id : i \in 1 .. Len(y)}
<1>1. Len(x) \in Nat /\ Len(y) \in Nat
  OBVIOUS
<1>2. z \in Seq(T)
  OBVIOUS
<1>3. Len(z) = Len(x) + Len(y)
  BY ConcatLen
<1>4. \A i \in 1 .. Len(x) : z[i] = x[i]
  BY ConcatFirst
<1>5. \A i \in 1 .. Len(y) : z[Len(x) + i] = y[i]
  BY ConcatSecond
<1> HIDE DEF z
<1>6. Ids(x) \in Seq(U) /\ Ids(y) \in Seq(U) /\ Len(Ids(x)) = Len(x) /\ Len(Ids(y)) = Len(y)
  BY SMTT(40), <1>1, IdsType
<1>7. \A i \in 1 .. Len(z) : z[i].id \in U
  <2> TAKE i \in 1 .. Len(z)
  <2>1. CASE i \in 1 .. Len(x)
    BY <1>4, <2>1
  <2>2. CASE i \notin 1 .. Len(x)
    <3>1. i - Len(x) \in 1 .. Len(y) /\ Len(x) + (i - Len(x)) = i
      BY <1>1, <1>3, <2>2
    <3>2. z[i] = y[i - Len(x)]
      BY <1>5, <3>1
    <3> QED
      BY <3>1, <3>2
  <2> QED
    BY <2>1, <2>2
<1> HIDE DEF U
<1>8. Ids(z) \in Seq(U) /\ Len(Ids(z)) = Len(z)
  <2>1. Len(z) \in Nat
    BY <1>1, <1>3
  <2> QED
    BY <1>7, <2>1, IdsType
<1> DEFINE w == Ids(x) \o Ids(y)
<1>9. w \in Seq(U)
  BY <1>6
<1>10. Len(w) = Len(z)
  BY <1>3, <1>6, ConcatLen
<1>11. \A i \in 1 .. Len(x) : Ids(x)[i] = x[i].id
  BY DEF Ids
<1>12. \A i \in 1 .. Len(y) : Ids(y)[i] = y[i].id
  BY DEF Ids
<1>13. \A i \in 1 .. Len(z) : Ids(z)[i] = z[i].id
  BY DEF Ids
<1>14. \A i \in 1 .. Len(x) : w[i] = x[i].id
  BY <1>6, <1>11, ConcatFirst
<1>15. \A i \in 1 .. Len(y) : w[Len(x) + i] = y[i].id
  BY <1>6, <1>12, ConcatSecond
<1> HIDE DEF w
<1>16. \A i \in 1 .. Len(z) : Ids(z)[i] = w[i]
  <2> TAKE i \in 1 .. Len(z)
  <2>1. CASE i \in 1 .. Len(x)
    BY <1>4, <1>13, <1>14, <2>1
  <2>2. CASE i \notin 1 .. Len(x)
    <3>1. i - Len(x) \in 1 .. Len(y) /\ Len(x) + (i - Len(x)) = i
      BY <1>1, <1>3, <2>2
    <3>2. z[i] = y[i - Len(x)] /\ w[i] = y[i - Len(x)].id
      BY <1>5, <1>15, <3>1
    <3> QED
      BY <1>13, <3>2
  <2> QED
    BY <2>1, <2>2
<1>17. Ids(z) = w
  BY <1>8, <1>9, <1>10, <1>16, SeqEqual
<1> QED
  BY <1>17 DEF z, w

\* The listing of tracks is as long as the tracks are many.
LEMMA InOrderType ==
  ASSUME req \in Requests, NEW s \in Seq(Tracks)
  PROVE  InOrder(s, req.sort.keys) \in Seq(Nat) /\ Len(InOrder(s, req.sort.keys)) = Len(s)
<1> DEFINE x == SortTracks(s, req.sort)
<1>1. x \in Seq(Tracks) /\ Len(x) = Len(s) /\ Ids(x) = InOrder(s, req.sort.keys)
  BY RequestKeys, SortTracksType, SortTracksLen, SortedIsInOrder
<1> HIDE DEF x
<1>2. Len(x) \in Nat /\ \A i \in 1 .. Len(x) : x[i].id \in Nat
  BY <1>1, ListingAssumption
<1> QED
  BY <1>1, <1>2, IdsType

\* The source lists every track once.
LEMMA ListedType ==
  ASSUME NEW S
  PROVE  Listed(S) \in Seq(Tracks) /\ Len(Listed(S)) = Cardinality(Tracks \cap S)
<1> DEFINE c == CHOOSE order \in Orders : TRUE
<1>1. c \in Orders
  BY ListingAssumption
<1>2. Listed(S) = Kept(c, S)
  BY DEF Listed
<1> HIDE DEF c
<1>3. Kept(c, S) \in Seq(Tracks \cap S)
  BY <1>1, OrderType, KeptType
<1>4. Kept(c, S) \in Seq(Tracks)
  BY <1>3
<1>5. Distinct(Kept(c, S)) /\ EntriesOf(Kept(c, S)) = Tracks \cap S
  BY <1>1, OrderType, OrderDistinct, OrderEntries, KeptDistinct
<1> QED
  BY <1>2, <1>4, <1>5, LenEntries

\* A playlist is a sequence of ids.
LEMMA EntriesType ==
  ASSUME NEW cid, IsList(cid)
  PROVE  Entries(cid) \in Seq(Nat)
BY EntriesAre DEF IsList

\* A page after what there is already.
LEMMA JoinedNext ==
  ASSUME req \in Requests, NEW x, NEW y, NEW a \in Nat, NEW b \in Nat, NEW c \in Nat,
         a <= b, b <= c, Joined(x, a, b), Joined(y, b, c)
  PROVE  Joined(x \o y, a, c)
<1>1. ASSUME req.endpoint = "items"
      PROVE  x \o y = Cut(InOrder(Listed(Wanted), req.sort.keys), a, c)
  <2>1. InOrder(Listed(Wanted), req.sort.keys) \in Seq(Nat)
    BY ListedType, InOrderType
  <2>2. /\ x = Cut(InOrder(Listed(Wanted), req.sort.keys), a, b)
        /\ y = Cut(InOrder(Listed(Wanted), req.sort.keys), b, c)
    BY <1>1 DEF Joined
  <2> QED
    BY <2>1, <2>2, CutJoin
<1>2. ASSUME req.endpoint = "containers"
      PROVE  x \o y = Cut(Playlists, a, c)
  <2>1. Playlists \in Seq(IdOf)
    BY PlaylistIds, LibraryConcat DEF Playlists, IdOf, LibraryId
  <2>2. x = Cut(Playlists, a, b) /\ y = Cut(Playlists, b, c)
    BY <1>2 DEF Joined
  <2> QED
    BY <2>1, <2>2, CutJoin
<1>3. ASSUME req.endpoint = "container", IsList(req.cid), ~ Full
      PROVE  x \o y = Cut(Entries(req.cid), a, c)
  <2>1. Entries(req.cid) \in Seq(Nat)
    BY <1>3, EntriesType
  <2>2. x = Cut(Entries(req.cid), a, b) /\ y = Cut(Entries(req.cid), b, c)
    BY <1>3 DEF Joined
  <2> QED
    BY <2>1, <2>2, CutJoin
<1>4. ASSUME req.endpoint = "container", IsList(req.cid), Full, req.sort = NoSort
      PROVE  x \o y = Resolved(Cut(Entries(req.cid), a, c))
  <2> DEFINE s == Entries(req.cid)
  <2>1. s \in Seq(Nat)
    BY <1>4, EntriesType
  <2>2. x = Resolved(Cut(s, a, b)) /\ y = Resolved(Cut(s, b, c))
    BY <1>4 DEF Joined
  <2> HIDE DEF s
  <2>3. Cut(s, a, b) \in Seq(Nat) /\ Cut(s, b, c) \in Seq(Nat)
    BY <2>1, CutType
  <2>4. Kept(Cut(s, a, b) \o Cut(s, b, c), Known)
          = Kept(Cut(s, a, b), Known) \o Kept(Cut(s, b, c), Known)
    BY <2>3, KeptConcat
  <2>5. Cut(s, a, b) \o Cut(s, b, c) = Cut(s, a, c)
    BY <2>1, CutJoin
  <2> QED
    BY <2>2, <2>4, <2>5 DEF Resolved, s
<1>5. ASSUME req.endpoint = "container", IsList(req.cid), Full, req.sort # NoSort
      PROVE  x \o y = Cut(InOrder(Rows(Entries(req.cid)), req.sort.keys), a, c)
  <2> DEFINE s == InOrder(Rows(Entries(req.cid)), req.sort.keys)
  <2>1. s \in Seq(Nat)
    BY <1>5, EntriesType, RowsType, InOrderType
  <2>2. x = Cut(s, a, b) /\ y = Cut(s, b, c)
    BY <1>5 DEF Joined
  <2> QED
    BY <2>1, <2>2, CutJoin
<1>6. ASSUME req.endpoint = "container", req.cid = LibraryId, Full, req.sort # NoSort
      PROVE  x \o y = Cut(InOrder(Listed(Tracks), req.sort.keys), a, c)
  <2>1. InOrder(Listed(Tracks), req.sort.keys) \in Seq(Nat)
    BY ListedType, InOrderType
  <2>2. /\ x = Cut(InOrder(Listed(Tracks), req.sort.keys), a, b)
        /\ y = Cut(InOrder(Listed(Tracks), req.sort.keys), b, c)
    BY <1>6 DEF Joined
  <2> QED
    BY <2>1, <2>2, CutJoin
<1> QED
  BY <1>1, <1>2, <1>3, <1>4, <1>5, <1>6 DEF Joined

\* Before the first page there is nothing, and that is right.
LEMMA JoinedNone ==
  ASSUME req \in Requests, NEW a \in Nat
  PROVE  Joined(<<>>, a, a)
<1>1. \A s \in Seq(Nat) \cup Seq(IdOf) : Cut(s, a, a) = <<>>
  BY CutEmpty
<1>2. /\ InOrder(Listed(Wanted), req.sort.keys) \in Seq(Nat)
      /\ InOrder(Listed(Tracks), req.sort.keys) \in Seq(Nat)
  BY ListedType, InOrderType
<1>3. Playlists \in Seq(IdOf)
  BY PlaylistIds, LibraryConcat DEF Playlists, IdOf, LibraryId
<1>4. IsList(req.cid) => Entries(req.cid) \in Seq(Nat)
  BY EntriesType
<1>5. IsList(req.cid) => InOrder(Rows(Entries(req.cid)), req.sort.keys) \in Seq(Nat)
  BY EntriesType, RowsType, InOrderType
<1>6. Resolved(<<>>) = <<>>
  <2>1. <<>> \in Seq(Nat) /\ EntriesOf(<<>>) = {}
    BY DEF EntriesOf
  <2> QED
    BY <2>1, KeptAll DEF Resolved
<1> QED
  BY <1>1, <1>2, <1>3, <1>4, <1>5, <1>6 DEF Joined

\* Positions that grow within two adjoining pages grow over both.
LEMMA FitsNext ==
  ASSUME NEW x \in Seq(EntryType), NEW y \in Seq(EntryType),
         NEW a \in Nat, NEW b \in Nat, NEW c \in Nat, a <= b, b <= c,
         Fits(x, a, b), Fits(y, b, c)
  PROVE  Fits(x \o y, a, c)
<1> DEFINE z == x \o y
           p(i) == z[i].mpco
           In(v) == v = None \/ v \in Nat
<1>1. Len(x) \in Nat /\ Len(y) \in Nat
  OBVIOUS
<1>2. Len(z) = Len(x) + Len(y)
  BY ConcatLen
<1>3. \A i \in 1 .. Len(x) : z[i] = x[i]
  BY ConcatFirst
<1>4. \A i \in 1 .. Len(y) : z[Len(x) + i] = y[i]
  BY ConcatSecond
<1> HIDE DEF z
<1>5. ASSUME NEW i \in 1 .. Len(z), i \notin 1 .. Len(x)
      PROVE  i - Len(x) \in 1 .. Len(y) /\ z[i] = y[i - Len(x)]
  <2>1. i - Len(x) \in 1 .. Len(y) /\ Len(x) + (i - Len(x)) = i
    BY <1>1, <1>2, <1>5
  <2> QED
    BY <1>4, <2>1
<1>6. ASSUME NEW i \in 1 .. Len(z)
      PROVE  z[i].mpco = None \/ z[i].mpco \in a + 1 .. c
  <2>1. CASE i \in 1 .. Len(x)
    <3>1. x[i].mpco = None \/ x[i].mpco \in a + 1 .. b
      BY <2>1 DEF Fits
    <3> QED
      BY <1>3, <2>1, <3>1
  <2>2. CASE i \notin 1 .. Len(x)
    <3>1. i - Len(x) \in 1 .. Len(y) /\ z[i] = y[i - Len(x)]
      BY <1>5, <2>2
    <3>2. z[i].mpco = None \/ z[i].mpco \in b + 1 .. c
      BY <3>1 DEF Fits
    <3> QED
      BY <3>2
  <2> QED
    BY <2>1, <2>2
<1>7. ASSUME NEW i \in 1 .. Len(z), NEW j \in 1 .. Len(z), i < j
      PROVE  z[i].mpco = None \/ z[j].mpco = None \/ z[i].mpco < z[j].mpco
  <2>1. CASE j \in 1 .. Len(x)
    <3>1. i \in 1 .. Len(x)
      BY <1>1, <1>2, <1>7, <2>1
    <3>2. z[i] = x[i] /\ z[j] = x[j]
      BY <1>3, <2>1, <3>1
    <3>3. x[i].mpco = None \/ x[j].mpco = None \/ x[i].mpco < x[j].mpco
      BY <1>7, <2>1, <3>1 DEF Fits
    <3> QED
      BY <3>2, <3>3
  <2>2. CASE i \in 1 .. Len(x) /\ j \notin 1 .. Len(x)
    <3>1. z[i].mpco = None \/ z[i].mpco \in a + 1 .. b
      BY <1>3, <2>2 DEF Fits
    <3>2. j - Len(x) \in 1 .. Len(y) /\ z[j] = y[j - Len(x)]
      BY <1>5, <2>2
    <3>3. z[j].mpco = None \/ z[j].mpco \in b + 1 .. c
      BY <3>2 DEF Fits
    <3> QED
      BY SMTT(40), <3>1, <3>3
  <2>3. CASE i \notin 1 .. Len(x) /\ j \notin 1 .. Len(x)
    <3>1. i - Len(x) \in 1 .. Len(y) /\ z[i] = y[i - Len(x)]
      BY <1>5, <2>3
    <3>2. j - Len(x) \in 1 .. Len(y) /\ z[j] = y[j - Len(x)]
      BY <1>5, <2>3
    <3>3. i - Len(x) < j - Len(x)
      BY <1>1, <1>2, <1>7
    <3> QED
      BY <3>1, <3>2, <3>3 DEF Fits
  <2> QED
    BY <2>1, <2>2, <2>3
<1> QED
  BY <1>6, <1>7 DEF Fits, z

\* The entries so far are those of the listing up to the after page, whatever
\* order the source answered each request in.
IInv ==
  /\ req \in Requests
  /\ first \in Nat /\ start \in Nat /\ first <= start
  /\ got \in Seq(EntryType)
  /\ totals \subseteq {Whole}
  /\ status \in {"paging", "done", "refused", "panicked"}
  /\ Fits(got, first, start)
  /\ status \in {"paging", "done"} => Joined(Ids(got), first, start)
  /\ status = "done" => Whole <= start

\* It holds before the first request,
LEMMA InitInv ==
  ASSUME Init
  PROVE  IInv
<1>1. req \in Requests /\ first \in Nat /\ start = first
  <2>1. Cardinality(Tracks) \in Nat
    BY ListingAssumption, FS_CardinalityType
  <2> QED
    BY <2>1 DEF Init
<1>2. got = <<>> /\ <<>> \in Seq(EntryType) /\ Len(<<>>) = 0 /\ Ids(<<>>) = <<>>
  BY DEF Init, Ids
<1>3. Fits(<<>>, first, start)
  BY <1>2 DEF Fits
<1>4. Joined(Ids(got), first, start)
  BY <1>1, <1>2, JoinedNone
<1> QED
  BY <1>1, <1>2, <1>3, <1>4 DEF Init, IInv

\* The three kinds of request are one: for the entries from start up to after.
LEMMA StepForm ==
  ASSUME IInv, Next
  PROVE  \E order \in Orders, after \in Nat : \E range :
           /\ status = "paging" /\ start <= after
           /\ Window(range, start, after, Handle(order, range).total)
           /\ Receive(Handle(order, range), after)
<1>1. req \in Requests /\ first \in Nat /\ start \in Nat
  BY DEF IInv
<1>2. \A order \in Orders : \A range : Handle(order, range).total \in Nat
  BY <1>1, TotalType, WholeType
<1>3. CASE FetchPage
  <2> DEFINE raw == [wellformed |-> TRUE, open |-> FALSE, a |-> start, b |-> start + req.page - 1]
             range == ParseIndex(raw)
             after == start + req.page
  <2>1. req.page \in Nat /\ 1 <= req.page
    BY <1>1, RequestType
  <2>2. after \in Nat /\ start < after /\ start + req.page - 1 = after - 1 /\ ~ (raw.b < raw.a)
    BY <1>1, <2>1
  <2>3. range = [range |-> TRUE, start |-> start, open |-> FALSE, end |-> after - 1]
    BY <2>2 DEF ParseIndex
  <2>4. PICK order \in Orders : Receive(Handle(order, range), after)
    BY <1>3 DEF FetchPage, PageOf
  <2>5. Window(range, start, after, Handle(order, range).total)
    BY <2>2, <2>3 DEF Window
  <2>6. status = "paging" /\ start <= after
    BY <1>1, <1>3, <2>2 DEF FetchPage
  <2> HIDE DEF range, after
  <2>7. after \in Nat
    BY <2>2
  <2> WITNESS order \in Orders, after \in Nat
  <2> WITNESS range
  <2> QED
    BY <2>4, <2>5, <2>6
<1>4. CASE FetchRest
  <2> DEFINE raw == [wellformed |-> TRUE, open |-> TRUE, a |-> start, b |-> 0]
             range == ParseIndex(raw)
  <2>1. range = [range |-> TRUE, start |-> start, open |-> TRUE, end |-> 0]
    BY DEF ParseIndex
  <2>2. PICK order \in Orders : Receive(Handle(order, range), AfterRest(Handle(order, range)))
    BY <1>4 DEF FetchRest, RestOf
  <2> DEFINE after == AfterRest(Handle(order, range))
  <2> HIDE DEF range
  <2>3. Handle(order, range).total \in Nat
    BY <1>2
  <2>4. after \in Nat /\ start <= after /\ Handle(order, range).total <= after
    BY <1>1, <2>3 DEF AfterRest
  <2>5. Window(range, start, after, Handle(order, range).total)
    BY <2>1, <2>4 DEF Window
  <2>6. status = "paging"
    BY <1>4 DEF FetchRest
  <2> HIDE DEF after
  <2>7. Receive(Handle(order, range), after)
    BY <2>2 DEF after
  <2>8. after \in Nat /\ start <= after
    BY <2>4 DEF after
  <2> USE <2>8
  <2> WITNESS order \in Orders, after \in Nat
  <2> WITNESS range
  <2> QED
    BY <2>5, <2>6, <2>7, <2>8
<1>5. CASE FetchWhole
  <2> DEFINE raw(w) == [wellformed |-> w, open |-> FALSE, a |-> 2, b |-> 1]
             range == NoRange
  <2>1. \A w \in BOOLEAN : ParseIndex(raw(w)) = NoRange
    BY DEF ParseIndex
  <2>2. PICK order \in Orders, w \in BOOLEAN :
          Receive(Handle(order, ParseIndex(raw(w))), Handle(order, ParseIndex(raw(w))).total)
    BY <1>5 DEF FetchWhole, WholeOf
  <2> DEFINE after == Handle(order, range).total
  <2>3. Receive(Handle(order, range), after)
    BY <2>1, <2>2
  <2>4. start = 0 /\ after \in Nat
    BY <1>2, <1>5 DEF FetchWhole
  <2>5. Window(range, start, after, Handle(order, range).total)
    BY <2>4 DEF Window
  <2>6. status = "paging" /\ start <= after
    BY <1>5, <2>4 DEF FetchWhole
  <2> HIDE DEF range, after
  <2>7. after \in Nat
    BY <2>4
  <2> WITNESS order \in Orders, after \in Nat
  <2> WITNESS range
  <2> QED
    BY <2>3, <2>5, <2>6
<1> QED
  BY <1>3, <1>4, <1>5 DEF Next

\* an answer that is right for the request keeps it,
LEMMA ReceiveInv ==
  ASSUME IInv, status = "paging", NEW answer, NEW after \in Nat, start <= after,
         Page(answer, start, after), Receive(answer, after)
  PROVE  IInv'
<1> USE DEF Receive
<1>1. req' = req /\ first' = first /\ start' = after /\ got' = got \o answer.entries
  OBVIOUS
<1>2. Whole' = Whole
  BY <1>1 DEF Whole, Wanted
<1>3. got \in Seq(EntryType) /\ answer.entries \in Seq(EntryType)
  BY DEF IInv, Page
<1>4. got' \in Seq(EntryType)
  BY <1>1, <1>3
<1>5. totals' \subseteq {Whole}
  BY DEF IInv, Page
<1>6. first \in Nat /\ start \in Nat /\ first <= start /\ first' <= start'
  BY <1>1 DEF IInv
<1>7. Fits(got', first', start')
  <2>1. Fits(got, first, start) /\ Fits(answer.entries, start, after)
    BY DEF IInv, Page
  <2> QED
    BY <1>1, <1>3, <1>6, <2>1, FitsNext
<1>8. status' \in {"paging", "done"} => answer.is = "ok"
  BY DEF Page
<1>9. status' \in {"paging", "done", "refused", "panicked"}
  BY DEF Page
<1>10. status' = "done" => Whole <= after
  BY <1>8 DEF Page
<1>11. answer.is = "ok" => Joined(Ids(got'), first, after)
  <2> SUFFICES ASSUME answer.is = "ok" PROVE Joined(Ids(got'), first, after)
    OBVIOUS
  <2>1. Joined(Ids(got), first, start) /\ Joined(Ids(answer.entries), start, after)
    BY DEF IInv, Page
  <2>2. Ids(got') = Ids(got) \o Ids(answer.entries)
    BY <1>1, <1>3, IdsConcat
  <2>3. req \in Requests
    BY DEF IInv
  <2> QED
    BY <1>6, <2>1, <2>2, <2>3, JoinedNext
<1>12. \A x, a, b : Joined(x, a, b) => Joined(x, a, b)'
  BY <1>1 DEF Joined, Full, Wanted
<1> QED
  BY <1>1, <1>2, <1>4, <1>5, <1>6, <1>7, <1>8, <1>9, <1>10, <1>11, <1>12 DEF IInv

\* and so does every step.
LEMMA NextInv ==
  ASSUME IInv, [Next]_vars
  PROVE  IInv'
<1>1. CASE Next
  <2>1. PICK order \in Orders, after \in Nat : \E range :
           /\ status = "paging" /\ start <= after
           /\ Window(range, start, after, Handle(order, range).total)
           /\ Receive(Handle(order, range), after)
    BY <1>1, StepForm
  <2> PICK range : /\ status = "paging" /\ start <= after
                   /\ Window(range, start, after, Handle(order, range).total)
                   /\ Receive(Handle(order, range), after)
    BY <2>1
  <2>2. req \in Requests /\ start \in Nat
    BY DEF IInv
  <2>3. Page(Handle(order, range), start, after)
    BY <2>2, HandlePage
  <2> QED
    BY <2>3, ReceiveInv
<1>2. CASE UNCHANGED vars
  <2>1. /\ req' = req /\ got' = got /\ first' = first /\ start' = start
        /\ totals' = totals /\ status' = status
    BY <1>2 DEF vars
  <2>2. Whole' = Whole
    BY <2>1 DEF Whole, Wanted
  <2>3. \A x, a, b : Joined(x, a, b) => Joined(x, a, b)'
    BY <2>1 DEF Joined, Full, Wanted
  <2> QED
    BY <2>1, <2>2, <2>3 DEF IInv
<1> QED
  BY <1>1, <1>2

\* Whatever the client asks for and in whatever order the source answers each
\* request, what http.rs has sent so far is the listing up to the after page.
THEOREM Invariant == Spec => []IInv
BY InitInv, NextInv, PTL DEF Spec

\* The pages of http.rs carry positions from 1 on, or none, and mtco is a number.
THEOREM TypeCorrect == Spec => []TypeOK
<1>1. IInv => TypeOK
  <2> SUFFICES ASSUME IInv PROVE TypeOK
    OBVIOUS
  <2>1. totals \subseteq Nat
    BY WholeType DEF IInv
  <2>2. ASSUME NEW i \in 1 .. Len(got)
        PROVE  got[i].mpco \in (Nat \ {0}) \cup {None}
    <3>1. got[i].mpco = None \/ got[i].mpco \in first + 1 .. start
      BY DEF IInv, Fits
    <3>2. first \in Nat /\ start \in Nat
      BY DEF IInv
    <3> QED
      BY <3>1, <3>2
  <2> QED
    BY <2>1, <2>2 DEF IInv, TypeOK
<1> QED
  BY <1>1, Invariant, PTL

\* What was sent so far says that positions grow and totals are whole.
LEMMA PositionsAre == IInv => PositionsGrow
BY DEF IInv, Fits, PositionsGrow

LEMMA TotalsAre == IInv => TotalIsWhole
BY DEF IInv, TotalIsWhole, Whole, IsList

\* playlist_songs and playlist_songs_full number their entries from the index
\* asked for on: over all pages no position comes twice nor goes backwards.
THEOREM PositionsAlwaysGrow == Spec => []PositionsGrow
BY PositionsAre, Invariant, PTL

\* handle_items, handle_containers and handle_container_items send the length of
\* the whole listing as mtco with every page of it.
THEOREM TotalAlwaysWhole == Spec => []TotalIsWhole
BY TotalsAre, Invariant, PTL

\* The pages from the index a on, up to one that is not before the end.
LEMMA CutFrom ==
  ASSUME NEW s, Len(s) \in Nat, NEW b \in Nat, Len(s) <= b
  PROVE  Cut(s, first, b) = From(s)
<1>1. ~ (b < Len(s))
  OBVIOUS
<1> QED
  BY <1>1 DEF Cut, From

\* A listing that is done is there from its first index on.
LEMMA PagesAre == IInv => PagesJoin
<1> SUFFICES ASSUME IInv, status = "done" PROVE PagesJoin
  BY DEF PagesJoin, ItemPagesJoin, PlaylistPagesJoin, LibraryPagesJoin, ContainerPagesJoin
<1>1. req \in Requests /\ start \in Nat /\ Whole <= start /\ Joined(GotIds, first, start)
  BY DEF IInv, GotIds, Ids
<1>2. ItemPagesJoin
  <2> SUFFICES ASSUME req.endpoint = "items"
               PROVE  GotIds = From(InOrder(Listed(Wanted), req.sort.keys))
    BY DEF ItemPagesJoin
  <2> DEFINE s == InOrder(Listed(Wanted), req.sort.keys)
  <2>1. GotIds = Cut(s, first, start)
    BY <1>1 DEF Joined
  <2>2. Tracks \cap Wanted = Wanted
    BY DEF Wanted
  <2>3. s \in Seq(Nat) /\ Len(s) = Len(Listed(Wanted))
    BY <1>1, ListedType, InOrderType
  <2>4. Len(s) = Whole
    BY <2>2, <2>3, ListedType DEF Whole
  <2> HIDE DEF s
  <2>5. Len(s) \in Nat
    BY <2>3
  <2> QED
    BY <1>1, <2>1, <2>4, <2>5, CutFrom DEF s
<1>3. ContainerPagesJoin
  <2> SUFFICES ASSUME req.endpoint = "containers"
               PROVE  GotIds = From(Playlists)
    BY DEF ContainerPagesJoin, Playlists
  <2>1. GotIds = Cut(Playlists, first, start)
    BY <1>1 DEF Joined
  <2>2. Len(Playlists) = 1 + Len(Lists)
    BY PlaylistIds, LibraryConcat DEF Playlists, IdOf, LibraryId
  <2>3. Len(Playlists) = Whole
    BY <2>2 DEF Whole
  <2>4. Whole \in Nat
    BY <1>1, WholeType
  <2> QED
    BY <1>1, <2>1, <2>3, <2>4, CutFrom
<1>4. LibraryPagesJoin
  <2> SUFFICES ASSUME req.endpoint = "container", req.cid = LibraryId, Full, req.sort # NoSort
               PROVE  GotIds = From(InOrder(Listed(Tracks), req.sort.keys))
    BY DEF LibraryPagesJoin, Full
  <2> DEFINE s == InOrder(Listed(Tracks), req.sort.keys)
  <2>1. GotIds = Cut(s, first, start)
    BY <1>1 DEF Joined
  <2>2. Tracks \cap Tracks = Tracks
    OBVIOUS
  <2>3. s \in Seq(Nat) /\ Len(s) = Len(Listed(Tracks))
    BY <1>1, ListedType, InOrderType
  <2>4. Len(s) = Whole
    BY <2>2, <2>3, ListedType DEF Whole
  <2> HIDE DEF s
  <2>5. Len(s) \in Nat
    BY <2>3
  <2> QED
    BY <1>1, <2>1, <2>4, <2>5, CutFrom DEF s
<1>5. PlaylistPagesJoin
  <2> SUFFICES ASSUME req.endpoint = "container", IsList(req.cid)
               PROVE  GotIds = CASE ~ Full -> From(Entries(req.cid))
                        [] Full /\ req.sort = NoSort -> Resolved(From(Entries(req.cid)))
                        [] OTHER -> From(InOrder(Rows(Entries(req.cid)), req.sort.keys))
    BY DEF PlaylistPagesJoin, Full, Rows, IsList
  <2> DEFINE ids == Entries(req.cid)
             s == InOrder(Rows(ids), req.sort.keys)
  <2>1. ids \in Seq(Nat) /\ req.cid # LibraryId
    BY EntriesType, ListingAssumption DEF IsList
  <2>2. Len(ids) = Whole
    BY <2>1 DEF Whole
  <2>3. /\ ~ Full => GotIds = Cut(ids, first, start)
        /\ Full /\ req.sort = NoSort => GotIds = Resolved(Cut(ids, first, start))
        /\ Full /\ req.sort # NoSort => GotIds = Cut(s, first, start)
    BY <1>1 DEF Joined
  <2> HIDE DEF ids
  <2>4. Rows(ids) \in Seq(Tracks) /\ Len(Rows(ids)) = Len(Resolved(ids))
    BY <2>1, RowsType
  <2>5. s \in Seq(Nat) /\ Len(s) = Len(Rows(ids))
    BY <1>1, <2>4, InOrderType
  <2>6. Resolved(ids) \in Seq(Nat \cap Known) /\ Len(Resolved(ids)) <= Len(ids)
    BY <2>1, ResolvedType
  <2> HIDE DEF s
  <2>7. Len(ids) \in Nat /\ Len(s) \in Nat /\ Len(s) <= Len(ids)
    BY <2>1, <2>4, <2>5, <2>6
  <2>8. Cut(ids, first, start) = From(ids) /\ Cut(s, first, start) = From(s)
    BY <1>1, <2>2, <2>7, CutFrom
  <2> QED
    BY <2>3, <2>8 DEF ids, s
<1> QED
  BY <1>2, <1>3, <1>4, <1>5 DEF PagesJoin

\* index=0-199 and index=200-399 concatenate without drift: sort.rs ends in the
\* id, so that the pages of a listing join to it though the source answers every
\* request in another order.
THEOREM PagesAlwaysJoin == Spec => []PagesJoin
BY PagesAre, Invariant, PTL

(***************************************************************************)
(* Numbers: their digits and how they are read                             *)
(***************************************************************************)
\* The recursion of Digits, as a relation.
Divides(above, v, width) ==
  above = [k \in 0 .. width |-> IF k = 0 THEN v ELSE above[k - 1] \div Byte]

Quotients(v, width) == CHOOSE above : Divides(above, v, width)

\* There is a function that the recursion defines.
LEMMA DividesExists ==
  ASSUME NEW v, NEW width \in Nat
  PROVE  \E above : Divides(above, v, width)
<1> DEFINE G == {m \in Nat : \E above : Divides(above, v, m)}
<1>1. 0 \in G
  <2>1. Divides([k \in 0 .. 0 |-> v], v, 0)
    BY DEF Divides
  <2> QED BY <2>1
<1>2. ASSUME NEW m \in Nat, m \in G PROVE m + 1 \in G
  <2>1. PICK a : Divides(a, v, m)
    BY <1>2
  <2> DEFINE h == [k \in 0 .. m + 1 |-> IF k <= m THEN a[k] ELSE a[k - 1] \div Byte]
  <2>2. \A k \in 0 .. m : h[k] = a[k]
    OBVIOUS
  <2>3. \A k \in 0 .. m : a[k] = IF k = 0 THEN v ELSE a[k - 1] \div Byte
    BY <2>1 DEF Divides
  <2>4. \A k \in 0 .. m + 1 : h[k] = IF k = 0 THEN v ELSE h[k - 1] \div Byte
    BY <2>2, <2>3
  <2>5. Divides(h, v, m + 1)
    BY <2>4 DEF Divides
  <2> QED BY <2>5
<1> HIDE DEF G
<1>3. Nat \subseteq G
  BY <1>1, <1>2, SetInduction
<1> QED BY <1>3 DEF G

LEMMA QuotientsAre ==
  ASSUME NEW v \in Nat, NEW width \in Nat
  PROVE  /\ Quotients(v, width)[0] = v
         /\ \A k \in 1 .. width : Quotients(v, width)[k] = Quotients(v, width)[k - 1] \div Byte
<1>1. Divides(Quotients(v, width), v, width)
  BY DividesExists DEF Quotients
<1> QED BY <1>1 DEF Divides

LEMMA ByteIs == Byte \in Nat /\ Byte >= 16
BY ByteAssumption

\* Division by the number of bytes.
LEMMA DivByte ==
  ASSUME NEW n \in Nat
  PROVE  /\ n \div Byte \in Nat /\ n % Byte \in 0 .. Byte - 1
         /\ n % Byte = n - Byte * (n \div Byte)
<1>1. ASSUME NEW b \in Nat \ {0}
      PROVE  n \div b \in Nat /\ n % b \in 0 .. b - 1 /\ n % b = n - b * (n \div b)
  <2>1. n \div b \in Nat
    OBVIOUS
  <2>2. n % b \in 0 .. b - 1
    OBVIOUS
  <2>3. n % b = n - b * (n \div b)
    OBVIOUS
  <2> QED BY <2>1, <2>2, <2>3
<1>2. Byte \in Nat \ {0}
  BY ByteIs
<1> QED BY <1>1, <1>2

LEMMA QuotientsNat ==
  ASSUME NEW v \in Nat, NEW width \in Nat
  PROVE  \A k \in 0 .. width : Quotients(v, width)[k] \in Nat
<1> DEFINE q == Quotients(v, width)
           G == {m \in Nat : m <= width => q[m] \in Nat}
<1>1. 0 \in G
  BY QuotientsAre
<1>2. ASSUME NEW m \in Nat, m \in G PROVE m + 1 \in G
  <2> SUFFICES ASSUME m + 1 <= width PROVE q[m + 1] \in Nat
    OBVIOUS
  <2>1. q[m] \in Nat
    BY <1>2
  <2>2. q[m + 1] = q[m] \div Byte
    <3>1. m + 1 \in 1 .. width /\ (m + 1) - 1 = m
      OBVIOUS
    <3> HIDE DEF q
    <3> QED BY <3>1, QuotientsAre DEF q
  <2> QED BY <2>1, <2>2, DivByte
<1> HIDE DEF G, q
<1>3. Nat \subseteq G
  BY <1>1, <1>2, SetInduction
<1> QED BY <1>3 DEF G, q

\* The digits of a number are remainders of its quotients.
LEMMA DigitsAre ==
  ASSUME NEW v \in Nat, NEW width \in Nat
  PROVE  /\ Digits(v, width) \in Seq(0 .. Byte - 1) /\ Len(Digits(v, width)) = width
         /\ \A i \in 1 .. width :
              Digits(v, width)[i] = Quotients(v, width)[width - i] % Byte
<1> DEFINE q == Quotients(v, width)
<1>1. Digits(v, width) = [i \in 1 .. width |-> q[width - i] % Byte]
  BY DEF Digits, Quotients, Divides
<1> HIDE DEF q
<1>2. \A i \in 1 .. width : q[width - i] % Byte \in 0 .. Byte - 1
  <2> TAKE i \in 1 .. width
  <2>1. q[width - i] \in Nat
    BY QuotientsNat DEF q
  <2> QED BY <2>1, DivByte
<1>3. [i \in 1 .. width |-> q[width - i] % Byte] \in Seq(0 .. Byte - 1)
  BY <1>2
<1> QED BY <1>1, <1>3 DEF q

\* The recursion of Number, as a relation.
Counts(upTo, bytes) ==
  upTo = [n \in 0 .. Len(bytes) |-> IF n = 0 THEN 0 ELSE upTo[n - 1] * Byte + bytes[n]]

Values(bytes) == CHOOSE upTo : Counts(upTo, bytes)

LEMMA CountsExists ==
  ASSUME NEW bytes, Len(bytes) \in Nat
  PROVE  \E upTo : Counts(upTo, bytes)
<1> DEFINE R(u, m) == u = [n \in 0 .. m |-> IF n = 0 THEN 0 ELSE u[n - 1] * Byte + bytes[n]]
           G == {m \in Nat : \E u : R(u, m)}
<1>1. 0 \in G
  <2>1. R([n \in 0 .. 0 |-> 0], 0)
    OBVIOUS
  <2> QED BY <2>1
<1>2. ASSUME NEW m \in Nat, m \in G PROVE m + 1 \in G
  <2>1. PICK a : R(a, m)
    BY <1>2
  <2> DEFINE h == [n \in 0 .. m + 1 |-> IF n <= m THEN a[n] ELSE a[n - 1] * Byte + bytes[n]]
  <2>2. \A n \in 0 .. m : h[n] = a[n]
    OBVIOUS
  <2>3. \A n \in 0 .. m : a[n] = IF n = 0 THEN 0 ELSE a[n - 1] * Byte + bytes[n]
    BY <2>1
  <2>4. \A n \in 0 .. m + 1 : h[n] = IF n = 0 THEN 0 ELSE h[n - 1] * Byte + bytes[n]
    BY <2>2, <2>3
  <2>5. R(h, m + 1)
    BY <2>4
  <2> HIDE DEF R, h
  <2> QED BY <2>5
<1> HIDE DEF G
<1>3. Nat \subseteq G
  BY <1>1, <1>2, SetInduction
<1> QED BY <1>3 DEF G, Counts

LEMMA NumberIs ==
  ASSUME NEW bytes, Len(bytes) \in Nat
  PROVE  /\ Number(bytes) = Values(bytes)[Len(bytes)] /\ Values(bytes)[0] = 0
         /\ \A n \in 1 .. Len(bytes) : Values(bytes)[n] = Values(bytes)[n - 1] * Byte + bytes[n]
<1>1. Counts(Values(bytes), bytes)
  BY CountsExists DEF Values
<1>2. Number(bytes) = Values(bytes)[Len(bytes)]
  BY DEF Number, Values, Counts
<1> QED BY <1>1, <1>2 DEF Counts

\* A number that has no more digits than its field is wide is read as it was
\* written.
LEMMA NumberReadsBack ==
  ASSUME NEW v \in Nat, NEW width \in Nat, Quotients(v, width)[width] = 0
  PROVE  Number(Digits(v, width)) = v
<1> DEFINE q == Quotients(v, width)
           d == Digits(v, width)
           u == Values(d)
           G == {m \in Nat : m <= width => u[m] = q[width - m]}
<1>0. Len(d) = width
  BY DigitsAre
<1>1. /\ u[0] = 0 /\ Number(d) = u[width]
      /\ \A n \in 1 .. width : u[n] = u[n - 1] * Byte + d[n]
  <2> HIDE DEF d
  <2> QED BY <1>0, NumberIs
<1>2. 0 \in G
  BY <1>1
<1>3. ASSUME NEW m \in Nat, m \in G PROVE m + 1 \in G
  <2> SUFFICES ASSUME m + 1 <= width PROVE u[m + 1] = q[width - (m + 1)]
    OBVIOUS
  <2>1. u[m] = q[width - m]
    BY <1>3
  <2>2. u[m + 1] = u[m] * Byte + d[m + 1]
    <3>1. m + 1 \in 1 .. width /\ (m + 1) - 1 = m
      OBVIOUS
    <3> HIDE DEF u, d
    <3> QED BY <3>1, <1>1
  <2> DEFINE k == width - (m + 1)
  <2>3. d[m + 1] = q[k] % Byte
    <3>1. m + 1 \in 1 .. width
      OBVIOUS
    <3> QED BY <3>1, DigitsAre
  <2>4. q[k] \in Nat /\ q[width - m] = q[k] \div Byte
    <3>1. k \in 0 .. width /\ k + 1 \in 1 .. width /\ (k + 1) - 1 = k /\ width - m = k + 1
      OBVIOUS
    <3> HIDE DEF q, k
    <3> QED BY <3>1, QuotientsNat, QuotientsAre DEF q
  <2> HIDE DEF q, d, u, k
  <2> DEFINE high == q[k] \div Byte
             low == q[k] % Byte
  <2>5. high \in Nat /\ low \in Nat /\ low = q[k] - Byte * high
    BY <2>4, DivByte
  <2>6. u[m] = high /\ d[m + 1] = low
    BY <2>1, <2>3, <2>4
  <2> HIDE DEF high, low
  <2>7. high * Byte = Byte * high /\ Byte * high \in Nat
    BY <2>5, ByteIs
  <2>8. u[m + 1] = q[k]
    BY <2>2, <2>4, <2>5, <2>6, <2>7
  <2> QED BY <2>8 DEF k
<1> HIDE DEF G, u, d
<1>4. Nat \subseteq G
  BY <1>2, <1>3, SetInduction
<1>5. u[width] = q[width - width]
  BY <1>4 DEF G
<1>6. q[width - width] = v
  BY QuotientsAre
<1> QED BY <1>1, <1>5, <1>6 DEF d

\* Which numbers have no more than one, two or four digits.
LEMMA DigitsSuffice ==
  ASSUME NEW v \in Nat
  PROVE  /\ v < Byte => Quotients(v, 1)[1] = 0
         /\ v < Byte * Byte => Quotients(v, 2)[2] = 0
         /\ v < Byte * Byte * Byte * Byte => Quotients(v, 4)[4] = 0
<1>1. ASSUME NEW n \in Nat, NEW b \in Nat, n < b * Byte
      PROVE  n \div Byte \in Nat /\ n \div Byte < b
  <2> DEFINE k == n \div Byte
             low == n % Byte
  <2>1. k \in Nat /\ low \in Nat /\ low = n - Byte * k
    BY DivByte
  <2>2. k \in Nat /\ k * Byte < b * Byte
    <3> HIDE DEF k, low
    <3>1. k * Byte = Byte * k /\ Byte * k \in Nat /\ b * Byte \in Nat
      BY <2>1, ByteIs
    <3> QED BY <2>1, <1>1, <3>1
  <2> HIDE DEF k
  <2>3. k < b
    <3> SUFFICES ASSUME b <= k PROVE FALSE
      BY <2>2
    <3>1. b * Byte <= k * Byte
      BY <2>2, ByteIs
    <3> QED BY <2>2, <3>1, ByteIs
  <2> QED BY <2>2, <2>3 DEF k
<1>2. v < Byte => Quotients(v, 1)[1] = 0
  <2> SUFFICES ASSUME v < 1 * Byte PROVE Quotients(v, 1)[1] = 0
    BY ByteIs
  <2>1. Quotients(v, 1)[1] = Quotients(v, 1)[0] \div Byte /\ Quotients(v, 1)[0] = v
    BY QuotientsAre
  <2>2. v \div Byte \in Nat /\ v \div Byte < 1
    BY <1>1
  <2> QED BY <2>1, <2>2
<1>3. v < Byte * Byte => Quotients(v, 2)[2] = 0
  <2> SUFFICES ASSUME v < Byte * Byte PROVE Quotients(v, 2)[2] = 0
    OBVIOUS
  <2> DEFINE q == Quotients(v, 2)
  <2>1. q[0] = v /\ q[1] = q[0] \div Byte /\ q[2] = q[1] \div Byte
    BY QuotientsAre
  <2> HIDE DEF q
  <2>2. q[1] \in Nat /\ q[1] < 1 * Byte
    BY <1>1, <2>1, ByteIs
  <2>3. q[2] \in Nat /\ q[2] < 1
    BY <1>1, <2>1, <2>2
  <2> QED BY <2>3 DEF q
<1>4. v < Byte * Byte * Byte * Byte => Quotients(v, 4)[4] = 0
  <2> SUFFICES ASSUME v < Byte * Byte * Byte * Byte PROVE Quotients(v, 4)[4] = 0
    OBVIOUS
  <2> DEFINE q == Quotients(v, 4)
             b == Byte * Byte
             c == b * Byte
  <2>0. b \in Nat /\ c \in Nat
    BY ByteIs
  <2>1. /\ q[0] = v /\ q[1] = q[0] \div Byte /\ q[2] = q[1] \div Byte
        /\ q[3] = q[2] \div Byte /\ q[4] = q[3] \div Byte
    BY QuotientsAre
  <2>2. v < c * Byte
    OBVIOUS
  <2> HIDE DEF q
  <2>3. q[1] \in Nat /\ q[1] < b * Byte
    <3> HIDE DEF c
    <3>1. q[1] \in Nat /\ q[1] < c
      BY <1>1, <2>0, <2>1, <2>2
    <3> QED BY <3>1 DEF c
  <2>4. q[2] \in Nat /\ q[2] < Byte * Byte
    <3> HIDE DEF b
    <3>1. q[2] \in Nat /\ q[2] < b
      BY <1>1, <2>0, <2>1, <2>3
    <3> QED BY <3>1 DEF b
  <2>5. q[3] \in Nat /\ q[3] < 1 * Byte
    BY <1>1, <2>1, <2>4, ByteIs
  <2>6. q[4] \in Nat /\ q[4] < 1
    BY <1>1, <2>1, <2>5
  <2> QED BY <2>6 DEF q
<1> QED BY <1>2, <1>3, <1>4

(***************************************************************************)
(* The reader                                                              *)
(***************************************************************************)
\* What the recursion of Read makes of a span, given what it makes of shorter
\* ones.
ReadSpan(from, words, cells, span) ==
  LET begin == span[1] + HeaderCells
      end == FieldEnd(cells, span[1])
  IN  IF span[1] > span[2] THEN <<>>
      ELSE IF begin - 1 > span[2] \/ end \notin begin - 1 .. span[2] THEN Malformed
      ELSE FieldRead(words, cells[span[1]], SubSeq(cells, begin, end), from[<<begin, end>>])
             \o from[<<end + 1, span[2]>>]

ReadsSpans(from, words, cells) ==
  from = [span \in Spans(cells) |-> ReadSpan(from, words, cells, span)]

Reading(words, cells) == CHOOSE from : ReadsSpans(from, words, cells)

LEMMA ReadIsReading ==
  ASSUME NEW words, NEW cells
  PROVE  Read(words, cells) = Reading(words, cells)[<<1, Len(cells)>>]
BY DEF Read, Reading, ReadsSpans, ReadSpan

LEMMA SpanIs ==
  ASSUME NEW cells, Len(cells) \in Nat, NEW span \in Spans(cells)
  PROVE  /\ span[1] \in 1 .. Len(cells) + 1 /\ span[2] \in 0 .. Len(cells)
         /\ span = <<span[1], span[2]>>
BY DEF Spans

\* A field is read from shorter spans.
LEMMA ReadSpanIsLocal ==
  ASSUME NEW words, NEW cells, Len(cells) \in Nat, NEW f, NEW g, NEW span \in Spans(cells),
         \A s \in Spans(cells) : s[2] - s[1] < span[2] - span[1] => f[s] = g[s]
  PROVE  ReadSpan(f, words, cells, span) = ReadSpan(g, words, cells, span)
<1> DEFINE begin == span[1] + HeaderCells
           end == FieldEnd(cells, span[1])
<1>1. span[1] \in 1 .. Len(cells) + 1 /\ span[2] \in 0 .. Len(cells)
  BY SpanIs
<1>2. CASE span[1] > span[2] \/ begin - 1 > span[2] \/ end \notin begin - 1 .. span[2]
  BY <1>2 DEF ReadSpan
<1>3. CASE ~(span[1] > span[2] \/ begin - 1 > span[2] \/ end \notin begin - 1 .. span[2])
  <2> HIDE DEF end
  <2>1. end \in begin - 1 .. span[2] /\ begin = span[1] + 5 /\ end \in Nat
    BY <1>1, <1>3 DEF HeaderCells
  <2>2. <<begin, end>> \in Spans(cells) /\ <<end + 1, span[2]>> \in Spans(cells)
    <3>1. /\ begin \in 1 .. Len(cells) + 1 /\ end \in 0 .. Len(cells)
          /\ end + 1 \in 1 .. Len(cells) + 1
      BY <1>1, <1>3, <2>1
    <3> QED BY <1>1, <3>1 DEF Spans
  <2>3. /\ <<begin, end>>[2] - <<begin, end>>[1] < span[2] - span[1]
        /\ <<end + 1, span[2]>>[2] - <<end + 1, span[2]>>[1] < span[2] - span[1]
    BY <1>1, <2>1
  <2>4. f[<<begin, end>>] = g[<<begin, end>>]
    BY <2>2, <2>3
  <2>5. f[<<end + 1, span[2]>>] = g[<<end + 1, span[2]>>]
    BY <2>2, <2>3
  <2> QED BY <1>3, <2>4, <2>5 DEF ReadSpan, end
<1> QED BY <1>2, <1>3

LEMMA ReadingExists ==
  ASSUME NEW words, NEW cells, Len(cells) \in Nat
  PROVE  \E from : ReadsSpans(from, words, cells)
<1> DEFINE Upto(f, m) ==
             /\ f = [s \in Spans(cells) |-> f[s]]
             /\ \A s \in Spans(cells) :
                  s[2] - s[1] + 1 < m => f[s] = ReadSpan(f, words, cells, s)
           G == {m \in Nat : \E f : Upto(f, m)}
<1>1. 0 \in G
  <2> DEFINE h == [s \in Spans(cells) |-> <<>>]
  <2>1. ASSUME NEW s \in Spans(cells), s[2] - s[1] + 1 < 0
        PROVE  h[s] = ReadSpan(h, words, cells, s)
    <3>1. s[1] > s[2]
      BY <2>1, SpanIs
    <3>2. ReadSpan(h, words, cells, s) = <<>>
      BY <3>1 DEF ReadSpan
    <3> QED BY <3>2
  <2>2. h = [s \in Spans(cells) |-> h[s]]
    OBVIOUS
  <2>3. Upto(h, 0)
    BY <2>1, <2>2
  <2> QED BY <2>3
<1>2. ASSUME NEW m \in Nat, m \in G PROVE m + 1 \in G
  <2>1. PICK f : Upto(f, m)
    BY <1>2
  <2> DEFINE h == [s \in Spans(cells) |->
                     IF s[2] - s[1] + 1 < m THEN f[s] ELSE ReadSpan(f, words, cells, s)]
  <2>2. ASSUME NEW s \in Spans(cells), s[2] - s[1] + 1 < m + 1
        PROVE  h[s] = ReadSpan(h, words, cells, s)
    <3>1. h[s] = ReadSpan(f, words, cells, s)
      BY <2>1
    <3>2. \A r \in Spans(cells) : r[2] - r[1] < s[2] - s[1] => f[r] = h[r]
      <4> TAKE r \in Spans(cells)
      <4> HAVE r[2] - r[1] < s[2] - s[1]
      <4>1. r[2] - r[1] + 1 < m
        BY <2>2, SpanIs
      <4> QED BY <4>1
    <3>3. ReadSpan(f, words, cells, s) = ReadSpan(h, words, cells, s)
      <4> HIDE DEF h
      <4> QED BY <3>2, ReadSpanIsLocal
    <3> QED BY <3>1, <3>3
  <2>3. h = [s \in Spans(cells) |-> h[s]]
    OBVIOUS
  <2> HIDE DEF h
  <2>4. Upto(h, m + 1)
    BY <2>2, <2>3
  <2> QED BY <2>4
<1> HIDE DEF G
<1>3. Nat \subseteq G
  BY <1>1, <1>2, SetInduction
<1>4. PICK f : Upto(f, Len(cells) + 2)
  BY <1>3 DEF G
<1>5. \A s \in Spans(cells) : f[s] = ReadSpan(f, words, cells, s)
  <2> TAKE s \in Spans(cells)
  <2>1. s[2] - s[1] + 1 < Len(cells) + 2
    BY SpanIs
  <2> QED BY <1>4, <2>1
<1>6. ReadsSpans(f, words, cells)
  BY <1>4, <1>5 DEF ReadsSpans
<1> QED BY <1>6

LEMMA ReadingIs ==
  ASSUME NEW words, NEW cells, Len(cells) \in Nat, NEW span \in Spans(cells)
  PROVE  Reading(words, cells)[span] = ReadSpan(Reading(words, cells), words, cells, span)
<1>1. ReadsSpans(Reading(words, cells), words, cells)
  BY ReadingExists DEF Reading
<1> QED BY <1>1 DEF ReadsSpans

-----------------------------------------------------------------------------
(* A body in a sequence of cells *)

\* The cells from lo on are those of s.
Holds(cells, lo, s) ==
  /\ lo + Len(s) - 1 <= Len(cells)
  /\ \A k \in 1 .. Len(s) : cells[lo + k - 1] = s[k]

LEMMA HoldsParts ==
  ASSUME NEW cells, IsSeq(cells), NEW lo \in Nat \ {0},
         NEW a, IsSeq(a), NEW b, IsSeq(b), Holds(cells, lo, a \o b)
  PROVE  Holds(cells, lo, a) /\ Holds(cells, lo + Len(a), b)
<1> DEFINE c == a \o b
<1>1. /\ Len(c) = Len(a) + Len(b) /\ Len(a) \in Nat /\ Len(b) \in Nat /\ Len(cells) \in Nat
      /\ \A k \in 1 .. Len(a) + Len(b) : c[k] = IF k <= Len(a) THEN a[k] ELSE b[k - Len(a)]
  BY ConcatIsSeq, IsSeqLen
<1>2. lo + Len(c) - 1 <= Len(cells) /\ \A k \in 1 .. Len(c) : cells[lo + k - 1] = c[k]
  BY DEF Holds
<1> HIDE DEF c
<1>3. Holds(cells, lo, a)
  <2>1. lo + Len(a) - 1 <= Len(cells)
    BY <1>1, <1>2
  <2>2. ASSUME NEW k \in 1 .. Len(a) PROVE cells[lo + k - 1] = a[k]
    <3>1. k \in 1 .. Len(c) /\ c[k] = a[k]
      BY <1>1
    <3> QED BY <1>2, <3>1
  <2> QED BY <2>1, <2>2 DEF Holds
<1>4. Holds(cells, lo + Len(a), b)
  <2>1. (lo + Len(a)) + Len(b) - 1 <= Len(cells)
    BY <1>1, <1>2
  <2>2. ASSUME NEW k \in 1 .. Len(b) PROVE cells[(lo + Len(a)) + k - 1] = b[k]
    <3>1. Len(a) + k \in 1 .. Len(c) /\ c[Len(a) + k] = b[k]
      BY <1>1
    <3>2. lo + (Len(a) + k) - 1 = (lo + Len(a)) + k - 1
      BY <1>1
    <3> QED BY <1>2, <3>1, <3>2
  <2> QED BY <2>1, <2>2 DEF Holds
<1> QED BY <1>3, <1>4

LEMMA HoldsSubSeq ==
  ASSUME NEW cells, IsSeq(cells), NEW lo \in Nat \ {0}, NEW s, IsSeq(s),
         Holds(cells, lo, s)
  PROVE  SubSeq(cells, lo, lo + Len(s) - 1) = s
<1> DEFINE hi == lo + Len(s) - 1
           t == SubSeq(cells, lo, hi)
<1>0. PICK S : cells \in Seq(S) /\ s \in Seq(S)
  <2>1. PICK T : cells \in Seq(T)
    BY DEF IsSeq
  <2>2. PICK U : s \in Seq(U)
    BY DEF IsSeq
  <2>3. cells \in Seq(T \cup U) /\ s \in Seq(T \cup U)
    BY <2>1, <2>2, SeqMonotonic
  <2> QED BY <2>3
<1>1. Len(s) \in Nat /\ Len(cells) \in Nat /\ hi \in Int /\ hi <= Len(cells) /\ hi >= lo - 1
  BY <1>0 DEF Holds
<1>2. t \in Seq(S) /\ Len(t) = Len(s) /\ \A k \in 1 .. Len(t) : t[k] = cells[lo + k - 1]
  <2>1. CASE hi >= lo
    <3>1. /\ lo \in 1 .. Len(cells) /\ hi \in lo .. Len(cells) /\ hi - lo + 1 = Len(s)
          /\ \A i \in lo .. hi : cells[i] \in S
      BY <1>0, <1>1, <2>1
    <3> HIDE DEF hi
    <3> QED BY <3>1, SubSeqProperties
  <2>2. CASE hi < lo
    <3>1. hi - lo + 1 = 0 /\ Len(s) = 0
      BY <1>1, <2>2
    <3>2. t = <<>>
      BY <1>1, <2>2, SubSeqEmpty
    <3> QED BY <3>1, <3>2
  <2> QED BY <1>1, <2>1, <2>2
<1>3. \A k \in 1 .. Len(t) : t[k] = s[k]
  BY <1>2 DEF Holds
<1> HIDE DEF t
<1>4. t = s
  BY <1>0, <1>2, <1>3, SeqEqual
<1> QED BY <1>4 DEF t

LEMMA FieldIsSeq ==
  ASSUME NEW tag, NEW value, IsSeq(value)
  PROVE  IsSeq(Field(tag, value)) /\ Len(Field(tag, value)) = 5 + Len(value)
<1> DEFINE one == <<tag>>
           len == Digits(Len(value), 4)
<1>1. IsSeq(len) /\ Len(len) = 4
  <2>1. Len(value) \in Nat
    BY IsSeqLen
  <2> QED BY <2>1, DigitsAre DEF IsSeq
<1>2. IsSeq(one) /\ Len(one) = 1
  BY OneIsSeq
<1>3. Field(tag, value) = (one \o len) \o value
  BY DEF Field
<1> HIDE DEF one, len
<1>4. IsSeq(one \o len) /\ Len(one \o len) = Len(one) + Len(len)
  BY <1>1, <1>2, ConcatIsSeq
<1>5. IsSeq((one \o len) \o value) /\ Len((one \o len) \o value) = 5 + Len(value)
  BY <1>1, <1>2, <1>4, ConcatIsSeq
<1> QED BY <1>3, <1>5

\* The parts of a field.
LEMMA FieldParts ==
  ASSUME NEW cells, IsSeq(cells), NEW lo \in Nat \ {0}, NEW tag, NEW value, IsSeq(value),
         Holds(cells, lo, Field(tag, value))
  PROVE  /\ IsSeq(Field(tag, value)) /\ Len(Field(tag, value)) = HeaderCells + Len(value)
         /\ cells[lo] = tag
         /\ SubSeq(cells, lo + 1, lo + HeaderCells - 1) = Digits(Len(value), 4)
         /\ Holds(cells, lo + HeaderCells, value)
         /\ SubSeq(cells, lo + HeaderCells, lo + HeaderCells + Len(value) - 1) = value
<1> DEFINE one == <<tag>>
           len == Digits(Len(value), 4)
<1>1. IsSeq(len) /\ Len(len) = 4 /\ Len(value) \in Nat
  <2>1. Len(value) \in Nat
    BY IsSeqLen
  <2> QED BY <2>1, DigitsAre DEF IsSeq
<1>2. IsSeq(one) /\ Len(one) = 1 /\ one[1] = tag
  BY OneIsSeq
<1>3. Field(tag, value) = (one \o len) \o value
  BY DEF Field
<1> HIDE DEF one, len
<1>4. IsSeq(one \o len) /\ Len(one \o len) = 5
  <2>1. IsSeq(one \o len) /\ Len(one \o len) = Len(one) + Len(len)
    BY <1>1, <1>2, ConcatIsSeq
  <2> QED BY <1>1, <1>2, <2>1
<1>5. IsSeq((one \o len) \o value) /\ Len((one \o len) \o value) = 5 + Len(value)
  BY <1>1, <1>4, ConcatIsSeq
<1>6. Holds(cells, lo, one \o len) /\ Holds(cells, lo + 5, value)
  BY <1>3, <1>4, HoldsParts
<1>7. Holds(cells, lo, one) /\ Holds(cells, lo + 1, len)
  BY <1>1, <1>2, <1>6, HoldsParts
<1>8. cells[lo] = tag
  <2>1. cells[lo + 1 - 1] = one[1]
    BY <1>2, <1>7 DEF Holds
  <2> QED BY <1>2, <2>1
<1>9. SubSeq(cells, lo + 1, (lo + 1) + 4 - 1) = len
  <2>1. lo + 1 \in Nat \ {0}
    OBVIOUS
  <2>2. SubSeq(cells, lo + 1, (lo + 1) + Len(len) - 1) = len
    BY <1>1, <1>7, <2>1, HoldsSubSeq
  <2> QED BY <1>1, <2>2
<1>10. SubSeq(cells, lo + 5, (lo + 5) + Len(value) - 1) = value
  BY <1>6, HoldsSubSeq
<1>11. (lo + 1) + 4 - 1 = lo + HeaderCells - 1 /\ HeaderCells = 5
  BY DEF HeaderCells
<1> QED BY <1>3, <1>5, <1>6, <1>8, <1>9, <1>10, <1>11 DEF len

\* A length that its four bytes hold.
Short(s) == Len(s) < Byte * Byte * Byte * Byte

\* The reader takes a field for what it is, and goes on after it.
\* There are the cells of s from lo on, before hi.
Within(cells, lo, hi, s) ==
  /\ IsSeq(cells) /\ lo \in Nat \ {0} /\ hi \in 0 .. Len(cells)
  /\ Holds(cells, lo, s) /\ lo + Len(s) - 1 <= hi

Goes(words, cells, lo, hi, r, after) ==
  Reading(words, cells)[<<lo, hi>>] = r \o Reading(words, cells)[<<after, hi>>]

\* The span of the value of the field that begins at lo.
Inside(lo, value) == <<lo + HeaderCells, lo + HeaderCells + Len(value) - 1>>

LEMMA OneField ==
  ASSUME NEW words, NEW cells, NEW lo, NEW hi, NEW tag, NEW value, IsSeq(value), Short(value),
         Within(cells, lo, hi, Field(tag, value))
  PROVE  Goes(words, cells, lo, hi,
              FieldRead(words, tag, value, Reading(words, cells)[Inside(lo, value)]),
              lo + HeaderCells + Len(value))
<1>0. /\ IsSeq(cells) /\ lo \in Nat \ {0} /\ hi \in 0 .. Len(cells)
      /\ Holds(cells, lo, Field(tag, value))
      /\ lo + HeaderCells + Len(value) - 1 <= hi
  <2>1. /\ IsSeq(cells) /\ lo \in Nat \ {0} /\ hi \in 0 .. Len(cells)
        /\ Holds(cells, lo, Field(tag, value))
        /\ lo + Len(Field(tag, value)) - 1 <= hi
    BY DEF Within
  <2>2. Len(Field(tag, value)) = HeaderCells + Len(value) /\ Len(value) \in Nat
    BY <2>1, FieldParts, IsSeqLen
  <2>3. lo + HeaderCells + Len(value) - 1 <= hi
    BY <2>1, <2>2 DEF HeaderCells
  <2> QED BY <2>1, <2>3
<1> DEFINE begin == lo + HeaderCells
           after == begin + Len(value)
           reading == Reading(words, cells)
<1>1. /\ Len(value) \in Nat /\ Len(cells) \in Nat /\ HeaderCells = 5
      /\ lo \in 1 .. Len(cells) /\ hi \in Nat /\ lo <= hi
  <2>1. Len(value) \in Nat /\ Len(cells) \in Nat
    BY <1>0, IsSeqLen
  <2> QED BY <1>0, <2>1 DEF HeaderCells
<1>2. FieldEnd(cells, lo) = after - 1
  <2>1. Number(Digits(Len(value), 4)) = Len(value)
    BY <1>1, DigitsSuffice, NumberReadsBack DEF Short
  <2>2. SubSeq(cells, lo + 1, lo + HeaderCells - 1) = Digits(Len(value), 4)
    BY <1>0, FieldParts
  <2>3. FieldEnd(cells, lo) = lo + HeaderCells - 1 + Len(value)
    BY <2>1, <2>2 DEF FieldEnd
  <2> QED BY <1>1, <2>3
<1>3. cells[lo] = tag /\ SubSeq(cells, begin, after - 1) = value
  <2>1. cells[lo] = tag
    BY <1>0, FieldParts
  <2>2. SubSeq(cells, lo + HeaderCells, lo + HeaderCells + Len(value) - 1) = value
    BY <1>0, FieldParts
  <2>3. after - 1 = lo + HeaderCells + Len(value) - 1
    BY <1>1
  <2> QED BY <2>1, <2>2, <2>3
<1>4. <<lo, hi>> \in Spans(cells)
  BY <1>0, <1>1 DEF Spans
<1>5. reading[<<lo, hi>>] = ReadSpan(reading, words, cells, <<lo, hi>>)
  BY <1>1, <1>4, ReadingIs
<1>6. ~(begin - 1 > hi) /\ after - 1 \in begin - 1 .. hi /\ ~(lo > hi) /\ (after - 1) + 1 = after
  BY <1>0, <1>1
<1> HIDE DEF reading, begin, after
<1>7. ReadSpan(reading, words, cells, <<lo, hi>>) =
        FieldRead(words, tag, value, reading[<<begin, after - 1>>])
          \o reading[<<(after - 1) + 1, hi>>]
  BY <1>2, <1>3, <1>6 DEF ReadSpan, begin
<1>8. reading[<<lo, hi>>] =
        FieldRead(words, tag, value, reading[<<begin, after - 1>>]) \o reading[<<after, hi>>]
  BY <1>5, <1>6, <1>7
<1>9. after - 1 = begin + Len(value) - 1
  BY <1>1 DEF after, begin
<1>10. Inside(lo, value) = <<begin, after - 1>>
  BY <1>9 DEF Inside, begin
<1> QED BY <1>8, <1>10 DEF reading, begin, after, Goes

\* A field reads as one record at most.
LEMMA FieldReadIsSeq ==
  ASSUME NEW words, NEW tag, NEW value, NEW inner
  PROVE  IsSeq(FieldRead(words, tag, value, inner))
<1> DEFINE as(v) == <<[tag |-> tag, value |-> v]>>
<1>1. \A v : IsSeq(as(v))
  BY OneIsSeq
<1>2. IsSeq(Malformed)
  BY OneIsSeq DEF Malformed
<1> QED BY <1>1, <1>2, EmptyIsSeq DEF FieldRead

LEMMA ReadingIsSeq ==
  ASSUME NEW words, NEW cells, Len(cells) \in Nat, NEW span \in Spans(cells)
  PROVE  IsSeq(Reading(words, cells)[span])
<1> DEFINE r == Reading(words, cells)
           G == {m \in Nat : \A s \in Spans(cells) : s[2] - s[1] + 1 < m => IsSeq(r[s])}
<1>1. 0 \in G
  <2> SUFFICES ASSUME NEW s \in Spans(cells), s[2] - s[1] + 1 < 0 PROVE IsSeq(r[s])
    OBVIOUS
  <2>1. s[1] > s[2]
    BY SpanIs
  <2>2. r[s] = <<>>
    BY <2>1, ReadingIs DEF ReadSpan
  <2> QED BY <2>2, EmptyIsSeq
<1>2. ASSUME NEW m \in Nat, m \in G PROVE m + 1 \in G
  <2> SUFFICES ASSUME NEW s \in Spans(cells), s[2] - s[1] + 1 < m + 1 PROVE IsSeq(r[s])
    OBVIOUS
  <2> DEFINE begin == s[1] + HeaderCells
             end == FieldEnd(cells, s[1])
             stop == s[1] > s[2] \/ begin - 1 > s[2] \/ end \notin begin - 1 .. s[2]
  <2>1. r[s] = ReadSpan(r, words, cells, s)
    BY ReadingIs
  <2>2. CASE stop
    <3>1. r[s] = <<>> \/ r[s] = Malformed
      BY <2>1, <2>2 DEF ReadSpan
    <3> QED BY <3>1, EmptyIsSeq, OneIsSeq DEF Malformed
  <2>3. CASE ~stop
    <3>1. s[1] \in 1 .. Len(cells) + 1 /\ s[2] \in 0 .. Len(cells)
      BY SpanIs
    <3>2. HeaderCells = 5 /\ end \in begin - 1 .. s[2]
      BY <2>3 DEF HeaderCells
    <3> HIDE DEF end
    <3>3. end + 1 \in 1 .. Len(cells) + 1 /\ s[2] - (end + 1) + 1 < m
      <4>1. end \in Int /\ end >= s[1] + 4 /\ end <= s[2]
        BY <3>1, <3>2
      <4> QED BY SMTT(40), <3>1, <4>1
    <3>4. <<end + 1, s[2]>> \in Spans(cells)
      BY <3>1, <3>3 DEF Spans
    <3>5. IsSeq(r[<<end + 1, s[2]>>])
      BY <1>2, <3>3, <3>4
    <3>6. r[s] = FieldRead(words, cells[s[1]], SubSeq(cells, begin, end), r[<<begin, end>>])
                   \o r[<<end + 1, s[2]>>]
      BY <2>1, <2>3 DEF ReadSpan, end
    <3> QED BY <3>5, <3>6, FieldReadIsSeq, ConcatIsSeq
  <2> QED BY <2>2, <2>3
<1> HIDE DEF G, r
<1>3. Nat \subseteq G
  BY <1>1, <1>2, SetInduction
<1>4. span[2] - span[1] + 1 < Len(cells) + 2 /\ Len(cells) + 2 \in Nat
  BY SpanIs
<1> QED BY <1>3, <1>4 DEF G, r

-----------------------------------------------------------------------------
(* What a piece of a body reads as, wherever it is, and whatever follows *)

ReadsAs(words, s, r) ==
  /\ IsSeq(s) /\ IsSeq(r)
  /\ \A cells, lo, hi :
       Within(cells, lo, hi, s) => Goes(words, cells, lo, hi, r, lo + Len(s))

\* Nothing is left to read.
LEMMA ReadingEnds ==
  ASSUME NEW words, NEW cells, IsSeq(cells), NEW hi \in 0 .. Len(cells)
  PROVE  Reading(words, cells)[<<hi + 1, hi>>] = <<>>
<1>1. Len(cells) \in Nat
  BY IsSeqLen
<1>2. <<hi + 1, hi>> \in Spans(cells)
  BY <1>1 DEF Spans
<1>3. ReadSpan(Reading(words, cells), words, cells, <<hi + 1, hi>>) = <<>>
  <2>1. <<hi + 1, hi>>[1] > <<hi + 1, hi>>[2]
    OBVIOUS
  <2> QED BY <2>1 DEF ReadSpan
<1> QED BY <1>1, <1>2, <1>3, ReadingIs

LEMMA AfterNothing ==
  ASSUME NEW s, IsSeq(s)
  PROVE  s \o <<>> = s /\ <<>> \o s = s
BY ConcatEmptySeq DEF IsSeq

LEMMA ConcatAssoc ==
  ASSUME NEW a, IsSeq(a), NEW b, IsSeq(b), NEW c, IsSeq(c)
  PROVE  (a \o b) \o c = a \o (b \o c)
<1>1. PICK S : a \in Seq(S)
  BY DEF IsSeq
<1>2. PICK T : b \in Seq(T)
  BY DEF IsSeq
<1>3. PICK U : c \in Seq(U)
  BY DEF IsSeq
<1> DEFINE V == S \cup T \cup U
<1>4. a \in Seq(V) /\ b \in Seq(V) /\ c \in Seq(V)
  BY <1>1, <1>2, <1>3, SeqMonotonic
<1> HIDE DEF V
<1> QED BY <1>4, ConcatAssociative

\* Whole and alone.
LEMMA WholeReads ==
  ASSUME NEW words, NEW s, NEW r, ReadsAs(words, s, r),
         NEW cells, IsSeq(cells), NEW lo \in Nat \ {0}, Holds(cells, lo, s)
  PROVE  Reading(words, cells)[<<lo, lo + Len(s) - 1>>] = r
<1> DEFINE hi == lo + Len(s) - 1
<1>1. /\ Len(s) \in Nat /\ Len(cells) \in Nat
      /\ hi \in 0 .. Len(cells) /\ hi + 1 = lo + Len(s) /\ lo + Len(s) - 1 <= hi
  <2>1. Len(s) \in Nat /\ Len(cells) \in Nat
    BY IsSeqLen DEF ReadsAs
  <2> QED BY <2>1 DEF Holds
<1> HIDE DEF hi
<1>2. Reading(words, cells)[<<lo, hi>>] = r \o Reading(words, cells)[<<lo + Len(s), hi>>]
  <2>1. Within(cells, lo, hi, s)
    BY <1>1 DEF Within
  <2> QED BY <2>1 DEF ReadsAs, Goes
<1>3. Reading(words, cells)[<<hi + 1, hi>>] = <<>>
  BY <1>1, ReadingEnds
<1>4. r \o <<>> = r
  BY AfterNothing DEF ReadsAs
<1>5. Reading(words, cells)[<<lo, hi>>] = r
  BY <1>1, <1>2, <1>3, <1>4
<1> QED BY <1>5 DEF hi

LEMMA ReadOf ==
  ASSUME NEW words, NEW s, NEW r, ReadsAs(words, s, r)
  PROVE  Read(words, s) = r
<1>1. IsSeq(s) /\ Len(s) \in Nat
  BY IsSeqLen DEF ReadsAs
<1>2. Holds(s, 1, s)
  BY <1>1 DEF Holds
<1>3. Reading(words, s)[<<1, 1 + Len(s) - 1>>] = r
  BY <1>1, <1>2, WholeReads
<1>4. 1 + Len(s) - 1 = Len(s)
  BY <1>1
<1> QED BY <1>3, <1>4, ReadIsReading

LEMMA NothingReads ==
  ASSUME NEW words
  PROVE  ReadsAs(words, <<>>, <<>>)
<1> SUFFICES ASSUME NEW cells, NEW lo, NEW hi, Within(cells, lo, hi, <<>>)
             PROVE  Goes(words, cells, lo, hi, <<>>, lo + Len(<<>>))
  BY EmptyIsSeq DEF ReadsAs
<1>0. IsSeq(cells) /\ lo \in Nat \ {0} /\ hi \in 0 .. Len(cells)
  BY DEF Within
<1>1. Len(cells) \in Nat /\ lo + Len(<<>>) = lo /\ lo - 1 <= hi
  <2>1. lo + 0 - 1 <= hi
    BY DEF Within
  <2> QED BY <1>0, <2>1, IsSeqLen
<1>2. <<lo, hi>> \in Spans(cells)
  BY <1>0, <1>1 DEF Spans
<1>3. IsSeq(Reading(words, cells)[<<lo, hi>>])
  BY <1>1, <1>2, ReadingIsSeq
<1> QED BY <1>1, <1>3, AfterNothing DEF Goes

\* One piece after the other.
LEMMA BothRead ==
  ASSUME NEW words, NEW a, NEW r, ReadsAs(words, a, r), NEW b, NEW q, ReadsAs(words, b, q)
  PROVE  ReadsAs(words, a \o b, r \o q)
<1>1. /\ IsSeq(a) /\ IsSeq(b) /\ IsSeq(r) /\ IsSeq(q)
      /\ Len(a) \in Nat /\ Len(b) \in Nat
  BY IsSeqLen DEF ReadsAs
<1>2. IsSeq(a \o b) /\ Len(a \o b) = Len(a) + Len(b)
  BY <1>1, ConcatIsSeq
<1>3. IsSeq(r \o q)
  BY <1>1, ConcatIsSeq
<1>4. ASSUME NEW cells, NEW lo, NEW hi, Within(cells, lo, hi, a \o b)
      PROVE  Goes(words, cells, lo, hi, r \o q, lo + Len(a \o b))
  <2>0. /\ IsSeq(cells) /\ lo \in Nat \ {0} /\ hi \in 0 .. Len(cells)
        /\ Holds(cells, lo, a \o b) /\ lo + Len(a \o b) - 1 <= hi
    BY <1>4 DEF Within
  <2> DEFINE mid == lo + Len(a)
             after == mid + Len(b)
             reading == Reading(words, cells)
  <2>1. Holds(cells, lo, a) /\ Holds(cells, mid, b)
    BY <1>1, <2>0, HoldsParts
  <2>2. /\ Len(cells) \in Nat /\ mid \in Nat \ {0} /\ after \in Nat
        /\ lo + Len(a) - 1 <= hi /\ mid + Len(b) - 1 <= hi /\ after = lo + Len(a \o b)
        /\ after \in 1 .. Len(cells) + 1
    <3>1. Len(cells) \in Nat
      BY <2>0, IsSeqLen
    <3> QED BY <1>1, <1>2, <2>0, <3>1
  <2>3. reading[<<lo, hi>>] = r \o reading[<<mid, hi>>]
    <3>1. Within(cells, lo, hi, a)
      BY <2>0, <2>1, <2>2 DEF Within
    <3>2. Goes(words, cells, lo, hi, r, lo + Len(a))
      BY <3>1 DEF ReadsAs
    <3> QED BY <3>2 DEF Goes
  <2>4. reading[<<mid, hi>>] = q \o reading[<<after, hi>>]
    <3>1. Within(cells, mid, hi, b)
      BY <2>0, <2>1, <2>2 DEF Within
    <3>2. Goes(words, cells, mid, hi, q, mid + Len(b))
      BY <3>1 DEF ReadsAs
    <3> QED BY <3>2 DEF Goes
  <2>5. IsSeq(reading[<<after, hi>>])
    <3>1. <<after, hi>> \in Spans(cells)
      BY <2>0, <2>2 DEF Spans
    <3> QED BY <2>2, <3>1, ReadingIsSeq
  <2> DEFINE rest == reading[<<after, hi>>]
  <2>6. IsSeq(rest)
    BY <2>5
  <2>7. reading[<<lo, hi>>] = r \o (q \o rest)
    BY <2>3, <2>4
  <2> HIDE DEF rest
  <2>8. (r \o q) \o rest = r \o (q \o rest)
    BY SMTT(40), <1>1, <2>6, ConcatAssoc
  <2>9. reading[<<lo, hi>>] = (r \o q) \o reading[<<after, hi>>]
    BY <2>7, <2>8 DEF rest
  <2> QED BY <2>2, <2>9 DEF Goes
<1> QED BY <1>2, <1>3, <1>4 DEF ReadsAs

\* Wherever the field is, it is read as r.
FieldGives(words, tag, value, r) ==
  \A cells, lo :
    (IsSeq(cells) /\ lo \in Nat \ {0} /\ Holds(cells, lo, Field(tag, value))) =>
      FieldRead(words, tag, value,
                Reading(words, cells)[<<lo + HeaderCells, lo + HeaderCells + Len(value) - 1>>])
        = r

LEMMA FieldReads ==
  ASSUME NEW words, NEW tag, NEW value, IsSeq(value), Short(value), NEW r,
         FieldGives(words, tag, value, r)
  PROVE  ReadsAs(words, Field(tag, value), r)
<1> DEFINE s == Field(tag, value)
<1>1. IsSeq(s) /\ Len(s) = HeaderCells + Len(value) /\ Len(value) \in Nat /\ HeaderCells = 5
  BY FieldIsSeq, IsSeqLen DEF HeaderCells
<1> HIDE DEF s
<1>2. Holds(s, 1, s)
  BY <1>1 DEF Holds
<1>3. IsSeq(r)
  <2>1. FieldRead(words, tag, value,
                  Reading(words, s)[<<1 + HeaderCells, 1 + HeaderCells + Len(value) - 1>>]) = r
    <3>1. Holds(s, 1, Field(tag, value)) /\ 1 \in Nat \ {0}
      BY <1>2 DEF s
    <3> QED BY <1>1, <3>1 DEF FieldGives
  <2> QED BY <2>1, FieldReadIsSeq
<1>4. ASSUME NEW cells, NEW lo, NEW hi, Within(cells, lo, hi, s)
      PROVE  Goes(words, cells, lo, hi, r, lo + Len(s))
  <2> DEFINE after == lo + HeaderCells + Len(value)
             reading == Reading(words, cells)
             inner == reading[<<lo + HeaderCells, after - 1>>]
  <2>0. /\ IsSeq(cells) /\ lo \in Nat \ {0} /\ hi \in 0 .. Len(cells)
        /\ Holds(cells, lo, Field(tag, value)) /\ lo + Len(s) - 1 <= hi
    BY <1>4 DEF Within, s
  <2>1. /\ after = lo + Len(s) /\ lo + HeaderCells + Len(value) - 1 <= hi
        /\ lo + HeaderCells + Len(value) - 1 = after - 1
    BY <1>1, <2>0
  <2>2. reading[<<lo, hi>>]
          = FieldRead(words, tag, value,
                      reading[<<lo + HeaderCells, lo + HeaderCells + Len(value) - 1>>])
              \o reading[<<after, hi>>]
    <3>1. Within(cells, lo, hi, Field(tag, value))
      BY <1>4 DEF s
    <3>2. Goes(words, cells, lo, hi,
               FieldRead(words, tag, value, Reading(words, cells)[Inside(lo, value)]),
               lo + HeaderCells + Len(value))
      BY <3>1, OneField
    <3> QED BY <3>2 DEF Goes, Inside
  <2>3. FieldRead(words, tag, value, inner) = r
    <3>1. FieldRead(words, tag, value,
             Reading(words, cells)[<<lo + HeaderCells, lo + HeaderCells + Len(value) - 1>>]) = r
      BY <2>0 DEF FieldGives
    <3> QED BY <2>1, <3>1
  <2> HIDE DEF reading, after
  <2>4. reading[<<lo, hi>>] = r \o reading[<<after, hi>>]
    BY <2>1, <2>2, <2>3
  <2> QED BY <2>1, <2>4 DEF Goes, reading
<1>5. ReadsAs(words, s, r)
  BY <1>1, <1>3, <1>4 DEF ReadsAs
<1> QED BY <1>5 DEF s

\* The four ways a field is read.
LEMMA UnknownReads ==
  ASSUME NEW words, NEW tag, tag \notin DOMAIN words, NEW value, IsSeq(value), Short(value)
  PROVE  ReadsAs(words, Field(tag, value), <<>>)
<1>1. \A inner : FieldRead(words, tag, value, inner) = <<>>
  BY DEF FieldRead
<1> QED BY <1>1, FieldReads DEF FieldGives

LEMMA StringReads ==
  ASSUME NEW words, NEW tag, tag \in DOMAIN words, words[tag] = "String",
         NEW value, IsSeq(value), Short(value)
  PROVE  ReadsAs(words, Field(tag, value), <<[tag |-> tag, value |-> value]>>)
<1>1. \A inner : FieldRead(words, tag, value, inner) = <<[tag |-> tag, value |-> value]>>
  BY DEF FieldRead
<1> QED BY <1>1, FieldReads DEF FieldGives

LEMMA ListReads ==
  ASSUME NEW words, NEW tag, tag \in DOMAIN words, words[tag] = "List",
         NEW value, NEW r, ReadsAs(words, value, r), Short(value), ~Has(r, "malformed")
  PROVE  ReadsAs(words, Field(tag, value), <<[tag |-> tag, value |-> r]>>)
<1>1. IsSeq(value)
  BY DEF ReadsAs
<1>2. FieldRead(words, tag, value, r) = <<[tag |-> tag, value |-> r]>>
  BY DEF FieldRead
<1>3. ASSUME NEW cells, NEW lo, IsSeq(cells), lo \in Nat \ {0},
             Holds(cells, lo, Field(tag, value))
      PROVE  Reading(words, cells)[<<lo + HeaderCells, lo + HeaderCells + Len(value) - 1>>] = r
  <2>1. Holds(cells, lo + HeaderCells, value)
    BY <1>1, <1>3, FieldParts
  <2>2. lo + HeaderCells \in Nat \ {0}
    BY <1>3 DEF HeaderCells
  <2> QED BY <1>3, <2>1, <2>2, WholeReads
<1>4. FieldGives(words, tag, value, <<[tag |-> tag, value |-> r]>>)
  BY <1>2, <1>3 DEF FieldGives
<1> QED BY <1>1, <1>4, FieldReads

LEMMA NumberReads ==
  ASSUME NEW words, NEW tag, tag \in DOMAIN words, words[tag] \in DOMAIN Width,
         NEW v \in Nat, Quotients(v, Width[words[tag]])[Width[words[tag]]] = 0
  PROVE  ReadsAs(words, Field(tag, Digits(v, Width[words[tag]])), <<[tag |-> tag, value |-> v]>>)
<1> DEFINE w == Width[words[tag]]
           d == Digits(v, w)
<1>1. w \in {1, 2, 4, 8} /\ words[tag] # "List" /\ words[tag] # "String"
  BY DEF Width
<1> HIDE DEF w
<1>2. IsSeq(d) /\ Len(d) = w
  BY <1>1, DigitsAre DEF IsSeq
<1>3. Number(d) = v
  BY <1>1, NumberReadsBack DEF w
<1> HIDE DEF d
<1>4. Short(d)
  <2>1. 8 < Byte * Byte * Byte * Byte
    <3>1. Byte * Byte >= 256 /\ Byte * Byte \in Nat
      <4>1. ASSUME NEW b \in Nat, b >= 16 PROVE b * b >= 256 /\ b * b \in Nat
        <5>1. b * b >= 16 * b
          BY <4>1
        <5> QED BY <4>1, <5>1
      <4> QED BY <4>1, ByteIs
    <3>2. ASSUME NEW b \in Nat, b >= 16, NEW n \in Nat, n >= 256
          PROVE  n * b >= 256 /\ n * b \in Nat
      <4>1. n * b >= n * 1
        BY <3>2
      <4> QED BY <3>2, <4>1
    <3>3. (Byte * Byte) * Byte >= 256 /\ (Byte * Byte) * Byte \in Nat
      BY <3>1, <3>2, ByteIs
    <3>4. ((Byte * Byte) * Byte) * Byte >= 256 /\ ((Byte * Byte) * Byte) * Byte \in Nat
      BY <3>2, <3>3, ByteIs
    <3> QED BY <3>4
  <2> QED BY <1>1, <1>2, <2>1, ByteIs DEF Short
<1>5. \A inner : FieldRead(words, tag, d, inner) = <<[tag |-> tag, value |-> v]>>
  BY <1>1, <1>2, <1>3 DEF FieldRead, w
<1>6. FieldGives(words, tag, d, <<[tag |-> tag, value |-> v]>>)
  BY <1>5 DEF FieldGives
<1>7. ReadsAs(words, Field(tag, d), <<[tag |-> tag, value |-> v]>>)
  BY <1>2, <1>4, <1>6, FieldReads
<1> QED BY <1>7 DEF d, w

\* A container is a field: its length, filled in late, is its body's.
LEMMA ContainerIsField ==
  ASSUME NEW t, NEW body, IsSeq(body)
  PROVE  Container(t, body) = Field(t, body)
<1> DEFINE zero == Digits(0, 4)
           full == Digits(Len(body), 4)
           one == <<t>>
           out == (one \o zero) \o body
           field == (one \o full) \o body
           len == Digits(Len(out) - HeaderCells, 4)
           made == [i \in 1 .. Len(out) |-> IF i \in 2 .. HeaderCells THEN len[i - 1] ELSE out[i]]
<1>1. Container(t, body) = made /\ Field(t, body) = field
  BY DEF Container, Field
<1>2. Len(body) \in Nat /\ IsSeq(one) /\ Len(one) = 1 /\ HeaderCells = 5
  BY IsSeqLen, OneIsSeq DEF HeaderCells
<1>3. IsSeq(zero) /\ Len(zero) = 4 /\ IsSeq(full) /\ Len(full) = 4
  BY <1>2, DigitsAre DEF IsSeq
<1> HIDE DEF one, zero, full
<1> DEFINE a == one \o zero
           b == one \o full
<1>4. /\ IsSeq(a) /\ Len(a) = 5 /\ \A i \in 1 .. 5 : a[i] = IF i <= 1 THEN one[i] ELSE zero[i - 1]
      /\ IsSeq(b) /\ Len(b) = 5 /\ \A i \in 1 .. 5 : b[i] = IF i <= 1 THEN one[i] ELSE full[i - 1]
  <2>1. /\ IsSeq(a) /\ Len(a) = Len(one) + Len(zero)
        /\ \A i \in 1 .. Len(one) + Len(zero) :
             a[i] = IF i <= Len(one) THEN one[i] ELSE zero[i - Len(one)]
    BY <1>2, <1>3, ConcatIsSeq
  <2>2. /\ IsSeq(b) /\ Len(b) = Len(one) + Len(full)
        /\ \A i \in 1 .. Len(one) + Len(full) :
             b[i] = IF i <= Len(one) THEN one[i] ELSE full[i - Len(one)]
    BY <1>2, <1>3, ConcatIsSeq
  <2>3. Len(one) + Len(zero) = 5 /\ Len(one) + Len(full) = 5
    BY <1>2, <1>3
  <2> QED BY <1>2, <2>1, <2>2, <2>3
<1> HIDE DEF a, b
<1>5. /\ IsSeq(a \o body) /\ Len(a \o body) = 5 + Len(body)
      /\ \A i \in 1 .. 5 + Len(body) : (a \o body)[i] = IF i <= 5 THEN a[i] ELSE body[i - 5]
      /\ IsSeq(b \o body) /\ Len(b \o body) = 5 + Len(body)
      /\ \A i \in 1 .. 5 + Len(body) : (b \o body)[i] = IF i <= 5 THEN b[i] ELSE body[i - 5]
  <2>1. ASSUME NEW c, IsSeq(c), Len(c) = 5
        PROVE  /\ IsSeq(c \o body) /\ Len(c \o body) = 5 + Len(body)
               /\ \A i \in 1 .. 5 + Len(body) :
                    (c \o body)[i] = IF i <= 5 THEN c[i] ELSE body[i - 5]
    <3>1. /\ IsSeq(c \o body) /\ Len(c \o body) = Len(c) + Len(body)
          /\ \A i \in 1 .. Len(c) + Len(body) :
               (c \o body)[i] = IF i <= Len(c) THEN c[i] ELSE body[i - Len(c)]
      BY <2>1, ConcatIsSeq
    <3> QED BY <2>1, <3>1
  <2> QED BY <1>4, <2>1
<1>6. out = a \o body /\ field = b \o body
  BY DEF a, b
<1> HIDE DEF out, field
<1>7. Len(out) = 5 + Len(body) /\ Len(out) - HeaderCells = Len(body)
  BY <1>2, <1>5, <1>6
<1>8. len = full
  BY <1>7 DEF full
<1> HIDE DEF len
<1>9. made = [i \in 1 .. 5 + Len(body) |-> field[i]]
  <2>1. ASSUME NEW i \in 1 .. 5 + Len(body)
        PROVE  (IF i \in 2 .. HeaderCells THEN len[i - 1] ELSE out[i]) = field[i]
    <3>1. CASE i = 1
      <4>1. out[1] = a[1] /\ field[1] = b[1] /\ a[1] = one[1] /\ b[1] = one[1]
        BY <1>2, <1>4, <1>5, <1>6
      <4> QED BY <3>1, <4>1
    <3>2. CASE i \in 2 .. 5
      <4>1. field[i] = b[i] /\ b[i] = full[i - 1]
        BY <1>2, <1>4, <1>5, <1>6, <3>2
      <4> QED BY <1>2, <1>8, <3>2, <4>1
    <3>3. CASE i > 5
      <4>1. out[i] = body[i - 5] /\ field[i] = body[i - 5]
        BY <1>2, <1>5, <1>6, <3>3
      <4> QED BY <1>2, <3>3, <4>1
    <3> QED BY <1>2, <3>1, <3>2, <3>3
  <2> QED BY <1>7, <2>1
<1>10. field = [i \in 1 .. 5 + Len(body) |-> field[i]]
  <2>1. IsSeq(field) /\ Len(field) = 5 + Len(body)
    BY <1>5, <1>6
  <2>2. PICK T : field \in Seq(T)
    BY <2>1 DEF IsSeq
  <2> QED BY <2>1, <2>2
<1> QED BY <1>1, <1>9, <1>10

-----------------------------------------------------------------------------
(* Looking a tag up *)

One(t, v) == <<[tag |-> t, value |-> v]>>

LEMMA HasBoth ==
  ASSUME NEW a, IsSeq(a), NEW b, IsSeq(b), NEW t
  PROVE  Has(a \o b, t) <=> Has(a, t) \/ Has(b, t)
<1>1. /\ Len(a) \in Nat /\ Len(b) \in Nat /\ Len(a \o b) = Len(a) + Len(b)
      /\ \A i \in 1 .. Len(a) + Len(b) : (a \o b)[i] = IF i <= Len(a) THEN a[i] ELSE b[i - Len(a)]
  BY ConcatIsSeq, IsSeqLen
<1>2. ASSUME NEW i \in 1 .. Len(a), a[i].tag = t PROVE Has(a \o b, t)
  <2>1. i \in 1 .. Len(a \o b) /\ (a \o b)[i].tag = t
    BY <1>1, <1>2
  <2> QED BY <2>1 DEF Has
<1>3. ASSUME NEW i \in 1 .. Len(b), b[i].tag = t PROVE Has(a \o b, t)
  <2>1. Len(a) + i \in 1 .. Len(a \o b) /\ (a \o b)[Len(a) + i] = b[i]
    BY <1>1
  <2> QED BY <1>3, <2>1 DEF Has
<1>4. ASSUME NEW i \in 1 .. Len(a \o b), (a \o b)[i].tag = t PROVE Has(a, t) \/ Has(b, t)
  <2>1. CASE i <= Len(a)
    BY <1>1, <1>4, <2>1 DEF Has
  <2>2. CASE i > Len(a)
    <3>1. i - Len(a) \in 1 .. Len(b) /\ b[i - Len(a)].tag = t
      BY <1>1, <1>4, <2>2
    <3> QED BY <3>1 DEF Has
  <2> QED BY <1>1, <2>1, <2>2
<1> QED BY <1>2, <1>3, <1>4 DEF Has

LEMMA HasOne ==
  ASSUME NEW t, NEW v, NEW u
  PROVE  Has(One(t, v), u) <=> t = u
<1>1. Len(One(t, v)) = 1 /\ One(t, v)[1].tag = t
  BY DEF One
<1> QED BY <1>1 DEF Has

\* The least index is what it is.
LEMMA MinIs ==
  ASSUME NEW S, NEW m \in S, S \subseteq Nat, \A n \in S : m <= n
  PROVE  Min(S) = m
<1>1. \A n \in S : n \in S /\ (\A k \in S : n <= k) => n = m
  OBVIOUS
<1> QED BY <1>1 DEF Min

LEMMA TheIs ==
  ASSUME NEW fields, Len(fields) \in Nat, NEW t, NEW m \in 1 .. Len(fields), fields[m].tag = t,
         \A i \in 1 .. m - 1 : fields[i].tag # t
  PROVE  The(fields, t) = fields[m].value
<1> DEFINE S == {i \in 1 .. Len(fields) : fields[i].tag = t}
<1>1. m \in S /\ S \subseteq Nat
  OBVIOUS
<1>2. \A i \in S : m <= i
  OBVIOUS
<1> HIDE DEF S
<1>3. Min(S) = m
  BY <1>1, <1>2, MinIs
<1> QED BY <1>3 DEF The, S

LEMMA TheOne ==
  ASSUME NEW t, NEW v
  PROVE  The(One(t, v), t) = v
<1>1. Len(One(t, v)) = 1 /\ One(t, v)[1] = [tag |-> t, value |-> v]
  BY DEF One
<1> HIDE DEF One
<1>2. \A i \in 1 .. 1 - 1 : One(t, v)[i].tag # t
  OBVIOUS
<1>3. 1 \in 1 .. Len(One(t, v)) /\ Len(One(t, v)) \in Nat /\ One(t, v)[1].tag = t
  BY <1>1
<1>4. The(One(t, v), t) = One(t, v)[1].value
  BY <1>2, <1>3, TheIs
<1> QED BY <1>1, <1>4

\* Where a tag that there is comes first.
LEMMA FirstHas ==
  ASSUME NEW fields, IsSeq(fields), NEW t, Has(fields, t)
  PROVE  \E m \in 1 .. Len(fields) : fields[m].tag = t /\ \A i \in 1 .. m - 1 : fields[i].tag # t
<1> DEFINE S == {i \in 1 .. Len(fields) : fields[i].tag = t}
<1>1. Len(fields) \in Nat
  BY IsSeqLen
<1>2. S \subseteq Nat /\ S # {}
  BY <1>1 DEF Has
<1>3. PICK m \in S : \A i \in S : m <= i
  BY <1>2, Least
<1>4. ASSUME NEW i \in 1 .. m - 1 PROVE fields[i].tag # t
  <2>1. i \in 1 .. Len(fields) /\ ~(m <= i)
    BY <1>1, <1>2, <1>3
  <2> QED BY <1>3, <2>1
<1> QED BY <1>3, <1>4

LEMMA TheFirst ==
  ASSUME NEW a, IsSeq(a), NEW b, IsSeq(b), NEW t, Has(a, t)
  PROVE  The(a \o b, t) = The(a, t)
<1>1. /\ Len(a) \in Nat /\ Len(b) \in Nat /\ IsSeq(a \o b) /\ Len(a \o b) = Len(a) + Len(b)
      /\ \A i \in 1 .. Len(a) + Len(b) : (a \o b)[i] = IF i <= Len(a) THEN a[i] ELSE b[i - Len(a)]
  BY ConcatIsSeq, IsSeqLen
<1>2. PICK m \in 1 .. Len(a) : a[m].tag = t /\ \A i \in 1 .. m - 1 : a[i].tag # t
  BY FirstHas
<1>3. The(a, t) = a[m].value
  BY <1>1, <1>2, TheIs
<1> DEFINE c == a \o b
<1>4. m \in 1 .. Len(c) /\ c[m] = a[m] /\ Len(c) \in Nat
  BY <1>1
<1>5. \A i \in 1 .. m - 1 : c[i].tag # t
  BY <1>1, <1>2
<1> HIDE DEF c
<1>6. The(c, t) = c[m].value
  BY <1>2, <1>4, <1>5, TheIs
<1> QED BY <1>3, <1>4, <1>6 DEF c

LEMMA TheSecond ==
  ASSUME NEW a, IsSeq(a), NEW b, IsSeq(b), NEW t, ~Has(a, t), Has(b, t)
  PROVE  The(a \o b, t) = The(b, t)
<1>1. /\ Len(a) \in Nat /\ Len(b) \in Nat /\ IsSeq(a \o b) /\ Len(a \o b) = Len(a) + Len(b)
      /\ \A i \in 1 .. Len(a) + Len(b) : (a \o b)[i] = IF i <= Len(a) THEN a[i] ELSE b[i - Len(a)]
  BY ConcatIsSeq, IsSeqLen
<1>2. PICK m \in 1 .. Len(b) : b[m].tag = t /\ \A i \in 1 .. m - 1 : b[i].tag # t
  BY FirstHas
<1>3. The(b, t) = b[m].value
  BY <1>1, <1>2, TheIs
<1> DEFINE c == a \o b
           k == Len(a) + m
<1>4. k \in 1 .. Len(c) /\ c[k] = b[m] /\ Len(c) \in Nat
  BY <1>1
<1>5. ASSUME NEW i \in 1 .. k - 1 PROVE c[i].tag # t
  <2>1. CASE i <= Len(a)
    BY <1>1, <2>1 DEF Has
  <2>2. CASE i > Len(a)
    <3>1. i - Len(a) \in 1 .. m - 1 /\ c[i] = b[i - Len(a)]
      BY <1>1, <2>2
    <3> QED BY <1>2, <3>1
  <2> QED BY <1>1, <2>1, <2>2
<1> HIDE DEF c, k
<1>6. The(c, t) = c[k].value
  BY <1>2, <1>4, <1>5, TheIs
<1> QED BY <1>3, <1>4, <1>6 DEF c

-----------------------------------------------------------------------------
(* Many fields, one after the other *)

\* Parts that read as a record each read, one after the other, as those records.
LEMMA ManyRead ==
  ASSUME NEW words, NEW seqs, IsSeq(seqs), NEW rec,
         \A i \in 1 .. Len(seqs) : ReadsAs(words, seqs[i], <<rec[i]>>)
  PROVE  ReadsAs(words, FlattenSeq(seqs), [i \in 1 .. Len(seqs) |-> rec[i]])
<1> DEFINE N == Len(seqs)
           f == Flat(seqs)
           upTo(m) == [i \in 1 .. m |-> rec[i]]
           G == {m \in Nat : m + 1 <= N => ReadsAs(words, f[m + 1], upTo(m + 1))}
<1>0. N \in Nat
  BY IsSeqLen
<1>1. CASE N = 0
  <2>1. FlattenSeq(seqs) = <<>>
    <3>1. FlattenSeq(seqs) = seqs
      BY <1>1, FlattenIsLast
    <3> QED BY <1>1, <3>1, EmptySeq DEF IsSeq
  <2>2. upTo(0) = <<>>
    OBVIOUS
  <2> HIDE DEF upTo
  <2>3. ReadsAs(words, <<>>, <<>>)
    BY NothingReads
  <2> QED BY <1>1, <2>1, <2>2, <2>3 DEF upTo
<1>2. CASE N # 0
  <2>0. \A m \in Nat : IsSeq(upTo(m)) /\ Len(upTo(m)) = m /\ upTo(m + 1) = upTo(m) \o <<rec[m + 1]>>
    <3> TAKE m \in Nat
    <3>1. upTo(m) \in Seq({rec[i] : i \in 1 .. m + 1}) /\ Len(upTo(m)) = m
      OBVIOUS
    <3>2. upTo(m + 1) = upTo(m) \o <<rec[m + 1]>>
      <4>1. ASSUME NEW k \in 1 .. m + 1
            PROVE  (upTo(m) \o <<rec[m + 1]>>)[k] = rec[k]
        BY <3>1
      <4>2. Len(upTo(m) \o <<rec[m + 1]>>) = m + 1
        BY <3>1
      <4>3. upTo(m) \o <<rec[m + 1]>> = [k \in 1 .. m + 1 |-> (upTo(m) \o <<rec[m + 1]>>)[k]]
        <5>1. upTo(m) \o <<rec[m + 1]>> \in Seq({rec[i] : i \in 1 .. m + 1})
          BY <3>1
        <5> HIDE DEF upTo
        <5> QED BY <4>2, <5>1
      <4> QED BY <4>1, <4>3
    <3> QED BY <3>1, <3>2 DEF IsSeq
  <2>1. 0 \in G
    <3>1. f[1] = seqs[1]
      BY <1>2, FlattenGoes
    <3>3. 1 \in 1 .. N
      BY <1>0, <1>2
    <3>4. ReadsAs(words, seqs[1], <<rec[1]>>)
      BY <3>3
    <3>2. upTo(1) = <<rec[1]>>
      OBVIOUS
    <3> HIDE DEF f, upTo
    <3> QED BY <3>1, <3>2, <3>4
  <2>2. ASSUME NEW m \in Nat, m \in G PROVE m + 1 \in G
    <3> SUFFICES ASSUME m + 2 <= N PROVE ReadsAs(words, f[m + 2], upTo(m + 2))
      BY <1>0
    <3>1. /\ m + 1 \in 1 .. N - 1 /\ (m + 1) + 1 = m + 2 /\ m + 1 <= N
          /\ m + 1 \in Nat /\ m + 2 \in 1 .. N
      BY <1>0
    <3>2. f[m + 2] = f[m + 1] \o seqs[m + 2]
      BY <1>2, <3>1, FlattenGoes
    <3>3. ReadsAs(words, f[m + 1], upTo(m + 1)) /\ ReadsAs(words, seqs[m + 2], <<rec[m + 2]>>)
      BY <2>2, <3>1
    <3>4. upTo(m + 2) = upTo(m + 1) \o <<rec[m + 2]>>
      BY <2>0, <3>1
    <3> HIDE DEF f, upTo
    <3> QED BY <3>2, <3>3, <3>4, BothRead
  <2> HIDE DEF G
  <2>3. Nat \subseteq G
    BY <2>1, <2>2, SetInduction
  <2>4. N - 1 \in G
    BY <1>0, <1>2, <2>3
  <2>5. ReadsAs(words, f[N], upTo(N))
    <3>1. N - 1 + 1 = N
      BY <1>0
    <3> QED BY <1>0, <2>4, <3>1 DEF G
  <2> QED BY <1>2, <2>5, FlattenGoes
<1> QED BY <1>1, <1>2

\* Parts of one length.
LEMMA ManyLen ==
  ASSUME NEW seqs, IsSeq(seqs), NEW c \in Nat,
         \A i \in 1 .. Len(seqs) : IsSeq(seqs[i]) /\ Len(seqs[i]) = c
  PROVE  Len(FlattenSeq(seqs)) = Len(seqs) * c
<1> DEFINE N == Len(seqs)
           f == Flat(seqs)
           P(m) == IsSeq(f[m + 1]) /\ Len(f[m + 1]) = (m + 1) * c
           G == {m \in Nat : m + 1 <= N => P(m)}
<1>0. N \in Nat
  BY IsSeqLen
<1>1. CASE N = 0
  <2>1. FlattenSeq(seqs) = seqs
    BY <1>1, FlattenIsLast
  <2> QED BY <1>1, <2>1
<1>2. CASE N # 0
  <2>1. 0 \in G
    <3>1. f[1] = seqs[1]
      BY <1>2, FlattenGoes
    <3>2. 1 \in 1 .. N
      BY <1>0, <1>2
    <3> HIDE DEF f
    <3> QED BY <3>1, <3>2
  <2>2. ASSUME NEW m \in Nat, m \in G PROVE m + 1 \in G
    <3> SUFFICES ASSUME m + 2 <= N PROVE P(m + 1)
      BY <1>0
    <3>1. /\ m + 1 \in 1 .. N - 1 /\ (m + 1) + 1 = m + 2 /\ m + 1 <= N
          /\ m + 1 \in Nat /\ m + 2 \in 1 .. N
      BY <1>0
    <3>2. f[m + 2] = f[m + 1] \o seqs[m + 2]
      BY <1>2, <3>1, FlattenGoes
    <3>3. /\ IsSeq(f[m + 1]) /\ Len(f[m + 1]) = (m + 1) * c
          /\ IsSeq(seqs[m + 2]) /\ Len(seqs[m + 2]) = c
      BY <2>2, <3>1
    <3> HIDE DEF f
    <3> DEFINE a == f[m + 1]
               b == seqs[m + 2]
    <3>6. IsSeq(a) /\ IsSeq(b) /\ Len(a) = (m + 1) * c /\ Len(b) = c
      BY <3>3
    <3>7. f[m + 2] = a \o b
      BY <3>2
    <3> HIDE DEF a, b
    <3>8. IsSeq(a \o b) /\ Len(a \o b) = Len(a) + Len(b)
      BY <3>6, ConcatIsSeq
    <3>4. IsSeq(f[m + 2]) /\ Len(f[m + 2]) = (m + 1) * c + c
      BY <3>6, <3>7, <3>8
    <3>5. (m + 1) * c + c = (m + 2) * c
      OBVIOUS
    <3> QED BY <3>1, <3>4, <3>5
  <2> HIDE DEF G
  <2>3. Nat \subseteq G
    BY <2>1, <2>2, SetInduction
  <2>4. N - 1 \in G
    BY <1>0, <1>2, <2>3
  <2>5. Len(f[N]) = N * c
    <3>1. N - 1 + 1 = N
      BY <1>0
    <3>2. P(N - 1)
      BY <1>0, <2>4, <3>1 DEF G
    <3> QED BY <3>1, <3>2
  <2> QED BY <1>2, <2>5, FlattenGoes
<1> QED BY <1>1, <1>2

-----------------------------------------------------------------------------
(* Numbers of a width, and containers of fields *)

\* What is short in a body of bytes of 16 values or more.
LEMMA SmallIsShort ==
  ASSUME NEW n \in Nat, n < 65536
  PROVE  n < Byte * Byte * Byte * Byte
<1>1. Byte * Byte >= 256 /\ Byte * Byte \in Nat
  <2>1. ASSUME NEW b \in Nat, b >= 16 PROVE b * b >= 256 /\ b * b \in Nat
    <3>1. b * b >= 16 * b
      BY <2>1
    <3> QED BY <2>1, <3>1
  <2> QED BY <2>1, ByteIs
<1>2. ASSUME NEW k \in Nat, NEW m \in Nat, k >= m PROVE k * Byte >= m * 16 /\ k * Byte \in Nat
  <2>1. ASSUME NEW b \in Nat, b >= 16 PROVE k * b >= m * 16 /\ k * b \in Nat
    <3>1. k * b >= k * 16
      BY <2>1
    <3>2. k * 16 >= m * 16
      BY <1>2
    <3> QED BY <2>1, <3>1, <3>2
  <2> QED BY <2>1, ByteIs
<1>3. (Byte * Byte) * Byte >= 4096 /\ (Byte * Byte) * Byte \in Nat
  <2>1. (Byte * Byte) * Byte >= 256 * 16
    BY <1>1, <1>2
  <2> QED BY <1>1, <1>2, <2>1
<1>4. ((Byte * Byte) * Byte) * Byte >= 65536 /\ ((Byte * Byte) * Byte) * Byte \in Nat
  <2>1. ((Byte * Byte) * Byte) * Byte >= 4096 * 16
    BY <1>2, <1>3
  <2> QED BY <1>2, <1>3, <2>1
<1> QED BY <1>4

LEMMA IntReads ==
  ASSUME NEW words, NEW tag, tag \in DOMAIN words, words[tag] = "Int",
         NEW v \in Nat, v < Byte * Byte * Byte * Byte
  PROVE  ReadsAs(words, U32(tag, v), One(tag, v))
<1>1. Width[words[tag]] = 4 /\ words[tag] \in DOMAIN Width
  BY DEF Width
<1>2. Quotients(v, 4)[4] = 0
  BY DigitsSuffice
<1> QED BY <1>1, <1>2, NumberReads DEF U32, One

LEMMA ShortReads ==
  ASSUME NEW words, NEW tag, tag \in DOMAIN words, words[tag] = "Short",
         NEW v \in Nat, v < Byte * Byte
  PROVE  ReadsAs(words, U16(tag, v), One(tag, v))
<1>1. Width[words[tag]] = 2 /\ words[tag] \in DOMAIN Width
  BY DEF Width
<1>2. Quotients(v, 2)[2] = 0
  BY DigitsSuffice
<1> QED BY <1>1, <1>2, NumberReads DEF U16, One

LEMMA NumberLen ==
  ASSUME NEW tag, NEW v \in Nat
  PROVE  Len(U16(tag, v)) = 7 /\ Len(U32(tag, v)) = 9 /\ IsSeq(U16(tag, v)) /\ IsSeq(U32(tag, v))
<1>1. IsSeq(Digits(v, 2)) /\ Len(Digits(v, 2)) = 2 /\ IsSeq(Digits(v, 4)) /\ Len(Digits(v, 4)) = 4
  BY DigitsAre DEF IsSeq
<1>2. ASSUME NEW n, NEW d, IsSeq(d), Len(d) = n
      PROVE  IsSeq(Field(tag, d)) /\ Len(Field(tag, d)) = 5 + n
  BY <1>2, FieldIsSeq
<1>3. IsSeq(Field(tag, Digits(v, 2))) /\ Len(Field(tag, Digits(v, 2))) = 5 + 2
  BY <1>1, <1>2
<1>4. IsSeq(Field(tag, Digits(v, 4))) /\ Len(Field(tag, Digits(v, 4))) = 5 + 4
  BY <1>1, <1>2
<1> QED BY <1>3, <1>4 DEF U16, U32

\* A container of what reads as fields, none of them malformed.
LEMMA ContainerReads ==
  ASSUME NEW words, NEW tag, tag \in DOMAIN words, words[tag] = "List",
         NEW body, NEW r, ReadsAs(words, body, r), Short(body), ~Has(r, "malformed")
  PROVE  ReadsAs(words, Container(tag, body), One(tag, r))
<1>1. IsSeq(body)
  BY DEF ReadsAs
<1>2. Container(tag, body) = Field(tag, body)
  BY <1>1, ContainerIsField
<1> QED BY <1>2, ListReads DEF One

(***************************************************************************)
(* The dictionary                                                          *)
(***************************************************************************)
\* Each entry of the table is a tag with the name of a type.
LEMMA TableIs ==
  /\ IsSeq(FieldTable) /\ Len(FieldTable) = 55
  /\ \A i \in 1 .. 55 : FieldTable[i][2] \in DOMAIN TypeCode
<1>1. Len(FieldTable) = 55
  BY DEF FieldTable
<1>2. \A i \in 1 .. 55 : FieldTable[i][2] \in DOMAIN TypeCode
  BY DEF FieldTable, TypeCode
<1>3. ASSUME NEW T, \A i \in 1 .. 55 : FieldTable[i] \in T PROVE FieldTable \in Seq(T)
  BY <1>3 DEF FieldTable
<1>4. FieldTable \in Seq({FieldTable[i] : i \in 1 .. 55})
  BY <1>3
<1>5. IsSeq(FieldTable)
  BY <1>4 DEF IsSeq
<1> QED BY <1>1, <1>2, <1>5

LEMMA TypeCodeIs ==
  /\ \A t \in DOMAIN TypeCode : TypeCode[t] \in Nat /\ TypeCode[t] < 13
  /\ \A t, u \in DOMAIN TypeCode : TypeCode[t] = TypeCode[u] => t = u
BY DEF TypeCode

LEMMA BootstrapIs ==
  /\ {"mccr", "mdcl", "mcnm", "mcty", "mstt"} \subseteq DOMAIN Bootstrap
  /\ Bootstrap["mccr"] = "List" /\ Bootstrap["mdcl"] = "List"
  /\ Bootstrap["mcnm"] = "String" /\ Bootstrap["mcty"] = "Short" /\ Bootstrap["mstt"] = "Int"
BY DEF Bootstrap

\* What an entry of the body of /content-codes reads as.
Code(i) == One("mcnm", <<FieldTable[i][1]>>) \o One("mcty", TypeCode[FieldTable[i][2]])

LEMMA OneIs ==
  ASSUME NEW t, NEW v
  PROVE  IsSeq(One(t, v)) /\ Len(One(t, v)) = 1 /\ One(t, v)[1] = [tag |-> t, value |-> v]
BY OneIsSeq DEF One

LEMMA CodeIs ==
  ASSUME NEW i
  PROVE  /\ ~Has(Code(i), "malformed")
         /\ The(Code(i), "mcnm") = <<FieldTable[i][1]>>
         /\ The(Code(i), "mcty") = TypeCode[FieldTable[i][2]]
<1> DEFINE a == One("mcnm", <<FieldTable[i][1]>>)
           b == One("mcty", TypeCode[FieldTable[i][2]])
<1>1. IsSeq(a) /\ IsSeq(b)
  BY OneIs
<1>2. /\ Has(a, "mcnm") /\ ~Has(a, "mcty") /\ ~Has(a, "malformed")
      /\ Has(b, "mcty") /\ ~Has(b, "malformed")
  BY HasOne
<1>3. The(a, "mcnm") = <<FieldTable[i][1]>> /\ The(b, "mcty") = TypeCode[FieldTable[i][2]]
  BY TheOne
<1> HIDE DEF a, b
<1>4. ~Has(a \o b, "malformed")
  BY <1>1, <1>2, HasBoth
<1>5. The(a \o b, "mcnm") = The(a, "mcnm")
  BY <1>1, <1>2, TheFirst
<1>6. The(a \o b, "mcty") = The(b, "mcty")
  BY <1>1, <1>2, TheSecond
<1>7. Code(i) = a \o b
  BY DEF Code, a, b
<1> QED BY <1>3, <1>4, <1>5, <1>6, <1>7

Entry(i) ==
  Container("mdcl", Field("mcnm", <<FieldTable[i][1]>>) \o U16("mcty", TypeCode[FieldTable[i][2]]))

LEMMA EntryReads ==
  ASSUME NEW i \in 1 .. 55
  PROVE  /\ ReadsAs(Bootstrap, Entry(i), <<[tag |-> "mdcl", value |-> Code(i)]>>)
         /\ IsSeq(Entry(i)) /\ Len(Entry(i)) = 18
<1> DEFINE name == <<FieldTable[i][1]>>
           code == TypeCode[FieldTable[i][2]]
           a == Field("mcnm", name)
           b == U16("mcty", code)
<1>1. code \in Nat /\ code < 13
  BY TableIs, TypeCodeIs
<1>2. IsSeq(name) /\ Len(name) = 1
  BY OneIsSeq
<1> HIDE DEF name, code
<1>3. ReadsAs(Bootstrap, a, One("mcnm", name))
  <2>1. Short(name)
    BY <1>2, SmallIsShort DEF Short
  <2> QED BY <1>2, <2>1, BootstrapIs, StringReads DEF One
<1>4. ReadsAs(Bootstrap, b, One("mcty", code))
  <2>1. code < Byte * Byte
    <3>1. ASSUME NEW n \in Nat, n >= 16 PROVE n * n >= 256
      <4>1. n * n >= 16 * n
        BY <3>1
      <4> QED BY <3>1, <4>1
    <3>2. Byte * Byte >= 256 /\ Byte * Byte \in Nat
      BY <3>1, ByteIs
    <3> QED BY <1>1, <3>2
  <2> QED BY <1>1, <2>1, BootstrapIs, ShortReads
<1>5. IsSeq(a) /\ Len(a) = 6 /\ IsSeq(b) /\ Len(b) = 7
  <2>1. Len(a) = 5 + Len(name)
    BY <1>2, FieldIsSeq
  <2> QED BY <1>1, <1>2, <2>1, FieldIsSeq, NumberLen
<1> HIDE DEF a, b
<1>6. ReadsAs(Bootstrap, a \o b, One("mcnm", name) \o One("mcty", code))
  BY <1>3, <1>4, BothRead
<1>7. IsSeq(a \o b) /\ Len(a \o b) = 13
  <2>1. Len(a \o b) = Len(a) + Len(b) /\ IsSeq(a \o b)
    BY <1>5, ConcatIsSeq
  <2> QED BY <1>5, <2>1
<1>8. One("mcnm", name) \o One("mcty", code) = Code(i)
  BY DEF Code, name, code
<1>9. ReadsAs(Bootstrap, a \o b, Code(i)) /\ Short(a \o b) /\ ~Has(Code(i), "malformed")
  <2>1. 13 < Byte * Byte * Byte * Byte
    BY SmallIsShort
  <2>2. Short(a \o b)
    BY <1>7, <2>1 DEF Short
  <2>3. ~Has(Code(i), "malformed")
    BY CodeIs
  <2> QED BY <1>6, <1>8, <2>2, <2>3
<1>10. ReadsAs(Bootstrap, Container("mdcl", a \o b), One("mdcl", Code(i)))
  BY <1>9, BootstrapIs, ContainerReads
<1>11. Container("mdcl", a \o b) = Entry(i)
  BY DEF Entry, a, b, name, code
<1>12. IsSeq(Container("mdcl", a \o b)) /\ Len(Container("mdcl", a \o b)) = 18
  <2>1. Container("mdcl", a \o b) = Field("mdcl", a \o b)
    BY <1>7, ContainerIsField
  <2>2. Len(Field("mdcl", a \o b)) = 5 + Len(a \o b) /\ IsSeq(Field("mdcl", a \o b))
    BY <1>7, FieldIsSeq
  <2> QED BY <1>7, <2>1, <2>2
<1> QED BY <1>10, <1>11, <1>12 DEF One

Codes == One("mstt", 200) \o [i \in 1 .. 55 |-> [tag |-> "mdcl", value |-> Code(i)]]

LEMMA CodesAre ==
  /\ IsSeq(Codes) /\ Len(Codes) = 56
  /\ Codes[1].tag = "mstt"
  /\ \A i \in 1 .. 55 : Codes[i + 1] = [tag |-> "mdcl", value |-> Code(i)]
<1> DEFINE a == One("mstt", 200)
           b == [i \in 1 .. 55 |-> [tag |-> "mdcl", value |-> Code(i)]]
<1>1. IsSeq(a) /\ Len(a) = 1 /\ a[1].tag = "mstt"
  <2>1. IsSeq(a) /\ Len(a) = 1 /\ a[1] = [tag |-> "mstt", value |-> 200]
    BY OneIs
  <2> QED BY <2>1
<1>2. IsSeq(b) /\ Len(b) = 55
  <2>1. b \in [1 .. 55 -> {[tag |-> "mdcl", value |-> Code(i)] : i \in 1 .. 55}]
    OBVIOUS
  <2> QED BY <2>1, FunctionIsSeq
<1>3. \A i \in 1 .. 55 : b[i] = [tag |-> "mdcl", value |-> Code(i)]
  OBVIOUS
<1> HIDE DEF a, b
<1>4. /\ IsSeq(a \o b) /\ Len(a \o b) = Len(a) + Len(b)
      /\ \A i \in 1 .. Len(a) + Len(b) : (a \o b)[i] = IF i <= Len(a) THEN a[i] ELSE b[i - Len(a)]
  <2>1. IsSeq(a) /\ IsSeq(b)
    BY <1>1, <1>2
  <2> QED BY <2>1, ConcatIsSeq
<1>5. Codes = a \o b
  BY DEF Codes, a, b
<1>6. \A i \in 1 .. 55 : (a \o b)[i + 1] = b[i]
  <2> TAKE i \in 1 .. 55
  <2>1. i + 1 \in 1 .. Len(a) + Len(b) /\ ~(i + 1 <= Len(a)) /\ (i + 1) - Len(a) = i
    BY <1>1, <1>2
  <2> QED BY <1>4, <2>1
<1>7. (a \o b)[1] = a[1]
  <2>1. 1 \in 1 .. Len(a) + Len(b) /\ 1 <= Len(a)
    BY <1>1, <1>2
  <2> QED BY <1>4, <2>1
<1>8. Len(a \o b) = 56 /\ (a \o b)[1].tag = "mstt"
  BY <1>1, <1>2, <1>4, <1>7
<1>9. \A i \in 1 .. 55 : (a \o b)[i + 1] = [tag |-> "mdcl", value |-> Code(i)]
  BY <1>3, <1>6
<1> QED BY <1>4, <1>5, <1>8, <1>9

\* A client that knows how to read the dictionary reads it.
LEMMA CodesRead == Read(Bootstrap, ContentCodesBody) = One("mccr", Codes)
<1> DEFINE seqs == [i \in 1 .. Len(FieldTable) |-> Entry(i)]
           rec == [i \in 1 .. 55 |-> [tag |-> "mdcl", value |-> Code(i)]]
           a == U32("mstt", 200)
           b == FlattenSeq(seqs)
<1>1. IsSeq(seqs) /\ Len(seqs) = 55 /\ \A i \in 1 .. 55 : seqs[i] = Entry(i)
  <2>1. Len(FieldTable) = 55
    BY TableIs
  <2>2. seqs \in [1 .. 55 -> {Entry(i) : i \in 1 .. 55}]
    BY <2>1
  <2>3. \A i \in 1 .. 55 : seqs[i] = Entry(i)
    BY <2>1
  <2> HIDE DEF seqs
  <2>4. IsSeq(seqs) /\ Len(seqs) = 55
    BY <2>2, FunctionIsSeq
  <2> QED BY <2>3, <2>4
<1> HIDE DEF seqs
<1>2. \A i \in 1 .. Len(seqs) : ReadsAs(Bootstrap, seqs[i], <<rec[i]>>)
  BY <1>1, EntryReads
<1>3. ReadsAs(Bootstrap, b, rec)
  <2>1. ReadsAs(Bootstrap, b, [i \in 1 .. Len(seqs) |-> rec[i]])
    <3> HIDE DEF rec
    <3> QED BY ZenonT(60), <1>1, <1>2, ManyRead
  <2>2. [i \in 1 .. Len(seqs) |-> rec[i]] = rec
    BY <1>1
  <2> QED BY <2>1, <2>2
<1>4. ReadsAs(Bootstrap, a, One("mstt", 200))
  BY BootstrapIs, IntReads, SmallIsShort
<1>5. Len(a) = 9 /\ Len(b) = 990 /\ IsSeq(a) /\ IsSeq(b)
  <2>0. \A i \in 1 .. Len(seqs) : IsSeq(seqs[i]) /\ Len(seqs[i]) = 18
    <3> TAKE i \in 1 .. Len(seqs)
    <3>1. i \in 1 .. 55 /\ seqs[i] = Entry(i)
      BY <1>1
    <3>2. IsSeq(Entry(i)) /\ Len(Entry(i)) = 18
      BY <3>1, EntryReads
    <3> QED BY <3>1, <3>2
  <2>1. Len(b) = Len(seqs) * 18
    BY ZenonT(60), <1>1, <2>0, ManyLen
  <2> QED BY <1>1, <1>3, <2>1, NumberLen DEF ReadsAs
<1> HIDE DEF a, b, rec
<1>6. ReadsAs(Bootstrap, a \o b, One("mstt", 200) \o rec)
  BY <1>3, <1>4, BothRead
<1>7. One("mstt", 200) \o rec = Codes
  BY DEF Codes, rec
<1>8. Short(a \o b)
  <2>1. Len(a \o b) = Len(a) + Len(b)
    <3>1. IsSeq(a) /\ IsSeq(b)
      BY <1>5
    <3> QED BY <3>1, ConcatIsSeq
  <2>2. Len(a \o b) = 999
    BY <1>5, <2>1
  <2>3. 999 < Byte * Byte * Byte * Byte
    BY SmallIsShort
  <2> QED BY <2>2, <2>3 DEF Short
<1>9. ~Has(Codes, "malformed")
  <2> SUFFICES ASSUME NEW i \in 1 .. 56 PROVE Codes[i].tag # "malformed"
    BY CodesAre DEF Has
  <2>1. CASE i = 1
    BY <2>1, CodesAre
  <2>2. CASE i # 1
    <3>1. i - 1 \in 1 .. 55 /\ (i - 1) + 1 = i
      BY <2>2
    <3>2. Codes[(i - 1) + 1] = [tag |-> "mdcl", value |-> Code(i - 1)]
      BY <3>1, CodesAre
    <3> QED BY <3>1, <3>2
  <2> QED BY <2>1, <2>2
<1>10. ReadsAs(Bootstrap, Container("mccr", a \o b), One("mccr", Codes))
  BY <1>6, <1>7, <1>8, <1>9, BootstrapIs, ContainerReads
<1>11. Container("mccr", a \o b) = ContentCodesBody
  <2>1. b = FlattenSeq([i \in 1 .. Len(FieldTable) |->
              Container("mdcl", Field("mcnm", <<FieldTable[i][1]>>)
                                  \o U16("mcty", TypeCode[FieldTable[i][2]]))])
    BY DEF b, seqs, Entry
  <2>2. a = U32(dmap.status, 200)
    BY DEF a, dmap
  <2> QED BY <2>1, <2>2 DEF ContentCodesBody
<1> QED BY <1>10, <1>11, ReadOf

\* A client that knows nothing but how to read /content-codes gets from its
\* bytes the tags of the table of content_codes.rs, all of them and no other,
\* each with a type that the table gives it.
THEOREM DictionaryIs ==
  /\ DOMAIN Dictionary(ContentCodesBody) = {FieldTable[i][1] : i \in 1 .. 55}
  /\ \A t \in DOMAIN Dictionary(ContentCodesBody) :
       \E i \in 1 .. 55 : FieldTable[i][1] = t /\ FieldTable[i][2] = Dictionary(ContentCodesBody)[t]
<1> DEFINE codes == The(Read(Bootstrap, ContentCodesBody), "mccr")
           entries == {codes[i].value : i \in {k \in 1 .. Len(codes) : codes[k].tag = "mdcl"}}
           named(t) == CHOOSE e \in entries : The(e, "mcnm") = <<t>>
           typed(t) == CHOOSE ty \in DOMAIN TypeCode : TypeCode[ty] = The(named(t), "mcty")
           names == {The(e, "mcnm")[1] : e \in entries}
<1>1. Dictionary(ContentCodesBody) = [t \in names |-> typed(t)]
  BY DEF Dictionary
<1>2. codes = Codes
  BY CodesRead, TheOne
<1>3. entries = {Code(i) : i \in 1 .. 55}
  <2>1. ASSUME NEW k \in 1 .. 56, Codes[k].tag = "mdcl"
        PROVE  \E i \in 1 .. 55 : Codes[k].value = Code(i)
    <3>1. k # 1
      BY <2>1, CodesAre
    <3>2. k - 1 \in 1 .. 55 /\ (k - 1) + 1 = k
      BY <3>1
    <3>3. Codes[(k - 1) + 1] = [tag |-> "mdcl", value |-> Code(k - 1)]
      BY <3>2, CodesAre
    <3>4. Codes[k].value = Code(k - 1)
      BY <3>2, <3>3
    <3> QED BY <3>2, <3>4
  <2>2. ASSUME NEW i \in 1 .. 55
        PROVE  i + 1 \in 1 .. 56 /\ Codes[i + 1].tag = "mdcl" /\ Codes[i + 1].value = Code(i)
    BY CodesAre
  <2>3. entries = {Codes[i].value : i \in {k \in 1 .. 56 : Codes[k].tag = "mdcl"}}
    BY <1>2, CodesAre
  <2> HIDE DEF entries
  <2> QED BY ZenonT(60), <2>1, <2>2, <2>3
<1> HIDE DEF codes, entries
<1>4. names = {FieldTable[i][1] : i \in 1 .. 55}
  <2>1. ASSUME NEW i \in 1 .. 55 PROVE The(Code(i), "mcnm")[1] = FieldTable[i][1]
    <3>1. The(Code(i), "mcnm") = <<FieldTable[i][1]>>
      BY CodeIs
    <3> QED BY <3>1
  <2>2. names = {The(Code(i), "mcnm")[1] : i \in 1 .. 55}
    BY <1>3
  <2> QED BY <2>1, <2>2
<1>5. ASSUME NEW t \in names
      PROVE  \E i \in 1 .. 55 : FieldTable[i][1] = t /\ FieldTable[i][2] = typed(t)
  <2>1. \E e \in entries : The(e, "mcnm") = <<t>>
    <3>1. PICK i \in 1 .. 55 : FieldTable[i][1] = t
      BY <1>4
    <3>2. Code(i) \in entries /\ The(Code(i), "mcnm") = <<t>>
      BY <1>3, <3>1, CodeIs
    <3> QED BY <3>2
  <2>2. named(t) \in entries /\ The(named(t), "mcnm") = <<t>>
    BY <2>1
  <2> HIDE DEF named
  <2>3. PICK i \in 1 .. 55 : named(t) = Code(i)
    BY <1>3, <2>2
  <2>4. <<FieldTable[i][1]>> = <<t>> /\ The(named(t), "mcty") = TypeCode[FieldTable[i][2]]
    BY <2>2, <2>3, CodeIs
  <2>5. typed(t) = FieldTable[i][2]
    BY <2>4, TableIs, TypeCodeIs
  <2> QED BY <2>4, <2>5
<1> HIDE DEF names, typed
<1>6. DOMAIN Dictionary(ContentCodesBody) = names
  BY <1>1
<1>7. \A t \in names : Dictionary(ContentCodesBody)[t] = typed(t)
  BY <1>1
<1>8. \A t \in names : \E i \in 1 .. 55 :
        FieldTable[i][1] = t /\ FieldTable[i][2] = Dictionary(ContentCodesBody)[t]
  BY <1>5, <1>7
<1> QED BY <1>4, <1>6, <1>8

\* The tags of the answers a session needs, as that dictionary has them.
LEMMA TagsAre ==
  /\ dmap.status = "mstt" /\ dmap.sessionId = "mlid" /\ dmap.serverRevision = "musr"
  /\ list.login = "mlog" /\ list.update = "mupd"
BY DEF dmap, list

\* The dictionary that /content-codes gives.
Words == Dictionary(ContentCodesBody)

LEMMA WordsAre ==
  /\ {"mstt", "mlid", "musr", "mlog", "mupd"} \subseteq DOMAIN Words
  /\ Words["mstt"] = "Int" /\ Words["mlid"] = "Int" /\ Words["musr"] = "Int"
  /\ Words["mlog"] = "List" /\ Words["mupd"] = "List"
<1>1. /\ FieldTable[1][1] = "mstt" /\ FieldTable[21][1] = "mlid" /\ FieldTable[22][1] = "musr"
      /\ FieldTable[28][1] = "mlog" /\ FieldTable[29][1] = "mupd"
  BY TagsAre DEF FieldTable
<1>2. \A i \in 1 .. 55 : FieldTable[i][1] = "mstt" => FieldTable[i][2] = "Int"
  BY DEF FieldTable, dmap, list, daap
<1>3. \A i \in 1 .. 55 : FieldTable[i][1] = "mlid" => FieldTable[i][2] = "Int"
  BY DEF FieldTable, dmap, list, daap
<1>4. \A i \in 1 .. 55 : FieldTable[i][1] = "musr" => FieldTable[i][2] = "Int"
  BY DEF FieldTable, dmap, list, daap
<1>5. \A i \in 1 .. 55 : FieldTable[i][1] = "mlog" => FieldTable[i][2] = "List"
  BY DEF FieldTable, dmap, list, daap
<1>6. \A i \in 1 .. 55 : FieldTable[i][1] = "mupd" => FieldTable[i][2] = "List"
  BY DEF FieldTable, dmap, list, daap
<1>7. {"mstt", "mlid", "musr", "mlog", "mupd"} \subseteq DOMAIN Words
  <2>1. \A i \in 1 .. 55 : FieldTable[i][1] \in DOMAIN Words
    BY DictionaryIs DEF Words
  <2> QED BY <1>1, <2>1
<1>8. \A t \in DOMAIN Words : \E i \in 1 .. 55 : FieldTable[i][1] = t /\ FieldTable[i][2] = Words[t]
  BY DictionaryIs DEF Words
<1>9. Words["mstt"] = "Int" /\ Words["mlid"] = "Int" /\ Words["musr"] = "Int"
  BY <1>2, <1>3, <1>4, <1>7, <1>8
<1>10. Words["mlog"] = "List" /\ Words["mupd"] = "List"
  BY <1>5, <1>6, <1>7, <1>8
<1> QED BY <1>7, <1>9, <1>10

\* A container of two numbers, and the second of them.
LEMMA TwoNumbers ==
  ASSUME NEW words, NEW t, t \in DOMAIN words, words[t] = "List",
         NEW a, a \in DOMAIN words, words[a] = "Int", a # "malformed",
         NEW b, b \in DOMAIN words, words[b] = "Int", b # "malformed", a # b,
         NEW x \in Nat, x < Byte * Byte * Byte * Byte,
         NEW y \in Nat, y < Byte * Byte * Byte * Byte
  PROVE  The(Read(words, Container(t, U32(a, x) \o U32(b, y)))[1].value, b) = y
<1> DEFINE r == One(a, x)
           q == One(b, y)
           s == U32(a, x)
           u == U32(b, y)
<1>1. ReadsAs(words, s, r) /\ ReadsAs(words, u, q)
  BY IntReads
<1>2. /\ IsSeq(r) /\ IsSeq(q) /\ Has(q, b) /\ ~Has(r, b)
      /\ ~Has(r, "malformed") /\ ~Has(q, "malformed")
  BY OneIs, HasOne
<1>3. The(q, b) = y
  BY TheOne
<1>4. IsSeq(s) /\ IsSeq(u) /\ Len(s) = 9 /\ Len(u) = 9
  BY NumberLen
<1> HIDE DEF r, q, s, u
<1>5. ReadsAs(words, s \o u, r \o q)
  BY <1>1, BothRead
<1>6. ~Has(r \o q, "malformed")
  BY <1>2, HasBoth
<1>7. Short(s \o u)
  <2>1. Len(s \o u) = Len(s) + Len(u)
    <3>1. IsSeq(s) /\ IsSeq(u)
      BY <1>4
    <3> QED BY <3>1, ConcatIsSeq
  <2>2. Len(s \o u) = 18
    BY <1>4, <2>1
  <2>3. 18 < Byte * Byte * Byte * Byte
    BY SmallIsShort
  <2> QED BY <2>2, <2>3 DEF Short
<1>8. Read(words, Container(t, s \o u)) = One(t, r \o q)
  BY <1>5, <1>6, <1>7, ContainerReads, ReadOf
<1>9. One(t, r \o q)[1].value = r \o q
  BY DEF One
<1>10. The(r \o q, b) = y
  BY <1>2, <1>3, TheSecond
<1> QED BY <1>8, <1>9, <1>10 DEF s, u

\* The client hears the session it was given, and the revision there is.
LEMMA LoginHeard ==
  ASSUME dict = Words, NEW id \in Nat, id < Byte * Byte * Byte * Byte
  PROVE  The(Body(Heard(DmapResponse(LoginBody(id)))), dmap.sessionId) = id
<1>1. The(Read(Words, Container("mlog", U32("mstt", 200) \o U32("mlid", id)))[1].value, "mlid") = id
  BY WordsAre, SmallIsShort, TwoNumbers
<1> QED BY <1>1, TagsAre DEF Body, Heard, DmapResponse, DmapResponseCs, LoginBody

LEMMA UpdateHeard ==
  ASSUME dict = Words
  PROVE  The(Body(Heard(DmapResponse(UpdateBody(Revision)))), dmap.serverRevision) = Revision
<1>1. The(Read(Words, Container("mupd", U32("mstt", 200) \o U32("musr", 2)))[1].value, "musr") = 2
  BY WordsAre, SmallIsShort, TwoNumbers
<1> QED BY <1>1, TagsAre DEF Body, Heard, DmapResponse, DmapResponseCs, UpdateBody, Revision

(***************************************************************************)
(* The sessions                                                            *)
(***************************************************************************)
Clients == {Me} \cup Others

SessionTypes ==
  /\ sid \in [Clients -> [is : {"none", "taken", "in"}, id : Nat]]
  /\ next \in 1 .. MaxLogins + 1
  /\ crowd \subseteq Others

\* The counter is beyond every session there is.
CounterAhead == \A c \in Clients : sid[c].is # "none" => sid[c].id < next

\* A client that has anything to do with a session has the dictionary.
HasWords == (step # "codes" => dict = Words) /\ (sid[Me].is # "none" => step # "codes")

SessionInv == SessionTypes /\ CounterAhead /\ HasWords /\ SessionsDistinct

LEMMA SessionInit == DaapInit => SessionInv
<1> SUFFICES ASSUME DaapInit PROVE SessionInv
  OBVIOUS
<1>1. \A c \in Clients : sid[c] = NoSession
  BY DEF DaapInit, Clients
<1>2. DOMAIN sid = Clients
  BY DEF DaapInit, Clients
<1>3. SessionTypes
  BY DaapAssumption DEF DaapInit, SessionTypes, NoSession, Clients
<1> QED BY <1>1, <1>2, <1>3
        DEF SessionInv, CounterAhead, HasWords, SessionsDistinct, NoSession, DaapInit, Clients

\* What most steps do.
LEMMA SessionKept ==
  ASSUME SessionInv, UNCHANGED <<sid, next, live, crowd>>,
         (step' = step /\ dict' = dict) \/ (step' # "codes" /\ dict' = Words)
  PROVE  SessionInv'
BY DEF SessionInv, SessionTypes, CounterAhead, HasWords, SessionsDistinct, Clients, Words

LEMMA SessionStep == SessionInv /\ [DaapNext]_daapVars => SessionInv'
<1> SUFFICES ASSUME SessionInv, [DaapNext]_daapVars PROVE SessionInv'
  OBVIOUS
<1> USE DEF session, asking, updating, paging
<1>1. CASE ContentCodes
  <2>1. dict' = Words /\ step' # "codes" /\ UNCHANGED <<sid, next, live, crowd>>
    BY <1>1 DEF ContentCodes, Words, DmapResponse, DmapResponseCs
  <2> QED BY <2>1, SessionKept
<1>2. CASE ServerInfo
  <2>1. dict' = dict /\ step = "info" /\ step' = "login" /\ UNCHANGED <<sid, next, live, crowd>>
    BY <1>2 DEF ServerInfo
  <2> QED BY <2>1, SessionKept DEF SessionInv, HasWords
<1>3. CASE Update
  <2>1. dict' = dict /\ step # "codes" /\ step' # "codes" /\ UNCHANGED <<sid, next, live, crowd>>
    BY <1>3 DEF Update
  <2> QED BY <2>1, SessionKept DEF SessionInv, HasWords
<1>4. CASE UpdateEnds
  <2>1. step' = step /\ dict' = dict /\ UNCHANGED <<sid, next, live, crowd>>
    BY <1>4 DEF UpdateEnds
  <2> QED BY <2>1, SessionKept
<1>5. CASE ListDatabases
  <2>1. dict' = dict /\ step = "databases" /\ step' = "ask" /\ UNCHANGED <<sid, next, live, crowd>>
    BY <1>5 DEF ListDatabases
  <2> QED BY <2>1, SessionKept DEF SessionInv, HasWords
<1>6. CASE Ask
  <2>1. dict' = dict /\ step = "ask" /\ step' = "page" /\ UNCHANGED <<sid, next, live, crowd>>
    BY <1>6 DEF Ask
  <2> QED BY <2>1, SessionKept DEF SessionInv, HasWords
<1>7. CASE ReadNextPage \/ ReadRest \/ ReadWhole
  <2>1. step' = step /\ dict' = dict /\ UNCHANGED <<sid, next, live, crowd>>
    BY <1>7 DEF ReadNextPage, ReadRest, ReadWhole, ReadPage
  <2> QED BY <2>1, SessionKept
<1>8. ASSUME NEW c \in {Me} \cup crowd, TakeId(c)
      PROVE  SessionInv'
  <2>1. /\ sid[c].is = "none" /\ next <= MaxLogins /\ (c = Me => step = "login")
        /\ sid' = [sid EXCEPT ![c] = [is |-> "taken", id |-> next]]
        /\ next' = next + 1
        /\ live' = live /\ step' = step /\ dict' = dict /\ crowd' = crowd
    BY <1>8 DEF TakeId
  <2>2. c \in Clients /\ next \in Nat /\ MaxLogins \in Nat
    BY DaapAssumption DEF SessionInv, SessionTypes, Clients
  <2>3. SessionTypes'
    BY <2>1, <2>2 DEF SessionInv, SessionTypes
  <2>4. \A d \in Clients : sid'[d] = IF d = c THEN [is |-> "taken", id |-> next] ELSE sid[d]
    BY <2>1, <2>2 DEF SessionInv, SessionTypes
  <2>5. CounterAhead'
    BY <2>1, <2>2, <2>4 DEF SessionInv, SessionTypes, CounterAhead
  <2>6. HasWords'
    BY <2>1, <2>4 DEF SessionInv, HasWords, Clients
  <2>7. SessionsDistinct'
    <3>1. DOMAIN sid = Clients /\ DOMAIN sid' = Clients
      BY <2>1 DEF SessionInv, SessionTypes
    <3>2. \A d \in Clients : sid[d].is # "none" => sid[d].id < next /\ sid[d].id \in Nat
      BY DEF SessionInv, SessionTypes, CounterAhead
    <3> QED BY <2>1, <2>2, <2>4, <3>1, <3>2 DEF SessionInv, SessionsDistinct
  <2> QED BY <2>3, <2>5, <2>6, <2>7 DEF SessionInv
<1>9. ASSUME NEW c \in {Me} \cup crowd, LoggedIn(c)
      PROVE  SessionInv'
  <2>1. /\ sid[c].is = "taken" /\ live' = live \cup {sid[c].id}
        /\ next' = next /\ dict' = dict /\ crowd' = crowd
        /\ \/ /\ c = Me /\ step' = "update"
              /\ sid' = [sid EXCEPT ![c] = [is |-> "in",
                   id |-> The(Body(Heard(DmapResponse(LoginBody(sid[c].id)))), dmap.sessionId)]]
           \/ c # Me /\ step' = step /\ sid' = [sid EXCEPT ![c].is = "in"]
    <3>1. CASE c = Me
      <4>1. heard' = Heard(DmapResponse(LoginBody(sid[c].id)))
        BY <1>9, <3>1 DEF LoggedIn
      <4>2. Body(heard') = Body(Heard(DmapResponse(LoginBody(sid[c].id))))
        BY <4>1
      <4> QED BY <1>9, <3>1, <4>1 DEF LoggedIn, Body
    <3>2. CASE c # Me
      BY <1>9, <3>2 DEF LoggedIn
    <3> QED BY <3>1, <3>2
  <2>2. c \in Clients /\ next \in 1 .. MaxLogins + 1 /\ MaxLogins \in Nat
        /\ sid[c] \in [is : {"none", "taken", "in"}, id : Nat]
    BY DaapAssumption DEF SessionInv, SessionTypes, Clients
  <2>3. sid' = [sid EXCEPT ![c] = [is |-> "in", id |-> sid[c].id]]
    <3>1. CASE c # Me
      <4>1. sid' = [sid EXCEPT ![c].is = "in"]
        BY <2>1, <3>1
      <4>2. [sid[c] EXCEPT !.is = "in"] = [is |-> "in", id |-> sid[c].id]
        BY <2>2
      <4> QED BY <4>1, <4>2
    <3>2. CASE c = Me
      <4>1. dict = Words
        BY <2>1, <3>2 DEF SessionInv, HasWords
      <4>2. sid[c].id \in Nat /\ sid[c].id < Byte * Byte * Byte * Byte
        <5>1. sid[c].id <= MaxLogins
          BY <2>1, <2>2 DEF SessionInv, CounterAhead
        <5>2. Byte * Byte * Byte * Byte \in Nat
          <6>1. \A m, n \in Nat : m * n \in Nat
            OBVIOUS
          <6> QED BY <6>1, ByteIs
        <5> HIDE DEF session
        <5> QED BY <2>2, <5>1, <5>2, DaapAssumption
      <4>3. The(Body(Heard(DmapResponse(LoginBody(sid[c].id)))), dmap.sessionId) = sid[c].id
        BY <4>1, <4>2, LoginHeard
      <4> QED BY <2>1, <3>2, <4>3
    <3> QED BY <3>1, <3>2
  <2>4. \A d \in Clients : sid'[d] = IF d = c THEN [is |-> "in", id |-> sid[c].id] ELSE sid[d]
    BY <2>2, <2>3 DEF SessionInv, SessionTypes
  <2>5. SessionTypes'
    BY <2>1, <2>2, <2>3 DEF SessionInv, SessionTypes
  <2>6. CounterAhead'
    BY <2>1, <2>4 DEF SessionInv, CounterAhead
  <2>7. HasWords'
    BY <2>1, <2>4 DEF SessionInv, HasWords, Clients
  <2>8. SessionsDistinct'
    <3>1. DOMAIN sid = Clients /\ DOMAIN sid' = Clients
      BY <2>3 DEF SessionInv, SessionTypes
    <3> QED BY <2>1, <2>4, <3>1 DEF SessionInv, SessionsDistinct
  <2> QED BY <2>5, <2>6, <2>7, <2>8 DEF SessionInv
<1>10. ASSUME NEW c \in {Me} \cup crowd, Logout(c)
       PROVE  SessionInv'
  <2>1. /\ sid[c].is = "in" /\ (c = Me => step \in {"ask", "page"})
        /\ live' = live \ {sid[c].id} \/ live' = live
        /\ sid' = [sid EXCEPT ![c] = NoSession]
        /\ step' = IF c = Me THEN "left" ELSE step
        /\ next' = next /\ dict' = dict /\ crowd' = crowd
    BY <1>10 DEF Logout
  <2>2. c \in Clients
    BY DEF SessionInv, SessionTypes, Clients
  <2>3. \A d \in Clients : sid'[d] = IF d = c THEN NoSession ELSE sid[d]
    BY <2>1, <2>2 DEF SessionInv, SessionTypes
  <2>4. SessionTypes'
    BY <2>1, <2>2 DEF SessionInv, SessionTypes, NoSession
  <2>5. CounterAhead'
    BY <2>1, <2>3 DEF SessionInv, CounterAhead, NoSession
  <2>6. HasWords'
    BY <2>1, <2>3 DEF SessionInv, HasWords, Clients
  <2>7. SessionsDistinct'
    <3>1. DOMAIN sid = Clients /\ DOMAIN sid' = Clients
      BY <2>1 DEF SessionInv, SessionTypes
    <3>2. \A d \in Clients : d # c /\ sid[d].is = "in" => sid[d].id \in live'
      BY <2>1, <2>2, <3>1 DEF SessionInv, SessionsDistinct
    <3> QED BY <2>2, <2>3, <3>1, <3>2 DEF SessionInv, SessionsDistinct, NoSession
  <2> QED BY <2>4, <2>5, <2>6, <2>7 DEF SessionInv
<1>11. CASE UNCHANGED daapVars
  <2>1. step' = step /\ dict' = dict /\ UNCHANGED <<sid, next, live, crowd>>
    BY <1>11 DEF daapVars
  <2> QED BY <2>1, SessionKept
<1> QED BY <1>1, <1>2, <1>3, <1>4, <1>5, <1>6, <1>7, <1>8, <1>9, <1>10, <1>11 DEF DaapNext

\* Ids that are taken, kept and given back leave every session its own.
THEOREM SessionsInvariance == DaapSpec => []SessionInv
<1>1. DaapInit => SessionInv
  BY SessionInit
<1>2. SessionInv /\ [DaapNext]_daapVars => SessionInv'
  BY SessionStep
<1> QED BY <1>1, <1>2, PTL DEF DaapSpec

\* Whatever number of clients come and go, and however many ids there are, two
\* that are logged in never have one session, and nobody's ends but by its own
\* /logout: also for the client that learns its id from the bytes of /login.
THEOREM SessionsStayDistinct == DaapSpec => []SessionsDistinct
<1>1. SessionInv => SessionsDistinct
  BY DEF SessionInv
<1> QED BY <1>1, SessionsInvariance, PTL

\* An answer to /update that comes before the year is over is read, with the
\* dictionary the client has, as a revision that it did not know; and a client
\* that waits has the revision.
THEOREM AnsweredUpdatesAreNews == DaapSpec => UpdateIsNews
<1>1. SessionInv /\ [DaapNext]_daapVars =>
        [~waiting => /\ updates' # updates => known' # known
                     /\ waiting' => known = Revision]_daapVars
  <2> SUFFICES ASSUME SessionInv, DaapNext, ~waiting, updates' # updates \/ waiting'
               PROVE  IF known = Revision THEN updates' = updates ELSE ~waiting' /\ known' # known
    OBVIOUS
  <2> USE DEF session, asking, updating, paging
  <2>1. Update
    <3>1. CASE ContentCodes \/ ServerInfo \/ ListDatabases \/ Ask
      BY <3>1 DEF ContentCodes, ServerInfo, ListDatabases, Ask
    <3>2. CASE ReadNextPage \/ ReadRest \/ ReadWhole
      BY <3>2 DEF ReadNextPage, ReadRest, ReadWhole, ReadPage
    <3>3. CASE UpdateEnds
      BY <3>3 DEF UpdateEnds
    <3>4. ASSUME NEW c \in {Me} \cup crowd, TakeId(c) \/ LoggedIn(c) \/ Logout(c)
          PROVE  FALSE
      BY <3>4 DEF TakeId, LoggedIn, Logout
    <3> QED BY <3>1, <3>2, <3>3, <3>4 DEF DaapNext
  <2>2. CASE known = Revision
    BY <2>1, <2>2 DEF Update
  <2>3. CASE known # Revision
    <3>1. /\ step # "codes" /\ ~waiting'
          /\ heard' = Heard(DmapResponse(UpdateBody(Revision)))
          /\ known' = The(Body(heard'), dmap.serverRevision)
      BY <2>1, <2>3 DEF Update, Answered
    <3>2. dict = Words
      BY <3>1 DEF SessionInv, HasWords
    <3>3. known' = The(Body(Heard(DmapResponse(UpdateBody(Revision)))), dmap.serverRevision)
      BY <3>1 DEF Body
    <3>4. known' # known
      BY <2>3, <3>2, <3>3, UpdateHeard
    <3> QED BY <2>3, <3>1, <3>4
  <2> QED BY <2>2, <2>3
<1> QED BY <1>1, SessionsInvariance, PTL DEF DaapSpec, UpdateIsNews

(***************************************************************************)
(* Pieces of an answer                                                     *)
(***************************************************************************)
\* What the dictionary says of a tag.
Typed(tag, type) == tag \in DOMAIN Words /\ Words[tag] = type

\* A piece of a body, what it reads as with that dictionary, and how long it
\* may be.
Part(s, r, n) ==
  /\ ReadsAs(Words, s, r) /\ ~Has(r, "malformed")
  /\ n \in Nat /\ Len(s) <= n

\* A tag that a reading has, and its value.
Seen(r, tag, v) == IsSeq(r) /\ Has(r, tag) /\ The(r, tag) = v
Unseen(r, tag) == IsSeq(r) /\ ~Has(r, tag)

\* A piece and its reading are sequences, the piece as long as it says.
LEMMA PartSeq ==
  ASSUME NEW s, NEW r, NEW n, Part(s, r, n)
  PROVE  IsSeq(s) /\ IsSeq(r) /\ Len(s) \in Nat /\ Len(s) <= n /\ n \in Nat
         /\ Unseen(r, "malformed")
<1>1. IsSeq(s) /\ IsSeq(r) /\ n \in Nat /\ Len(s) <= n /\ ~Has(r, "malformed")
  BY DEF Part, ReadsAs
<1> QED BY <1>1, IsSeqLen DEF Unseen

\* Pieces one after the other read one after the other.
LEMMA PartBoth ==
  ASSUME NEW a, NEW r, NEW m, Part(a, r, m), NEW b, NEW q, NEW n, Part(b, q, n)
  PROVE  Part(a \o b, r \o q, m + n)
<1>1. /\ IsSeq(a) /\ IsSeq(r) /\ Len(a) \in Nat /\ Len(a) <= m /\ m \in Nat
      /\ IsSeq(b) /\ IsSeq(q) /\ Len(b) \in Nat /\ Len(b) <= n /\ n \in Nat
  BY PartSeq
<1>2. ReadsAs(Words, a \o b, r \o q)
  <2> HIDE DEF Words
  <2>1. ReadsAs(Words, a, r) /\ ReadsAs(Words, b, q)
    BY DEF Part
  <2> QED BY <2>1, BothRead
<1>3. ~Has(r \o q, "malformed")
  BY <1>1, HasBoth DEF Part
<1>4. Len(a \o b) = Len(a) + Len(b)
  BY <1>1, ConcatIsSeq
<1>5. Len(a \o b) <= m + n /\ m + n \in Nat
  BY <1>1, <1>4
<1> QED BY <1>2, <1>3, <1>5 DEF Part

\* Nothing reads as nothing.
LEMMA PartNothing == Part(<<>>, <<>>, 0)
<1>1. ReadsAs(Words, <<>>, <<>>)
  BY NothingReads
<1>2. ~Has(<<>>, "malformed")
  BY DEF Has
<1>3. Len(<<>>) <= 0 /\ 0 \in Nat
  OBVIOUS
<1> QED BY <1>1, <1>2, <1>3 DEF Part

\* A bound may be raised.
LEMMA PartLonger ==
  ASSUME NEW s, NEW r, NEW n, Part(s, r, n), NEW m \in Nat, n <= m
  PROVE  Part(s, r, m)
<1>1. Len(s) \in Nat /\ Len(s) <= n /\ n \in Nat
  BY PartSeq
<1>2. Len(s) <= m
  BY <1>1
<1> QED BY <1>2 DEF Part

\* A tag is seen in the first reading that has it.
LEMMA SeenFirst ==
  ASSUME NEW a, NEW b, IsSeq(b), NEW tag, NEW v, Seen(a, tag, v)
  PROVE  Seen(a \o b, tag, v)
<1>1. IsSeq(a) /\ Has(a, tag) /\ The(a, tag) = v
  BY DEF Seen
<1>2. IsSeq(a \o b) /\ Has(a \o b, tag) /\ The(a \o b, tag) = v
  BY <1>1, HasBoth, TheFirst, ConcatIsSeq
<1> QED BY <1>2 DEF Seen

LEMMA SeenSecond ==
  ASSUME NEW a, NEW b, NEW tag, NEW v, Unseen(a, tag), Seen(b, tag, v)
  PROVE  Seen(a \o b, tag, v)
<1>1. IsSeq(a) /\ ~Has(a, tag) /\ IsSeq(b) /\ Has(b, tag) /\ The(b, tag) = v
  BY DEF Seen, Unseen
<1>2. IsSeq(a \o b) /\ Has(a \o b, tag) /\ The(a \o b, tag) = v
  BY <1>1, HasBoth, TheSecond, ConcatIsSeq
<1> QED BY <1>2 DEF Seen

LEMMA UnseenBoth ==
  ASSUME NEW a, NEW b, NEW tag, Unseen(a, tag), Unseen(b, tag)
  PROVE  Unseen(a \o b, tag)
<1>1. IsSeq(a) /\ ~Has(a, tag) /\ IsSeq(b) /\ ~Has(b, tag)
  BY DEF Unseen
<1>2. IsSeq(a \o b) /\ ~Has(a \o b, tag)
  BY <1>1, HasBoth, ConcatIsSeq
<1> QED BY <1>2 DEF Unseen

LEMMA SeenOne ==
  ASSUME NEW tag, NEW v
  PROVE  /\ Seen(One(tag, v), tag, v) /\ IsSeq(One(tag, v))
         /\ \A t : t # tag => Unseen(One(tag, v), t)
BY OneIs, HasOne, TheOne DEF Seen, Unseen

\* A tag that a reading has or not, and the only tags that it may have.
Says(r, tag, has, v) == IF has THEN Seen(r, tag, v) ELSE Unseen(r, tag)
Only(r, tags) == IsSeq(r) /\ \A tag : tag \notin tags => Unseen(r, tag)

LEMMA OnlyOne ==
  ASSUME NEW tag, NEW v, NEW tags, tag \in tags
  PROVE  Only(One(tag, v), tags)
BY SeenOne DEF Only

LEMMA OnlyNothing == ASSUME NEW tags PROVE Only(<<>>, tags)
BY EmptyIsSeq DEF Only, Unseen, Has

LEMMA OnlyBoth ==
  ASSUME NEW a, NEW s, Only(a, s), NEW b, NEW t, Only(b, t)
  PROVE  Only(a \o b, s \cup t)
<1>1. IsSeq(a) /\ IsSeq(b)
  BY DEF Only
<1>2. IsSeq(a \o b)
  BY <1>1, ConcatIsSeq
<1>3. ASSUME NEW tag, tag \notin s \cup t PROVE Unseen(a \o b, tag)
  <2>1. Unseen(a, tag) /\ Unseen(b, tag)
    BY <1>3 DEF Only
  <2> QED BY <2>1, UnseenBoth
<1> QED BY <1>2, <1>3 DEF Only

\* It stays with what lacks the tag.
LEMMA SaysFirst ==
  ASSUME NEW a, NEW b, NEW tag, NEW has \in BOOLEAN, NEW v, Says(a, tag, has, v), Unseen(b, tag)
  PROVE  Says(a \o b, tag, has, v)
<1>1. IsSeq(b)
  BY DEF Unseen
<1>2. CASE has
  BY <1>1, <1>2, SeenFirst DEF Says
<1>3. CASE ~has
  BY <1>3, UnseenBoth DEF Says
<1> QED BY <1>2, <1>3

LEMMA SaysSecond ==
  ASSUME NEW a, NEW b, NEW tag, NEW has \in BOOLEAN, NEW v, Unseen(a, tag), Says(b, tag, has, v)
  PROVE  Says(a \o b, tag, has, v)
<1>1. CASE has
  BY <1>1, SeenSecond DEF Says
<1>2. CASE ~has
  BY <1>2, UnseenBoth DEF Says
<1> QED BY <1>1, <1>2

\* What is short, given what WireAssumption bounds.
LEMMA MaxIs ==
  /\ U32Max \in Nat /\ U32Max >= 65535 /\ Byte * Byte * Byte * Byte = U32Max + 1
  /\ Longest \in Nat /\ MaxText \in Nat /\ Longest * (6 * MaxText + 150) + 64 <= U32Max
  /\ Longest >= 1 /\ 6 * MaxText + 150 <= U32Max /\ Longest <= U32Max
<1>1. Byte * Byte * Byte * Byte \in Nat
  <2>1. \A m, n \in Nat : m * n \in Nat
    OBVIOUS
  <2> QED BY <2>1, ByteIs
<1>2. 65535 < Byte * Byte * Byte * Byte
  BY SmallIsShort
<1>3. U32Max \in Nat /\ U32Max >= 65535 /\ Byte * Byte * Byte * Byte = U32Max + 1
  BY <1>1, <1>2 DEF U32Max
<1>4. /\ Longest \in Nat /\ MaxText \in Nat /\ Longest * (6 * MaxText + 150) + 64 <= U32Max
      /\ Longest >= 1
  <2>1. Longest \in Nat /\ MaxText \in Nat /\ Longest * (6 * MaxText + 150) + 64 <= U32Max
    BY WireAssumption
  <2>2. Len(Databases) \in 1 .. Longest
    BY WireAssumption
  <2> HIDE DEF U32Max
  <2> QED BY <2>1, <2>2
<1> HIDE DEF U32Max
<1>5. ASSUME NEW w \in Nat, w >= 1, NEW n \in Nat, n >= 1
      PROVE  n * w >= w /\ n * w >= n /\ n * w \in Nat
  <2>1. n * w >= 1 * w
    BY <1>5
  <2>2. n * w >= n * 1
    BY <1>5
  <2> QED BY <2>1, <2>2
<1>6. 6 * MaxText + 150 \in Nat /\ 6 * MaxText + 150 >= 1
  BY <1>4
<1>7. Longest * (6 * MaxText + 150) >= 6 * MaxText + 150 /\ Longest * (6 * MaxText + 150) >= Longest
      /\ Longest * (6 * MaxText + 150) \in Nat
  BY <1>4, <1>5, <1>6
<1> QED BY <1>3, <1>4, <1>6, <1>7

\* What 32 bits count is short.
LEMMA ShortIs ==
  ASSUME NEW s, Len(s) \in Nat, Len(s) <= U32Max
  PROVE  Short(s)
<1>1. U32Max \in Nat /\ Byte * Byte * Byte * Byte = U32Max + 1
  BY MaxIs
<1>2. Len(s) < U32Max + 1
  BY <1>1
<1> QED BY <1>1, <1>2 DEF Short

\* Fields.
LEMMA PartInt ==
  ASSUME NEW tag, Typed(tag, "Int"), tag # "malformed", NEW v \in Nat, v <= U32Max
  PROVE  Part(U32(tag, v), One(tag, v), 9)
<1>1. v < Byte * Byte * Byte * Byte
  BY MaxIs
<1>2. ReadsAs(Words, U32(tag, v), One(tag, v))
  <2> HIDE DEF Words
  <2> QED BY <1>1, IntReads DEF Typed
<1>3. Len(U32(tag, v)) = 9
  BY NumberLen
<1>4. ~Has(One(tag, v), "malformed")
  BY HasOne
<1> QED BY <1>2, <1>3, <1>4 DEF Part

\* Whatever number it is that the digits make.
LEMMA PartDigits ==
  ASSUME NEW tag, NEW type \in DOMAIN Width, Typed(tag, type), tag # "malformed",
         NEW v \in Nat
  PROVE  Part(Field(tag, Digits(v, Width[type])), One(tag, Number(Digits(v, Width[type]))),
              5 + Width[type])
<1> DEFINE w == Width[type]
           d == Digits(v, w)
<1>1. w \in {1, 2, 4, 8} /\ type # "List" /\ type # "String"
  BY DEF Width
<1>2. type = Words[tag] /\ tag \in DOMAIN Words
  BY DEF Typed
<1> HIDE DEF Words
<1>3. \A inner : Len(d) = w => FieldRead(Words, tag, d, inner) = One(tag, Number(d))
  BY <1>1, <1>2 DEF FieldRead, One
<1> HIDE DEF w
<1>4. IsSeq(d) /\ Len(d) = w
  BY <1>1, DigitsAre DEF IsSeq
<1> HIDE DEF d
<1>5. Short(d)
  <2>1. Len(d) \in Nat /\ Len(d) <= U32Max
    BY <1>1, <1>4, MaxIs
  <2> QED BY <2>1, ShortIs
<1>6. FieldGives(Words, tag, d, One(tag, Number(d)))
  BY <1>3, <1>4 DEF FieldGives
<1>7. ReadsAs(Words, Field(tag, d), One(tag, Number(d)))
  BY <1>4, <1>5, <1>6, FieldReads
<1>8. Len(Field(tag, d)) = 5 + w
  BY <1>4, FieldIsSeq
<1>9. ~Has(One(tag, Number(d)), "malformed")
  BY HasOne
<1>10. 5 + w \in Nat /\ Len(Field(tag, d)) <= 5 + w
  BY <1>1, <1>8
<1>11. Part(Field(tag, d), One(tag, Number(d)), 5 + w)
  BY <1>7, <1>9, <1>10 DEF Part
<1> QED BY <1>11 DEF d, w

\* A number, a text and a container are pieces.
LEMMA PartNumber ==
  ASSUME NEW tag, tag # "malformed", NEW v \in Nat
  PROVE  /\ Typed(tag, "Byte") => Part(U8(tag, v), One(tag, Number(Digits(v, 1))), 6)
         /\ Typed(tag, "Short") => Part(U16(tag, v), One(tag, Number(Digits(v, 2))), 7)
         /\ Typed(tag, "Version") => Part(U32(tag, v), One(tag, Number(Digits(v, 4))), 9)
         /\ Typed(tag, "Long") => Part(U64(tag, v), One(tag, Number(Digits(v, 8))), 13)
<1>1. /\ {"Byte", "Short", "Version", "Long"} \subseteq DOMAIN Width
      /\ Width["Byte"] = 1 /\ Width["Short"] = 2 /\ Width["Version"] = 4 /\ Width["Long"] = 8
  BY DEF Width
<1>2. ASSUME NEW type \in DOMAIN Width, Typed(tag, type)
      PROVE  Part(Field(tag, Digits(v, Width[type])), One(tag, Number(Digits(v, Width[type]))),
                  5 + Width[type])
  BY <1>2, PartDigits
<1>3. Typed(tag, "Byte") => Part(Field(tag, Digits(v, 1)), One(tag, Number(Digits(v, 1))), 5 + 1)
  BY <1>1, <1>2
<1>4. Typed(tag, "Short") => Part(Field(tag, Digits(v, 2)), One(tag, Number(Digits(v, 2))), 5 + 2)
  BY <1>1, <1>2
<1>5. Typed(tag, "Version") => Part(Field(tag, Digits(v, 4)), One(tag, Number(Digits(v, 4))), 5 + 4)
  BY <1>1, <1>2
<1>6. Typed(tag, "Long") => Part(Field(tag, Digits(v, 8)), One(tag, Number(Digits(v, 8))), 5 + 8)
  BY <1>1, <1>2
<1> QED BY <1>3, <1>4, <1>5, <1>6 DEF U8, U16, U32, U64

LEMMA PartText ==
  ASSUME NEW tag, Typed(tag, "String"), tag # "malformed", NEW s, IsText(s),
         NEW cs \in {Utf8, MacRoman}
  PROVE  Part(WriteString(tag, s, cs), One(tag, Encode(cs, s)), 5 + MaxText)
<1> DEFINE e == Encode(cs, s)
<1>1. e \in Seq(0 .. 255) /\ Len(e) <= MaxText
  BY DEF IsText
<1>2. WriteString(tag, s, cs) = Field(tag, e)
  BY DEF WriteString
<1> HIDE DEF e
<1>3. IsSeq(e) /\ Len(e) \in Nat
  BY <1>1 DEF IsSeq
<1>4. Short(e)
  <2>1. Len(e) <= U32Max
    BY <1>1, <1>3, MaxIs
  <2> QED BY <1>3, <2>1, ShortIs
<1>5. ReadsAs(Words, Field(tag, e), One(tag, e))
  <2> HIDE DEF Words
  <2> QED BY <1>3, <1>4, StringReads DEF Typed, One
<1>6. Len(Field(tag, e)) = 5 + Len(e)
  BY <1>3, FieldIsSeq
<1>7. Len(Field(tag, e)) <= 5 + MaxText /\ 5 + MaxText \in Nat
  BY <1>1, <1>3, <1>6, MaxIs
<1>8. ~Has(One(tag, e), "malformed")
  BY HasOne
<1> QED BY <1>2, <1>5, <1>7, <1>8 DEF Part, e

LEMMA PartContainer ==
  ASSUME NEW tag, Typed(tag, "List"), tag # "malformed",
         NEW s, NEW r, NEW n, Part(s, r, n), n <= U32Max
  PROVE  Part(Container(tag, s), One(tag, r), 5 + n)
<1>1. IsSeq(s) /\ Len(s) \in Nat /\ Len(s) <= n /\ n \in Nat
  BY PartSeq
<1>2. Short(s)
  <2>1. Len(s) <= U32Max
    BY <1>1, MaxIs
  <2> QED BY <1>1, <2>1, ShortIs
<1>3. ReadsAs(Words, Container(tag, s), One(tag, r))
  <2>1. ReadsAs(Words, s, r) /\ ~Has(r, "malformed")
    BY DEF Part
  <2> HIDE DEF Words
  <2> QED BY <1>2, <2>1, ContainerReads DEF Typed
<1>4. Container(tag, s) = Field(tag, s)
  BY <1>1, ContainerIsField
<1>5. Len(Field(tag, s)) = 5 + Len(s)
  BY <1>1, FieldIsSeq
<1>6. Len(Container(tag, s)) <= 5 + n /\ 5 + n \in Nat
  BY <1>1, <1>4, <1>5
<1>7. ~Has(One(tag, r), "malformed")
  BY HasOne
<1> QED BY <1>3, <1>6, <1>7 DEF Part

\* Pieces one after the other.
LEMMA PartFlatten ==
  ASSUME NEW n \in Nat, NEW c \in Nat, NEW s, NEW r,
         \A i \in 1 .. n : Part(s[i], r[i], c)
  PROVE  Part(FlattenSeq([i \in 1 .. n |-> s[i]]), FlattenSeq([i \in 1 .. n |-> r[i]]), n * c)
<1> DEFINE ss == [i \in 1 .. n |-> s[i]]
           rr == [i \in 1 .. n |-> r[i]]
           f == Flat(ss)
           g == Flat(rr)
           P(m) == Part(f[m + 1], g[m + 1], (m + 1) * c)
           G == {m \in Nat : m + 1 <= n => P(m)}
<1>1. IsSeq(ss) /\ IsSeq(rr) /\ Len(ss) = n /\ Len(rr) = n
  <2>1. ss \in [1 .. n -> {s[i] : i \in 1 .. n}] /\ rr \in [1 .. n -> {r[i] : i \in 1 .. n}]
    OBVIOUS
  <2> HIDE DEF ss, rr
  <2> QED BY <2>1, FunctionIsSeq
<1>2. \A i \in 1 .. n : ss[i] = s[i] /\ rr[i] = r[i]
  OBVIOUS
<1> HIDE DEF ss, rr
<1>3. CASE n = 0
  <2>1. FlattenSeq(ss) = ss /\ FlattenSeq(rr) = rr
    BY <1>1, <1>3, FlattenIsLast
  <2>2. ss = <<>> /\ rr = <<>>
    BY <1>1, <1>3, EmptySeq DEF IsSeq
  <2>3. n * c = 0
    BY <1>3
  <2> QED BY <2>1, <2>2, <2>3, PartNothing DEF ss, rr
<1>4. CASE n # 0
  <2>0. /\ FlattenSeq(ss) = f[n] /\ f[1] = ss[1]
        /\ \A m \in 1 .. n - 1 : f[m + 1] = f[m] \o ss[m + 1]
        /\ FlattenSeq(rr) = g[n] /\ g[1] = rr[1]
        /\ \A m \in 1 .. n - 1 : g[m + 1] = g[m] \o rr[m + 1]
    BY <1>1, <1>4, FlattenGoes
  <2> HIDE DEF f, g
  <2>1. 0 \in G
    <3>1. 1 \in 1 .. n
      BY <1>4
    <3>2. f[1] = s[1] /\ g[1] = r[1] /\ Part(s[1], r[1], c)
      BY <1>2, <2>0, <3>1
    <3>3. 0 + 1 = 1 /\ (0 + 1) * c = c
      OBVIOUS
    <3> QED BY <3>2, <3>3
  <2>2. ASSUME NEW m \in Nat, m \in G PROVE m + 1 \in G
    <3> SUFFICES ASSUME m + 2 <= n PROVE P(m + 1)
      OBVIOUS
    <3>1. /\ m + 1 \in 1 .. n - 1 /\ (m + 1) + 1 = m + 2 /\ m + 1 <= n
          /\ m + 2 \in 1 .. n
      OBVIOUS
    <3>2. f[m + 2] = f[m + 1] \o s[m + 2] /\ g[m + 2] = g[m + 1] \o r[m + 2]
      <4>1. f[(m + 1) + 1] = f[m + 1] \o ss[(m + 1) + 1]
        BY <2>0, <3>1
      <4>2. g[(m + 1) + 1] = g[m + 1] \o rr[(m + 1) + 1]
        BY <2>0, <3>1
      <4>3. ss[m + 2] = s[m + 2] /\ rr[m + 2] = r[m + 2]
        BY <1>2, <3>1
      <4> QED BY <3>1, <4>1, <4>2, <4>3
    <3>3. P(m) /\ Part(s[m + 2], r[m + 2], c)
      BY <2>2, <3>1
    <3>4. Part(f[m + 1] \o s[m + 2], g[m + 1] \o r[m + 2], (m + 1) * c + c)
      BY <3>3, PartBoth
    <3>5. (m + 1) * c + c = (m + 2) * c
      OBVIOUS
    <3> QED BY <3>1, <3>2, <3>4, <3>5
  <2> HIDE DEF G
  <2>3. Nat \subseteq G
    BY <2>1, <2>2, SetInduction
  <2>4. n - 1 \in G /\ n - 1 + 1 = n
    BY <1>4, <2>3
  <2>5. P(n - 1)
    BY <2>4 DEF G
  <2> QED BY <2>0, <2>4, <2>5 DEF ss, rr
<1> QED BY <1>3, <1>4

\* What all of them lack, and what only one has.
LEMMA UnseenFlatten ==
  ASSUME NEW n \in Nat, NEW r, NEW tag, \A i \in 1 .. n : Unseen(r[i], tag)
  PROVE  Unseen(FlattenSeq([i \in 1 .. n |-> r[i]]), tag)
<1> DEFINE rr == [i \in 1 .. n |-> r[i]]
           g == Flat(rr)
           P(m) == Unseen(g[m + 1], tag)
           G == {m \in Nat : m + 1 <= n => P(m)}
<1>1. IsSeq(rr) /\ Len(rr) = n
  <2>1. rr \in [1 .. n -> {r[i] : i \in 1 .. n}]
    OBVIOUS
  <2> HIDE DEF rr
  <2> QED BY <2>1, FunctionIsSeq
<1>2. \A i \in 1 .. n : rr[i] = r[i]
  OBVIOUS
<1> HIDE DEF rr
<1>3. CASE n = 0
  <2>1. FlattenSeq(rr) = rr
    BY <1>1, <1>3, FlattenIsLast
  <2>2. rr = <<>>
    BY <1>1, <1>3, EmptySeq DEF IsSeq
  <2>3. Unseen(<<>>, tag)
    BY EmptyIsSeq DEF Unseen, Has
  <2> QED BY <2>1, <2>2, <2>3 DEF rr
<1>4. CASE n # 0
  <2>0. /\ FlattenSeq(rr) = g[n] /\ g[1] = rr[1]
        /\ \A m \in 1 .. n - 1 : g[m + 1] = g[m] \o rr[m + 1]
    BY <1>1, <1>4, FlattenGoes
  <2> HIDE DEF g
  <2>1. 0 \in G
    <3>1. 1 \in 1 .. n
      BY <1>4
    <3>2. g[1] = r[1] /\ Unseen(r[1], tag)
      BY <1>2, <2>0, <3>1
    <3> QED BY <3>2
  <2>2. ASSUME NEW m \in Nat, m \in G PROVE m + 1 \in G
    <3> SUFFICES ASSUME m + 2 <= n PROVE P(m + 1)
      OBVIOUS
    <3>1. /\ m + 1 \in 1 .. n - 1 /\ (m + 1) + 1 = m + 2 /\ m + 1 <= n
          /\ m + 2 \in 1 .. n
      OBVIOUS
    <3>2. g[m + 2] = g[m + 1] \o r[m + 2]
      BY <1>2, <2>0, <3>1
    <3>3. P(m) /\ Unseen(r[m + 2], tag)
      BY <2>2, <3>1
    <3>4. Unseen(g[m + 1] \o r[m + 2], tag)
      BY <3>3, UnseenBoth
    <3> QED BY <3>1, <3>2, <3>4
  <2> HIDE DEF G
  <2>3. Nat \subseteq G
    BY <2>1, <2>2, SetInduction
  <2>4. n - 1 \in G /\ n - 1 + 1 = n
    BY <1>4, <2>3
  <2>5. P(n - 1)
    BY <2>4 DEF G
  <2> QED BY <2>0, <2>4, <2>5 DEF rr
<1> QED BY <1>3, <1>4

LEMMA SeenFlatten ==
  ASSUME NEW n \in Nat, NEW r, NEW tag, NEW v, NEW k \in 1 .. n, Seen(r[k], tag, v),
         \A i \in 1 .. n : i # k => Unseen(r[i], tag)
  PROVE  Seen(FlattenSeq([i \in 1 .. n |-> r[i]]), tag, v)
<1> DEFINE rr == [i \in 1 .. n |-> r[i]]
           g == Flat(rr)
           P(m) == IF m + 1 < k THEN Unseen(g[m + 1], tag) ELSE Seen(g[m + 1], tag, v)
           G == {m \in Nat : m + 1 <= n => P(m)}
<1>1. IsSeq(rr) /\ Len(rr) = n
  <2>1. rr \in [1 .. n -> {r[i] : i \in 1 .. n}]
    OBVIOUS
  <2> HIDE DEF rr
  <2> QED BY <2>1, FunctionIsSeq
<1>2. \A i \in 1 .. n : rr[i] = r[i]
  OBVIOUS
<1> HIDE DEF rr
<1>3. n # 0 /\ k \in Nat
  OBVIOUS
<1>0. /\ FlattenSeq(rr) = g[n] /\ g[1] = rr[1]
      /\ \A m \in 1 .. n - 1 : g[m + 1] = g[m] \o rr[m + 1]
  BY <1>1, <1>3, FlattenGoes
<1> HIDE DEF g
<1>4. 0 \in G
  <2>1. 1 \in 1 .. n
    BY <1>3
  <2>2. g[1] = r[1]
    BY <1>0, <1>2, <2>1
  <2>3. IF 1 < k THEN Unseen(r[1], tag) ELSE Seen(r[1], tag, v)
    <3>1. 1 < k => 1 # k
      BY <1>3
    <3>2. ~(1 < k) => 1 = k
      BY <1>3
    <3> QED BY <2>1, <3>1, <3>2
  <2> QED BY <2>2, <2>3
<1>5. ASSUME NEW m \in Nat, m \in G PROVE m + 1 \in G
  <2> SUFFICES ASSUME m + 2 <= n PROVE P(m + 1)
    OBVIOUS
  <2>1. /\ m + 1 \in 1 .. n - 1 /\ (m + 1) + 1 = m + 2 /\ m + 1 <= n
        /\ m + 2 \in 1 .. n
    OBVIOUS
  <2>2. g[m + 2] = g[m + 1] \o r[m + 2]
    BY <1>0, <1>2, <2>1
  <2>3. P(m)
    BY <1>5, <2>1
  <2>4. m + 2 # k => Unseen(r[m + 2], tag)
    BY <2>1
  <2>5. CASE m + 2 < k
    <3>1. Unseen(g[m + 1], tag) /\ Unseen(r[m + 2], tag)
      <4>1. m + 1 < k /\ m + 2 # k
        BY <1>3, <2>5
      <4> QED BY <2>3, <2>4, <4>1
    <3>2. Unseen(g[m + 2], tag)
      BY <2>2, <3>1, UnseenBoth
    <3> QED BY <2>1, <2>5, <3>2
  <2>6. CASE m + 2 = k
    <3>1. Unseen(g[m + 1], tag) /\ Seen(r[m + 2], tag, v)
      <4>1. m + 1 < k
        BY <1>3, <2>6
      <4> QED BY <2>3, <2>6, <4>1
    <3>2. Seen(g[m + 2], tag, v)
      BY <2>2, <3>1, SeenSecond
    <3>3. ~(m + 2 < k)
      BY <1>3, <2>6
    <3> QED BY <2>1, <3>2, <3>3
  <2>7. CASE m + 2 > k
    <3>1. ~(m + 1 < k) /\ m + 2 # k /\ ~(m + 2 < k)
      BY <1>3, <2>7
    <3>2. Seen(g[m + 1], tag, v) /\ Unseen(r[m + 2], tag)
      BY <2>3, <2>4, <3>1
    <3>3. Seen(g[m + 2], tag, v)
      BY <2>2, <3>2, SeenFirst DEF Unseen
    <3> QED BY <2>1, <3>1, <3>3
  <2> QED BY <1>3, <2>5, <2>6, <2>7
<1> HIDE DEF G
<1>6. Nat \subseteq G
  BY <1>4, <1>5, SetInduction
<1>7. n - 1 \in G /\ n - 1 + 1 = n
  BY <1>3, <1>6
<1>8. P(n - 1)
  BY <1>7 DEF G
<1>9. ~(n < k)
  OBVIOUS
<1> QED BY <1>0, <1>7, <1>8, <1>9 DEF rr

LEMMA SaysFlatten ==
  ASSUME NEW n \in Nat, NEW r, NEW tag, NEW has \in BOOLEAN, NEW v, NEW k \in 1 .. n,
         Says(r[k], tag, has, v), \A i \in 1 .. n : i # k => Unseen(r[i], tag)
  PROVE  Says(FlattenSeq([i \in 1 .. n |-> r[i]]), tag, has, v)
<1>1. CASE has
  <2>1. Seen(r[k], tag, v)
    BY <1>1 DEF Says
  <2>2. Seen(FlattenSeq([i \in 1 .. n |-> r[i]]), tag, v)
    BY <2>1, SeenFlatten
  <2> QED BY <1>1, <2>2 DEF Says
<1>2. CASE ~has
  <2>1. \A i \in 1 .. n : Unseen(r[i], tag)
    BY <1>2 DEF Says
  <2>2. Unseen(FlattenSeq([i \in 1 .. n |-> r[i]]), tag)
    BY <2>1, UnseenFlatten
  <2> QED BY <1>2, <2>2 DEF Says
<1> QED BY <1>1, <1>2

\* The values of a sequence of fields that all have one tag.
LEMMA AllOf ==
  ASSUME NEW n \in Nat, NEW r, NEW tag
  PROVE  All([i \in 1 .. n |-> [tag |-> tag, value |-> r[i]]], tag) = [i \in 1 .. n |-> r[i]]
<1> DEFINE fields == [i \in 1 .. n |-> [tag |-> tag, value |-> r[i]]]
           Goes2(u, m) == u = [k \in 0 .. m |->
                             IF k = 0 THEN <<>>
                             ELSE IF fields[k].tag = tag THEN Append(u[k - 1], fields[k].value)
                             ELSE u[k - 1]]
           val == [k \in 0 .. n |-> [i \in 1 .. k |-> r[i]]]
           up == CHOOSE u : Goes2(u, n)
<1>1. Len(fields) = n
  OBVIOUS
<1>2. All(fields, tag) = up[Len(fields)]
  <2>1. All(fields, tag) = (CHOOSE u : Goes2(u, Len(fields)))[Len(fields)]
    BY DEF All
  <2> QED BY <1>1, <2>1
<1>3. \A k \in 1 .. n : fields[k].tag = tag /\ fields[k].value = r[k]
  OBVIOUS
<1> HIDE DEF fields
<1>4. \A k \in 1 .. n : [i \in 1 .. k |-> r[i]] = Append([i \in 1 .. k - 1 |-> r[i]], r[k])
  <2> TAKE k \in 1 .. n
  <2> DEFINE a == [i \in 1 .. k - 1 |-> r[i]]
  <2>1. a \in Seq({r[i] : i \in 1 .. k}) /\ Len(a) = k - 1
    OBVIOUS
  <2>2. \A i \in 1 .. k - 1 : a[i] = r[i]
    OBVIOUS
  <2> HIDE DEF a
  <2>3. /\ IsSeq(Append(a, r[k])) /\ Len(Append(a, r[k])) = Len(a) + 1
        /\ \A i \in 1 .. Len(a) + 1 : Append(a, r[k])[i] = IF i = Len(a) + 1 THEN r[k] ELSE a[i]
    BY <2>1, AppendIsSeq DEF IsSeq
  <2>4. Append(a, r[k]) = [i \in 1 .. k |-> Append(a, r[k])[i]]
    BY <2>1, <2>3 DEF IsSeq
  <2>5. \A i \in 1 .. k : Append(a, r[k])[i] = r[i]
    BY <2>1, <2>2, <2>3
  <2> QED BY <2>4, <2>5 DEF a
<1>5. Goes2(val, n)
  <2>1. \A k \in 1 .. n : val[k] = Append(val[k - 1], r[k])
    BY SMTT(40), <1>4
  <2>2. val[0] = <<>>
    OBVIOUS
  <2>3. val = [k \in 0 .. n |-> val[k]]
    OBVIOUS
  <2> HIDE DEF val
  <2>4. \A k \in 0 .. n : val[k] = IF k = 0 THEN <<>>
                             ELSE IF fields[k].tag = tag THEN Append(val[k - 1], fields[k].value)
                             ELSE val[k - 1]
    <3> TAKE k \in 0 .. n
    <3>1. CASE k = 0
      BY <2>2, <3>1
    <3>2. CASE k # 0
      <4>1. k \in 1 .. n
        BY <3>2
      <4>2. fields[k].tag = tag /\ fields[k].value = r[k] /\ val[k] = Append(val[k - 1], r[k])
        BY <1>3, <2>1, <4>1
      <4> QED BY <3>2, <4>2
    <3> QED BY <3>1, <3>2
  <2> QED BY <2>3, <2>4
<1>6. Goes2(up, n)
  BY <1>5
<1> DEFINE G == {m \in Nat : m <= n => up[m] = val[m]}
<1>7. 0 \in G
  <2>1. 0 \in 0 .. n
    OBVIOUS
  <2>2. up[0] = <<>> /\ val[0] = <<>>
    <3> HIDE DEF up, val
    <3> QED BY <1>5, <1>6, <2>1
  <2> HIDE DEF up, val
  <2> QED BY <2>2
<1>8. ASSUME NEW m \in Nat, m \in G PROVE m + 1 \in G
  <2> SUFFICES ASSUME m + 1 <= n PROVE up[m + 1] = val[m + 1]
    OBVIOUS
  <2>1. m + 1 \in 1 .. n /\ m + 1 \in 0 .. n /\ m + 1 # 0 /\ (m + 1) - 1 = m /\ m <= n
    OBVIOUS
  <2>2. up[m + 1] = Append(up[m], r[m + 1])
    <3> HIDE DEF up
    <3> QED BY <1>3, <1>6, <2>1
  <2>3. val[m + 1] = Append(val[m], r[m + 1])
    <3> HIDE DEF val
    <3> QED BY <1>3, <1>5, <2>1
  <2>4. up[m] = val[m]
    BY <1>8, <2>1
  <2> QED BY <2>2, <2>3, <2>4
<1> HIDE DEF G, up
<1>9. Nat \subseteq G
  BY <1>7, <1>8, SetInduction
<1>10. up[n] = val[n]
  <2>1. n \in G
    BY <1>9
  <2>2. n <= n => up[n] = val[n]
    BY <2>1 DEF G
  <2> QED BY <2>2
<1> QED BY <1>1, <1>2, <1>10 DEF fields

\* The tags by their types.
Ints == {"mstt", "miid", "mpco", "mctc", "mimc", "mstm", "msdc", "mlid", "musr", "mtco", "mrco",
         "astm", "assr", "assz"}
Bytes == {"mikd", "mslr", "msal", "msau", "msup", "mspi", "msex", "msbr", "msqy", "msix", "msed",
          "muty", "asdk", "apsm", "abpl"}
Texts == {"minm", "asal", "asar", "asaa", "asgn", "asfm"}
Longs == {"mper"}
Versions == {"mpro", "apro"}
Containers == {"msrv", "mlog", "mupd", "avdb", "adbs", "aply", "apso", "mlcl", "mlit"}
Shorts == {"ated", "asgr", "astn", "astc", "asdn", "asdc", "asyr", "asbr"}

\* A tag has the type that the table says.
LEMMA TypedFrom ==
  ASSUME NEW S, NEW type,
         \A i \in 1 .. 55 : FieldTable[i][1] \in S => FieldTable[i][2] = type,
         \A t \in S : \E i \in 1 .. 55 : FieldTable[i][1] = t
  PROVE  \A t \in S : Typed(t, type)
<1> TAKE t \in S
<1>1. \A i \in 1 .. 55 : FieldTable[i][1] \in DOMAIN Words
  BY DictionaryIs DEF Words
<1>2. \A u \in DOMAIN Words : \E i \in 1 .. 55 : FieldTable[i][1] = u /\ FieldTable[i][2] = Words[u]
  BY DictionaryIs DEF Words
<1> HIDE DEF Words
<1>3. PICK k \in 1 .. 55 : FieldTable[k][1] = t
  OBVIOUS
<1>4. t \in DOMAIN Words
  BY <1>1, <1>3
<1>5. PICK i \in 1 .. 55 : FieldTable[i][1] = t /\ FieldTable[i][2] = Words[t]
  BY <1>2, <1>4
<1>6. FieldTable[i][2] = type
  BY <1>5
<1> QED BY <1>4, <1>5, <1>6 DEF Typed

\* The types that the dictionary gives the tags of the listings.
LEMMA TypesAre ==
  /\ \A t \in Ints : Typed(t, "Int")
  /\ \A t \in Bytes : Typed(t, "Byte")
  /\ \A t \in Texts : Typed(t, "String")
  /\ \A t \in Longs : Typed(t, "Long")
  /\ \A t \in Versions : Typed(t, "Version")
  /\ \A t \in Containers : Typed(t, "List")
  /\ \A t \in Shorts : Typed(t, "Short")
<1>1. \A t \in Ints : Typed(t, "Int")
  <2>1. FieldTable[1][1] = "mstt" /\ FieldTable[2][1] = "miid" /\ FieldTable[6][1] = "mpco"
        /\ FieldTable[7][1] = "mctc" /\ FieldTable[8][1] = "mimc" /\ FieldTable[10][1] = "mstm"
        /\ FieldTable[20][1] = "msdc" /\ FieldTable[21][1] = "mlid"
        /\ FieldTable[22][1] = "musr" /\ FieldTable[24][1] = "mtco"
        /\ FieldTable[25][1] = "mrco" /\ FieldTable[50][1] = "astm"
        /\ FieldTable[52][1] = "assr" /\ FieldTable[53][1] = "assz"
    BY ZenonT(60) DEF FieldTable, dmap, list, daap
  <2>2. \A i \in 1 .. 55 : FieldTable[i][1] \in Ints => FieldTable[i][2] = "Int"
    BY DEF FieldTable, dmap, list, daap, Ints
  <2>3. \A t \in Ints : \E i \in 1 .. 55 : FieldTable[i][1] = t
    BY <2>1 DEF Ints
  <2> HIDE DEF Ints
  <2> HIDE DEF FieldTable
  <2> QED BY <2>2, <2>3, TypedFrom
<1>2. \A t \in Bytes : Typed(t, "Byte")
  <2>1. FieldTable[3][1] = "mikd" /\ FieldTable[9][1] = "mslr" /\ FieldTable[11][1] = "msal"
        /\ FieldTable[12][1] = "msau" /\ FieldTable[13][1] = "msup"
        /\ FieldTable[14][1] = "mspi" /\ FieldTable[15][1] = "msex"
        /\ FieldTable[16][1] = "msbr" /\ FieldTable[17][1] = "msqy"
        /\ FieldTable[18][1] = "msix" /\ FieldTable[19][1] = "msed"
        /\ FieldTable[23][1] = "muty" /\ FieldTable[44][1] = "asdk"
        /\ FieldTable[54][1] = "apsm" /\ FieldTable[55][1] = "abpl"
    BY ZenonT(60) DEF FieldTable, dmap, list, daap
  <2>2. \A i \in 1 .. 55 : FieldTable[i][1] \in Bytes => FieldTable[i][2] = "Byte"
    BY DEF FieldTable, dmap, list, daap, Bytes
  <2>3. \A t \in Bytes : \E i \in 1 .. 55 : FieldTable[i][1] = t
    BY <2>1 DEF Bytes
  <2> HIDE DEF Bytes
  <2> HIDE DEF FieldTable
  <2> QED BY <2>2, <2>3, TypedFrom
<1>3. \A t \in Texts : Typed(t, "String")
  <2>1. FieldTable[4][1] = "minm" /\ FieldTable[39][1] = "asal" /\ FieldTable[40][1] = "asar"
        /\ FieldTable[41][1] = "asaa" /\ FieldTable[42][1] = "asgn"
        /\ FieldTable[43][1] = "asfm"
    BY DEF FieldTable, dmap, list, daap
  <2>2. \A i \in 1 .. 55 : FieldTable[i][1] \in Texts => FieldTable[i][2] = "String"
    BY DEF FieldTable, dmap, list, daap, Texts
  <2>3. \A t \in Texts : \E i \in 1 .. 55 : FieldTable[i][1] = t
    BY <2>1 DEF Texts
  <2> HIDE DEF Texts
  <2> HIDE DEF FieldTable
  <2> QED BY <2>2, <2>3, TypedFrom
<1>4. \A t \in Longs : Typed(t, "Long")
  <2>1. FieldTable[5][1] = "mper"
    BY DEF FieldTable, dmap, list, daap
  <2>2. \A i \in 1 .. 55 : FieldTable[i][1] \in Longs => FieldTable[i][2] = "Long"
    BY DEF FieldTable, dmap, list, daap, Longs
  <2>3. \A t \in Longs : \E i \in 1 .. 55 : FieldTable[i][1] = t
    BY <2>1 DEF Longs
  <2> HIDE DEF Longs
  <2> HIDE DEF FieldTable
  <2> QED BY <2>2, <2>3, TypedFrom
<1>5. \A t \in Versions : Typed(t, "Version")
  <2>1. FieldTable[26][1] = "mpro" /\ FieldTable[36][1] = "apro"
    BY DEF FieldTable, dmap, list, daap
  <2>2. \A i \in 1 .. 55 : FieldTable[i][1] \in Versions => FieldTable[i][2] = "Version"
    BY DEF FieldTable, dmap, list, daap, Versions
  <2>3. \A t \in Versions : \E i \in 1 .. 55 : FieldTable[i][1] = t
    BY <2>1 DEF Versions
  <2> HIDE DEF Versions
  <2> HIDE DEF FieldTable
  <2> QED BY <2>2, <2>3, TypedFrom
<1>6. \A t \in Containers : Typed(t, "List")
  <2>1. FieldTable[27][1] = "msrv" /\ FieldTable[28][1] = "mlog" /\ FieldTable[29][1] = "mupd"
        /\ FieldTable[30][1] = "avdb" /\ FieldTable[31][1] = "adbs"
        /\ FieldTable[32][1] = "aply" /\ FieldTable[33][1] = "apso"
        /\ FieldTable[34][1] = "mlcl" /\ FieldTable[35][1] = "mlit"
    BY ZenonT(60) DEF FieldTable, dmap, list, daap
  <2>2. \A i \in 1 .. 55 : FieldTable[i][1] \in Containers => FieldTable[i][2] = "List"
    BY DEF FieldTable, dmap, list, daap, Containers
  <2>3. \A t \in Containers : \E i \in 1 .. 55 : FieldTable[i][1] = t
    BY <2>1 DEF Containers
  <2> HIDE DEF Containers
  <2> HIDE DEF FieldTable
  <2> QED BY <2>2, <2>3, TypedFrom
<1>7. \A t \in Shorts : Typed(t, "Short")
  <2>1. FieldTable[37][1] = "ated" /\ FieldTable[38][1] = "asgr" /\ FieldTable[45][1] = "astn"
        /\ FieldTable[46][1] = "astc" /\ FieldTable[47][1] = "asdn"
        /\ FieldTable[48][1] = "asdc" /\ FieldTable[49][1] = "asyr"
        /\ FieldTable[51][1] = "asbr"
    BY DEF FieldTable, dmap, list, daap
  <2>2. \A i \in 1 .. 55 : FieldTable[i][1] \in Shorts => FieldTable[i][2] = "Short"
    BY DEF FieldTable, dmap, list, daap, Shorts
  <2>3. \A t \in Shorts : \E i \in 1 .. 55 : FieldTable[i][1] = t
    BY <2>1 DEF Shorts
  <2> HIDE DEF Shorts
  <2> HIDE DEF FieldTable
  <2> QED BY <2>2, <2>3, TypedFrom
<1> QED BY <1>1, <1>2, <1>3, <1>4, <1>5, <1>6, <1>7

\* How long the entry of a listing may be.
EntryMax == 6 * MaxText + 145

\* What databases and playlists begin with.
LEMMA NamedPart ==
  ASSUME NEW id \in Nat, id <= U32Max, NEW name, IsText(name), NEW cs \in {Utf8, MacRoman}
  PROVE  \E r : /\ Part(Named(id, name, cs), r, 27 + MaxText)
                /\ Seen(r, "miid", id) /\ Seen(r, "minm", Encode(cs, name))
                /\ \A tag : tag \notin {"miid", "mper", "minm"} => Unseen(r, tag)
<1> DEFINE a == U32("miid", id)
           b == U64("mper", id)
           c == WriteString("minm", name, cs)
           d == Number(Digits(id, 8))
           e == Encode(cs, name)
           T1 == {"miid", "mper", "minm"}
           r == One("miid", id) \o One("mper", d) \o One("minm", e)
<1>1. Typed("miid", "Int") /\ Typed("mper", "Long") /\ Typed("minm", "String")
  BY TypesAre DEF Ints, Longs, Texts
<1>2. Named(id, name, cs) = a \o b \o c
  BY DEF Named, dmap
<1>3. Part(a, One("miid", id), 9)
  BY <1>1, PartInt
<1>4. Part(b, One("mper", d), 13)
  BY <1>1, PartNumber
<1>5. Part(c, One("minm", e), 5 + MaxText)
  BY <1>1, PartText
<1> HIDE DEF a, b, c, d, e
<1>6. Part(a \o b, One("miid", id) \o One("mper", d), 9 + 13)
  BY <1>3, <1>4, PartBoth
<1>7. Part(a \o b \o c, r, (9 + 13) + (5 + MaxText))
  BY <1>5, <1>6, PartBoth
<1>8. (9 + 13) + (5 + MaxText) = 27 + MaxText
  BY MaxIs
<1>9. Seen(r, "miid", id)
  <2>1. Seen(One("miid", id) \o One("mper", d), "miid", id)
    BY SeenOne, SeenFirst
  <2> QED BY <2>1, SeenOne, SeenFirst
<1>9a. Seen(r, "minm", e)
  <2>1. Unseen(One("miid", id), "minm") /\ Unseen(One("mper", d), "minm")
    BY SeenOne
  <2>2. Unseen(One("miid", id) \o One("mper", d), "minm")
    BY <2>1, UnseenBoth
  <2> QED BY <2>2, SeenOne, SeenSecond
<1>10. ASSUME NEW tag, tag \notin T1 PROVE Unseen(r, tag)
  <2>1. tag # "miid" /\ tag # "mper" /\ tag # "minm"
    BY <1>10
  <2>2. Unseen(One("miid", id), tag) /\ Unseen(One("mper", d), tag) /\ Unseen(One("minm", e), tag)
    BY <2>1, SeenOne
  <2>3. Unseen(One("miid", id) \o One("mper", d), tag)
    BY <2>2, UnseenBoth
  <2> QED BY <2>2, <2>3, UnseenBoth
<1> HIDE DEF r
<1>11. Part(Named(id, name, cs), r, 27 + MaxText)
  BY <1>2, <1>7, <1>8
<1> QED BY <1>9, <1>9a, <1>10, <1>11 DEF e

\* What is told of a track under the tags of its texts and numbers.
TextTags == {"asar", "asal", "asaa", "asgn"}
AmountTags == {"astn", "asdn", "asyr", "asbr", "astm", "assr", "assz"}

TextsTold(r, t, cs) ==
  \A i \in 1 .. 4 :
    Says(r, Strings[i].tag, Strings[i].of \in DOMAIN t, Encode(cs, t[Strings[i].of]))

Amount(i, t) == Clamped(Numbers[i].of, t[Numbers[i].of])
AmountsTold(r, t) ==
  \A i \in 1 .. 7 :
    Says(r, Numbers[i].tag, Numbers[i].of \in DOMAIN t,
         Number(Digits(Amount(i, t), Numbers[i].width)))

\* The tags are those of the tables, and no two are one.
LEMMA TextTagsAre ==
  /\ Len(Strings) = 4 /\ \A i \in 1 .. 4 : Strings[i].tag \in TextTags
  /\ \A i, k \in 1 .. 4 : i # k => Strings[i].tag # Strings[k].tag
BY DEF Strings, daap, TextTags

LEMMA AmountTagsAre ==
  /\ Len(Numbers) = 7 /\ \A i \in 1 .. 7 : Numbers[i].tag \in AmountTags
  /\ \A i, k \in 1 .. 7 : i # k => Numbers[i].tag # Numbers[k].tag
BY DEF Numbers, daap, AmountTags

\* More under other tags changes nothing.
LEMMA TextsKept ==
  ASSUME NEW a, NEW t, NEW cs, TextsTold(a, t, cs), NEW b, NEW tags, Only(b, tags),
         tags \cap TextTags = {}
  PROVE  TextsTold(a \o b, t, cs)
<1>1. ASSUME NEW i \in 1 .. 4
      PROVE  Says(a \o b, Strings[i].tag, Strings[i].of \in DOMAIN t, Encode(cs, t[Strings[i].of]))
  <2> DEFINE tag == Strings[i].tag
             has == Strings[i].of \in DOMAIN t
             v == Encode(cs, t[Strings[i].of])
  <2>1. Says(a, tag, has, v) /\ has \in BOOLEAN
    BY DEF TextsTold
  <2>2. Unseen(b, tag)
    BY TextTagsAre DEF Only
  <2> HIDE DEF tag, has, v
  <2>3. Says(a \o b, tag, has, v)
    BY <2>1, <2>2, SaysFirst
  <2> QED BY <2>3 DEF tag, has, v
<1> QED BY <1>1 DEF TextsTold

LEMMA TextsFollow ==
  ASSUME NEW b, NEW t, NEW cs, TextsTold(b, t, cs), NEW a, NEW tags, Only(a, tags),
         tags \cap TextTags = {}
  PROVE  TextsTold(a \o b, t, cs)
<1>1. ASSUME NEW i \in 1 .. 4
      PROVE  Says(a \o b, Strings[i].tag, Strings[i].of \in DOMAIN t, Encode(cs, t[Strings[i].of]))
  <2> DEFINE tag == Strings[i].tag
             has == Strings[i].of \in DOMAIN t
             v == Encode(cs, t[Strings[i].of])
  <2>1. Says(b, tag, has, v) /\ has \in BOOLEAN
    BY DEF TextsTold
  <2>2. Unseen(a, tag)
    BY TextTagsAre DEF Only
  <2> HIDE DEF tag, has, v
  <2>3. Says(a \o b, tag, has, v)
    BY <2>1, <2>2, SaysSecond
  <2> QED BY <2>3 DEF tag, has, v
<1> QED BY <1>1 DEF TextsTold

LEMMA AmountsKept ==
  ASSUME NEW a, NEW t, AmountsTold(a, t), NEW b, NEW tags, Only(b, tags),
         tags \cap AmountTags = {}
  PROVE  AmountsTold(a \o b, t)
<1>1. ASSUME NEW i \in 1 .. 7
      PROVE  Says(a \o b, Numbers[i].tag, Numbers[i].of \in DOMAIN t,
                  Number(Digits(Amount(i, t), Numbers[i].width)))
  <2> DEFINE tag == Numbers[i].tag
             has == Numbers[i].of \in DOMAIN t
             v == Number(Digits(Amount(i, t), Numbers[i].width))
  <2>1. Says(a, tag, has, v) /\ has \in BOOLEAN
    BY DEF AmountsTold
  <2>2. Unseen(b, tag)
    BY AmountTagsAre DEF Only
  <2> HIDE DEF tag, has, v
  <2>3. Says(a \o b, tag, has, v)
    BY <2>1, <2>2, SaysFirst
  <2> QED BY <2>3 DEF tag, has, v
<1> QED BY <1>1 DEF AmountsTold

LEMMA AmountsFollow ==
  ASSUME NEW b, NEW t, AmountsTold(b, t), NEW a, NEW tags, Only(a, tags),
         tags \cap AmountTags = {}
  PROVE  AmountsTold(a \o b, t)
<1>1. ASSUME NEW i \in 1 .. 7
      PROVE  Says(a \o b, Numbers[i].tag, Numbers[i].of \in DOMAIN t,
                  Number(Digits(Amount(i, t), Numbers[i].width)))
  <2> DEFINE tag == Numbers[i].tag
             has == Numbers[i].of \in DOMAIN t
             v == Number(Digits(Amount(i, t), Numbers[i].width))
  <2>1. Says(b, tag, has, v) /\ has \in BOOLEAN
    BY DEF AmountsTold
  <2>2. Unseen(a, tag)
    BY AmountTagsAre DEF Only
  <2> HIDE DEF tag, has, v
  <2>3. Says(a \o b, tag, has, v)
    BY <2>1, <2>2, SaysSecond
  <2> QED BY <2>3 DEF tag, has, v
<1> QED BY <1>1 DEF AmountsTold

\* The strings of a track, those it has.
LEMMA StringsPart ==
  ASSUME NEW t, IsTrack(t), NEW cs \in {Utf8, MacRoman}
  PROVE  \E r : /\ Part(FlattenSeq([i \in 1 .. Len(Strings) |->
                          IF Strings[i].of \in DOMAIN t
                          THEN WriteString(Strings[i].tag, t[Strings[i].of], cs) ELSE <<>>]),
                        r, 4 * (5 + MaxText))
                /\ Only(r, TextTags) /\ TextsTold(r, t, cs)
<1> DEFINE s(i) == IF Strings[i].of \in DOMAIN t
                   THEN WriteString(Strings[i].tag, t[Strings[i].of], cs) ELSE <<>>
           q(i) == IF Strings[i].of \in DOMAIN t
                   THEN One(Strings[i].tag, Encode(cs, t[Strings[i].of])) ELSE <<>>
           ss == [i \in 1 .. 4 |-> s(i)]
           qq == [i \in 1 .. 4 |-> q(i)]
<1>1. Len(Strings) = 4
  BY DEF Strings
<1>2. /\ \A i \in 1 .. 4 : Strings[i].tag \in TextTags
      /\ \A i, k \in 1 .. 4 : i # k => Strings[i].tag # Strings[k].tag
  BY TextTagsAre
<1>3. \A i \in 1 .. 4 : Strings[i].of \in DOMAIN t => IsText(t[Strings[i].of])
  BY <1>1 DEF IsTrack
<1>4. \A i \in 1 .. 4 : Typed(Strings[i].tag, "String")
  BY <1>2, TypesAre DEF Texts, TextTags
<1> HIDE DEF Strings
<1>5. \A i \in 1 .. 4 :
        /\ Part(s(i), q(i), 5 + MaxText) /\ Only(q(i), {Strings[i].tag})
        /\ Says(q(i), Strings[i].tag, Strings[i].of \in DOMAIN t, Encode(cs, t[Strings[i].of]))
  <2> TAKE i \in 1 .. 4
  <2>1. CASE Strings[i].of \in DOMAIN t
    <3> DEFINE tag == Strings[i].tag
               x == t[Strings[i].of]
    <3>0. tag # "malformed"
      BY <1>2 DEF TextTags
    <3>1. Typed(tag, "String") /\ IsText(x)
      BY <1>3, <1>4, <2>1
    <3>2. s(i) = WriteString(tag, x, cs) /\ q(i) = One(tag, Encode(cs, x))
      BY <2>1
    <3> HIDE DEF tag, x, s, q
    <3>3. Part(WriteString(tag, x, cs), One(tag, Encode(cs, x)), 5 + MaxText)
      BY <3>0, <3>1, PartText
    <3>4. Only(One(tag, Encode(cs, x)), {tag}) /\ Seen(One(tag, Encode(cs, x)), tag, Encode(cs, x))
      BY SeenOne, OnlyOne
    <3>5. Part(s(i), q(i), 5 + MaxText) /\ Only(q(i), {tag}) /\ Says(q(i), tag, TRUE, Encode(cs, x))
      BY <3>2, <3>3, <3>4 DEF Says
    <3> QED BY <2>1, <3>5 DEF tag, x
  <2>2. CASE Strings[i].of \notin DOMAIN t
    <3>1. s(i) = <<>> /\ q(i) = <<>>
      BY <2>2
    <3> HIDE DEF s, q
    <3>2. Part(<<>>, <<>>, 5 + MaxText)
      BY PartNothing, PartLonger, MaxIs
    <3>3. Only(<<>>, {Strings[i].tag}) /\ Unseen(<<>>, Strings[i].tag)
      BY EmptyIsSeq, OnlyNothing DEF Unseen, Has
    <3> QED BY <2>2, <3>1, <3>2, <3>3 DEF Says
  <2> QED BY <2>1, <2>2
<1>6. \A i \in 1 .. 4 : ss[i] = s(i) /\ qq[i] = q(i)
  OBVIOUS
<1>6a. ss = [i \in 1 .. 4 |-> ss[i]] /\ qq = [i \in 1 .. 4 |-> qq[i]]
  OBVIOUS
<1>7. FlattenSeq([i \in 1 .. Len(Strings) |->
                          IF Strings[i].of \in DOMAIN t
                          THEN WriteString(Strings[i].tag, t[Strings[i].of], cs) ELSE <<>>])
      = FlattenSeq(ss)
  BY <1>1
<1> HIDE DEF ss, qq, s, q
<1>8. \A i \in 1 .. 4 : Part(ss[i], qq[i], 5 + MaxText)
  BY <1>5, <1>6
<1>9. \A i \in 1 .. 4 :
        /\ Only(qq[i], {Strings[i].tag})
        /\ Says(qq[i], Strings[i].tag, Strings[i].of \in DOMAIN t, Encode(cs, t[Strings[i].of]))
  BY <1>5, <1>6
<1>10. Part(FlattenSeq(ss), FlattenSeq(qq), 4 * (5 + MaxText))
  <2>1. 5 + MaxText \in Nat
    BY MaxIs
  <2>2. Part(FlattenSeq([i \in 1 .. 4 |-> ss[i]]), FlattenSeq([i \in 1 .. 4 |-> qq[i]]), 4 * (5 + MaxText))
    BY <1>8, <2>1, PartFlatten
  <2> QED BY <1>6a, <2>2
<1>11. Only(FlattenSeq(qq), TextTags)
  <2>1. ASSUME NEW tag, tag \notin TextTags PROVE Unseen(FlattenSeq(qq), tag)
    <3>1. \A i \in 1 .. 4 : Unseen(qq[i], tag)
      BY <1>2, <1>9, <2>1 DEF Only
    <3>2. Unseen(FlattenSeq([i \in 1 .. 4 |-> qq[i]]), tag)
      BY <3>1, UnseenFlatten
    <3> QED BY <1>6a, <3>2
  <2>2. IsSeq(FlattenSeq(qq))
    BY <1>10, PartSeq
  <2> QED BY <2>1, <2>2 DEF Only
<1>12. TextsTold(FlattenSeq(qq), t, cs)
  <2>1. ASSUME NEW k \in 1 .. 4
        PROVE  Says(FlattenSeq(qq), Strings[k].tag, Strings[k].of \in DOMAIN t,
                    Encode(cs, t[Strings[k].of]))
    <3> DEFINE tag == Strings[k].tag
               has == Strings[k].of \in DOMAIN t
               v == Encode(cs, t[Strings[k].of])
    <3>1. Says(qq[k], tag, has, v) /\ has \in BOOLEAN
      BY <1>9
    <3>2. \A i \in 1 .. 4 : i # k => Unseen(qq[i], tag)
      BY <1>2, <1>9 DEF Only
    <3> HIDE DEF tag, has, v
    <3>3. Says(FlattenSeq([i \in 1 .. 4 |-> qq[i]]), tag, has, v)
      BY <3>1, <3>2, SaysFlatten
    <3>4. Says(FlattenSeq(qq), tag, has, v)
      BY <1>6a, <3>3
    <3> QED BY <3>4 DEF tag, has, v
  <2> QED BY <2>1 DEF TextsTold
<1> QED BY <1>7, <1>10, <1>11, <1>12

\* The numbers of a track, those it has.
LEMMA NumbersPart ==
  ASSUME NEW t, IsTrack(t)
  PROVE  \E r : /\ Part(FlattenSeq([i \in 1 .. Len(Numbers) |->
                          IF Numbers[i].of \in DOMAIN t
                          THEN Field(Numbers[i].tag, Digits(Clamped(Numbers[i].of, t[Numbers[i].of]),
                                                            Numbers[i].width))
                          ELSE <<>>]),
                        r, 7 * 9)
                /\ Only(r, AmountTags) /\ AmountsTold(r, t)
<1> DEFINE n(i) == Clamped(Numbers[i].of, t[Numbers[i].of])
           s(i) == IF Numbers[i].of \in DOMAIN t
                   THEN Field(Numbers[i].tag, Digits(n(i), Numbers[i].width)) ELSE <<>>
           q(i) == IF Numbers[i].of \in DOMAIN t
                   THEN One(Numbers[i].tag, Number(Digits(n(i), Numbers[i].width))) ELSE <<>>
           ss == [i \in 1 .. 7 |-> s(i)]
           qq == [i \in 1 .. 7 |-> q(i)]
<1>1. Len(Numbers) = 7
  BY DEF Numbers
<1>2. \A i \in 1 .. 7 :
        \/ Numbers[i].tag \in {"astn", "asdn", "asyr", "asbr"} /\ Numbers[i].width = 2
        \/ Numbers[i].tag \in {"astm", "assr", "assz"} /\ Numbers[i].width = 4
  BY DEF Numbers, daap
<1>2a. /\ \A i \in 1 .. 7 : Numbers[i].tag \in AmountTags
       /\ \A i, k \in 1 .. 7 : i # k => Numbers[i].tag # Numbers[k].tag
  BY AmountTagsAre
<1>3. \A i \in 1 .. 7 : Numbers[i].of \in DOMAIN t => n(i) \in Nat
  <2> TAKE i \in 1 .. 7
  <2>1. Numbers[i].of \in DOMAIN t => t[Numbers[i].of] \in Nat
    BY <1>1 DEF IsTrack
  <2>2. U32Max \in Nat
    BY MaxIs
  <2> HIDE DEF U32Max, Numbers
  <2> QED BY <2>1, <2>2 DEF Clamped
<1>3a. \A i \in 1 .. 7 : n(i) = Amount(i, t)
  BY DEF Amount
<1> HIDE DEF Numbers, n
<1>4. "Short" \in DOMAIN Width /\ "Int" \in DOMAIN Width /\ Width["Short"] = 2 /\ Width["Int"] = 4
  BY DEF Width
<1>5. \A i \in 1 .. 7 :
        /\ Part(s(i), q(i), 9) /\ Only(q(i), {Numbers[i].tag})
        /\ Says(q(i), Numbers[i].tag, Numbers[i].of \in DOMAIN t,
                Number(Digits(n(i), Numbers[i].width)))
  <2> TAKE i \in 1 .. 7
  <2>1. CASE Numbers[i].of \in DOMAIN t
    <3> DEFINE tag == Numbers[i].tag
               w == Numbers[i].width
               x == n(i)
    <3>0. tag # "malformed"
      BY <1>2
    <3>1. x \in Nat
      BY <1>3, <2>1
    <3>2. s(i) = Field(tag, Digits(x, w)) /\ q(i) = One(tag, Number(Digits(x, w)))
      BY <2>1
    <3>3. (w = 2 /\ Typed(tag, "Short")) \/ (w = 4 /\ Typed(tag, "Int"))
      BY <1>2, TypesAre DEF Ints, Shorts
    <3> HIDE DEF tag, x, w, s, q
    <3>4. Part(Field(tag, Digits(x, w)), One(tag, Number(Digits(x, w))), 9)
      <4>1. CASE w = 2 /\ Typed(tag, "Short")
        <5>1. Part(Field(tag, Digits(x, Width["Short"])), One(tag, Number(Digits(x, Width["Short"]))), 5 + Width["Short"])
          BY <1>4, <3>0, <3>1, <4>1, PartDigits
        <5>2. Part(Field(tag, Digits(x, w)), One(tag, Number(Digits(x, w))), 7)
          BY <1>4, <4>1, <5>1
        <5> QED BY <5>2, PartLonger
      <4>2. CASE w = 4 /\ Typed(tag, "Int")
        <5>1. Part(Field(tag, Digits(x, Width["Int"])), One(tag, Number(Digits(x, Width["Int"]))), 5 + Width["Int"])
          BY <1>4, <3>0, <3>1, <4>2, PartDigits
        <5> QED BY <1>4, <4>2, <5>1
      <4> QED BY <3>3, <4>1, <4>2
    <3>5. Only(One(tag, Number(Digits(x, w))), {tag})
          /\ Seen(One(tag, Number(Digits(x, w))), tag, Number(Digits(x, w)))
      BY SeenOne, OnlyOne
    <3>6. /\ Part(s(i), q(i), 9) /\ Only(q(i), {tag})
          /\ Says(q(i), tag, TRUE, Number(Digits(x, w)))
      BY <3>2, <3>4, <3>5 DEF Says
    <3> QED BY <2>1, <3>6 DEF tag, x, w
  <2>2. CASE Numbers[i].of \notin DOMAIN t
    <3>1. s(i) = <<>> /\ q(i) = <<>>
      BY <2>2
    <3> HIDE DEF s, q
    <3>2. Part(<<>>, <<>>, 9)
      BY PartNothing, PartLonger
    <3>3. Only(<<>>, {Numbers[i].tag}) /\ Unseen(<<>>, Numbers[i].tag)
      BY EmptyIsSeq, OnlyNothing DEF Unseen, Has
    <3> QED BY <2>2, <3>1, <3>2, <3>3 DEF Says
  <2> QED BY <2>1, <2>2
<1>6. \A i \in 1 .. 7 : ss[i] = s(i) /\ qq[i] = q(i)
  OBVIOUS
<1>6a. ss = [i \in 1 .. 7 |-> ss[i]] /\ qq = [i \in 1 .. 7 |-> qq[i]]
  OBVIOUS
<1>7. FlattenSeq([i \in 1 .. Len(Numbers) |->
                          IF Numbers[i].of \in DOMAIN t
                          THEN Field(Numbers[i].tag, Digits(Clamped(Numbers[i].of, t[Numbers[i].of]),
                                                            Numbers[i].width))
                          ELSE <<>>])
      = FlattenSeq(ss)
  BY <1>1 DEF n
<1> HIDE DEF ss, qq, s, q
<1>8. \A i \in 1 .. 7 : Part(ss[i], qq[i], 9)
  BY <1>5, <1>6
<1>9. \A i \in 1 .. 7 :
        /\ Only(qq[i], {Numbers[i].tag})
        /\ Says(qq[i], Numbers[i].tag, Numbers[i].of \in DOMAIN t,
                Number(Digits(Amount(i, t), Numbers[i].width)))
  BY <1>3a, <1>5, <1>6
<1>10. Part(FlattenSeq(ss), FlattenSeq(qq), 7 * 9)
  <2>1. Part(FlattenSeq([i \in 1 .. 7 |-> ss[i]]), FlattenSeq([i \in 1 .. 7 |-> qq[i]]), 7 * 9)
    BY <1>8, PartFlatten
  <2> QED BY <1>6a, <2>1
<1>11. Only(FlattenSeq(qq), AmountTags)
  <2>1. ASSUME NEW tag, tag \notin AmountTags PROVE Unseen(FlattenSeq(qq), tag)
    <3>1. \A i \in 1 .. 7 : Unseen(qq[i], tag)
      BY <1>2a, <1>9, <2>1 DEF Only
    <3>2. Unseen(FlattenSeq([i \in 1 .. 7 |-> qq[i]]), tag)
      BY <3>1, UnseenFlatten
    <3> QED BY <1>6a, <3>2
  <2>2. IsSeq(FlattenSeq(qq))
    BY <1>10, PartSeq
  <2> QED BY <2>1, <2>2 DEF Only
<1>12. AmountsTold(FlattenSeq(qq), t)
  <2>1. ASSUME NEW k \in 1 .. 7
        PROVE  Says(FlattenSeq(qq), Numbers[k].tag, Numbers[k].of \in DOMAIN t,
                    Number(Digits(Amount(k, t), Numbers[k].width)))
    <3> DEFINE tag == Numbers[k].tag
               has == Numbers[k].of \in DOMAIN t
               v == Number(Digits(Amount(k, t), Numbers[k].width))
    <3>1. Says(qq[k], tag, has, v) /\ has \in BOOLEAN
      BY <1>9
    <3>2. \A i \in 1 .. 7 : i # k => Unseen(qq[i], tag)
      BY <1>2a, <1>9 DEF Only
    <3> HIDE DEF tag, has, v
    <3>3. Says(FlattenSeq([i \in 1 .. 7 |-> qq[i]]), tag, has, v)
      BY <3>1, <3>2, SaysFlatten
    <3>4. Says(FlattenSeq(qq), tag, has, v)
      BY <1>6a, <3>3
    <3> QED BY <3>4 DEF tag, has, v
  <2> QED BY <2>1 DEF AmountsTold
<1> QED BY <1>7, <1>10, <1>11, <1>12

\* A sequence of one is flat.
LEMMA FlattenOne == ASSUME NEW x PROVE FlattenSeq(<<x>>) = x
<1> DEFINE ss == <<x>>
<1>1. IsSeq(ss)
  BY OneIsSeq
<1>2. Len(ss) = 1 /\ ss[1] = x
  OBVIOUS
<1> HIDE DEF ss
<1>3. Len(ss) # 0
  BY <1>2
<1>4. FlattenSeq(ss) = Flat(ss)[Len(ss)] /\ Flat(ss)[1] = ss[1]
  BY <1>1, <1>3, FlattenGoes
<1>5. FlattenSeq(ss) = x
  BY <1>2, <1>4
<1> QED BY <1>5 DEF ss

\* The position of a track, when it has one: the entries of a playlist.
LEMMA PositionPart ==
  /\ FlattenSeq([i \in 1 .. Len(<<>>) |-> U32("mpco", <<>>[i])]) = <<>>
  /\ \A p : FlattenSeq([i \in 1 .. Len(<<p>>) |-> U32("mpco", <<p>>[i])]) = U32("mpco", p)
<1>1. FlattenSeq([i \in 1 .. Len(<<>>) |-> U32("mpco", <<>>[i])]) = <<>>
  <2> DEFINE ss == [i \in 1 .. Len(<<>>) |-> U32("mpco", <<>>[i])]
  <2>1. ss = <<>>
    OBVIOUS
  <2> HIDE DEF ss
  <2>2. FlattenSeq(ss) = ss
    BY <2>1, EmptyIsSeq, FlattenIsLast
  <2> QED BY <2>1, <2>2 DEF ss
<1>2. ASSUME NEW p PROVE FlattenSeq([i \in 1 .. Len(<<p>>) |-> U32("mpco", <<p>>[i])]) = U32("mpco", p)
  <2> DEFINE ss == [i \in 1 .. Len(<<p>>) |-> U32("mpco", <<p>>[i])]
             x == U32("mpco", p)
  <2>1. ss = <<x>>
    <3> HIDE DEF x
    <3>1. \A i \in 1 .. 1 : U32("mpco", <<p>>[i]) = x
      BY DEF x
    <3>2. ss = [i \in 1 .. 1 |-> x]
      BY <3>1
    <3> QED BY <3>2
  <2> HIDE DEF ss, x
  <2>2. FlattenSeq(<<x>>) = x
    BY FlattenOne
  <2> QED BY <2>1, <2>2 DEF ss, x
<1> QED BY <1>1, <1>2

\* An entry of a listing as it is read: its id, and its position if it has one.
EntryGives(s, r, id, mpco) ==
  /\ Part(s, r, EntryMax)
  /\ Seen(r, "miid", id)
  /\ IF mpco = None THEN Unseen(r, "mpco") ELSE Seen(r, "mpco", mpco)

\* What a track has before its position.
TrackCells(t, cs) ==
  U8(dmap.itemKind, 2) \o Named(t.id, t.title, cs)
    \o FlattenSeq([i \in 1 .. Len(Strings) |->
         IF Strings[i].of \in DOMAIN t
         THEN WriteString(Strings[i].tag, t[Strings[i].of], cs) ELSE <<>>])
    \o WriteString(daap.songFormat, FormatString[t.format], cs)
    \o U8(daap.songDataKind, 0)
    \o FlattenSeq([i \in 1 .. Len(Numbers) |->
         IF Numbers[i].of \in DOMAIN t
         THEN Field(Numbers[i].tag, Digits(Clamped(Numbers[i].of, t[Numbers[i].of]),
                                           Numbers[i].width))
         ELSE <<>>])

\* What is told of a track: its texts and numbers.
TrackTold(r, t, cs) ==
  Seen(r, "minm", Encode(cs, t.title)) /\ TextsTold(r, t, cs) /\ AmountsTold(r, t)

\* A field more, of a tag that no track has, changes nothing of it.
LEMMA ToldStill ==
  ASSUME NEW r, NEW t, NEW cs, TrackTold(r, t, cs), NEW q, Only(q, {"mpco"})
  PROVE  TrackTold(r \o q, t, cs)
<1>1. {"mpco"} \cap TextTags = {} /\ {"mpco"} \cap AmountTags = {}
  BY DEF TextTags, AmountTags
<1>2. TextsTold(r \o q, t, cs)
  BY <1>1, TextsKept DEF TrackTold
<1>3. AmountsTold(r \o q, t)
  BY <1>1, AmountsKept DEF TrackTold
<1>4. Seen(r \o q, "minm", Encode(cs, t.title))
  BY SeenFirst DEF TrackTold, Only
<1> QED BY <1>2, <1>3, <1>4 DEF TrackTold

\* What a track consists of, one field after the other.
LEMMA TrackCellsPart ==
  ASSUME NEW t, IsTrack(t), NEW cs \in {Utf8, MacRoman}
  PROVE  \E r : /\ Part(TrackCells(t, cs), r, EntryMax - 9)
                /\ Seen(r, "miid", t.id) /\ Unseen(r, "mpco") /\ TrackTold(r, t, cs)
<1> DEFINE a == U8("mikd", 2)
           b == Named(t.id, t.title, cs)
           c == FlattenSeq([i \in 1 .. Len(Strings) |->
                  IF Strings[i].of \in DOMAIN t
                  THEN WriteString(Strings[i].tag, t[Strings[i].of], cs) ELSE <<>>])
           d == WriteString("asfm", FormatString[t.format], cs)
           e == U8("asdk", 0)
           f == FlattenSeq([i \in 1 .. Len(Numbers) |->
                  IF Numbers[i].of \in DOMAIN t
                  THEN Field(Numbers[i].tag, Digits(Clamped(Numbers[i].of, t[Numbers[i].of]),
                                                    Numbers[i].width))
                  ELSE <<>>])
           u1 == {"mikd"} \cup {"miid", "mper", "minm"}
           u2 == u1 \cup TextTags
           u3 == u2 \cup {"asfm"}
           u4 == u3 \cup {"asdk"}
           u5 == u4 \cup AmountTags
           m == Encode(cs, t.title)
<1>1. Typed("mikd", "Byte") /\ Typed("asdk", "Byte") /\ Typed("asfm", "String")
  BY TypesAre DEF Bytes, Texts
<1>2. TrackCells(t, cs) = a \o b \o c \o d \o e \o f
  BY DEF TrackCells, dmap, daap
<1>3. PICK ra : Part(a, ra, 6) /\ Only(ra, {"mikd"})
  <2>1. Part(a, One("mikd", Number(Digits(2, 1))), 6)
    BY <1>1, PartNumber
  <2>2. Only(One("mikd", Number(Digits(2, 1))), {"mikd"})
    BY OnlyOne
  <2> HIDE DEF a
  <2> QED BY <2>1, <2>2
<1>4. PICK rb : /\ Part(b, rb, 27 + MaxText)
                /\ Seen(rb, "miid", t.id) /\ Seen(rb, "minm", m)
                /\ Only(rb, {"miid", "mper", "minm"})
  <2>1. t.id \in Nat /\ t.id <= U32Max /\ IsText(t.title)
    <3>1. t.id \in 0 .. U32Max /\ IsText(t.title)
      BY DEF IsTrack
    <3>2. U32Max \in Nat
      BY MaxIs
    <3> HIDE DEF U32Max
    <3> QED BY <3>1, <3>2
  <2> DEFINE x == t.id
             y == t.title
  <2> HIDE DEF x, y
  <2>2. x \in Nat /\ x <= U32Max /\ IsText(y)
    BY <2>1 DEF x, y
  <2>3. PICK r : /\ Part(Named(x, y, cs), r, 27 + MaxText)
                 /\ Seen(r, "miid", x) /\ Seen(r, "minm", Encode(cs, y))
                 /\ \A tag : tag \notin {"miid", "mper", "minm"} => Unseen(r, tag)
    BY <2>2, NamedPart
  <2>4. Only(r, {"miid", "mper", "minm"})
    BY <2>3, PartSeq DEF Only
  <2> QED BY <2>3, <2>4 DEF x, y
<1>5. PICK rc : Part(c, rc, 4 * (5 + MaxText)) /\ Only(rc, TextTags) /\ TextsTold(rc, t, cs)
  BY StringsPart
<1>6. PICK rd : Part(d, rd, 5 + MaxText) /\ Only(rd, {"asfm"})
  <2> DEFINE x == FormatString[t.format]
  <2>1. IsText(x)
    <3>1. t.format \in DOMAIN FormatString
      BY DEF IsTrack
    <3> QED BY <3>1, WireAssumption
  <2> HIDE DEF x
  <2>2. Part(WriteString("asfm", x, cs), One("asfm", Encode(cs, x)), 5 + MaxText)
    BY <1>1, <2>1, PartText
  <2>3. Only(One("asfm", Encode(cs, x)), {"asfm"})
    BY OnlyOne
  <2>4. Part(d, One("asfm", Encode(cs, x)), 5 + MaxText)
    BY <2>2 DEF x
  <2> HIDE DEF d
  <2> QED BY <2>3, <2>4
<1>7. PICK re : Part(e, re, 6) /\ Only(re, {"asdk"})
  <2>1. Part(e, One("asdk", Number(Digits(0, 1))), 6)
    BY <1>1, PartNumber
  <2>2. Only(One("asdk", Number(Digits(0, 1))), {"asdk"})
    BY OnlyOne
  <2> HIDE DEF e
  <2> QED BY <2>1, <2>2
<1>8. PICK rf : Part(f, rf, 7 * 9) /\ Only(rf, AmountTags) /\ AmountsTold(rf, t)
  BY NumbersPart
<1> HIDE DEF a, b, c, d, e, f, m
<1>9. /\ u1 \cap TextTags = {} /\ {"asfm"} \cap TextTags = {} /\ {"asdk"} \cap TextTags = {}
      /\ AmountTags \cap TextTags = {}
  BY DEF TextTags, AmountTags
<1>9a. u4 \cap AmountTags = {}
  BY DEF TextTags, AmountTags
<1>9b. "mpco" \notin u5
  BY DEF TextTags, AmountTags
<1> DEFINE r1 == ra \o rb
           r2 == r1 \o rc
           r3 == r2 \o rd
           r4 == r3 \o re
           r5 == r4 \o rf
<1>11. Part(a \o b, r1, 6 + (27 + MaxText))
  BY <1>3, <1>4, PartBoth
<1>12. Seen(r1, "miid", t.id) /\ Seen(r1, "minm", m) /\ Only(r1, u1)
  <2>1. Unseen(ra, "miid") /\ Unseen(ra, "minm")
    BY <1>3 DEF Only
  <2> QED BY <1>3, <1>4, <2>1, SeenSecond, OnlyBoth
<1>13. IsSeq(rc) /\ IsSeq(rd) /\ IsSeq(re) /\ IsSeq(rf)
  BY <1>5, <1>6, <1>7, <1>8 DEF Only
<1> HIDE DEF r1, u1
<1>14. Part(a \o b \o c, r2, 6 + (27 + MaxText) + 4 * (5 + MaxText))
  BY <1>5, <1>11, PartBoth
<1>15. Seen(r2, "miid", t.id) /\ Seen(r2, "minm", m) /\ Only(r2, u2) /\ TextsTold(r2, t, cs)
  BY <1>5, <1>9, <1>12, <1>13, SeenFirst, OnlyBoth, TextsFollow
<1> HIDE DEF r2, u2
<1>16. Part(a \o b \o c \o d, r3, 6 + (27 + MaxText) + 4 * (5 + MaxText) + (5 + MaxText))
  BY <1>6, <1>14, PartBoth
<1>17. Seen(r3, "miid", t.id) /\ Seen(r3, "minm", m) /\ Only(r3, u3) /\ TextsTold(r3, t, cs)
  BY <1>6, <1>9, <1>13, <1>15, SeenFirst, OnlyBoth, TextsKept
<1> HIDE DEF r3, u3
<1>18. Part(a \o b \o c \o d \o e, r4,
            6 + (27 + MaxText) + 4 * (5 + MaxText) + (5 + MaxText) + 6)
  BY <1>7, <1>16, PartBoth
<1>19. Seen(r4, "miid", t.id) /\ Seen(r4, "minm", m) /\ Only(r4, u4) /\ TextsTold(r4, t, cs)
  BY <1>7, <1>9, <1>13, <1>17, SeenFirst, OnlyBoth, TextsKept
<1> HIDE DEF r4, u4
<1>20. Part(a \o b \o c \o d \o e \o f, r5,
            6 + (27 + MaxText) + 4 * (5 + MaxText) + (5 + MaxText) + 6 + 7 * 9)
  BY <1>8, <1>18, PartBoth
<1>21. /\ Seen(r5, "miid", t.id) /\ Seen(r5, "minm", m) /\ Only(r5, u5)
       /\ TextsTold(r5, t, cs) /\ AmountsTold(r5, t)
  BY <1>8, <1>9, <1>9a, <1>13, <1>19, SeenFirst, OnlyBoth, TextsKept, AmountsFollow
<1> HIDE DEF r5, u5
<1>21a. Unseen(r5, "mpco") /\ TrackTold(r5, t, cs)
  BY <1>9b, <1>21 DEF Only, TrackTold, m
<1>22. 6 + (27 + MaxText) + 4 * (5 + MaxText) + (5 + MaxText) + 6 + 7 * 9 <= EntryMax - 9
       /\ EntryMax - 9 \in Nat
  BY MaxIs DEF EntryMax
<1>23. Part(TrackCells(t, cs), r5, EntryMax - 9)
  BY <1>2, <1>20, <1>22, PartLonger
<1> QED BY <1>21, <1>21a, <1>23

\* A track, listed without a position.
LEMMA TrackEntry ==
  ASSUME NEW t, IsTrack(t), NEW cs \in {Utf8, MacRoman}
  PROVE  \E r : EntryGives(EmitTrackMlit(t, <<>>, cs), r, t.id, None) /\ TrackTold(r, t, cs)
<1> DEFINE a == TrackCells(t, cs)
           m == FlattenSeq([i \in 1 .. Len(<<>>) |-> U32("mpco", <<>>[i])])
<1>1. PICK r : /\ Part(a, r, EntryMax - 9) /\ Seen(r, "miid", t.id) /\ Unseen(r, "mpco")
               /\ TrackTold(r, t, cs)
  BY TrackCellsPart
<1>2. EmitTrackMlit(t, <<>>, cs) = a \o m
  BY DEF EmitTrackMlit, TrackCells, dmap
<1>3. m = <<>>
  BY PositionPart
<1> HIDE DEF a, m
<1>4. Part(a \o <<>>, r \o <<>>, EntryMax - 9 + 0)
  BY <1>1, PartNothing, PartBoth
<1>5. Unseen(<<>>, "mpco") /\ IsSeq(<<>>)
  BY EmptyIsSeq DEF Unseen, Has
<1>6. Seen(r \o <<>>, "miid", t.id) /\ Unseen(r \o <<>>, "mpco")
  BY <1>1, <1>5, SeenFirst, UnseenBoth
<1>7. EntryMax \in Nat /\ EntryMax - 9 + 0 <= EntryMax
  BY MaxIs DEF EntryMax
<1>8. Part(EmitTrackMlit(t, <<>>, cs), r \o <<>>, EntryMax)
  BY <1>2, <1>3, <1>4, <1>7, PartLonger
<1>9. EntryGives(EmitTrackMlit(t, <<>>, cs), r \o <<>>, t.id, None)
  BY <1>6, <1>8 DEF EntryGives
<1>10. TrackTold(r \o <<>>, t, cs)
  BY <1>1, OnlyNothing, ToldStill
<1> QED BY <1>9, <1>10

\* A track, listed with its position.
LEMMA TrackEntryAt ==
  ASSUME NEW t, IsTrack(t), NEW cs \in {Utf8, MacRoman}, NEW p \in Nat, p <= U32Max
  PROVE  \E r : EntryGives(EmitTrackMlit(t, <<p>>, cs), r, t.id, p) /\ TrackTold(r, t, cs)
<1> DEFINE a == TrackCells(t, cs)
           m == FlattenSeq([i \in 1 .. Len(<<p>>) |-> U32("mpco", <<p>>[i])])
<1>1. PICK r : /\ Part(a, r, EntryMax - 9) /\ Seen(r, "miid", t.id) /\ Unseen(r, "mpco")
               /\ TrackTold(r, t, cs)
  BY TrackCellsPart
<1>2. EmitTrackMlit(t, <<p>>, cs) = a \o m
  BY DEF EmitTrackMlit, TrackCells, dmap
<1>3. m = U32("mpco", p)
  BY PositionPart
<1> HIDE DEF a, m
<1>4. Typed("mpco", "Int")
  BY TypesAre DEF Ints
<1>5. Part(U32("mpco", p), One("mpco", p), 9)
  BY <1>4, PartInt
<1>6. Part(a \o U32("mpco", p), r \o One("mpco", p), EntryMax - 9 + 9)
  BY <1>1, <1>5, PartBoth
<1>7. Seen(r \o One("mpco", p), "miid", t.id) /\ Seen(r \o One("mpco", p), "mpco", p)
  <2>1. IsSeq(One("mpco", p)) /\ Seen(One("mpco", p), "mpco", p)
    BY SeenOne
  <2> QED BY <1>1, <2>1, SeenFirst, SeenSecond
<1>8. EntryMax - 9 + 9 = EntryMax
  BY MaxIs DEF EntryMax
<1>9. Part(EmitTrackMlit(t, <<p>>, cs), r \o One("mpco", p), EntryMax)
  BY <1>2, <1>3, <1>6, <1>8
<1>10. p # None
  BY ListingAssumption
<1>11. EntryGives(EmitTrackMlit(t, <<p>>, cs), r \o One("mpco", p), t.id, p)
  BY <1>7, <1>9, <1>10 DEF EntryGives
<1>12. TrackTold(r \o One("mpco", p), t, cs)
  BY <1>1, OnlyOne, ToldStill
<1> QED BY <1>11, <1>12

\* A track is still one when it is shown as it would be served.
LEMMA ListedIsTrack ==
  ASSUME NEW t, IsTrack(t)
  PROVE  IsTrack(AsListed(t)) /\ AsListed(t).id = t.id
<1> DEFINE served == ServedAs[t.format]
           more == served.kbps > 0 /\ "durationMs" \in DOMAIN t
           D == DOMAIN t \cup (IF more THEN {"sizeBytes", "bitrateKbps"} ELSE {})
           a == AsListed(t)
<1>1. DOMAIN a = D
  BY DEF AsListed
<1>2. ASSUME NEW f \in DOMAIN t, f # "format", f # "sizeBytes", f # "bitrateKbps"
      PROVE  a[f] = t[f]
  BY <1>2 DEF AsListed
<1>3. "format" \in D => a["format"] = served.format
  BY DEF AsListed
<1>4. more => a["sizeBytes"] = (t.durationMs * served.kbps) \div 8 /\ a["bitrateKbps"] = served.kbps
  BY DEF AsListed
<1>5. ASSUME ~more
      PROVE  /\ "sizeBytes" \in DOMAIN t => a["sizeBytes"] = t["sizeBytes"]
             /\ "bitrateKbps" \in DOMAIN t => a["bitrateKbps"] = t["bitrateKbps"]
  BY <1>5 DEF AsListed
<1>6. /\ {"id", "title", "format"} \subseteq DOMAIN t
      /\ t.id \in 0 .. U32Max /\ IsText(t.title) /\ t.format \in DOMAIN FormatString
      /\ \A i \in 1 .. Len(Strings) : Strings[i].of \in DOMAIN t => IsText(t[Strings[i].of])
      /\ \A i \in 1 .. Len(Numbers) : Numbers[i].of \in DOMAIN t => t[Numbers[i].of] \in Nat
  BY DEF IsTrack
<1>7. served.format \in DOMAIN FormatString /\ served.kbps \in Nat
  BY <1>6, WireAssumption
<1> HIDE DEF a, served, more
<1>8. DOMAIN t \subseteq D
  OBVIOUS
<1>9. D \ {"sizeBytes", "bitrateKbps"} \subseteq DOMAIN t
  OBVIOUS
<1>9a. more => "durationMs" \in DOMAIN t
  BY DEF more
<1>9b. ~more => D = DOMAIN t
  OBVIOUS
<1> HIDE DEF D
<1>10. a.id = t.id /\ a.title = t.title /\ a.format = served.format
  <2>1. a["id"] = t["id"] /\ a["title"] = t["title"]
    BY <1>2, <1>6
  <2> QED BY <1>3, <1>6, <1>8, <2>1
<1>11. {"id", "title", "format"} \subseteq DOMAIN a
  BY <1>1, <1>6, <1>8
<1>12. ASSUME NEW i \in 1 .. Len(Strings), Strings[i].of \in DOMAIN a
       PROVE  IsText(a[Strings[i].of])
  <2>1. Strings[i].of \in {"artist", "album", "albumArtist", "genre"}
    BY DEF Strings
  <2> DEFINE f == Strings[i].of
  <2> HIDE DEF f
  <2>2. f # "format" /\ f # "sizeBytes" /\ f # "bitrateKbps"
    BY <2>1 DEF f
  <2>3. f \in DOMAIN t
    BY <1>1, <1>9, <1>12, <2>2 DEF f
  <2>4. a[f] = t[f]
    BY <1>2, <2>2, <2>3
  <2>5. IsText(t[f])
    BY <1>6, <2>3 DEF f
  <2> QED BY <2>4, <2>5 DEF f
<1>13. ASSUME NEW i \in 1 .. Len(Numbers), Numbers[i].of \in DOMAIN a
       PROVE  a[Numbers[i].of] \in Nat
  <2>1. Numbers[i].of \in {"trackNumber", "discNumber", "year", "durationMs", "bitrateKbps",
                           "sampleRate", "sizeBytes"}
    BY DEF Numbers
  <2>2. Numbers[4].of = "durationMs" /\ 4 \in 1 .. Len(Numbers)
    BY DEF Numbers
  <2> DEFINE f == Numbers[i].of
  <2>3. f \in DOMAIN t => t[f] \in Nat
    BY <1>6
  <2>4. "durationMs" \in DOMAIN t => t.durationMs \in Nat
    BY <1>6, <2>2
  <2>5. f \in DOMAIN a /\ f # "format"
    BY <1>13, <2>1
  <2> HIDE DEF f
  <2>6. CASE f # "sizeBytes" /\ f # "bitrateKbps"
    <3>1. f \in DOMAIN t
      BY <1>1, <1>9, <2>5, <2>6
    <3>2. a[f] = t[f]
      BY <1>2, <2>5, <2>6, <3>1
    <3> QED BY <2>3, <3>1, <3>2 DEF f
  <2>7. CASE (f = "sizeBytes" \/ f = "bitrateKbps") /\ more
    <3>1. t.durationMs \in Nat
      BY <1>9a, <2>4, <2>7
    <3>2. \A m, n \in Nat : (m * n) \div 8 \in Nat
      <4>1. \A m, n \in Nat : m * n \in Nat
        OBVIOUS
      <4>2. \A m \in Nat : m \div 8 \in Nat
        OBVIOUS
      <4> QED BY <4>1, <4>2
    <3>3. (t.durationMs * served.kbps) \div 8 \in Nat
      BY <1>7, <3>1, <3>2
    <3>4. a["sizeBytes"] \in Nat /\ a["bitrateKbps"] \in Nat
      BY <1>4, <1>7, <2>7, <3>3
    <3> QED BY <2>7, <3>4 DEF f
  <2>8. CASE (f = "sizeBytes" \/ f = "bitrateKbps") /\ ~more
    <3>1. f \in DOMAIN t
      BY <1>1, <1>9b, <2>5, <2>8
    <3>2. a[f] = t[f]
      BY <1>5, <2>8, <3>1
    <3> QED BY <2>3, <3>1, <3>2 DEF f
  <2> QED BY <2>6, <2>7, <2>8 DEF f
<1>14. IsTrack(a)
  BY <1>6, <1>7, <1>10, <1>11, <1>12, <1>13 DEF IsTrack
<1> QED BY <1>10, <1>14 DEF a

\* A track shown as it would be served still fits: its bitrate is that of MP3.
LEMMA ListedFits ==
  ASSUME NEW t, IsTrack(t), TrackFits(t)
  PROVE  TrackFits(AsListed(t))
<1> DEFINE served == ServedAs[t.format]
           more == served.kbps > 0 /\ "durationMs" \in DOMAIN t
           D == DOMAIN t \cup (IF more THEN {"sizeBytes", "bitrateKbps"} ELSE {})
           a == AsListed(t)
           cap(i) == IF Numbers[i].width = 2 THEN Byte * Byte - 1 ELSE U32Max
<1>1. DOMAIN a = D
  BY DEF AsListed
<1>2. ASSUME NEW f \in DOMAIN t, f # "format", f # "sizeBytes", f # "bitrateKbps"
      PROVE  a[f] = t[f]
  BY <1>2 DEF AsListed
<1>3. /\ more => a["bitrateKbps"] = served.kbps
      /\ ~more => ("bitrateKbps" \in DOMAIN t => a["bitrateKbps"] = t["bitrateKbps"])
  BY DEF AsListed
<1>4. /\ "title" \in DOMAIN t /\ Writable(t.title)
      /\ \A i \in 1 .. Len(Strings) : Strings[i].of \in DOMAIN t => Writable(t[Strings[i].of])
      /\ \A i \in 1 .. Len(Numbers) : Numbers[i].of \in DOMAIN t /\ Numbers[i].of # "sizeBytes" =>
           t[Numbers[i].of] <= cap(i)
  BY DEF TrackFits, IsTrack
<1>5. served.kbps <= Byte * Byte - 1
  BY TextAssumption DEF IsTrack
<1>6. D \ {"sizeBytes", "bitrateKbps"} \subseteq DOMAIN t /\ (~more => D = DOMAIN t)
  OBVIOUS
<1> HIDE DEF a, served, more, D
<1>7. Writable(a.title)
  BY <1>2, <1>4
<1>8. ASSUME NEW i \in 1 .. Len(Strings), Strings[i].of \in DOMAIN a
      PROVE  Writable(a[Strings[i].of])
  <2> DEFINE f == Strings[i].of
  <2>1. f \in {"artist", "album", "albumArtist", "genre"}
    BY DEF Strings
  <2> HIDE DEF f
  <2>2. f # "format" /\ f # "sizeBytes" /\ f # "bitrateKbps"
    BY <2>1
  <2>3. f \in DOMAIN t
    BY <1>1, <1>6, <1>8, <2>2 DEF f
  <2>4. Writable(t[f])
    BY <1>4, <2>3 DEF f
  <2> QED BY <1>2, <2>2, <2>3, <2>4 DEF f
<1>9. ASSUME NEW i \in 1 .. Len(Numbers), Numbers[i].of \in DOMAIN a, Numbers[i].of # "sizeBytes"
      PROVE  a[Numbers[i].of] <= cap(i)
  <2> DEFINE f == Numbers[i].of
             c == cap(i)
  <2>1. f \in {"trackNumber", "discNumber", "year", "durationMs", "bitrateKbps", "sampleRate",
               "sizeBytes"}
    BY DEF Numbers
  <2>2. f = "bitrateKbps" => c = Byte * Byte - 1
    BY DEF Numbers
  <2>3. f \in DOMAIN t => t[f] <= c
    BY <1>4, <1>9
  <2>4. f \in D /\ f # "sizeBytes" /\ f # "format"
    BY <1>1, <1>9, <2>1
  <2> HIDE DEF f, c
  <2>5. CASE f = "bitrateKbps" /\ more
    BY <1>3, <1>5, <2>2, <2>5 DEF f, c
  <2>6. CASE f = "bitrateKbps" /\ ~more
    BY <1>3, <1>6, <2>3, <2>4, <2>6 DEF f, c
  <2>7. CASE f # "bitrateKbps"
    <3>1. f \in DOMAIN t
      BY <1>6, <2>4, <2>7
    <3> QED BY <1>2, <2>3, <2>4, <2>7, <3>1 DEF f, c
  <2> QED BY <2>5, <2>6, <2>7
<1>10. TrackFits(a)
  BY <1>7, <1>8, <1>9 DEF TrackFits
<1> QED BY <1>10 DEF a

\* A number that fits its two or four bytes comes back.
LEMMA FittingReadsBack ==
  ASSUME NEW v \in Nat, NEW w \in {2, 4}, v <= IF w = 2 THEN Byte * Byte - 1 ELSE U32Max
  PROVE  Number(Digits(v, w)) = v
<1>1. CASE w = 2
  <2>1. Byte * Byte \in Nat
    BY ByteAssumption
  <2>2. v < Byte * Byte
    BY <1>1, <2>1
  <2>3. Quotients(v, 2)[2] = 0
    BY <2>2, DigitsSuffice
  <2> QED BY <1>1, <2>3, NumberReadsBack
<1>2. CASE w = 4
  <2>1. U32Max \in Nat /\ Byte * Byte * Byte * Byte = U32Max + 1
    BY MaxIs
  <2> DEFINE n == Byte * Byte * Byte * Byte
             m == U32Max
  <2>2. v <= m
    BY <1>2
  <2> HIDE DEF n, m
  <2>3. m \in Nat /\ n = m + 1
    BY <2>1 DEF n, m
  <2>4. v < n
    BY <2>2, <2>3
  <2>5. Quotients(v, 4)[4] = 0
    BY <2>4, DigitsSuffice DEF n
  <2> QED BY <1>2, <2>5, NumberReadsBack
<1> QED BY <1>1, <1>2

\* The names of the tables are those that a client knows.
LEMMA TextNames ==
  \A f \in DOMAIN StringTags :
    \E i \in 1 .. 4 : Strings[i].of = f /\ Strings[i].tag = StringTags[f]
<1>1. /\ Strings[1].of = "artist" /\ Strings[1].tag = "asar"
      /\ Strings[2].of = "album" /\ Strings[2].tag = "asal"
      /\ Strings[3].of = "albumArtist" /\ Strings[3].tag = "asaa"
      /\ Strings[4].of = "genre" /\ Strings[4].tag = "asgn"
  BY DEF Strings, daap
<1>2. DOMAIN StringTags = {"artist", "album", "albumArtist", "genre"}
      /\ StringTags["artist"] = "asar" /\ StringTags["album"] = "asal"
      /\ StringTags["albumArtist"] = "asaa" /\ StringTags["genre"] = "asgn"
  BY DEF StringTags
<1>3. 1 \in 1 .. 4 /\ 2 \in 1 .. 4 /\ 3 \in 1 .. 4 /\ 4 \in 1 .. 4
  OBVIOUS
<1> QED BY <1>1, <1>2, <1>3

LEMMA AmountNames ==
  \A f \in DOMAIN NumberTags :
    \E i \in 1 .. 7 : /\ Numbers[i].of = f /\ Numbers[i].tag = NumberTags[f]
                      /\ Numbers[i].width \in {2, 4} /\ (f = "sizeBytes" => Numbers[i].width = 4)
<1>1. /\ Numbers[1].of = "trackNumber" /\ Numbers[1].tag = "astn" /\ Numbers[1].width = 2
      /\ Numbers[2].of = "discNumber" /\ Numbers[2].tag = "asdn" /\ Numbers[2].width = 2
      /\ Numbers[3].of = "year" /\ Numbers[3].tag = "asyr" /\ Numbers[3].width = 2
      /\ Numbers[4].of = "durationMs" /\ Numbers[4].tag = "astm" /\ Numbers[4].width = 4
      /\ Numbers[5].of = "bitrateKbps" /\ Numbers[5].tag = "asbr" /\ Numbers[5].width = 2
      /\ Numbers[6].of = "sampleRate" /\ Numbers[6].tag = "assr" /\ Numbers[6].width = 4
      /\ Numbers[7].of = "sizeBytes" /\ Numbers[7].tag = "assz" /\ Numbers[7].width = 4
  BY DEF Numbers, daap
<1>2. /\ DOMAIN NumberTags = {"trackNumber", "discNumber", "year", "durationMs", "bitrateKbps",
                              "sampleRate", "sizeBytes"}
      /\ NumberTags["trackNumber"] = "astn" /\ NumberTags["discNumber"] = "asdn"
      /\ NumberTags["year"] = "asyr" /\ NumberTags["durationMs"] = "astm"
      /\ NumberTags["bitrateKbps"] = "asbr" /\ NumberTags["sampleRate"] = "assr"
      /\ NumberTags["sizeBytes"] = "assz"
  BY DEF NumberTags
<1>3. /\ 1 \in 1 .. 7 /\ 2 \in 1 .. 7 /\ 3 \in 1 .. 7 /\ 4 \in 1 .. 7
      /\ 5 \in 1 .. 7 /\ 6 \in 1 .. 7 /\ 7 \in 1 .. 7
  OBVIOUS
<1> QED BY <1>1, <1>2, <1>3

\* What a client is told of a track is what it shows of it.
LEMMA ToldReads ==
  ASSUME NEW t, IsTrack(t), TrackFits(t), NEW cs \in {Utf8, MacRoman}, NEW r, TrackTold(r, t, cs)
  PROVE  TrackReads(cs, r, t)
<1>1. Legible(cs, t.title, Shown(cs, The(r, "minm")))
  <2>1. The(r, "minm") = Encode(cs, t.title) /\ Writable(t.title)
    BY DEF TrackTold, Seen, TrackFits
  <2> QED BY <2>1, EncodedIsLegible
<1>2. ASSUME NEW f \in DOMAIN StringTags
      PROVE  /\ Has(r, StringTags[f]) <=> f \in DOMAIN t
             /\ f \in DOMAIN t => Legible(cs, t[f], Shown(cs, The(r, StringTags[f])))
  <2>1. PICK i \in 1 .. 4 : Strings[i].of = f /\ Strings[i].tag = StringTags[f]
    BY TextNames
  <2>2. Says(r, StringTags[f], f \in DOMAIN t, Encode(cs, t[f]))
    BY <2>1 DEF TrackTold, TextsTold
  <2>3. CASE f \in DOMAIN t
    <3>1. Has(r, StringTags[f]) /\ The(r, StringTags[f]) = Encode(cs, t[f])
      BY <2>2, <2>3 DEF Says, Seen
    <3>2. Writable(t[f])
      <4>1. i \in 1 .. Len(Strings)
        BY TextTagsAre
      <4> QED BY <2>1, <2>3, <4>1 DEF TrackFits
    <3> QED BY <2>3, <3>1, <3>2, EncodedIsLegible
  <2>4. CASE f \notin DOMAIN t
    BY <2>2, <2>4 DEF Says, Unseen
  <2> QED BY <2>3, <2>4
<1>3. ASSUME NEW f \in DOMAIN NumberTags
      PROVE  /\ Has(r, NumberTags[f]) <=> f \in DOMAIN t
             /\ f \in DOMAIN t =>
                  The(r, NumberTags[f]) = IF f = "sizeBytes" /\ t[f] > U32Max THEN U32Max ELSE t[f]
  <2>1. PICK i \in 1 .. 7 : /\ Numbers[i].of = f /\ Numbers[i].tag = NumberTags[f]
                            /\ Numbers[i].width \in {2, 4}
                            /\ (f = "sizeBytes" => Numbers[i].width = 4)
    BY AmountNames
  <2> DEFINE w == Numbers[i].width
             v == IF f = "sizeBytes" /\ t[f] > U32Max THEN U32Max ELSE t[f]
  <2>2. Says(r, NumberTags[f], f \in DOMAIN t, Number(Digits(v, w)))
    BY <2>1 DEF TrackTold, AmountsTold, Amount, Clamped
  <2>3. CASE f \in DOMAIN t
    <3>1. i \in 1 .. Len(Numbers)
      BY AmountTagsAre
    <3>2. t[f] \in Nat
      BY <2>1, <2>3, <3>1 DEF IsTrack
    <3>3. f # "sizeBytes" => t[f] <= IF w = 2 THEN Byte * Byte - 1 ELSE U32Max
      BY <2>1, <2>3, <3>1 DEF TrackFits
    <3>4. U32Max \in Nat
      BY MaxIs
    <3>5. w \in {2, 4} /\ (f = "sizeBytes" => w = 4)
      BY <2>1
    <3> DEFINE m == U32Max
    <3>6. v = IF f = "sizeBytes" /\ t[f] > m THEN m ELSE t[f]
      OBVIOUS
    <3> HIDE DEF w, v, m
    <3>7. m \in Nat /\ (f # "sizeBytes" => t[f] <= IF w = 2 THEN Byte * Byte - 1 ELSE m)
      BY <3>3, <3>4 DEF m
    <3>8. v \in Nat /\ v <= IF w = 2 THEN Byte * Byte - 1 ELSE m
      <4>1. CASE f = "sizeBytes"
        BY <3>2, <3>5, <3>6, <3>7, <4>1
      <4>2. CASE f # "sizeBytes"
        BY <3>2, <3>6, <3>7, <4>2
      <4> QED BY <4>1, <4>2
    <3>9. Number(Digits(v, w)) = v
      BY <3>5, <3>8, FittingReadsBack DEF m
    <3>10. Has(r, NumberTags[f]) /\ The(r, NumberTags[f]) = v
      BY <2>2, <2>3, <3>9 DEF Says, Seen
    <3> QED BY <2>3, <3>10 DEF v
  <2>4. CASE f \notin DOMAIN t
    BY <2>2, <2>4 DEF Says, Unseen
  <2> QED BY <2>3, <2>4
<1> QED BY <1>1, <1>2, <1>3 DEF TrackReads

\* An entry of a playlist's ids.
LEMMA IdEntry ==
  ASSUME NEW id \in Nat, id <= U32Max, NEW p \in Nat, p <= U32Max
  PROVE  \E r : EntryGives(U8("mikd", 2) \o U32("miid", id) \o U32("mpco", p), r, id, p)
<1> DEFINE n == Number(Digits(2, 1))
           q == One("mikd", n) \o One("miid", id)
           r == q \o One("mpco", p)
<1>1. Typed("mikd", "Byte") /\ Typed("miid", "Int") /\ Typed("mpco", "Int")
  BY TypesAre DEF Bytes, Ints
<1>2. Part(U8("mikd", 2), One("mikd", n), 6)
  BY <1>1, PartNumber
<1> HIDE DEF n
<1>3. Part(U32("miid", id), One("miid", id), 9) /\ Part(U32("mpco", p), One("mpco", p), 9)
  BY <1>1, PartInt
<1>4. Part(U8("mikd", 2) \o U32("miid", id), q, 6 + 9)
  BY <1>2, <1>3, PartBoth
<1>5. Seen(q, "miid", id) /\ Unseen(q, "mpco")
  <2>1. Unseen(One("mikd", n), "miid") /\ Unseen(One("mikd", n), "mpco")
        /\ Seen(One("miid", id), "miid", id) /\ Unseen(One("miid", id), "mpco")
    BY SeenOne
  <2> QED BY <2>1, SeenSecond, UnseenBoth
<1> HIDE DEF q
<1>6. Part(U8("mikd", 2) \o U32("miid", id) \o U32("mpco", p), r, 6 + 9 + 9)
  BY <1>3, <1>4, PartBoth
<1>7. Seen(r, "miid", id) /\ Seen(r, "mpco", p)
  <2>1. IsSeq(One("mpco", p)) /\ Seen(One("mpco", p), "mpco", p)
    BY SeenOne
  <2> QED BY <1>5, <2>1, SeenFirst, SeenSecond
<1> HIDE DEF r
<1>8. 6 + 9 + 9 <= EntryMax /\ EntryMax \in Nat
  BY MaxIs DEF EntryMax
<1>9. Part(U8("mikd", 2) \o U32("miid", id) \o U32("mpco", p), r, EntryMax)
  BY <1>6, <1>8, PartLonger
<1>10. p # None
  BY ListingAssumption
<1>11. EntryGives(U8("mikd", 2) \o U32("miid", id) \o U32("mpco", p), r, id, p)
  BY <1>7, <1>9, <1>10 DEF EntryGives
<1> QED BY <1>11

\* A playlist, with the number of its items.
LEMMA PlaylistEntry ==
  ASSUME NEW id \in Nat, id <= U32Max, NEW name, IsText(name), NEW cs \in {Utf8, MacRoman},
         NEW n \in Nat, n <= U32Max
  PROVE  \E r : /\ EntryGives(Named(id, name, cs) \o U32("mimc", n), r, id, None)
                /\ Seen(r, "mimc", n) /\ Unseen(r, "abpl")
                /\ Seen(r, "minm", Encode(cs, name))
<1>1. PICK q : /\ Part(Named(id, name, cs), q, 27 + MaxText)
               /\ Seen(q, "miid", id) /\ Seen(q, "minm", Encode(cs, name))
               /\ \A tag : tag \notin {"miid", "mper", "minm"} => Unseen(q, tag)
  BY NamedPart
<1> DEFINE r == q \o One("mimc", n)
<1>2. Unseen(q, "mpco") /\ Unseen(q, "mimc") /\ Unseen(q, "abpl")
  BY <1>1
<1>3. Typed("mimc", "Int")
  BY TypesAre DEF Ints
<1>4. Part(U32("mimc", n), One("mimc", n), 9)
  BY <1>3, PartInt
<1>5. /\ IsSeq(One("mimc", n)) /\ Seen(One("mimc", n), "mimc", n)
      /\ Unseen(One("mimc", n), "mpco") /\ Unseen(One("mimc", n), "abpl")
  BY SeenOne
<1>5a. Seen(r, "minm", Encode(cs, name))
  BY <1>1, <1>5, SeenFirst
<1>6. Part(Named(id, name, cs) \o U32("mimc", n), r, 27 + MaxText + 9)
  BY <1>1, <1>4, PartBoth
<1>7. Seen(r, "miid", id) /\ Seen(r, "mimc", n) /\ Unseen(r, "mpco") /\ Unseen(r, "abpl")
  BY <1>1, <1>2, <1>5, SeenFirst, SeenSecond, UnseenBoth
<1> HIDE DEF r
<1>8. 27 + MaxText + 9 <= EntryMax /\ EntryMax \in Nat
  BY MaxIs DEF EntryMax
<1>9. Part(Named(id, name, cs) \o U32("mimc", n), r, EntryMax)
  BY <1>6, <1>8, PartLonger
<1>10. EntryGives(Named(id, name, cs) \o U32("mimc", n), r, id, None)
  BY <1>7, <1>9 DEF EntryGives
<1> QED BY <1>5a, <1>7, <1>10

\* The Library, which says that it is the one.
LEMMA LibraryEntry ==
  ASSUME NEW id \in Nat, id <= U32Max, NEW name, IsText(name), NEW cs \in {Utf8, MacRoman},
         NEW n \in Nat, n <= U32Max
  PROVE  \E r : /\ EntryGives(Named(id, name, cs) \o U32("mimc", n) \o U8("abpl", 1), r, id, None)
                /\ Seen(r, "mimc", n) /\ Has(r, "abpl")
                /\ Seen(r, "minm", Encode(cs, name))
<1>1. PICK q : /\ Part(Named(id, name, cs), q, 27 + MaxText)
               /\ Seen(q, "miid", id) /\ Seen(q, "minm", Encode(cs, name))
               /\ \A tag : tag \notin {"miid", "mper", "minm"} => Unseen(q, tag)
  BY NamedPart
<1> DEFINE d == Number(Digits(1, 1))
           p == q \o One("mimc", n)
           r == p \o One("abpl", d)
<1>2. Unseen(q, "mpco") /\ Unseen(q, "mimc") /\ Unseen(q, "abpl")
  BY <1>1
<1>3. Typed("mimc", "Int") /\ Typed("abpl", "Byte")
  BY TypesAre DEF Ints, Bytes
<1>4. Part(U32("mimc", n), One("mimc", n), 9) /\ Part(U8("abpl", 1), One("abpl", d), 6)
  BY <1>3, PartInt, PartNumber
<1> HIDE DEF d
<1>5. /\ IsSeq(One("mimc", n)) /\ Seen(One("mimc", n), "mimc", n)
      /\ Unseen(One("mimc", n), "mpco") /\ Unseen(One("mimc", n), "abpl")
      /\ IsSeq(One("abpl", d)) /\ Seen(One("abpl", d), "abpl", d) /\ Unseen(One("abpl", d), "mpco")
  BY SeenOne
<1>6. Part(Named(id, name, cs) \o U32("mimc", n), p, 27 + MaxText + 9)
  BY <1>1, <1>4, PartBoth
<1>7. Seen(p, "miid", id) /\ Seen(p, "mimc", n) /\ Unseen(p, "mpco") /\ Unseen(p, "abpl")
  BY <1>1, <1>2, <1>5, SeenFirst, SeenSecond, UnseenBoth
<1>7a. Seen(p, "minm", Encode(cs, name))
  BY <1>1, <1>5, SeenFirst
<1> HIDE DEF p
<1>8. Part(Named(id, name, cs) \o U32("mimc", n) \o U8("abpl", 1), r, 27 + MaxText + 9 + 6)
  BY <1>4, <1>6, PartBoth
<1>9. Seen(r, "miid", id) /\ Seen(r, "mimc", n) /\ Unseen(r, "mpco") /\ Seen(r, "abpl", d)
  BY <1>5, <1>7, SeenFirst, SeenSecond, UnseenBoth
<1>9a. Seen(r, "minm", Encode(cs, name))
  BY <1>5, <1>7a, SeenFirst
<1> HIDE DEF r
<1>10. 27 + MaxText + 9 + 6 <= EntryMax /\ EntryMax \in Nat
  BY MaxIs DEF EntryMax
<1>11. Part(Named(id, name, cs) \o U32("mimc", n) \o U8("abpl", 1), r, EntryMax)
  BY <1>8, <1>10, PartLonger
<1>12. EntryGives(Named(id, name, cs) \o U32("mimc", n) \o U8("abpl", 1), r, id, None)
  BY <1>9, <1>11 DEF EntryGives
<1>13. Has(r, "abpl")
  BY <1>9 DEF Seen
<1> QED BY <1>9, <1>9a, <1>12, <1>13

\* A database, with what it counts.
LEMMA DatabaseEntry ==
  ASSUME NEW id \in Nat, id <= U32Max, NEW name, IsText(name), NEW cs \in {Utf8, MacRoman},
         NEW m \in Nat, m <= U32Max, NEW n \in Nat, n <= U32Max
  PROVE  \E r : /\ Part(Named(id, name, cs) \o U32("mimc", m) \o U32("mctc", n), r, EntryMax)
                /\ Seen(r, "mimc", m) /\ Seen(r, "mctc", n)
                /\ Seen(r, "miid", id) /\ Seen(r, "minm", Encode(cs, name))
<1>1. PICK q : /\ Part(Named(id, name, cs), q, 27 + MaxText)
               /\ Seen(q, "miid", id) /\ Seen(q, "minm", Encode(cs, name))
               /\ \A tag : tag \notin {"miid", "mper", "minm"} => Unseen(q, tag)
  BY NamedPart
<1> DEFINE p == q \o One("mimc", m)
           r == p \o One("mctc", n)
<1>2. Unseen(q, "mimc") /\ Unseen(q, "mctc")
  BY <1>1
<1>3. Typed("mimc", "Int") /\ Typed("mctc", "Int")
  BY TypesAre DEF Ints
<1>4. Part(U32("mimc", m), One("mimc", m), 9) /\ Part(U32("mctc", n), One("mctc", n), 9)
  BY <1>3, PartInt
<1>5. /\ Seen(One("mimc", m), "mimc", m) /\ Unseen(One("mimc", m), "mctc")
      /\ IsSeq(One("mctc", n)) /\ Seen(One("mctc", n), "mctc", n)
  BY SeenOne
<1>5a. IsSeq(One("mimc", m))
  BY SeenOne
<1>6. Part(Named(id, name, cs) \o U32("mimc", m), p, 27 + MaxText + 9)
  BY <1>1, <1>4, PartBoth
<1>7. Seen(p, "mimc", m) /\ Unseen(p, "mctc")
  BY <1>2, <1>5, SeenSecond, UnseenBoth
<1>7a. Seen(p, "miid", id) /\ Seen(p, "minm", Encode(cs, name))
  BY <1>1, <1>5a, SeenFirst
<1> HIDE DEF p
<1>8. Part(Named(id, name, cs) \o U32("mimc", m) \o U32("mctc", n), r, 27 + MaxText + 9 + 9)
  BY <1>4, <1>6, PartBoth
<1>9. Seen(r, "mimc", m) /\ Seen(r, "mctc", n)
  BY <1>5, <1>7, SeenFirst, SeenSecond
<1>9a. Seen(r, "miid", id) /\ Seen(r, "minm", Encode(cs, name))
  BY <1>5, <1>7a, SeenFirst
<1> HIDE DEF r
<1>10. 27 + MaxText + 9 + 9 <= EntryMax /\ EntryMax \in Nat
  BY MaxIs DEF EntryMax
<1>11. Part(Named(id, name, cs) \o U32("mimc", m) \o U32("mctc", n), r, EntryMax)
  BY <1>8, <1>10, PartLonger
<1> QED BY <1>9, <1>9a, <1>11

\* The entries of a listing as the client reads them.
EntryFields(n, r) == [i \in 1 .. n |-> [tag |-> "mlit", value |-> r[i]]]

\* What a listing of entries reads as.
ListingGives(fields, kind, total, n, r) ==
  /\ fields = One(kind, fields[1].value)
  /\ Seen(fields[1].value, "mstt", 200)
  /\ Seen(fields[1].value, "mtco", total) /\ Seen(fields[1].value, "mrco", n)
  /\ Seen(fields[1].value, "mlcl", EntryFields(n, r))

\* Entries one after the other.
LEMMA EntriesPart ==
  ASSUME NEW es, NEW n \in Nat, Len(es) = n, NEW r, \A i \in 1 .. n : Part(es[i], r[i], EntryMax)
  PROVE  Part(FlattenSeq([i \in 1 .. Len(es) |-> Container("mlit", es[i])]),
              EntryFields(n, r), n * (5 + EntryMax))
<1> DEFINE s == [i \in 1 .. n |-> Container("mlit", es[i])]
           q == [i \in 1 .. n |-> One("mlit", r[i])]
           rec == [i \in 1 .. n |-> [tag |-> "mlit", value |-> r[i]]]
<1>1. Typed("mlit", "List")
  BY TypesAre DEF Containers
<1>2. EntryMax \in Nat /\ EntryMax <= U32Max /\ 5 + EntryMax \in Nat
  BY MaxIs DEF EntryMax
<1>3. \A i \in 1 .. n : Part(Container("mlit", es[i]), One("mlit", r[i]), 5 + EntryMax)
  BY <1>1, <1>2, PartContainer
<1>4. \A i \in 1 .. n : s[i] = Container("mlit", es[i]) /\ q[i] = <<rec[i]>>
      /\ q[i] = One("mlit", r[i])
  BY DEF One
<1>5. IsSeq(s) /\ Len(s) = n
  <2>1. s \in [1 .. n -> {Container("mlit", es[i]) : i \in 1 .. n}]
    OBVIOUS
  <2> HIDE DEF s
  <2> QED BY <2>1, FunctionIsSeq
<1>6. s = [i \in 1 .. n |-> s[i]] /\ q = [i \in 1 .. n |-> q[i]] /\ rec = [i \in 1 .. n |-> rec[i]]
  OBVIOUS
<1>7. rec = EntryFields(n, r)
  BY DEF EntryFields
<1>8. FlattenSeq([i \in 1 .. Len(es) |-> Container("mlit", es[i])]) = FlattenSeq(s)
  OBVIOUS
<1> HIDE DEF s, q, rec
<1>9. \A i \in 1 .. n : Part(s[i], q[i], 5 + EntryMax)
  BY <1>3, <1>4
<1>10. Part(FlattenSeq([i \in 1 .. n |-> s[i]]), FlattenSeq([i \in 1 .. n |-> q[i]]), n * (5 + EntryMax))
  BY <1>2, <1>9, PartFlatten
<1>11. Part(FlattenSeq(s), FlattenSeq(q), n * (5 + EntryMax))
  BY <1>6, <1>10
<1>12. ReadsAs(Words, FlattenSeq(s), rec)
  <2>1. \A i \in 1 .. Len(s) : ReadsAs(Words, s[i], <<rec[i]>>)
    BY <1>4, <1>5, <1>9 DEF Part
  <2> HIDE DEF Words
  <2>2. ReadsAs(Words, FlattenSeq(s), [i \in 1 .. Len(s) |-> rec[i]])
    BY <1>5, <2>1, ManyRead
  <2> QED BY <1>5, <1>6, <2>2
<1>13. ~Has(rec, "malformed")
  <2>1. Len(rec) = n
    BY <1>5, <1>6
  <2>2. \A i \in 1 .. n : rec[i].tag = "mlit"
    BY DEF rec
  <2> QED BY <2>1, <2>2 DEF Has
<1>14. Part(FlattenSeq(s), rec, n * (5 + EntryMax))
  BY <1>11, <1>12, <1>13 DEF Part
<1> QED BY <1>7, <1>8, <1>14

\* The frame of a listing.
LEMMA FramePart ==
  ASSUME NEW total \in Nat, total <= U32Max, NEW n \in Nat, n <= Longest,
         NEW m, NEW f, Part(m, f, n * (5 + EntryMax))
  PROVE  \E b : /\ Part(U32("mstt", 200) \o U8("muty", 0) \o U32("mtco", total) \o U32("mrco", n)
                          \o Container("mlcl", m), b, 38 + n * (5 + EntryMax))
                /\ Seen(b, "mtco", total) /\ Seen(b, "mlcl", f)
                /\ Seen(b, "mstt", 200) /\ Seen(b, "mrco", n)
                /\ 38 + n * (5 + EntryMax) <= U32Max
<1> DEFINE u == Number(Digits(0, 1))
           r1 == One("mstt", 200) \o One("muty", u)
           r2 == r1 \o One("mtco", total)
           r3 == r2 \o One("mrco", n)
           r4 == r3 \o One("mlcl", f)
           k == n * (5 + EntryMax)
<1>1. /\ Typed("mstt", "Int") /\ Typed("muty", "Byte") /\ Typed("mtco", "Int") /\ Typed("mrco", "Int")
      /\ Typed("mlcl", "List")
  BY TypesAre DEF Ints, Bytes, Containers
<1>2. /\ k \in Nat /\ 38 + k \in Nat /\ 38 + k <= U32Max /\ k <= U32Max
      /\ n <= U32Max /\ 200 <= U32Max
  <2>1. /\ U32Max \in Nat /\ U32Max >= 65535
        /\ Longest \in Nat /\ Longest * (6 * MaxText + 150) + 64 <= U32Max /\ Longest <= U32Max
        /\ 6 * MaxText + 150 \in Nat
    BY MaxIs
  <2>2. 5 + EntryMax = 6 * MaxText + 150
    BY MaxIs DEF EntryMax
  <2>3. \A w \in Nat : n * w <= Longest * w /\ n * w \in Nat /\ Longest * w \in Nat
    BY <2>1
  <2>4. n * (6 * MaxText + 150) <= Longest * (6 * MaxText + 150) /\ n * (6 * MaxText + 150) \in Nat
        /\ Longest * (6 * MaxText + 150) \in Nat
    BY <2>1, <2>3
  <2> HIDE DEF U32Max
  <2> QED BY <2>1, <2>2, <2>4
<1> HIDE DEF k
<1>3. Part(U32("mstt", 200), One("mstt", 200), 9)
  BY <1>1, <1>2, PartInt
<1>4. Part(U8("muty", 0), One("muty", u), 6)
  BY <1>1, PartNumber
<1> HIDE DEF u
<1>5. Part(U32("mtco", total), One("mtco", total), 9) /\ Part(U32("mrco", n), One("mrco", n), 9)
  BY <1>1, <1>2, PartInt
<1>6. Part(Container("mlcl", m), One("mlcl", f), 5 + k)
  <2>1. Part(m, f, k)
    BY DEF k
  <2> QED BY <1>1, <1>2, <2>1, PartContainer
<1>7. Part(U32("mstt", 200) \o U8("muty", 0), r1, 9 + 6)
  BY <1>3, <1>4, PartBoth
<1>8. Unseen(r1, "mtco") /\ Unseen(r1, "mlcl") /\ Unseen(r1, "mrco")
  <2>1. /\ Unseen(One("mstt", 200), "mtco") /\ Unseen(One("mstt", 200), "mlcl")
        /\ Unseen(One("muty", u), "mtco") /\ Unseen(One("muty", u), "mlcl")
        /\ Unseen(One("mstt", 200), "mrco") /\ Unseen(One("muty", u), "mrco")
    BY SeenOne
  <2> QED BY <2>1, UnseenBoth
<1>8a. Seen(r1, "mstt", 200)
  <2>1. Seen(One("mstt", 200), "mstt", 200) /\ IsSeq(One("muty", u))
    BY SeenOne
  <2> QED BY <2>1, SeenFirst
<1> HIDE DEF r1
<1>9. Part(U32("mstt", 200) \o U8("muty", 0) \o U32("mtco", total), r2, 9 + 6 + 9)
  BY <1>5, <1>7, PartBoth
<1>10. Seen(r2, "mtco", total) /\ Unseen(r2, "mlcl")
  <2>1. Seen(One("mtco", total), "mtco", total) /\ Unseen(One("mtco", total), "mlcl")
    BY SeenOne
  <2> QED BY <1>8, <2>1, SeenSecond, UnseenBoth
<1>10a. Seen(r2, "mstt", 200) /\ Unseen(r2, "mrco")
  <2>1. IsSeq(One("mtco", total)) /\ Unseen(One("mtco", total), "mrco")
    BY SeenOne
  <2> QED BY <1>8, <1>8a, <2>1, SeenFirst, UnseenBoth
<1> HIDE DEF r2
<1>11. Part(U32("mstt", 200) \o U8("muty", 0) \o U32("mtco", total) \o U32("mrco", n), r3, 9 + 6 + 9 + 9)
  BY <1>5, <1>9, PartBoth
<1>12. Seen(r3, "mtco", total) /\ Unseen(r3, "mlcl")
  <2>1. IsSeq(One("mrco", n)) /\ Unseen(One("mrco", n), "mlcl")
    BY SeenOne
  <2> QED BY <1>10, <2>1, SeenFirst, UnseenBoth
<1>12a. Seen(r3, "mstt", 200) /\ Seen(r3, "mrco", n)
  <2>1. IsSeq(One("mrco", n)) /\ Seen(One("mrco", n), "mrco", n)
    BY SeenOne
  <2> QED BY <1>10a, <2>1, SeenFirst, SeenSecond
<1> HIDE DEF r3
<1>13. Part(U32("mstt", 200) \o U8("muty", 0) \o U32("mtco", total) \o U32("mrco", n)
              \o Container("mlcl", m), r4, 9 + 6 + 9 + 9 + (5 + k))
  BY <1>6, <1>11, PartBoth
<1>14. Seen(r4, "mtco", total) /\ Seen(r4, "mlcl", f)
  <2>1. IsSeq(One("mlcl", f)) /\ Seen(One("mlcl", f), "mlcl", f)
    BY SeenOne
  <2> QED BY <1>12, <2>1, SeenFirst, SeenSecond
<1>14a. Seen(r4, "mstt", 200) /\ Seen(r4, "mrco", n)
  <2>1. IsSeq(One("mlcl", f))
    BY SeenOne
  <2> QED BY <1>12a, <2>1, SeenFirst
<1> HIDE DEF r4
<1>15. 9 + 6 + 9 + 9 + (5 + k) = 38 + k
  BY <1>2
<1>16. Part(U32("mstt", 200) \o U8("muty", 0) \o U32("mtco", total) \o U32("mrco", n)
              \o Container("mlcl", m), r4, 38 + k)
  BY <1>13, <1>15
<1> QED BY <1>2, <1>14, <1>14a, <1>16 DEF k

\* A listing is read as the entries it was made of.
LEMMA ListingReads ==
  ASSUME NEW kind, Typed(kind, "List"), kind # "malformed", NEW total \in Nat, total <= U32Max,
         NEW es, NEW n \in Nat, n <= Longest, Len(es) = n,
         NEW r, \A i \in 1 .. n : Part(es[i], r[i], EntryMax)
  PROVE  ListingGives(Read(Words, ListingBody(kind, total, es)), kind, total, n, r)
<1> DEFINE m == FlattenSeq([i \in 1 .. Len(es) |-> Container("mlit", es[i])])
           s == U32("mstt", 200) \o U8("muty", 0) \o U32("mtco", total) \o U32("mrco", n)
                  \o Container("mlcl", m)
           k == 38 + n * (5 + EntryMax)
           f == EntryFields(n, r)
<1>1. Part(m, f, n * (5 + EntryMax))
  BY EntriesPart
<1>2. ListingBody(kind, total, es) = Container(kind, s)
  BY DEF ListingBody, dmap, list
<1> HIDE DEF m, f
<1>3. PICK b : /\ Part(s, b, k) /\ Seen(b, "mtco", total) /\ Seen(b, "mlcl", f) /\ k <= U32Max
               /\ Seen(b, "mstt", 200) /\ Seen(b, "mrco", n)
  BY <1>1, FramePart
<1> HIDE DEF s, k
<1>4. Part(Container(kind, s), One(kind, b), 5 + k)
  BY <1>3, PartContainer
<1>5. ReadsAs(Words, Container(kind, s), One(kind, b))
  BY <1>4 DEF Part
<1>6. Read(Words, Container(kind, s)) = One(kind, b)
  BY <1>5, ReadOf
<1>7. One(kind, b)[1].value = b
  BY DEF One
<1> DEFINE x == Read(Words, ListingBody(kind, total, es))
<1>8. x = One(kind, b)
  BY <1>2, <1>6
<1> HIDE DEF x
<1>9. x[1].value = b
  BY <1>7, <1>8
<1>10. ListingGives(x, kind, total, n, r)
  BY <1>3, <1>8, <1>9 DEF ListingGives, f
<1> QED BY <1>10 DEF x

(***************************************************************************)
(* The order of the playlists                                              *)
(***************************************************************************)
KeyOf(i) == PlaylistSortKey(Lists[i].name)

\* The parts of a key are numbers,
LEMMA KeyType ==
  ASSUME NEW i \in 1 .. Len(Lists)
  PROVE  KeyOf(i)[1] \in Nat /\ KeyOf(i)[2] \in Nat /\ KeyOf(i)[3] \in Nat
<1> DEFINE name == Lists[i].name
<1>1. name.text \in Nat /\ (name.dated # <<>> => \A n \in 1 .. 3 : name.dated[n] \in Nat)
  BY NameAssumption
<1> HIDE DEF name
<1>2. KeyOf(i) = PlaylistSortKey(name)
  BY DEF KeyOf, name
<1>3. CASE name.dated # <<>> /\ name.dated[1] # 0 /\ name.dated[3] # 0
  <2>1. PlaylistSortKey(name) = name.dated
    BY <1>3 DEF PlaylistSortKey
  <2> QED BY <1>1, <1>2, <1>3, <2>1
<1>4. CASE ~ (name.dated # <<>> /\ name.dated[1] # 0 /\ name.dated[3] # 0)
  <2>1. PlaylistSortKey(name) = <<name.text, YearMax, name.text>>
    BY <1>4 DEF PlaylistSortKey
  <2> QED BY <1>1, <1>2, <2>1 DEF YearMax
<1> QED BY <1>3, <1>4

\* and a key is before another by the first that differs.
LEMMA KeyBeforeIs ==
  ASSUME NEW x, NEW y
  PROVE  KeyBefore(x, y) <=>
           \/ x[1] < y[1]
           \/ x[1] = y[1] /\ x[2] < y[2]
           \/ x[1] = y[1] /\ x[2] = y[2] /\ x[3] < y[3]
<1>1. KeyBefore(x, y) <=> \E n \in {1, 2, 3} : x[n] < y[n] /\ \A m \in 1 .. n - 1 : x[m] = y[m]
  BY DEF KeyBefore
<1>2. /\ \A m \in 1 .. 1 - 1 : x[m] = y[m]
      /\ (\A m \in 1 .. 2 - 1 : x[m] = y[m]) <=> x[1] = y[1]
      /\ (\A m \in 1 .. 3 - 1 : x[m] = y[m]) <=> x[1] = y[1] /\ x[2] = y[2]
  OBVIOUS
<1> QED BY <1>1, <1>2

\* The order of three numbers, the first deciding first.
LexBefore(p, q, r, t, u, v) == p < t \/ (p = t /\ q < u) \/ (p = t /\ q = u /\ r < v)

\* The order of the places of the playlists.
Sooner(i, j) ==
  KeyBefore(KeyOf(i), KeyOf(j)) \/ (~KeyBefore(KeyOf(j), KeyOf(i)) /\ i < j)

SoonerOf == {p \in (1 .. Len(Lists)) \X (1 .. Len(Lists)) : Sooner(p[1], p[2])}

\* It puts any two playlists in an order.
LEMMA SoonerTotal == StrictTotal(SoonerOf, Len(Lists))
<1> DEFINE N == 1 .. Len(Lists)
<1>0. Len(Lists) \in Nat
  BY ListingAssumption
<1>1. \A i, j \in N : <<i, j>> \in SoonerOf <=> Sooner(i, j)
  BY DEF SoonerOf
<1>2. ASSUME NEW i \in N PROVE ~Sooner(i, i)
  <2>1. KeyOf(i)[1] \in Nat /\ KeyOf(i)[2] \in Nat /\ KeyOf(i)[3] \in Nat
    BY KeyType
  <2>2. ~KeyBefore(KeyOf(i), KeyOf(i))
    BY <2>1, KeyBeforeIs
  <2> QED BY <1>0, <2>2 DEF Sooner
<1>3. ASSUME NEW i \in N, NEW j \in N, i # j PROVE Sooner(i, j) \/ Sooner(j, i)
  <2>1. i < j \/ j < i
    BY <1>0, <1>3
  <2> QED BY <2>1 DEF Sooner
<1>4. ASSUME NEW i \in N, NEW j \in N, NEW k \in N, Sooner(i, j), Sooner(j, k) PROVE Sooner(i, k)
  <2> DEFINE a == KeyOf(i)
             b == KeyOf(j)
             c == KeyOf(k)
  <2>1. /\ a[1] \in Nat /\ a[2] \in Nat /\ a[3] \in Nat
        /\ b[1] \in Nat /\ b[2] \in Nat /\ b[3] \in Nat
        /\ c[1] \in Nat /\ c[2] \in Nat /\ c[3] \in Nat
    BY KeyType
  <2>2. /\ KeyBefore(a, b) \/ (~KeyBefore(b, a) /\ i < j)
        /\ KeyBefore(b, c) \/ (~KeyBefore(c, b) /\ j < k)
    BY <1>4 DEF Sooner
  <2> HIDE DEF a, b, c
  <2>3. KeyBefore(a, c) \/ (~KeyBefore(c, a) /\ i < k)
    <3>1. i < j /\ j < k => i < k
      BY <1>0
    <3>2. \A x, y : KeyBefore(x, y) <=> LexBefore(x[1], x[2], x[3], y[1], y[2], y[3])
      BY KeyBeforeIs DEF LexBefore
    <3>3. /\ KeyBefore(a, b) /\ KeyBefore(b, c) => KeyBefore(a, c)
          /\ KeyBefore(a, b) /\ ~KeyBefore(c, b) => KeyBefore(a, c)
          /\ ~KeyBefore(b, a) /\ KeyBefore(b, c) => KeyBefore(a, c)
          /\ ~KeyBefore(b, a) /\ ~KeyBefore(c, b) => ~KeyBefore(c, a)
      <4> DEFINE ab == LexBefore(a[1], a[2], a[3], b[1], b[2], b[3])
                 ba == LexBefore(b[1], b[2], b[3], a[1], a[2], a[3])
                 bc == LexBefore(b[1], b[2], b[3], c[1], c[2], c[3])
                 cb == LexBefore(c[1], c[2], c[3], b[1], b[2], b[3])
                 ac == LexBefore(a[1], a[2], a[3], c[1], c[2], c[3])
                 ca == LexBefore(c[1], c[2], c[3], a[1], a[2], a[3])
      <4>1. (ab /\ bc => ac) /\ (ab /\ ~cb => ac) /\ (~ba /\ bc => ac) /\ (~ba /\ ~cb => ~ca)
        <5> DEFINE p == a[1]
                   q == a[2]
                   r == a[3]
                   t == b[1]
                   u == b[2]
                   v == b[3]
                   w == c[1]
                   x == c[2]
                   y == c[3]
        <5>1. p \in Nat /\ q \in Nat /\ r \in Nat /\ t \in Nat /\ u \in Nat /\ v \in Nat
              /\ w \in Nat /\ x \in Nat /\ y \in Nat
          BY <2>1
        <5> HIDE DEF p, q, r, t, u, v, w, x, y
        <5>2. /\ LexBefore(p, q, r, t, u, v) /\ LexBefore(t, u, v, w, x, y) => LexBefore(p, q, r, w, x, y)
              /\ LexBefore(p, q, r, t, u, v) /\ ~LexBefore(w, x, y, t, u, v) => LexBefore(p, q, r, w, x, y)
              /\ ~LexBefore(t, u, v, p, q, r) /\ LexBefore(t, u, v, w, x, y) => LexBefore(p, q, r, w, x, y)
              /\ ~LexBefore(t, u, v, p, q, r) /\ ~LexBefore(w, x, y, t, u, v) => ~LexBefore(w, x, y, p, q, r)
          BY <5>1 DEF LexBefore
        <5> QED BY <5>2 DEF p, q, r, t, u, v, w, x, y
      <4>2. /\ KeyBefore(a, b) <=> ab
            /\ KeyBefore(b, a) <=> ba
            /\ KeyBefore(b, c) <=> bc
            /\ KeyBefore(c, b) <=> cb
            /\ KeyBefore(a, c) <=> ac
            /\ KeyBefore(c, a) <=> ca
        BY <3>2
      <4> HIDE DEF ab, ba, bc, cb, ac, ca
      <4> QED BY <4>1, <4>2
    <3> QED BY <2>2, <3>1, <3>3
  <2> QED BY <2>3 DEF Sooner, a, b, c
<1> HIDE DEF N
<1>5. /\ \A i \in N : <<i, i>> \notin SoonerOf
      /\ \A i, j, k \in N : <<i, j>> \in SoonerOf /\ <<j, k>> \in SoonerOf => <<i, k>> \in SoonerOf
      /\ \A i, j \in N : i # j => <<i, j>> \in SoonerOf \/ <<j, i>> \in SoonerOf
  BY <1>1, <1>2, <1>3, <1>4
<1> QED BY <1>5 DEF StrictTotal, N

\* Sorting leaves the playlists that there are, in whatever order.
LEMMA PlaylistOrderIs ==
  ASSUME NEW r \in 1 .. Len(Lists)
  PROVE  \E i \in 1 .. Len(Lists) : PlaylistOrder(Lists)[r] = Lists[i]
<1> DEFINE N == 1 .. Len(Lists)
           R(i) == {j \in N : \/ KeyBefore(KeyOf(j), KeyOf(i))
                              \/ ~KeyBefore(KeyOf(i), KeyOf(j)) /\ j <= i}
           rank(i) == Cardinality(R(i))
           pick(k) == CHOOSE i \in N : rank(i) = k
<1>0. Len(Lists) \in Nat
  BY ListingAssumption
<1>1. PlaylistOrder(Lists) = [k \in N |-> Lists[pick(k)]]
  BY DEF PlaylistOrder, StableSort, KeyOf
<1>2. ASSUME NEW i \in N PROVE rank(i) = Ranked(SoonerOf, Len(Lists), i)
  <2> DEFINE A == {j \in N : <<j, i>> \in SoonerOf}
  <2>1. ~KeyBefore(KeyOf(i), KeyOf(i))
    <3>1. KeyOf(i)[1] \in Nat /\ KeyOf(i)[2] \in Nat /\ KeyOf(i)[3] \in Nat
      BY KeyType
    <3> QED BY <3>1, KeyBeforeIs
  <2>2. \A j \in N : j \in A <=> Sooner(j, i)
    BY DEF SoonerOf
  <2>3. \A j \in N : j \in R(i) <=> j \in A \cup {i}
    <3> TAKE j \in N
    <3>1. CASE j = i
      BY <1>0, <2>1, <3>1
    <3>2. CASE j # i
      <4>1. j <= i <=> j < i
        BY <1>0, <3>2
      <4> QED BY <2>2, <3>2, <4>1 DEF Sooner
    <3> QED BY <3>1, <3>2
  <2>4. i \notin A
    BY <1>0, <2>1, <2>2 DEF Sooner
  <2>5. IsFiniteSet(N)
    BY <1>0, FS_Interval
  <2>6. IsFiniteSet(A)
    BY <2>5, FS_Subset
  <2>7. R(i) = A \cup {i}
    <3>1. R(i) \subseteq N /\ A \cup {i} \subseteq N
      OBVIOUS
    <3> HIDE DEF R, A, N
    <3> QED BY <2>3, <3>1
  <2> HIDE DEF R, A
  <2>8. Cardinality(R(i)) = Cardinality(A) + 1
    BY <2>4, <2>6, <2>7, FS_AddElement
  <2> QED BY <2>8 DEF Ranked, A
<1>3. \E i \in N : Ranked(SoonerOf, Len(Lists), i) = r
  BY <1>0, SoonerTotal, RankedOnto
<1> HIDE DEF rank
<1>4. \E i \in N : rank(i) = r
  BY <1>2, <1>3
<1>5. pick(r) \in N
  BY <1>4
<1> HIDE DEF pick
<1> QED BY <1>1, <1>5

(***************************************************************************)
(* What goes over the wire comes back                                      *)
(***************************************************************************)
\* An answer that the wire takes: as many entries as a listing may have, with
\* the ids that the endpoint looks up.
Sent(a) ==
  /\ a = Answer(a.entries, a.total)
  /\ Len(a.entries) \in 0 .. Longest
  /\ a.entries = [i \in 1 .. Len(a.entries) |->
                    [id |-> a.entries[i].id, mpco |-> a.entries[i].mpco]]
  /\ a.total \in 0 .. Longest
  /\ req.endpoint = "items" =>
       \A i \in 1 .. Len(a.entries) : a.entries[i].id \in Known /\ a.entries[i].mpco = None
  /\ req.endpoint = "containers" =>
       \A i \in 1 .. Len(a.entries) :
         /\ a.entries[i].mpco = None
         /\ (a.entries[i].id = LibraryId /\ i = 1) \/ IsList(a.entries[i].id)
  /\ req.endpoint = "container" =>
       \A i \in 1 .. Len(a.entries) :
         /\ a.entries[i].id \in 0 .. U32Max /\ a.entries[i].mpco \in 0 .. Longest
         /\ Full => a.entries[i].id \in Known

\* The entries of an answer, as the client has them.
Entered(r, a) ==
  \A i \in 1 .. Len(a.entries) :
    /\ Seen(r[i], "miid", a.entries[i].id)
    /\ IF a.entries[i].mpco = None THEN Unseen(r[i], "mpco")
       ELSE Seen(r[i], "mpco", a.entries[i].mpco)

\* The entries of a listing, as they were read.
EntryValues(n, r) == [i \in 1 .. n |-> r[i]]

\* The entries of a listing.
LEMMA EntriesAll ==
  ASSUME NEW n \in Nat, NEW r
  PROVE  All(EntryFields(n, r), "mlit") = EntryValues(n, r)
<1> DEFINE tag == "mlit"
<1>1. EntryFields(n, r) = [i \in 1 .. n |-> [tag |-> tag, value |-> r[i]]]
  BY DEF EntryFields
<1> HIDE DEF tag
<1>2. All([i \in 1 .. n |-> [tag |-> tag, value |-> r[i]]], tag) = [i \in 1 .. n |-> r[i]]
  BY AllOf
<1>3. All(EntryFields(n, r), tag) = EntryValues(n, r)
  BY <1>1, <1>2 DEF EntryValues
<1> QED BY <1>3 DEF tag

\* The bytes of a listing are well formed, and what is listed are its entries.
LEMMA ListingIs ==
  ASSUME NEW fields, NEW kind, kind # "malformed", NEW total, NEW n \in Nat, NEW r,
         ListingGives(fields, kind, total, n, r)
  PROVE  /\ WellFormed(fields) /\ The(fields[1].value, "mstt") = 200
         /\ \A tag : Has(fields, tag) <=> tag = kind
         /\ \A e \in ListedIn(fields, kind) : \E i \in 1 .. n : e = r[i]
<1> DEFINE b == fields[1].value
           ff == EntryFields(n, r)
           es == EntryValues(n, r)
<1>1. /\ fields = One(kind, b) /\ The(b, "mstt") = 200
      /\ The(b, "mrco") = n /\ The(b, "mlcl") = ff
  BY DEF ListingGives, Seen
<1>2. All(ff, "mlit") = es
  BY EntriesAll
<1>3. Len(es) = n /\ DOMAIN es = 1 .. n /\ \A i \in 1 .. n : es[i] = r[i]
  BY DEF EntryValues
<1>4. WellFormed(fields) <=>
        /\ Len(fields) = 1 /\ ~Has(fields, "malformed")
        /\ Has(b, "mrco") => The(b, "mrco") = Len(All(The(b, "mlcl"), "mlit"))
  BY DEF WellFormed, dmap, list
<1>5. ListedIn(fields, kind) = ToSet(All(The(The(fields, kind), "mlcl"), "mlit"))
  BY DEF ListedIn
<1> HIDE DEF b, ff, es
<1>6. Len(fields) = 1
  BY <1>1 DEF One
<1>7. \A tag : Has(fields, tag) <=> tag = kind
  BY <1>1, HasOne
<1>8. WellFormed(fields)
  BY <1>1, <1>2, <1>3, <1>4, <1>6, <1>7
<1>9. The(fields, kind) = b
  BY <1>1, TheOne
<1>10. ListedIn(fields, kind) = ToSet(es)
  BY <1>1, <1>2, <1>5, <1>9
<1>11. \A e \in ToSet(es) : \E i \in 1 .. n : e = r[i]
  BY <1>3 DEF ToSet
<1> QED BY <1>1, <1>7, <1>8, <1>10, <1>11 DEF b

\* A client makes of a listing the answer that the server gave.
LEMMA AsReadIs ==
  ASSUME NEW reading, NEW kind, NEW a, NEW r, Sent(a),
         ListingGives(reading.fields, kind, a.total, Len(a.entries), r), Entered(r, a)
  PROVE  AsRead(reading) = a
<1> DEFINE n == Len(a.entries)
           b == reading.fields[1].value
           ff == EntryFields(n, r)
           es == EntryValues(n, r)
<1>1. /\ n \in Nat
      /\ a = Answer(a.entries, a.total)
      /\ a.entries = [i \in 1 .. n |-> [id |-> a.entries[i].id, mpco |-> a.entries[i].mpco]]
  BY MaxIs DEF Sent
<1>2. The(b, "mtco") = a.total /\ The(b, "mlcl") = ff
  BY DEF ListingGives, Seen
<1>3. \A i \in 1 .. n : The(r[i], "miid") = a.entries[i].id
                        /\ (IF Has(r[i], "mpco") THEN The(r[i], "mpco") ELSE None) = a.entries[i].mpco
  <2> TAKE i \in 1 .. n
  <2>1. /\ Seen(r[i], "miid", a.entries[i].id)
        /\ IF a.entries[i].mpco = None THEN Unseen(r[i], "mpco")
           ELSE Seen(r[i], "mpco", a.entries[i].mpco)
    BY DEF Entered
  <2>2. CASE a.entries[i].mpco = None
    BY <2>1, <2>2 DEF Seen, Unseen
  <2>3. CASE a.entries[i].mpco # None
    BY <2>1, <2>3 DEF Seen, Unseen
  <2> QED BY <2>2, <2>3
<1>4. All(ff, "mlit") = es
  <2> HIDE DEF n
  <2> QED BY <1>1, EntriesAll
<1>5. AsRead(reading) =
        LET entries == All(The(b, "mlcl"), "mlit")
        IN  Answer([i \in 1 .. Len(entries) |->
                      [id |-> The(entries[i], "miid"),
                       mpco |-> IF Has(entries[i], "mpco") THEN The(entries[i], "mpco") ELSE None]],
                   The(b, "mtco"))
  BY DEF AsRead, Body, dmap, list
<1> HIDE DEF b, ff, n
<1>6. Len(es) = n /\ \A i \in 1 .. n : es[i] = r[i]
  BY <1>1 DEF EntryValues
<1> HIDE DEF es
<1>7. AsRead(reading) =
        Answer([i \in 1 .. n |->
                  [id |-> The(es[i], "miid"),
                   mpco |-> IF Has(es[i], "mpco") THEN The(es[i], "mpco") ELSE None]], a.total)
  BY <1>2, <1>4, <1>5, <1>6
<1>8. [i \in 1 .. n |->
                  [id |-> The(es[i], "miid"),
                   mpco |-> IF Has(es[i], "mpco") THEN The(es[i], "mpco") ELSE None]]
      = [i \in 1 .. n |-> [id |-> a.entries[i].id, mpco |-> a.entries[i].mpco]]
  BY <1>3, <1>6
<1> QED BY <1>1, <1>7, <1>8

\* A page is not longer than the listing, and ends where that does.
LEMMA CutBounds ==
  ASSUME NEW T, NEW s \in Seq(T), NEW a \in Nat, NEW b \in Nat
  PROVE  /\ Cut(s, a, b) \in Seq(T)
         /\ Len(Cut(s, a, b)) <= Len(s)
         /\ Cut(s, a, b) # <<>> => a + Len(Cut(s, a, b)) <= Len(s)
         /\ \A i \in 1 .. Len(Cut(s, a, b)) : a + i \in 1 .. Len(s) /\ Cut(s, a, b)[i] = s[a + i]
<1>1. Len(s) \in Nat
  OBVIOUS
<1> DEFINE e == IF b < Len(s) THEN b ELSE Len(s)
<1>2. e \in Nat /\ e <= Len(s)
  BY <1>1
<1> HIDE DEF e
<1>3. \A i \in a + 1 .. e : s[i] \in T
  BY <1>1, <1>2
<1> DEFINE c == SubSeq(s, a + 1, e)
<1>4. /\ c \in Seq(T) /\ Len(c) = IF a + 1 <= e THEN e - (a + 1) + 1 ELSE 0
      /\ \A i \in 1 .. e - (a + 1) + 1 : c[i] = s[a + 1 + i - 1]
  BY <1>2, <1>3, SubSeqProperties
<1> HIDE DEF c
<1>5. Len(c) \in Nat /\ Len(c) <= Len(s) /\ (Len(c) # 0 => a + Len(c) <= Len(s))
  BY <1>1, <1>2, <1>4
<1>6. c # <<>> => Len(c) # 0
  BY <1>4
<1>7. ASSUME NEW i \in 1 .. Len(c)
      PROVE  a + i \in 1 .. Len(s) /\ c[i] = s[a + i]
  <2>1. i \in 1 .. e - (a + 1) + 1 /\ a + 1 + i - 1 = a + i /\ a + i \in 1 .. Len(s)
    BY <1>1, <1>2, <1>4
  <2> QED BY <1>4, <2>1
<1> QED BY <1>4, <1>5, <1>6, <1>7 DEF Cut, e, c

\* What the server knows of a track.
LEMMA KnownIs ==
  ASSUME NEW id \in Known
  PROVE  id \in 0 .. U32Max /\ IsTrack(Meta[id]) /\ Meta[id].id = id /\ TrackFits(Meta[id])
<1>1. PICK t \in Tracks : id = t.id
  BY DEF Known
<1>2. IsTrack(Meta[t.id]) /\ Meta[t.id].id = t.id
  BY WireAssumption
<1>3. Meta[t.id].id \in 0 .. U32Max
  BY <1>2 DEF IsTrack
<1>4. TrackFits(Meta[t.id])
  BY TextAssumption
<1> QED BY <1>1, <1>2, <1>3, <1>4

\* No listing has more entries than the wire counts.
LEMMA WholeFits ==
  ASSUME req \in Requests
  PROVE  Whole \in 0 .. Longest
<1>1. Whole \in Nat
  BY WholeType
<1>2. /\ Longest \in Nat /\ Cardinality(Tracks) <= Longest /\ Len(Lists) < Longest
      /\ \A i \in 1 .. Len(Lists) : Len(Lists[i].trackIds) <= Longest
  BY WireAssumption
<1>3. IsFiniteSet(Tracks) /\ Len(Lists) \in Nat
  BY ListingAssumption
<1>4. Cardinality(Tracks) \in Nat
  BY <1>3, FS_CardinalityType
<1>5. Cardinality(Wanted) <= Cardinality(Tracks)
  <2>1. Wanted \subseteq Tracks
    BY DEF Wanted
  <2> QED BY <1>3, <2>1, FS_Subset
<1>6. IsList(req.cid) => Len(Entries(req.cid)) <= Longest
  <2> SUFFICES ASSUME NEW i \in 1 .. Len(Lists), Lists[i].id = req.cid
               PROVE  Len(Entries(req.cid)) <= Longest
    BY DEF IsList
  <2>1. Entries(req.cid) = Lists[i].trackIds
    BY EntriesAre
  <2> QED BY <1>2, <2>1
<1>7. Whole <= Longest
  <2>1. CASE req.endpoint = "items"
    <3>1. Whole = Cardinality(Wanted)
      BY <2>1 DEF Whole
    <3> QED BY <1>1, <1>2, <1>4, <1>5, <3>1
  <2>2. CASE req.endpoint = "containers"
    <3>1. Whole = 1 + Len(Lists)
      BY <2>2 DEF Whole
    <3> QED BY <1>2, <1>3, <3>1
  <2>3. CASE req.endpoint = "container" /\ req.cid = LibraryId
    <3>1. Whole = Cardinality(Tracks)
      BY <2>3 DEF Whole
    <3> QED BY <1>2, <3>1
  <2>4. CASE req.endpoint = "container" /\ req.cid # LibraryId
    <3>1. Whole = IF IsList(req.cid) THEN Len(Entries(req.cid)) ELSE 0
      BY <2>4 DEF Whole
    <3> QED BY <1>2, <1>6, <3>1
  <2> QED BY <2>1, <2>2, <2>3, <2>4, RequestType
<1> QED BY <1>1, <1>2, <1>7

\* Entries without positions,
LEMMA SentUnnumbered ==
  ASSUME NEW ids, Len(ids) \in 0 .. Longest, NEW total \in 0 .. Longest,
         req.endpoint \in {"items", "containers"},
         req.endpoint = "items" => \A i \in 1 .. Len(ids) : ids[i] \in Known,
         req.endpoint = "containers" =>
           \A i \in 1 .. Len(ids) : (ids[i] = LibraryId /\ i = 1) \/ IsList(ids[i])
  PROVE  Sent(Answer(Unnumbered(ids), total))
<1> DEFINE es == Unnumbered(ids)
           n == Len(ids)
<1>1. n \in Nat
  BY MaxIs
<1>2. es = [i \in 1 .. n |-> [id |-> ids[i], mpco |-> None]]
  BY DEF Unnumbered
<1>3. Len(es) = n /\ \A i \in 1 .. n : es[i].id = ids[i] /\ es[i].mpco = None
  BY <1>1, <1>2
<1>4. es = [i \in 1 .. n |-> [id |-> es[i].id, mpco |-> es[i].mpco]]
  BY <1>2, <1>3
<1> HIDE DEF es
<1> DEFINE a == Answer(es, total)
<1>5. a.entries = es /\ a.total = total /\ a = Answer(es, total)
  BY DEF Answer
<1> HIDE DEF a
<1>6. req.endpoint = "items" => \A i \in 1 .. n : es[i].id \in Known /\ es[i].mpco = None
  BY <1>3
<1>7. req.endpoint = "containers" =>
        \A i \in 1 .. n : /\ es[i].mpco = None
                          /\ (es[i].id = LibraryId /\ i = 1) \/ IsList(es[i].id)
  BY <1>3
<1>8. Sent(a)
  BY <1>3, <1>4, <1>5, <1>6, <1>7 DEF Sent
<1> QED BY <1>8 DEF a, es

\* and with them.
LEMMA SentNumbered ==
  ASSUME NEW ids, Len(ids) \in 0 .. Longest, NEW total \in 0 .. Longest,
         req.endpoint = "container", NEW from \in Nat,
         ids # <<>> => from + Len(ids) <= Longest,
         \A i \in 1 .. Len(ids) : ids[i] \in 0 .. U32Max /\ (Full => ids[i] \in Known)
  PROVE  Sent(Answer(Numbered(ids, from), total))
<1> DEFINE es == Numbered(ids, from)
           n == Len(ids)
<1>1. n \in Nat /\ Longest \in Nat
  BY MaxIs
<1>2. es = [i \in 1 .. n |-> [id |-> ids[i], mpco |-> from + i]]
  BY DEF Numbered
<1>3. Len(es) = n /\ \A i \in 1 .. n : es[i].id = ids[i] /\ es[i].mpco = from + i
  BY <1>1, <1>2
<1>4. es = [i \in 1 .. n |-> [id |-> es[i].id, mpco |-> es[i].mpco]]
  BY <1>2, <1>3
<1>5. ASSUME NEW i \in 1 .. n PROVE from + i \in 0 .. Longest
  <2>1. n # 0
    BY <1>1, <1>5
  <2>2. ids # <<>>
    BY <2>1
  <2>3. from + n <= Longest
    BY <2>2
  <2> HIDE DEF n
  <2> QED BY <1>1, <2>3
<1> HIDE DEF es
<1> DEFINE a == Answer(es, total)
<1>6. a.entries = es /\ a.total = total /\ a = Answer(es, total)
  BY DEF Answer
<1> HIDE DEF a
<1>7. \A i \in 1 .. n :
         /\ es[i].id \in 0 .. U32Max /\ es[i].mpco \in 0 .. Longest
         /\ Full => es[i].id \in Known
  BY <1>3, <1>5
<1>8. Sent(a)
  BY <1>3, <1>4, <1>6, <1>7 DEF Sent
<1> QED BY <1>8 DEF a, es

\* handle_items sends ids of tracks,
LEMMA ItemsSent ==
  ASSUME req \in Requests, req.endpoint = "items", NEW order \in Orders, NEW range,
         NEW a \in Nat, NEW b \in Nat,
         Window(range, a, b, HandleItems(order, range).total)
  PROVE  HandleItems(order, range) = BadRequest \/ Sent(HandleItems(order, range))
<1> DEFINE S == {t \in Tracks : req.query = NoQuery \/ Matches(req.query, t)}
           sorted == SortTracks(Matching(order), req.sort)
<1>1. SUFFICES ASSUME ~ (req.query = BadQuery \/ req.sort = BadSort)
               PROVE  Sent(HandleItems(order, range))
  BY DEF HandleItems
<1>2. HandleItems(order, range) =
        Answer(Unnumbered(Ids(ApplyIndexRange(sorted, range))), Len(sorted))
  BY <1>1 DEF HandleItems
<1>3. S = Wanted /\ Tracks \cap S = S
  BY MatchingIsWanted
<1>4. Matching(order) = Kept(order, S)
  BY DEF Matching
<1>5. KeysOK(req.sort.keys)
  BY RequestKeys
<1> HIDE DEF S
<1>6. /\ SortTracks(Kept(order, S), req.sort) \in Seq(Tracks)
      /\ Len(SortTracks(Kept(order, S), req.sort)) = Cardinality(Tracks \cap S)
  BY <1>5, SortedListed
<1>7. sorted \in Seq(Tracks) /\ Len(sorted) = Whole
  BY <1>3, <1>4, <1>6 DEF Whole
<1> HIDE DEF sorted
<1>8. Window(range, a, b, Len(sorted))
  BY <1>2 DEF Answer
<1>9. ApplyIndexRange(sorted, range) = Cut(sorted, a, b)
  BY <1>7, <1>8, RangeCut
<1> DEFINE c == Cut(sorted, a, b)
<1>10. c \in Seq(Tracks) /\ Len(c) <= Len(sorted)
  BY <1>7, CutBounds
<1> HIDE DEF c
<1>11. Len(c) \in Nat /\ \A i \in 1 .. Len(c) : c[i] \in Tracks
  BY <1>10
<1> DEFINE ids == Ids(c)
<1>12. Len(ids) = Len(c) /\ \A i \in 1 .. Len(c) : ids[i] = c[i].id
  BY <1>11 DEF Ids
<1> HIDE DEF ids
<1>13. \A i \in 1 .. Len(ids) : ids[i] \in Known
  BY <1>11, <1>12 DEF Known
<1>14. Whole \in 0 .. Longest /\ Longest \in Nat
  BY WholeFits, MaxIs
<1>15. Len(ids) \in 0 .. Longest
  BY <1>7, <1>10, <1>11, <1>12, <1>14
<1>16. Sent(Answer(Unnumbered(ids), Whole))
  BY <1>13, <1>14, <1>15, SentUnnumbered
<1> QED BY <1>2, <1>7, <1>9, <1>16 DEF ids, c

\* handle_containers the Library, at most first, and ids of playlists,
LEMMA ContainersSent ==
  ASSUME req \in Requests, req.endpoint = "containers", NEW range,
         NEW a \in Nat, NEW b \in Nat,
         Window(range, a, b, HandleContainers(range).total)
  PROVE  Sent(HandleContainers(range))
<1> DEFINE x == Ids(PlaylistOrder(Lists))
<1>0. x \in Seq(IdOf) /\ Len(x) = Len(Lists) /\ LibraryId \in IdOf
  BY PlaylistIds DEF IdOf, LibraryId
<1>1. Len(PlaylistOrder(Lists)) = Len(Lists) /\ Len(Lists) \in Nat
  <2>1. Len(Lists) \in Nat
    BY ListingAssumption
  <2> QED BY <2>1 DEF PlaylistOrder, StableSort
<1>2. HandleContainers(range) = Answer(Unnumbered(SlicePlaylists(range, x)), 1 + Len(x))
  BY <1>0, <1>1 DEF HandleContainers
<1>3. Playlists = <<LibraryId>> \o x
  BY DEF Playlists
<1>4. 1 + Len(x) = Whole
  BY <1>0 DEF Whole
<1>5. ASSUME NEW i \in 1 .. Len(x) PROVE IsList(x[i])
  <2>1. x[i] = PlaylistOrder(Lists)[i].id
    BY <1>0, <1>1 DEF Ids
  <2>2. i \in 1 .. Len(Lists)
    BY <1>0
  <2>3. PICK j \in 1 .. Len(Lists) : PlaylistOrder(Lists)[i] = Lists[j]
    BY <2>2, PlaylistOrderIs
  <2> QED BY <2>1, <2>3 DEF IsList
<1> HIDE DEF x
<1>6. Window(range, a, b, 1 + Len(x))
  BY <1>2 DEF Answer
<1>7. SlicePlaylists(range, x) = Cut(Playlists, a, b)
  BY <1>0, <1>3, <1>6, SliceCut
<1>8. /\ Playlists \in Seq(IdOf) /\ Len(Playlists) = 1 + Len(x)
      /\ Playlists[1] = LibraryId
  BY <1>0, <1>3, LibraryConcat
<1>9. ASSUME NEW k \in 1 .. Len(Playlists), k # 1 PROVE IsList(Playlists[k])
  <2>1. Len(<<LibraryId>>) = 1 /\ <<LibraryId>> \in Seq(IdOf)
    BY <1>0
  <2>2. k - 1 \in 1 .. Len(x) /\ 1 + (k - 1) = k
    BY <1>0, <1>1, <1>8, <1>9
  <2>3. \A i \in 1 .. Len(x) : (<<LibraryId>> \o x)[1 + i] = x[i]
    BY <1>0, <2>1, ConcatSecond
  <2>4. Playlists[k] = x[k - 1]
    BY <1>3, <2>2, <2>3
  <2> QED BY <1>5, <2>2, <2>4
<1> DEFINE c == Cut(Playlists, a, b)
<1>10. /\ c \in Seq(IdOf) /\ Len(c) <= Len(Playlists)
       /\ \A i \in 1 .. Len(c) : a + i \in 1 .. Len(Playlists) /\ c[i] = Playlists[a + i]
  BY <1>8, CutBounds
<1> HIDE DEF c
<1>11. ASSUME NEW i \in 1 .. Len(c) PROVE (c[i] = LibraryId /\ i = 1) \/ IsList(c[i])
  <2>1. CASE a + i = 1
    <3>1. i = 1
      BY <2>1
    <3> QED BY <1>8, <1>10, <2>1, <3>1
  <2>2. CASE a + i # 1
    BY <1>9, <1>10, <2>2
  <2> QED BY <2>1, <2>2
<1>12. Whole \in 0 .. Longest /\ Longest \in Nat
  BY WholeFits, MaxIs
<1>13. Len(c) \in 0 .. Longest
  <2>1. Len(c) \in Nat
    BY <1>10
  <2>2. Len(c) <= Whole
    BY <1>4, <1>8, <1>10
  <2> QED BY <1>12, <2>1, <2>2
<1>14. Sent(Answer(Unnumbered(c), Whole))
  BY <1>11, <1>12, <1>13, SentUnnumbered
<1> QED BY <1>2, <1>4, <1>7, <1>14 DEF c

\* The ids of whatever playlist fit the wire.
LEMMA IdsFit ==
  ASSUME req \in Requests, req.endpoint = "container", NEW order \in Orders,
         NEW i \in 1 .. Len(IdsOf(order, req.cid))
  PROVE  IdsOf(order, req.cid)[i] \in 0 .. U32Max
<1> DEFINE ids == IdsOf(order, req.cid)
<1>1. ids \in Seq(Nat)
  BY IdsOfType
<1>2. CASE req.cid = LibraryId
  <2>1. ids = Ids(order)
    BY <1>2, IdsOfLibrary
  <2>2. order \in Seq(Tracks) /\ Len(order) \in Nat
    BY OrderType
  <2>3. i \in 1 .. Len(order) /\ ids[i] = order[i].id
    BY <2>1, <2>2 DEF Ids
  <2>4. order[i].id \in Known
    BY <2>2, <2>3 DEF Known
  <2> QED BY <2>3, <2>4, KnownIs
<1>3. CASE IsList(req.cid)
  <2>1. PICK k \in 1 .. Len(Lists) : Lists[k].id = req.cid
    BY <1>3 DEF IsList
  <2>2. ids = Lists[k].trackIds
    BY <1>3, <2>1, IdsOfList, EntriesAre
  <2> HIDE DEF ids
  <2>3. i \in 1 .. Len(ids)
    BY DEF ids
  <2>4. ids[i] <= U32Max
    BY <2>2, <2>3, WireAssumption
  <2>5. ids[i] \in Nat
    BY <1>1, <2>3
  <2>6. ids[i] \in 0 .. U32Max
    BY <2>4, <2>5, MaxIs
  <2> QED BY <2>6 DEF ids
<1>4. CASE req.cid # LibraryId /\ ~ IsList(req.cid)
  <2>1. ids = <<>>
    BY <1>4, IdsOfUnknown
  <2> QED BY <2>1
<1> QED BY <1>2, <1>3, <1>4

\* playlist_songs sends ids with their positions,
LEMMA IdsSent ==
  ASSUME req \in Requests, req.endpoint = "container", NEW order \in Orders, NEW range,
         NEW a \in Nat, NEW b \in Nat, ~ Full, Window(range, a, b, Whole)
  PROVE  Sent(HandleIds(IdsOf(order, req.cid), range))
<1> DEFINE ids == IdsOf(order, req.cid)
<1>1. ids \in Seq(Nat) /\ Len(ids) = Whole
  BY IdsOfType
<1>2. \A i \in 1 .. Len(ids) : ids[i] \in 0 .. U32Max
  BY IdsFit
<1> HIDE DEF ids
<1>3. ApplyIndexRange(ids, range) = Cut(ids, a, b)
  BY <1>1, RangeCut
<1>4. HandleIds(ids, range) = Answer(Numbered(Cut(ids, a, b), a), Whole)
  BY <1>1, <1>3, WindowOffset DEF HandleIds
<1> DEFINE c == Cut(ids, a, b)
<1>5. /\ c \in Seq(Nat) /\ Len(c) <= Len(ids) /\ (c # <<>> => a + Len(c) <= Len(ids))
      /\ \A i \in 1 .. Len(c) : a + i \in 1 .. Len(ids) /\ c[i] = ids[a + i]
  BY <1>1, CutBounds
<1> HIDE DEF c
<1>6. Whole \in 0 .. Longest /\ Longest \in Nat /\ Len(c) \in Nat
  BY <1>5, WholeFits, MaxIs
<1>7. Len(c) \in 0 .. Longest /\ (c # <<>> => a + Len(c) <= Longest)
  BY <1>1, <1>5, <1>6
<1>8. \A i \in 1 .. Len(c) : c[i] \in 0 .. U32Max /\ (Full => c[i] \in Known)
  BY <1>2, <1>5
<1>9. Sent(Answer(Numbered(c, a), Whole))
  BY <1>6, <1>7, <1>8, SentNumbered
<1> QED BY <1>4, <1>9 DEF ids, c

\* playlist_songs_full only those of tracks,
LEMMA FullSent ==
  ASSUME req \in Requests, req.endpoint = "container", NEW order \in Orders, NEW range,
         NEW a \in Nat, NEW b \in Nat, Full, Window(range, a, b, Whole)
  PROVE  Sent(HandleFull(IdsOf(order, req.cid), range))
<1> DEFINE ids == IdsOf(order, req.cid)
           page == Resolved(Cut(ids, a, b))
<1>1. ids \in Seq(Nat) /\ Len(ids) = Whole
  BY IdsOfType
<1> HIDE DEF ids
<1>2. ApplyIndexRange(ids, range) = Cut(ids, a, b)
  BY <1>1, RangeCut
<1>3. HandleFull(ids, range) = Answer(Numbered(page, a), Whole)
  BY <1>1, <1>2, WindowOffset DEF HandleFull
<1> DEFINE c == Cut(ids, a, b)
<1>4. c \in Seq(Nat) /\ Len(c) <= Len(ids) /\ (c # <<>> => a + Len(c) <= Len(ids))
  BY <1>1, CutBounds
<1>5. page \in Seq(Nat \cap Known) /\ Len(page) <= Len(c)
  BY <1>4, ResolvedType
<1> HIDE DEF c, page
<1>6. Whole \in 0 .. Longest /\ Longest \in Nat /\ Len(c) \in Nat /\ Len(page) \in Nat
  BY <1>4, <1>5, WholeFits, MaxIs
<1>7. Len(page) \in 0 .. Longest
  BY <1>1, <1>4, <1>5, <1>6
<1>8. page # <<>> => a + Len(page) <= Longest
  <2> SUFFICES ASSUME page # <<>> PROVE a + Len(page) <= Longest
    OBVIOUS
  <2>1. Len(page) # 0
    BY <1>5
  <2>2. Len(c) # 0
    BY <1>5, <1>6, <2>1
  <2>3. c # <<>>
    BY <2>2
  <2> QED BY <1>1, <1>4, <1>5, <1>6, <2>3
<1>9. \A i \in 1 .. Len(page) : page[i] \in 0 .. U32Max /\ (Full => page[i] \in Known)
  <2>1. \A i \in 1 .. Len(page) : page[i] \in Known
    BY <1>5
  <2> QED BY <2>1, KnownIs
<1>10. Sent(Answer(Numbered(page, a), Whole))
  BY <1>6, <1>7, <1>8, <1>9, SentNumbered
<1> QED BY <1>3, <1>10 DEF ids

\* and so when they are sorted.
LEMMA FullSortedSent ==
  ASSUME req \in Requests, req.endpoint = "container", NEW order \in Orders, NEW range,
         NEW a \in Nat, NEW b \in Nat, Full, Window(range, a, b, Whole)
  PROVE  \/ HandleFullSorted(IdsOf(order, req.cid), range) = Panics
         \/ Sent(HandleFullSorted(IdsOf(order, req.cid), range))
<1> DEFINE ids == IdsOf(order, req.cid)
           rows == Rows(ids)
           all == SortTracks(rows, req.sort)
           h == HandleFullSorted(ids, range)
<1>1. ids \in Seq(Nat) /\ Len(ids) = Whole
  BY IdsOfType
<1> HIDE DEF ids
<1>2. rows \in Seq(Tracks) /\ Len(rows) = Len(Resolved(ids))
  BY <1>1, RowsType
<1>3. Resolved(ids) \in Seq(Nat \cap Known) /\ Len(Resolved(ids)) <= Len(ids)
  BY <1>1, ResolvedType
<1>4. KeysOK(req.sort.keys)
  BY RequestKeys
<1>5. h = CASE all = <<>> /\ Offset(range) = 0 -> Panics
            [] range.range /\ Offset(range) > 0 /\ Offset(range) >= Len(all) -> Answer(<<>>, Len(ids))
            [] OTHER -> Answer(Numbered(Ids(ApplyIndexRange(all, range)), Offset(range)), Len(ids))
  BY DEF HandleFullSorted, Rows
<1> HIDE DEF rows
<1>6. all \in Seq(Tracks) /\ Len(all) = Len(rows)
  BY <1>2, <1>4, SortTracksType, SortTracksLen
<1> HIDE DEF all, h
<1>7. Len(all) \in Nat /\ Whole \in 0 .. Longest /\ Longest \in Nat /\ Len(all) <= Whole
  BY <1>1, <1>2, <1>3, <1>6, WholeFits, MaxIs
<1>8. Window(range, a, b, Len(all))
  BY <1>7, WindowLess
<1> DEFINE c == Cut(all, a, b)
<1>9. ApplyIndexRange(all, range) = c /\ Offset(range) = a
  BY <1>6, <1>8, RangeCut, WindowOffset
<1>10. c \in Seq(Tracks) /\ Len(c) <= Len(all) /\ (c # <<>> => a + Len(c) <= Len(all))
  BY <1>6, CutBounds
<1> HIDE DEF c
<1>11. Len(c) \in Nat /\ \A i \in 1 .. Len(c) : c[i] \in Tracks
  BY <1>10
<1> DEFINE page == Ids(c)
<1>12. Len(page) = Len(c) /\ \A i \in 1 .. Len(c) : page[i] = c[i].id
  BY <1>11 DEF Ids
<1>13. page # <<>> => c # <<>>
  BY DEF Ids
<1> HIDE DEF page
<1>14. \A i \in 1 .. Len(page) : page[i] \in 0 .. U32Max /\ (Full => page[i] \in Known)
  <2>1. \A i \in 1 .. Len(page) : page[i] \in Known
    BY <1>11, <1>12 DEF Known
  <2> QED BY <2>1, KnownIs
<1>15. Len(page) \in 0 .. Longest /\ (page # <<>> => a + Len(page) <= Longest)
  BY <1>7, <1>10, <1>11, <1>12, <1>13
<1>16. Sent(Answer(Numbered(page, a), Whole))
  BY <1>7, <1>14, <1>15, SentNumbered
<1>17. Sent(Answer(<<>>, Whole))
  <2>1. Numbered(<<>>, 0) = <<>> /\ Len(<<>>) = 0
    BY DEF Numbered
  <2> DEFINE none == <<>>
  <2>2. Len(none) \in 0 .. Longest /\ none = <<>> /\ \A i \in 1 .. Len(none) : FALSE
    BY <1>7, <2>1
  <2> HIDE DEF none
  <2>3. Sent(Answer(Numbered(none, 0), Whole))
    BY <1>7, <2>2, SentNumbered
  <2> QED BY <2>1, <2>2, <2>3
<1>18. h = Panics \/ h = Answer(<<>>, Whole) \/ h = Answer(Numbered(page, a), Whole)
  BY <1>1, <1>5, <1>9 DEF page
<1> QED BY <1>16, <1>17, <1>18 DEF h, ids

\* handle_container_items.
LEMMA ContainerItemsSent ==
  ASSUME req \in Requests, req.endpoint = "container", NEW order \in Orders, NEW range,
         NEW a \in Nat, NEW b \in Nat,
         Window(range, a, b, HandleContainerItems(order, range).total)
  PROVE  \/ HandleContainerItems(order, range) \in {BadRequest, Panics}
         \/ Sent(HandleContainerItems(order, range))
<1> DEFINE ids == IdsOf(order, req.cid)
           h == HandleContainerItems(order, range)
<1>1. Len(ids) = Whole
  BY IdsOfType
<1>2. CASE ~ Full
  <2>1. h = HandleIds(ids, range)
    BY <1>2 DEF HandleContainerItems, Full
  <2>2. h.total = Whole
    BY <1>1, <2>1 DEF HandleIds, Answer
  <2> QED BY <1>2, <2>1, <2>2, IdsSent
<1>3. CASE Full /\ req.sort = BadSort
  <2>1. NoSort # BadSort
    BY DEF NoSort, BadSort
  <2>2. h = BadRequest
    BY <1>3, <2>1 DEF HandleContainerItems, Full
  <2> QED BY <2>2
<1>4. CASE Full /\ req.sort = NoSort
  <2>1. NoSort # BadSort
    BY DEF NoSort, BadSort
  <2>2. h = HandleFull(ids, range)
    BY <1>4, <2>1 DEF HandleContainerItems, Full
  <2>3. h.total = Whole
    BY <1>1, <2>2 DEF HandleFull, Answer
  <2> QED BY <1>4, <2>2, <2>3, FullSent
<1>5. CASE Full /\ req.sort # BadSort /\ req.sort # NoSort
  <2>1. h = HandleFullSorted(ids, range)
    BY <1>5 DEF HandleContainerItems, Full
  <2>2. h = Panics \/ h.total = Len(ids)
    BY <2>1 DEF HandleFullSorted, Answer
  <2>3. CASE h.total = Len(ids)
    BY <1>1, <1>5, <2>1, <2>3, FullSortedSent
  <2> QED BY <2>2, <2>3
<1> QED BY <1>2, <1>3, <1>4, <1>5

\* Whatever is asked for, the wire takes the answer.
LEMMA HandleSent ==
  ASSUME req \in Requests, NEW order \in Orders, NEW range,
         NEW a \in Nat, NEW b \in Nat,
         Window(range, a, b, Handle(order, range).total)
  PROVE  Handle(order, range) \in {BadRequest, Panics} \/ Sent(Handle(order, range))
<1>1. req.endpoint \in {"items", "containers", "container"}
  BY RequestType
<1>2. CASE req.endpoint = "items"
  BY <1>2, ItemsSent DEF Handle
<1>3. CASE req.endpoint = "containers"
  BY <1>3, ContainersSent DEF Handle
<1>4. CASE req.endpoint = "container"
  BY <1>4, ContainerItemsSent DEF Handle
<1> QED BY <1>1, <1>2, <1>3, <1>4

\* What the client asks for: the entries from start up to after, with that the
\* answer and the index it goes on from.
Asks(answer, after) ==
  /\ after \in Nat /\ start <= after
  /\ \E order \in Orders : \E range :
       /\ answer = Handle(order, range)
       /\ Window(range, start, after, answer.total)

\* index=A-B asks for a page, index=A- for the rest, and no index for the whole.
LEMMA AsksPage ==
  ASSUME req \in Requests, start \in Nat, NEW order \in Orders
  PROVE  Asks(PageOf(order), start + req.page)
<1> DEFINE raw == [wellformed |-> TRUE, open |-> FALSE, a |-> start, b |-> start + req.page - 1]
           range == ParseIndex(raw)
           after == start + req.page
<1>1. req.page \in Nat /\ 1 <= req.page
  BY RequestType
<1>2. after \in Nat /\ start < after /\ start + req.page - 1 = after - 1 /\ ~ (raw.b < raw.a)
  BY <1>1
<1>3. range = [range |-> TRUE, start |-> start, open |-> FALSE, end |-> after - 1]
  BY <1>2 DEF ParseIndex
<1>4. PageOf(order) = Handle(order, range)
  BY DEF PageOf
<1>5. Window(range, start, after, PageOf(order).total)
  BY <1>2, <1>3 DEF Window
<1> HIDE DEF range, after
<1>6. Asks(PageOf(order), after)
  BY <1>2, <1>4, <1>5 DEF Asks, after
<1> QED BY <1>6 DEF after

LEMMA AsksRest ==
  ASSUME req \in Requests, start \in Nat, NEW order \in Orders
  PROVE  Asks(RestOf(order), AfterRest(RestOf(order)))
<1> DEFINE raw == [wellformed |-> TRUE, open |-> TRUE, a |-> start, b |-> 0]
           range == ParseIndex(raw)
           answer == RestOf(order)
           after == AfterRest(answer)
<1>1. range = [range |-> TRUE, start |-> start, open |-> TRUE, end |-> 0]
  BY DEF ParseIndex
<1>2. answer = Handle(order, range)
  BY DEF RestOf
<1> HIDE DEF range, answer
<1>3. answer.total \in Nat
  BY <1>2, TotalType, WholeType
<1>4. after \in Nat /\ start <= after /\ answer.total <= after
  BY <1>3 DEF AfterRest
<1> HIDE DEF after
<1>5. Window(range, start, after, answer.total)
  BY <1>1, <1>4 DEF Window
<1>6. Asks(answer, after)
  BY <1>2, <1>4, <1>5 DEF Asks
<1> QED BY <1>6 DEF answer, after

LEMMA AsksWhole ==
  ASSUME req \in Requests, start = 0, NEW order \in Orders, NEW w \in BOOLEAN
  PROVE  Asks(WholeOf(order, w), WholeOf(order, w).total)
<1> DEFINE raw == [wellformed |-> w, open |-> FALSE, a |-> 2, b |-> 1]
           range == NoRange
           answer == WholeOf(order, w)
           after == answer.total
<1>1. ParseIndex(raw) = range
  BY DEF ParseIndex
<1>2. answer = Handle(order, range)
  BY <1>1 DEF WholeOf
<1> HIDE DEF answer
<1>3. after \in Nat
  BY <1>2, TotalType, WholeType
<1>4. Window(range, start, after, answer.total)
  BY <1>3 DEF Window
<1> HIDE DEF range, after
<1>5. Asks(answer, after)
  BY <1>2, <1>3, <1>4 DEF Asks
<1> QED BY <1>5 DEF answer, after

\* What is asked for is answered with its page, in the bounds of the wire.
LEMMA AsksGives ==
  ASSUME req \in Requests, start \in Nat, NEW answer, NEW after, Asks(answer, after)
  PROVE  /\ Page(answer, start, after) /\ after \in Nat /\ start <= after
         /\ answer \in {BadRequest, Panics} \/ Sent(answer)
<1>1. after \in Nat /\ start <= after
  BY DEF Asks
<1>2. PICK order \in Orders : \E range : answer = Handle(order, range)
                                        /\ Window(range, start, after, answer.total)
  BY DEF Asks
<1>3. PICK range : answer = Handle(order, range) /\ Window(range, start, after, answer.total)
  BY <1>2
<1>4. Page(answer, start, after)
  BY <1>1, <1>3, HandlePage
<1>5. answer \in {BadRequest, Panics} \/ Sent(answer)
  BY <1>1, <1>3, HandleSent
<1> QED BY <1>1, <1>4, <1>5

\* An answer that is sent is one that says ok.
LEMMA SentIs ==
  ASSUME NEW a, Sent(a)
  PROVE  a.is = "ok"
<1>1. a = Answer(a.entries, a.total)
  BY DEF Sent
<1> QED BY <1>1 DEF Answer

\* The answers of /databases and /containers count what they list.
CountIs(r, id) ==
  IF Has(r, "abpl") THEN Seen(r, "mimc", Cardinality(Tracks))
  ELSE Seen(r, "mimc", Len(Entries(id)))

\* All entries say who they are: a track what is known of it, a list its name.
ShowsIs(r, id) ==
  /\ req.endpoint = "items" => TrackTold(r, AsListed(Meta[id]), Cs)
  /\ req.endpoint = "container" /\ Full => TrackTold(r, Meta[id], Cs)
  /\ req.endpoint = "containers" =>
       IF Has(r, "abpl") THEN id = LibraryId /\ Seen(r, "minm", Encode(Cs, Library))
       ELSE IsList(id) /\ Seen(r, "minm", Encode(Cs, ListOf(id).title))

\* What the client has for an entry that was sent.
EntryHeard(s, r, e) ==
  /\ EntryGives(s, r, e.id, e.mpco) /\ ShowsIs(r, e.id)
  /\ req.endpoint = "containers" => CountIs(r, e.id)

\* What the client has of an answer is the answer.
Hears(fields, kind, a) ==
  \E r : /\ ListingGives(fields, kind, a.total, Len(a.entries), r) /\ Entered(r, a)
         /\ \A i \in 1 .. Len(a.entries) : ShowsIs(r[i], a.entries[i].id)
         /\ req.endpoint = "containers" =>
              \A i \in 1 .. Len(a.entries) : CountIs(r[i], a.entries[i].id)

\* It is, if every entry is read as what it is.
LEMMA HearsEntries ==
  ASSUME NEW a, Sent(a), NEW kind, Typed(kind, "List"), kind # "malformed",
         NEW es, Len(es) = Len(a.entries),
         \A i \in 1 .. Len(a.entries) : \E r : EntryHeard(es[i], r, a.entries[i])
  PROVE  Hears(Read(Words, ListingBody(kind, a.total, es)), kind, a)
<1> DEFINE n == Len(a.entries)
           r == [i \in 1 .. n |-> CHOOSE q : EntryHeard(es[i], q, a.entries[i])]
           fields == Read(Words, ListingBody(kind, a.total, es))
<1>1. \A i \in 1 .. n : EntryHeard(es[i], r[i], a.entries[i])
  OBVIOUS
<1> HIDE DEF r
<1>2. \A i \in 1 .. n : Part(es[i], r[i], EntryMax)
  BY <1>1 DEF EntryHeard, EntryGives
<1>3. n \in 0 .. Longest /\ a.total \in 0 .. Longest
  BY DEF Sent
<1>4. n \in Nat /\ n <= Longest /\ a.total \in Nat /\ a.total <= U32Max
  BY <1>3, MaxIs
<1> HIDE DEF n, fields
<1>5. ListingGives(fields, kind, a.total, n, r)
  <2>1. Len(es) = n
    BY DEF n
  <2> QED BY <1>2, <1>4, <2>1, ListingReads DEF fields
<1>6. Entered(r, a)
  BY <1>1 DEF EntryHeard, EntryGives, Entered, n
<1>7. req.endpoint = "containers" =>
        \A i \in 1 .. Len(a.entries) : CountIs(r[i], a.entries[i].id)
  BY <1>1 DEF EntryHeard, n
<1>7a. \A i \in 1 .. Len(a.entries) : ShowsIs(r[i], a.entries[i].id)
  BY <1>1 DEF EntryHeard, n
<1>8. Hears(fields, kind, a)
  BY <1>5, <1>6, <1>7, <1>7a DEF Hears, n
<1> QED BY <1>8 DEF fields

\* The charset is one of the two.
LEMMA CsIs == Cs \in {Utf8, MacRoman}
BY DEF Cs, CharsetFromAccept

\* /items,
LEMMA ItemsHeard ==
  ASSUME NEW a, Sent(a), req.endpoint = "items"
  PROVE  Hears(Read(Words, Response(a).body), "adbs", a)
<1> DEFINE n == Len(a.entries)
           ids == Ids(a.entries)
           sliced == [i \in 1 .. Len(ids) |-> AsListed(Meta[ids[i]])]
           es == [i \in 1 .. Len(sliced) |-> EmitTrackMlit(sliced[i], <<>>, Cs)]
           kind == "adbs"
<1>1. n \in Nat /\ \A i \in 1 .. n : a.entries[i].id \in Known /\ a.entries[i].mpco = None
  BY MaxIs DEF Sent
<1>2. Len(ids) = n /\ \A i \in 1 .. n : ids[i] = a.entries[i].id
  BY <1>1 DEF Ids
<1>3. Response(a).body = ListingBody(kind, a.total, es)
  BY DEF Response, DmapResponseCs, ItemsBody, list
<1> HIDE DEF ids
<1>4. Len(sliced) = n /\ \A i \in 1 .. n : sliced[i] = AsListed(Meta[a.entries[i].id])
  BY <1>1, <1>2
<1> HIDE DEF sliced
<1>5. Len(es) = n /\ \A i \in 1 .. n : es[i] = EmitTrackMlit(sliced[i], <<>>, Cs)
  BY <1>1, <1>4
<1> HIDE DEF es
<1>6. ASSUME NEW i \in 1 .. n
      PROVE  \E r : EntryHeard(es[i], r, a.entries[i])
  <2> DEFINE id == a.entries[i].id
             t == AsListed(Meta[id])
  <2>1. id \in Known
    BY <1>1
  <2> HIDE DEF id
  <2>2. IsTrack(t) /\ t.id = id
    BY <2>1, KnownIs, ListedIsTrack
  <2>3. es[i] = EmitTrackMlit(t, <<>>, Cs)
    BY <1>4, <1>5 DEF id
  <2>3a. \A r : TrackTold(r, t, Cs) => ShowsIs(r, id)
    BY DEF ShowsIs
  <2> HIDE DEF t
  <2>4. PICK r : EntryGives(EmitTrackMlit(t, <<>>, Cs), r, t.id, None) /\ TrackTold(r, t, Cs)
    BY <2>2, CsIs, TrackEntry
  <2>5. a.entries[i].mpco = None
    BY <1>1
  <2> QED BY <2>2, <2>3, <2>3a, <2>4, <2>5 DEF EntryHeard, id
<1>7. Typed(kind, "List") /\ kind # "malformed"
  BY TypesAre DEF Containers
<1> HIDE DEF kind
<1>8. Hears(Read(Words, ListingBody(kind, a.total, es)), kind, a)
  BY <1>5, <1>6, <1>7, HearsEntries
<1> QED BY <1>3, <1>8 DEF kind

\* a playlist's items by their ids,
LEMMA IdsHeard ==
  ASSUME NEW a, Sent(a), req.endpoint = "container", ~ Full
  PROVE  Hears(Read(Words, Response(a).body), "apso", a)
<1> DEFINE n == Len(a.entries)
           es == [i \in 1 .. Len(a.entries) |->
                    U8("mikd", 2) \o U32("miid", a.entries[i].id) \o U32("mpco", a.entries[i].mpco)]
           kind == "apso"
<1>1. n \in Nat /\ \A i \in 1 .. n : /\ a.entries[i].id \in 0 .. U32Max
                                    /\ a.entries[i].mpco \in 0 .. Longest
  BY MaxIs DEF Sent
<1>2. Response(a).body = ListingBody(kind, a.total, es)
  BY DEF Response, DmapResponse, DmapResponseCs, PlaylistSongsBody, list, dmap, Full
<1>3. Len(es) = n /\ \A i \in 1 .. n :
        es[i] = U8("mikd", 2) \o U32("miid", a.entries[i].id) \o U32("mpco", a.entries[i].mpco)
  BY <1>1
<1> HIDE DEF es
<1>4. ASSUME NEW i \in 1 .. n
      PROVE  \E r : EntryHeard(es[i], r, a.entries[i])
  <2> DEFINE id == a.entries[i].id
             p == a.entries[i].mpco
  <2>1. id \in Nat /\ id <= U32Max /\ p \in Nat /\ p <= U32Max
    BY <1>1, MaxIs
  <2>2. es[i] = U8("mikd", 2) \o U32("miid", id) \o U32("mpco", p)
    BY <1>3
  <2> HIDE DEF id, p
  <2>3. \E r : EntryGives(U8("mikd", 2) \o U32("miid", id) \o U32("mpco", p), r, id, p)
    BY <2>1, IdEntry
  <2>4. \A r : ShowsIs(r, id)
    BY DEF ShowsIs
  <2> QED BY <2>2, <2>3, <2>4 DEF EntryHeard, id, p
<1>5. Typed(kind, "List") /\ kind # "malformed"
  BY TypesAre DEF Containers
<1> HIDE DEF kind
<1>6. Hears(Read(Words, ListingBody(kind, a.total, es)), kind, a)
  BY <1>3, <1>4, <1>5, HearsEntries
<1> QED BY <1>2, <1>6 DEF kind

\* and with all their metadata,
LEMMA FullHeard ==
  ASSUME NEW a, Sent(a), req.endpoint = "container", Full
  PROVE  Hears(Read(Words, Response(a).body), "apso", a)
<1> DEFINE n == Len(a.entries)
           es == [i \in 1 .. Len(a.entries) |->
                    EmitTrackMlit(Meta[a.entries[i].id], <<a.entries[i].mpco>>, Cs)]
           kind == "apso"
<1>1. n \in Nat /\ \A i \in 1 .. n : /\ a.entries[i].id \in Known
                                    /\ a.entries[i].mpco \in 0 .. Longest
  BY MaxIs DEF Sent
<1>2. Response(a).body = ListingBody(kind, a.total, es)
  BY DEF Response, DmapResponseCs, PlaylistSongsFullBody, list, Full
<1>3. Len(es) = n /\ \A i \in 1 .. n :
        es[i] = EmitTrackMlit(Meta[a.entries[i].id], <<a.entries[i].mpco>>, Cs)
  BY <1>1
<1> HIDE DEF es
<1>4. ASSUME NEW i \in 1 .. n
      PROVE  \E r : EntryHeard(es[i], r, a.entries[i])
  <2> DEFINE id == a.entries[i].id
             p == a.entries[i].mpco
             t == Meta[id]
  <2>1. id \in Known /\ p \in Nat /\ p <= U32Max
    BY <1>1, MaxIs
  <2>2. es[i] = EmitTrackMlit(t, <<p>>, Cs)
    BY <1>3
  <2> HIDE DEF id, p
  <2>3. IsTrack(t) /\ t.id = id
    BY <2>1, KnownIs
  <2>3a. \A r : TrackTold(r, t, Cs) => ShowsIs(r, id)
    BY DEF ShowsIs
  <2> HIDE DEF t
  <2>4. PICK r : EntryGives(EmitTrackMlit(t, <<p>>, Cs), r, t.id, p) /\ TrackTold(r, t, Cs)
    BY <2>1, <2>3, CsIs, TrackEntryAt
  <2> QED BY <2>2, <2>3, <2>3a, <2>4 DEF EntryHeard, id, p
<1>5. Typed(kind, "List") /\ kind # "malformed"
  BY TypesAre DEF Containers
<1> HIDE DEF kind
<1>6. Hears(Read(Words, ListingBody(kind, a.total, es)), kind, a)
  BY <1>3, <1>4, <1>5, HearsEntries
<1> QED BY <1>2, <1>6 DEF kind

\* A playlist that is listed is the one that there is.
LEMMA ListOfIs ==
  ASSUME NEW id, IsList(id)
  PROVE  /\ id \in Nat /\ id <= U32Max /\ id # LibraryId /\ IsText(ListOf(id).title)
         /\ Writable(ListOf(id).title) /\ ListOf(id).trackIds = Entries(id)
         /\ Len(Entries(id)) \in Nat /\ Len(Entries(id)) <= U32Max
<1> DEFINE S == {Lists[i] : i \in 1 .. Len(Lists)}
           p == CHOOSE q \in S : q.id = id
<1>1. PICK k \in 1 .. Len(Lists) : Lists[k].id = id
  BY DEF IsList
<1>2. p \in S /\ p.id = id
  BY <1>1
<1>3. ListOf(id) = p /\ Entries(id) = p.trackIds
  BY DEF ListOf, Entries
<1> HIDE DEF p
<1>4. PICK j \in 1 .. Len(Lists) : p = Lists[j]
  BY <1>2
<1>5. /\ Lists[j].id \in Nat \ {LibraryId} /\ Lists[j].trackIds \in Seq(Nat)
  BY ListingAssumption
<1>6. /\ Lists[j].id <= U32Max /\ IsText(Lists[j].title)
      /\ Len(Lists[j].trackIds) <= Longest
  BY WireAssumption
<1>6a. Writable(Lists[j].title)
  BY TextAssumption
<1>7. Len(Lists[j].trackIds) \in Nat
  BY <1>5
<1>8. Longest \in Nat /\ Longest <= U32Max /\ U32Max \in Nat
  BY MaxIs
<1>9. Len(Lists[j].trackIds) <= U32Max
  BY <1>6, <1>7, <1>8
<1> QED BY <1>2, <1>3, <1>4, <1>5, <1>6, <1>6a, <1>7, <1>9

\* A list behind another that has one entry, or none.
LEMMA AfterOne ==
  ASSUME NEW l, NEW n \in Nat, NEW f
  PROVE  /\ Len(<<l>> \o [i \in 1 .. n |-> f[i]]) = n + 1
         /\ (<<l>> \o [i \in 1 .. n |-> f[i]])[1] = l
         /\ \A i \in 1 .. n : (<<l>> \o [j \in 1 .. n |-> f[j]])[i + 1] = f[i]
<1> DEFINE T == {l} \cup {f[i] : i \in 1 .. n}
           x == <<l>>
           y == [i \in 1 .. n |-> f[i]]
<1>1. x \in Seq(T) /\ y \in Seq(T) /\ Len(x) = 1 /\ Len(y) = n /\ x[1] = l
      /\ \A i \in 1 .. n : y[i] = f[i]
  OBVIOUS
<1> HIDE DEF x, y, T
<1>2. Len(x \o y) = n + 1 /\ (x \o y)[1] = l
  <2>1. Len(x \o y) = Len(x) + Len(y)
    BY <1>1, ConcatLen
  <2>2. \A i \in 1 .. Len(x) : (x \o y)[i] = x[i]
    BY <1>1, ConcatFirst
  <2> QED BY <1>1, <2>1, <2>2
<1>3. \A i \in 1 .. n : (x \o y)[i + 1] = f[i]
  <2>1. \A i \in 1 .. Len(y) : (x \o y)[Len(x) + i] = y[i]
    BY ZenonT(60), <1>1, ConcatSecond
  <2>2. \A i \in 1 .. n : 1 + i = i + 1
    OBVIOUS
  <2> QED BY <1>1, <2>1, <2>2
<1> QED BY <1>2, <1>3 DEF x, y

\* How a playlist is written,
PlaylistCells(id) == Named(id, ListOf(id).title, Cs) \o U32("mimc", Len(ListOf(id).trackIds))

LEMMA PlaylistCellsHeard ==
  ASSUME NEW e, IsList(e.id), e.mpco = None, req.endpoint = "containers"
  PROVE  \E r : EntryHeard(PlaylistCells(e.id), r, e)
<1> DEFINE id == e.id
           name == ListOf(id).title
           n == Len(Entries(id))
<1>1. id \in Nat /\ id <= U32Max /\ IsText(name) /\ n \in Nat /\ n <= U32Max
      /\ ListOf(id).trackIds = Entries(id)
  BY ListOfIs
<1>2. PlaylistCells(id) = Named(id, name, Cs) \o U32("mimc", n)
  BY <1>1 DEF PlaylistCells
<1> HIDE DEF id, name, n
<1>3. PICK r : /\ EntryGives(Named(id, name, Cs) \o U32("mimc", n), r, id, None)
               /\ Seen(r, "mimc", n) /\ Unseen(r, "abpl")
               /\ Seen(r, "minm", Encode(Cs, name))
  BY <1>1, CsIs, PlaylistEntry
<1>4. CountIs(r, id)
  BY <1>3 DEF CountIs, Unseen, n
<1>4a. ShowsIs(r, id)
  BY <1>3 DEF ShowsIs, Unseen, name, id
<1>5. EntryHeard(PlaylistCells(id), r, e)
  BY <1>2, <1>3, <1>4, <1>4a DEF EntryHeard, id
<1> QED BY <1>5 DEF id

\* and how the Library is.
LibraryCells ==
  Named(LibraryId, Library, Cs) \o U32("mimc", Cardinality(Tracks)) \o U8("abpl", 1)

LEMMA LibraryCellsHeard ==
  ASSUME NEW e, e.id = LibraryId, e.mpco = None, req.endpoint = "containers"
  PROVE  \E r : EntryHeard(LibraryCells, r, e)
<1> DEFINE n == Cardinality(Tracks)
           id == LibraryId
           name == Library
<1>1. n \in Nat /\ n <= U32Max
  <2>1. n \in Nat
    BY ListingAssumption, FS_CardinalityType
  <2>2. n <= Longest
    BY WireAssumption
  <2> HIDE DEF n
  <2> QED BY <2>1, <2>2, MaxIs
<1>2. id \in Nat /\ id <= U32Max /\ IsText(name)
  BY WireAssumption, MaxIs DEF LibraryId
<1>3. LibraryCells = Named(id, name, Cs) \o U32("mimc", n) \o U8("abpl", 1)
  BY DEF LibraryCells
<1> HIDE DEF n, id, name
<1>4. PICK r : /\ EntryGives(Named(id, name, Cs) \o U32("mimc", n) \o U8("abpl", 1), r, id, None)
               /\ Seen(r, "mimc", n) /\ Has(r, "abpl")
               /\ Seen(r, "minm", Encode(Cs, name))
  BY <1>1, <1>2, CsIs, LibraryEntry
<1>5. CountIs(r, id)
  BY <1>4 DEF CountIs, n
<1>5a. ShowsIs(r, id)
  BY <1>4 DEF ShowsIs, name, id
<1>6. EntryHeard(LibraryCells, r, e)
  BY <1>3, <1>4, <1>5, <1>5a DEF EntryHeard, id
<1> QED BY <1>6

\* /containers lists the Library, if it is on the page, and the playlists.
LEMMA PlaylistsBodyIs ==
  ASSUME NEW g, NEW here \in BOOLEAN, NEW total
  PROVE  PlaylistsBody(LibraryId, Cardinality(Tracks), g, here, total, Cs)
           = ListingBody("aply", total,
               (IF here THEN <<LibraryCells>> ELSE <<>>)
                 \o [i \in 1 .. Len(g) |->
                       Named(g[i].id, g[i].name, Cs) \o U32("mimc", Len(g[i].trackIds))])
BY DEF PlaylistsBody, LibraryCells, dmap, list, daap

\* /containers,
LEMMA ContainersHeard ==
  ASSUME NEW a, Sent(a), req.endpoint = "containers"
  PROVE  Hears(Read(Words, Response(a).body), "aply", a)
<1> DEFINE n == Len(a.entries)
           ids == Ids(a.entries)
           here == ids # <<>> /\ ids[1] = LibraryId
           extras == IF here THEN Tail(ids) ELSE ids
           f == [i \in 1 .. Len(extras) |-> PlaylistCells(extras[i])]
           es == (IF here THEN <<LibraryCells>> ELSE <<>>) \o [i \in 1 .. Len(extras) |-> f[i]]
           kind == "aply"
<1>1. n \in Nat /\ \A i \in 1 .. n :
         /\ a.entries[i].mpco = None
         /\ (a.entries[i].id = LibraryId /\ i = 1) \/ IsList(a.entries[i].id)
  BY MaxIs DEF Sent
<1>2. Len(ids) = n /\ (\A i \in 1 .. n : ids[i] = a.entries[i].id)
      /\ ids \in Seq({a.entries[i].id : i \in 1 .. n}) /\ (ids = <<>> <=> n = 0)
  BY <1>1 DEF Ids
<1>3. Response(a).body = ListingBody(kind, a.total, es)
  <2> DEFINE g == [i \in 1 .. Len(extras) |->
                     [id |-> extras[i], name |-> ListOf(extras[i]).title,
                      trackIds |-> ListOf(extras[i]).trackIds]]
             h == [i \in 1 .. Len(g) |->
                     Named(g[i].id, g[i].name, Cs) \o U32("mimc", Len(g[i].trackIds))]
  <2>1. Response(a).body = PlaylistsBody(LibraryId, Cardinality(Tracks), g, here, a.total, Cs)
    BY DEF Response, DmapResponseCs
  <2>2. PlaylistsBody(LibraryId, Cardinality(Tracks), g, here, a.total, Cs)
          = ListingBody(kind, a.total, (IF here THEN <<LibraryCells>> ELSE <<>>) \o h)
    <3>1. here \in BOOLEAN
      OBVIOUS
    <3> HIDE DEF g, here
    <3> QED BY <3>1, PlaylistsBodyIs
  <2>3. Len(extras) \in Nat
    <3> HIDE DEF ids
    <3>1. CASE here
      <4>1. n # 0
        BY <1>2, <3>1
      <4>2. Len(Tail(ids)) = n - 1
        BY <1>1, <1>2, <4>1
      <4> QED BY <1>1, <3>1, <4>1, <4>2
    <3>2. CASE ~here
      BY <1>1, <1>2, <3>2
    <3> QED BY <3>1, <3>2
  <2>4. h = f
    <3> HIDE DEF extras
    <3>1. Len(g) = Len(extras)
      BY <2>3
    <3>2. \A i \in 1 .. Len(extras) :
            Named(g[i].id, g[i].name, Cs) \o U32("mimc", Len(g[i].trackIds)) = PlaylistCells(extras[i])
      BY DEF PlaylistCells
    <3> QED BY <3>1, <3>2
  <2>5. f = [i \in 1 .. Len(extras) |-> f[i]]
    OBVIOUS
  <2> QED BY <2>1, <2>2, <2>4, <2>5
<1> HIDE DEF ids
<1>4. Len(es) = n /\ \A i \in 1 .. n :
        es[i] = IF here /\ i = 1 THEN LibraryCells ELSE PlaylistCells(a.entries[i].id)
  <2>1. CASE here
    <3>1. n # 0
      BY <1>2, <2>1
    <3>2. extras = Tail(ids)
      BY <2>1
    <3>3. Len(Tail(ids)) = n - 1 /\ \A i \in 1 .. n - 1 : Tail(ids)[i] = ids[i + 1]
      BY <1>1, <1>2, <3>1
    <3>4. n - 1 \in Nat /\ Len(extras) = n - 1
      BY <1>1, <3>1, <3>2, <3>3
    <3>5. \A i \in 1 .. n - 1 : f[i] = PlaylistCells(ids[i + 1])
      BY <3>2, <3>3, <3>4
    <3>6. es = <<LibraryCells>> \o [i \in 1 .. n - 1 |-> f[i]]
      BY <2>1, <3>4
    <3> HIDE DEF extras, f, es
    <3> DEFINE m == n - 1
    <3>7. m \in Nat /\ es = <<LibraryCells>> \o [i \in 1 .. m |-> f[i]] /\ n = m + 1
      BY <1>1, <3>4, <3>6
    <3> HIDE DEF m, n
    <3>8. Len(es) = n /\ es[1] = LibraryCells /\ \A i \in 1 .. m : es[i + 1] = f[i]
      BY <3>7, AfterOne
    <3>9. ASSUME NEW i \in 1 .. n, i # 1
          PROVE  es[i] = PlaylistCells(a.entries[i].id)
      <4>1. i - 1 \in 1 .. m /\ (i - 1) + 1 = i /\ i - 1 \in 1 .. n - 1
        BY <3>7, <3>9
      <4>2. es[i] = f[i - 1]
        BY <3>8, <4>1
      <4>3. f[i - 1] = PlaylistCells(ids[i])
        BY <3>5, <4>1
      <4> QED BY <1>2, <4>2, <4>3
    <3> QED BY <2>1, <3>8, <3>9
  <2>2. CASE ~here
    <3>1. extras = ids
      BY <2>2
    <3>2. Len(extras) = n
      BY <1>2, <3>1
    <3>3. f = [i \in 1 .. n |-> PlaylistCells(ids[i])]
      BY <3>1, <3>2
    <3>4. es = <<>> \o [i \in 1 .. n |-> f[i]]
      BY <2>2, <3>2
    <3> HIDE DEF extras, es
    <3>5. f \in Seq({PlaylistCells(ids[i]) : i \in 1 .. n}) /\ f = [i \in 1 .. n |-> f[i]]
      BY <1>1, <3>3
    <3>6. Len(f) = n /\ \A i \in 1 .. n : f[i] = PlaylistCells(ids[i])
      BY <1>1, <3>3
    <3> HIDE DEF f
    <3>7. <<>> \o f = f
      BY <3>5
    <3> QED BY <1>2, <2>2, <3>4, <3>5, <3>6, <3>7
  <2> QED BY <2>1, <2>2
<1> HIDE DEF es
<1>5. ASSUME NEW i \in 1 .. n
      PROVE  \E r : EntryHeard(es[i], r, a.entries[i])
  <2>1. a.entries[i].mpco = None
    BY <1>1
  <2>2. CASE here /\ i = 1
    <3>1. a.entries[i].id = LibraryId
      BY <1>2, <2>2
    <3>2. es[i] = LibraryCells
      BY <1>4, <2>2
    <3> QED BY <2>1, <3>1, <3>2, LibraryCellsHeard
  <2>3. CASE ~ (here /\ i = 1)
    <3>1. es[i] = PlaylistCells(a.entries[i].id)
      BY <1>4, <2>3
    <3>2. IsList(a.entries[i].id)
      <4>1. a.entries[i].id = LibraryId /\ i = 1 => here
        <5>1. ids = <<>> => n = 0
          BY <1>2
        <5> QED BY <1>1, <1>2, <5>1
      <4> QED BY <1>1, <2>3, <4>1
    <3> QED BY <2>1, <3>1, <3>2, PlaylistCellsHeard
  <2> QED BY <2>2, <2>3
<1>6. Typed(kind, "List") /\ kind # "malformed"
  BY TypesAre DEF Containers
<1> HIDE DEF kind, here
<1>7. Len(es) = Len(a.entries)
  BY <1>4
<1>8. Hears(Read(Words, ListingBody(kind, a.total, es)), kind, a)
  BY <1>5, <1>6, <1>7, HearsEntries
<1> QED BY <1>3, <1>8 DEF kind

\* The tag of a listing.
KindOf(endpoint) ==
  CASE endpoint = "items" -> "adbs" [] endpoint = "containers" -> "aply" [] OTHER -> "apso"

\* Whatever is asked for, the client reads the answer that the server gave.
LEMMA ResponseHeard ==
  ASSUME req \in Requests, dict = Words, NEW a, Sent(a)
  PROVE  /\ Hears(Heard(Response(a)).fields, KindOf(req.endpoint), a)
         /\ AsRead(Heard(Response(a))) = a
<1> DEFINE h == Heard(Response(a))
           kind == KindOf(req.endpoint)
<1>1. h.fields = Read(Words, Response(a).body)
  BY DEF Heard
<1> HIDE DEF h
<1>2. Hears(h.fields, kind, a)
  <2>1. CASE req.endpoint = "items"
    BY <1>1, <2>1, ItemsHeard DEF KindOf
  <2>2. CASE req.endpoint = "containers"
    BY <1>1, <2>2, ContainersHeard DEF KindOf
  <2>3. CASE req.endpoint = "container"
    BY <1>1, <2>3, IdsHeard, FullHeard DEF KindOf
  <2> QED BY <2>1, <2>2, <2>3, RequestType
<1> HIDE DEF kind
<1>3. PICK r : ListingGives(h.fields, kind, a.total, Len(a.entries), r) /\ Entered(r, a)
  BY <1>2 DEF Hears
<1>4. AsRead(h) = a
  BY <1>3, AsReadIs
<1> QED BY <1>2, <1>4 DEF h, kind

\* A text is legible however it was written.
LEMMA TextReads ==
  ASSUME NEW e, NEW name, Writable(name), NEW cs \in {Utf8, MacRoman},
         Seen(e, "minm", Encode(cs, name))
  PROVE  NameReads(cs, e, name)
<1>1. Legible(cs, name, Shown(cs, Encode(cs, name)))
  BY EncodedIsLegible
<1> QED BY <1>1 DEF NameReads, Seen

\* Only a client that asks for it has answers as a Mac writes them.
LEMMA MacAsked ==
  ASSUME Cs = MacRoman
  PROVE  ToSet(hdr.accept) \cap {"x-mac-roman", "macintosh", "mac-roman", "macroman"} # {}
<1>1. Utf8 # MacRoman
  BY DEF Utf8, MacRoman
<1> QED BY <1>1 DEF Cs, CharsetFromAccept

\* What an entry says of a track or a list is read as it was meant.
LEMMA ShowsReads ==
  ASSUME NEW r, NEW id, ShowsIs(r, id), Seen(r, "miid", id)
  PROVE  /\ req.endpoint = "items" /\ id \in Known =>
              TrackReads(Cs, r, AsListed(Meta[The(r, "miid")]))
         /\ req.endpoint = "container" /\ Full /\ id \in Known =>
              TrackReads(Cs, r, Meta[The(r, "miid")])
         /\ req.endpoint = "containers" =>
              IF Has(r, "abpl") THEN NameReads(Cs, r, Library) /\ The(r, "miid") = LibraryId
              ELSE NameReads(Cs, r, ListOf(The(r, "miid")).title)
<1>1. The(r, "miid") = id
  BY DEF Seen
<1>2. Cs \in {Utf8, MacRoman}
  BY CsIs
<1> DEFINE cs == Cs
           t == Meta[id]
           l == AsListed(t)
<1>3. ASSUME req.endpoint = "items", id \in Known
      PROVE  TrackReads(cs, r, l)
  <2>1. IsTrack(t) /\ TrackFits(t)
    BY <1>3, KnownIs
  <2>2. TrackTold(r, l, cs)
    BY <1>3 DEF ShowsIs
  <2> HIDE DEF t, cs
  <2>3. IsTrack(l) /\ TrackFits(l)
    BY <2>1, ListedIsTrack, ListedFits
  <2> HIDE DEF l
  <2>4. cs \in {Utf8, MacRoman}
    BY <1>2 DEF cs
  <2> QED BY <2>2, <2>3, <2>4, ToldReads
<1>4. ASSUME req.endpoint = "container", Full, id \in Known
      PROVE  TrackReads(cs, r, t)
  <2>1. IsTrack(t) /\ TrackFits(t)
    BY <1>4, KnownIs
  <2>2. TrackTold(r, t, cs)
    BY <1>4 DEF ShowsIs
  <2> HIDE DEF t, cs
  <2>3. cs \in {Utf8, MacRoman}
    BY <1>2 DEF cs
  <2> QED BY <2>1, <2>2, <2>3, ToldReads
<1>5. ASSUME req.endpoint = "containers"
      PROVE  IF Has(r, "abpl") THEN NameReads(cs, r, Library) /\ id = LibraryId
             ELSE NameReads(cs, r, ListOf(id).title)
  <2>1. CASE Has(r, "abpl")
    <3>1. id = LibraryId /\ Seen(r, "minm", Encode(Cs, Library))
      BY <1>5, <2>1 DEF ShowsIs
    <3>2. Writable(Library)
      BY TextAssumption
    <3> QED BY <1>2, <2>1, <3>1, <3>2, TextReads
  <2>2. CASE ~Has(r, "abpl")
    <3>1. IsList(id) /\ Seen(r, "minm", Encode(Cs, ListOf(id).title))
      BY <1>5, <2>2 DEF ShowsIs
    <3>2. Writable(ListOf(id).title)
      BY <3>1, ListOfIs
    <3> QED BY <1>2, <2>2, <3>1, <3>2, TextReads
  <2> QED BY <2>1, <2>2
<1> QED BY <1>1, <1>3, <1>4, <1>5

\* Whatever is listed is read as it was meant.
LEMMA ListingConveyed ==
  ASSUME req \in Requests, dict = Words, NEW a, Sent(a)
  PROVE  Conveyed(Heard(Response(a)))
<1> DEFINE h == Heard(Response(a))
           fields == h.fields
           cs == h.charset
           kind == KindOf(req.endpoint)
           n == Len(a.entries)
<1>1. Hears(fields, kind, a)
  BY ResponseHeard
<1>2. PICK r : /\ ListingGives(fields, kind, a.total, n, r) /\ Entered(r, a)
               /\ \A i \in 1 .. n : ShowsIs(r[i], a.entries[i].id)
  BY <1>1 DEF Hears
<1>3. kind \in {"adbs", "aply", "apso"}
  BY DEF KindOf
<1>4. /\ kind = "adbs" => req.endpoint = "items"
      /\ kind = "aply" => req.endpoint = "containers"
      /\ kind = "apso" => req.endpoint = "container"
  BY RequestType DEF KindOf
<1>5. cs = Cs \/ (cs = Utf8 /\ req.endpoint = "container" /\ ~Full)
  <2>1. cs = Response(a).charset
    BY DEF Heard
  <2>2. CASE req.endpoint = "items"
    BY <2>1, <2>2 DEF Response, DmapResponseCs
  <2>3. CASE req.endpoint = "containers"
    BY <2>1, <2>3 DEF Response, DmapResponseCs
  <2>4. CASE req.endpoint = "container"
    BY <2>1, <2>4 DEF Response, DmapResponseCs, DmapResponse, Full
  <2> QED BY <2>2, <2>3, <2>4, RequestType
<1>6. n \in Nat
  BY MaxIs DEF Sent
<1>7. /\ req.endpoint = "items" => \A i \in 1 .. n : a.entries[i].id \in Known
      /\ req.endpoint = "container" /\ Full => \A i \in 1 .. n : a.entries[i].id \in Known
  BY DEF Sent
<1> DEFINE Fit == /\ WellFormed(fields)
                  /\ cs = MacRoman => ToSet(hdr.accept) \cap
                       {"x-mac-roman", "macintosh", "mac-roman", "macroman"} # {}
                  /\ The(fields[1].value, "mstt") = 200
           Served == Has(fields, "msrv") => NameReads(cs, fields[1].value, Name)
           Based == Has(fields, "avdb") => \A e \in ListedIn(fields, "avdb") :
                      \E i \in 1 .. Len(Databases) : /\ The(e, "miid") = Databases[i].id
                                                    /\ NameReads(cs, e, Databases[i].name)
           Tracked == Has(fields, "adbs") => \A e \in ListedIn(fields, "adbs") :
                        TrackReads(cs, e, AsListed(Meta[The(e, "miid")]))
           Played == Has(fields, "apso") /\ Full => \A e \in ListedIn(fields, "apso") :
                       TrackReads(cs, e, Meta[The(e, "miid")])
           Titled == Has(fields, "aply") => \A e \in ListedIn(fields, "aply") :
             IF Has(e, "abpl") THEN NameReads(cs, e, Library) /\ The(e, "miid") = LibraryId
             ELSE NameReads(cs, e, ListOf(The(e, "miid")).title)
<1>8. Fit /\ Served /\ Based /\ Tracked /\ Played /\ Titled => Conveyed(h)
  BY DEF Conveyed, Body, Full
<1> SUFFICES Conveyed(h)
  BY DEF h
<1> HIDE DEF Fit, Served, Based, Tracked, Played, Titled
<1> HIDE DEF h, fields, cs, kind, n
<1>9. /\ WellFormed(fields) /\ The(fields[1].value, "mstt") = 200
      /\ \A tag : Has(fields, tag) <=> tag = kind
      /\ \A e \in ListedIn(fields, kind) : \E i \in 1 .. n : e = r[i]
  <2>1. kind # "malformed"
    BY <1>3
  <2>2. PICK total : ListingGives(fields, kind, total, n, r)
    BY <1>2
  <2>3. WellFormed(fields)
    BY <1>6, <2>1, <2>2, ListingIs
  <2>4. The(fields[1].value, "mstt") = 200
    BY <2>2 DEF ListingGives, Seen
  <2>5. \A tag : Has(fields, tag) <=> tag = kind
    BY <1>6, <2>1, <2>2, ListingIs
  <2>6. \A e \in ListedIn(fields, kind) : \E i \in 1 .. n : e = r[i]
    BY <1>6, <2>1, <2>2, ListingIs
  <2> QED BY <2>3, <2>4, <2>5, <2>6
<1>10. cs = MacRoman =>
         ToSet(hdr.accept) \cap {"x-mac-roman", "macintosh", "mac-roman", "macroman"} # {}
  <2>1. Utf8 # MacRoman
    BY DEF Utf8, MacRoman
  <2> QED BY <1>5, <2>1, MacAsked
<1>f. Fit /\ Served /\ Based
  <2>1. Fit
    BY <1>9, <1>10 DEF Fit
  <2>2. ~Has(fields, "msrv") /\ ~Has(fields, "avdb")
    BY <1>3, <1>9
  <2> QED BY <2>1, <2>2 DEF Served, Based
<1>h. /\ Has(fields, "adbs") <=> kind = "adbs"
      /\ Has(fields, "apso") <=> kind = "apso"
      /\ Has(fields, "aply") <=> kind = "aply"
  BY <1>9
<1>11. \A e \in ListedIn(fields, kind) : \E id :
         /\ ShowsIs(e, id) /\ Seen(e, "miid", id)
         /\ req.endpoint = "items" => id \in Known
         /\ req.endpoint = "container" /\ Full => id \in Known
  <2> TAKE e \in ListedIn(fields, kind)
  <2>1. PICK i \in 1 .. n : e = r[i]
    BY <1>9
  <2>2. Seen(r[i], "miid", a.entries[i].id)
    BY <1>2 DEF Entered, n
  <2> QED BY <1>2, <1>7, <2>1, <2>2
<1>12. CASE kind = "adbs"
  <2>1. req.endpoint = "items" /\ cs = Cs
    BY <1>4, <1>5, <1>12
  <2>2. \A e \in ListedIn(fields, "adbs") : TrackReads(cs, e, AsListed(Meta[The(e, "miid")]))
    BY <1>11, <1>12, <2>1, ShowsReads
  <2>3. Tracked
    BY <2>2 DEF Tracked
  <2>4. Played /\ Titled
    BY <1>h, <1>12 DEF Played, Titled
  <2> QED BY <1>8, <1>f, <2>3, <2>4
<1>13. CASE kind = "aply"
  <2>1. req.endpoint = "containers" /\ cs = Cs
    BY <1>4, <1>5, <1>13
  <2>2. \A e \in ListedIn(fields, "aply") :
          IF Has(e, "abpl") THEN NameReads(cs, e, Library) /\ The(e, "miid") = LibraryId
          ELSE NameReads(cs, e, ListOf(The(e, "miid")).title)
    BY <1>11, <1>13, <2>1, ShowsReads
  <2>3. Titled
    BY <2>2 DEF Titled
  <2>4. Played /\ Tracked
    BY <1>h, <1>13 DEF Played, Tracked
  <2> QED BY <1>8, <1>f, <2>3, <2>4
<1>14. CASE kind = "apso"
  <2>1. req.endpoint = "container" /\ (Full => cs = Cs)
    BY <1>4, <1>5, <1>14
  <2>2. Full => \A e \in ListedIn(fields, "apso") : TrackReads(cs, e, Meta[The(e, "miid")])
    BY <1>11, <1>14, <2>1, ShowsReads
  <2>3. Played
    BY <2>2 DEF Played
  <2>4. Tracked /\ Titled
    BY <1>h, <1>14 DEF Tracked, Titled
  <2> QED BY <1>8, <1>f, <2>3, <2>4
<1> QED BY <1>3, <1>12, <1>13, <1>14

(***************************************************************************)
(* The answers before the listings                                         *)
(***************************************************************************)
\* A container of two numbers is read as it was made.
LEMMA PairReads ==
  ASSUME NEW kind, Typed(kind, "List"), kind # "malformed", NEW tag, Typed(tag, "Int"),
         tag # "malformed", NEW v \in Nat, v <= U32Max
  PROVE  Read(Words, Container(kind, U32("mstt", 200) \o U32(tag, v)))
           = One(kind, One("mstt", 200) \o One(tag, v))
<1> DEFINE s == U32("mstt", 200) \o U32(tag, v)
           r == One("mstt", 200) \o One(tag, v)
<1>1. Typed("mstt", "Int")
  BY TypesAre DEF Ints
<1>2. 200 <= U32Max /\ 9 + 9 <= U32Max
  BY MaxIs
<1>3. Part(U32("mstt", 200), One("mstt", 200), 9)
  BY <1>1, <1>2, PartInt
<1>4. Part(U32(tag, v), One(tag, v), 9)
  BY PartInt
<1>5. Part(s, r, 9 + 9)
  BY <1>3, <1>4, PartBoth
<1> HIDE DEF s, r
<1>6. Part(Container(kind, s), One(kind, r), 5 + (9 + 9))
  BY <1>2, <1>5, PartContainer
<1>7. ReadsAs(Words, Container(kind, s), One(kind, r))
  BY <1>6 DEF Part
<1>8. Read(Words, Container(kind, s)) = One(kind, r)
  BY <1>7, ReadOf
<1> QED BY <1>8 DEF s, r

\* An answer that lists nothing is read as it was meant, if it says that all is
\* well, and the name of the server if it is to.
LEMMA PlainConveyed ==
  ASSUME NEW h, NEW kind, kind \notin {"malformed", "avdb", "adbs", "apso", "aply"}, NEW b,
         h.fields = One(kind, b), h.charset = Utf8, Seen(b, "mstt", 200), Unseen(b, "mrco"),
         kind = "msrv" => Seen(b, "minm", Encode(Utf8, Name))
  PROVE  Conveyed(h) /\ ~Has(h.fields, "apso")
<1> DEFINE fields == h.fields
           cs == h.charset
<1>1. Len(fields) = 1 /\ fields[1].value = b
  BY DEF One
<1>2. \A tag : Has(fields, tag) <=> tag = kind
  BY HasOne
<1>3. WellFormed(fields)
  BY <1>1, <1>2 DEF WellFormed, Unseen, dmap
<1>4. cs # MacRoman
  BY DEF Utf8, MacRoman
<1>5. The(Body(h), "mstt") = 200
  BY <1>1 DEF Body, Seen
<1>6. Has(fields, "msrv") => NameReads(cs, Body(h), Name)
  <2>1. Writable(Name)
    BY TextAssumption
  <2>2. kind = "msrv" => NameReads(Utf8, b, Name)
    BY <2>1, TextReads
  <2> QED BY <1>1, <1>2, <2>2 DEF Body
<1>7. /\ ~Has(fields, "avdb") /\ ~Has(fields, "adbs")
      /\ ~Has(fields, "apso") /\ ~Has(fields, "aply")
  BY <1>2
<1> QED BY <1>3, <1>4, <1>5, <1>6, <1>7 DEF Conveyed

\* So is a pair of numbers.
LEMMA PairConveyed ==
  ASSUME NEW h, NEW kind, kind \notin {"malformed", "avdb", "adbs", "apso", "aply", "msrv"},
         NEW tag, tag \notin {"mstt", "mrco"}, NEW v,
         h.fields = One(kind, One("mstt", 200) \o One(tag, v)), h.charset = Utf8
  PROVE  Conveyed(h) /\ ~Has(h.fields, "apso")
<1> DEFINE b == One("mstt", 200) \o One(tag, v)
<1>1. /\ Seen(One("mstt", 200), "mstt", 200) /\ Unseen(One("mstt", 200), "mrco")
      /\ IsSeq(One(tag, v)) /\ Unseen(One(tag, v), "mrco")
  BY SeenOne
<1>2. Seen(b, "mstt", 200) /\ Unseen(b, "mrco")
  BY <1>1, SeenFirst, UnseenBoth
<1> HIDE DEF b
<1>3. h.fields = One(kind, b)
  BY DEF b
<1> QED BY <1>2, <1>3, PlainConveyed

\* A piece that counts neither databases nor entries.
Quiet(s, n) == \E r : Part(s, r, n) /\ Unseen(r, "msdc") /\ Unseen(r, "mrco")

\* One that also says that all is well, and the name of the server.
Greets(s, n) ==
  \E r : /\ Part(s, r, n) /\ Unseen(r, "msdc") /\ Unseen(r, "mrco")
         /\ Seen(r, "mstt", 200) /\ Seen(r, "minm", Encode(Utf8, Name))

\* Quiet pieces in a row are quiet, and so are numbers and texts of other tags.
LEMMA QuietBoth ==
  ASSUME NEW a, NEW m, Quiet(a, m), NEW b, NEW n, Quiet(b, n)
  PROVE  Quiet(a \o b, m + n)
<1>1. PICK r : Part(a, r, m) /\ Unseen(r, "msdc") /\ Unseen(r, "mrco")
  BY DEF Quiet
<1>2. PICK q : Part(b, q, n) /\ Unseen(q, "msdc") /\ Unseen(q, "mrco")
  BY DEF Quiet
<1>3. Part(a \o b, r \o q, m + n) /\ Unseen(r \o q, "msdc") /\ Unseen(r \o q, "mrco")
  BY <1>1, <1>2, PartBoth, UnseenBoth
<1> QED BY <1>3 DEF Quiet

LEMMA GreetsBoth ==
  ASSUME NEW a, NEW m, Greets(a, m), NEW b, NEW n, Quiet(b, n)
  PROVE  Greets(a \o b, m + n)
<1>1. PICK r : /\ Part(a, r, m) /\ Unseen(r, "msdc") /\ Unseen(r, "mrco")
               /\ Seen(r, "mstt", 200) /\ Seen(r, "minm", Encode(Utf8, Name))
  BY DEF Greets
<1>2. PICK q : Part(b, q, n) /\ Unseen(q, "msdc") /\ Unseen(q, "mrco")
  BY DEF Quiet
<1>3. Part(a \o b, r \o q, m + n) /\ Unseen(r \o q, "msdc") /\ Unseen(r \o q, "mrco")
  BY <1>1, <1>2, PartBoth, UnseenBoth
<1>4. Seen(r \o q, "mstt", 200) /\ Seen(r \o q, "minm", Encode(Utf8, Name))
  BY <1>1, <1>2, SeenFirst DEF Unseen
<1> QED BY <1>3, <1>4 DEF Greets

LEMMA QuietOne ==
  ASSUME NEW s, NEW tag, tag \notin {"msdc", "mrco"}, NEW v, NEW n, Part(s, One(tag, v), n)
  PROVE  Quiet(s, n)
BY SeenOne DEF Quiet

LEMMA QuietNumber ==
  ASSUME NEW tag, tag \notin {"msdc", "mrco"}, tag # "malformed", NEW v \in Nat
  PROVE  /\ Typed(tag, "Byte") => Quiet(U8(tag, v), 6)
         /\ Typed(tag, "Short") => Quiet(U16(tag, v), 7)
         /\ Typed(tag, "Version") => Quiet(U32(tag, v), 9)
         /\ Typed(tag, "Int") /\ v <= U32Max => Quiet(U32(tag, v), 9)
BY PartNumber, PartInt, QuietOne

\* The tag of the server's own features is not in the dictionary.
LEMMA FeaturesQuiet ==
  ASSUME NEW v \in Nat
  PROVE  Part(U32(sharonFeatures, v), <<>>, 9)
<1> DEFINE tag == sharonFeatures
           d == Digits(v, 4)
<1>1. tag \notin DOMAIN Words
  <2>1. DOMAIN Words = {FieldTable[i][1] : i \in 1 .. 55}
    BY DictionaryIs DEF Words
  <2>2. \A i \in 1 .. 55 : FieldTable[i][1] # "shrf"
    BY DEF FieldTable, dmap, list, daap
  <2> HIDE DEF Words, FieldTable
  <2> QED BY <2>1, <2>2 DEF sharonFeatures
<1> HIDE DEF tag
<1>2. IsSeq(d) /\ Len(d) = 4
  BY DigitsAre DEF IsSeq
<1>3. Short(d)
  <2>1. U32Max \in Nat /\ U32Max >= 65535
    BY MaxIs
  <2>2. 4 \in Nat /\ 4 <= U32Max
    BY <2>1
  <2>3. Len(d) \in Nat /\ Len(d) <= U32Max
    BY <1>2, <2>2
  <2> QED BY <2>3, ShortIs
<1>4. U32(tag, v) = Field(tag, d)
  BY DEF U32
<1> HIDE DEF d, Words
<1>5. ReadsAs(Words, Field(tag, d), <<>>)
  BY <1>1, <1>2, <1>3, UnknownReads
<1>6. Len(Field(tag, d)) = 9 /\ IsSeq(Field(tag, d))
  <2>1. Len(Field(tag, d)) = 5 + Len(d) /\ IsSeq(Field(tag, d))
    BY <1>2, FieldIsSeq
  <2>2. 5 + 4 = 9
    OBVIOUS
  <2> QED BY <1>2, <2>1, <2>2
<1>7. ~Has(<<>>, "malformed")
  BY DEF Has
<1>8. Part(U32(tag, v), <<>>, 9)
  BY <1>4, <1>5, <1>6, <1>7 DEF Part
<1> QED BY <1>8 DEF tag

\* /server-info, up to the number of databases.
InfoCells(dialect) ==
  U32("mstt", 200) \o U32("mpro", dialect.mpro)
    \o WriteString("minm", Name, Utf8)
    \o U32("apro", dialect.apro)
    \o U16("ated", 7) \o U16("asgr", 3)
    \o U8("msed", 0) \o U8("mslr", 1)
    \o U32("mstm", 1800) \o U8("msal", 1)
    \o U8("msau", 0) \o U8("msup", 1)
    \o U8("mspi", 1) \o U8("msex", 1)
    \o U8("msbr", 1) \o U8("msqy", 1) \o U8("msix", 1)

\* Whatever version a client claims, it is answered with one.
LEMMA DialectIs ==
  ASSUME NEW header
  PROVE  Dialect(header).mpro \in Nat /\ Dialect(header).apro \in Nat
<1>1. \A major, minor \in Nat : Version(major, minor) \in Nat
  BY ByteAssumption DEF Version
<1>2. /\ Version(1, 0) \in Nat /\ Version(2, 0) \in Nat /\ Version(2, 10) \in Nat
      /\ Version(3, 12) \in Nat
  BY <1>1
<1> QED BY <1>2 DEF Dialect

\* It begins with the status, the version and the name.
LEMMA HeadGreets ==
  ASSUME NEW v \in Nat
  PROVE  Greets(U32("mstt", 200) \o U32("mpro", v) \o WriteString("minm", Name, Utf8),
                9 + 9 + (5 + MaxText))
<1> DEFINE x == One("mstt", 200)
           y == One("mpro", Number(Digits(v, 4)))
           z == One("minm", Encode(Utf8, Name))
<1>1. Typed("mstt", "Int") /\ Typed("mpro", "Version") /\ Typed("minm", "String")
  BY TypesAre DEF Ints, Versions, Texts
<1>2. Part(U32("mstt", 200), x, 9)
  <2>1. 200 <= U32Max
    BY MaxIs
  <2> QED BY <1>1, <2>1, PartInt
<1>3. Part(U32("mpro", v), y, 9)
  BY <1>1, PartNumber
<1>4. Part(WriteString("minm", Name, Utf8), z, 5 + MaxText)
  BY <1>1, WireAssumption, PartText
<1>5. /\ Seen(x, "mstt", 200) /\ Unseen(x, "minm") /\ Unseen(x, "msdc") /\ Unseen(x, "mrco")
      /\ Unseen(y, "minm") /\ Unseen(y, "msdc") /\ Unseen(y, "mrco")
      /\ Seen(z, "minm", Encode(Utf8, Name)) /\ Unseen(z, "msdc") /\ Unseen(z, "mrco")
  BY SeenOne
<1> HIDE DEF x, y, z
<1>6. Part(U32("mstt", 200) \o U32("mpro", v), x \o y, 9 + 9)
  BY <1>2, <1>3, PartBoth
<1>7. Seen(x \o y, "mstt", 200)
  BY <1>5, SeenFirst DEF Unseen
<1>8. Unseen(x \o y, "minm") /\ Unseen(x \o y, "msdc") /\ Unseen(x \o y, "mrco")
  BY <1>5, UnseenBoth
<1>9. Part(U32("mstt", 200) \o U32("mpro", v) \o WriteString("minm", Name, Utf8), x \o y \o z,
           9 + 9 + (5 + MaxText))
  BY <1>4, <1>6, PartBoth
<1>10. Seen(x \o y \o z, "mstt", 200) /\ Seen(x \o y \o z, "minm", Encode(Utf8, Name))
  BY <1>5, <1>7, <1>8, SeenFirst, SeenSecond DEF Unseen
<1>11. Unseen(x \o y \o z, "msdc") /\ Unseen(x \o y \o z, "mrco")
  BY <1>5, <1>8, UnseenBoth
<1> QED BY <1>9, <1>10, <1>11 DEF Greets

\* What precedes the number of databases does not say it.
LEMMA InfoGreets ==
  ASSUME NEW dialect, dialect.mpro \in Nat, dialect.apro \in Nat
  PROVE  Greets(InfoCells(dialect), 115 + MaxText)
<1> DEFINE p3 == U32("mstt", 200) \o U32("mpro", dialect.mpro) \o WriteString("minm", Name, Utf8)
           p4 == p3 \o U32("apro", dialect.apro)
           p5 == p4 \o U16("ated", 7)
           p6 == p5 \o U16("asgr", 3)
           p7 == p6 \o U8("msed", 0)
           p8 == p7 \o U8("mslr", 1)
           p9 == p8 \o U32("mstm", 1800)
           p10 == p9 \o U8("msal", 1)
           p11 == p10 \o U8("msau", 0)
           p12 == p11 \o U8("msup", 1)
           p13 == p12 \o U8("mspi", 1)
           p14 == p13 \o U8("msex", 1)
           p15 == p14 \o U8("msbr", 1)
           p16 == p15 \o U8("msqy", 1)
           p17 == p16 \o U8("msix", 1)
<1>0. InfoCells(dialect) = p17
  BY DEF InfoCells
<1>1. /\ Typed("mstm", "Int") /\ Typed("apro", "Version")
      /\ Typed("ated", "Short") /\ Typed("asgr", "Short")
  BY TypesAre DEF Ints, Versions, Shorts
<1>2. /\ Typed("msed", "Byte") /\ Typed("mslr", "Byte") /\ Typed("msal", "Byte")
      /\ Typed("msau", "Byte") /\ Typed("msup", "Byte") /\ Typed("mspi", "Byte")
      /\ Typed("msex", "Byte") /\ Typed("msbr", "Byte") /\ Typed("msqy", "Byte")
      /\ Typed("msix", "Byte")
  BY TypesAre DEF Bytes
<1>3. 1800 <= U32Max
  BY MaxIs
<1>4. /\ Quiet(U32("mstm", 1800), 9) /\ Quiet(U32("apro", dialect.apro), 9)
      /\ Quiet(U16("ated", 7), 7) /\ Quiet(U16("asgr", 3), 7)
  BY <1>1, <1>3, QuietNumber
<1>5. /\ Quiet(U8("msed", 0), 6) /\ Quiet(U8("mslr", 1), 6) /\ Quiet(U8("msal", 1), 6)
      /\ Quiet(U8("msau", 0), 6) /\ Quiet(U8("msup", 1), 6) /\ Quiet(U8("mspi", 1), 6)
      /\ Quiet(U8("msex", 1), 6) /\ Quiet(U8("msbr", 1), 6) /\ Quiet(U8("msqy", 1), 6)
      /\ Quiet(U8("msix", 1), 6)
  BY <1>2, QuietNumber
<1>9. Greets(p3, 9 + 9 + (5 + MaxText))
  BY HeadGreets
<1> DEFINE k == 9 + 9 + (5 + MaxText)
<1>10. Greets(p3, k) /\ k \in Nat /\ k = 23 + MaxText
  BY <1>9, MaxIs
<1> HIDE DEF p3, k
<1>11. Greets(p4, k + 9)
  BY <1>4, <1>10, GreetsBoth
<1> HIDE DEF p4
<1>12. Greets(p5, k + 9 + 7)
  BY <1>4, <1>11, GreetsBoth
<1> HIDE DEF p5
<1>13. Greets(p6, k + 9 + 7 + 7)
  BY <1>4, <1>12, GreetsBoth
<1> HIDE DEF p6
<1>14. Greets(p7, k + 9 + 7 + 7 + 6)
  BY <1>5, <1>13, GreetsBoth
<1> HIDE DEF p7
<1>15. Greets(p8, k + 9 + 7 + 7 + 6 + 6)
  BY <1>5, <1>14, GreetsBoth
<1> HIDE DEF p8
<1>16. Greets(p9, k + 9 + 7 + 7 + 6 + 6 + 9)
  BY <1>4, <1>15, GreetsBoth
<1> DEFINE m == k + 9 + 7 + 7 + 6 + 6 + 9
<1>17. Greets(p9, m) /\ m \in Nat /\ m = 67 + MaxText
  BY <1>10, <1>16, MaxIs
<1> HIDE DEF p9, m
<1>18. Greets(p10, m + 6)
  BY <1>5, <1>17, GreetsBoth
<1> HIDE DEF p10
<1>19. Greets(p11, m + 6 + 6)
  BY <1>5, <1>18, GreetsBoth
<1> HIDE DEF p11
<1>20. Greets(p12, m + 6 + 6 + 6)
  BY <1>5, <1>19, GreetsBoth
<1> HIDE DEF p12
<1>21. Greets(p13, m + 6 + 6 + 6 + 6)
  BY <1>5, <1>20, GreetsBoth
<1> HIDE DEF p13
<1>22. Greets(p14, m + 6 + 6 + 6 + 6 + 6)
  BY <1>5, <1>21, GreetsBoth
<1> HIDE DEF p14
<1>23. Greets(p15, m + 6 + 6 + 6 + 6 + 6 + 6)
  BY <1>5, <1>22, GreetsBoth
<1> HIDE DEF p15
<1>24. Greets(p16, m + 6 + 6 + 6 + 6 + 6 + 6 + 6)
  BY <1>5, <1>23, GreetsBoth
<1> HIDE DEF p16
<1>25. Greets(p17, m + 6 + 6 + 6 + 6 + 6 + 6 + 6 + 6)
  BY <1>5, <1>24, GreetsBoth
<1> HIDE DEF p17
<1>26. m + 6 + 6 + 6 + 6 + 6 + 6 + 6 + 6 = 115 + MaxText
  BY <1>17, MaxIs
<1> QED BY <1>0, <1>25, <1>26

\* /server-info names the number of databases last but one.
LEMMA ServerInfoBodyIs ==
  ASSUME NEW n, NEW dialect
  PROVE  ServerInfoBody(Name, n, dialect)
           = Container("msrv", InfoCells(dialect) \o U32("msdc", n) \o U32(sharonFeatures, Query + Sort))
BY DEF ServerInfoBody, InfoCells, dmap, list, daap

\* The client hears from /server-info how many databases there are.
LEMMA ServerInfoReads ==
  ASSUME NEW n \in Nat, n <= U32Max, NEW dialect, dialect.mpro \in Nat, dialect.apro \in Nat
  PROVE  \E b : /\ Read(Words, ServerInfoBody(Name, n, dialect)) = One("msrv", b)
                /\ The(b, "msdc") = n /\ Unseen(b, "mrco")
                /\ Seen(b, "mstt", 200) /\ Seen(b, "minm", Encode(Utf8, Name))
<1> DEFINE kind == "msrv"
           tag == "msdc"
           s == InfoCells(dialect)
           u == U32(tag, n)
           w == U32(sharonFeatures, Query + Sort)
           m == 115 + MaxText
           named == Encode(Utf8, Name)
<1>1. PICK r : /\ Part(s, r, m) /\ Unseen(r, tag) /\ Unseen(r, "mrco")
               /\ Seen(r, "mstt", 200) /\ Seen(r, "minm", named)
  BY InfoGreets DEF Greets
<1>2. Typed(kind, "List") /\ kind # "malformed"
  BY TypesAre DEF Containers
<1>3. Typed(tag, "Int") /\ tag # "malformed"
  BY TypesAre DEF Ints
<1>4. Part(w, <<>>, 9)
  BY FeaturesQuiet DEF Query, Sort
<1>5. ServerInfoBody(Name, n, dialect) = Container(kind, s \o u \o w)
  BY ServerInfoBodyIs
<1>6. m \in Nat /\ m + 9 + 9 \in Nat /\ m + 9 + 9 <= U32Max
  <2>1. MaxText \in Nat /\ U32Max \in Nat /\ 6 * MaxText + 150 <= U32Max
    BY MaxIs
  <2> QED BY <2>1
<1>6a. tag # "mrco"
  OBVIOUS
<1> HIDE DEF kind, tag, s, w, m, named
<1>7. Part(u, One(tag, n), 9)
  BY <1>3, PartInt
<1>8. Seen(One(tag, n), tag, n) /\ IsSeq(One(tag, n)) /\ Unseen(One(tag, n), "mrco")
  BY <1>6a, SeenOne
<1> DEFINE q == One(tag, n)
<1> HIDE DEF u, q
<1>9. Part(s \o u, r \o q, m + 9) /\ Seen(r \o q, tag, n)
  BY <1>1, <1>7, <1>8, PartBoth, SeenSecond DEF q
<1>9a. Seen(r \o q, "mstt", 200) /\ Seen(r \o q, "minm", named) /\ Unseen(r \o q, "mrco")
  BY <1>1, <1>8, SeenFirst, UnseenBoth DEF q
<1>10. Part(s \o u \o w, r \o q \o <<>>, m + 9 + 9)
  BY <1>4, <1>9, PartBoth
<1>11. Seen(r \o q \o <<>>, tag, n)
  <2>1. IsSeq(<<>>)
    BY <1>4, PartSeq
  <2> QED BY <1>9, <2>1, SeenFirst
<1>11a. /\ Seen(r \o q \o <<>>, "mstt", 200) /\ Seen(r \o q \o <<>>, "minm", named)
        /\ Unseen(r \o q \o <<>>, "mrco")
  <2>1. IsSeq(<<>>) /\ Unseen(<<>>, "mrco")
    BY <1>4, PartSeq DEF Unseen, Has
  <2> QED BY <1>9a, <2>1, SeenFirst, UnseenBoth
<1> DEFINE b == r \o q \o <<>>
           k == m + 9 + 9
           x == s \o u \o w
<1>12. Part(x, b, k) /\ Seen(b, tag, n) /\ k <= U32Max
  BY <1>6, <1>10, <1>11
<1>12a. Seen(b, "mstt", 200) /\ Seen(b, "minm", named) /\ Unseen(b, "mrco")
  BY <1>11a
<1> HIDE DEF b, k, x
<1>13. Part(Container(kind, x), One(kind, b), 5 + k)
  BY <1>2, <1>12, PartContainer
<1>14. ReadsAs(Words, Container(kind, x), One(kind, b))
  BY <1>13 DEF Part
<1>15. Read(Words, Container(kind, x)) = One(kind, b)
  BY <1>14, ReadOf
<1>16. The(b, tag) = n
  BY <1>12 DEF Seen
<1> QED BY <1>5, <1>12a, <1>15, <1>16 DEF x, kind, tag, named

\* A database as it is written.
DatabaseCells(i, m, n) ==
  Named(Databases[i].id, Databases[i].name, Cs) \o U32("mimc", m) \o U32("mctc", n)

\* /databases lists the databases.
LEMMA DatabasesBodyIs ==
  ASSUME NEW m, NEW n
  PROVE  DatabasesBody(Databases, m, n, Cs)
           = ListingBody("avdb", Len(Databases), [i \in 1 .. Len(Databases) |-> DatabaseCells(i, m, n)])
BY DEF DatabasesBody, DatabaseCells, dmap, list

\* What is told of the databases: their ids and names.
DatabasesTold(fields) ==
  LET N == Len(Databases)
  IN  \E r : /\ ListingGives(fields, "avdb", N, N, r)
             /\ \A i \in 1 .. N : /\ Seen(r[i], "miid", Databases[i].id)
                                 /\ Seen(r[i], "minm", Encode(Cs, Databases[i].name))

\* The client hears from /databases how many databases, tracks and playlists
\* there are.
LEMMA DatabasesRead ==
  ASSUME NEW m \in Nat, m <= U32Max, NEW n \in Nat, n <= U32Max
  PROVE  \E b : /\ Read(Words, DatabasesBody(Databases, m, n, Cs)) = One("avdb", b)
                /\ The(b, "mtco") = Len(Databases)
                /\ The(The(b, "mlcl")[1].value, "mimc") = m
                /\ The(The(b, "mlcl")[1].value, "mctc") = n
                /\ DatabasesTold(Read(Words, DatabasesBody(Databases, m, n, Cs)))
<1> DEFINE N == Len(Databases)
           kind == "avdb"
           Reads(i, q) == /\ Part(DatabaseCells(i, m, n), q, EntryMax)
                          /\ Seen(q, "mimc", m) /\ Seen(q, "mctc", n)
                          /\ Seen(q, "miid", Databases[i].id)
                          /\ Seen(q, "minm", Encode(Cs, Databases[i].name))
           r == [i \in 1 .. N |-> CHOOSE q : Reads(i, q)]
           es == [i \in 1 .. N |-> DatabaseCells(i, m, n)]
<1>1. N \in 1 .. Longest /\ Longest \in Nat /\ Longest <= U32Max /\ U32Max \in Nat
  BY WireAssumption, MaxIs
<1>2. N \in Nat /\ 1 <= N /\ N <= Longest /\ N <= U32Max
  BY <1>1
<1>3. ASSUME NEW i \in 1 .. N PROVE \E q : Reads(i, q)
  <2> DEFINE id == Databases[i].id
             name == Databases[i].name
  <2>1. id \in 0 .. U32Max /\ IsText(name)
    BY WireAssumption
  <2>2. id \in Nat /\ id <= U32Max
    BY <1>1, <2>1
  <2>3. DatabaseCells(i, m, n) = Named(id, name, Cs) \o U32("mimc", m) \o U32("mctc", n)
    BY DEF DatabaseCells
  <2> HIDE DEF id, name
  <2>4. \E q : /\ Part(Named(id, name, Cs) \o U32("mimc", m) \o U32("mctc", n), q, EntryMax)
               /\ Seen(q, "mimc", m) /\ Seen(q, "mctc", n)
               /\ Seen(q, "miid", id) /\ Seen(q, "minm", Encode(Cs, name))
    BY <2>1, <2>2, CsIs, DatabaseEntry
  <2> QED BY <2>3, <2>4 DEF id, name
<1>4. \A i \in 1 .. N : Reads(i, r[i])
  <2> HIDE DEF Reads
  <2> QED BY <1>3
<1>5. Typed(kind, "List") /\ kind # "malformed"
  BY TypesAre DEF Containers
<1>6. Len(es) = N /\ \A i \in 1 .. N : es[i] = DatabaseCells(i, m, n)
  <2> HIDE DEF N
  <2> QED BY <1>2
<1>7. DatabasesBody(Databases, m, n, Cs) = ListingBody(kind, N, es)
  BY DatabasesBodyIs
<1> HIDE DEF N, r, es, kind
<1>8. \A i \in 1 .. N : Part(es[i], r[i], EntryMax)
  BY <1>4, <1>6
<1> DEFINE fields == Read(Words, ListingBody(kind, N, es))
<1>9. ListingGives(fields, kind, N, N, r)
  BY <1>2, <1>5, <1>6, <1>8, ListingReads
<1> HIDE DEF fields
<1> DEFINE b == fields[1].value
<1>10. fields = One(kind, b) /\ The(b, "mtco") = N /\ The(b, "mlcl") = EntryFields(N, r)
  BY <1>9 DEF ListingGives, Seen
<1>11. EntryFields(N, r)[1].value = r[1]
  BY <1>2 DEF EntryFields
<1>12. The(r[1], "mimc") = m /\ The(r[1], "mctc") = n
  <2>1. 1 \in 1 .. N
    BY <1>2
  <2>2. Reads(1, r[1])
    BY <1>4, <2>1
  <2> QED BY <2>2 DEF Seen
<1> HIDE DEF b
<1>13. fields = One("avdb", b)
  BY <1>10 DEF kind
<1>14. DatabasesTold(fields)
  <2>1. \A i \in 1 .. N : /\ Seen(r[i], "miid", Databases[i].id)
                          /\ Seen(r[i], "minm", Encode(Cs, Databases[i].name))
    BY <1>4
  <2> QED BY <1>9, <2>1 DEF DatabasesTold, N, kind
<1> QED BY <1>7, <1>10, <1>11, <1>12, <1>13, <1>14 DEF fields, N

\* The names of the databases are read as they were meant.
LEMMA DatabasesConveyed ==
  ASSUME NEW h, DatabasesTold(h.fields), h.charset = Cs
  PROVE  Conveyed(h)
<1> DEFINE N == Len(Databases)
           fields == h.fields
           cs == Cs
<1>1. PICK r : /\ ListingGives(fields, "avdb", N, N, r)
               /\ \A i \in 1 .. N : /\ Seen(r[i], "miid", Databases[i].id)
                                   /\ Seen(r[i], "minm", Encode(cs, Databases[i].name))
  BY DEF DatabasesTold
<1>2. N \in Nat
  BY WireAssumption, MaxIs
<1>3. \A i \in 1 .. N : Writable(Databases[i].name)
  BY TextAssumption
<1>4. cs \in {Utf8, MacRoman} /\ h.charset = cs
  BY CsIs
<1>5. cs = MacRoman =>
        ToSet(hdr.accept) \cap {"x-mac-roman", "macintosh", "mac-roman", "macroman"} # {}
  BY MacAsked
<1> DEFINE kind == "avdb"
<1>6. kind # "malformed" /\ ListingGives(fields, kind, N, N, r)
  BY <1>1
<1>7. ListedIn(fields, kind) = ListedIn(h.fields, "avdb") /\ fields[1].value = Body(h)
  BY DEF Body
<1> HIDE DEF kind, cs, fields, N
<1>8. WellFormed(fields) /\ The(fields[1].value, "mstt") = 200
  <2>1. WellFormed(fields)
    BY <1>2, <1>6, ListingIs
  <2>2. The(fields[1].value, "mstt") = 200
    BY <1>6 DEF ListingGives, Seen
  <2> QED BY <2>1, <2>2
<1>9. \A tag : Has(fields, tag) <=> tag = kind
  BY <1>2, <1>6, ListingIs
<1>10. \A e \in ListedIn(fields, kind) : \E i \in 1 .. N : e = r[i]
  BY <1>2, <1>6, ListingIs
<1>11. \A e \in ListedIn(fields, kind) : \E i \in 1 .. N :
        The(e, "miid") = Databases[i].id /\ NameReads(cs, e, Databases[i].name)
  <2> TAKE e \in ListedIn(fields, kind)
  <2>1. PICK i \in 1 .. N : e = r[i]
    BY <1>10
  <2>2. The(e, "miid") = Databases[i].id
    BY <1>1, <2>1 DEF Seen
  <2>3. NameReads(cs, e, Databases[i].name)
    BY <1>1, <1>3, <1>4, <2>1, TextReads
  <2> QED BY <2>2, <2>3
<1>12. /\ ~Has(fields, "msrv") /\ ~Has(fields, "adbs")
       /\ ~Has(fields, "apso") /\ ~Has(fields, "aply")
  BY <1>9 DEF kind
<1> QED BY <1>4, <1>5, <1>7, <1>8, <1>11, <1>12 DEF Conveyed, fields, N

(***************************************************************************)
(* The client's way to a listing                                           *)
(***************************************************************************)
\* The client takes its session when it may, and has no /update open before
\* it has one.
InTurn ==
  /\ sid[Me].is = "taken" => step = "login"
  /\ waiting => step \notin {"codes", "info", "login"}

\* What it was told of the library is what there is.
Told ==
  /\ counts = [databases |-> counts.databases, tracks |-> counts.tracks, lists |-> counts.lists]
  /\ step \notin {"codes", "info"} => counts.databases = {Len(Databases)}
  /\ step \in {"ask", "page", "left"} =>
       counts.tracks = {Cardinality(Tracks)} /\ counts.lists = {1 + Len(Lists)}

\* It lists after all that, and what it has of the listing is what is listed.
Paged ==
  /\ status = "idle" => got = <<>> /\ totals = {}
  /\ status # "idle" => IInv /\ step \in {"page", "left"}

\* An entry of /containers has the count of its playlist.
CountFits(e) ==
  The(e, "mimc") = IF Has(e, "abpl") THEN Cardinality(Tracks) ELSE Len(Entries(The(e, "miid")))

\* The answers that count something count what there is.
Counted ==
  /\ Got("avdb") => step \notin {"codes", "info"} /\ The(Body(heard), "mtco") = Len(Databases)
  /\ Got("aply") => step \in {"page", "left"} /\ \A e \in Items("aply") : CountFits(e)

\* All that with the sessions: what a client knows at every step of its way.
WireInv == SessionInv /\ InTurn /\ Told /\ Paged /\ Counted

\* The client starts with nothing.
LEMMA WireInit == DaapInit => WireInv
<1> SUFFICES ASSUME DaapInit PROVE WireInv
  OBVIOUS
<1>1. SessionInv
  BY SessionInit
<1>2. InTurn
  BY DEF DaapInit, InTurn, NoSession
<1>3. Told
  BY DEF DaapInit, Told, NoCounts
<1>4. Paged
  BY DEF DaapInit, Paged
<1>5. Counted
  BY DEF DaapInit, Counted, Got, Has, Silence
<1> QED BY <1>1, <1>2, <1>3, <1>4, <1>5 DEF WireInv

\* What most steps do to the counts,
LEMMA ToldKept ==
  ASSUME Told, counts' = counts, step' \in {"codes", "info"} \/ step \notin {"codes", "info"},
         step' \in {"ask", "page", "left"} => step \in {"ask", "page", "left"}
  PROVE  Told'
BY DEF Told

\* to the listing,
LEMMA PagedKept ==
  ASSUME Paged, UNCHANGED paging, step \in {"page", "left"} => step' \in {"page", "left"}
  PROVE  Paged'
<1>1. /\ req' = req /\ got' = got /\ first' = first /\ start' = start
      /\ totals' = totals /\ status' = status
  BY DEF paging
<1>2. IInv => IInv'
  <2>1. IInv /\ UNCHANGED vars => IInv'
    BY NextInv
  <2>2. UNCHANGED vars
    BY <1>1 DEF vars
  <2> QED BY <2>1, <2>2
<1>3. CASE status = "idle"
  BY <1>1, <1>3 DEF Paged
<1>4. CASE status # "idle"
  <2>1. IInv /\ step \in {"page", "left"}
    BY <1>4 DEF Paged
  <2> QED BY <1>1, <1>2, <1>4, <2>1 DEF Paged
<1> QED BY <1>3, <1>4

\* and to the answer the client has.
LEMMA CountedKept ==
  ASSUME Counted, heard' = heard, step' \in {"codes", "info"} => step \in {"codes", "info"},
         step \in {"page", "left"} => step' \in {"page", "left"}
  PROVE  Counted'
<1>1. \A tag : Got(tag)' <=> Got(tag)
  BY DEF Got
<1>2. Body(heard)' = Body(heard) /\ Items("aply")' = Items("aply")
  BY DEF Body, Items, ListedIn
<1>3. \A e : CountFits(e)' <=> CountFits(e)
  BY DEF CountFits
<1> QED BY <1>1, <1>2, <1>3 DEF Counted

\* The other answers count nothing.
LEMMA CountedOther ==
  ASSUME NEW kind, kind \notin {"avdb", "aply"}, NEW b, heard'.fields = One(kind, b)
  PROVE  Counted'
<1>1. ~Got("avdb")' /\ ~Got("aply")'
  BY HasOne DEF Got
<1> QED BY <1>1 DEF Counted

\* /login and /update are read as containers of their own.
LEMMA LoginFields ==
  ASSUME dict = Words, NEW id \in Nat, id <= U32Max
  PROVE  /\ \E b : Heard(DmapResponse(LoginBody(id))).fields = One("mlog", b)
         /\ Conveyed(Heard(DmapResponse(LoginBody(id))))
         /\ ~Has(Heard(DmapResponse(LoginBody(id))).fields, "apso")
<1>1. Typed("mlog", "List") /\ Typed("mlid", "Int")
  BY TypesAre DEF Containers, Ints
<1>2. Read(Words, Container("mlog", U32("mstt", 200) \o U32("mlid", id)))
        = One("mlog", One("mstt", 200) \o One("mlid", id))
  BY <1>1, PairReads
<1>3. LoginBody(id) = Container("mlog", U32("mstt", 200) \o U32("mlid", id))
  BY TagsAre DEF LoginBody
<1> DEFINE h == Heard(DmapResponse(LoginBody(id)))
<1>4. h.fields = One("mlog", One("mstt", 200) \o One("mlid", id)) /\ h.charset = Utf8
  BY <1>2, <1>3 DEF Heard, DmapResponse, DmapResponseCs
<1> HIDE DEF h
<1>5. Conveyed(h) /\ ~Has(h.fields, "apso")
  BY <1>4, PairConveyed
<1> QED BY <1>4, <1>5 DEF h

LEMMA UpdateFields ==
  ASSUME dict = Words
  PROVE  /\ \E b : Heard(DmapResponse(UpdateBody(Revision))).fields = One("mupd", b)
         /\ Conveyed(Heard(DmapResponse(UpdateBody(Revision))))
         /\ ~Has(Heard(DmapResponse(UpdateBody(Revision))).fields, "apso")
<1>1. Typed("mupd", "List") /\ Typed("musr", "Int") /\ 2 <= U32Max
  BY TypesAre, MaxIs DEF Containers, Ints
<1>2. Read(Words, Container("mupd", U32("mstt", 200) \o U32("musr", 2)))
        = One("mupd", One("mstt", 200) \o One("musr", 2))
  BY <1>1, PairReads
<1>3. UpdateBody(Revision) = Container("mupd", U32("mstt", 200) \o U32("musr", 2))
  BY TagsAre DEF UpdateBody, Revision
<1> DEFINE h == Heard(DmapResponse(UpdateBody(Revision)))
<1>4. h.fields = One("mupd", One("mstt", 200) \o One("musr", 2)) /\ h.charset = Utf8
  BY <1>2, <1>3 DEF Heard, DmapResponse, DmapResponseCs
<1> HIDE DEF h
<1>5. Conveyed(h) /\ ~Has(h.fields, "apso")
  BY <1>4, PairConveyed
<1> QED BY <1>4, <1>5 DEF h

\* /server-info, as the client hears it,
LEMMA InfoHeard ==
  ASSUME dict = Words, NEW header
  PROVE  LET h == Heard(DmapResponse(ServerInfoBody(Name, Len(Databases), Dialect(header))))
         IN  /\ \E b : h.fields = One("msrv", b)
             /\ The(Body(h), dmap.databasesCount) = Len(Databases)
             /\ Conveyed(h) /\ ~Has(h.fields, "apso")
<1> DEFINE n == Len(Databases)
           d == Dialect(header)
           h == Heard(DmapResponse(ServerInfoBody(Name, n, d)))
<1>1. n \in Nat /\ n <= U32Max
  <2>1. n \in 1 .. Longest /\ Longest \in Nat /\ Longest <= U32Max /\ U32Max \in Nat
    BY WireAssumption, MaxIs
  <2> HIDE DEF n
  <2> QED BY <2>1
<1>2. d.mpro \in Nat /\ d.apro \in Nat
  BY DialectIs
<1>3. h.fields = Read(Words, ServerInfoBody(Name, n, d)) /\ h.charset = Utf8
  BY DEF Heard, DmapResponse, DmapResponseCs
<1> HIDE DEF n, d, h
<1>4. PICK b : /\ Read(Words, ServerInfoBody(Name, n, d)) = One("msrv", b)
               /\ The(b, "msdc") = n /\ Unseen(b, "mrco")
               /\ Seen(b, "mstt", 200) /\ Seen(b, "minm", Encode(Utf8, Name))
  BY <1>1, <1>2, ServerInfoReads
<1>5. h.fields = One("msrv", b)
  BY <1>3, <1>4
<1>6. One("msrv", b)[1].value = b
  BY DEF One
<1>7. Body(h) = b
  BY <1>5, <1>6 DEF Body
<1>8. dmap.databasesCount = "msdc"
  BY DEF dmap
<1>9. (\E c : h.fields = One("msrv", c)) /\ The(Body(h), dmap.databasesCount) = n
  BY <1>4, <1>5, <1>7, <1>8
<1>10. Conveyed(h) /\ ~Has(h.fields, "apso")
  <2> DEFINE kind == "msrv"
  <2>1. kind \notin {"malformed", "avdb", "adbs", "apso", "aply"} /\ h.fields = One(kind, b)
    BY <1>5
  <2> HIDE DEF kind
  <2> QED BY <1>3, <1>4, <2>1, PlainConveyed
<1> QED BY <1>9, <1>10 DEF h, n, d

\* and /databases.
LEMMA DatabasesHeard ==
  ASSUME dict = Words
  PROVE  LET h == Heard(DmapResponseCs(
                    DatabasesBody(Databases, Cardinality(Tracks), Len(Lists) + 1, Cs), Cs))
             db == The(Body(h), list.listing)[1].value
         IN  /\ \E b : h.fields = One("avdb", b)
             /\ The(Body(h), "mtco") = Len(Databases)
             /\ The(db, dmap.itemCount) = Cardinality(Tracks)
             /\ The(db, dmap.containerCount) = Len(Lists) + 1
             /\ Conveyed(h) /\ ~Has(h.fields, "apso")
<1> DEFINE m == Cardinality(Tracks)
           n == Len(Lists) + 1
           h == Heard(DmapResponseCs(DatabasesBody(Databases, m, n, Cs), Cs))
<1>1. m \in Nat /\ m <= U32Max /\ n \in Nat /\ n <= U32Max
  <2>1. m \in Nat /\ Len(Lists) \in Nat
    BY ListingAssumption, FS_CardinalityType
  <2>2. m <= Longest /\ Len(Lists) < Longest
    BY WireAssumption
  <2>3. Longest \in Nat /\ Longest <= U32Max /\ U32Max \in Nat
    BY MaxIs
  <2> HIDE DEF m
  <2> QED BY <2>1, <2>2, <2>3
<1>2. h.fields = Read(Words, DatabasesBody(Databases, m, n, Cs)) /\ h.charset = Cs
  BY DEF Heard, DmapResponseCs
<1> HIDE DEF m, n, h
<1>3. PICK b : /\ Read(Words, DatabasesBody(Databases, m, n, Cs)) = One("avdb", b)
               /\ The(b, "mtco") = Len(Databases)
               /\ The(The(b, "mlcl")[1].value, "mimc") = m
               /\ The(The(b, "mlcl")[1].value, "mctc") = n
               /\ DatabasesTold(h.fields)
  BY <1>1, <1>2, DatabasesRead
<1>4. h.fields = One("avdb", b)
  BY <1>2, <1>3
<1>5. One("avdb", b)[1].value = b
  BY DEF One
<1>6. Body(h) = b
  BY <1>4, <1>5 DEF Body
<1>7. list.listing = "mlcl" /\ dmap.itemCount = "mimc" /\ dmap.containerCount = "mctc"
  BY DEF dmap, list
<1>8. /\ \E c : h.fields = One("avdb", c)
      /\ The(Body(h), "mtco") = Len(Databases)
      /\ The(The(Body(h), list.listing)[1].value, dmap.itemCount) = m
      /\ The(The(Body(h), list.listing)[1].value, dmap.containerCount) = n
  BY <1>3, <1>4, <1>6, <1>7
<1>9. Conveyed(h) /\ ~Has(h.fields, "apso")
  BY <1>2, <1>3, <1>4, HasOne, DatabasesConveyed
<1> QED BY <1>8, <1>9 DEF h, m, n

\* The playlists of /containers, as the client hears them, have the counts of
\* what they list.
LEMMA HeardCounts ==
  ASSUME NEW h, NEW a, Sent(a), req.endpoint = "containers", Hears(h.fields, "aply", a)
  PROVE  \A e \in ToSet(All(The(The(h.fields, "aply"), "mlcl"), "mlit")) : CountFits(e)
<1> DEFINE n == Len(a.entries)
           b == h.fields[1].value
<1>1. PICK r : /\ ListingGives(h.fields, "aply", a.total, n, r) /\ Entered(r, a)
               /\ \A i \in 1 .. n : CountIs(r[i], a.entries[i].id)
  BY DEF Hears
<1>2. h.fields = One("aply", b) /\ The(b, "mlcl") = EntryFields(n, r)
  BY <1>1 DEF ListingGives, Seen
<1>3. n \in Nat
  BY MaxIs DEF Sent
<1> HIDE DEF n, b
<1>4. The(h.fields, "aply") = b
  BY <1>2, TheOne
<1>5. All(The(The(h.fields, "aply"), "mlcl"), "mlit") = EntryValues(n, r)
  BY <1>2, <1>3, <1>4, EntriesAll
<1>6. ASSUME NEW i \in 1 .. n PROVE CountFits(r[i])
  <2> DEFINE id == a.entries[i].id
  <2>1. CountIs(r[i], id)
    BY <1>1
  <2>2. The(r[i], "miid") = id
    BY <1>1 DEF Entered, Seen, n
  <2> HIDE DEF id
  <2> QED BY <2>1, <2>2 DEF CountIs, CountFits, Seen
<1>7. ASSUME NEW e \in ToSet(EntryValues(n, r)) PROVE CountFits(e)
  <2>1. PICK i \in 1 .. n : e = r[i]
    BY <1>3 DEF ToSet, EntryValues
  <2> QED BY <1>6, <2>1
<1> QED BY <1>5, <1>7

\* A page that was sent is received as it was sent, and one that was refused,
\* or cost the handler its life, brings nothing.
LEMMA PageKeeps ==
  ASSUME WireInv, step = "page", status = "paging",
         NEW answer, NEW after, Asks(answer, after), NEW onward,
         IF answer.is = "ok"
         THEN /\ heard' = Heard(Response(answer))
              /\ Receive(AsRead(heard'), onward)
              /\ AsRead(heard') = answer => onward = after
         ELSE heard' = heard /\ Receive(answer, after),
         step' = step
  PROVE  Receive(answer, after) /\ Paged' /\ Counted'
<1>1. IInv /\ dict = Words /\ Paged /\ Counted
  BY DEF WireInv, Paged, SessionInv, HasWords
<1>2. req \in Requests /\ start \in Nat
  BY <1>1 DEF IInv
<1>3. /\ Page(answer, start, after) /\ after \in Nat /\ start <= after
      /\ answer \in {BadRequest, Panics} \/ Sent(answer)
  BY <1>2, AsksGives
<1>4. CASE Sent(answer)
  <2>1. /\ answer.is = "ok" /\ heard' = Heard(Response(answer))
        /\ Receive(AsRead(heard'), onward) /\ (AsRead(heard') = answer => onward = after)
    BY <1>4, SentIs
  <2>2. /\ Hears(Heard(Response(answer)).fields, KindOf(req.endpoint), answer)
        /\ AsRead(Heard(Response(answer))) = answer
    BY <1>1, <1>2, <1>4, ResponseHeard
  <2>3. AsRead(heard') = answer
    BY <2>1, <2>2
  <2>4. onward = after
    BY <2>1, <2>3
  <2>5. Receive(answer, after)
    BY <2>1, <2>3, <2>4 DEF Receive
  <2>6. IInv'
    BY <1>1, <1>3, <2>5, ReceiveInv
  <2>7. status' # "idle" /\ req' = req
    <3>1. status' \in {"paging", "done", "refused", "panicked"}
      BY <2>6 DEF IInv
    <3> QED BY <2>5, <3>1 DEF Receive
  <2>8. Paged'
    BY <2>6, <2>7 DEF Paged
  <2>9. Counted'
    <3> DEFINE h == Heard(Response(answer))
               kind == KindOf(req.endpoint)
    <3>1. PICK r : h.fields = One(kind, h.fields[1].value)
      BY <2>2 DEF Hears, ListingGives
    <3>2. \A tag : Has(h.fields, tag) <=> kind = tag
      BY <3>1, HasOne
    <3>3. \A tag : Got(tag)' <=> Has(h.fields, tag)
      BY <2>1 DEF Got
    <3>4. kind # "avdb" /\ (kind = "aply" => req.endpoint = "containers")
      BY DEF KindOf
    <3>5. kind = "aply" => \A e \in ToSet(All(The(The(h.fields, "aply"), "mlcl"), "mlit")) : CountFits(e)
      BY <1>4, <2>2, <3>4, HeardCounts
    <3>6. Items("aply")' = ToSet(All(The(The(h.fields, "aply"), "mlcl"), "mlit"))
      BY <2>1 DEF Items, ListedIn
    <3>7. \A e : CountFits(e)' <=> CountFits(e)
      BY DEF CountFits
    <3> HIDE DEF h, kind
    <3> QED BY <3>2, <3>3, <3>4, <3>5, <3>6, <3>7 DEF Counted
  <2> QED BY <2>5, <2>8, <2>9
<1>5. CASE answer \in {BadRequest, Panics}
  <2>1. heard' = heard /\ Receive(answer, after)
    <3>1. answer.is # "ok"
      BY <1>5 DEF BadRequest, Panics
    <3> QED BY <3>1
  <2>3. IInv'
    BY <1>1, <1>3, <2>1, ReceiveInv
  <2>4. status' # "idle"
    <3>1. status' \in {"paging", "done", "refused", "panicked"}
      BY <2>3 DEF IInv
    <3> QED BY <3>1
  <2>5. Paged'
    BY <2>3, <2>4 DEF Paged
  <2>6. Counted'
    BY <1>1, <2>1, CountedKept
  <2> QED BY <2>1, <2>5, <2>6
<1> QED BY <1>3, <1>4, <1>5

\* The first request after all that starts a listing,
LEMMA InitHolds == Init => IInv
BY InitInv

LEMMA AskKeeps ==
  ASSUME WireInv, Ask
  PROVE  WireInv'
<1> USE DEF session, asking, updating
<1>1. /\ step = "ask" /\ step' = "page" /\ status' = "paging" /\ got' = got /\ totals' = totals
      /\ req' \in Requests /\ first' \in 0 .. Cardinality(Tracks) + 1 /\ start' = first'
      /\ heard' = heard /\ counts' = counts /\ sid' = sid /\ waiting' = waiting
  BY DEF Ask
<1>2. status = "idle" /\ got = <<>> /\ totals = {}
  <2>1. status = "idle"
    BY <1>1 DEF WireInv, Paged
  <2> QED BY <2>1 DEF WireInv, Paged
<1>3. SessionInv'
  BY SessionStep DEF WireInv, DaapNext
<1>4. InTurn'
  BY <1>1 DEF WireInv, InTurn
<1>5. Told'
  BY <1>1, ToldKept DEF WireInv
<1>6. Paged'
  <2>1. Init'
    BY <1>1, <1>2 DEF Init
  <2>2. IInv'
    BY <2>1, InitHolds, PTL
  <2> QED BY <1>1, <2>2 DEF Paged
<1>7. Counted'
  BY <1>1, CountedKept DEF WireInv
<1> QED BY <1>3, <1>4, <1>5, <1>6, <1>7 DEF WireInv

\* and reading a page is a step of it.
LEMMA ReadKeeps ==
  ASSUME WireInv, ReadNextPage \/ ReadRest \/ ReadWhole
  PROVE  WireInv' /\ Next
<1> USE DEF session, asking, updating
<1>1. /\ step = "page" /\ status = "paging" /\ step' = step
      /\ counts' = counts /\ sid' = sid /\ waiting' = waiting
  BY DEF ReadNextPage, ReadRest, ReadWhole, ReadPage
<1>2. SessionInv'
  BY SessionStep DEF WireInv, DaapNext
<1>3. InTurn'
  BY <1>1 DEF WireInv, InTurn
<1>4. Told'
  BY <1>1, ToldKept DEF WireInv
<1>5. req \in Requests /\ start \in Nat
  BY <1>1 DEF WireInv, Paged, IInv
<1>6. Next /\ Paged' /\ Counted'
  <2>1. CASE ReadNextPage
    <3>1. PICK order \in Orders :
            IF PageOf(order).is = "ok"
            THEN /\ heard' = Heard(Response(PageOf(order)))
                 /\ Receive(AsRead(heard'), start + req.page)
            ELSE heard' = heard /\ Receive(PageOf(order), start + req.page)
      BY <2>1 DEF ReadNextPage, ReadPage
    <3>2. Asks(PageOf(order), start + req.page)
      BY <1>5, AsksPage
    <3>3. Receive(PageOf(order), start + req.page) /\ Paged' /\ Counted'
      BY <1>1, <3>1, <3>2, PageKeeps
    <3> QED BY <1>1, <3>3 DEF FetchPage, Next
  <2>2. CASE ReadRest
    <3>1. PICK order \in Orders :
            IF RestOf(order).is = "ok"
            THEN /\ heard' = Heard(Response(RestOf(order)))
                 /\ Receive(AsRead(heard'), AfterRest(AsRead(heard')))
            ELSE heard' = heard /\ Receive(RestOf(order), AfterRest(RestOf(order)))
      BY <2>2 DEF ReadRest, ReadPage
    <3>2. Asks(RestOf(order), AfterRest(RestOf(order)))
      BY <1>5, AsksRest
    <3> DEFINE answer == RestOf(order)
               onward == AfterRest(AsRead(heard'))
    <3>3. AsRead(heard') = answer => onward = AfterRest(answer)
      BY DEF AfterRest
    <3>4. Receive(answer, AfterRest(answer)) /\ Paged' /\ Counted'
      BY <1>1, <3>1, <3>2, <3>3, PageKeeps
    <3> QED BY <1>1, <3>4 DEF FetchRest, Next
  <2>3. CASE ReadWhole
    <3>1. PICK order \in Orders, w \in BOOLEAN :
            IF WholeOf(order, w).is = "ok"
            THEN /\ heard' = Heard(Response(WholeOf(order, w)))
                 /\ Receive(AsRead(heard'), AsRead(heard').total)
            ELSE heard' = heard /\ Receive(WholeOf(order, w), WholeOf(order, w).total)
      BY <2>3 DEF ReadWhole, ReadPage
    <3>2. start = 0 /\ start = first /\ first = 0
      BY <2>3 DEF ReadWhole
    <3>3. Asks(WholeOf(order, w), WholeOf(order, w).total)
      BY <1>5, <3>2, AsksWhole
    <3>4. AsRead(heard') = WholeOf(order, w) => AsRead(heard').total = WholeOf(order, w).total
      OBVIOUS
    <3>5. Receive(WholeOf(order, w), WholeOf(order, w).total) /\ Paged' /\ Counted'
      BY <1>1, <3>1, <3>3, <3>4, PageKeeps
    <3> QED BY <1>1, <3>2, <3>5 DEF FetchWhole, Next
  <2> QED BY <2>1, <2>2, <2>3
<1> QED BY <1>2, <1>3, <1>4, <1>6 DEF WireInv

\* Before the client lists, its steps leave the listing alone.
LEMMA NotPaging ==
  ASSUME WireInv, step \notin {"page", "left"}, UNCHANGED paging
  PROVE  Paged'
BY PagedKept DEF WireInv

\* The handlers before the listings,
LEMMA HandlersKeep ==
  ASSUME WireInv, ContentCodes \/ ServerInfo \/ Update \/ UpdateEnds \/ ListDatabases
  PROVE  WireInv'
<1> USE DEF session, asking, updating
<1>1. SessionInv'
  BY SessionStep DEF WireInv, DaapNext
<1>2. SessionInv /\ InTurn /\ Told /\ Paged /\ Counted
  BY DEF WireInv
<1>3. CASE ContentCodes
  <2>1. /\ step = "codes" /\ step' = "info" /\ heard' = heard /\ counts' = counts
        /\ sid' = sid /\ waiting' = waiting /\ UNCHANGED paging
    BY <1>3 DEF ContentCodes
  <2>2. InTurn'
    BY <1>2, <2>1 DEF InTurn
  <2>3. Told' /\ Paged' /\ Counted'
    BY <1>2, <2>1, ToldKept, NotPaging, CountedKept
  <2> QED BY <1>1, <2>2, <2>3 DEF WireInv
<1>4. CASE ServerInfo
  <2> DEFINE h == Heard(DmapResponse(ServerInfoBody(Name, Len(Databases), Dialect(hdr.dialect))))
  <2>1. /\ step = "info" /\ step' = "login" /\ heard' = h
        /\ counts' = [counts EXCEPT !.databases = {The(Body(heard'), dmap.databasesCount)}]
        /\ sid' = sid /\ waiting' = waiting /\ UNCHANGED paging
    BY <1>4 DEF ServerInfo
  <2>2. dict = Words
    BY <1>2, <2>1 DEF SessionInv, HasWords
  <2>3. (\E b : h.fields = One("msrv", b)) /\ The(Body(h), dmap.databasesCount) = Len(Databases)
    BY <2>2, InfoHeard
  <2> HIDE DEF h
  <2>4. counts' = [counts EXCEPT !.databases = {Len(Databases)}]
    BY <2>1, <2>3
  <2>5. Told'
    BY <1>2, <2>1, <2>4 DEF Told
  <2>6. InTurn' /\ Paged'
    BY <1>2, <2>1, NotPaging DEF InTurn
  <2>7. Counted'
    BY <2>1, <2>3, CountedOther
  <2> QED BY <1>1, <2>5, <2>6, <2>7 DEF WireInv
<1>5. CASE Update
  <2>1. /\ step \in {"update", "databases"} /\ step' \in {"update", "databases"}
        /\ counts' = counts /\ sid' = sid /\ UNCHANGED paging
        /\ heard' = heard \/ heard' = Heard(DmapResponse(UpdateBody(Revision)))
    BY <1>5 DEF Update, Answered
  <2>2. dict = Words
    BY <1>2, <2>1 DEF SessionInv, HasWords
  <2>3. InTurn' /\ Told' /\ Paged'
    BY <1>2, <2>1, NotPaging, ToldKept DEF InTurn
  <2>4. Counted'
    BY <1>2, <2>1, <2>2, CountedKept, UpdateFields, CountedOther
  <2> QED BY <1>1, <2>3, <2>4 DEF WireInv
<1>6. CASE UpdateEnds
  <2>1. /\ waiting /\ waiting' = FALSE /\ step' = step
        /\ counts' = counts /\ sid' = sid /\ UNCHANGED paging
        /\ heard' = heard \/ heard' = Heard(DmapResponse(UpdateBody(Revision)))
    BY <1>6 DEF UpdateEnds, Answered
  <2>2. dict = Words
    BY <1>2, <2>1 DEF InTurn, SessionInv, HasWords
  <2>3. InTurn' /\ Told' /\ Paged'
    BY <1>2, <2>1, PagedKept, ToldKept DEF InTurn
  <2>4. Counted'
    BY <1>2, <2>1, <2>2, CountedKept, UpdateFields, CountedOther
  <2> QED BY <1>1, <2>3, <2>4 DEF WireInv
<1>7. CASE ListDatabases
  <2> DEFINE h == Heard(DmapResponseCs(
                    DatabasesBody(Databases, Cardinality(Tracks), Len(Lists) + 1, Cs), Cs))
             db == The(Body(h), list.listing)[1].value
  <2>1. Databases # <<>>
    BY WireAssumption
  <2>2. /\ step = "databases" /\ step' = "ask" /\ heard' = h
        /\ counts' = [counts EXCEPT
             !.tracks = {The(The(Body(heard'), list.listing)[1].value, dmap.itemCount)},
             !.lists = {The(The(Body(heard'), list.listing)[1].value, dmap.containerCount)}]
        /\ sid' = sid /\ waiting' = waiting /\ UNCHANGED paging
    BY <1>7, <2>1 DEF ListDatabases
  <2>3. dict = Words
    BY <1>2, <2>2 DEF SessionInv, HasWords
  <2>4. /\ \E b : h.fields = One("avdb", b)
        /\ The(Body(h), "mtco") = Len(Databases)
        /\ The(db, dmap.itemCount) = Cardinality(Tracks)
        /\ The(db, dmap.containerCount) = Len(Lists) + 1
    BY <2>3, DatabasesHeard
  <2>5. counts' = [counts EXCEPT !.tracks = {The(db, dmap.itemCount)},
                                 !.lists = {The(db, dmap.containerCount)}]
    BY <2>2
  <2> HIDE DEF h, db
  <2>6. counts' = [counts EXCEPT !.tracks = {Cardinality(Tracks)}, !.lists = {Len(Lists) + 1}]
    BY <2>4, <2>5
  <2>7. Len(Lists) + 1 = 1 + Len(Lists)
    BY ListingAssumption
  <2>8. Told'
    BY <1>2, <2>2, <2>6, <2>7 DEF Told
  <2>9. InTurn' /\ Paged'
    BY <1>2, <2>2, NotPaging DEF InTurn
  <2>10. Counted'
    <3>1. Got("avdb")' /\ ~Got("aply")'
      BY <2>2, <2>4, HasOne DEF Got
    <3>2. The(Body(heard), "mtco")' = Len(Databases)
      BY <2>2, <2>4 DEF Body
    <3> QED BY <2>2, <3>1, <3>2 DEF Counted
  <2> QED BY <1>1, <2>8, <2>9, <2>10 DEF WireInv
<1> QED BY <1>3, <1>4, <1>5, <1>6, <1>7

\* An id that was taken has 32 bits.
LEMMA IdsShort ==
  ASSUME SessionInv, NEW c \in {Me} \cup crowd, sid[c].is = "taken"
  PROVE  sid[c].id \in Nat /\ sid[c].id <= U32Max
<1> DEFINE id == sid[c].id
<1>1. id < next /\ next \in 1 .. MaxLogins + 1 /\ id \in Nat
  BY DEF SessionInv, CounterAhead, SessionTypes, Clients
<1>2. MaxLogins \in Nat /\ MaxLogins < Byte * Byte * Byte * Byte
  BY DaapAssumption
<1>3. U32Max \in Nat /\ Byte * Byte * Byte * Byte = U32Max + 1
  BY MaxIs
<1>4. MaxLogins < U32Max + 1
  BY <1>2, <1>3
<1> HIDE DEF id
<1>5. id <= U32Max
  BY ONLY <1>1, <1>2, <1>3, <1>4
<1> QED BY <1>1, <1>5 DEF id

\* those of the sessions,
LEMMA SessionsKeep ==
  ASSUME WireInv, NEW c \in {Me} \cup crowd, TakeId(c) \/ LoggedIn(c) \/ Logout(c)
  PROVE  WireInv'
<1> USE DEF session, asking, updating
<1>1. SessionInv'
  BY SessionStep DEF WireInv, DaapNext
<1>2. SessionInv /\ InTurn /\ Told /\ Paged /\ Counted
  BY DEF WireInv
<1>3. c \in Clients /\ Me \in Clients /\ DOMAIN sid = Clients
      /\ sid \in [Clients -> [is : {"none", "taken", "in"}, id : Nat]]
  BY <1>2 DEF SessionInv, SessionTypes, Clients
<1>4. CASE TakeId(c)
  <2>1. /\ c = Me => step = "login"
        /\ sid' = [sid EXCEPT ![c] = [is |-> "taken", id |-> next]]
        /\ step' = step /\ heard' = heard /\ counts' = counts
        /\ waiting' = waiting /\ UNCHANGED paging
    BY <1>4 DEF TakeId
  <2>2. InTurn'
    BY <1>2, <1>3, <2>1 DEF InTurn
  <2>3. Told' /\ Paged' /\ Counted'
    BY <1>2, <2>1, ToldKept, PagedKept, CountedKept
  <2> QED BY <1>1, <2>2, <2>3 DEF WireInv
<1>5. CASE LoggedIn(c)
  <2>1. CASE c = Me
    <3> DEFINE id == sid[c].id
    <3>1. /\ sid[c].is = "taken" /\ step' = "update"
          /\ heard' = Heard(DmapResponse(LoginBody(id)))
          /\ sid' = [sid EXCEPT ![c] = [is |-> "in", id |-> The(Body(heard'), dmap.sessionId)]]
          /\ counts' = counts /\ waiting' = waiting /\ UNCHANGED paging
      BY <1>5, <2>1 DEF LoggedIn
    <3>2. step = "login"
      BY <1>2, <2>1, <3>1 DEF InTurn
    <3>3. dict = Words
      BY <1>2, <3>2 DEF SessionInv, HasWords
    <3>4. id \in Nat /\ id <= U32Max
      BY <1>2, <1>3, <3>1, IdsShort
    <3>5. \E b : heard'.fields = One("mlog", b)
      BY <3>1, <3>3, <3>4, LoginFields
    <3>6. Counted'
      BY <3>5, CountedOther
    <3>7. sid'[Me].is # "taken"
      BY <1>3, <2>1, <3>1
    <3>8. InTurn'
      BY <1>2, <3>1, <3>7 DEF InTurn
    <3>9. Told' /\ Paged'
      BY <1>2, <3>1, <3>2, ToldKept, NotPaging
    <3> QED BY <1>1, <3>6, <3>8, <3>9 DEF WireInv
  <2>2. CASE c # Me
    <3>1. /\ sid' = [sid EXCEPT ![c].is = "in"] /\ step' = step /\ heard' = heard
          /\ counts' = counts /\ waiting' = waiting /\ UNCHANGED paging
      BY <1>5, <2>2 DEF LoggedIn
    <3>2. sid'[Me] = sid[Me]
      BY <1>3, <2>2, <3>1
    <3>3. InTurn'
      BY <1>2, <3>1, <3>2 DEF InTurn
    <3>4. Told' /\ Paged' /\ Counted'
      BY <1>2, <3>1, ToldKept, PagedKept, CountedKept
    <3> QED BY <1>1, <3>3, <3>4 DEF WireInv
  <2> QED BY <2>1, <2>2
<1>6. CASE Logout(c)
  <2>1. /\ c = Me => step \in {"ask", "page"}
        /\ sid' = [sid EXCEPT ![c] = NoSession]
        /\ step' = IF c = Me THEN "left" ELSE step
        /\ waiting' = IF c = Me THEN FALSE ELSE waiting
        /\ heard' = heard /\ counts' = counts /\ UNCHANGED paging
    BY <1>6 DEF Logout
  <2>2. InTurn'
    BY <1>2, <1>3, <2>1 DEF InTurn, NoSession
  <2>3. Told'
    BY <1>2, <2>1, ToldKept
  <2>4. Paged' /\ Counted'
    BY <1>2, <2>1, PagedKept, CountedKept
  <2> QED BY <1>1, <2>2, <2>3, <2>4 DEF WireInv
<1> QED BY <1>4, <1>5, <1>6

\* and so every step.
LEMMA WireStep == WireInv /\ [DaapNext]_daapVars => WireInv'
<1> SUFFICES ASSUME WireInv, [DaapNext]_daapVars PROVE WireInv'
  OBVIOUS
<1>1. CASE ContentCodes \/ ServerInfo \/ Update \/ UpdateEnds \/ ListDatabases
  BY <1>1, HandlersKeep
<1>2. CASE Ask
  BY <1>2, AskKeeps
<1>3. CASE ReadNextPage \/ ReadRest \/ ReadWhole
  BY <1>3, ReadKeeps
<1>4. ASSUME NEW c \in {Me} \cup crowd, TakeId(c) \/ LoggedIn(c) \/ Logout(c)
      PROVE  WireInv'
  BY <1>4, SessionsKeep
<1>5. CASE UNCHANGED daapVars
  <2>1. SessionInv'
    BY <1>5, SessionStep DEF WireInv
  <2>2. /\ step' = step /\ heard' = heard /\ counts' = counts /\ sid' = sid
        /\ waiting' = waiting /\ UNCHANGED paging
    BY <1>5 DEF daapVars, asking, updating, session
  <2>3. InTurn'
    BY <2>2 DEF WireInv, InTurn
  <2>4. Told' /\ Paged' /\ Counted'
    BY <2>2, ToldKept, PagedKept, CountedKept DEF WireInv
  <2> QED BY <2>1, <2>3, <2>4 DEF WireInv
<1> QED BY <1>1, <1>2, <1>3, <1>4, <1>5 DEF DaapNext

\* It holds of every session, whatever the other clients do meanwhile.
THEOREM WireInvariance == DaapSpec => []WireInv
BY WireInit, WireStep, PTL DEF DaapSpec

\* What the client has heard it has read as it was meant, and nothing of a
\* playlist before it asks for one: what that says depends on what was asked.
Said == ReadsBack /\ (step \notin {"page", "left"} => ~Got("apso"))

LEMMA SaidInit == DaapInit => Said
BY DEF DaapInit, Said, ReadsBack, Got, Has, Silence

\* A reading means the same while the client asks nothing else,
LEMMA SaidNew ==
  ASSUME NEW h, Conveyed(h), heard' = h, hdr' = hdr, req' = req
  PROVE  ReadsBack'
<1>1. hdr'.accept = hdr.accept /\ req'.meta = req.meta
  OBVIOUS
<1> QED BY <1>1 DEF ReadsBack, Conveyed, Body

LEMMA SaidOther ==
  ASSUME NEW h, Conveyed(h), ~Has(h.fields, "apso"), heard' = h, hdr' = hdr, req' = req
  PROVE  Said'
<1>1. ~Got("apso")'
  BY DEF Got
<1> QED BY <1>1, SaidNew DEF Said

\* or keeps it.
LEMMA SaidKept ==
  ASSUME Said, heard' = heard, hdr' = hdr, req' = req,
         step' \notin {"page", "left"} => step \notin {"page", "left"}
  PROVE  Said'
<1>1. Got("apso")' <=> Got("apso")
  BY DEF Got
<1>2. CASE heard = Silence
  BY <1>1, <1>2 DEF Said, ReadsBack, Silence
<1>3. CASE heard # Silence
  BY <1>1, <1>3, SaidNew DEF Said, ReadsBack
<1> QED BY <1>2, <1>3

\* A page is read as it was meant.
LEMMA PageSaid ==
  ASSUME WireInv, Said, step = "page", status = "paging", step' = step, hdr' = hdr,
         NEW answer, NEW after, Asks(answer, after), NEW read, NEW onward,
         IF answer.is = "ok" THEN heard' = Heard(Response(answer)) /\ Receive(read, onward)
         ELSE heard' = heard /\ Receive(answer, onward)
  PROVE  Said'
<1>1. req \in Requests /\ start \in Nat /\ dict = Words
  BY DEF WireInv, Paged, IInv, SessionInv, HasWords
<1>2. req' = req
  BY DEF Receive
<1>3. answer \in {BadRequest, Panics} \/ Sent(answer)
  BY <1>1, AsksGives
<1>4. CASE Sent(answer)
  <2>1. heard' = Heard(Response(answer))
    BY <1>4, SentIs
  <2>2. Conveyed(Heard(Response(answer)))
    BY <1>1, <1>4, ListingConveyed
  <2> QED BY <1>2, <2>1, <2>2, SaidNew DEF Said
<1>5. CASE answer \in {BadRequest, Panics}
  <2>1. heard' = heard
    BY <1>5 DEF BadRequest, Panics
  <2> QED BY <1>2, <2>1, SaidKept
<1> QED BY <1>3, <1>4, <1>5

LEMMA SaidStep == WireInv /\ Said /\ [DaapNext]_daapVars => Said'
<1> SUFFICES ASSUME WireInv, Said, [DaapNext]_daapVars PROVE Said'
  OBVIOUS
<1> USE DEF session, asking, updating
<1>1. SessionInv /\ InTurn /\ Paged
  BY DEF WireInv
<1>2. step \notin {"codes"} => dict = Words
  BY <1>1 DEF SessionInv, HasWords
<1>3. CASE ContentCodes
  BY <1>3, SaidKept DEF ContentCodes, paging
<1>4. CASE ServerInfo
  <2> DEFINE h == Heard(DmapResponse(ServerInfoBody(Name, Len(Databases), Dialect(hdr.dialect))))
  <2>1. step = "info" /\ heard' = h /\ hdr' = hdr /\ req' = req
    BY <1>4 DEF ServerInfo, paging
  <2>2. Conveyed(h) /\ ~Has(h.fields, "apso")
    BY <1>2, <2>1, InfoHeard
  <2> HIDE DEF h
  <2> QED BY <2>1, <2>2, SaidOther
<1>5. CASE Update \/ UpdateEnds
  <2> DEFINE h == Heard(DmapResponse(UpdateBody(Revision)))
  <2>1. /\ step # "codes" /\ hdr' = hdr /\ req' = req /\ (heard' = heard \/ heard' = h)
        /\ step' \notin {"page", "left"} => step \notin {"page", "left"}
    BY <1>1, <1>5 DEF Update, UpdateEnds, Answered, InTurn, paging
  <2>2. Conveyed(h) /\ ~Has(h.fields, "apso")
    BY <1>2, <2>1, UpdateFields
  <2> HIDE DEF h
  <2> QED BY <2>1, <2>2, SaidOther, SaidKept
<1>6. CASE ListDatabases
  <2> DEFINE h == Heard(DmapResponseCs(
                    DatabasesBody(Databases, Cardinality(Tracks), Len(Lists) + 1, Cs), Cs))
  <2>1. Databases # <<>>
    BY WireAssumption
  <2>2. step = "databases" /\ heard' = h /\ hdr' = hdr /\ req' = req
    BY <1>6, <2>1 DEF ListDatabases, paging
  <2>3. Conveyed(h) /\ ~Has(h.fields, "apso")
    BY <1>2, <2>2, DatabasesHeard
  <2> HIDE DEF h
  <2> QED BY <2>2, <2>3, SaidOther
<1>7. CASE Ask
  <2>1. /\ heard' = heard /\ hdr' = hdr /\ step = "ask" /\ step' = "page"
    BY <1>7 DEF Ask
  <2>2. ~Got("apso")
    BY <2>1 DEF Said
  <2>3. ReadsBack'
    BY <2>1, <2>2 DEF Said, ReadsBack, Conveyed, Body, Got
  <2> QED BY <2>1, <2>3 DEF Said
<1>8. CASE ReadNextPage \/ ReadRest \/ ReadWhole
  <2>1. step = "page" /\ status = "paging" /\ step' = step /\ hdr' = hdr
    BY <1>8 DEF ReadNextPage, ReadRest, ReadWhole, ReadPage
  <2>2. req \in Requests /\ start \in Nat
    BY <1>1, <2>1 DEF Paged, IInv
  <2>3. CASE ReadNextPage
    <3>1. PICK order \in Orders :
            IF PageOf(order).is = "ok"
            THEN /\ heard' = Heard(Response(PageOf(order)))
                 /\ Receive(AsRead(heard'), start + req.page)
            ELSE heard' = heard /\ Receive(PageOf(order), start + req.page)
      BY <2>3 DEF ReadNextPage, ReadPage
    <3> QED BY <2>1, <2>2, <3>1, AsksPage, PageSaid
  <2>4. CASE ReadRest
    <3>1. PICK order \in Orders :
            IF RestOf(order).is = "ok"
            THEN /\ heard' = Heard(Response(RestOf(order)))
                 /\ Receive(AsRead(heard'), AfterRest(AsRead(heard')))
            ELSE heard' = heard /\ Receive(RestOf(order), AfterRest(RestOf(order)))
      BY <2>4 DEF ReadRest, ReadPage
    <3> QED BY <2>1, <2>2, <3>1, AsksRest, PageSaid
  <2>5. CASE ReadWhole
    <3>1. PICK order \in Orders, w \in BOOLEAN :
            IF WholeOf(order, w).is = "ok"
            THEN /\ heard' = Heard(Response(WholeOf(order, w)))
                 /\ Receive(AsRead(heard'), AsRead(heard').total)
            ELSE heard' = heard /\ Receive(WholeOf(order, w), WholeOf(order, w).total)
      BY <2>5 DEF ReadWhole, ReadPage
    <3>2. start = 0
      BY <2>5 DEF ReadWhole
    <3> QED BY <2>1, <2>2, <3>1, <3>2, AsksWhole, PageSaid
  <2> QED BY <1>8, <2>3, <2>4, <2>5
<1>9. ASSUME NEW c \in {Me} \cup crowd, TakeId(c) \/ LoggedIn(c) \/ Logout(c)
      PROVE  Said'
  <2>1. CASE TakeId(c) \/ Logout(c) \/ (LoggedIn(c) /\ c # Me)
    <3>1. /\ heard' = heard /\ hdr' = hdr /\ req' = req
          /\ step' \notin {"page", "left"} => step \notin {"page", "left"}
      BY <2>1 DEF TakeId, Logout, LoggedIn, paging
    <3> QED BY <3>1, SaidKept
  <2>2. CASE LoggedIn(c) /\ c = Me
    <3> DEFINE id == sid[c].id
               h == Heard(DmapResponse(LoginBody(id)))
    <3>1. sid[c].is = "taken" /\ heard' = h /\ hdr' = hdr /\ req' = req
      BY <2>2 DEF LoggedIn, paging
    <3>2. step = "login"
      BY <1>1, <2>2, <3>1 DEF InTurn
    <3>3. id \in Nat /\ id <= U32Max
      BY <1>1, <1>9, <3>1, IdsShort
    <3>4. Conveyed(h) /\ ~Has(h.fields, "apso")
      BY <1>2, <3>2, <3>3, LoginFields
    <3> HIDE DEF h
    <3> QED BY <3>1, <3>4, SaidOther
  <2> QED BY <1>9, <2>1, <2>2
<1>10. CASE UNCHANGED daapVars
  BY <1>10, SaidKept DEF daapVars, paging
<1> QED BY <1>3, <1>4, <1>5, <1>6, <1>7, <1>8, <1>9, <1>10 DEF DaapNext

\* Whatever the server answers, to any client and whatever it plays, the client
\* reads from the bytes what was meant: they are well formed, a Mac gets MacRoman
\* only if it asked for it, and names and metadata are legible in either charset.
THEOREM AnswersReadBack == DaapSpec => []ReadsBack
<1>1. WireInv /\ Said /\ [DaapNext]_daapVars => (WireInv /\ Said)'
  BY WireStep, SaidStep
<1>2. DaapInit => WireInv /\ Said
  BY WireInit, SaidInit
<1>3. Said => ReadsBack
  BY DEF Said
<1> QED BY <1>1, <1>2, <1>3, PTL DEF DaapSpec

\* What the client was told agrees with what it lists.
LEMMA CountsAre == WireInv => CountsAgree
<1> SUFFICES ASSUME WireInv PROVE CountsAgree
  OBVIOUS
<1>1. Told /\ Paged /\ Counted
  BY DEF WireInv
<1>2. ASSUME status # "idle"
      PROVE  /\ TotalIsWhole
             /\ req.endpoint = "items" /\ req.query = NoQuery => totals \subseteq counts.tracks
             /\ req.endpoint = "containers" => totals \subseteq counts.lists
             /\ req.endpoint = "container" /\ req.cid = LibraryId => totals \subseteq counts.tracks
  <2>1. /\ totals \subseteq {Whole} /\ counts.tracks = {Cardinality(Tracks)}
        /\ counts.lists = {1 + Len(Lists)}
    BY <1>1, <1>2 DEF Paged, Told, IInv
  <2>2. req.query = NoQuery => Wanted = Tracks
    BY DEF Wanted
  <2>3. TotalIsWhole
    BY <1>1, <1>2, TotalsAre DEF Paged
  <2> QED BY <2>1, <2>2, <2>3 DEF Whole
<1>3. Got("avdb") => counts.databases = {The(Body(heard), "mtco")}
  BY <1>1 DEF Told, Counted
<1>4. Got("aply") => \A e \in Items("aply") :
        IF Has(e, "abpl") THEN {The(e, "mimc")} = counts.tracks
        ELSE The(e, "mimc") = Len(Entries(The(e, "miid")))
  <2> SUFFICES ASSUME Got("aply"), NEW e \in Items("aply")
               PROVE  IF Has(e, "abpl") THEN {The(e, "mimc")} = counts.tracks
                      ELSE The(e, "mimc") = Len(Entries(The(e, "miid")))
    OBVIOUS
  <2>1. step \in {"page", "left"} /\ CountFits(e)
    BY <1>1 DEF Counted
  <2>2. counts.tracks = {Cardinality(Tracks)}
    BY <1>1, <2>1 DEF Told
  <2> QED BY <2>1, <2>2 DEF CountFits
<1> QED BY <1>2, <1>3, <1>4 DEF CountsAgree

\* Over the wire, in UTF-8 or MacRoman and whatever metadata the tracks have,
\* the counts of /server-info, /databases and /containers are the lengths of
\* the listings they speak of.
THEOREM CountsAlwaysAgree == DaapSpec => []CountsAgree
BY CountsAre, WireInvariance, PTL

\* A client that has not listed anything has no pages.
LEMMA IdleIs == WireInv /\ status = "idle" => PagesJoin /\ PositionsGrow
<1> SUFFICES ASSUME WireInv, status = "idle" PROVE PagesJoin /\ PositionsGrow
  OBVIOUS
<1>1. got = <<>>
  BY DEF WireInv, Paged
<1>2. Len(got) = 0
  BY <1>1
<1> QED BY <1>2 DEF PagesJoin, ItemPagesJoin, PlaylistPagesJoin, LibraryPagesJoin,
                    ContainerPagesJoin, PositionsGrow

\* The pages that the client reads from the bytes join to the listing, and their
\* positions grow.
THEOREM PagesJoinOverTheWire == DaapSpec => []PagesJoin
<1>1. WireInv => PagesJoin
  BY PagesAre, IdleIs DEF WireInv, Paged
<1> QED BY <1>1, WireInvariance, PTL

\* The positions that the client reads as mpco never come twice nor go backwards,
\* from page to page.
THEOREM PositionsGrowOverTheWire == DaapSpec => []PositionsGrow
<1>1. WireInv => PositionsGrow
  BY PositionsAre, IdleIs DEF WireInv, Paged
<1> QED BY <1>1, WireInvariance, PTL

\* The client that reads bytes makes the steps of Listing, where the answers of
\* the handlers are received as they are: what is encoded, sent with the charset
\* the client accepts and read with the dictionary it was given, is the same page.
ListsOverTheWire == [][IF status = "idle" THEN Init' ELSE Next]_vars

\* Every listing that a client reads over the wire is one of Listing.
THEOREM WireImplementsListing == DaapSpec => ListsOverTheWire
<1>1. WireInv /\ [DaapNext]_daapVars => [IF status = "idle" THEN Init' ELSE Next]_vars
  <2> SUFFICES ASSUME WireInv, [DaapNext]_daapVars
               PROVE  (IF status = "idle" THEN Init' ELSE Next) \/ UNCHANGED vars
    OBVIOUS
  <2> USE DEF session, asking, updating
  <2>1. UNCHANGED paging => UNCHANGED vars
    BY DEF paging, vars
  <2>2. CASE ContentCodes \/ ServerInfo \/ Update \/ UpdateEnds \/ ListDatabases
    BY <2>1, <2>2 DEF ContentCodes, ServerInfo, Update, UpdateEnds, ListDatabases
  <2>3. CASE Ask
    <3>1. status = "idle" /\ got = <<>> /\ totals = {}
      BY <2>3 DEF Ask, WireInv, Paged
    <3>2. Init'
      BY <2>3, <3>1 DEF Ask, Init
    <3> QED BY <3>1, <3>2
  <2>4. CASE ReadNextPage \/ ReadRest \/ ReadWhole
    <3>1. status = "paging"
      BY <2>4 DEF ReadNextPage, ReadRest, ReadWhole, ReadPage
    <3> QED BY <2>4, <3>1, ReadKeeps
  <2>5. ASSUME NEW c \in {Me} \cup crowd, TakeId(c) \/ LoggedIn(c) \/ Logout(c)
        PROVE  UNCHANGED paging
    BY <2>5 DEF TakeId, LoggedIn, Logout
  <2>6. CASE UNCHANGED daapVars
    BY <2>1, <2>6 DEF daapVars
  <2> QED BY <2>1, <2>2, <2>3, <2>4, <2>5, <2>6 DEF DaapNext
<1> QED BY <1>1, WireInvariance, PTL DEF DaapSpec, ListsOverTheWire
=============================================================================
