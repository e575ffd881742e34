-------------------------- MODULE HermesBridgeProofs --------------------------
(***************************************************************************)
(* HermesBridge, for all texts of any tokens: the sentences that are split *)
(* off a text do not depend on how the text arrives, and a turn with       *)
(* Hermes keeps the variables of the bridge in their types.                *)
(***************************************************************************)
EXTENDS HermesBridge, FiniteSetTheorems, SequenceTheorems, WellFoundedInduction, TLAPS

-----------------------------------------------------------------------------
(* Induction: every set of natural numbers has a least one. *)

LEMMA LeastNumber ==
  ASSUME NEW T, T \subseteq Nat, T # {}
  PROVE  \E x \in T : \A y \in T : x <= y
<1> DEFINE R == OpToRel(<, Nat)
<1>1. IsWellFoundedOn(R, Nat)
  BY NatLessThanWellFounded
<1> HIDE DEF R
<1>2. PICK x \in T : \A y \in T : ~ (<<y, x>> \in R)
  BY <1>1, WFMin
<1>3. ASSUME NEW y \in T PROVE x <= y
  <2>1. ~ (<<y, x>> \in R)
    BY <1>2
  <2> QED
    BY <2>1, SMT DEF R, OpToRel
<1> QED
  BY <1>3

LEMMA Induction ==
  ASSUME NEW S \in SUBSET Nat, 0 \in S, \A n \in S : n + 1 \in S
  PROVE  S = Nat
<1> SUFFICES ASSUME Nat \ S # {} PROVE FALSE
  OBVIOUS
<1>1. PICK x \in Nat \ S : \A y \in Nat \ S : x <= y
  BY LeastNumber
<1>2. x # 0 /\ x - 1 \in Nat
  BY <1>1
<1>3. x - 1 \in S
  BY <1>1, <1>2
<1> QED
  BY <1>1, <1>2, <1>3

-----------------------------------------------------------------------------
(* Numbers and parts of texts. *)

LEMMA GreatestNumber ==
  ASSUME NEW n \in Nat, NEW S \in SUBSET (0..n), S # {}
  PROVE  Max(S) \in S /\ \A y \in S : y <= Max(S)
<1> DEFINE T == {n - x : x \in S}
<1>1. T \subseteq Nat /\ T # {}
  <2>1. \A x \in S : x \in 0..n /\ n - x \in Nat
    OBVIOUS
  <2>2. T \subseteq Nat
    BY <2>1
  <2>3. PICK x \in S : TRUE
    OBVIOUS
  <2>4. n - x \in T
    BY <2>3
  <2> QED
    BY <2>2, <2>4
<1>2. PICK m \in T : \A y \in T : m <= y
  <2> HIDE DEF T
  <2> QED
    BY <1>1, LeastNumber
<1>3. PICK x \in S : m = n - x
  OBVIOUS
<1>4. ASSUME NEW y \in S PROVE x >= y
  <2>1. n - y \in T
    OBVIOUS
  <2>2. m <= n - y
    BY <1>2, <2>1
  <2> QED
    BY <1>3, <2>2
<1>5. \E z \in S : \A y \in S : z >= y
  BY <1>4
<1>6. Max(S) \in S /\ \A y \in S : Max(S) >= y
  BY <1>5 DEF Max
<1> QED
  BY <1>6

LEMMA LastOf ==
  ASSUME NEW n \in Nat, NEW S \in SUBSET (0..n)
  PROVE  Last0(S) \in 0..n
<1>1. S \cup {0} \in SUBSET (0..n) /\ S \cup {0} # {}
  OBVIOUS
<1>2. Max(S \cup {0}) \in S \cup {0}
  BY <1>1, GreatestNumber
<1> QED
  BY <1>1, <1>2 DEF Last0

LEMMA PartOfText ==
  ASSUME NEW T, NEW s \in Seq(T), NEW a \in Nat \ {0}, NEW b \in Int, b <= Len(s)
  PROVE  /\ SubSeq(s, a, b) \in Seq(T)
         /\ Len(SubSeq(s, a, b)) = IF a <= b THEN b - a + 1 ELSE 0
         /\ \A i \in 1..(b - a + 1) : SubSeq(s, a, b)[i] = s[a+i-1]
<1>1. Len(s) \in Nat /\ \A i \in 1..Len(s) : s[i] \in T
  BY LenProperties
<1>2. \A i \in a..b : s[i] \in T
  BY <1>1
<1> QED
  BY <1>2, SubSeqProperties

LEMMA LStripText ==
  ASSUME NEW s \in Seq(Token)
  PROVE  LStrip(s) \in Seq(Token)
<1> DEFINE S == {i \in DOMAIN s : \A j \in 1..i : s[j] = Space}
<1>1. Len(s) \in Nat /\ DOMAIN s = 1..Len(s)
  BY LenProperties
<1>2. S \in SUBSET (0..Len(s))
  BY <1>1
<1> HIDE DEF S
<1>3. Last0(S) \in 0..Len(s)
  BY <1>1, <1>2, LastOf
<1>4. LStrip(s) = SubSeq(s, 1 + Last0(S), Len(s))
  BY DEF LStrip, S
<1>5. 1 + Last0(S) \in Nat \ {0}
  BY <1>3
<1> QED
  BY <1>1, <1>4, <1>5, PartOfText

LEMMA RemainderText ==
  ASSUME NEW s \in Seq(Token)
  PROVE  Remainder(s) \in Seq(Token)
<1>1. Len(s) \in Nat
  BY LenProperties
<1>2. CASE Ends(s) = {}
  BY <1>2 DEF Remainder
<1>3. CASE Ends(s) # {}
  <2> DEFINE m == Max(Ends(s))
  <2>1. Ends(s) \in SUBSET (0..Len(s)) /\ \A i \in Ends(s) : i \in 1..(Len(s) - 1)
    BY <1>1 DEF Ends
  <2>2. m \in Ends(s)
    BY <1>1, <1>3, <2>1, GreatestNumber
  <2>3. m \in 1..(Len(s) - 1)
    BY <2>1, <2>2
  <2>4. Remainder(s) = LStrip(SubSeq(s, m + 1, Len(s)))
    BY <1>3 DEF Remainder
  <2> HIDE DEF m
  <2>5. m + 1 \in Nat \ {0}
    BY <2>3
  <2>6. SubSeq(s, m + 1, Len(s)) \in Seq(Token)
    BY <1>1, <2>5, PartOfText
  <2> QED
    BY <2>4, <2>6, LStripText
<1> QED
  BY <1>2, <1>3

\* What is after the end of a prefix makes a longer prefix.
LEMMA PrefixGrows ==
  ASSUME NEW s \in Seq(Token), NEW t \in Seq(Token), IsPrefix(s, t),
         NEW n \in Nat, Len(s) + n <= Len(t)
  PROVE  LET c == SubSeq(t, Len(s) + 1, Len(s) + n) IN
         c \in Seq(Token) /\ s \o c \in Seq(Token) /\ IsPrefix(s \o c, t)
<1> DEFINE c == SubSeq(t, Len(s) + 1, Len(s) + n)
           u == s \o c
<1>1. Len(s) \in Nat /\ Len(t) \in Nat
  BY LenProperties
<1>2. /\ c \in Seq(Token) /\ Len(c) = n
      /\ \A i \in 1..n : c[i] = t[Len(s)+i]
  <2>1. Len(s) + 1 \in Nat \ {0} /\ Len(s) + n \in Int
    BY <1>1
  <2>2. /\ c \in Seq(Token)
        /\ Len(c) = IF Len(s) + 1 <= Len(s) + n THEN (Len(s) + n) - (Len(s) + 1) + 1 ELSE 0
        /\ \A i \in 1..((Len(s) + n) - (Len(s) + 1) + 1) : c[i] = t[(Len(s)+1)+i-1]
    BY <2>1, PartOfText
  <2> HIDE DEF c
  <2> QED
    BY <1>1, <2>2
<1> HIDE DEF c
<1>3. /\ u \in Seq(Token) /\ Len(u) = Len(s) + n
      /\ \A i \in 1..(Len(s) + n) : u[i] = IF i <= Len(s) THEN s[i] ELSE c[i - Len(s)]
  BY <1>2, ConcatProperties
<1> HIDE DEF u
<1>4. \A i \in 1..Len(s) : s[i] = t[i]
  <2>1. \A i \in 1..Len(s) : SubSeq(s, 1, Len(s))[i] = s[i] /\ SubSeq(t, 1, Len(s))[i] = t[i]
    <3>1. Len(s) <= Len(t)
      BY DEF IsPrefix
    <3>2. /\ \A i \in 1..(Len(s) - 1 + 1) : SubSeq(s, 1, Len(s))[i] = s[1+i-1]
          /\ \A i \in 1..(Len(s) - 1 + 1) : SubSeq(t, 1, Len(s))[i] = t[1+i-1]
      BY <1>1, <3>1, PartOfText
    <3> QED
      BY <1>1, <3>2
  <2> QED
    BY <2>1 DEF IsPrefix
<1>5. \A i \in 1..Len(u) : u[i] = t[i]
  <2> SUFFICES ASSUME NEW i \in 1..Len(u) PROVE u[i] = t[i]
    OBVIOUS
  <2>1. CASE i <= Len(s)
    BY <1>1, <1>3, <1>4, <2>1
  <2>2. CASE ~ (i <= Len(s))
    <3>1. i - Len(s) \in 1..n
      BY <1>1, <1>3, <2>2
    <3>2. u[i] = c[i - Len(s)] /\ c[i - Len(s)] = t[Len(s) + (i - Len(s))]
      BY <1>2, <1>3, <2>2, <3>1
    <3> QED
      BY <1>1, <1>3, <3>2
  <2> QED
    BY <2>1, <2>2
<1>6. SubSeq(u, 1, Len(u)) = SubSeq(t, 1, Len(u))
  <2>1. Len(u) \in Nat /\ Len(u) <= Len(t)
    BY <1>1, <1>3
  <2>2. /\ Len(SubSeq(u, 1, Len(u))) = Len(SubSeq(t, 1, Len(u)))
        /\ SubSeq(u, 1, Len(u)) \in Seq(Token) /\ SubSeq(t, 1, Len(u)) \in Seq(Token)
        /\ Len(SubSeq(u, 1, Len(u))) = Len(u)
    BY <1>3, <2>1, PartOfText
  <2>3. \A i \in 1..Len(u) : SubSeq(u, 1, Len(u))[i] = u[1+i-1] /\ SubSeq(t, 1, Len(u))[i] = t[1+i-1]
    BY <1>3, <2>1, PartOfText
  <2>4. \A i \in 1..Len(u) : SubSeq(u, 1, Len(u))[i] = SubSeq(t, 1, Len(u))[i]
    BY <1>5, <2>1, <2>3
  <2> QED
    BY <2>2, <2>4, SeqEqual
<1> QED
  BY <1>1, <1>2, <1>3, <1>6 DEF IsPrefix, u, c

-----------------------------------------------------------------------------
(* Spaces at the beginning.                                                  *)

\* How many they are, and what is left of a text after the first m tokens.
Lead(s)    == Last0({i \in DOMAIN s : \A j \in 1..i : s[j] = Space})
From(s, m) == SubSeq(s, m + 1, Len(s))

LEMMA FromText ==
  ASSUME NEW s \in Seq(Token), NEW m \in 0..Len(s)
  PROVE  /\ From(s, m) \in Seq(Token) /\ Len(From(s, m)) = Len(s) - m
         /\ \A i \in 1..(Len(s) - m) : From(s, m)[i] = s[m+i]
<1>1. Len(s) \in Nat /\ m + 1 \in Nat \ {0}
  BY LenProperties
<1>2. /\ From(s, m) \in Seq(Token)
      /\ Len(From(s, m)) = IF m + 1 <= Len(s) THEN Len(s) - (m + 1) + 1 ELSE 0
      /\ \A i \in 1..(Len(s) - (m + 1) + 1) : From(s, m)[i] = s[(m+1)+i-1]
  BY <1>1, PartOfText DEF From
<1> HIDE DEF From
<1> QED
  BY <1>1, <1>2

LEMMA LastOfAll ==
  ASSUME NEW n \in Nat, NEW S \in SUBSET (0..n)
  PROVE  Last0(S) \in S \cup {0} /\ \A i \in S : i <= Last0(S)
<1>1. S \cup {0} \in SUBSET (0..n) /\ S \cup {0} # {}
  OBVIOUS
<1>2. Max(S \cup {0}) \in S \cup {0} /\ \A y \in S \cup {0} : y <= Max(S \cup {0})
  BY <1>1, GreatestNumber
<1> QED
  BY <1>2 DEF Last0

LEMMA LeadText ==
  ASSUME NEW s \in Seq(Token)
  PROVE  /\ Lead(s) \in 0..Len(s) /\ LStrip(s) = From(s, Lead(s))
         /\ \A j \in 1..Lead(s) : s[j] = Space
         /\ \A m \in 0..Len(s) : (\A j \in 1..m : s[j] = Space) => m <= Lead(s)
<1> DEFINE S == {i \in DOMAIN s : \A j \in 1..i : s[j] = Space}
<1>1. Len(s) \in Nat /\ DOMAIN s = 1..Len(s)
  BY LenProperties
<1>2. S \in SUBSET (0..Len(s)) /\ \A i \in S : i \in 1..Len(s) /\ \A j \in 1..i : s[j] = Space
  BY <1>1
<1>3. \A m \in 1..Len(s) : (\A j \in 1..m : s[j] = Space) => m \in S
  BY <1>1
<1>4. Lead(s) = Last0(S) /\ LStrip(s) = From(s, Last0(S))
  <2>1. 1 + Last0(S) = Last0(S) + 1
    <3> HIDE DEF S
    <3> QED
      BY <1>1, <1>2, LastOf
  <2> QED
    BY <2>1 DEF Lead, LStrip, From
<1> HIDE DEF S
<1>5. Last0(S) \in 0..Len(s) /\ Last0(S) \in S \cup {0} /\ \A i \in S : i <= Last0(S)
  BY <1>1, <1>2, LastOf, LastOfAll
<1>6. \A j \in 1..Last0(S) : s[j] = Space
  <2>1. CASE Last0(S) \in S
    BY <1>2, <2>1
  <2>2. CASE Last0(S) = 0
    BY <2>2
  <2> QED
    BY <1>5, <2>1, <2>2
<1>7. ASSUME NEW m \in 0..Len(s), \A j \in 1..m : s[j] = Space PROVE m <= Last0(S)
  <2>1. CASE m = 0
    BY <1>5, <2>1
  <2>2. CASE m # 0
    <3>1. m \in S
      BY <1>1, <1>3, <1>7, <2>2
    <3> QED
      BY <1>5, <3>1
  <2> QED
    BY <2>1, <2>2
<1> QED
  BY <1>4, <1>5, <1>6, <1>7

LEMMA FromFrom ==
  ASSUME NEW s \in Seq(Token), NEW m \in Nat, NEW k \in Nat, m + k <= Len(s)
  PROVE  From(From(s, m), k) = From(s, m + k)
<1>1. Len(s) \in Nat /\ m \in 0..Len(s) /\ m + k \in 0..Len(s)
  BY LenProperties
<1> DEFINE t == From(s, m)
<1>2. t \in Seq(Token) /\ Len(t) = Len(s) - m /\ \A i \in 1..(Len(s) - m) : t[i] = s[m+i]
  BY <1>1, FromText
<1> HIDE DEF t
<1>3. k \in 0..Len(t)
  BY <1>1, <1>2
<1> DEFINE u == From(t, k)
           v == From(s, m + k)
<1>4. u \in Seq(Token) /\ Len(u) = Len(t) - k /\ \A i \in 1..(Len(t) - k) : u[i] = t[k+i]
  BY <1>2, <1>3, FromText
<1>5. v \in Seq(Token) /\ Len(v) = Len(s) - (m + k) /\ \A i \in 1..(Len(s) - (m + k)) : v[i] = s[m+k+i]
  BY <1>1, FromText
<1> HIDE DEF u, v
<1>6. ASSUME NEW i \in 1..Len(u) PROVE u[i] = v[i]
  <2>1. k + i \in 1..(Len(s) - m) /\ i \in 1..(Len(t) - k) /\ i \in 1..(Len(s) - (m + k))
    BY <1>1, <1>2, <1>4
  <2>2. u[i] = t[k+i] /\ t[k+i] = s[m+(k+i)] /\ v[i] = s[m+k+i]
    BY <1>2, <1>4, <1>5, <2>1
  <2>3. m + (k + i) = m + k + i
    BY <2>1
  <2> QED
    BY <2>2, <2>3
<1>7. Len(u) = Len(v)
  BY <1>1, <1>2, <1>4, <1>5
<1>8. u = v
  BY <1>4, <1>5, <1>6, <1>7, SeqEqual
<1> QED
  BY <1>8 DEF t, u, v

\* What is stripped does not care for some of the spaces being gone already.
LEMMA LStripFrom ==
  ASSUME NEW s \in Seq(Token), NEW m \in 0..Len(s), \A j \in 1..m : s[j] = Space
  PROVE  LStrip(From(s, m)) = LStrip(s)
<1> DEFINE t == From(s, m)
<1>1. t \in Seq(Token) /\ Len(t) = Len(s) - m /\ \A i \in 1..(Len(s) - m) : t[i] = s[m+i]
  BY FromText
<1> HIDE DEF t
<1>2. Len(s) \in Nat
  BY LenProperties
<1>3. /\ Lead(s) \in 0..Len(s) /\ \A j \in 1..Lead(s) : s[j] = Space
      /\ m <= Lead(s) /\ LStrip(s) = From(s, Lead(s))
  BY LeadText
<1>4. /\ Lead(t) \in 0..Len(t) /\ \A j \in 1..Lead(t) : t[j] = Space
      /\ \A k \in 0..Len(t) : (\A j \in 1..k : t[j] = Space) => k <= Lead(t)
      /\ LStrip(t) = From(t, Lead(t))
  BY <1>1, LeadText
<1>5. Lead(s) - m <= Lead(t)
  <2>1. Lead(s) - m \in 0..Len(t)
    BY <1>1, <1>2, <1>3
  <2>2. \A j \in 1..(Lead(s) - m) : t[j] = Space
    <3> SUFFICES ASSUME NEW j \in 1..(Lead(s) - m) PROVE t[j] = Space
      OBVIOUS
    <3>1. j \in 1..(Len(s) - m) /\ m + j \in 1..Lead(s)
      BY <1>2, <1>3
    <3> QED
      BY <1>1, <1>3, <3>1
  <2> QED
    BY <1>4, <2>1, <2>2
<1>6. m + Lead(t) <= Lead(s)
  <2>1. m + Lead(t) \in 0..Len(s)
    BY <1>1, <1>2, <1>4
  <2>2. ASSUME NEW j \in 1..(m + Lead(t)) PROVE s[j] = Space
    <3>1. CASE j <= m
      BY <3>1
    <3>2. CASE j > m
      <4>1. j - m \in 1..Lead(t) /\ j - m \in 1..(Len(s) - m) /\ m + (j - m) = j
        BY <1>1, <1>2, <1>4, <3>2
      <4> QED
        BY <1>1, <1>4, <4>1
    <3> QED
      BY <1>4, <3>1, <3>2
  <2> QED
    BY <2>1, <2>2, LeadText
<1>7. Lead(s) = m + Lead(t) /\ m \in Nat /\ Lead(t) \in Nat /\ m + Lead(t) <= Len(s)
  BY <1>1, <1>2, <1>3, <1>4, <1>5, <1>6
<1>8. From(t, Lead(t)) = From(s, m + Lead(t))
  BY <1>7, FromFrom DEF t
<1> QED
  BY <1>3, <1>4, <1>7, <1>8 DEF t

LEMMA LStripTwice ==
  ASSUME NEW s \in Seq(Token)
  PROVE  LStrip(LStrip(s)) = LStrip(s)
BY LeadText, LStripFrom

LEMMA FromConcat ==
  ASSUME NEW s \in Seq(Token), NEW c \in Seq(Token), NEW m \in 0..Len(s)
  PROVE  From(s, m) \o c = From(s \o c, m)
<1>1. Len(s) \in Nat /\ Len(c) \in Nat
  BY LenProperties
<1> DEFINE x == s \o c
           t == From(s, m)
           u == t \o c
           v == From(x, m)
<1>2. /\ x \in Seq(Token) /\ Len(x) = Len(s) + Len(c)
      /\ \A i \in 1..(Len(s) + Len(c)) : x[i] = IF i <= Len(s) THEN s[i] ELSE c[i - Len(s)]
  BY ConcatProperties
<1>3. t \in Seq(Token) /\ Len(t) = Len(s) - m /\ \A i \in 1..(Len(s) - m) : t[i] = s[m+i]
  BY FromText
<1> HIDE DEF x, t
<1>4. /\ u \in Seq(Token) /\ Len(u) = Len(t) + Len(c)
      /\ \A i \in 1..(Len(t) + Len(c)) : u[i] = IF i <= Len(t) THEN t[i] ELSE c[i - Len(t)]
  BY <1>3, ConcatProperties
<1>5. m \in 0..Len(x)
  BY <1>1, <1>2
<1>6. v \in Seq(Token) /\ Len(v) = Len(x) - m /\ \A i \in 1..(Len(x) - m) : v[i] = x[m+i]
  BY <1>2, <1>5, FromText
<1> HIDE DEF u, v
<1>7. Len(u) = Len(v)
  BY <1>1, <1>2, <1>3, <1>4, <1>6
<1>8. ASSUME NEW i \in 1..Len(u) PROVE u[i] = v[i]
  <2>1. /\ i \in 1..(Len(t) + Len(c)) /\ i \in 1..(Len(x) - m) /\ m + i \in 1..(Len(s) + Len(c))
    BY <1>1, <1>2, <1>3, <1>4
  <2>2. CASE i <= Len(t)
    <3>1. i \in 1..(Len(s) - m) /\ m + i <= Len(s)
      BY <1>1, <1>3, <2>1, <2>2
    <3> QED
      BY <1>2, <1>3, <1>4, <1>6, <2>1, <2>2, <3>1
  <2>3. CASE ~ (i <= Len(t))
    <3>1. ~ (m + i <= Len(s)) /\ i - Len(t) = (m + i) - Len(s)
      BY <1>1, <1>3, <2>1, <2>3
    <3> QED
      BY <1>2, <1>4, <1>6, <2>1, <2>3, <3>1
  <2> QED
    BY <2>2, <2>3
<1>9. u = v
  BY <1>4, <1>6, <1>7, <1>8, SeqEqual
<1> QED
  BY <1>9 DEF u, v, t, x

\* Nor does it care when they go, before or after more of the text.
LEMMA LStripConcat ==
  ASSUME NEW s \in Seq(Token), NEW c \in Seq(Token)
  PROVE  LStrip(LStrip(s) \o c) = LStrip(s \o c)
<1>1. Len(s) \in Nat /\ Len(c) \in Nat
  BY LenProperties
<1>2. Lead(s) \in 0..Len(s) /\ LStrip(s) = From(s, Lead(s)) /\ \A j \in 1..Lead(s) : s[j] = Space
  BY LeadText
<1> DEFINE x == s \o c
<1>3. LStrip(s) \o c = From(x, Lead(s))
  BY <1>2, FromConcat
<1>4. /\ x \in Seq(Token) /\ Len(x) = Len(s) + Len(c)
      /\ \A i \in 1..(Len(s) + Len(c)) : x[i] = IF i <= Len(s) THEN s[i] ELSE c[i - Len(s)]
  BY ConcatProperties
<1> HIDE DEF x
<1>5. Lead(s) \in 0..Len(x) /\ \A j \in 1..Lead(s) : x[j] = Space
  BY <1>1, <1>2, <1>4
<1>6. LStrip(From(x, Lead(s))) = LStrip(x)
  BY <1>4, <1>5, LStripFrom
<1> QED
  BY <1>3, <1>6 DEF x

-----------------------------------------------------------------------------
(* The ends of sentences.                                                    *)

LEMMA LastShifts ==
  ASSUME NEW m \in Nat, NEW n \in Nat, NEW B \in SUBSET (1..n), B # {}, NEW A,
         A = {m + j : j \in B}
  PROVE  Last0(A) = m + Last0(B) /\ Last0(B) \in B
<1>0. B \in SUBSET (0..n)
  OBVIOUS
<1>1. Last0(B) \in B \cup {0} /\ (\A i \in B : i <= Last0(B)) /\ Last0(B) \in 0..n
  BY <1>0, LastOfAll, LastOf
<1>2. Last0(B) \in B
  <2>1. PICK b \in B : TRUE
    OBVIOUS
  <2>2. b >= 1 /\ b <= Last0(B) /\ b \in Nat
    BY <1>1, <2>1
  <2>3. Last0(B) # 0
    BY <1>1, <2>2
  <2> QED
    BY <1>1, <2>3
<1>3. A \in SUBSET (0..(m+n)) /\ m + n \in Nat
  <2>1. \A j \in B : m + j \in 0..(m+n)
    OBVIOUS
  <2> QED
    BY <2>1
<1>4. Last0(A) \in A \cup {0} /\ (\A i \in A : i <= Last0(A)) /\ Last0(A) \in 0..(m+n)
  BY <1>3, LastOfAll, LastOf
<1>5. m + Last0(B) \in A
  BY <1>2
<1>6. m + Last0(B) <= Last0(A)
  BY <1>4, <1>5
<1>7. Last0(A) # 0
  <2>1. Last0(B) \in 1..n
    BY <1>2
  <2> QED
    BY <1>4, <1>6, <2>1
<1>8. PICK j \in B : Last0(A) = m + j
  BY <1>4, <1>7
<1>9. j <= Last0(B) /\ j \in Nat
  BY <1>1
<1>10. Last0(A) = m + Last0(B)
  BY <1>1, <1>4, <1>6, <1>8, <1>9
<1> QED
  BY <1>2, <1>10

\* The word before a stop depends on what is between the last space and it.
LEMMA WordShifts ==
  ASSUME NEW s \in Seq(Token), NEW t \in Seq(Token), NEW m \in Nat, NEW i \in Nat \ {0},
         m + i <= Len(s), i <= Len(t), \A j \in 1..i : t[j] = s[m+j],
         m = 0 \/ s[m] = Space \/ s[m+1] = Space
  PROVE  Word(s, m + i) = Word(t, i)
<1> DEFINE A == {j \in 1..(m+i) : s[j] = Space}
           B == {j \in 1..i : t[j] = Space}
           f == 1 + Last0(A)
           g == 1 + Last0(B)
           C == {j \in f..(m+i) : s[j] # Stop}
           D == {j \in g..i : t[j] # Stop}
<1>0. Len(s) \in Nat /\ Len(t) \in Nat
  BY LenProperties
<1>1. A \in SUBSET (0..(m+i)) /\ B \in SUBSET (1..i) /\ B \in SUBSET (0..i)
  OBVIOUS
<1>2. f = m + g /\ g \in 1..(i+1)
  <2>1. Last0(A) \in A \cup {0} /\ \A j \in A : j <= Last0(A)
    BY <1>1, LastOfAll
  <2>2. Last0(B) \in B \cup {0} /\ Last0(B) \in 0..i /\ \A j \in B : j <= Last0(B)
    BY <1>1, LastOfAll, LastOf
  <2>3. \A j \in B : m + j \in A
    OBVIOUS
  <2>4. \A j \in A : j > m => j - m \in B
    <3> SUFFICES ASSUME NEW j \in A, j > m PROVE j - m \in B
      OBVIOUS
    <3>1. j - m \in 1..i /\ m + (j - m) = j /\ s[j] = Space
      OBVIOUS
    <3>2. t[j-m] = s[m+(j-m)]
      BY <3>1
    <3> QED
      BY <3>1, <3>2
  <2>5. CASE B = {}
    <3>1. Last0(B) = 0
      BY <2>2, <2>5
    <3>2. \A j \in A : j <= m
      <4> SUFFICES ASSUME NEW j \in A, ~ (j <= m) PROVE FALSE
        OBVIOUS
      <4>1. j > m
        OBVIOUS
      <4> QED
        BY <2>4, <2>5, <4>1
    <3>3. CASE m = 0
      <4>1. A = {}
        BY <3>2, <3>3
      <4> QED
        BY <2>1, <3>1, <3>3, <4>1
    <3>4. CASE m # 0 /\ s[m] = Space
      <4>1. m \in A
        BY <3>4
      <4>2. m <= Last0(A) /\ Last0(A) <= m /\ Last0(A) \in Nat
        BY <2>1, <3>2, <4>1
      <4> QED
        BY <3>1, <4>2
    <3>5. CASE s[m+1] = Space
      <4>1. m + 1 \in A
        BY <3>5
      <4> QED
        BY <3>2, <4>1
    <3> QED
      BY <3>3, <3>4, <3>5
  <2>6. CASE B # {}
    <3>1. Last0(B) \in B
      <4>1. PICK b \in B : TRUE
        BY <2>6
      <4>2. b \in Nat /\ b >= 1 /\ b <= Last0(B)
        BY <2>2, <4>1
      <4>3. Last0(B) # 0
        BY <2>2, <4>2
      <4> QED
        BY <2>2, <4>3
    <3>2. m + Last0(B) <= Last0(A)
      BY <2>1, <2>3, <3>1
    <3>3. Last0(A) \in A /\ Last0(A) > m
      BY <2>1, <3>1, <3>2
    <3>4. Last0(A) - m <= Last0(B)
      BY <2>2, <2>4, <3>3
    <3>5. Last0(A) = m + Last0(B) /\ Last0(B) \in 1..i
      <4>1. Last0(A) \in 1..(m+i) /\ Last0(B) \in 1..i
        BY <1>1, <3>1, <3>3
      <4>2. \A x, y \in Nat : m + y <= x /\ x - m <= y => x = m + y
        OBVIOUS
      <4>3. Last0(A) \in Nat /\ Last0(B) \in Nat
        BY <4>1
      <4> HIDE DEF A, B, f, g, C, D
      <4> QED
        BY <3>2, <3>4, <4>1, <4>2, <4>3
    <3> QED
      BY <3>5
  <2> QED
    BY <2>5, <2>6
<1>3. C = {m + j : j \in D}
  <2> HIDE DEF f, g
  <2>1. ASSUME NEW j \in D PROVE m + j \in C
    <3>1. j \in 1..i /\ m + j \in f..(m+i) /\ t[j] # Stop
      BY <1>2
    <3> QED
      BY <3>1
  <2>2. ASSUME NEW k \in C PROVE k - m \in D /\ m + (k - m) = k
    <3>1. k - m \in g..i /\ k - m \in 1..i /\ m + (k - m) = k /\ s[k] # Stop
      BY <1>2
    <3>2. t[k-m] = s[m+(k-m)]
      BY <3>1
    <3> QED
      BY <3>1, <3>2
  <2> HIDE DEF C, D
  <2>3. \A k \in C : \E j \in D : k = m + j
    BY <2>2
  <2> QED
    BY <2>1, <2>3
<1>4. Word(s, m + i) = SubSeq(s, f, Last0(C)) /\ Word(t, i) = SubSeq(t, g, Last0(D))
  BY DEF Word
<1>5. D \in SUBSET (1..i)
  <2> HIDE DEF f, g
  <2>1. \A j \in g..i : j \in 1..i
    BY <1>2
  <2> QED
    BY <2>1
<1>6. f \in Nat \ {0} /\ g \in Nat \ {0}
  BY <1>2
<1>11. \A d \in D : d >= g
  <2> HIDE DEF f, g
  <2> QED
    BY <1>2
<1> HIDE DEF f, g, C, D
<1>7. CASE D = {}
  <2>1. C = {}
    BY <1>3, <1>7
  <2>2. Last0({}) = 0
    BY LastOfAll
  <2>3. SubSeq(s, f, 0) = <<>> /\ SubSeq(t, g, 0) = <<>>
    BY <1>6, SubSeqEmpty
  <2> QED
    BY <1>4, <1>7, <2>1, <2>2, <2>3
<1>8. CASE D # {}
  <2> DEFINE b == Last0(D)
  <2>1. Last0(C) = m + b /\ b \in D
    BY <1>3, <1>5, <1>8, LastShifts
  <2> HIDE DEF b
  <2>2. b \in 1..i /\ g <= b
    BY <1>5, <1>11, <2>1
  <2> DEFINE u == SubSeq(s, f, m + b)
             v == SubSeq(t, g, b)
  <2>3. /\ u \in Seq(Token) /\ Len(u) = IF f <= m + b THEN m + b - f + 1 ELSE 0
        /\ \A j \in 1..(m + b - f + 1) : u[j] = s[f+j-1]
    BY <1>0, <1>6, <2>2, PartOfText
  <2>4. /\ v \in Seq(Token) /\ Len(v) = IF g <= b THEN b - g + 1 ELSE 0
        /\ \A j \in 1..(b - g + 1) : v[j] = t[g+j-1]
    <3>1. b \in Int /\ b <= Len(t)
      BY <1>0, <2>2
    <3> QED
      BY <1>6, <3>1, PartOfText
  <2> HIDE DEF u, v
  <2>5. Len(u) = Len(v) /\ Len(u) = b - g + 1
    BY <1>2, <1>6, <2>2, <2>3, <2>4
  <2>6. ASSUME NEW j \in 1..Len(u) PROVE u[j] = v[j]
    <3>1. /\ j \in 1..(m + b - f + 1) /\ j \in 1..(b - g + 1) /\ g + j - 1 \in 1..i
          /\ f + j - 1 = m + (g + j - 1)
      BY <1>2, <1>6, <2>2, <2>5
    <3> QED
      BY <2>3, <2>4, <3>1
  <2>7. u = v
    BY <2>3, <2>4, <2>5, <2>6, SeqEqual
  <2> QED
    BY <1>4, <2>1, <2>7 DEF u, v, b
<1> QED
  BY <1>7, <1>8

LEMMA EndShifts ==
  ASSUME NEW s \in Seq(Token), NEW t \in Seq(Token), NEW m \in Nat, NEW i \in Nat \ {0},
         m + i < Len(s), i < Len(t), \A j \in 1..(i+1) : t[j] = s[m+j],
         m = 0 \/ s[m] = Space \/ s[m+1] = Space
  PROVE  m + i \in Ends(s) <=> i \in Ends(t)
<1>1. Len(s) \in Nat /\ Len(t) \in Nat
  BY LenProperties
<1>2. Word(s, m + i) = Word(t, i)
  <2>1. m + i <= Len(s) /\ i <= Len(t) /\ \A j \in 1..i : t[j] = s[m+j]
    BY <1>1
  <2> QED
    BY <2>1, WordShifts
<1>3. Abbreviated(s, m + i) <=> Abbreviated(t, i)
  BY <1>2 DEF Abbreviated
<1>4. t[i] = s[m+i] /\ t[i+1] = s[m+i+1]
  <2>1. m + (i + 1) = m + i + 1 /\ i \in 1..(i+1) /\ i + 1 \in 1..(i+1)
    OBVIOUS
  <2> QED
    BY <2>1
<1>5. m + i \in 1..(Len(s) - 1) /\ i \in 1..(Len(t) - 1)
  BY <1>1
<1> QED
  BY <1>3, <1>4, <1>5 DEF Ends

\* What is behind a place in a text where a space is has its own ends.
LEMMA EndsBehind ==
  ASSUME NEW s \in Seq(Token), NEW m \in 0..Len(s),
         m = 0 \/ s[m] = Space \/ (m < Len(s) /\ s[m+1] = Space)
  PROVE  {i \in Ends(s) : i > m} = {m + j : j \in Ends(From(s, m))}
<1> DEFINE t == From(s, m)
<1>1. Len(s) \in Nat
  BY LenProperties
<1>2. t \in Seq(Token) /\ Len(t) = Len(s) - m /\ \A i \in 1..(Len(s) - m) : t[i] = s[m+i]
  BY FromText
<1> HIDE DEF t
<1>3. ASSUME NEW j \in 1..(Len(t) - 1) PROVE m + j \in Ends(s) <=> j \in Ends(t)
  <2>1. /\ m \in Nat /\ j \in Nat \ {0} /\ m + j < Len(s) /\ j < Len(t)
        /\ \A k \in 1..(j+1) : t[k] = s[m+k]
    BY <1>1, <1>2
  <2> QED
    BY <1>2, <2>1, EndShifts
<1>4. ASSUME NEW i \in Ends(s), i > m PROVE i - m \in Ends(t) /\ i = m + (i - m)
  <2>1. i \in 1..(Len(s) - 1)
    BY DEF Ends
  <2>2. i - m \in 1..(Len(t) - 1) /\ i = m + (i - m)
    BY <1>1, <1>2, <1>4, <2>1
  <2> QED
    BY <1>3, <2>2
<1>5. ASSUME NEW j \in Ends(t) PROVE m + j \in Ends(s) /\ m + j > m
  <2>1. j \in 1..(Len(t) - 1)
    BY DEF Ends
  <2> QED
    BY <1>1, <1>2, <1>3, <2>1
<1>6. {i \in Ends(s) : i > m} = {m + j : j \in Ends(t)}
  BY <1>4, <1>5
<1> QED
  BY <1>6 DEF t

\* More text leaves the ends where they are.
LEMMA EndsBefore ==
  ASSUME NEW s \in Seq(Token), NEW c \in Seq(Token), NEW i \in 1..(Len(s) - 1)
  PROVE  i \in Ends(s \o c) <=> i \in Ends(s)
<1> DEFINE x == s \o c
<1>1. Len(s) \in Nat /\ Len(c) \in Nat
  BY LenProperties
<1>2. /\ x \in Seq(Token) /\ Len(x) = Len(s) + Len(c)
      /\ \A j \in 1..(Len(s) + Len(c)) : x[j] = IF j <= Len(s) THEN s[j] ELSE c[j - Len(s)]
  BY ConcatProperties
<1> HIDE DEF x
<1>3. i \in Nat \ {0} /\ 0 + i < Len(s) /\ i < Len(x)
  BY <1>1, <1>2
<1>4. \A j \in 1..(i+1) : x[j] = s[0+j]
  BY <1>1, <1>2
<1>5. 0 + i \in Ends(s) <=> i \in Ends(x)
  BY <1>2, <1>3, <1>4, EndShifts
<1> QED
  BY <1>5 DEF x

LEMMA EndsAreFinite ==
  ASSUME NEW s \in Seq(Token)
  PROVE  /\ Ends(s) \in SUBSET (1..(Len(s) - 1)) /\ Ends(s) \in SUBSET (Nat \ {0})
         /\ Ends(s) \in SUBSET (0..Len(s)) /\ \A i \in Ends(s) : s[i] = Stop /\ s[i+1] = Space
         /\ IsFiniteSet(Ends(s)) /\ Cardinality(Ends(s)) \in Nat
<1>1. Len(s) \in Nat
  BY LenProperties
<1>2. Ends(s) \in SUBSET (1..(Len(s) - 1)) /\ \A i \in Ends(s) : s[i] = Stop /\ s[i+1] = Space
  BY DEF Ends
<1>3. IsFiniteSet(Ends(s)) /\ Cardinality(Ends(s)) \in Nat
  <2>1. IsFiniteSet(1..(Len(s) - 1))
    BY <1>1, FS_Interval
  <2>2. IsFiniteSet(Ends(s))
    BY <1>2, <2>1, FS_Subset
  <2> QED
    BY <2>2, FS_CardinalityType
<1> QED
  BY <1>1, <1>2, <1>3

-----------------------------------------------------------------------------
(* The cuts that a set of ends makes, in order.                              *)

NextCut(C, x) == Min({i \in C : i > x})

CutUpTo(C, n) ==
  LET cut[k \in 0..n] == IF k = 0 THEN 0 ELSE NextCut(C, cut[k-1]) IN cut

CutOf(C) == CutUpTo(C, Cardinality(C))

LEMMA CutExists ==
  ASSUME NEW C
  PROVE  \A n \in Nat : \E w : w = [k \in 0..n |-> IF k = 0 THEN 0 ELSE NextCut(C, w[k-1])]
<1> DEFINE Good == {n \in Nat : \E w : w = [k \in 0..n |-> IF k = 0 THEN 0 ELSE NextCut(C, w[k-1])]}
<1>1. 0 \in Good
  <2> DEFINE w == [k \in 0..0 |-> 0]
  <2>1. w = [k \in 0..0 |-> IF k = 0 THEN 0 ELSE NextCut(C, w[k-1])]
    OBVIOUS
  <2> QED
    BY <2>1
<1>2. ASSUME NEW n \in Good PROVE n + 1 \in Good
  <2>1. PICK w : w = [k \in 0..n |-> IF k = 0 THEN 0 ELSE NextCut(C, w[k-1])]
    OBVIOUS
  <2>2. \A k \in 0..n : w[k] = IF k = 0 THEN 0 ELSE NextCut(C, w[k-1])
    BY <2>1
  <2> DEFINE v == [k \in 0..(n+1) |-> IF k \in 0..n THEN w[k] ELSE NextCut(C, w[n])]
  <2>3. ASSUME NEW k \in 0..(n+1) PROVE v[k] = IF k = 0 THEN 0 ELSE NextCut(C, v[k-1])
    <3>1. CASE k = n + 1
      BY <3>1
    <3>2. CASE k \in 0..n /\ k # 0
      <4>1. v[k] = w[k] /\ v[k-1] = w[k-1]
        BY <3>2
      <4> QED
        BY <3>2, <4>1, <2>2
    <3>3. CASE k = 0
      BY <3>3, <2>2
    <3> QED
      BY <3>1, <3>2, <3>3
  <2>4. v = [k \in 0..(n+1) |-> IF k = 0 THEN 0 ELSE NextCut(C, v[k-1])]
    BY <2>3
  <2> HIDE DEF v
  <2> QED
    BY <2>4
<1>3. Good = Nat
  <2>1. Good \in SUBSET Nat
    OBVIOUS
  <2> HIDE DEF Good
  <2> QED
    BY <1>1, <1>2, <2>1, Induction
<1> QED
  BY <1>3

LEMMA CutSteps ==
  ASSUME NEW C, NEW n \in Nat
  PROVE  /\ CutUpTo(C, n)[0] = 0
         /\ \A k \in 1..n : CutUpTo(C, n)[k] = NextCut(C, CutUpTo(C, n)[k-1])
<1> DEFINE cut[k \in 0..n] == IF k = 0 THEN 0 ELSE NextCut(C, cut[k-1])
<1>1. CutUpTo(C, n) = cut
  BY DEF CutUpTo
<1>2. cut = [k \in 0..n |-> IF k = 0 THEN 0 ELSE NextCut(C, cut[k-1])]
  BY CutExists
<1> HIDE DEF cut
<1>3. \A k \in 0..n : cut[k] = IF k = 0 THEN 0 ELSE NextCut(C, cut[k-1])
  BY <1>2
<1>4. 0 \in 0..n /\ \A k \in 1..n : k \in 0..n /\ k # 0
  OBVIOUS
<1>5. cut[0] = 0 /\ \A k \in 1..n : cut[k] = NextCut(C, cut[k-1])
  BY <1>3, <1>4
<1> QED
  BY <1>1, <1>5

LEMMA LeastIs ==
  ASSUME NEW S \in SUBSET Nat, S # {}
  PROVE  Min(S) \in S /\ \A y \in S : Min(S) <= y
<1>1. \E x \in S : \A y \in S : x <= y
  BY LeastNumber
<1> QED
  BY <1>1 DEF Min

\* Behind the k-th cut there are all but k of the ends.
LEMMA CutRanks ==
  ASSUME NEW C \in SUBSET (Nat \ {0}), IsFiniteSet(C)
  PROVE  \A k \in 0..Cardinality(C) :
           /\ CutOf(C)[k] \in Nat
           /\ k # 0 => CutOf(C)[k] \in C /\ CutOf(C)[k-1] < CutOf(C)[k]
           /\ Cardinality({i \in C : i > CutOf(C)[k]}) = Cardinality(C) - k
<1> DEFINE n == Cardinality(C)
           c == CutOf(C)
           After(x) == {i \in C : i > x}
           P(k) == /\ c[k] \in Nat
                   /\ k # 0 => c[k] \in C /\ c[k-1] < c[k]
                   /\ Cardinality(After(c[k])) = n - k
           Good == {k \in Nat : k \in 0..n => P(k)}
<1>1. n \in Nat
  BY FS_CardinalityType
<1>2. c[0] = 0 /\ \A k \in 1..n : c[k] = Min(After(c[k-1]))
  BY <1>1, CutSteps DEF CutOf, NextCut
<1>3. \A x : After(x) \subseteq C /\ IsFiniteSet(After(x)) /\ Cardinality(After(x)) \in Nat
  <2> SUFFICES ASSUME NEW x PROVE After(x) \subseteq C /\ IsFiniteSet(After(x)) /\ Cardinality(After(x)) \in Nat
    OBVIOUS
  <2>1. After(x) \subseteq C
    OBVIOUS
  <2>2. IsFiniteSet(After(x))
    BY <2>1, FS_Subset
  <2> QED
    BY <2>1, <2>2, FS_CardinalityType
<1> HIDE DEF c
<1>4. 0 \in Good
  <2>1. After(c[0]) = C
    <3>1. \A i \in C : i > 0
      OBVIOUS
    <3>2. After(0) = C
      BY <3>1
    <3> QED
      BY <1>2, <3>2
  <2> QED
    BY <1>1, <1>2, <2>1
<1>5. ASSUME NEW k \in Good PROVE k + 1 \in Good
  <2> SUFFICES ASSUME k + 1 \in 0..n PROVE P(k + 1)
    OBVIOUS
  <2>1. k \in 0..n /\ k \in Nat /\ k + 1 \in 1..n /\ (k + 1) - 1 = k
    BY <1>1
  <2>2. c[k] \in Nat /\ Cardinality(After(c[k])) = n - k
    BY <2>1
  <2>3. c[k+1] = Min(After(c[k]))
    BY <1>2, <2>1
  <2>4. After(c[k]) # {}
    <3>1. n - k # 0
      BY <1>1, <2>1
    <3>2. Cardinality(After(c[k])) # 0
      BY <2>2, <3>1
    <3> HIDE DEF After
    <3> QED
      BY <3>2, FS_EmptySet
  <2>5. After(c[k]) \in SUBSET Nat
    BY <1>3
  <2>6. c[k+1] \in After(c[k]) /\ \A y \in After(c[k]) : c[k+1] <= y
    <3> HIDE DEF After
    <3> QED
      BY <2>3, <2>4, <2>5, LeastIs
  <2>7. c[k+1] \in Nat /\ c[k+1] \in C /\ c[k] < c[k+1]
    BY <2>2, <2>6
  <2>8. After(c[k+1]) = After(c[k]) \ {c[k+1]}
    <3>1. ASSUME NEW y \in C PROVE y > c[k+1] <=> y > c[k] /\ y # c[k+1]
      <4>1. y \in Nat
        OBVIOUS
      <4>2. y > c[k] => c[k+1] <= y
        BY <2>6
      <4> QED
        BY <2>2, <2>7, <4>1, <4>2
    <3> QED
      BY <3>1
  <2>9. Cardinality(After(c[k+1])) = Cardinality(After(c[k])) - 1
    <3>1. IsFiniteSet(After(c[k]))
      BY <1>3
    <3> DEFINE Z == After(c[k])
               x == c[k+1]
    <3>2. x \in Z
      BY <2>6
    <3> HIDE DEF Z, x
    <3>3. Cardinality(Z \ {x}) = Cardinality(Z) - 1
      BY <3>1, <3>2, FS_RemoveElement DEF Z
    <3> QED
      BY <2>8, <3>3 DEF Z, x
  <2>10. Cardinality(After(c[k+1])) = n - (k + 1)
    BY <1>1, <2>1, <2>2, <2>9
  <2> QED
    BY <2>1, <2>7, <2>10
<1>6. Good = Nat
  <2>1. Good \in SUBSET Nat
    OBVIOUS
  <2> HIDE DEF Good
  <2> QED
    BY <1>4, <1>5, <2>1, Induction
<1>7. \A k \in 0..n : P(k)
  <2>1. \A k \in 0..n : k \in Good
    <3> HIDE DEF Good, n
    <3> QED
      BY <1>1, <1>6
  <2> QED
    BY <2>1
<1> QED
  BY <1>7 DEF c

LEMMA CutIs ==
  ASSUME NEW C \in SUBSET (Nat \ {0}), IsFiniteSet(C), NEW k \in 1..Cardinality(C), NEW x \in C,
         Cardinality({i \in C : i > x}) = Cardinality(C) - k
  PROVE  CutOf(C)[k] = x
<1> DEFINE y == CutOf(C)[k]
           After(z) == {i \in C : i > z}
<1>1. Cardinality(C) \in Nat /\ k \in 0..Cardinality(C) /\ k # 0
  BY FS_CardinalityType
<1>2. y \in C /\ Cardinality(After(y)) = Cardinality(After(x))
  BY <1>1, CutRanks
<1> HIDE DEF y
<1>3. ASSUME NEW a \in C, NEW b \in C, a < b PROVE Cardinality(After(a)) # Cardinality(After(b))
  <2>1. a \in Nat /\ b \in Nat
    OBVIOUS
  <2>2. After(b) \subseteq After(a) /\ b \in After(a) /\ b \notin After(b)
    <3>1. \A i \in C : i \in Nat
      OBVIOUS
    <3>2. \A i \in C : i > b => i > a
      BY <1>3, <2>1, <3>1
    <3>3. b > a /\ ~ (b > b)
      BY <1>3, <2>1
    <3> QED
      BY <3>2, <3>3
  <2>3. After(a) \subseteq C
    OBVIOUS
  <2>4. IsFiniteSet(After(a))
    <3> HIDE DEF After
    <3> QED
      BY <2>3, FS_Subset
  <2> HIDE DEF After
  <2> QED
    BY <2>2, <2>4, FS_Subset
<1>4. x \in Nat /\ y \in Nat
  BY <1>2
<1>5. ~ (x < y) /\ ~ (y < x)
  BY <1>2, <1>3
<1>6. x = y
  BY <1>4, <1>5
<1> QED
  BY <1>6 DEF y

LEMMA ShiftedSet ==
  ASSUME NEW B \in SUBSET Nat, IsFiniteSet(B), NEW m \in Nat
  PROVE  LET T == {m + j : j \in B} IN IsFiniteSet(T) /\ Cardinality(T) = Cardinality(B)
<1> DEFINE T == {m + j : j \in B}
           f == [j \in B |-> m + j]
<1>1. f \in [B -> T]
  OBVIOUS
<1>2. \A a, b \in B : f[a] = f[b] => a = b
  OBVIOUS
<1>3. \A t \in T : \E j \in B : f[j] = t
  OBVIOUS
<1> HIDE DEF f, T
<1>4. f \in Bijection(B, T)
  BY <1>1, <1>2, <1>3 DEF Bijection, Injection, Surjection, IsInjective
<1>5. ExistsBijection(B, T)
  BY <1>4 DEF ExistsBijection
<1> QED
  BY <1>5, FS_Bijection DEF T

Behind(m, B) == {m + j : j \in B}

\* The cuts of C are those of A, then those of B behind m.
CutsAreApart(m, A, B, C) ==
  /\ IsFiniteSet(A) /\ Cardinality(A) \in Nat /\ Cardinality(B) \in Nat
  /\ Cardinality(C) = Cardinality(A) + Cardinality(B)
  /\ \A k \in 1..Cardinality(A) : CutOf(C)[k] = CutOf(A)[k]
  /\ \A j \in 1..Cardinality(B) : CutOf(C)[Cardinality(A) + j] = m + CutOf(B)[j]
  /\ A # {} => CutOf(A)[Cardinality(A)] = m

\* The cuts of ends that come in two parts: those up to m, one of which is at m,
\* and those behind m.
LEMMA CutsBehind ==
  ASSUME NEW m \in Nat, NEW A \in SUBSET (1..m), A # {} => m \in A,
         NEW B \in SUBSET (Nat \ {0}), IsFiniteSet(B),
         NEW C, C = A \cup Behind(m, B)
  PROVE  CutsAreApart(m, A, B, C)
<1> DEFINE S(D) == {m + j : j \in D}
           a == Cardinality(A)
           b == Cardinality(B)
<1>0. C = A \cup S(B)
  BY DEF Behind
<1>1. IsFiniteSet(A) /\ a \in Nat /\ b \in Nat
  <2>1. IsFiniteSet(A)
    <3>1. IsFiniteSet(1..m)
      BY FS_Interval
    <3> QED
      BY <3>1, FS_Subset
  <2> QED
    BY <2>1, FS_CardinalityType
<1>2. A \in SUBSET (Nat \ {0}) /\ C \in SUBSET (Nat \ {0})
  <2>1. \A j \in B : m + j \in Nat \ {0}
    OBVIOUS
  <2>2. \A i \in A : i \in Nat \ {0}
    <3>1. \A i \in 1..m : i \in Nat \ {0}
      OBVIOUS
    <3> QED
      BY <3>1
  <2>3. \A x \in C : x \in Nat \ {0}
    BY <1>0, <2>1, <2>2
  <2> QED
    BY <2>2, <2>3
<1>3. ASSUME NEW X \in SUBSET A, NEW Y \in SUBSET B
      PROVE  IsFiniteSet(X \cup S(Y)) /\ Cardinality(X \cup S(Y)) = Cardinality(X) + Cardinality(Y)
  <2>1. IsFiniteSet(X) /\ IsFiniteSet(Y)
    BY <1>1, FS_Subset
  <2>2. IsFiniteSet(S(Y)) /\ Cardinality(S(Y)) = Cardinality(Y)
    <3>1. Y \in SUBSET Nat
      OBVIOUS
    <3> QED
      BY <2>1, <3>1, ShiftedSet
  <2>3. X \cap S(Y) = {}
    <3>1. \A x \in X : x \in 1..m
      OBVIOUS
    <3>2. \A j \in Y : j \in Nat \ {0} /\ m + j > m
      OBVIOUS
    <3> QED
      BY <3>1, <3>2
  <2> HIDE DEF S
  <2>4. Cardinality(X \cap S(Y)) = 0
    BY <2>3, FS_EmptySet
  <2>5. Cardinality(X) \in Nat /\ Cardinality(Y) \in Nat
    BY <2>1, FS_CardinalityType
  <2>6. /\ IsFiniteSet(X \cup S(Y))
        /\ Cardinality(X \cup S(Y)) = Cardinality(X) + Cardinality(S(Y)) - Cardinality(X \cap S(Y))
    BY <2>1, <2>2, FS_Union
  <2> QED
    BY <2>2, <2>4, <2>5, <2>6
<1>4. IsFiniteSet(C) /\ Cardinality(C) = a + b
  BY <1>0, <1>3
<1>5. ASSUME NEW k \in 1..a PROVE CutOf(C)[k] = CutOf(A)[k]
  <2> DEFINE x == CutOf(A)[k]
             X == {i \in A : i > x}
  <2>1. k \in 0..a /\ k # 0
    BY <1>1
  <2>2. x \in A /\ Cardinality(X) = a - k
    BY <1>1, <1>2, <2>1, CutRanks
  <2> HIDE DEF x
  <2>3. {i \in C : i > x} = X \cup S(B)
    <3>1. x \in 1..m
      BY <2>2
    <3>2. \A j \in B : m + j > x
      BY <3>1
    <3> QED
      BY <1>0, <3>2
  <2>4. Cardinality(X \cup S(B)) = Cardinality(X) + b
    BY <1>3
  <2>5. Cardinality({i \in C : i > x}) = Cardinality(C) - k
    <3>1. Cardinality({i \in C : i > x}) = a - k + b
      BY <2>2, <2>3, <2>4
    <3> HIDE DEF a, b
    <3> QED
      BY <1>1, <1>4, <2>1, <3>1
  <2>6. k \in 1..Cardinality(C) /\ x \in C
    BY <1>0, <1>1, <1>4, <2>2
  <2>7. CutOf(C)[k] = x
    BY <1>2, <1>4, <2>5, <2>6, CutIs
  <2> QED
    BY <2>7 DEF x
<1>6. ASSUME NEW k \in 1..b PROVE CutOf(C)[a + k] = m + CutOf(B)[k]
  <2> DEFINE x == CutOf(B)[k]
             Y == {j \in B : j > x}
  <2>1. k \in 0..b /\ k # 0
    BY <1>1
  <2>2. x \in B /\ Cardinality(Y) = b - k
    BY <1>1, <2>1, CutRanks
  <2> HIDE DEF x
  <2>3. {i \in C : i > m + x} = {} \cup S(Y)
    <3>1. x \in Nat \ {0}
      BY <2>2
    <3>2. \A i \in A : ~ (i > m + x)
      <4> SUFFICES ASSUME NEW i \in A PROVE ~ (i > m + x)
        OBVIOUS
      <4>1. i \in 1..m
        OBVIOUS
      <4> QED
        BY <3>1, <4>1
    <3>3. \A j \in B : m + j > m + x <=> j > x
      BY <3>1
    <3>4. \A i : i \in C /\ i > m + x => \E j \in B : i = m + j /\ j > x
      BY <1>0, <3>2, <3>3
    <3>5. \A j \in B : j > x => m + j \in C /\ m + j > m + x
      BY <1>0, <3>3
    <3> HIDE DEF x
    <3> QED
      BY <3>4, <3>5
  <2>4. Cardinality({} \cup S(Y)) = 0 + Cardinality(Y)
    BY <1>3, FS_EmptySet
  <2>5. Cardinality({i \in C : i > m + x}) = Cardinality(C) - (a + k)
    <3>1. Cardinality({i \in C : i > m + x}) = 0 + (b - k)
      BY <2>2, <2>3, <2>4
    <3> HIDE DEF a, b
    <3> QED
      BY <1>1, <1>4, <2>1, <3>1
  <2>6. a + k \in 1..Cardinality(C) /\ m + x \in C
    <3>1. m + x \in C
      BY <1>0, <2>2
    <3> QED
      BY <1>1, <1>4, <2>1, <3>1
  <2>7. CutOf(C)[a + k] = m + x
    BY <1>2, <1>4, <2>5, <2>6, CutIs
  <2> QED
    BY <2>7 DEF x
<1>7. ASSUME A # {} PROVE CutOf(A)[a] = m
  <2>1. m \in A
    BY <1>7
  <2>2. {i \in A : i > m} = {}
    <3> SUFFICES ASSUME NEW i \in A, i > m PROVE FALSE
      OBVIOUS
    <3>1. i \in 1..m
      OBVIOUS
    <3> QED
      BY <3>1
  <2>3. a # 0
    BY <1>1, <1>7, FS_EmptySet
  <2>4. Cardinality({i \in A : i > m}) = a - a
    BY <1>1, <2>2, FS_EmptySet
  <2>5. a \in 1..Cardinality(A)
    BY <1>1, <2>3
  <2> QED
    BY <1>1, <1>2, <2>1, <2>4, <2>5, CutIs
<1> QED
  BY <1>1, <1>4, <1>5, <1>6, <1>7 DEF CutsAreApart

-----------------------------------------------------------------------------
(* The sentences of a text.                                                    *)

LEMMA RStripText ==
  ASSUME NEW s \in Seq(Token)
  PROVE  RStrip(s) \in Seq(Token)
<1> DEFINE S == {i \in DOMAIN s : s[i] # Space}
<1>1. Len(s) \in Nat /\ DOMAIN s = 1..Len(s)
  BY LenProperties
<1>2. S \in SUBSET (0..Len(s))
  BY <1>1
<1>3. RStrip(s) = SubSeq(s, 1, Last0(S))
  BY DEF RStrip
<1> HIDE DEF S
<1>4. Last0(S) \in 0..Len(s)
  BY <1>1, <1>2, LastOf
<1>5. Last0(S) \in Int /\ Last0(S) <= Len(s) /\ 1 \in Nat \ {0}
  BY <1>1, <1>4
<1> QED
  BY <1>3, <1>5, PartOfText

LEMMA StripText ==
  ASSUME NEW s \in Seq(Token)
  PROVE  Strip(s) \in Seq(Token)
BY LStripText, RStripText DEF Strip

\* The part of a text from a cut to the next.
Piece(s, a, b) == SubSeq(s, a + 1, b)

LEMMA PieceText ==
  ASSUME NEW s \in Seq(Token), NEW a \in Nat, NEW b \in Nat, a <= b, b <= Len(s)
  PROVE  /\ Piece(s, a, b) \in Seq(Token) /\ Len(Piece(s, a, b)) = b - a
         /\ \A i \in 1..(b - a) : Piece(s, a, b)[i] = s[a+i]
<1>1. a + 1 \in Nat \ {0} /\ b \in Int
  OBVIOUS
<1>2. /\ Piece(s, a, b) \in Seq(Token)
      /\ Len(Piece(s, a, b)) = IF a + 1 <= b THEN b - (a + 1) + 1 ELSE 0
      /\ \A i \in 1..(b - (a + 1) + 1) : Piece(s, a, b)[i] = s[(a+1)+i-1]
  BY <1>1, PartOfText DEF Piece
<1> HIDE DEF Piece
<1> QED
  BY <1>2

\* What is the same text is the same piece.
SameText(s, k, l, t, a, b) ==
  /\ s \in Seq(Token) /\ k \in Nat /\ l \in Nat /\ k <= l /\ l <= Len(s)
  /\ t \in Seq(Token) /\ a \in Nat /\ b \in Nat /\ a <= b /\ b <= Len(t)
  /\ l - k = b - a /\ \A i \in 1..(b - a) : s[k+i] = t[a+i]

LEMMA SamePiece ==
  ASSUME NEW s, NEW k, NEW l, NEW t, NEW a, NEW b, SameText(s, k, l, t, a, b)
  PROVE  Piece(s, k, l) = Piece(t, a, b)
<1> USE DEF SameText
<1> DEFINE u == Piece(s, k, l)
           v == Piece(t, a, b)
<1>1. u \in Seq(Token) /\ Len(u) = l - k /\ \A i \in 1..(l - k) : u[i] = s[k+i]
  BY PieceText
<1>2. v \in Seq(Token) /\ Len(v) = b - a /\ \A i \in 1..(b - a) : v[i] = t[a+i]
  BY PieceText
<1> HIDE DEF u, v
<1>3. ASSUME NEW i \in 1..Len(u) PROVE u[i] = v[i]
  <2>1. i \in 1..(l - k) /\ i \in 1..(b - a)
    BY <1>1
  <2> QED
    BY <1>1, <1>2, <2>1
<1>4. Len(u) = Len(v)
  BY <1>1, <1>2
<1>5. u = v
  BY <1>1, <1>2, <1>3, <1>4, SeqEqual
<1> QED
  BY <1>5 DEF u, v

LEMMA SameBehind ==
  ASSUME NEW s \in Seq(Token), NEW m \in 0..Len(s), NEW t, t = From(s, m),
         NEW a \in Nat, NEW b \in Nat, a <= b, b <= Len(t)
  PROVE  Piece(s, m + a, m + b) = Piece(t, a, b)
<1>0. t \in Seq(Token) /\ Len(t) = Len(s) - m /\ \A i \in 1..(Len(s) - m) : t[i] = s[m+i]
  BY FromText
<1> DEFINE k == m + a
           l == m + b
<1>1. Len(s) \in Nat
  BY LenProperties
<1>2. /\ k \in Nat /\ l \in Nat /\ k <= l /\ l <= Len(s) /\ l - k = b - a
      /\ \A i \in 1..(b - a) : k + i = m + (a + i) /\ a + i \in 1..(Len(s) - m)
  BY <1>0, <1>1
<1> HIDE DEF k, l
<1>3. \A i \in 1..(b - a) : s[k+i] = t[a+i]
  BY <1>0, <1>2
<1>4. SameText(s, k, l, t, a, b)
  BY <1>0, <1>2, <1>3 DEF SameText
<1>5. Piece(s, k, l) = Piece(t, a, b)
  BY <1>4, SamePiece
<1> QED
  BY <1>5 DEF k, l

LEMMA DoneIs ==
  ASSUME NEW s \in Seq(Token)
  PROVE  LET n == Cardinality(Ends(s)) IN
         /\ n \in Nat
         /\ Done(s) = [k \in 1..n |-> Strip(Piece(s, CutOf(Ends(s))[k-1], CutOf(Ends(s))[k]))]
         /\ CutOf(Ends(s))[0] = 0
         /\ \A k \in 0..n : CutOf(Ends(s))[k] \in 0..Len(s)
         /\ \A k \in 1..n : /\ CutOf(Ends(s))[k-1] \in Nat /\ CutOf(Ends(s))[k] \in Ends(s)
                            /\ CutOf(Ends(s))[k-1] < CutOf(Ends(s))[k]
<1> DEFINE n == Cardinality(Ends(s))
           c == CutOf(Ends(s))
<1>1. /\ Ends(s) \in SUBSET (Nat \ {0}) /\ Ends(s) \in SUBSET (0..Len(s))
      /\ IsFiniteSet(Ends(s)) /\ n \in Nat
  BY EndsAreFinite
<1>2. Done(s) = [k \in 1..n |-> Strip(Piece(s, c[k-1], c[k]))]
  BY DEF Done, CutOf, CutUpTo, NextCut, Piece
<1>3. c[0] = 0
  BY <1>1, CutSteps DEF CutOf
<1>4. \A k \in 0..n : c[k] \in Nat /\ (k # 0 => c[k] \in Ends(s) /\ c[k-1] < c[k])
  BY <1>1, CutRanks
<1>5. Len(s) \in Nat
  BY LenProperties
<1> HIDE DEF c
<1>6. \A k \in 1..n : k \in 0..n /\ k # 0 /\ k - 1 \in 0..n
  <2> HIDE DEF n
  <2> QED
    BY <1>1
<1>7. \A k \in 0..n : c[k] \in 0..Len(s)
  <2> SUFFICES ASSUME NEW k \in 0..n PROVE c[k] \in 0..Len(s)
    OBVIOUS
  <2>1. CASE k = 0
    BY <1>3, <1>5, <2>1
  <2>2. CASE k # 0
    BY <1>1, <1>4, <2>2
  <2> QED
    BY <2>1, <2>2
<1>8. \A k \in 1..n : c[k-1] \in Nat /\ c[k] \in Ends(s) /\ c[k-1] < c[k]
  BY <1>4, <1>6
<1> QED
  BY <1>1, <1>2, <1>3, <1>7, <1>8 DEF c

LEMMA DoneText ==
  ASSUME NEW s \in Seq(Token)
  PROVE  Done(s) \in Seq(Seq(Token)) /\ Len(Done(s)) = Cardinality(Ends(s))
<1> DEFINE n == Cardinality(Ends(s))
           c == CutOf(Ends(s))
           e(k) == Strip(Piece(s, c[k-1], c[k]))
<1>1. /\ n \in Nat /\ Done(s) = [k \in 1..n |-> e(k)]
      /\ \A k \in 0..n : c[k] \in 0..Len(s)
      /\ \A k \in 1..n : c[k-1] \in Nat /\ c[k] \in Ends(s) /\ c[k-1] < c[k]
  BY DoneIs
<1>2. ASSUME NEW k \in 1..n PROVE e(k) \in Seq(Token)
  <2>0. Len(s) \in Nat
    BY LenProperties
  <2>1. k \in 0..n
    <3> HIDE DEF n
    <3> QED
      BY <1>1
  <2>2. c[k-1] \in Nat /\ c[k] \in 0..Len(s) /\ c[k-1] < c[k]
    BY <1>1, <2>1
  <2> HIDE DEF c
  <2>3. c[k-1] \in Nat /\ c[k] \in Nat /\ c[k-1] <= c[k] /\ c[k] <= Len(s)
    BY <2>0, <2>2
  <2>4. Piece(s, c[k-1], c[k]) \in Seq(Token)
    BY <2>3, PieceText
  <2> QED
    BY <2>4, StripText
<1> HIDE DEF e, n
<1>3. [k \in 1..n |-> e(k)] \in Seq(Seq(Token))
  BY <1>1, <1>2, IsASeq
<1>4. Len([k \in 1..n |-> e(k)]) = n
  BY <1>1
<1> QED
  BY <1>1, <1>3, <1>4 DEF n

\* A text may be read in two parts where a sentence ends, or where only spaces
\* come first.
Parted(s, m) ==
  \/ m \in Ends(s)
  \/ m \in 0..Len(s) /\ \A j \in 1..m : s[j] = Space

LEMMA PartedText ==
  ASSUME NEW s \in Seq(Token), NEW m, Parted(s, m)
  PROVE  LET A == {i \in Ends(s) : i <= m} IN
         /\ m \in 0..Len(s)
         /\ A \in SUBSET (1..m) /\ (A # {} => m \in A)
         /\ Ends(s) = A \cup Behind(m, Ends(From(s, m)))
<1> DEFINE A == {i \in Ends(s) : i <= m}
           S == Behind(m, Ends(From(s, m)))
<1>1. Len(s) \in Nat
  BY LenProperties
<1>2. \A i \in Ends(s) : i \in 1..(Len(s) - 1) /\ s[i] = Stop /\ s[i+1] = Space
  BY DEF Ends
<1>3. m \in 0..Len(s)
  BY <1>1, <1>2 DEF Parted
<1>4. m = 0 \/ s[m] = Space \/ (m < Len(s) /\ s[m+1] = Space)
  <2>1. CASE m \in Ends(s)
    BY <1>1, <1>2, <2>1
  <2>2. CASE m \in 0..Len(s) /\ \A j \in 1..m : s[j] = Space
    BY <2>2
  <2> QED
    BY <2>1, <2>2 DEF Parted
<1>5. {i \in Ends(s) : i > m} = S
  BY <1>3, <1>4, EndsBehind DEF Behind
<1>6. \A i \in Ends(s) : (i <= m) \/ (i > m)
  BY <1>2, <1>3
<1>7. Ends(s) = A \cup S
  BY <1>5, <1>6
<1>8. A \in SUBSET (1..m)
  BY <1>2, <1>3
<1>9. A # {} => m \in A
  <2>1. CASE m \in Ends(s)
    <3>1. m <= m
      BY <1>3
    <3> QED
      BY <2>1, <3>1
  <2>2. CASE m \in 0..Len(s) /\ \A j \in 1..m : s[j] = Space
    <3> SUFFICES ASSUME NEW i \in A PROVE FALSE
      OBVIOUS
    <3>1. s[i] = Stop /\ i \in 1..m
      BY <1>2, <1>8
    <3> QED
      BY <2>2, <3>1, BridgeAssumption
  <2> QED
    BY <2>1, <2>2 DEF Parted
<1> QED
  BY <1>3, <1>7, <1>8, <1>9

\* The sentences of s that end in A, then those of t.
DoneApart(s, m, A, t) ==
  /\ Cardinality(A) \in Nat /\ Len(Done(t)) \in Nat
  /\ Len(Done(s)) = Cardinality(A) + Len(Done(t))
  /\ \A k \in 1..Cardinality(A) :
       /\ Done(s)[k] = Strip(Piece(s, CutOf(A)[k-1], CutOf(A)[k]))
       /\ CutOf(A)[k-1] \in Nat /\ CutOf(A)[k] \in 0..m /\ CutOf(A)[k-1] < CutOf(A)[k]
  /\ \A j \in 1..Len(Done(t)) : Done(s)[Cardinality(A) + j] = Done(t)[j]

\* The sentences behind the place are those of what is behind it.
LEMMA DoneBehind ==
  ASSUME NEW s \in Seq(Token), NEW m, Parted(s, m),
         NEW A, A = {i \in Ends(s) : i <= m}, NEW t, t = From(s, m)
  PROVE  DoneApart(s, m, A, t)
<1> DEFINE B == Ends(t)
           C == Ends(s)
           a == Cardinality(A)
           b == Cardinality(B)
<1>1. /\ m \in 0..Len(s) /\ A \in SUBSET (1..m) /\ (A # {} => m \in A)
      /\ C = A \cup Behind(m, B)
  BY PartedText
<1>2. Len(s) \in Nat /\ m \in Nat
  BY <1>1, LenProperties
<1>3. t \in Seq(Token) /\ Len(t) = Len(s) - m /\ \A i \in 1..(Len(s) - m) : t[i] = s[m+i]
  BY <1>1, FromText
<1>4. B \in SUBSET (Nat \ {0}) /\ IsFiniteSet(B)
  BY <1>3, EndsAreFinite
<1> HIDE DEF B, C
<1>5. /\ IsFiniteSet(A) /\ a \in Nat /\ b \in Nat
      /\ Cardinality(C) = a + b
      /\ \A k \in 1..a : CutOf(C)[k] = CutOf(A)[k]
      /\ \A j \in 1..b : CutOf(C)[a + j] = m + CutOf(B)[j]
      /\ A # {} => CutOf(A)[a] = m
  <2>1. /\ IsFiniteSet(A) /\ Cardinality(A) \in Nat /\ Cardinality(B) \in Nat
        /\ Cardinality(C) = Cardinality(A) + Cardinality(B)
        /\ \A k \in 1..Cardinality(A) : CutOf(C)[k] = CutOf(A)[k]
        /\ \A j \in 1..Cardinality(B) : CutOf(C)[Cardinality(A) + j] = m + CutOf(B)[j]
        /\ A # {} => CutOf(A)[Cardinality(A)] = m
    <3>1. /\ m \in Nat /\ A \in SUBSET (1..m) /\ (A # {} => m \in A)
          /\ B \in SUBSET (Nat \ {0}) /\ IsFiniteSet(B) /\ C = A \cup Behind(m, B)
      BY <1>1, <1>2, <1>4
    <3>2. CutsAreApart(m, A, B, C)
      BY <3>1, CutsBehind
    <3> QED
      BY <3>2 DEF CutsAreApart
  <2> QED
    BY <2>1
<1>6. /\ Done(s) = [k \in 1..(a + b) |-> Strip(Piece(s, CutOf(C)[k-1], CutOf(C)[k]))]
      /\ CutOf(C)[0] = 0
      /\ \A k \in 1..(a + b) : CutOf(C)[k-1] \in Nat /\ CutOf(C)[k] \in C /\ CutOf(C)[k-1] < CutOf(C)[k]
  BY <1>5, DoneIs DEF C
<1>7. /\ Done(t) = [k \in 1..b |-> Strip(Piece(t, CutOf(B)[k-1], CutOf(B)[k]))]
      /\ CutOf(B)[0] = 0
      /\ \A k \in 1..b : CutOf(B)[k-1] \in Nat /\ CutOf(B)[k] \in B /\ CutOf(B)[k-1] < CutOf(B)[k]
      /\ \A k \in 0..b : CutOf(B)[k] \in 0..Len(t)
  BY <1>3, DoneIs DEF B
<1>8. CutOf(A)[0] = 0
  BY <1>5, CutSteps DEF CutOf
<1>9. Len(Done(s)) = a + b /\ Len(Done(t)) = b
  <2> HIDE DEF a, b
  <2> QED
    BY <1>5, <1>6, <1>7
<1>10. A \in SUBSET (Nat \ {0})
  <2>1. \A i \in 1..m : i \in Nat \ {0}
    BY <1>2
  <2> QED
    BY <1>1, <2>1
<1>11. ASSUME NEW k \in 1..a
       PROVE  /\ Done(s)[k] = Strip(Piece(s, CutOf(A)[k-1], CutOf(A)[k]))
              /\ CutOf(A)[k-1] \in Nat /\ CutOf(A)[k] \in 0..m /\ CutOf(A)[k-1] < CutOf(A)[k]
  <2> HIDE DEF a, b
  <2>1. k \in 1..(a + b) /\ k \in 0..a /\ k # 0
    BY <1>5
  <2>2. CutOf(C)[k-1] = CutOf(A)[k-1]
    <3>1. CASE k = 1
      BY <1>6, <1>8, <3>1
    <3>2. CASE k # 1
      <4>1. k - 1 \in 1..a
        BY <1>5, <3>2
      <4> QED
        BY <1>5, <4>1
    <3> QED
      BY <3>1, <3>2
  <2>3. CutOf(C)[k] = CutOf(A)[k]
    BY <1>5
  <2>4. CutOf(A)[k] \in A
    <3>1. k \in 0..Cardinality(A)
      BY <2>1 DEF a
    <3> QED
      BY <1>5, <1>10, <2>1, <3>1, CutRanks
  <2>5. CutOf(A)[k] \in 0..m
    <3>1. \A i \in A : i \in 0..m
      BY <1>1, <1>2
    <3> QED
      BY <2>4, <3>1
  <2>6. Done(s)[k] = Strip(Piece(s, CutOf(C)[k-1], CutOf(C)[k]))
    BY <1>6, <2>1
  <2> QED
    BY <1>6, <2>1, <2>2, <2>3, <2>5, <2>6
<1>12. ASSUME NEW j \in 1..b PROVE Done(s)[a + j] = Done(t)[j]
  <2> HIDE DEF a, b
  <2> DEFINE p == CutOf(B)[j-1]
             q == CutOf(B)[j]
  <2>1. a + j \in 1..(a + b) /\ j \in 0..b /\ j - 1 \in 0..b /\ (a + j) - 1 = a + (j - 1)
    BY <1>5
  <2>2. Done(s)[a + j] = Strip(Piece(s, CutOf(C)[a + (j-1)], CutOf(C)[a + j])) /\ Done(t)[j] = Strip(Piece(t, p, q))
    BY <1>6, <1>7, <2>1
  <2>3. CutOf(C)[a + j] = m + q
    BY <1>5
  <2>4. p \in Nat /\ q \in Nat /\ p <= q /\ q <= Len(t) /\ m + q <= Len(s)
    <3>1. p \in Nat /\ p < q
      BY <1>7
    <3>2. q \in 0..Len(t)
      BY <1>7, <2>1
    <3> HIDE DEF p, q
    <3> QED
      BY <1>1, <1>2, <1>3, <3>1, <3>2
  <2>5. CASE j # 1
    <3>1. j - 1 \in 1..b
      BY <1>5, <2>5
    <3>2. CutOf(C)[a + (j-1)] = m + p
      BY <1>5, <3>1
    <3> HIDE DEF p, q
    <3>4. Piece(s, m + p, m + q) = Piece(t, p, q)
      BY <1>1, <2>4, SameBehind
    <3> QED
      BY <2>2, <2>3, <3>2, <3>4
  <2>6. CASE j = 1 /\ A # {}
    <3>1. a # 0
      BY <1>5, <2>6, FS_EmptySet DEF a
    <3>2. a \in 1..a /\ a + (j - 1) = a
      BY <1>5, <2>6, <3>1
    <3>3. CutOf(C)[a + (j-1)] = m /\ p = 0
      <4>1. CutOf(C)[a] = CutOf(A)[a] /\ CutOf(A)[a] = m
        BY <1>5, <2>6, <3>2
      <4>2. j - 1 = 0
        BY <2>6
      <4> QED
        BY <1>7, <3>2, <4>1, <4>2
    <3> HIDE DEF p, q
    <3>5. Piece(s, m + p, m + q) = Piece(t, p, q)
      BY <1>1, <2>4, SameBehind
    <3>6. m + p = m
      BY <1>2, <3>3
    <3> QED
      BY <2>2, <2>3, <3>3, <3>5, <3>6
  <2>7. CASE j = 1 /\ A = {}
    <3>1. a = 0
      BY <2>7, FS_EmptySet DEF a
    <3>2. CutOf(C)[a + (j-1)] = 0 /\ p = 0
      BY <1>6, <1>7, <2>7, <3>1
    <3>3. \A i \in 1..m : s[i] = Space
      <4>1. m \notin Ends(s)
        <5>1. m <= m
          BY <1>2
        <5> QED
          BY <2>7, <5>1
      <4> QED
        BY <4>1 DEF Parted
    <3> HIDE DEF p, q
    <3> DEFINE u == Piece(s, 0, m + q)
               v == Piece(t, 0, q)
    <3>4. u \in Seq(Token) /\ Len(u) = m + q /\ \A i \in 1..(m + q) : u[i] = s[i]
      <4>1. 0 \in Nat /\ 0 <= m + q /\ m + q \in Nat /\ (m + q) - 0 = m + q /\ \A i \in 1..(m + q) : 0 + i = i
        BY <1>2, <2>4
      <4> QED
        <5>1. /\ u \in Seq(Token) /\ Len(u) = (m + q) - 0
              /\ \A i \in 1..((m + q) - 0) : u[i] = s[0+i]
          BY <2>4, <4>1, PieceText
        <5> HIDE DEF u
        <5> QED
          BY <4>1, <5>1
    <3>5. m \in 0..Len(u) /\ \A i \in 1..m : u[i] = Space
      <4>1. Len(u) = m + q /\ \A i \in 1..(m + q) : u[i] = s[i]
        BY <3>4
      <4> HIDE DEF u
      <4>2. m \in 0..Len(u) /\ \A i \in 1..m : i \in 1..(m + q)
        BY <1>2, <2>4, <4>1
      <4> QED
        BY <3>3, <4>1, <4>2
    <3>6. LStrip(From(u, m)) = LStrip(u)
      BY <3>4, <3>5, LStripFrom
    <3>7. From(u, m) = v
      <4> DEFINE w == From(u, m)
      <4>1. w \in Seq(Token) /\ Len(w) = Len(u) - m /\ \A i \in 1..(Len(u) - m) : w[i] = u[m+i]
        BY <3>4, <3>5, FromText
      <4>2. v \in Seq(Token) /\ Len(v) = q - 0 /\ \A i \in 1..(q - 0) : v[i] = t[0+i]
        <5>1. 0 \in Nat /\ 0 <= q
          BY <2>4
        <5> QED
          BY <1>3, <2>4, <5>1, PieceText
      <4> HIDE DEF u, v, w
      <4>3. Len(w) = q /\ Len(v) = q
        BY <1>2, <2>4, <3>4, <4>1, <4>2
      <4>4. ASSUME NEW i \in 1..Len(w) PROVE w[i] = v[i]
        <5>1. /\ i \in 1..(Len(u) - m) /\ i \in 1..(q - 0) /\ m + i \in 1..(m + q)
              /\ 0 + i = i /\ i \in 1..(Len(s) - m)
          BY <1>2, <1>3, <2>4, <3>4, <4>3
        <5> QED
          BY <1>3, <3>4, <4>1, <4>2, <5>1
      <4>5. w = v
        BY <4>1, <4>2, <4>3, <4>4, SeqEqual
      <4> QED
        BY <4>5 DEF w
    <3>8. Strip(u) = Strip(v)
      BY <3>6, <3>7 DEF Strip
    <3> QED
      BY <2>2, <2>3, <3>2, <3>8
  <2> QED
    BY <2>5, <2>6, <2>7
<1> QED
  BY <1>5, <1>9, <1>11, <1>12 DEF DoneApart

\* Spaces at the beginning are in no sentence.
LEMMA DoneOfStripped ==
  ASSUME NEW s \in Seq(Token)
  PROVE  Done(LStrip(s)) = Done(s)
<1> DEFINE m == Lead(s)
           t == From(s, m)
           A == {i \in Ends(s) : i <= m}
<1>1. m \in 0..Len(s) /\ LStrip(s) = t /\ \A j \in 1..m : s[j] = Space
  BY LeadText
<1> HIDE DEF m
<1>2. Parted(s, m)
  BY <1>1 DEF Parted
<1>3. A = {}
  <2> SUFFICES ASSUME NEW i \in A PROVE FALSE
    OBVIOUS
  <2>1. i \in 1..m /\ s[i] = Stop
    BY <1>1 DEF Ends
  <2> QED
    BY <1>1, <2>1, BridgeAssumption
<1>4. Cardinality(A) = 0
  BY <1>3, FS_EmptySet
<1>5. /\ Len(Done(t)) \in Nat /\ Len(Done(s)) = Cardinality(A) + Len(Done(t))
      /\ \A j \in 1..Len(Done(t)) : Done(s)[Cardinality(A) + j] = Done(t)[j]
  <2>1. DoneApart(s, m, A, t)
    BY <1>2, DoneBehind
  <2> QED
    BY <2>1 DEF DoneApart
<1>6. t \in Seq(Token)
  BY <1>1, FromText
<1> HIDE DEF A, t
<1>7. Done(s) \in Seq(Seq(Token)) /\ Done(t) \in Seq(Seq(Token))
  BY <1>6, DoneText
<1>8. Len(Done(s)) = Len(Done(t))
  BY <1>4, <1>5
<1>9. \A j \in 1..Len(Done(t)) : Done(s)[j] = Done(t)[j]
  <2> SUFFICES ASSUME NEW j \in 1..Len(Done(t)) PROVE Done(s)[j] = Done(t)[j]
    OBVIOUS
  <2>1. Cardinality(A) + j = j
    BY <1>4, <1>5
  <2> QED
    BY <1>5, <2>1
<1>10. Done(s) = Done(t)
  BY <1>7, <1>8, <1>9, SeqEqual
<1> QED
  BY <1>1, <1>10

LEMMA DoneOfSame ==
  ASSUME NEW a \in Seq(Token), NEW b \in Seq(Token), NEW c \in Seq(Token), LStrip(a) = LStrip(b)
  PROVE  Done(a \o c) = Done(b \o c)
<1>1. a \o c \in Seq(Token) /\ b \o c \in Seq(Token)
  BY ConcatProperties
<1>2. LStrip(a \o c) = LStrip(b \o c)
  <2>1. LStrip(LStrip(a) \o c) = LStrip(a \o c) /\ LStrip(LStrip(b) \o c) = LStrip(b \o c)
    BY LStripConcat
  <2> QED
    BY <2>1
<1>3. Done(LStrip(a \o c)) = Done(a \o c) /\ Done(LStrip(b \o c)) = Done(b \o c)
  BY <1>1, DoneOfStripped
<1> QED
  BY <1>2, <1>3

\* The last end of a text, and the same place in a longer one.
LEMMA LastEnd ==
  ASSUME NEW s \in Seq(Token), NEW c \in Seq(Token), Ends(s) # {}
  PROVE  LET m == Max(Ends(s)) IN
         /\ m \in 1..Len(s) /\ m \in Ends(s) /\ m \in Ends(s \o c)
         /\ Ends(s) = {i \in Ends(s) : i <= m} /\ Ends(s) = {i \in Ends(s \o c) : i <= m}
<1> DEFINE m == Max(Ends(s))
           x == s \o c
<1>1. /\ Ends(s) \in SUBSET (0..Len(s))
      /\ Ends(s) \in SUBSET (1..(Len(s) - 1))
  BY EndsAreFinite
<1>2. Len(s) \in Nat
  BY LenProperties
<1>3. m \in Ends(s) /\ \A i \in Ends(s) : i <= m
  BY <1>1, <1>2, GreatestNumber
<1> HIDE DEF m
<1>4. m \in 1..(Len(s) - 1)
  BY <1>1, <1>3
<1>5. \A i \in 1..(Len(s) - 1) : i \in Ends(x) <=> i \in Ends(s)
  BY EndsBefore
<1>6. \A i \in Ends(x) : i \in Nat \ {0}
  BY ConcatProperties DEF Ends
<1>7. \A i \in Ends(x) : i <= m => i \in 1..(Len(s) - 1)
  BY <1>2, <1>4, <1>6
<1> HIDE DEF x
<1>8. Ends(s) = {i \in Ends(x) : i <= m}
  BY <1>1, <1>3, <1>5, <1>7
<1>9. Ends(s) = {i \in Ends(s) : i <= m}
  BY <1>3
<1>10. m \in 1..Len(s) /\ m \in Ends(x)
  BY <1>2, <1>3, <1>4, <1>5
<1> QED
  BY <1>3, <1>8, <1>9, <1>10 DEF m, x

\* With the end of the last sentence a new text begins.
LEMMA DoneGrows ==
  ASSUME NEW s \in Seq(Token), NEW c \in Seq(Token)
  PROVE  Done(s \o c) = Done(s) \o Done(Remainder(s) \o c)
<1> DEFINE x == s \o c
<1>1. x \in Seq(Token)
  BY ConcatProperties
<1>2. CASE Ends(s) = {}
  <2>1. Remainder(s) = s
    BY <1>2 DEF Remainder
  <2>2. Cardinality(Ends(s)) = 0
    BY <1>2, FS_EmptySet
  <2>3. Done(s) \in Seq(Seq(Token)) /\ Len(Done(s)) = 0
    BY <2>2, DoneText
  <2>4. Done(s) = <<>>
    BY <2>3, EmptySeq
  <2>5. Done(x) \in Seq(Seq(Token))
    BY <1>1, DoneText
  <2>6. <<>> \o Done(x) = Done(x)
    BY <2>5, ConcatEmptySeq
  <2> QED
    BY <2>1, <2>4, <2>6
<1>3. CASE Ends(s) # {}
  <2> DEFINE m == Max(Ends(s))
             A == Ends(s)
             n == Cardinality(A)
             r == From(s, m)
             t == From(x, m)
  <2>1. /\ m \in 1..Len(s) /\ m \in Ends(s) /\ m \in Ends(x)
        /\ A = {i \in Ends(s) : i <= m} /\ A = {i \in Ends(x) : i <= m}
    BY <1>3, LastEnd
  <2>0. Len(s) \in Nat /\ Len(c) \in Nat
    BY LenProperties
  <2>2. Len(x) = Len(s) + Len(c) /\ \A i \in 1..(Len(s) + Len(c)) : x[i] = IF i <= Len(s) THEN s[i] ELSE c[i - Len(s)]
    BY ConcatProperties
  <2> HIDE DEF x
  <2>3. Remainder(s) = LStrip(r)
    BY <1>3 DEF Remainder, From
  <2> HIDE DEF m
  <2>4. m \in 0..Len(s) /\ m \in 0..Len(x)
    BY <2>0, <2>1, <2>2
  <2>5. r \in Seq(Token) /\ t \in Seq(Token) /\ r \o c = t
    BY <1>1, <2>4, FromText, FromConcat DEF x
  <2>6. Parted(s, m) /\ Parted(x, m)
    BY <2>1 DEF Parted
  <2>7. /\ n \in Nat /\ Len(Done(r)) \in Nat /\ Len(Done(s)) = n + Len(Done(r))
        /\ \A k \in 1..n :
              /\ Done(s)[k] = Strip(Piece(s, CutOf(A)[k-1], CutOf(A)[k]))
              /\ CutOf(A)[k-1] \in Nat /\ CutOf(A)[k] \in 0..m /\ CutOf(A)[k-1] < CutOf(A)[k]
    <3>1. DoneApart(s, m, A, r)
      BY <2>1, <2>6, DoneBehind
    <3> HIDE DEF A, r
    <3> QED
      BY <3>1 DEF DoneApart
  <2>8. /\ Len(Done(t)) \in Nat /\ Len(Done(x)) = n + Len(Done(t))
        /\ \A k \in 1..n : Done(x)[k] = Strip(Piece(x, CutOf(A)[k-1], CutOf(A)[k]))
        /\ \A j \in 1..Len(Done(t)) : Done(x)[n + j] = Done(t)[j]
    <3>1. DoneApart(x, m, A, t)
      BY <1>1, <2>1, <2>6, DoneBehind
    <3> HIDE DEF A, t
    <3> QED
      BY <3>1 DEF DoneApart
  <2>9. Done(s) \in Seq(Seq(Token)) /\ Done(t) \in Seq(Seq(Token)) /\ Done(x) \in Seq(Seq(Token)) /\ Len(Done(s)) = n
    BY <1>1, <2>5, DoneText
  <2> DEFINE y == Done(s) \o Done(t)
  <2>10. /\ y \in Seq(Seq(Token)) /\ Len(y) = Len(Done(s)) + Len(Done(t))
         /\ \A i \in 1..(Len(Done(s)) + Len(Done(t))) :
               y[i] = IF i <= Len(Done(s)) THEN Done(s)[i] ELSE Done(t)[i - Len(Done(s))]
    BY <2>9, ConcatProperties
  <2> HIDE DEF y, A, n, r, t
  <2>11. Len(y) = Len(Done(x))
    BY <2>8, <2>9, <2>10
  <2>12. ASSUME NEW i \in 1..Len(y) PROVE y[i] = Done(x)[i]
    <3>1. CASE i <= n
      <4> DEFINE p == CutOf(A)[i-1]
                 q == CutOf(A)[i]
      <4>1. i \in 1..n /\ i \in 1..(Len(Done(s)) + Len(Done(t)))
        BY <2>7, <2>8, <2>9, <2>10, <3>1
      <4>2. /\ Done(s)[i] = Strip(Piece(s, p, q)) /\ Done(x)[i] = Strip(Piece(x, p, q))
            /\ p \in Nat /\ q \in 0..m /\ p < q
        BY <2>7, <2>8, <4>1
      <4> HIDE DEF p, q
      <4>3. /\ p \in Nat /\ q \in Nat /\ p <= q /\ q <= Len(x) /\ q <= Len(s)
            /\ \A j \in 1..q : s[j] = x[j]
        BY <2>0, <2>1, <2>2, <4>2
      <4>4. Piece(x, p, q) = Piece(s, p, q)
        <5>1. q - p \in Nat /\ \A j \in 1..(q - p) : x[p+j] = s[p+j]
          <6>1. \A j \in 1..(q - p) : p + j \in 1..q
            BY <4>3
          <6> QED
            BY <4>3, <6>1
        <5>2. SameText(x, p, q, s, p, q)
          BY <1>1, <4>3, <5>1 DEF SameText
        <5> QED
          BY <5>2, SamePiece
      <4> QED
        BY <2>9, <2>10, <3>1, <4>1, <4>2, <4>4
    <3>2. CASE ~ (i <= n)
      <4>1. i - n \in 1..Len(Done(t)) /\ n + (i - n) = i /\ i \in 1..(Len(Done(s)) + Len(Done(t)))
        <5>1. n \in Nat /\ Len(Done(t)) \in Nat /\ Len(Done(s)) = n /\ Len(y) = Len(Done(s)) + Len(Done(t))
          BY <2>7, <2>8, <2>9, <2>10
        <5> QED
          BY <3>2, <5>1
      <4> QED
        BY <2>8, <2>9, <2>10, <3>2, <4>1
    <3> QED
      BY <3>1, <3>2
  <2>13. Done(x) = Done(s) \o Done(t)
    BY <2>9, <2>10, <2>11, <2>12, SeqEqual DEF y
  <2>14. Done(LStrip(r) \o c) = Done(t)
    <3>1. LStrip(r) \in Seq(Token) /\ LStrip(LStrip(r)) = LStrip(r)
      BY <2>5, LStripText, LStripTwice
    <3>2. Done(LStrip(r) \o c) = Done(r \o c)
      BY <2>5, <3>1, DoneOfSame
    <3> QED
      BY <2>5, <3>2
  <2> QED
    BY <2>3, <2>13, <2>14 DEF x
<1> QED
  BY <1>2, <1>3

\* What is behind the last sentence of a text, but for its leading spaces.
Left(s) == LStrip(Remainder(s))

LEMMA LeftBehind ==
  ASSUME NEW s \in Seq(Token), NEW m, Parted(s, m)
  PROVE  Left(s) = Left(From(s, m))
<1> DEFINE A == {i \in Ends(s) : i <= m}
           t == From(s, m)
<1>0. Len(s) \in Nat
  BY LenProperties
<1>1. /\ m \in 0..Len(s) /\ A \in SUBSET (1..m) /\ (A # {} => m \in A)
      /\ Ends(s) = A \cup Behind(m, Ends(t))
  BY PartedText
<1>2. t \in Seq(Token) /\ Len(t) = Len(s) - m
  BY <1>1, FromText
<1>3. LStrip(t) \in Seq(Token) /\ LStrip(LStrip(t)) = LStrip(t)
  BY <1>2, LStripText, LStripTwice
<1> HIDE DEF A
<1>4. CASE Ends(t) = {} /\ m \in Ends(s)
  <2>1. Ends(s) = A
    <3> HIDE DEF t
    <3> QED
      BY <1>1, <1>4 DEF Behind
  <2>2. Ends(s) \in SUBSET (0..Len(s)) /\ \A i \in Ends(s) : i <= m
    <3>1. \A i \in 1..m : i \in 0..Len(s) /\ i <= m
      BY <1>0, <1>1
    <3> QED
      BY <1>1, <2>1, <3>1
  <2>3. Max(Ends(s)) = m
    <3>1. Max(Ends(s)) \in Ends(s) /\ \A i \in Ends(s) : i <= Max(Ends(s))
      BY <1>0, <1>4, <2>2, GreatestNumber
    <3>2. Max(Ends(s)) <= m /\ m <= Max(Ends(s)) /\ Max(Ends(s)) \in 0..Len(s)
      BY <1>4, <2>2, <3>1
    <3> QED
      BY <1>1, <3>2
  <2>4. Remainder(s) = LStrip(t)
    BY <1>4, <2>3 DEF Remainder, From
  <2>5. Remainder(t) = t
    BY <1>4 DEF Remainder
  <2> QED
    BY <1>3, <2>4, <2>5 DEF Left
<1>5. CASE Ends(t) = {} /\ m \notin Ends(s)
  <2>1. Ends(s) = {}
    <3> HIDE DEF t
    <3>1. A = {}
      BY <1>1, <1>5 DEF A
    <3> QED
      BY <1>1, <1>5, <3>1 DEF Behind
  <2>2. Remainder(s) = s /\ Remainder(t) = t
    BY <1>5, <2>1 DEF Remainder
  <2>3. LStrip(t) = LStrip(s)
    BY <1>5, LStripFrom DEF Parted
  <2> QED
    BY <2>2, <2>3 DEF Left
<1>6. CASE Ends(t) # {}
  <2> DEFINE q == Max(Ends(t))
             p == Max(Ends(s))
  <2>1. Ends(t) \in SUBSET (0..Len(t)) /\ Len(t) \in Nat /\ Ends(s) \in SUBSET (0..Len(s))
    BY <1>2, EndsAreFinite, LenProperties
  <2>2. q \in Ends(t) /\ \A i \in Ends(t) : i <= q
    BY <1>6, <2>1, GreatestNumber
  <2>3. m + q \in Ends(s)
    <3> HIDE DEF t, q
    <3> QED
      BY <1>1, <2>2 DEF Behind
  <2>4. p \in Ends(s) /\ \A i \in Ends(s) : i <= p
    BY <1>0, <2>1, <2>3, GreatestNumber
  <2> HIDE DEF t, p, q
  <2>5. m + q <= p /\ q \in Nat /\ m + q \in Nat /\ q \in 0..Len(t) /\ p \in 0..Len(s)
    BY <1>1, <2>1, <2>2, <2>3, <2>4
  <2>6. p <= m + q
    <3>1. CASE p \in A
      <4>1. p \in 1..m
        BY <1>1, <3>1
      <4> QED
        BY <1>1, <2>5, <4>1
    <3>2. CASE p \notin A
      <4>1. PICK j \in Ends(t) : p = m + j
        BY <1>1, <2>4, <3>2 DEF Behind
      <4>2. j <= q /\ j \in 0..Len(t)
        BY <2>1, <2>2, <4>1
      <4> QED
        BY <1>1, <2>5, <4>1, <4>2
    <3> QED
      BY <3>1, <3>2
  <2>7. p = m + q
    BY <1>1, <2>5, <2>6
  <2>8. From(t, q) = From(s, m + q)
    <3>1. m \in Nat /\ q \in Nat /\ m + q <= Len(s)
      BY <1>1, <2>5, <2>7
    <3> QED
      BY <3>1, FromFrom DEF t
  <2>9. Remainder(s) = LStrip(From(s, p)) /\ Remainder(t) = LStrip(From(t, q))
    BY <1>6, <2>4 DEF Remainder, From, p, q
  <2>10. Left(s) = Left(t)
    BY <2>7, <2>8, <2>9 DEF Left
  <2> QED
    BY <2>10 DEF t
<1> QED
  BY <1>4, <1>5, <1>6

LEMMA LeftOfSame ==
  ASSUME NEW a \in Seq(Token), NEW b \in Seq(Token), NEW c \in Seq(Token), LStrip(a) = LStrip(b)
  PROVE  Left(a \o c) = Left(b \o c)
<1>1. \A s \in Seq(Token) : Left(LStrip(s)) = Left(s)
  <2> SUFFICES ASSUME NEW s \in Seq(Token) PROVE Left(LStrip(s)) = Left(s)
    OBVIOUS
  <2>1. Lead(s) \in 0..Len(s) /\ LStrip(s) = From(s, Lead(s)) /\ \A j \in 1..Lead(s) : s[j] = Space
    BY LeadText
  <2>2. Parted(s, Lead(s))
    BY <2>1 DEF Parted
  <2> QED
    BY <2>1, <2>2, LeftBehind
<1>2. a \o c \in Seq(Token) /\ b \o c \in Seq(Token)
  BY ConcatProperties
<1>3. LStrip(a \o c) = LStrip(b \o c)
  <2>1. LStrip(LStrip(a) \o c) = LStrip(a \o c) /\ LStrip(LStrip(b) \o c) = LStrip(b \o c)
    BY LStripConcat
  <2> QED
    BY <2>1
<1>4. Left(LStrip(a \o c)) = Left(a \o c) /\ Left(LStrip(b \o c)) = Left(b \o c)
  BY <1>1, <1>2
<1> QED
  BY <1>3, <1>4

LEMMA LeftGrows ==
  ASSUME NEW s \in Seq(Token), NEW c \in Seq(Token)
  PROVE  Left(s \o c) = Left(Remainder(s) \o c)
<1>1. CASE Ends(s) = {}
  BY <1>1 DEF Remainder
<1>2. CASE Ends(s) # {}
  <2> DEFINE m == Max(Ends(s))
             r == From(s, m)
  <2>1. m \in 1..Len(s) /\ m \in Ends(s \o c)
    BY <1>2, LastEnd
  <2>2. Remainder(s) = LStrip(r)
    BY <1>2 DEF Remainder, From
  <2> HIDE DEF m
  <2>3. m \in 0..Len(s)
    BY <2>1
  <2>4. r \in Seq(Token) /\ r \o c = From(s \o c, m)
    BY <2>3, FromText, FromConcat
  <2>5. s \o c \in Seq(Token) /\ Parted(s \o c, m)
    BY <2>1, ConcatProperties DEF Parted
  <2>6. Left(s \o c) = Left(r \o c)
    BY <2>4, <2>5, LeftBehind
  <2> HIDE DEF r
  <2>7. LStrip(r) \in Seq(Token) /\ LStrip(LStrip(r)) = LStrip(r)
    BY <2>4, LStripText, LStripTwice
  <2>8. Left(LStrip(r) \o c) = Left(r \o c)
    BY <2>4, <2>7, LeftOfSame
  <2> QED
    BY <2>2, <2>6, <2>8
<1> QED
  BY <1>1, <1>2

\* However a text arrives, the sentences are the same.  What has been read up
\* to s leaves b, and c comes next.
GoesOn(s, b, c) == Done(s \o c) = Done(s) \o Done(b \o c) /\ Left(s \o c) = Left(b \o c)

LEMMA TextGoesOn ==
  ASSUME NEW s \in Seq(Token), NEW b \in Seq(Token), NEW c \in Seq(Token), LStrip(b) = Left(s)
  PROVE  GoesOn(s, b, c)
<1>1. Remainder(s) \in Seq(Token) /\ LStrip(b) = LStrip(Remainder(s))
  BY RemainderText DEF Left
<1>2. Done(Remainder(s) \o c) = Done(b \o c) /\ Left(Remainder(s) \o c) = Left(b \o c)
  BY <1>1, DoneOfSame, LeftOfSame
<1>3. Done(s \o c) = Done(s) \o Done(Remainder(s) \o c)
  BY DoneGrows
<1>4. Left(s \o c) = Left(Remainder(s) \o c)
  BY LeftGrows
<1> QED
  BY <1>2, <1>3, <1>4 DEF GoesOn

-----------------------------------------------------------------------------
(* A text without its spaces.                                                  *)

OneMore(s, n, w) ==
  CASE n = 0 -> <<>>
    [] n > 0 /\ s[n] = Space -> w
    [] OTHER -> Append(w, s[n])

WrittenUpTo(s, n) == LET upTo[i \in 0..n] == OneMore(s, i, upTo[i-1]) IN upTo

LEMMA WrittenExists ==
  ASSUME NEW s
  PROVE  \A n \in Nat : \E w : w = [i \in 0..n |-> OneMore(s, i, w[i-1])]
<1> DEFINE Good == {n \in Nat : \E w : w = [i \in 0..n |-> OneMore(s, i, w[i-1])]}
<1>0. \A w : OneMore(s, 0, w) = <<>>
  BY DEF OneMore
<1>1. 0 \in Good
  <2> DEFINE w == [i \in 0..0 |-> <<>>]
  <2>1. w = [i \in 0..0 |-> OneMore(s, i, w[i-1])]
    <3>1. \A i \in 0..0 : OneMore(s, i, w[i-1]) = <<>>
      BY <1>0
    <3> QED
      BY <3>1
  <2> QED
    BY <2>1
<1>2. ASSUME NEW n \in Good PROVE n + 1 \in Good
  <2>1. PICK w : w = [i \in 0..n |-> OneMore(s, i, w[i-1])]
    OBVIOUS
  <2>2. \A i \in 0..n : w[i] = OneMore(s, i, w[i-1])
    BY <2>1
  <2> DEFINE v == [i \in 0..(n+1) |-> IF i \in 0..n THEN w[i] ELSE OneMore(s, i, w[n])]
  <2>3. ASSUME NEW i \in 0..(n+1) PROVE v[i] = OneMore(s, i, v[i-1])
    <3>1. CASE i = n + 1
      BY <3>1
    <3>2. CASE i \in 0..n /\ i # 0
      <4>1. v[i] = w[i] /\ v[i-1] = w[i-1]
        BY <3>2
      <4> QED
        BY <3>2, <4>1, <2>2
    <3>3. CASE i = 0
      <4>1. v[0] = w[0] /\ w[0] = OneMore(s, 0, w[0-1])
        BY <2>2
      <4>2. v[0] = <<>>
        BY <1>0, <4>1
      <4> HIDE DEF v
      <4> QED
        BY <1>0, <3>3, <4>2
    <3> QED
      BY <3>1, <3>2, <3>3
  <2>4. v = [i \in 0..(n+1) |-> OneMore(s, i, v[i-1])]
    BY <2>3
  <2> HIDE DEF v
  <2> QED
    BY <2>4
<1>3. Good = Nat
  <2>1. Good \in SUBSET Nat
    OBVIOUS
  <2> HIDE DEF Good
  <2> QED
    BY <1>1, <1>2, <2>1, Induction
<1> QED
  BY <1>3

\* w goes through the text s and keeps what is no space.
Writes(w, s) ==
  /\ w[0] = <<>>
  /\ \A n \in 1..Len(s) : w[n] = IF s[n] = Space THEN w[n-1] ELSE Append(w[n-1], s[n])

LEMMA WrittenIs ==
  ASSUME NEW s \in Seq(Token)
  PROVE  /\ Writes(WrittenUpTo(s, Len(s)), s)
         /\ Written(s) = WrittenUpTo(s, Len(s))[Len(s)]
<1> DEFINE N == Len(s)
<1>0. N \in Nat
  BY LenProperties
<1> HIDE DEF N
<1>1. Written(s) = WrittenUpTo(s, N)[N]
  BY DEF Written, WrittenUpTo, OneMore, N
<1> DEFINE upTo[i \in 0..N] == OneMore(s, i, upTo[i-1])
<1>2. WrittenUpTo(s, N) = upTo
  BY DEF WrittenUpTo
<1>3. upTo = [i \in 0..N |-> OneMore(s, i, upTo[i-1])]
  BY <1>0, WrittenExists
<1> HIDE DEF upTo
<1>4. \A i \in 0..N : upTo[i] = OneMore(s, i, upTo[i-1])
  BY <1>3
<1>5. 0 \in 0..N /\ \A n \in 1..N : n \in 0..N /\ n > 0 /\ n # 0
  BY <1>0
<1>6. upTo[0] = <<>>
  BY <1>4, <1>5 DEF OneMore
<1>7. ASSUME NEW n \in 1..N PROVE upTo[n] = IF s[n] = Space THEN upTo[n-1] ELSE Append(upTo[n-1], s[n])
  BY <1>4, <1>5 DEF OneMore
<1>8. Writes(upTo, s)
  BY <1>6, <1>7 DEF Writes, N
<1> QED
  BY <1>1, <1>2, <1>8 DEF N

LEMMA WritesText ==
  ASSUME NEW s \in Seq(Token), NEW w, Writes(w, s)
  PROVE  \A n \in 0..Len(s) : w[n] \in Seq(Token)
<1> DEFINE N == Len(s)
           Good == {n \in Nat : n \in 0..N => w[n] \in Seq(Token)}
<1>0. N \in Nat /\ \A n \in 1..N : s[n] \in Token
  BY LenProperties
<1>1. w[0] = <<>> /\ \A n \in 1..N : w[n] = IF s[n] = Space THEN w[n-1] ELSE Append(w[n-1], s[n])
  BY DEF Writes
<1> HIDE DEF N
<1>2. 0 \in Good
  BY <1>1, EmptySeq
<1>3. ASSUME NEW n \in Good PROVE n + 1 \in Good
  <2> SUFFICES ASSUME n + 1 \in 0..N PROVE w[n+1] \in Seq(Token)
    OBVIOUS
  <2>1. n \in 0..N /\ n + 1 \in 1..N /\ (n + 1) - 1 = n
    BY <1>0
  <2>2. w[n] \in Seq(Token) /\ s[n+1] \in Token
    BY <1>0, <2>1
  <2>3. Append(w[n], s[n+1]) \in Seq(Token)
    BY <2>2, AppendProperties
  <2>4. w[n+1] = IF s[n+1] = Space THEN w[n] ELSE Append(w[n], s[n+1])
    BY <1>1, <2>1
  <2> QED
    BY <2>2, <2>3, <2>4
<1>4. Good = Nat
  <2>1. Good \in SUBSET Nat
    OBVIOUS
  <2> HIDE DEF Good
  <2> QED
    BY <1>2, <1>3, <2>1, Induction
<1>5. \A n \in 0..N : n \in Nat
  BY <1>0
<1> QED
  BY <1>4, <1>5 DEF N

LEMMA WrittenBy ==
  ASSUME NEW s \in Seq(Token), NEW w, Writes(w, s)
  PROVE  Written(s) = w[Len(s)]
<1> DEFINE N == Len(s)
           u == WrittenUpTo(s, Len(s))
           Good == {n \in Nat : n \in 0..N => u[n] = w[n]}
<1>0. N \in Nat
  BY LenProperties
<1>1. w[0] = <<>> /\ \A n \in 1..N : w[n] = IF s[n] = Space THEN w[n-1] ELSE Append(w[n-1], s[n])
  BY DEF Writes
<1>2. u[0] = <<>> /\ \A n \in 1..N : u[n] = IF s[n] = Space THEN u[n-1] ELSE Append(u[n-1], s[n])
  BY WrittenIs DEF Writes
<1>3. Written(s) = u[N]
  BY WrittenIs
<1> HIDE DEF N, u
<1>4. 0 \in Good
  BY <1>1, <1>2
<1>5. ASSUME NEW n \in Good PROVE n + 1 \in Good
  <2> SUFFICES ASSUME n + 1 \in 0..N PROVE u[n+1] = w[n+1]
    OBVIOUS
  <2>1. n \in 0..N /\ n + 1 \in 1..N /\ (n + 1) - 1 = n
    BY <1>0
  <2>2. u[n] = w[n]
    BY <2>1
  <2> QED
    BY <1>1, <1>2, <2>1, <2>2
<1>6. Good = Nat
  <2>1. Good \in SUBSET Nat
    OBVIOUS
  <2> HIDE DEF Good
  <2> QED
    BY <1>4, <1>5, <2>1, Induction
<1>7. N \in Good /\ N \in 0..N
  <2> HIDE DEF Good
  <2> QED
    BY <1>0, <1>6
<1> QED
  BY <1>3, <1>7 DEF N

LEMMA WrittenText ==
  ASSUME NEW s \in Seq(Token)
  PROVE  Written(s) \in Seq(Token)
<1>1. Len(s) \in 0..Len(s)
  BY LenProperties
<1> QED
  BY <1>1, WrittenIs, WritesText

LEMMA ConcatAppend ==
  ASSUME NEW p \in Seq(Token), NEW q \in Seq(Token), NEW e \in Token
  PROVE  p \o Append(q, e) = Append(p \o q, e)
<1>1. <<e>> \in Seq(Token) /\ p \o q \in Seq(Token)
  BY ConcatProperties
<1>2. Append(q, e) = q \o <<e>> /\ Append(p \o q, e) = (p \o q) \o <<e>>
  BY <1>1, AppendIsConcat
<1> DEFINE z == <<e>>
<1> HIDE DEF z
<1>3. (p \o q) \o z = p \o (q \o z)
  <2>1. z \in Seq(Token)
    BY <1>1 DEF z
  <2> QED
    BY <2>1, ConcatAssociative
<1> QED
  BY <1>2, <1>3 DEF z

LEMMA WrittenTwo ==
  ASSUME NEW a \in Seq(Token), NEW b \in Seq(Token)
  PROVE  Written(a \o b) = Written(a) \o Written(b)
<1> DEFINE x == a \o b
           m == Len(a)
           n == Len(b)
           u == WrittenUpTo(a, Len(a))
           v == WrittenUpTo(b, Len(b))
           w == [i \in 0..(m + n) |-> IF i <= m THEN u[i] ELSE u[m] \o v[i-m]]
<1>1. m \in Nat /\ n \in Nat /\ \A i \in 1..n : b[i] \in Token
  BY LenProperties
<1>2. /\ x \in Seq(Token) /\ Len(x) = m + n
      /\ \A i \in 1..(m + n) : x[i] = IF i <= m THEN a[i] ELSE b[i - m]
  BY ConcatProperties
<1>3. Writes(u, a) /\ Written(a) = u[m] /\ \A i \in 0..m : u[i] \in Seq(Token)
  BY WrittenIs, WritesText
<1>4. Writes(v, b) /\ Written(b) = v[n] /\ \A i \in 0..n : v[i] \in Seq(Token)
  BY WrittenIs, WritesText
<1>5. u[0] = <<>> /\ \A i \in 1..m : u[i] = IF a[i] = Space THEN u[i-1] ELSE Append(u[i-1], a[i])
  BY <1>3 DEF Writes
<1>6. v[0] = <<>> /\ \A i \in 1..n : v[i] = IF b[i] = Space THEN v[i-1] ELSE Append(v[i-1], b[i])
  BY <1>4 DEF Writes
<1> HIDE DEF x, m, n, u, v
<1>7. u[m] \in Seq(Token)
  BY <1>1, <1>3
<1>8. u[m] \o v[0] = u[m]
  BY <1>6, <1>7, ConcatEmptySeq
<1>9. w[0] = <<>>
  BY <1>1, <1>5
<1>10. ASSUME NEW i \in 1..(m + n) PROVE w[i] = IF x[i] = Space THEN w[i-1] ELSE Append(w[i-1], x[i])
  <2>1. i \in 0..(m + n) /\ i - 1 \in 0..(m + n)
    BY <1>1
  <2>2. CASE i <= m
    <3>1. i \in 1..m /\ i - 1 <= m
      BY <1>1, <2>2
    <3>2. w[i] = u[i] /\ w[i-1] = u[i-1] /\ x[i] = a[i]
      BY <1>2, <2>1, <2>2, <3>1
    <3> HIDE DEF w
    <3> QED
      BY <1>5, <3>1, <3>2
  <2>3. CASE ~ (i <= m)
    <3> DEFINE j == i - m
    <3>1. j \in 1..n /\ (i - 1) - m = j - 1 /\ j - 1 \in 0..n
      BY <1>1, <2>3
    <3>2. w[i] = u[m] \o v[j] /\ x[i] = b[j]
      BY <1>2, <2>1, <2>3
    <3>3. w[i-1] = u[m] \o v[j-1]
      <4>1. CASE i - 1 <= m
        <5>1. i - 1 = m /\ j - 1 = 0
          BY <1>1, <2>3, <4>1
        <5>2. w[i-1] = u[m]
          BY <2>1, <5>1
        <5> HIDE DEF w, j
        <5> QED
          BY <1>8, <5>1, <5>2
      <4>2. CASE ~ (i - 1 <= m)
        <5>1. w[i-1] = u[m] \o v[(i-1)-m]
          BY <2>1, <4>2
        <5> HIDE DEF w, j
        <5> QED
          BY <3>1, <5>1
      <4> QED
        BY <4>1, <4>2
    <3> HIDE DEF w, j
    <3>4. v[j] = IF b[j] = Space THEN v[j-1] ELSE Append(v[j-1], b[j])
      BY <1>6, <3>1
    <3>5. v[j-1] \in Seq(Token) /\ b[j] \in Token
      BY <1>1, <1>4, <3>1
    <3>6. u[m] \o Append(v[j-1], b[j]) = Append(u[m] \o v[j-1], b[j])
      BY <1>7, <3>5, ConcatAppend
    <3>7. CASE b[j] = Space
      BY <3>2, <3>3, <3>4, <3>7
    <3>8. CASE b[j] # Space
      BY <3>2, <3>3, <3>4, <3>6, <3>8
    <3> QED
      BY <3>7, <3>8
  <2> QED
    BY <2>2, <2>3
<1>11. w[m + n] = u[m] \o v[n]
  <2>1. CASE n = 0
    <3>1. w[m + n] = u[m]
      BY <1>1, <2>1
    <3> HIDE DEF w
    <3> QED
      BY <1>8, <2>1, <3>1
  <2>2. CASE n # 0
    <3>1. m + n \in 0..(m + n) /\ ~ (m + n <= m) /\ (m + n) - m = n
      BY <1>1, <2>2
    <3> QED
      BY <3>1
  <2> QED
    BY <2>1, <2>2
<1> HIDE DEF w
<1>12. Writes(w, x)
  BY <1>2, <1>9, <1>10 DEF Writes
<1>13. Written(x) = w[m + n]
  BY <1>2, <1>12, WrittenBy
<1> QED
  BY <1>3, <1>4, <1>11, <1>13 DEF x

LEMMA WrittenSpaces ==
  ASSUME NEW s \in Seq(Token), \A i \in 1..Len(s) : s[i] = Space
  PROVE  Written(s) = <<>>
<1> DEFINE w == [i \in 0..Len(s) |-> <<>>]
<1>1. Len(s) \in Nat
  BY LenProperties
<1>2. \A i \in 1..Len(s) : i \in 0..Len(s) /\ i - 1 \in 0..Len(s)
  BY <1>1
<1>3. w[0] = <<>> /\ w[Len(s)] = <<>> /\ \A i \in 1..Len(s) : w[i] = w[i-1]
  BY <1>1, <1>2
<1> HIDE DEF w
<1>4. Writes(w, s)
  BY <1>3 DEF Writes
<1> QED
  BY <1>3, <1>4, WrittenBy

LEMMA TwoPieces ==
  ASSUME NEW s \in Seq(Token), NEW a \in Nat, NEW b \in Nat, NEW c \in Nat,
         a <= b, b <= c, c <= Len(s)
  PROVE  Piece(s, a, b) \o Piece(s, b, c) = Piece(s, a, c)
<1>1. Len(s) \in Nat
  BY LenProperties
<1> DEFINE k == a + 1
<1>2. k \in 1..(Len(s) + 1) /\ b \in (k - 1)..Len(s) /\ c \in b..Len(s)
  BY <1>1
<1> HIDE DEF k
<1>3. SubSeq(s, k, b) \o SubSeq(s, b + 1, c) = SubSeq(s, k, c)
  BY <1>2, ConcatAdjacentSubSeq
<1> QED
  BY <1>3 DEF Piece, k

LEMMA WholeText ==
  ASSUME NEW s \in Seq(Token)
  PROVE  Piece(s, 0, Len(s)) = s
<1>1. SubSeq(s, 1, Len(s)) = s
  BY SubSeqFull
<1>2. 0 + 1 = 1
  OBVIOUS
<1> QED
  BY <1>1, <1>2 DEF Piece

\* What is written in a text is what is written in its parts.
LEMMA WrittenParts ==
  ASSUME NEW s \in Seq(Token), NEW a \in Nat, NEW b \in Nat, NEW c \in Nat,
         a <= b, b <= c, c <= Len(s)
  PROVE  /\ Written(Piece(s, a, c)) = Written(Piece(s, a, b)) \o Written(Piece(s, b, c))
         /\ Piece(s, a, b) \in Seq(Token) /\ Piece(s, b, c) \in Seq(Token)
<1>1. Len(s) \in Nat
  BY LenProperties
<1>2. b <= Len(s)
  BY <1>1
<1>3. Piece(s, a, b) \in Seq(Token) /\ Piece(s, b, c) \in Seq(Token)
  BY <1>2, PieceText
<1>4. Written(Piece(s, a, b) \o Piece(s, b, c)) = Written(Piece(s, a, b)) \o Written(Piece(s, b, c))
  BY <1>3, WrittenTwo
<1> QED
  BY <1>3, <1>4, TwoPieces

LEMMA NothingWritten ==
  ASSUME NEW s \in Seq(Token), NEW a \in Nat, NEW b \in Nat, a <= b, b <= Len(s),
         \A i \in (a+1)..b : s[i] = Space
  PROVE  Written(Piece(s, a, b)) = <<>>
<1> DEFINE u == Piece(s, a, b)
<1>1. u \in Seq(Token) /\ Len(u) = b - a /\ \A i \in 1..(b - a) : u[i] = s[a+i]
  BY PieceText
<1> HIDE DEF u
<1>2. \A i \in 1..Len(u) : u[i] = Space
  <2> SUFFICES ASSUME NEW i \in 1..Len(u) PROVE u[i] = Space
    OBVIOUS
  <2>1. i \in 1..(b - a) /\ a + i \in (a+1)..b
    BY <1>1
  <2> QED
    BY <1>1, <2>1
<1>3. Written(u) = <<>>
  BY <1>1, <1>2, WrittenSpaces
<1> QED
  BY <1>3 DEF u

LEMMA WrittenStripped ==
  ASSUME NEW s \in Seq(Token)
  PROVE  Written(LStrip(s)) = Written(s) /\ Written(RStrip(s)) = Written(s)
<1>0. Len(s) \in Nat /\ DOMAIN s = 1..Len(s)
  BY LenProperties
<1>1. Written(LStrip(s)) = Written(s)
  <2> DEFINE m == Lead(s)
  <2>1. m \in 0..Len(s) /\ LStrip(s) = From(s, m) /\ \A j \in 1..m : s[j] = Space
    BY LeadText
  <2> HIDE DEF m
  <2>2. LStrip(s) = Piece(s, m, Len(s))
    BY <2>1 DEF From, Piece
  <2>3. /\ m \in Nat /\ 0 <= m /\ m <= Len(s) /\ 0 \in Nat /\ Len(s) <= Len(s)
        /\ \A i \in (0+1)..m : i \in 1..m
    BY <1>0, <2>1
  <2>4. Written(Piece(s, 0, m)) = <<>>
    BY <2>1, <2>3, NothingWritten
  <2>5. Written(Piece(s, 0, Len(s))) = Written(Piece(s, 0, m)) \o Written(Piece(s, m, Len(s)))
    BY <1>0, <2>3, WrittenParts
  <2>6. Piece(s, m, Len(s)) \in Seq(Token)
    BY <1>0, <2>3, PieceText
  <2>7. Written(Piece(s, m, Len(s))) \in Seq(Token)
    BY <2>6, WrittenText
  <2>8. <<>> \o Written(Piece(s, m, Len(s))) = Written(Piece(s, m, Len(s)))
    BY <2>7, ConcatEmptySeq
  <2> QED
    BY <2>2, <2>4, <2>5, <2>8, WholeText
<1>2. Written(RStrip(s)) = Written(s)
  <2> DEFINE S == {i \in DOMAIN s : s[i] # Space}
             m == Last0(S)
  <2>1. S \in SUBSET (0..Len(s)) /\ \A i \in 1..Len(s) : i \notin S => s[i] = Space
    BY <1>0
  <2>2. RStrip(s) = SubSeq(s, 1, m)
    BY DEF RStrip
  <2> HIDE DEF S
  <2>3. m \in 0..Len(s) /\ \A i \in S : i <= m
    BY <1>0, <2>1, LastOf, LastOfAll
  <2> HIDE DEF m
  <2>4. RStrip(s) = Piece(s, 0, m)
    <3>1. 0 + 1 = 1
      OBVIOUS
    <3> QED
      BY <2>2, <3>1 DEF Piece
  <2>5. m \in Nat /\ 0 <= m /\ m <= Len(s) /\ 0 \in Nat /\ Len(s) <= Len(s)
    BY <1>0, <2>3
  <2>6. \A i \in (m+1)..Len(s) : s[i] = Space
    <3> SUFFICES ASSUME NEW i \in (m+1)..Len(s) PROVE s[i] = Space
      OBVIOUS
    <3>1. i \in 1..Len(s) /\ ~ (i <= m)
      BY <1>0, <2>5
    <3> QED
      BY <2>1, <2>3, <3>1
  <2>7. Written(Piece(s, m, Len(s))) = <<>>
    BY <1>0, <2>5, <2>6, NothingWritten
  <2>8. Written(Piece(s, 0, Len(s))) = Written(Piece(s, 0, m)) \o Written(Piece(s, m, Len(s)))
    BY <1>0, <2>5, WrittenParts
  <2>9. Piece(s, 0, m) \in Seq(Token)
    BY <2>5, PieceText
  <2>10. Written(Piece(s, 0, m)) \in Seq(Token)
    BY <2>9, WrittenText
  <2>11. Written(Piece(s, 0, m)) \o <<>> = Written(Piece(s, 0, m))
    BY <2>10, ConcatEmptySeq
  <2> QED
    BY <2>4, <2>7, <2>8, <2>11, WholeText
<1> QED
  BY <1>1, <1>2

LEMMA WrittenStrip ==
  ASSUME NEW s \in Seq(Token)
  PROVE  Written(Strip(s)) = Written(s)
BY LStripText, WrittenStripped DEF Strip

-----------------------------------------------------------------------------
(* Texts one after the other.                                                  *)

NextPart(ss, i, w) == IF i = 1 THEN ss[i] ELSE w \o ss[i]

FlatUpTo(ss, n) == LET flatten[i \in 1..n] == NextPart(ss, i, flatten[i-1]) IN flatten

LEMMA FlatExists ==
  ASSUME NEW ss
  PROVE  \A n \in Nat : \E w : w = [i \in 1..n |-> NextPart(ss, i, w[i-1])]
<1> DEFINE Good == {n \in Nat : \E w : w = [i \in 1..n |-> NextPart(ss, i, w[i-1])]}
<1>1. 0 \in Good
  <2> DEFINE w == [i \in 1..0 |-> <<>>]
  <2>1. w = [i \in 1..0 |-> NextPart(ss, i, w[i-1])]
    OBVIOUS
  <2> QED
    BY <2>1
<1>2. ASSUME NEW n \in Good PROVE n + 1 \in Good
  <2>1. PICK w : w = [i \in 1..n |-> NextPart(ss, i, w[i-1])]
    OBVIOUS
  <2>2. \A i \in 1..n : w[i] = NextPart(ss, i, w[i-1])
    BY <2>1
  <2> DEFINE v == [i \in 1..(n+1) |-> IF i \in 1..n THEN w[i] ELSE NextPart(ss, i, w[n])]
  <2>3. ASSUME NEW i \in 1..(n+1) PROVE v[i] = NextPart(ss, i, v[i-1])
    <3>0. \A x, y : NextPart(ss, 1, x) = NextPart(ss, 1, y)
      BY DEF NextPart
    <3>1. CASE i = 1
      <4>1. \E x : v[1] = NextPart(ss, 1, x)
        <5>1. CASE 1 \in 1..n
          BY <2>2, <5>1
        <5>2. CASE 1 \notin 1..n
          <6>1. v[1] = NextPart(ss, 1, w[n])
            BY <3>1, <5>2
          <6> QED
            BY <6>1
        <5> QED
          BY <5>1, <5>2
      <4> HIDE DEF v
      <4> QED
        BY <3>0, <3>1, <4>1
    <3>2. CASE i # 1 /\ i = n + 1
      <4>1. n \in 1..n /\ i - 1 = n /\ n \in 1..(n+1)
        BY <3>2
      <4>2. v[i] = NextPart(ss, i, w[n]) /\ v[n] = w[n]
        BY <3>2, <4>1
      <4> HIDE DEF v
      <4> QED
        BY <4>1, <4>2
    <3>3. CASE i # 1 /\ i \in 1..n
      <4>1. v[i] = w[i] /\ v[i-1] = w[i-1]
        BY <3>3
      <4> QED
        BY <3>3, <4>1, <2>2
    <3>4. i = n + 1 \/ i \in 1..n
      OBVIOUS
    <3> QED
      BY <3>1, <3>2, <3>3, <3>4
  <2>4. v = [i \in 1..(n+1) |-> NextPart(ss, i, v[i-1])]
    BY <2>3
  <2> HIDE DEF v
  <2> QED
    BY <2>4
<1>3. Good = Nat
  <2>1. Good \in SUBSET Nat
    OBVIOUS
  <2> HIDE DEF Good
  <2> QED
    BY <1>1, <1>2, <2>1, Induction
<1> QED
  BY <1>3

LEMMA FlatSteps ==
  ASSUME NEW ss, NEW n \in Nat
  PROVE  \A i \in 1..n : FlatUpTo(ss, n)[i] = NextPart(ss, i, FlatUpTo(ss, n)[i-1])
<1> DEFINE flatten[i \in 1..n] == NextPart(ss, i, flatten[i-1])
<1>1. FlatUpTo(ss, n) = flatten
  BY DEF FlatUpTo
<1>2. flatten = [i \in 1..n |-> NextPart(ss, i, flatten[i-1])]
  BY FlatExists
<1> HIDE DEF flatten
<1> QED
  BY <1>1, <1>2

\* What is written in texts one after the other, when g says what is written in
\* the first k of them.
LEMMA WrittenInTurn ==
  ASSUME NEW ss \in Seq(Seq(Token)), NEW g, g[0] = <<>>,
         \A k \in 0..Len(ss) : g[k] \in Seq(Token),
         \A k \in 1..Len(ss) : g[k] = g[k-1] \o Written(ss[k])
  PROVE  Written(FlattenSeq(ss)) = g[Len(ss)]
<1> DEFINE n == Len(ss)
           f == FlatUpTo(ss, n)
           P(k) == f[k] \in Seq(Token) /\ Written(f[k]) = g[k]
           Good == {k \in Nat : k + 1 \in 1..n => P(k + 1)}
<1>1. n \in Nat /\ \A k \in 1..n : ss[k] \in Seq(Token)
  BY LenProperties
<1>2. \A k \in 1..n : f[k] = IF k = 1 THEN ss[k] ELSE f[k-1] \o ss[k]
  BY <1>1, FlatSteps DEF NextPart
<1>3. CASE n = 0
  <2>1. FlattenSeq(ss) = ss
    BY <1>3 DEF FlattenSeq
  <2>2. ss = <<>>
    BY <1>3, EmptySeq
  <2>3. Written(<<>>) = <<>>
    <3>1. <<>> \in Seq(Token) /\ Len(<<>>) = 0
      BY EmptySeq
    <3>2. \A i \in 1..Len(<<>>) : <<>>[i] = Space
      BY <3>1
    <3> QED
      BY <3>1, <3>2, WrittenSpaces
  <2> QED
    BY <1>3, <2>1, <2>2, <2>3
<1>4. CASE n # 0
  <2>1. FlattenSeq(ss) = f[n]
    BY <1>4 DEF FlattenSeq, FlatUpTo, NextPart
  <2>2. 0 \in Good
    <3> SUFFICES ASSUME 1 \in 1..n PROVE P(1)
      OBVIOUS
    <3>1. f[1] = ss[1]
      BY <1>2
    <3>2. ss[1] \in Seq(Token) /\ g[1] = g[0] \o Written(ss[1])
      <4>1. 1 - 1 = 0
        OBVIOUS
      <4> QED
        BY <1>1, <4>1
    <3>3. Written(ss[1]) \in Seq(Token)
      BY <3>2, WrittenText
    <3>4. <<>> \o Written(ss[1]) = Written(ss[1])
      BY <3>3, ConcatEmptySeq
    <3> HIDE DEF f
    <3> QED
      BY <3>1, <3>2, <3>4
  <2> HIDE DEF f
  <2>3. ASSUME NEW k \in Good PROVE k + 1 \in Good
    <3> SUFFICES ASSUME (k + 1) + 1 \in 1..n PROVE P((k + 1) + 1)
      OBVIOUS
    <3> DEFINE j == k + 1
               l == j + 1
    <3>1. j \in 1..n /\ l \in 1..n /\ l # 1 /\ l - 1 = j
      BY <1>1
    <3>2. f[j] \in Seq(Token) /\ Written(f[j]) = g[j]
      BY <3>1
    <3> HIDE DEF j, l
    <3>3. f[l] = f[j] \o ss[l] /\ ss[l] \in Seq(Token) /\ g[l] = g[j] \o Written(ss[l])
      BY <1>1, <1>2, <3>1
    <3>4. f[j] \o ss[l] \in Seq(Token) /\ Written(f[j] \o ss[l]) = Written(f[j]) \o Written(ss[l])
      BY <3>2, <3>3, ConcatProperties, WrittenTwo
    <3>5. P(l)
      BY <3>2, <3>3, <3>4
    <3> QED
      BY <3>5 DEF j, l
  <2>4. Good = Nat
    <3>1. Good \in SUBSET Nat
      OBVIOUS
    <3> HIDE DEF Good
    <3> QED
      BY <2>2, <2>3, <3>1, Induction
  <2>5. P(n)
    <3>1. n - 1 \in Nat /\ (n - 1) + 1 = n /\ n \in 1..n
      BY <1>1, <1>4
    <3>2. n - 1 \in Good
      BY <2>4, <3>1
    <3> HIDE DEF P, n
    <3> QED
      BY <3>1, <3>2
  <2> QED
    BY <2>1, <2>5
<1> QED
  BY <1>3, <1>4

\* The rest of a text begins where its last sentence ends.
LEMMA WrittenRemainder ==
  ASSUME NEW s \in Seq(Token)
  PROVE  LET z == CutOf(Ends(s))[Cardinality(Ends(s))] IN
         z \in 0..Len(s) /\ Written(Remainder(s)) = Written(Piece(s, z, Len(s)))
<1> DEFINE n == Cardinality(Ends(s))
           z == CutOf(Ends(s))[n]
<1>0. Len(s) \in Nat
  BY LenProperties
<1>1. /\ n \in Nat /\ Ends(s) \in SUBSET (Nat \ {0}) /\ Ends(s) \in SUBSET (0..Len(s)) /\ IsFiniteSet(Ends(s))
  BY EndsAreFinite
<1>2. CutOf(Ends(s))[0] = 0
  BY DoneIs
<1>3. CASE Ends(s) = {}
  <2>1. n = 0
    BY <1>3, FS_EmptySet
  <2>2. z = 0 /\ Remainder(s) = s
    BY <1>2, <1>3, <2>1 DEF Remainder
  <2> HIDE DEF z
  <2>3. z \in 0..Len(s) /\ Written(Remainder(s)) = Written(Piece(s, z, Len(s)))
    BY <1>0, <2>2, WholeText
  <2> QED
    BY <2>3 DEF z
<1>4. CASE Ends(s) # {}
  <2> DEFINE m == Max(Ends(s))
             After == {i \in Ends(s) : i > m}
  <2>1. m \in Ends(s) /\ \A i \in Ends(s) : i <= m
    BY <1>0, <1>1, <1>4, GreatestNumber
  <2>2. Remainder(s) = LStrip(From(s, m))
    BY <1>4 DEF Remainder, From
  <2> HIDE DEF m
  <2>3. After = {}
    <3> SUFFICES ASSUME NEW i \in After PROVE FALSE
      OBVIOUS
    <3>1. i \in 0..Len(s) /\ m \in 0..Len(s) /\ i <= m /\ i > m
      BY <1>1, <2>1
    <3> QED
      BY <3>1
  <2>4. Cardinality(After) = 0
    BY <2>3, FS_EmptySet
  <2> HIDE DEF After
  <2>5. n # 0
    BY <1>1, <1>4, FS_EmptySet
  <2>6. Cardinality(After) = n - n /\ n \in 1..n
    <3> HIDE DEF n
    <3> QED
      BY <1>1, <2>4, <2>5
  <2>7. z = m
    BY <1>1, <2>1, <2>6, CutIs DEF After
  <2> HIDE DEF z
  <2>8. m \in 0..Len(s)
    BY <1>1, <2>1
  <2>9. From(s, m) \in Seq(Token) /\ From(s, m) = Piece(s, m, Len(s))
    BY <2>8, FromText DEF From, Piece
  <2>10. Written(LStrip(From(s, m))) = Written(From(s, m))
    BY <2>9, WrittenStripped
  <2>11. z \in 0..Len(s) /\ Written(Remainder(s)) = Written(Piece(s, z, Len(s)))
    BY <2>2, <2>7, <2>8, <2>9, <2>10
  <2> QED
    BY <2>11 DEF z
<1> QED
  BY <1>3, <1>4

\* All of a text is in its sentences and the rest, once and in order.
LEMMA WrittenInSentences ==
  ASSUME NEW s \in Seq(Token)
  PROVE  Written(FlattenSeq(Done(s) \o Rest(Remainder(s)))) = Written(s)
<1> DEFINE n == Cardinality(Ends(s))
           c == CutOf(Ends(s))
           z == c[n]
           r == Remainder(s)
           ss == Done(s) \o Rest(r)
           g == [k \in 0..Len(ss) |-> IF k <= n THEN Written(Piece(s, 0, c[k])) ELSE Written(s)]
<1>0. Len(s) \in Nat
  BY LenProperties
<1>1. /\ n \in Nat /\ Done(s) = [k \in 1..n |-> Strip(Piece(s, c[k-1], c[k]))]
      /\ c[0] = 0 /\ \A k \in 0..n : c[k] \in 0..Len(s)
      /\ \A k \in 1..n : c[k-1] \in Nat /\ c[k-1] < c[k]
  BY DoneIs
<1>2. z \in 0..Len(s) /\ Written(r) = Written(Piece(s, z, Len(s)))
  BY WrittenRemainder
<1>3. Done(s) \in Seq(Seq(Token)) /\ Len(Done(s)) = n
  BY DoneText
<1>4. r \in Seq(Token) /\ Strip(r) \in Seq(Token) /\ Written(Strip(r)) = Written(r)
  BY RemainderText, StripText, WrittenStrip
<1> HIDE DEF r, c, n
<1>5. /\ Written(s) = Written(Piece(s, 0, z)) \o Written(r)
      /\ Written(Piece(s, 0, z)) \in Seq(Token) /\ Written(s) \in Seq(Token) /\ Written(r) \in Seq(Token)
  <2> HIDE DEF z
  <2>1. 0 \in Nat /\ z \in Nat /\ 0 <= z /\ z <= Len(s) /\ Len(s) <= Len(s)
    BY <1>0, <1>2
  <2>2. /\ Written(Piece(s, 0, Len(s))) = Written(Piece(s, 0, z)) \o Written(Piece(s, z, Len(s)))
        /\ Piece(s, 0, z) \in Seq(Token)
    BY <1>0, <2>1, WrittenParts
  <2>3. Written(Piece(s, 0, Len(s))) = Written(s)
    BY WholeText
  <2> QED
    BY <1>2, <1>4, <2>2, <2>3, WrittenText
<1>6. /\ ss \in Seq(Seq(Token)) /\ n <= Len(ss) /\ Len(ss) \in Nat
      /\ \A k \in 1..n : ss[k] = Done(s)[k]
      /\ IF Strip(r) = <<>> THEN Len(ss) = n ELSE Len(ss) = n + 1 /\ ss[n+1] = Strip(r)
  <2> DEFINE t == Rest(r)
  <2>1. t \in Seq(Seq(Token)) /\ IF Strip(r) = <<>> THEN Len(t) = 0 ELSE Len(t) = 1 /\ t[1] = Strip(r)
    <3>1. CASE Strip(r) = <<>>
      BY <3>1, EmptySeq DEF Rest
    <3>2. CASE Strip(r) # <<>>
      <4>1. t = <<Strip(r)>>
        BY <3>2 DEF Rest
      <4> QED
        BY <1>4, <3>2, <4>1
    <3> QED
      BY <3>1, <3>2
  <2> HIDE DEF t
  <2>2. /\ ss \in Seq(Seq(Token)) /\ Len(ss) = n + Len(t)
        /\ \A i \in 1..(n + Len(t)) : ss[i] = IF i <= n THEN Done(s)[i] ELSE t[i - n]
    BY <1>3, <2>1, ConcatProperties DEF t
  <2> HIDE DEF ss
  <2>3. \A k \in 1..n : k \in 1..(n + Len(t)) /\ k <= n
    BY <1>1, <2>1
  <2>4. CASE Strip(r) = <<>>
    BY <1>1, <2>1, <2>2, <2>3, <2>4
  <2>5. CASE Strip(r) # <<>>
    <3>0. n + 1 \in 1..(n + 1) /\ ~ (n + 1 <= n) /\ (n + 1) - n = 1
      BY <1>1
    <3>1. n + 1 \in 1..(n + Len(t)) /\ ~ (n + 1 <= n) /\ (n + 1) - n = 1
      <4>1. Len(t) = 1
        BY <2>1, <2>5
      <4> QED
        BY <3>0, <4>1
    <3>2. ss[n+1] = t[(n+1) - n]
      BY <2>2, <3>1
    <3>3. Len(ss) = n + 1 /\ ss[n+1] = Strip(r)
      BY <2>1, <2>2, <2>5, <3>1, <3>2
    <3> QED
      BY <1>1, <2>2, <2>3, <2>5, <3>3
  <2> QED
    BY <2>4, <2>5
<1> HIDE DEF ss
<1>7. ASSUME NEW k \in 0..n PROVE /\ g[k] = Written(Piece(s, 0, c[k])) /\ c[k] \in Nat /\ c[k] <= Len(s)
                                  /\ Written(Piece(s, 0, c[k])) \in Seq(Token)
  <2>1. k \in 0..Len(ss) /\ k <= n
    BY <1>1, <1>6
  <2>2. c[k] \in Nat /\ c[k] <= Len(s) /\ 0 <= c[k] /\ 0 \in Nat
    BY <1>0, <1>1
  <2>3. Piece(s, 0, c[k]) \in Seq(Token)
    BY <2>2, PieceText
  <2> QED
    BY <2>1, <2>2, <2>3, WrittenText
<1>8. \A k \in 0..Len(ss) : ~ (k <= n) => g[k] = Written(s)
  OBVIOUS
<1> HIDE DEF g
<1>9. g[0] = <<>>
  <2>1. 0 \in 0..n
    BY <1>1
  <2>2. g[0] = Written(Piece(s, 0, 0))
    BY <1>1, <1>7, <2>1
  <2>3. 0 \in Nat /\ 0 <= 0 /\ 0 <= Len(s) /\ \A i \in (0+1)..0 : s[i] = Space
    BY <1>0
  <2> QED
    BY <2>2, <2>3, NothingWritten
<1>10. \A k \in 0..Len(ss) : g[k] \in Seq(Token)
  <2> SUFFICES ASSUME NEW k \in 0..Len(ss) PROVE g[k] \in Seq(Token)
    OBVIOUS
  <2>1. CASE k <= n
    <3>1. k \in 0..n
      BY <1>1, <2>1
    <3> QED
      BY <1>7, <3>1
  <2>2. CASE ~ (k <= n)
    BY <1>5, <1>8, <2>2
  <2> QED
    BY <2>1, <2>2
<1>11. g[n] = Written(Piece(s, 0, z)) /\ n \in 0..n
  <2>1. n \in 0..n
    BY <1>1
  <2> QED
    BY <1>7, <2>1
<1>12. ASSUME NEW k \in 1..Len(ss) PROVE g[k] = g[k-1] \o Written(ss[k])
  <2>1. CASE k <= n
    <3>1. k \in 1..n /\ k \in 0..n /\ k - 1 \in 0..n
      BY <1>1, <2>1
    <3> DEFINE a == c[k-1]
               b == c[k]
    <3>2. /\ g[k] = Written(Piece(s, 0, b)) /\ g[k-1] = Written(Piece(s, 0, a))
          /\ a \in Nat /\ b \in Nat /\ a < b /\ b <= Len(s)
      BY <1>1, <1>7, <3>1
    <3>3. ss[k] = Strip(Piece(s, a, b))
      BY <1>1, <1>6, <3>1
    <3> HIDE DEF a, b
    <3>4. 0 \in Nat /\ 0 <= a /\ a <= b
      BY <3>2
    <3>5. /\ Written(Piece(s, 0, b)) = Written(Piece(s, 0, a)) \o Written(Piece(s, a, b))
          /\ Piece(s, a, b) \in Seq(Token)
      BY <3>2, <3>4, WrittenParts
    <3>6. Written(ss[k]) = Written(Piece(s, a, b))
      BY <3>3, <3>5, WrittenStrip
    <3> QED
      BY <3>2, <3>5, <3>6
  <2>2. CASE ~ (k <= n)
    <3>1. Strip(r) # <<>> /\ k = n + 1
      BY <1>1, <1>6, <2>2
    <3>2. ss[k] = Strip(r) /\ k - 1 = n
      BY <1>1, <1>6, <3>1
    <3>3. g[k] = Written(s)
      BY <1>6, <1>8, <2>2
    <3> HIDE DEF z
    <3> QED
      BY <1>4, <1>5, <1>11, <3>2, <3>3
  <2> QED
    BY <2>1, <2>2
<1>13. Written(FlattenSeq(ss)) = g[Len(ss)]
  BY <1>6, <1>9, <1>10, <1>12, WrittenInTurn
<1>14. g[Len(ss)] = Written(s)
  <2>1. CASE Strip(r) = <<>>
    <3>1. Written(r) = <<>>
      <4>1. <<>> \in Seq(Token) /\ \A i \in 1..Len(<<>>) : <<>>[i] = Space
        BY EmptySeq
      <4>2. Written(<<>>) = <<>>
        BY <4>1, WrittenSpaces
      <4> QED
        BY <1>4, <2>1, <4>2
    <3>2. Written(Piece(s, 0, z)) \o <<>> = Written(Piece(s, 0, z))
      BY <1>5, ConcatEmptySeq
    <3> HIDE DEF z
    <3> QED
      BY <1>5, <1>6, <1>11, <2>1, <3>1, <3>2
  <2>2. CASE Strip(r) # <<>>
    <3>1. Len(ss) = n + 1 /\ Len(ss) \in 0..Len(ss) /\ ~ (Len(ss) <= n)
      BY <1>1, <1>6, <2>2
    <3> QED
      BY <1>8, <3>1
  <2> QED
    BY <2>1, <2>2
<1> QED
  BY <1>13, <1>14 DEF ss, r

-----------------------------------------------------------------------------
(* The variables of the bridge.  Who holds the lock is at the head of its      *)
(* line as long as a run is under way.                                         *)

TurnInv == TurnTypeOK /\ (phase # "free" => line # <<>>)

LEMMA TurnStarts == TurnInit => TurnInv
<1> SUFFICES ASSUME TurnInit PROVE TurnInv
  OBVIOUS
<1>1. IsPrefix(full, script)
  BY EmptySeq, PartOfText DEF TurnInit, IsPrefix
<1>2. line \in Seq(Callers) /\ {script, full, buf, answer} \subseteq Seq(Token)
  BY EmptySeq DEF TurnInit
<1>3. used \in 0..MaxTools /\ open \in 0..used
  BY BridgeAssumption DEF TurnInit
<1> QED
  BY <1>1, <1>2, <1>3 DEF TurnInit, TurnInv, TurnTypeOK

LEMMA ReturnsStep ==
  ASSUME TurnInv, phase # "free", NEW result \in {"answered", "failed", "raised"}, Returns(result)
  PROVE  /\ asks' \in [Callers -> {"idle", "waiting", "answered", "failed", "raised", "lost"}]
         /\ line' \in Seq(Callers) /\ phase' = "free"
<1>1. line' \in Seq(Callers)
  BY HeadTailProperties DEF TurnInv, TurnTypeOK, Returns
<1>2. asks' \in [Callers -> {"idle", "waiting", "answered", "failed", "raised", "lost"}]
  BY DEF TurnInv, TurnTypeOK, Returns
<1> QED
  BY <1>1, <1>2 DEF Returns

\* What does not touch the texts and the tools.
LEMMA TextStays ==
  ASSUME TurnInv, UNCHANGED text
  PROVE  /\ ({script, full, buf, answer} \subseteq Seq(Token) /\ IsPrefix(full, script))'
         /\ (speaking \in BOOLEAN /\ used \in 0..MaxTools /\ open \in 0..used)'
BY DEF TurnInv, TurnTypeOK, text

LEMMA AskStep ==
  ASSUME TurnInv, NEW a \in Callers, Ask(a) PROVE TurnInv'
<1>1. line' \in Seq(Callers) /\ line' # <<>>
  <2>1. line \in Seq(Callers) /\ line' = Append(line, a)
    BY DEF TurnInv, TurnTypeOK, Ask
  <2> QED
    BY <2>1, AppendProperties
<1> QED
  BY <1>1, TextStays DEF TurnInv, TurnTypeOK, Ask

LEMMA BeginStep ==
  ASSUME TurnInv, Begin PROVE TurnInv'
BY TextStays DEF TurnInv, TurnTypeOK, Begin

LEMMA AcceptedStep ==
  ASSUME TurnInv, NEW t \in Seq(Token), Accepted(t) PROVE TurnInv'
<1>1. <<>> \in Seq(Token)
  BY EmptySeq
<1>2. full' = <<>> /\ script' = t /\ buf' = <<>> /\ answer' = <<>>
  BY DEF Accepted
<1>3. ({script, full, buf, answer} \subseteq Seq(Token))'
  BY <1>1, <1>2
<1>4. IsPrefix(<<>>, t)
  <2>1. Len(t) \in Nat /\ Len(<<>>) = 0
    BY LenProperties, EmptySeq
  <2>2. /\ SubSeq(<<>>, 1, 0) \in Seq(Token) /\ Len(SubSeq(<<>>, 1, 0)) = 0
        /\ SubSeq(t, 1, 0) \in Seq(Token) /\ Len(SubSeq(t, 1, 0)) = 0
    BY <1>1, <2>1, PartOfText
  <2> QED
    BY <2>1, <2>2, EmptySeq DEF IsPrefix
<1>5. IsPrefix(full, script)'
  BY <1>2, <1>4
<1>6. used' \in 0..MaxTools /\ open' \in 0..used'
  BY BridgeAssumption DEF Accepted
<1> QED
  BY <1>3, <1>5, <1>6 DEF TurnInv, TurnTypeOK, Accepted

LEMMA FailsStep ==
  ASSUME TurnInv, Fails \/ Raises \/ Closes PROVE TurnInv'
<1>1. UNCHANGED text /\ phase # "free" /\ \E r \in {"answered", "failed", "raised"} : Returns(r)
  BY DEF Fails, Raises, Closes
<1> QED
  BY <1>1, ReturnsStep, TextStays DEF TurnInv, TurnTypeOK

LEMMA ToolStep ==
  ASSUME TurnInv, ToolStarts \/ ToolCompletes PROVE TurnInv'
<1>1. /\ used \in 0..MaxTools /\ open \in 0..used /\ MaxTools \in Nat
  BY BridgeAssumption DEF TurnInv, TurnTypeOK
<1>2. CASE ToolStarts
  <2>1. used' \in 0..MaxTools /\ open' \in 0..used'
    BY <1>1, <1>2 DEF ToolStarts
  <2> QED
    BY <1>2, <2>1 DEF TurnInv, TurnTypeOK, ToolStarts
<1>3. CASE ToolCompletes
  <2>1. used' \in 0..MaxTools /\ open' \in 0..used'
    BY <1>1, <1>3 DEF ToolCompletes
  <2> QED
    BY <1>3, <2>1 DEF TurnInv, TurnTypeOK, ToolCompletes
<1> QED
  BY <1>2, <1>3

LEMMA DeltaStep ==
  ASSUME TurnInv, NEW n \in Nat, Delta(n) PROVE TurnInv'
<1> DEFINE chunk == SubSeq(script, Len(full) + 1, Len(full) + n)
<1>0. /\ script \in Seq(Token) /\ full \in Seq(Token) /\ buf \in Seq(Token) /\ IsPrefix(full, script)
  BY DEF TurnInv, TurnTypeOK
<1>1. /\ Len(full) + n <= Len(script) /\ phase = "streaming" /\ speaking' = TRUE
      /\ full' = full \o chunk /\ buf' = Remainder(buf \o chunk)
      /\ UNCHANGED <<asks, line, phase, script, used, open, answer>>
  BY DEF Delta
<1>2. chunk \in Seq(Token) /\ full \o chunk \in Seq(Token) /\ IsPrefix(full \o chunk, script)
  BY <1>0, <1>1, PrefixGrows
<1> HIDE DEF chunk
<1>3. buf \o chunk \in Seq(Token)
  BY <1>0, <1>2, ConcatProperties
<1>4. buf' \in Seq(Token)
  BY <1>1, <1>3, RemainderText
<1>5. IsPrefix(full, script)'
  BY <1>1, <1>2
<1> QED
  BY <1>1, <1>2, <1>4, <1>5 DEF TurnInv, TurnTypeOK

LEMMA CompletesStep ==
  ASSUME TurnInv, NEW out \in Seq(Token), Completes(out) PROVE TurnInv'
<1>1. /\ phase = "streaming" /\ answer' \in {full, out} /\ buf' = <<>>
      /\ UNCHANGED <<script, full, speaking, used, open>>
      /\ \/ phase' = "closing" /\ UNCHANGED <<asks, line>>
         \/ Returns("answered")
  BY DEF Completes
<1>2. full \in Seq(Token) /\ script \in Seq(Token) /\ IsPrefix(full, script)
  BY DEF TurnInv, TurnTypeOK
<1>3. ({script, full, buf, answer} \subseteq Seq(Token) /\ IsPrefix(full, script))'
  BY <1>1, <1>2, EmptySeq
<1>4. CASE phase' = "closing" /\ UNCHANGED <<asks, line>>
  BY <1>1, <1>3, <1>4 DEF TurnInv, TurnTypeOK
<1>5. CASE Returns("answered")
  BY <1>1, <1>3, <1>5, ReturnsStep DEF TurnInv, TurnTypeOK
<1> QED
  BY <1>1, <1>4, <1>5

LEMMA TurnLostStep ==
  ASSUME TurnInv, TurnLost PROVE TurnInv'
<1>1. line' \in Seq(Callers)
  BY EmptySeq DEF TurnLost
<1>2. asks' \in [Callers -> {"idle", "waiting", "answered", "failed", "raised", "lost"}]
  BY DEF TurnInv, TurnTypeOK, TurnLost
<1> QED
  BY <1>1, <1>2, TextStays DEF TurnInv, TurnTypeOK, TurnLost

\* What leaves the bridge as it is.
LEMMA BridgeStays ==
  ASSUME TurnInv, UNCHANGED bridge PROVE TurnInv'
BY DEF TurnInv, TurnTypeOK, bridge, text

-----------------------------------------------------------------------------
(* The sentences that are spoken.  While a run streams, what has been said is  *)
(* what the text so far says, what is left of it is in the buffer, and there   *)
(* is no answer yet.                                                           *)

SpokenInv == SpeaksAsWritten /\ (phase = "streaming" => answer = <<>>)

LEMMA SpokenStarts == TurnInit => SpokenInv
BY DEF TurnInit, SpokenInv, SpeaksAsWritten

\* What leaves the texts alone and accepts no run.
LEMMA SpokenStays ==
  ASSUME SpokenInv, UNCHANGED <<full, buf, spoken, answer>>, phase' = "streaming" => phase = "streaming"
  PROVE  SpokenInv'
BY DEF SpokenInv, SpeaksAsWritten

LEMMA AcceptedSpeaks ==
  ASSUME NEW t, Accepted(t) PROVE SpokenInv'
<1>1. full' = <<>> /\ buf' = <<>> /\ spoken' = <<>> /\ answer' = <<>>
  BY DEF Accepted
<1>2. <<>> \in Seq(Token) /\ Len(<<>>) = 0
  BY EmptySeq
<1>3. Ends(<<>>) = {}
  BY <1>2 DEF Ends
<1>4. Done(<<>>) = <<>>
  <2>1. Cardinality(Ends(<<>>)) = 0
    BY <1>3, FS_EmptySet
  <2>2. Done(<<>>) \in Seq(Seq(Token)) /\ Len(Done(<<>>)) = 0
    BY <1>2, <2>1, DoneText
  <2> QED
    BY <2>2, EmptySeq
<1>5. Remainder(<<>>) = <<>>
  BY <1>3 DEF Remainder
<1> QED
  BY <1>1, <1>4, <1>5 DEF SpokenInv, SpeaksAsWritten

LEMMA DeltaSpeaks ==
  ASSUME TurnInv, SpokenInv, NEW n \in Nat, Delta(n) PROVE SpokenInv'
<1> DEFINE chunk == SubSeq(script, Len(full) + 1, Len(full) + n)
<1>1. /\ Len(full) + n <= Len(script) /\ phase = "streaming"
      /\ full' = full \o chunk /\ buf' = Remainder(buf \o chunk)
      /\ spoken' = spoken \o Done(buf \o chunk) /\ UNCHANGED <<phase, answer>>
  BY DEF Delta
<1>2. full \in Seq(Token) /\ buf \in Seq(Token) /\ script \in Seq(Token) /\ IsPrefix(full, script)
  BY DEF TurnInv, TurnTypeOK
<1>3. chunk \in Seq(Token)
  BY <1>1, <1>2, PrefixGrows
<1>4. spoken = Done(full) /\ LStrip(buf) = Left(full) /\ answer = <<>>
  BY <1>1 DEF SpokenInv, SpeaksAsWritten, Left
<1> HIDE DEF chunk
<1>5. GoesOn(full, buf, chunk)
  BY <1>2, <1>3, <1>4, TextGoesOn
<1>6. spoken' = Done(full') /\ LStrip(buf') = LStrip(Remainder(full')) /\ answer' = <<>>
  BY <1>1, <1>4, <1>5 DEF Left, GoesOn
<1> QED
  BY <1>6 DEF SpokenInv, SpeaksAsWritten

\* The rest of a text does not depend on the spaces before it.
LEMMA SameRest ==
  ASSUME NEW a, NEW b, Left(a) = Left(b)
  PROVE  Rest(Remainder(a)) = Rest(Remainder(b))
BY DEF Left, Rest, Strip

LEMMA CompletesSpeaks ==
  ASSUME TurnInv, SpokenInv, NEW out \in Seq(Token), Completes(out) PROVE SpokenInv'
<1> DEFINE output == IF out = <<>> THEN full ELSE out
           tail   == IF IsPrefix(full, output) THEN SubSeq(output, Len(full) + 1, Len(output)) ELSE <<>>
<1>1. /\ phase = "streaming" /\ answer' = output /\ full' = full
      /\ spoken' = spoken \o Done(buf \o tail) \o Rest(Remainder(buf \o tail))
      /\ phase' # "streaming"
  BY DEF Completes, Returns
<1>2. full \in Seq(Token) /\ buf \in Seq(Token) /\ output \in Seq(Token)
  BY DEF TurnInv, TurnTypeOK
<1>3. spoken = Done(full) /\ LStrip(buf) = Left(full)
  BY <1>1 DEF SpokenInv, SpeaksAsWritten, Left
<1> HIDE DEF output
<1>4. CASE ~ IsPrefix(full, output)
  BY <1>1, <1>4 DEF SpokenInv, SpeaksAsWritten
<1>5. CASE IsPrefix(full, output)
  <2>1. tail = Piece(output, Len(full), Len(output))
    BY <1>5 DEF Piece
  <2>2. Len(full) \in Nat /\ Len(output) \in Nat /\ Len(full) <= Len(output) /\ 0 \in Nat /\ 0 <= Len(full)
    BY <1>2, <1>5, LenProperties DEF IsPrefix
  <2>3. Len(output) <= Len(output)
    BY <2>2
  <2> HIDE DEF tail
  <2>4. tail \in Seq(Token)
    BY <1>2, <2>1, <2>2, <2>3, PieceText
  <2>5. full \o tail = output
    <3>1. Piece(output, 0, Len(full)) \o tail = Piece(output, 0, Len(output))
      BY <1>2, <2>1, <2>2, <2>3, TwoPieces
    <3>2. Piece(full, 0, Len(full)) = Piece(output, 0, Len(full))
      <4>1. 0 + 1 = 1
        OBVIOUS
      <4> QED
        BY <1>5, <4>1 DEF IsPrefix, Piece
    <3> QED
      BY <1>2, <3>1, <3>2, WholeText
  <2>6. Done(output) = Done(full) \o Done(buf \o tail) /\ Left(output) = Left(buf \o tail)
    <3>1. GoesOn(full, buf, tail)
      BY <1>2, <1>3, <2>4, TextGoesOn
    <3> QED
      BY <2>5, <3>1 DEF GoesOn
  <2>7. Rest(Remainder(buf \o tail)) = Rest(Remainder(output))
    BY <2>6, SameRest
  <2>8. spoken' = Done(output) \o Rest(Remainder(output))
    BY <1>1, <1>3, <2>6, <2>7
  <2>9. Written(FlattenSeq(spoken')) = Written(output)
    BY <1>2, <2>8, WrittenInSentences
  <2> QED
    BY <1>1, <2>9 DEF SpokenInv, SpeaksAsWritten
<1> QED
  BY <1>4, <1>5
=============================================================================
