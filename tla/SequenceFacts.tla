--------------------------- MODULE SequenceFacts ---------------------------
(***************************************************************************)
(* Facts about sequences of any elements: what moves between neighbouring  *)
(* sequences keeps their concatenation, what is in a sequence, which are   *)
(* without duplicates, and what FlattenSeq makes of a sequence of them.    *)
(***************************************************************************)
EXTENDS Integers, Sequences, SequencesExt, SequenceTheorems, WellFoundedInduction,
        TLAPS

(* "c is a followed by b", for proofs that put several sequences together. *)
Joins(S, a, b, c) == a \in Seq(S) /\ b \in Seq(S) /\ c \in Seq(S) /\ c = a \o b

LEMMA JoinsExists ==
  ASSUME NEW S, NEW a \in Seq(S), NEW b \in Seq(S)
  PROVE  \E c \in Seq(S) : Joins(S, a, b, c)
BY ConcatProperties DEF Joins

LEMMA Assoc ==
  ASSUME NEW S, NEW s, NEW t, NEW u, NEW st, NEW tu, NEW stu,
         Joins(S, s, t, st), Joins(S, t, u, tu), Joins(S, st, u, stu)
  PROVE  Joins(S, s, tu, stu)
<1>1. (s \o t) \o u = s \o (t \o u)
  BY ConcatAssociative, SMTT(60) DEF Joins
<1> QED
  BY <1>1 DEF Joins

LEMMA AppendIsConcatOne ==
  ASSUME NEW S, NEW s \in Seq(S), NEW e \in S
  PROVE  Append(s, e) = s \o <<e>> /\ <<e>> \in Seq(S)
<1>1. Append(s, e) = s \o <<e>>
  BY AppendIsConcat
<1>2. <<e>> \in Seq(S)
  OBVIOUS
<1> QED
  BY <1>1, <1>2

(* Moving the head of one sequence to the end of the one before it.        *)
LEMMA HeadMovesOn ==
  ASSUME NEW S, NEW s \in Seq(S), NEW t \in Seq(S), t # <<>>
  PROVE  /\ (s \o <<Head(t)>>) \o Tail(t) = s \o t
         /\ Append(s, Head(t)) \o Tail(t) = s \o t
         /\ <<Head(t)>> \in Seq(S) /\ Tail(t) \in Seq(S)
         /\ Append(s, Head(t)) \in Seq(S)
<1>1. Head(t) \in S /\ Tail(t) \in Seq(S)
  BY HeadTailProperties
<1>2. <<Head(t)>> \in Seq(S) /\ Append(s, Head(t)) = s \o <<Head(t)>>
  BY <1>1, AppendIsConcatOne
<1>3. <<Head(t)>> \o Tail(t) = t
  <2>1. Len(<<Head(t)>> \o Tail(t)) = Len(t)
    BY <1>1, <1>2, ConcatProperties, HeadTailProperties, LenProperties, EmptySeq
  <2>2. \A i \in 1 .. Len(t) : (<<Head(t)>> \o Tail(t))[i] = t[i]
    BY <1>1, <1>2, ConcatProperties, HeadTailProperties, LenProperties
  <2> QED
    BY <1>1, <1>2, <2>1, <2>2, ConcatProperties, SeqEqual
<1>4. (s \o <<Head(t)>>) \o Tail(t) = s \o (<<Head(t)>> \o Tail(t))
  BY <1>1, <1>2, Assoc
<1> QED
  BY <1>1, <1>2, <1>3, <1>4, AppendProperties

(* An eviction moves the head of q to the end of c.                        *)
LEMMA EvictionKeepsOrder ==
  ASSUME NEW S, NEW c \in Seq(S), NEW q \in Seq(S), NEW d \in Seq(S), NEW f \in Seq(S),
         q # <<>>
  PROVE  Append(c, Head(q)) \o ((Tail(q) \o d) \o f) = c \o ((q \o d) \o f)
<1>1. PICK ch \in Seq(S), tq \in Seq(S) : ch = Append(c, Head(q)) /\ tq = Tail(q)
  BY HeadMovesOn
<1>2. PICK cq \in Seq(S) : Joins(S, c, q, cq)
  BY JoinsExists
<1>3. Joins(S, ch, tq, cq)
  <2>1. ch \o tq = c \o q
    BY <1>1, HeadMovesOn
  <2> QED
    BY <1>2, <2>1 DEF Joins
<1>4. PICK td \in Seq(S) : Joins(S, tq, d, td)
  BY JoinsExists
<1>5. PICK qd \in Seq(S) : Joins(S, q, d, qd)
  BY JoinsExists
<1>6. PICK cqd \in Seq(S) : Joins(S, cq, d, cqd)
  BY JoinsExists
<1>7. Joins(S, ch, td, cqd) /\ Joins(S, c, qd, cqd)
  BY <1>2, <1>3, <1>4, <1>5, <1>6, Assoc
<1>8. PICK tdf \in Seq(S) : Joins(S, td, f, tdf)
  BY JoinsExists
<1>9. PICK qdf \in Seq(S) : Joins(S, qd, f, qdf)
  BY JoinsExists
<1>10. PICK all \in Seq(S) : Joins(S, cqd, f, all)
  BY JoinsExists
<1>11. Joins(S, ch, tdf, all) /\ Joins(S, c, qdf, all)
  BY <1>7, <1>8, <1>9, <1>10, Assoc
<1> QED
  BY <1>1, <1>4, <1>5, <1>8, <1>9, <1>11, Zenon DEF Joins

LEMMA AppendToConcat ==
  ASSUME NEW S, NEW s \in Seq(S), NEW t \in Seq(S), NEW e \in S
  PROVE  s \o Append(t, e) = Append(s \o t, e)
<1>1. Append(t, e) = t \o <<e>> /\ <<e>> \in Seq(S)
  BY AppendIsConcatOne
<1>2. PICK st \in Seq(S) : Joins(S, s, t, st)
  BY JoinsExists
<1>3. Append(st, e) = st \o <<e>>
  BY AppendIsConcatOne
<1>4. PICK one \in Seq(S) : one = <<e>>
  BY <1>1
<1>5. PICK tone \in Seq(S) : Joins(S, t, one, tone)
  BY JoinsExists
<1>6. PICK all \in Seq(S) : Joins(S, st, one, all)
  BY JoinsExists
<1>7. Joins(S, s, tone, all)
  BY <1>2, <1>5, <1>6, Assoc
<1> QED
  BY <1>1, <1>2, <1>3, <1>4, <1>5, <1>6, <1>7, Zenon DEF Joins

(* The job that is sent moves to the end of the results.                   *)
LEMMA SendingKeepsOrder ==
  ASSUME NEW S, NEW c \in Seq(S), NEW p \in Seq(S), NEW f \in Seq(S), NEW e \in S
  PROVE  c \o (p \o Append(f, e)) = (c \o (p \o f)) \o <<e>>
<1>1. PICK pf \in Seq(S) : pf = p \o f
  BY ConcatProperties
<1>2. p \o Append(f, e) = Append(pf, e)
  BY <1>1, AppendToConcat
<1>3. c \o Append(pf, e) = Append(c \o pf, e)
  BY AppendToConcat
<1>4. PICK cpf \in Seq(S) : cpf = c \o pf
  BY ConcatProperties
<1>5. Append(cpf, e) = cpf \o <<e>>
  BY AppendIsConcatOne
<1> QED
  BY <1>1, <1>2, <1>3, <1>4, <1>5, Zenon

LEMMA PrefixOfConcat ==
  ASSUME NEW S, NEW s \in Seq(S), NEW t \in Seq(S)
  PROVE  IsPrefix(s, s \o t)
<1>1. Len(s) <= Len(s \o t)
  BY ConcatProperties, LenProperties
<1>2. SubSeq(s, 1, Len(s)) = SubSeq(s \o t, 1, Len(s))
  <2>1. CASE s = <<>>
    BY <2>1, SubSeqEmpty, EmptySeq
  <2>2. CASE s # <<>>
    BY <2>2, SubSeqOfConcat1, LenProperties, EmptySeq
  <2> QED
    BY <2>1, <2>2
<1> QED
  BY <1>1, <1>2 DEF IsPrefix

LEMMA PrefixElements ==
  ASSUME NEW S, NEW s \in Seq(S), NEW t \in Seq(S), IsPrefix(s, t)
  PROVE  \A i \in DOMAIN s : i \in DOMAIN t /\ s[i] = t[i]
<1>1. /\ DOMAIN s = 1 .. Len(s) /\ DOMAIN t = 1 .. Len(t)
      /\ Len(s) \in Nat /\ Len(t) \in Nat /\ Len(s) <= Len(t)
  BY LenProperties DEF IsPrefix
<1>2. SubSeq(s, 1, Len(s)) = SubSeq(t, 1, Len(s))
  BY DEF IsPrefix
<1> QED
  BY <1>1, <1>2

LEMMA PrefixReflexive ==
  ASSUME NEW S, NEW s \in Seq(S)
  PROVE  IsPrefix(s, s)
BY LenProperties DEF IsPrefix

(* A sequence is its first k elements and the others.                      *)
LEMMA SplitAt ==
  ASSUME NEW S, NEW s \in Seq(S), NEW k \in 0 .. Len(s)
  PROVE  /\ SubSeq(s, 1, k) \in Seq(S) /\ Len(SubSeq(s, 1, k)) = k
         /\ SubSeq(s, k + 1, Len(s)) \in Seq(S)
         /\ Len(SubSeq(s, k + 1, Len(s))) = Len(s) - k
         /\ s = SubSeq(s, 1, k) \o SubSeq(s, k + 1, Len(s))
<1>1. Len(s) \in Nat /\ k \in Nat /\ k <= Len(s) /\ \A i \in 1 .. Len(s) : s[i] \in S
  BY LenProperties
<1>2. /\ SubSeq(s, 1, k) \in Seq(S) /\ Len(SubSeq(s, 1, k)) = k
      /\ \A i \in 1 .. k : SubSeq(s, 1, k)[i] = s[i]
  <2>1. \A i \in 1 .. k : s[i] \in S
    BY <1>1
  <2> QED
    BY <1>1, <2>1, SubSeqProperties
<1>3. /\ SubSeq(s, k + 1, Len(s)) \in Seq(S)
      /\ Len(SubSeq(s, k + 1, Len(s))) = Len(s) - k
      /\ \A i \in 1 .. Len(s) - k : SubSeq(s, k + 1, Len(s))[i] = s[k + i]
  <2>1. \A i \in k + 1 .. Len(s) : s[i] \in S
    BY <1>1
  <2> QED
    BY <1>1, <2>1, SubSeqProperties
<1>4. PICK front \in Seq(S) :
        /\ front = SubSeq(s, 1, k) /\ Len(front) = k
        /\ \A i \in 1 .. k : front[i] = s[i]
  BY <1>2
<1>5. PICK back \in Seq(S) :
        /\ back = SubSeq(s, k + 1, Len(s)) /\ Len(back) = Len(s) - k
        /\ \A i \in 1 .. Len(s) - k : back[i] = s[k + i]
  BY <1>3
<1>6. /\ Len(front) = k /\ Len(back) = Len(s) - k
      /\ \A i \in 1 .. k : front[i] = s[i]
      /\ \A i \in 1 .. Len(s) - k : back[i] = s[k + i]
  BY <1>4, <1>5, Zenon
<1>7. PICK both \in Seq(S) : both = front \o back
  BY ConcatProperties, Zenon
<1>8. /\ Len(both) = Len(front) + Len(back)
      /\ \A i \in 1 .. Len(front) + Len(back) :
           both[i] = IF i <= Len(front) THEN front[i] ELSE back[i - Len(front)]
  BY <1>7, ConcatProperties, Zenon
<1>9. k + (Len(s) - k) = Len(s)
  BY <1>1
<1>10. /\ Len(both) = Len(s)
       /\ \A i \in 1 .. Len(s) : both[i] = IF i <= k THEN front[i] ELSE back[i - k]
  BY <1>6, <1>8, <1>9, Zenon
<1>11. \A i \in 1 .. Len(s) : both[i] = s[i]
  <2> TAKE i \in 1 .. Len(s)
  <2>1. CASE i <= k
    <3>1. i \in 1 .. k
      BY <1>1, <2>1
    <3> QED
      BY <1>6, <1>10, <2>1, <3>1, Zenon
  <2>2. CASE ~ (i <= k)
    <3>1. i - k \in 1 .. Len(s) - k /\ k + (i - k) = i
      BY <1>1, <2>2
    <3> QED
      BY <1>6, <1>10, <2>2, <3>1, Zenon
  <2> QED
    BY <2>1, <2>2
<1>12. both = s
  BY <1>10, <1>11, SeqEqual, Zenon
<1> QED
  BY <1>4, <1>5, <1>7, <1>12, Zenon

(* What is left when all but the first two of four sequences are cut off.  *)
LEMMA CutAfterTwo ==
  ASSUME NEW S, NEW c \in Seq(S), NEW q \in Seq(S), NEW i \in Seq(S), NEW f \in Seq(S),
         NEW cq \in Seq(S), cq = c \o q,
         NEW all \in Seq(S), all = c \o ((q \o i) \o f)
  PROVE  Len(cq) \in Len(c) .. Len(all) /\ cq = SubSeq(all, 1, Len(cq))
<1>1. PICK rest \in Seq(S) : Joins(S, i, f, rest)
  BY JoinsExists
<1>2. all = cq \o rest
  <2>1. PICK qi \in Seq(S) : Joins(S, q, i, qi)
    BY JoinsExists
  <2>2. PICK qrest \in Seq(S) : Joins(S, qi, f, qrest)
    BY JoinsExists
  <2>3. Joins(S, q, rest, qrest)
    BY <1>1, <2>1, <2>2, Assoc
  <2>4. PICK whole \in Seq(S) : Joins(S, cq, rest, whole)
    BY JoinsExists
  <2>5. Joins(S, c, q, cq)
    BY DEF Joins
  <2>6. Joins(S, c, qrest, whole)
    BY <2>3, <2>4, <2>5, Assoc
  <2> QED
    BY <2>1, <2>2, <2>4, <2>6, Zenon DEF Joins
<1>3. /\ Len(cq) = Len(c) + Len(q) /\ Len(cq \o rest) = Len(cq) + Len(rest)
      /\ Len(c) \in Nat /\ Len(q) \in Nat /\ Len(rest) \in Nat
  BY ConcatProperties, LenProperties
<1>4. IsPrefix(cq, cq \o rest) /\ SubSeq(cq, 1, Len(cq)) = cq
  BY PrefixOfConcat, SubSeqFull
<1> QED
  BY <1>2, <1>3, <1>4 DEF IsPrefix
-----------------------------------------------------------------------------
(* What is in a sequence.                                                  *)
LEMMA ElementsOfConcat ==
  ASSUME NEW S, NEW s \in Seq(S), NEW t \in Seq(S)
  PROVE  ToSet(s \o t) = ToSet(s) \cup ToSet(t)
<1>1. /\ DOMAIN (s \o t) = 1 .. Len(s) + Len(t)
      /\ \A i \in 1 .. Len(s) + Len(t) :
           (s \o t)[i] = IF i <= Len(s) THEN s[i] ELSE t[i - Len(s)]
      /\ DOMAIN s = 1 .. Len(s) /\ DOMAIN t = 1 .. Len(t)
      /\ Len(s) \in Nat /\ Len(t) \in Nat
  BY ConcatProperties, LenProperties
<1>2. ASSUME NEW i \in DOMAIN s PROVE s[i] \in ToSet(s \o t)
  <2>1. i \in 1 .. Len(s) + Len(t) /\ (s \o t)[i] = s[i]
    BY <1>1, <1>2
  <2> QED
    BY <1>1, <2>1 DEF ToSet
<1>3. ASSUME NEW i \in DOMAIN t PROVE t[i] \in ToSet(s \o t)
  <2>1. Len(s) + i \in 1 .. Len(s) + Len(t) /\ (s \o t)[Len(s) + i] = t[i]
    BY <1>1, <1>3
  <2> QED
    BY <1>1, <2>1 DEF ToSet
<1>4. ASSUME NEW i \in DOMAIN (s \o t)
      PROVE  (s \o t)[i] \in ToSet(s) \cup ToSet(t)
  BY <1>1, <1>4 DEF ToSet
<1> QED
  BY <1>2, <1>3, <1>4 DEF ToSet

LEMMA ElementsOfThree ==
  ASSUME NEW S, NEW s \in Seq(S), NEW t \in Seq(S), NEW u \in Seq(S)
  PROVE  ToSet((s \o t) \o u) = ToSet(s) \cup ToSet(t) \cup ToSet(u)
<1>1. PICK st \in Seq(S) : st = s \o t
  BY ConcatProperties
<1>2. ToSet(st) = ToSet(s) \cup ToSet(t)
  BY <1>1, ElementsOfConcat
<1>3. ToSet(st \o u) = ToSet(st) \cup ToSet(u)
  BY ElementsOfConcat
<1> QED
  BY <1>1, <1>2, <1>3

LEMMA ElementsOfOne ==
  ASSUME NEW e
  PROVE  ToSet(<<>>) = {} /\ ToSet(<<e>>) = {e}
BY DEF ToSet

LEMMA ElementsOfAppend ==
  ASSUME NEW S, NEW s \in Seq(S), NEW e \in S
  PROVE  ToSet(Append(s, e)) = ToSet(s) \cup {e}
<1>1. PICK one \in Seq(S) : one = <<e>> /\ Append(s, e) = s \o one
  BY AppendIsConcatOne
<1>2. ToSet(s \o one) = ToSet(s) \cup ToSet(one)
  BY ElementsOfConcat
<1>3. ToSet(one) = {e}
  BY <1>1, ElementsOfOne
<1> QED
  BY <1>1, <1>2, <1>3

LEMMA ElementsOfHeadTail ==
  ASSUME NEW S, NEW s \in Seq(S), s # <<>>
  PROVE  ToSet(s) = {Head(s)} \cup ToSet(Tail(s))
<1>1. Head(s) \in S /\ Tail(s) \in Seq(S)
  BY HeadTailProperties
<1>2. <<>> \in Seq(S)
  BY EmptySeq
<1>3. (<<>> \o <<Head(s)>>) \o Tail(s) = <<>> \o s /\ <<Head(s)>> \in Seq(S)
  BY <1>2, HeadMovesOn
<1>4. <<Head(s)>> \o Tail(s) = s
  BY <1>3, ConcatEmptySeq
<1>5. PICK one \in Seq(S) : one = <<Head(s)>>
  BY <1>3
<1>6. PICK rest \in Seq(S) : rest = Tail(s)
  BY <1>1
<1>7. ToSet(one \o rest) = ToSet(one) \cup ToSet(rest)
  BY ElementsOfConcat
<1>8. ToSet(one) = {Head(s)}
  BY <1>5, ElementsOfOne
<1> QED
  BY <1>4, <1>5, <1>6, <1>7, <1>8, Zenon

LEMMA LastOfConcat ==
  ASSUME NEW S, NEW s \in Seq(S), NEW t \in Seq(S), t # <<>>
  PROVE  Last(s \o t) = Last(t) /\ Last(t) \in ToSet(t) /\ Last(t) \in S
<1>1. Len(t) \in 1 .. Len(t) /\ Len(s) \in Nat
  BY LenProperties, EmptySeq
<1>2. Len(s \o t) = Len(s) + Len(t) /\ (s \o t)[Len(s) + Len(t)] = t[Len(t)]
  BY <1>1, ConcatProperties, LenProperties
<1> QED
  BY <1>1, <1>2, LenProperties, ElementOfSeq DEF Last, ToSet

LEMMA LastOfAppend ==
  ASSUME NEW S, NEW s \in Seq(S), NEW e \in S
  PROVE  Append(s, e) # <<>> /\ Last(Append(s, e)) = e
BY AppendProperties, LenProperties DEF Last
-----------------------------------------------------------------------------
(* Sequences in which nothing occurs twice.                                *)
LEMMA DistinctNone == IsInjective(<<>>)
<1>1. <<>> \in Seq({}) /\ Len(<<>>) = 0
  BY EmptySeq
<1>2. DOMAIN <<>> = 1 .. 0
  BY <1>1, LenProperties
<1> QED
  BY <1>2 DEF IsInjective

LEMMA DistinctConcat ==
  ASSUME NEW S, NEW s \in Seq(S), NEW t \in Seq(S), IsInjective(s \o t)
  PROVE  /\ IsInjective(s) /\ IsInjective(t)
         /\ ToSet(s) \cap ToSet(t) = {}
<1>1. /\ DOMAIN (s \o t) = 1 .. Len(s) + Len(t)
      /\ \A i \in 1 .. Len(s) + Len(t) :
           (s \o t)[i] = IF i <= Len(s) THEN s[i] ELSE t[i - Len(s)]
      /\ DOMAIN s = 1 .. Len(s) /\ DOMAIN t = 1 .. Len(t)
      /\ Len(s) \in Nat /\ Len(t) \in Nat
  BY ConcatProperties, LenProperties
<1>2. \A i \in DOMAIN s : i \in DOMAIN (s \o t) /\ (s \o t)[i] = s[i]
  BY <1>1
<1>3. \A i \in DOMAIN t : /\ Len(s) + i \in DOMAIN (s \o t)
                          /\ (s \o t)[Len(s) + i] = t[i]
  BY <1>1
<1>4. IsInjective(s)
  BY <1>2 DEF IsInjective
<1>5. IsInjective(t)
  <2> SUFFICES ASSUME NEW i \in DOMAIN t, NEW j \in DOMAIN t, t[i] = t[j]
               PROVE  i = j
    BY DEF IsInjective
  <2>1. Len(s) + i = Len(s) + j
    BY <1>3 DEF IsInjective
  <2> QED
    BY <1>1, <2>1
<1>6. ASSUME NEW i \in DOMAIN s, NEW j \in DOMAIN t PROVE s[i] # t[j]
  <2>1. i # Len(s) + j
    BY <1>1, <1>6
  <2> QED
    BY <1>2, <1>3, <2>1 DEF IsInjective
<1> QED
  BY <1>4, <1>5, <1>6 DEF ToSet

LEMMA DistinctPrefix ==
  ASSUME NEW S, NEW s \in Seq(S), NEW t \in Seq(S), IsPrefix(s, t), IsInjective(t)
  PROVE  IsInjective(s)
BY PrefixElements DEF IsInjective

LEMMA DistinctAppend ==
  ASSUME NEW S, NEW s \in Seq(S), NEW e \in S, IsInjective(s), e \notin ToSet(s)
  PROVE  IsInjective(Append(s, e))
<1> DEFINE u == Append(s, e)
<1>1. /\ DOMAIN s = 1 .. Len(s) /\ Len(s) \in Nat
      /\ DOMAIN u = 1 .. Len(s) + 1 /\ u[Len(s) + 1] = e
      /\ \A i \in 1 .. Len(s) : u[i] = s[i]
  BY AppendProperties, LenProperties
<1>2. \A i \in DOMAIN s : s[i] # e
  BY DEF ToSet
<1> HIDE DEF u
<1>3. ASSUME NEW i \in DOMAIN u, NEW j \in DOMAIN u, u[i] = u[j] PROVE i = j
  <2>1. CASE i = Len(s) + 1 \/ j = Len(s) + 1
    BY <1>1, <1>2, <1>3, <2>1
  <2>2. CASE i \in DOMAIN s /\ j \in DOMAIN s
    BY <1>1, <1>3, <2>2 DEF IsInjective
  <2> QED
    BY <1>1, <2>1, <2>2
<1> QED
  BY <1>3 DEF IsInjective, u

LEMMA DistinctHeadTail ==
  ASSUME NEW S, NEW s \in Seq(S), s # <<>>, IsInjective(s)
  PROVE  IsInjective(Tail(s)) /\ Head(s) \notin ToSet(Tail(s))
<1>1. Head(s) \in S /\ Tail(s) \in Seq(S)
  BY HeadTailProperties
<1>2. (<<>> \o <<Head(s)>>) \o Tail(s) = <<>> \o s /\ <<Head(s)>> \in Seq(S)
  BY EmptySeq, HeadMovesOn
<1>3. <<Head(s)>> \o Tail(s) = s
  BY <1>2, ConcatEmptySeq
<1>4. PICK one \in Seq(S) : one = <<Head(s)>>
  BY <1>2
<1>5. PICK rest \in Seq(S) : rest = Tail(s)
  BY <1>1
<1>6. IsInjective(one \o rest)
  BY <1>3, <1>4, <1>5
<1>7. IsInjective(rest) /\ ToSet(one) \cap ToSet(rest) = {}
  BY <1>6, DistinctConcat
<1>8. Head(s) \in ToSet(one)
  BY <1>4, ElementsOfOne
<1> QED
  BY <1>5, <1>7, <1>8
-----------------------------------------------------------------------------
(* Induction over the natural numbers, for a set rather than a predicate:  *)
(* a property to be proved is written as the set of the numbers that have  *)
(* it.                                                                     *)
Less == {p \in Nat \X Nat : p[1] < p[2]}

LEMMA LessIsWellFounded == IsWellFoundedOn(Less, Nat)
<1>1. OpToRel(<, Nat) = Less
  BY DEF OpToRel, Less
<1> QED
  BY <1>1, NatLessThanWellFounded

LEMMA LeastOf ==
  ASSUME NEW N \in SUBSET Nat, N # {}
  PROVE  \E n \in N : \A m \in N : n <= m
<1>1. \E n \in N : \A m \in N : ~ (<<m, n>> \in Less)
  BY LessIsWellFounded, WFMin
<1>2. \A m, n \in Nat : ~ (<<m, n>> \in Less) => n <= m
  BY DEF Less
<1> QED
  BY <1>1, <1>2

LEMMA MinOf ==
  ASSUME NEW N \in SUBSET Nat, N # {}
  PROVE  Min(N) \in N /\ \A m \in N : Min(N) <= m
BY LeastOf DEF Min

LEMMA Induction ==
  ASSUME NEW N, 0 \in N, \A n \in Nat : n \in N => n + 1 \in N
  PROVE  Nat \subseteq N
<1> SUFFICES ASSUME Nat \ N # {} PROVE FALSE
  OBVIOUS
<1>1. PICK n \in Nat \ N : \A m \in Nat \ N : n <= m
  BY LeastOf
<1>2. n # 0 /\ n - 1 \in Nat /\ n - 1 \notin Nat \ N
  BY <1>1
<1> QED
  BY <1>1, <1>2
-----------------------------------------------------------------------------
(* FlattenSeq: what stands where in the concatenation of a sequence of     *)
(* sequences.  `at` is how far the i-th of them is moved.                  *)
Offsets(s, at) ==
  /\ at \in [1 .. Len(s) + 1 -> Nat]
  /\ at[1] = 0
  /\ \A i \in 1 .. Len(s) : at[i + 1] = at[i] + Len(s[i])

Flattens(s, n, f) ==
  f = [i \in 1 .. n |-> IF i = 1 THEN s[i] ELSE f[i - 1] \o s[i]]

LEMMA FlattensExists ==
  ASSUME NEW s, NEW n \in Nat
  PROVE  \E f : Flattens(s, n, f)
<1> DEFINE N == {m \in Nat : \E f : Flattens(s, m, f)}
<1>1. 0 \in N
  <2>1. Flattens(s, 0, [i \in 1 .. 0 |-> s])
    BY DEF Flattens
  <2> QED
    BY <2>1
<1>2. ASSUME NEW m \in Nat, m \in N PROVE m + 1 \in N
  <2>1. PICK f : Flattens(s, m, f)
    BY <1>2
  <2>a. \A i \in 1 .. m : f[i] = IF i = 1 THEN s[i] ELSE f[i - 1] \o s[i]
    <3> DEFINE F == [i \in 1 .. m |-> IF i = 1 THEN s[i] ELSE f[i - 1] \o s[i]]
    <3>1. f = F
      BY <2>1 DEF Flattens
    <3>2. \A i \in 1 .. m : F[i] = IF i = 1 THEN s[i] ELSE f[i - 1] \o s[i]
      OBVIOUS
    <3> HIDE DEF F
    <3> QED
      BY <3>1, <3>2
  <2> DEFINE next == IF m + 1 = 1 THEN s[m + 1] ELSE f[m] \o s[m + 1]
             g == [i \in 1 .. m + 1 |-> IF i = m + 1 THEN next ELSE f[i]]
  <2>2. ASSUME NEW i \in 1 .. m + 1
        PROVE  g[i] = IF i = 1 THEN s[i] ELSE g[i - 1] \o s[i]
    <3>1. CASE i = m + 1
      BY <3>1
    <3>2. CASE i # m + 1
      <4>1. i \in 1 .. m /\ f[i] = IF i = 1 THEN s[i] ELSE f[i - 1] \o s[i]
        BY <2>a, <3>2
      <4>2. i # 1 => i - 1 \in 1 .. m + 1 /\ i - 1 # m + 1
        BY <4>1
      <4> QED
        BY <3>2, <4>1, <4>2
    <3> QED
      BY <3>1, <3>2
  <2>3. Flattens(s, m + 1, g)
    BY <2>2 DEF Flattens
  <2> QED
    BY <2>3
<1> HIDE DEF N
<1>3. Nat \subseteq N
  BY <1>1, <1>2, Induction
<1> QED
  BY <1>3 DEF N

LEMMA FlattenDefined ==
  ASSUME NEW s, Len(s) \in Nat \ {0}
  PROVE  \E f : Flattens(s, Len(s), f) /\ FlattenSeq(s) = f[Len(s)]
<1> DEFINE f == CHOOSE g : Flattens(s, Len(s), g)
<1>1. Flattens(s, Len(s), f)
  BY FlattensExists
<1>2. FlattenSeq(s) = f[Len(s)]
  BY DEF FlattenSeq, Flattens
<1> QED
  BY <1>1, <1>2
LEMMA Within ==
  ASSUME NEW a \in Nat, NEW l \in Nat, NEW m \in Nat, NEW n \in Nat, NEW j \in Nat,
         1 <= j, j <= l, a + l <= m
  PROVE  a + j \in 1 .. m + n /\ a + j <= m
OBVIOUS

LEMMA FlattenParts ==
  ASSUME NEW S, NEW s \in Seq(Seq(S))
  PROVE  /\ FlattenSeq(s) \in Seq(S)
         /\ \E at : /\ Offsets(s, at) /\ at[Len(s) + 1] = Len(FlattenSeq(s))
                    /\ \A i \in 1 .. Len(s) : \A j \in 1 .. Len(s[i]) :
                         FlattenSeq(s)[at[i] + j] = s[i][j]
<1> DEFINE n == Len(s)
<1>0. n \in Nat /\ DOMAIN s = 1 .. n /\ \A i \in 1 .. n : s[i] \in Seq(S) /\ Len(s[i]) \in Nat
  BY LenProperties, ElementOfSeq
<1>1. CASE n = 0
  <2> DEFINE at == [i \in 1 .. 1 |-> 0]
  <2>1. s = <<>> /\ FlattenSeq(s) = s /\ <<>> \in Seq(S) /\ Len(<<>>) = 0
    BY <1>1, EmptySeq DEF FlattenSeq
  <2>2. Offsets(s, at) /\ at[n + 1] = 0
    BY <1>1 DEF Offsets
  <2>3. \A i \in 1 .. Len(s) : \A j \in 1 .. Len(s[i]) : FlattenSeq(s)[at[i] + j] = s[i][j]
    BY <1>1
  <2>4. at[Len(s) + 1] = Len(FlattenSeq(s)) /\ FlattenSeq(s) \in Seq(S)
    BY <1>1, <2>1, <2>2
  <2> HIDE DEF at
  <2> QED
    BY <2>2, <2>3, <2>4
<1>2. CASE n # 0
  <2>1. PICK f : Flattens(s, n, f) /\ FlattenSeq(s) = f[n]
    BY <1>0, <1>2, FlattenDefined
  <2>2. \A i \in 1 .. n : f[i] = IF i = 1 THEN s[i] ELSE f[i - 1] \o s[i]
    <3> DEFINE F == [i \in 1 .. n |-> IF i = 1 THEN s[i] ELSE f[i - 1] \o s[i]]
    <3>1. f = F
      BY <2>1 DEF Flattens
    <3>2. \A i \in 1 .. n : F[i] = IF i = 1 THEN s[i] ELSE f[i - 1] \o s[i]
      OBVIOUS
    <3> HIDE DEF F
    <3> QED
      BY <3>1, <3>2
  <2> DEFINE at == [i \in 1 .. n + 1 |-> IF i = 1 THEN 0 ELSE Len(f[i - 1])]
             Parts(m) == \A i \in 1 .. m :
                           /\ at[i + 1] = at[i] + Len(s[i])
                           /\ at[i] \in Nat /\ at[i + 1] \in Nat /\ at[i + 1] <= Len(f[m])
                           /\ \A j \in 1 .. Len(s[i]) : f[m][at[i] + j] = s[i][j]
             N == {m \in Nat : m \in 1 .. n => f[m] \in Seq(S) /\ Parts(m)}
  <2>a. at[1] = 0 /\ \A i \in 1 .. n : at[i + 1] = Len(f[i])
    BY <1>0, <1>2
  <2> HIDE DEF at
  <2>3. 0 \in N
    OBVIOUS
  <2>4. ASSUME NEW m \in Nat, m \in N PROVE m + 1 \in N
    <3> SUFFICES ASSUME m + 1 \in 1 .. n PROVE f[m + 1] \in Seq(S) /\ Parts(m + 1)
      OBVIOUS
    <3>1. CASE m = 0
      <4>1. f[1] = s[1] /\ s[1] \in Seq(S) /\ at[2] = Len(s[1]) /\ Len(s[1]) \in Nat
        BY <1>0, <2>2, <2>a, <3>1
      <4>2. Parts(1)
        BY <2>a, <4>1
      <4> QED
        BY <3>1, <4>1, <4>2
    <3>2. CASE m # 0
      <4>1. m \in 1 .. n /\ f[m] \in Seq(S) /\ Parts(m)
        <5>1. m \in 1 .. n
          BY <1>0, <3>2
        <5> QED
          BY <2>4, <5>1
      <4>2. PICK front \in Seq(S) : front = f[m]
        BY <4>1
      <4>3. PICK last \in Seq(S) : last = s[m + 1]
        BY <1>0
      <4>4. f[m + 1] = front \o last
        <5>1. m + 1 # 1 /\ (m + 1) - 1 = m
          BY <3>2
        <5> QED
          BY <2>2, <4>2, <4>3, <5>1
      <4>5. /\ front \o last \in Seq(S) /\ Len(front \o last) = Len(front) + Len(last)
            /\ Len(front) \in Nat /\ Len(last) \in Nat
            /\ \A k \in 1 .. Len(front) + Len(last) :
                 (front \o last)[k] = IF k <= Len(front) THEN front[k] ELSE last[k - Len(front)]
        BY ConcatProperties, LenProperties
      <4>6. at[m + 1] = Len(front) /\ at[(m + 1) + 1] = Len(front) + Len(last)
        <5>1. at[m + 1] = Len(f[m]) /\ at[(m + 1) + 1] = Len(f[m + 1])
          BY <2>a, <4>1
        <5> QED
          BY <4>2, <4>4, <4>5, <5>1
      <4>7. ASSUME NEW i \in 1 .. m + 1
            PROVE  /\ at[i + 1] = at[i] + Len(s[i])
                   /\ at[i] \in Nat /\ at[i + 1] \in Nat /\ at[i + 1] <= Len(f[m + 1])
                   /\ \A j \in 1 .. Len(s[i]) : f[m + 1][at[i] + j] = s[i][j]
        <5>1. CASE i = m + 1
          <6>1. at[i] = Len(front) /\ at[i + 1] = Len(front) + Len(last) /\ s[i] = last
            BY <4>3, <4>6, <5>1
          <6>2. ASSUME NEW j \in 1 .. Len(last)
                PROVE  f[m + 1][Len(front) + j] = last[j]
            <7>1. /\ Len(front) + j \in 1 .. Len(front) + Len(last)
                  /\ ~ (Len(front) + j <= Len(front)) /\ (Len(front) + j) - Len(front) = j
              BY <4>5
            <7> QED
              BY <4>4, <4>5, <7>1
          <6> QED
            BY <4>4, <4>5, <6>1, <6>2
        <5>2. CASE i # m + 1
          <6>1. i \in 1 .. m /\ i \in 1 .. n /\ Len(s[i]) \in Nat
            BY <1>0, <4>1, <5>2
          <6>2. /\ at[i + 1] = at[i] + Len(s[i])
                /\ at[i] \in Nat /\ at[i + 1] \in Nat /\ at[i + 1] <= Len(front)
                /\ \A j \in 1 .. Len(s[i]) : front[at[i] + j] = s[i][j]
            BY <4>1, <4>2, <6>1
          <6>3. ASSUME NEW j \in 1 .. Len(s[i])
                PROVE  f[m + 1][at[i] + j] = s[i][j]
            <7>1. front[at[i] + j] = s[i][j] /\ at[i] + Len(s[i]) <= Len(front)
              BY <6>2
            <7>2. at[i] + j \in 1 .. Len(front) + Len(last) /\ at[i] + j <= Len(front)
              <8>1. at[i] \in Nat /\ j \in Nat /\ 1 <= j /\ j <= Len(s[i]) /\ Len(s[i]) \in Nat
                BY <6>1, <6>2
              <8>2. Len(front) \in Nat /\ Len(last) \in Nat
                BY LenProperties
              <8> QED
                BY <7>1, <8>1, <8>2, Within
            <7> QED
              BY <4>4, <4>5, <7>1, <7>2
          <6>4. at[i + 1] <= Len(f[m + 1])
            BY <4>4, <4>5, <6>2
          <6> QED
            BY <6>2, <6>3, <6>4
        <5> QED
          BY <5>1, <5>2
      <4> QED
        BY <4>4, <4>5, <4>7
    <3> QED
      BY <3>1, <3>2
  <2> HIDE DEF N
  <2>5. n \in N
    BY <1>0, <2>3, <2>4, Induction
  <2>6. f[n] \in Seq(S) /\ Parts(n)
    BY <1>0, <1>2, <2>5 DEF N
  <2>7. Offsets(s, at) /\ at[n + 1] = Len(f[n])
    <3>1. ASSUME NEW i \in 1 .. n + 1 PROVE at[i] \in Nat
      <4>1. CASE i \in 1 .. n
        BY <2>6, <4>1
      <4>2. CASE i = n + 1
        BY <1>0, <1>2, <2>6, <4>2
      <4> QED
        BY <1>0, <4>1, <4>2
    <3>2. at \in [1 .. n + 1 -> Nat]
      BY <3>1 DEF at
    <3> QED
      BY <1>0, <1>2, <2>a, <2>6, <3>2 DEF Offsets
  <2> QED
    BY <2>1, <2>6, <2>7
<1> QED
  BY <1>0, <1>1, <1>2
LEMMA OffsetsNat ==
  ASSUME NEW s, NEW at, Offsets(s, at), Len(s) \in Nat
  PROVE  /\ at[1] = 0 /\ at[Len(s) + 1] \in Nat
         /\ \A i \in 1 .. Len(s) :
              at[i] \in Nat /\ at[i + 1] \in Nat /\ at[i + 1] = at[i] + Len(s[i])
<1>1. \A i \in 1 .. Len(s) + 1 : at[i] \in Nat
  BY DEF Offsets
<1>2. Len(s) + 1 \in 1 .. Len(s) + 1
  OBVIOUS
<1>3. \A i \in 1 .. Len(s) : i \in 1 .. Len(s) + 1 /\ i + 1 \in 1 .. Len(s) + 1
  OBVIOUS
<1> QED
  BY <1>1, <1>2, <1>3 DEF Offsets

LEMMA OffsetsGrow ==
  ASSUME NEW s, NEW at, Offsets(s, at), Len(s) \in Nat,
         \A i \in 1 .. Len(s) : Len(s[i]) \in Nat
  PROVE  \A k \in 1 .. Len(s) + 1 : \A i \in 1 .. Len(s) :
           i < k => at[i] + Len(s[i]) <= at[k]
<1> DEFINE Grown(k) == \A i \in 1 .. Len(s) : i < k => at[i] + Len(s[i]) <= at[k]
           N == {k \in Nat : k \in 1 .. Len(s) + 1 => Grown(k)}
<1>1. 0 \in N
  OBVIOUS
<1>2. ASSUME NEW k \in Nat, k \in N PROVE k + 1 \in N
  <2> SUFFICES ASSUME k + 1 \in 1 .. Len(s) + 1, NEW i \in 1 .. Len(s), i < k + 1
               PROVE  at[i] + Len(s[i]) <= at[k + 1]
    OBVIOUS
  <2>1. k \in 1 .. Len(s) /\ at[k + 1] = at[k] + Len(s[k]) /\ Len(s[k]) \in Nat
    BY DEF Offsets
  <2>2. at[k] \in Nat /\ at[i] \in Nat /\ Len(s[i]) \in Nat
    BY <2>1, OffsetsNat
  <2>3. CASE i = k
    BY <2>1, <2>2, <2>3
  <2>4. CASE i # k
    <3>1. at[i] + Len(s[i]) <= at[k]
      BY <1>2, <2>1, <2>4
    <3> QED
      BY <2>1, <2>2, <3>1
  <2> QED
    BY <2>3, <2>4
<1> HIDE DEF N
<1>3. Nat \subseteq N
  BY <1>1, <1>2, Induction
<1> QED
  BY <1>3 DEF N

LEMMA OffsetsCover ==
  ASSUME NEW s, NEW at, Offsets(s, at), Len(s) \in Nat,
         \A i \in 1 .. Len(s) : Len(s[i]) \in Nat,
         NEW m \in 1 .. at[Len(s) + 1]
  PROVE  \E i \in 1 .. Len(s) : \E j \in 1 .. Len(s[i]) : m = at[i] + j
<1> DEFINE N == {i \in 1 .. Len(s) + 1 : m <= at[i]}
<1>1. N \in SUBSET Nat /\ Len(s) + 1 \in N
  BY DEF Offsets
<1>2. PICK k \in N : \A i \in N : k <= i
  BY <1>1, LeastOf
<1>3. k # 1
  BY <1>2 DEF Offsets
<1>4. k - 1 \in 1 .. Len(s) /\ k - 1 \notin N
  BY <1>2, <1>3
<1>5. /\ at[k] = at[k - 1] + Len(s[k - 1]) /\ at[k - 1] \in Nat /\ Len(s[k - 1]) \in Nat
      /\ at[k - 1] < m /\ m <= at[k]
  <2>1. at[(k - 1) + 1] = at[k - 1] + Len(s[k - 1]) /\ at[k - 1] \in Nat
    BY <1>4, OffsetsNat
  <2>2. (k - 1) + 1 = k
    BY <1>2
  <2> QED
    BY <1>2, <1>4, <2>1, <2>2
<1>6. m - at[k - 1] \in 1 .. Len(s[k - 1]) /\ m = at[k - 1] + (m - at[k - 1])
  BY <1>5
<1> QED
  BY <1>4, <1>6

(* The j-th element of the i-th sequence stands at at[i] + j, and nothing  *)
(* else stands anywhere.                                                   *)
Placed(s, at) ==
  LET whole == FlattenSeq(s) IN
  /\ \A i \in 1 .. Len(s) : \A j \in 1 .. Len(s[i]) :
       /\ at[i] + j \in 1 .. Len(whole) /\ whole[at[i] + j] = s[i][j]
       /\ \A k \in 1 .. Len(s) : \A l \in 1 .. Len(s[k]) :
            at[i] + j = at[k] + l => i = k /\ j = l
  /\ \A m \in 1 .. Len(whole) :
       \E i \in 1 .. Len(s) : \E j \in 1 .. Len(s[i]) : m = at[i] + j

LEMMA OffsetsPlace ==
  ASSUME NEW S, NEW s \in Seq(Seq(S)), NEW at, Offsets(s, at),
         at[Len(s) + 1] = Len(FlattenSeq(s)),
         \A i \in 1 .. Len(s) : \A j \in 1 .. Len(s[i]) :
           FlattenSeq(s)[at[i] + j] = s[i][j]
  PROVE  Placed(s, at)
<1>1. Len(s) \in Nat /\ \A i \in 1 .. Len(s) : Len(s[i]) \in Nat /\ at[i] \in Nat
  BY LenProperties, ElementOfSeq DEF Offsets
<1>2. \A k \in 1 .. Len(s) + 1 : \A i \in 1 .. Len(s) :
        i < k => at[i] + Len(s[i]) <= at[k]
  BY <1>1, OffsetsGrow
<1>3. \A m \in 1 .. Len(FlattenSeq(s)) :
        \E i \in 1 .. Len(s) : \E j \in 1 .. Len(s[i]) : m = at[i] + j
  <2> SUFFICES ASSUME NEW m \in 1 .. Len(FlattenSeq(s))
               PROVE  \E i \in 1 .. Len(s) : \E j \in 1 .. Len(s[i]) : m = at[i] + j
    OBVIOUS
  <2>1. m \in 1 .. at[Len(s) + 1]
    OBVIOUS
  <2>2. Len(s) \in Nat /\ \A i \in 1 .. Len(s) : Len(s[i]) \in Nat
    BY <1>1
  <2> HIDE <1>1
  <2> QED
    BY <2>1, <2>2, OffsetsCover
<1>4. ASSUME NEW i \in 1 .. Len(s), NEW j \in 1 .. Len(s[i])
      PROVE  at[i] + j \in 1 .. Len(FlattenSeq(s))
  <2>1. /\ at[i] + Len(s[i]) <= at[Len(s) + 1] /\ at[i] \in Nat /\ Len(s[i]) \in Nat
        /\ at[Len(s) + 1] \in Nat
    <3>1. Len(s) + 1 \in 1 .. Len(s) + 1 /\ i < Len(s) + 1
      BY <1>1
    <3> QED
      BY <1>1, <1>2, <3>1, OffsetsNat
  <2> QED
    BY <2>1
<1>5. ASSUME NEW i \in 1 .. Len(s), NEW j \in 1 .. Len(s[i]),
             NEW k \in 1 .. Len(s), NEW l \in 1 .. Len(s[k]),
             at[i] + j = at[k] + l
      PROVE  i = k /\ j = l
  <2>1. /\ i < k => at[i] + Len(s[i]) <= at[k]
        /\ k < i => at[k] + Len(s[k]) <= at[i]
        /\ at[i] \in Nat /\ at[k] \in Nat /\ Len(s[i]) \in Nat /\ Len(s[k]) \in Nat
        /\ i \in Nat /\ k \in Nat
    <3>1. i \in 1 .. Len(s) + 1 /\ k \in 1 .. Len(s) + 1
      BY <1>1
    <3> QED
      BY <1>1, <1>2, <3>1
  <2>2. j \in Nat /\ l \in Nat /\ 1 <= j /\ 1 <= l /\ j <= Len(s[i]) /\ l <= Len(s[k])
    BY <2>1
  <2>3. PICK a, b, m, n \in Nat : a = at[i] /\ b = at[k] /\ m = Len(s[i]) /\ n = Len(s[k])
    BY <2>1
  <2>4. (i < k => a + m <= b) /\ (k < i => b + n <= a) /\ a + j = b + l
    BY <1>5, <2>1, <2>3
  <2>5. j \in Nat /\ l \in Nat /\ 1 <= j /\ 1 <= l /\ j <= m /\ l <= n
    BY <2>2, <2>3
  <2>6. i \in Nat /\ k \in Nat
    BY <2>1
  <2>7. i = k
    BY <2>4, <2>5, <2>6
  <2> QED
    BY <2>3, <2>4, <2>5, <2>7
<1> QED
  BY <1>3, <1>4, <1>5 DEF Placed

LEMMA FlattenPlaces ==
  ASSUME NEW S, NEW s \in Seq(Seq(S))
  PROVE  FlattenSeq(s) \in Seq(S) /\ \E at : Placed(s, at)
BY FlattenParts, OffsetsPlace

LEMMA FlattenElements ==
  ASSUME NEW S, NEW s \in Seq(Seq(S))
  PROVE  ToSet(FlattenSeq(s)) = UNION {ToSet(s[i]) : i \in 1 .. Len(s)}
<1>1. PICK at : Placed(s, at)
  BY FlattenPlaces
<1>2. /\ DOMAIN FlattenSeq(s) = 1 .. Len(FlattenSeq(s))
      /\ \A i \in 1 .. Len(s) : DOMAIN s[i] = 1 .. Len(s[i])
  BY FlattenPlaces, LenProperties, ElementOfSeq
<1>3. ASSUME NEW e \in ToSet(FlattenSeq(s))
      PROVE  e \in UNION {ToSet(s[i]) : i \in 1 .. Len(s)}
  <2>1. PICK m \in 1 .. Len(FlattenSeq(s)) : e = FlattenSeq(s)[m]
    BY <1>2, <1>3 DEF ToSet
  <2>2. PICK i \in 1 .. Len(s) : \E j \in 1 .. Len(s[i]) : m = at[i] + j
    BY <1>1 DEF Placed
  <2>3. PICK j \in 1 .. Len(s[i]) : m = at[i] + j
    BY <2>2
  <2>4. e = s[i][j]
    BY <1>1, <2>1, <2>3 DEF Placed
  <2>5. e \in ToSet(s[i])
    BY <1>2, <2>4 DEF ToSet
  <2> QED
    BY <2>5
<1>4. ASSUME NEW i \in 1 .. Len(s), NEW e \in ToSet(s[i])
      PROVE  e \in ToSet(FlattenSeq(s))
  <2>1. PICK j \in 1 .. Len(s[i]) : e = s[i][j]
    BY <1>2, <1>4 DEF ToSet
  <2>2. at[i] + j \in DOMAIN FlattenSeq(s) /\ FlattenSeq(s)[at[i] + j] = e
    BY <1>1, <1>2, <2>1 DEF Placed
  <2> QED
    BY <2>2 DEF ToSet
<1> QED
  BY <1>3, <1>4

(* Element m of FlattenSeq(s) is element col[m] of its row[m]-th part.     *)
Located(s, row, col) ==
  LET whole == FlattenSeq(s) IN
  /\ \A m \in DOMAIN whole :
       row[m] \in DOMAIN s /\ col[m] \in DOMAIN s[row[m]] /\ whole[m] = s[row[m]][col[m]]
  /\ \A m, n \in DOMAIN whole : row[m] = row[n] /\ col[m] = col[n] => m = n
  /\ \A i \in DOMAIN s : \A j \in DOMAIN s[i] :
       \E m \in DOMAIN whole : row[m] = i /\ col[m] = j

LEMMA FlattenLocates ==
  ASSUME NEW S, NEW s \in Seq(Seq(S))
  PROVE  FlattenSeq(s) \in Seq(S) /\ \E row, col : Located(s, row, col)
<1> DEFINE whole == FlattenSeq(s)
<1>1. PICK at : Placed(s, at)
  BY FlattenPlaces
<1>2. whole \in Seq(S)
  BY FlattenPlaces
<1>3. /\ DOMAIN whole = 1 .. Len(whole) /\ DOMAIN s = 1 .. Len(s)
      /\ \A i \in 1 .. Len(s) : DOMAIN s[i] = 1 .. Len(s[i])
  BY <1>2, LenProperties, ElementOfSeq
<1> DEFINE At(i, j) == at[i] + j
<1>4. /\ \A i \in DOMAIN s : \A j \in DOMAIN s[i] :
           /\ At(i, j) \in DOMAIN whole /\ whole[At(i, j)] = s[i][j]
           /\ \A k \in DOMAIN s : \A l \in DOMAIN s[k] :
                At(i, j) = At(k, l) => i = k /\ j = l
      /\ \A m \in DOMAIN whole : \E i \in DOMAIN s : \E j \in DOMAIN s[i] : m = At(i, j)
  <2>1. /\ \A i \in 1 .. Len(s) : \A j \in 1 .. Len(s[i]) :
           /\ At(i, j) \in 1 .. Len(whole) /\ whole[At(i, j)] = s[i][j]
           /\ \A k \in 1 .. Len(s) : \A l \in 1 .. Len(s[k]) :
                At(i, j) = At(k, l) => i = k /\ j = l
        /\ \A m \in 1 .. Len(whole) :
             \E i \in 1 .. Len(s) : \E j \in 1 .. Len(s[i]) : m = At(i, j)
    BY <1>1 DEF Placed
  <2> HIDE DEF At, whole
  <2>2. ASSUME NEW i \in DOMAIN s, NEW j \in DOMAIN s[i]
        PROVE  /\ At(i, j) \in DOMAIN whole /\ whole[At(i, j)] = s[i][j]
               /\ \A k \in DOMAIN s : \A l \in DOMAIN s[k] :
                    At(i, j) = At(k, l) => i = k /\ j = l
    <3>1. i \in 1 .. Len(s) /\ j \in 1 .. Len(s[i])
      BY <1>3
    <3>2. At(i, j) \in DOMAIN whole /\ whole[At(i, j)] = s[i][j]
      BY <1>3, <2>1, <3>1
    <3>3. ASSUME NEW k \in DOMAIN s, NEW l \in DOMAIN s[k], At(i, j) = At(k, l)
          PROVE  i = k /\ j = l
      <4>1. k \in 1 .. Len(s) /\ l \in 1 .. Len(s[k])
        BY <1>3
      <4> QED BY <2>1, <3>1, <3>3, <4>1
    <3> QED BY <3>2, <3>3
  <2>3. ASSUME NEW m \in DOMAIN whole
        PROVE  \E i \in DOMAIN s : \E j \in DOMAIN s[i] : m = At(i, j)
    <3>1. PICK i \in 1 .. Len(s) : \E j \in 1 .. Len(s[i]) : m = At(i, j)
      BY <1>3, <2>1
    <3> QED BY <1>3, <3>1
  <2> QED
    BY <2>2, <2>3
<1> HIDE DEF whole, At
<1> DEFINE row == [m \in DOMAIN whole |->
                     CHOOSE i \in DOMAIN s : \E j \in DOMAIN s[i] : m = At(i, j)]
           col == [m \in DOMAIN whole |->
                     CHOOSE j \in DOMAIN s[row[m]] : m = At(row[m], j)]
<1>5. ASSUME NEW m \in DOMAIN whole
      PROVE  /\ row[m] \in DOMAIN s /\ col[m] \in DOMAIN s[row[m]]
             /\ m = At(row[m], col[m])
  <2>1. row[m] = CHOOSE i \in DOMAIN s : \E j \in DOMAIN s[i] : m = At(i, j)
    OBVIOUS
  <2>2. row[m] \in DOMAIN s /\ \E j \in DOMAIN s[row[m]] : m = At(row[m], j)
    <3> HIDE DEF row
    <3> QED BY <1>4, <2>1, Zenon
  <2>3. col[m] = CHOOSE j \in DOMAIN s[row[m]] : m = At(row[m], j)
    <3> HIDE DEF row
    <3> QED OBVIOUS
  <2> HIDE DEF row, col
  <2> QED BY <2>2, <2>3, Zenon
<1> HIDE DEF row, col
<1>6. \A m \in DOMAIN whole : whole[m] = s[row[m]][col[m]]
  BY <1>4, <1>5
<1>7. \A m, n \in DOMAIN whole : row[m] = row[n] /\ col[m] = col[n] => m = n
  BY <1>5
<1>8. ASSUME NEW i \in DOMAIN s, NEW j \in DOMAIN s[i]
      PROVE  \E m \in DOMAIN whole : row[m] = i /\ col[m] = j
  <2>1. At(i, j) \in DOMAIN whole
    BY <1>4
  <2>2. PICK m \in DOMAIN whole : m = At(i, j)
    BY <2>1
  <2>3. At(i, j) = At(row[m], col[m])
    BY <1>5, <2>2
  <2>4. i = row[m] /\ j = col[m]
    BY <1>4, <1>5, <2>3
  <2> QED
    BY <2>4
<1>9. Located(s, row, col)
  BY <1>5, <1>6, <1>7, <1>8 DEF Located, whole
<1> QED
  BY <1>2, <1>9 DEF whole
=============================================================================
