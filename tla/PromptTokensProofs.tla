--------------------------- MODULE PromptTokensProofs ---------------------------
(***************************************************************************)
(* Proofs about PromptTokens, for every tokenizer, template, vocabulary of *)
(* anchors and set of bodies.                                              *)
(*                                                                         *)
(* The first sections are about sequences and where markers are in them:   *)
(* MarkerEnds is a recursive function over the number of markers, and what *)
(* is true of it is shown by a smallest number for which it would not be.  *)
(* Then come what a lookup finds and what a longest common prefix is, and  *)
(* the inductive invariant with a lemma for each action.                   *)
(***************************************************************************)
EXTENDS PromptTokens, SequenceTheorems, FiniteSetTheorems, TLAPS

\* A set of numbers that is not empty has a least element.
LEMMA LeastElement ==
    ASSUME NEW S \in SUBSET Nat, S # {}
    PROVE  Min(S) \in S /\ \A m \in S : Min(S) <= m
<1> DEFINE less == {ss \in Nat \X Nat : ss[1] < ss[2]}
<1>1. IsWellFoundedOn(less, Nat)
    BY NatLessThanWellFounded DEF OpToRel
<1>2. \E l \in S : \A m \in S : ~(<<m, l>> \in less)
  <2> HIDE DEF less
  <2> QED
      BY <1>1, WFMin
<1>3. \E l \in S : \A m \in S : l <= m
  <2>1. PICK l \in S : \A m \in S : ~(<<m, l>> \in less)
      BY <1>2
  <2>2. ASSUME NEW m \in S PROVE l <= m
    <3>1. m \in Nat /\ l \in Nat /\ <<m, l>> \in Nat \X Nat
        OBVIOUS
    <3>2. m < l => <<m, l>> \in less
        BY <3>1
    <3> QED
        BY <3>1, <3>2, <2>1
  <2> QED
      BY <2>2
<1> QED
    BY <1>3 DEF Min

\* A bounded one has a greatest element, too.
LEMMA GreatestElement ==
    ASSUME NEW n \in Nat, NEW S \in SUBSET (0 .. n), S # {}
    PROVE  Max(S) \in S /\ \A m \in S : Max(S) >= m
<1> DEFINE T == {n - m : m \in S}
<1>1. T \in SUBSET Nat
  <2> SUFFICES ASSUME NEW m \in S PROVE n - m \in Nat
      OBVIOUS
  <2> QED
      OBVIOUS
<1>2. T # {}
    OBVIOUS
<1>3. Min(T) \in T /\ \A m \in T : Min(T) <= m
  <2> HIDE DEF T
  <2> QED
      BY <1>1, <1>2, LeastElement
<1>4. PICK l \in S : Min(T) = n - l
    BY <1>3
<1>5. \A m \in S : l >= m
  <2> SUFFICES ASSUME NEW m \in S PROVE l >= m
      OBVIOUS
  <2>1. n - m \in T
      OBVIOUS
  <2>2. n - l <= n - m
      BY <2>1, <1>3, <1>4
  <2> QED
      BY <2>2
<1> QED
    BY <1>5 DEF Max

-----------------------------------------------------------------------------
(* Prefixes. *)

LEMMA SubSeqAgree ==
    ASSUME NEW S, NEW u \in Seq(S), NEW v \in Seq(S), NEW a \in Nat \ {0}, NEW b \in Nat,
           b <= Len(u), b <= Len(v), \A i \in a .. b : u[i] = v[i]
    PROVE  SubSeq(u, a, b) = SubSeq(v, a, b)
<1>1. \A i \in a .. b : u[i] \in S /\ v[i] \in S
    BY LenProperties, ElementOfSeq
<1>2. /\ SubSeq(u, a, b) \in Seq(S) /\ SubSeq(v, a, b) \in Seq(S)
      /\ Len(SubSeq(u, a, b)) = Len(SubSeq(v, a, b))
      /\ Len(SubSeq(u, a, b)) = IF a <= b THEN b - a + 1 ELSE 0
      /\ \A i \in 1 .. b - a + 1 : SubSeq(u, a, b)[i] = u[a + i - 1]
      /\ \A i \in 1 .. b - a + 1 : SubSeq(v, a, b)[i] = v[a + i - 1]
    BY <1>1, SubSeqProperties
<1>3. ASSUME NEW i \in 1 .. Len(SubSeq(u, a, b))
      PROVE  SubSeq(u, a, b)[i] = SubSeq(v, a, b)[i]
  <2>1. i \in 1 .. b - a + 1 /\ a + i - 1 \in a .. b
      BY <1>2
  <2> QED
      BY <2>1, <1>2
<1> QED
    BY <1>2, <1>3, SeqEqual

LEMMA BeginningOf ==
    ASSUME NEW S, NEW t \in Seq(S), NEW n \in 0 .. Len(t)
    PROVE  /\ SubSeq(t, 1, n) \in Seq(S) /\ Len(SubSeq(t, 1, n)) = n
           /\ \A i \in 1 .. n : SubSeq(t, 1, n)[i] = t[i]
<1>1. \A i \in 1 .. n : t[i] \in S
    BY LenProperties, ElementOfSeq
<1>2. Len(t) \in Nat
    BY LenProperties
<1> QED
    BY <1>1, <1>2, SubSeqProperties

\* A prefix agrees with the sequence as far as it goes.
LEMMA PrefixAgrees ==
    ASSUME NEW S, NEW s \in Seq(S), NEW t \in Seq(S)
    PROVE  IsPrefix(s, t) <=> Len(s) <= Len(t) /\ \A i \in 1 .. Len(s) : s[i] = t[i]
<1>1. Len(s) \in Nat /\ Len(t) \in Nat
    BY LenProperties
<1>2. ASSUME IsPrefix(s, t) PROVE \A i \in 1 .. Len(s) : s[i] = t[i]
  <2>1. Len(s) <= Len(t) /\ SubSeq(s, 1, Len(s)) = SubSeq(t, 1, Len(s))
      BY <1>2 DEF IsPrefix
  <2>2. /\ \A i \in 1 .. Len(s) : SubSeq(s, 1, Len(s))[i] = s[i]
        /\ \A i \in 1 .. Len(s) : SubSeq(t, 1, Len(s))[i] = t[i]
      BY <2>1, <1>1, BeginningOf
  <2> QED
      BY <2>1, <2>2
<1>3. ASSUME Len(s) <= Len(t), \A i \in 1 .. Len(s) : s[i] = t[i]
      PROVE  SubSeq(s, 1, Len(s)) = SubSeq(t, 1, Len(s))
    BY <1>1, <1>3, SubSeqAgree
<1> QED
    BY <1>2, <1>3 DEF IsPrefix

\* The beginning of a sequence is a prefix of it, and each prefix is a beginning.
LEMMA BeginningIsPrefix ==
    ASSUME NEW S, NEW t \in Seq(S)
    PROVE  /\ \A n \in 0 .. Len(t) : IsPrefix(SubSeq(t, 1, n), t)
           /\ \A s \in Seq(S) : IsPrefix(s, t) => s = SubSeq(t, 1, Len(s))
<1>1. ASSUME NEW n \in 0 .. Len(t) PROVE IsPrefix(SubSeq(t, 1, n), t)
  <2>1. /\ SubSeq(t, 1, n) \in Seq(S) /\ Len(SubSeq(t, 1, n)) = n
        /\ \A i \in 1 .. n : SubSeq(t, 1, n)[i] = t[i]
      BY BeginningOf
  <2>2. n <= Len(t)
      BY LenProperties
  <2> QED
      BY <2>1, <2>2, PrefixAgrees
<1>2. ASSUME NEW s \in Seq(S), IsPrefix(s, t) PROVE s = SubSeq(t, 1, Len(s))
    BY <1>2, SubSeqFull DEF IsPrefix
<1> QED
    BY <1>1, <1>2

-----------------------------------------------------------------------------
(* Markers. *)

\* The next marker ends where the first one from start on does.
LEMMA FirstPlace ==
    ASSUME NEW text \in Seq(Chars), NEW marker \in Seq(Chars), NEW start \in Nat,
           Places(text, marker, start) # {}
    PROVE  LET first == Min(Places(text, marker, start))
           IN /\ first \in Nat /\ start <= first /\ first + Len(marker) <= Len(text)
              /\ SubSeq(text, first + 1, first + Len(marker)) = marker
              /\ first \in Places(text, marker, start)
              /\ \A p \in Places(text, marker, start) : first <= p
<1> DEFINE places == Places(text, marker, start)
<1>1. Len(text) \in Nat /\ Len(marker) \in Nat
    BY LenProperties
<1>2. \A p \in places :
        /\ p \in Nat /\ start <= p /\ p + Len(marker) <= Len(text)
        /\ SubSeq(text, p + 1, p + Len(marker)) = marker
    BY <1>1 DEF Places
<1> HIDE DEF places
<1>3. Min(places) \in places /\ \A p \in places : Min(places) <= p
    BY <1>2, LeastElement DEF places
<1> QED
    BY <1>2, <1>3 DEF places

NextEnd(text, marker, end) ==
    IF end = None \/ Places(text, marker, end) = {} THEN None
    ELSE Min(Places(text, marker, end)) + Len(marker)

\* The ends of the markers are those the recursion describes: if there were a least number
\* of markers for which no such function exists, the one for a marker less could be extended.
LEMMA MarkerEndsDef ==
    ASSUME NEW text, NEW marker, NEW count \in Nat
    PROVE  /\ MarkerEnds(text, marker, count)[0] = 0
           /\ \A n \in 1 .. count :
                MarkerEnds(text, marker, count)[n] =
                    NextEnd(text, marker, MarkerEnds(text, marker, count)[n - 1])
<1> DEFINE Solves(f, m) ==
               f = [n \in 0 .. m |-> IF n = 0 THEN 0 ELSE NextEnd(text, marker, f[n - 1])]
           unsolved == {m \in 0 .. count : \A f : ~Solves(f, m)}
<1>1. unsolved = {}
  <2> SUFFICES ASSUME unsolved # {} PROVE FALSE
      OBVIOUS
  <2> DEFINE m == Min(unsolved)
  <2>1. unsolved \in SUBSET Nat
      OBVIOUS
  <2>2. m \in unsolved /\ \A n \in unsolved : m <= n
    <3> HIDE DEF unsolved
    <3> QED
        BY <2>1, LeastElement
  <2>3. m \in 0 .. count /\ \A f : ~Solves(f, m)
      BY <2>2
  <2> HIDE DEF m
  <2>4. CASE m = 0
    <3> DEFINE f == [n \in 0 .. 0 |-> 0]
    <3>1. f = [n \in 0 .. 0 |-> IF n = 0 THEN 0 ELSE NextEnd(text, marker, f[n - 1])]
        OBVIOUS
    <3>2. Solves(f, m)
        BY <3>1, <2>4
    <3> QED
        BY <3>2, <2>3
  <2>5. CASE m # 0
    <3>1. m - 1 \in 0 .. count /\ m - 1 \notin unsolved
      <4>1. m - 1 \in 0 .. count /\ ~(m <= m - 1)
          BY <2>3, <2>5
      <4> HIDE DEF unsolved
      <4> QED
          BY <4>1, <2>2
    <3>2. PICK f : Solves(f, m - 1)
        BY <3>1
    <3> DEFINE g == [n \in 0 .. m |-> IF n = m THEN NextEnd(text, marker, f[m - 1]) ELSE f[n]]
    <3>3. ASSUME NEW n \in 0 .. m
          PROVE  g[n] = IF n = 0 THEN 0 ELSE NextEnd(text, marker, g[n - 1])
      <4>1. CASE n = m
        <5>1. g[m - 1] = f[m - 1]
            BY <2>3, <2>5
        <5> QED
            BY <5>1, <4>1, <2>5
      <4>2. CASE n # m
        <5>1. n \in 0 .. m - 1 /\ (n # 0 => n - 1 \in 0 .. m - 1)
            BY <4>2, <2>3
        <5>2. f[n] = IF n = 0 THEN 0 ELSE NextEnd(text, marker, f[n - 1])
            BY <5>1, <3>2
        <5>3. g[n] = f[n] /\ (n # 0 => g[n - 1] = f[n - 1])
            BY <5>1, <4>2, <2>3
        <5> QED
            BY <5>2, <5>3
      <4> QED
          BY <4>1, <4>2
    <3>4. Solves(g, m)
      <4>1. g = [n \in 0 .. m |-> g[n]]
          OBVIOUS
      <4> HIDE DEF g
      <4> QED
          BY <4>1, <3>3
    <3> QED
        BY <3>4, <2>3
  <2> QED
      BY <2>4, <2>5
<1>2. \E f : Solves(f, count)
    BY <1>1
<1>3. MarkerEnds(text, marker, count) = CHOOSE f : Solves(f, count)
    BY DEF MarkerEnds, NextEnd
<1>4. Solves(MarkerEnds(text, marker, count), count)
  <2> HIDE DEF Solves
  <2> QED
      BY <1>2, <1>3
<1> QED
    BY <1>4

\* What is known of the ends of the markers in a text.
LEMMA EndsFound ==
    ASSUME NEW text \in Seq(Chars), NEW marker \in Seq(Chars), NEW count \in Nat
    PROVE  LET ends == MarkerEnds(text, marker, count)
           IN /\ ends[0] = 0
              /\ \A n \in 0 .. count : ends[n] # None => ends[n] \in 0 .. Len(text)
              /\ \A n \in 1 .. count : ends[n] # None =>
                   /\ ends[n - 1] # None /\ ends[n - 1] + Len(marker) <= ends[n]
                   /\ SubSeq(text, ends[n] - Len(marker) + 1, ends[n]) = marker
<1> DEFINE ends == MarkerEnds(text, marker, count)
<1>1. Len(text) \in Nat /\ Len(marker) \in Nat
    BY LenProperties
<1>2. ends[0] = 0 /\ \A n \in 1 .. count : ends[n] = NextEnd(text, marker, ends[n - 1])
    BY MarkerEndsDef
<1> HIDE DEF ends
<1>3. ASSUME NEW n \in 1 .. count, ends[n] # None, ends[n - 1] # None => ends[n - 1] \in Nat
      PROVE  /\ ends[n] \in Nat /\ ends[n] <= Len(text)
             /\ ends[n - 1] # None /\ ends[n - 1] + Len(marker) <= ends[n]
             /\ SubSeq(text, ends[n] - Len(marker) + 1, ends[n]) = marker
  <2> DEFINE places == Places(text, marker, ends[n - 1])
             p == Min(places)
  <2>1. /\ ends[n - 1] # None /\ places # {}
        /\ ends[n] = p + Len(marker)
      BY <1>2, <1>3 DEF NextEnd
  <2>2. /\ p \in Nat /\ ends[n - 1] <= p /\ p + Len(marker) <= Len(text)
        /\ SubSeq(text, p + 1, p + Len(marker)) = marker
      BY <2>1, <1>3, FirstPlace
  <2> HIDE DEF p
  <2>3. ends[n] - Len(marker) = p /\ ends[n - 1] \in Nat
      BY <2>1, <2>2, <1>1, <1>3
  <2> QED
      BY <2>1, <2>2, <2>3, <1>1
<1> DEFINE wrong == {n \in 0 .. count : ends[n] # None /\ ends[n] \notin 0 .. Len(text)}
<1>4. wrong = {}
  <2> SUFFICES ASSUME wrong # {} PROVE FALSE
      OBVIOUS
  <2> DEFINE n == Min(wrong)
  <2>1. n \in wrong /\ \A m \in wrong : n <= m
    <3>1. wrong \in SUBSET Nat
        OBVIOUS
    <3> HIDE DEF wrong
    <3> QED
        BY <3>1, LeastElement
  <2> HIDE DEF n
  <2>2. n \in 0 .. count /\ ends[n] # None /\ ends[n] \notin 0 .. Len(text)
      BY <2>1
  <2>3. n \in 1 .. count
      BY <2>2, <1>1, <1>2
  <2>4. n - 1 \in 0 .. count /\ ~(n <= n - 1)
      BY <2>3
  <2>5. ends[n - 1] # None => ends[n - 1] \in Nat
      BY <2>1, <2>4
  <2> QED
      BY <2>2, <2>3, <2>5, <1>1, <1>3
<1>5. \A n \in 0 .. count : ends[n] # None => ends[n] \in 0 .. Len(text)
    BY <1>4
<1>6. ASSUME NEW n \in 1 .. count PROVE n - 1 \in 0 .. count
    OBVIOUS
<1> QED
    BY <1>2, <1>3, <1>5, <1>6 DEF ends

\* All markers before one that is found are found, and end before it.
LEMMA EndsIncrease ==
    ASSUME NEW text \in Seq(Chars), NEW marker \in Seq(Chars), NEW count \in Nat,
           NEW ends, ends = MarkerEnds(text, marker, count), ends[count] # None
    PROVE  \A n \in 0 .. count : ends[n] # None /\ ends[n] <= ends[count]
<1> DEFINE ok(n) == ends[n] # None /\ ends[n] <= ends[count]
           wrong == {d \in 0 .. count : ~ok(count - d)}
<1>1. Len(marker) \in Nat
    BY LenProperties
<1>2. /\ \A n \in 0 .. count : ends[n] # None => ends[n] \in Nat
      /\ \A n \in 1 .. count : ends[n] # None =>
            ends[n - 1] # None /\ ends[n - 1] + Len(marker) <= ends[n]
    BY EndsFound
<1>3. wrong = {}
  <2> SUFFICES ASSUME wrong # {} PROVE FALSE
      OBVIOUS
  <2> DEFINE d == Min(wrong)
  <2>1. d \in wrong /\ \A m \in wrong : d <= m
    <3>1. wrong \in SUBSET Nat
        OBVIOUS
    <3> HIDE DEF wrong
    <3> QED
        BY <3>1, LeastElement
  <2> HIDE DEF d
  <2>2. d \in 0 .. count /\ ~ok(count - d)
      BY <2>1
  <2>3. ok(count)
      BY <1>2
  <2>4. d # 0
      BY <2>2, <2>3
  <2> DEFINE n == count - (d - 1)
  <2>5. d - 1 \in 0 .. count /\ ~(d <= d - 1) /\ n \in 1 .. count /\ n - 1 = count - d
      BY <2>2, <2>4
  <2>6. ok(n)
      BY <2>1, <2>5
  <2> HIDE DEF n
  <2>7. ends[n] \in Nat /\ ends[n - 1] \in Nat /\ ends[count] \in Nat /\ n - 1 \in 0 .. count
      BY <2>5, <2>6, <1>2
  <2>8. ok(n - 1)
      BY <2>5, <2>6, <2>7, <1>1, <1>2
  <2> QED
      BY <2>2, <2>5, <2>8
<1>4. ASSUME NEW n \in 0 .. count PROVE ok(n)
  <2>1. count - n \in 0 .. count /\ count - (count - n) = n
      OBVIOUS
  <2> QED
      BY <2>1, <1>3
<1> QED
    BY <1>4

\* Where the last of the markers ends does not depend on what follows it.
LEMMA EndsLocal ==
    ASSUME NEW u \in Seq(Chars), NEW v \in Seq(Chars), NEW marker \in Seq(Chars),
           NEW count \in Nat, NEW end, end = MarkerEnds(u, marker, count)[count], end # None,
           end <= Len(v), \A i \in 1 .. end : u[i] = v[i]
    PROVE  MarkerEnds(v, marker, count)[count] = end
<1> DEFINE k == Len(marker)
           ends == MarkerEnds(u, marker, count)
           others == MarkerEnds(v, marker, count)
           differ == {n \in 0 .. count : ends[n] # others[n]}
<1>1. k \in Nat /\ Len(u) \in Nat /\ Len(v) \in Nat
    BY LenProperties
<1>2. /\ ends[0] = 0 /\ others[0] = 0
      /\ \A n \in 1 .. count : ends[n] = NextEnd(u, marker, ends[n - 1])
      /\ \A n \in 1 .. count : others[n] = NextEnd(v, marker, others[n - 1])
    BY MarkerEndsDef
<1>3. \A n \in 0 .. count : ends[n] # None => ends[n] \in 0 .. Len(u)
    BY EndsFound
<1>4. \A n \in 0 .. count : ends[n] # None /\ ends[n] <= end
    BY EndsIncrease
<1>5. end \in Nat /\ end <= Len(u)
    BY <1>3, <1>1
<1> HIDE DEF k, ends, others
\* A place that fits before the end is one of both texts.
<1>6. ASSUME NEW start \in Nat, NEW p \in Nat, p + k <= end
      PROVE  p \in Places(u, marker, start) <=> p \in Places(v, marker, start)
  <2>1. \A i \in p + 1 .. p + k : u[i] = v[i]
      BY <1>1, <1>5, <1>6
  <2>2. SubSeq(u, p + 1, p + k) = SubSeq(v, p + 1, p + k)
      BY <2>1, <1>1, <1>5, <1>6, SubSeqAgree
  <2>3. p <= Len(u) - k /\ p <= Len(v) - k
      BY <1>1, <1>5, <1>6
  <2> QED
      BY <2>2, <2>3, <1>1 DEF Places, k
<1>7. differ = {}
  <2> SUFFICES ASSUME differ # {} PROVE FALSE
      OBVIOUS
  <2> DEFINE n == Min(differ)
  <2>1. n \in differ /\ \A m \in differ : n <= m
    <3>1. differ \in SUBSET Nat
        OBVIOUS
    <3> HIDE DEF differ
    <3> QED
        BY <3>1, LeastElement
  <2> HIDE DEF n
  <2>2. n \in 0 .. count /\ ends[n] # others[n]
      BY <2>1
  <2>3. n \in 1 .. count
      BY <2>2, <1>2
  <2>4. n - 1 \in 0 .. count /\ ~(n <= n - 1)
      BY <2>3
  <2>5. ends[n - 1] = others[n - 1]
      BY <2>1, <2>4
  <2> DEFINE start == ends[n - 1]
             p == Min(Places(u, marker, start))
             q == Min(Places(v, marker, start))
  <2>6. start \in Nat /\ ends[n] \in Nat /\ ends[n] <= end /\ start # None
      BY <1>1, <1>3, <1>4, <2>3, <2>4
  <2>7. Places(u, marker, start) # {} /\ ends[n] = p + k
    <3>1. ends[n] = NextEnd(u, marker, start) /\ ends[n] # None
        BY <1>2, <1>4, <2>2, <2>3
    <3> QED
        BY <3>1 DEF NextEnd, k
  <2>8. p \in Nat /\ p \in Places(u, marker, start) /\ \A m \in Places(u, marker, start) : p <= m
      BY <2>6, <2>7, FirstPlace
  <2>9. p \in Places(v, marker, start)
      BY <1>6, <2>6, <2>7, <2>8
  <2>10. q \in Nat /\ q \in Places(v, marker, start) /\ \A m \in Places(v, marker, start) : q <= m
      BY <2>6, <2>9, FirstPlace
  <2> HIDE DEF p, q
  <2>11. q <= p /\ q + k <= end
      BY <1>1, <1>5, <2>6, <2>7, <2>8, <2>9, <2>10
  <2>12. p <= q
      BY <1>6, <2>6, <2>8, <2>10, <2>11
  <2>13. p = q
      BY <2>8, <2>10, <2>11, <2>12
  <2>14. others[n] = q + k
      BY <1>2, <2>3, <2>5, <2>6, <2>9 DEF NextEnd, k, q
  <2> QED
      BY <2>2, <2>7, <2>13, <2>14
<1>8. ends[count] = others[count]
    BY <1>7
<1> QED
    BY <1>8 DEF ends, others

\* What of the marker belongs to an anchor's place in a text, besides its text.
Rest(cfg) == IF cfg.side = "before" THEN cfg.marker ELSE <<>>

\* An anchor is a beginning of the text, and with the rest it ends where a marker ends.
LEMMA BoundaryFound ==
    ASSUME NEW text \in Seq(Chars), NEW cfg \in Configs,
           NEW b, b = FindMarkerBoundary(text, cfg), b \notin {None, 0},
           NEW end, end = MarkerEnds(text, cfg.marker, cfg.occurrence)[cfg.occurrence]
    PROVE  /\ b \in 1 .. Len(text) /\ end \in 0 .. Len(text) /\ end # None
           /\ SubSeq(text, 1, b) \o Rest(cfg) = SubSeq(text, 1, end)
<1> DEFINE k == Len(cfg.marker)
           count == cfg.occurrence
           ends == MarkerEnds(text, cfg.marker, cfg.occurrence)
<1>1. /\ cfg.marker \in Seq(Chars) /\ count \in Nat /\ k \in Nat /\ Len(text) \in Nat
    BY ConfigsAssumption, LenProperties
<1>2. /\ k # 0 /\ count # 0 /\ end # None
      /\ \/ cfg.side = "before" /\ b = end - k
         \/ cfg.side = "after" /\ b = end
    BY DEF FindMarkerBoundary
<1>3. /\ \A n \in 0 .. count : ends[n] # None => ends[n] \in 0 .. Len(text)
      /\ \A n \in 1 .. count : ends[n] # None =>
            /\ ends[n - 1] # None /\ ends[n - 1] + k <= ends[n]
            /\ SubSeq(text, ends[n] - k + 1, ends[n]) = cfg.marker
  <2> HIDE DEF k
  <2>1. /\ \A n \in 0 .. count : ends[n] # None => ends[n] \in 0 .. Len(text)
        /\ \A n \in 1 .. count : ends[n] # None =>
              /\ ends[n - 1] # None /\ ends[n - 1] + Len(cfg.marker) <= ends[n]
              /\ SubSeq(text, ends[n] - Len(cfg.marker) + 1, ends[n]) = cfg.marker
      BY <1>1, EndsFound
  <2> QED
      BY <2>1 DEF k
<1>4. count \in 1 .. count /\ count \in 0 .. count /\ count - 1 \in 0 .. count
    BY <1>1, <1>2
<1>5. end = ends[count]
    OBVIOUS
<1> HIDE DEF ends, count, k
<1>6. end \in 0 .. Len(text) /\ SubSeq(text, end - k + 1, end) = cfg.marker /\ k <= end
  <2>1. end \in 0 .. Len(text) /\ SubSeq(text, end - k + 1, end) = cfg.marker
      BY <1>2, <1>3, <1>4, <1>5
  <2>2. ends[count - 1] \in 0 .. Len(text) /\ ends[count - 1] + k <= end
      BY <1>2, <1>3, <1>4, <1>5
  <2> QED
      BY <2>1, <2>2, <1>1
<1>7. CASE cfg.side = "before" /\ b = end - k
  <2>1. b \in 1 .. Len(text) /\ b + 1 = end - k + 1
      BY <1>1, <1>6, <1>7
  <2>2. 1 \in 1 .. Len(text) + 1 /\ b \in 1 - 1 .. Len(text) /\ end \in b .. Len(text)
      BY <1>1, <1>6, <1>7, <2>1
  <2>3. SubSeq(text, 1, b) \o SubSeq(text, b + 1, end) = SubSeq(text, 1, end)
      BY <2>2, ConcatAdjacentSubSeq
  <2> QED
      BY <2>1, <2>3, <1>2, <1>6, <1>7 DEF Rest
<1>8. CASE cfg.side = "after" /\ b = end
  <2>1. b \in 1 .. Len(text)
      BY <1>1, <1>6, <1>8
  <2>2. SubSeq(text, 1, b) \in Seq(Chars)
      BY <2>1, BeginningOf
  <2>3. SubSeq(text, 1, b) \o <<>> = SubSeq(text, 1, b)
      BY <2>2, ConcatEmptySeq
  <2> QED
      BY <2>1, <2>3, <1>2, <1>6, <1>8 DEF Rest
<1> QED
    BY <1>2, <1>7, <1>8

\* An anchor of a text is one of every text that goes on as this one does up to the
\* marker's end: where a boundary is does not depend on what follows it.
LEMMA BoundaryLocal ==
    ASSUME NEW u \in Seq(Chars), NEW v \in Seq(Chars), NEW cfg \in Configs,
           NEW b, b = FindMarkerBoundary(u, cfg), b \notin {None, 0},
           IsPrefix(SubSeq(u, 1, b) \o Rest(cfg), v)
    PROVE  FindMarkerBoundary(v, cfg) = b /\ SubSeq(v, 1, b) = SubSeq(u, 1, b)
<1> DEFINE end == MarkerEnds(u, cfg.marker, cfg.occurrence)[cfg.occurrence]
<1>1. /\ cfg.marker \in Seq(Chars) /\ cfg.occurrence \in Nat
      /\ Len(u) \in Nat /\ Len(v) \in Nat /\ Len(cfg.marker) \in Nat
    BY ConfigsAssumption, LenProperties
<1>2. /\ b \in 1 .. Len(u) /\ end \in 0 .. Len(u) /\ end # None
      /\ SubSeq(u, 1, b) \o Rest(cfg) = SubSeq(u, 1, end)
    BY BoundaryFound
<1>3. /\ SubSeq(u, 1, end) \in Seq(Chars) /\ Len(SubSeq(u, 1, end)) = end
      /\ \A i \in 1 .. end : SubSeq(u, 1, end)[i] = u[i]
    BY <1>2, BeginningOf
<1>4. end <= Len(v) /\ \A i \in 1 .. end : SubSeq(u, 1, end)[i] = v[i]
  <2> DEFINE s == SubSeq(u, 1, end)
  <2>1. IsPrefix(s, v) /\ s \in Seq(Chars)
      BY <1>2, <1>3
  <2> HIDE DEF s
  <2>2. Len(s) <= Len(v) /\ \A i \in 1 .. Len(s) : s[i] = v[i]
      BY <2>1, PrefixAgrees
  <2> QED
      BY <2>2, <1>3 DEF s
<1>5. \A i \in 1 .. end : u[i] = v[i]
    BY <1>3, <1>4
<1>6. MarkerEnds(v, cfg.marker, cfg.occurrence)[cfg.occurrence] = end
    BY <1>1, <1>2, <1>4, <1>5, EndsLocal
<1>7. FindMarkerBoundary(v, cfg) = b
    BY <1>6 DEF FindMarkerBoundary
<1>8. b <= end
  <2>1. b = end - Len(cfg.marker) \/ b = end
      BY DEF FindMarkerBoundary
  <2> HIDE DEF end
  <2> QED
      BY <2>1, <1>1, <1>2
<1> HIDE DEF end
<1>9. b \in Nat /\ b <= Len(u) /\ b <= Len(v) /\ \A i \in 1 .. b : u[i] = v[i]
    BY <1>1, <1>2, <1>4, <1>5, <1>8
<1>10. SubSeq(u, 1, b) = SubSeq(v, 1, b)
    BY <1>9, SubSeqAgree
<1> QED
    BY <1>7, <1>10

-----------------------------------------------------------------------------
(* Lookup and the longest common prefix. *)

Toks == Seq(Seq(Chars))

RowOK(n) ==
    /\ n.tokens \in Toks /\ n.tokens # <<>>
    /\ n.cfg \in Configs \cup {None}
    /\ n.cfg # None => \E text \in Texts :
        /\ FindMarkerBoundary(text, n.cfg) \notin {None, 0}
        /\ n.text = SubSeq(text, 1, FindMarkerBoundary(text, n.cfg))
        /\ n.tokens = Tokenize(n.text)

\* A lookup finds a beginning of the tokens, a strict one if it must be, and none of the
\* rows that would do has more.
LEMMA LookupFinds ==
    ASSUME NEW tokens \in Toks, NEW strictly \in BOOLEAN,
           \A n \in rows : n.tokens \in Toks /\ n.tokens # <<>>,
           NEW hit, hit = Lookup(tokens, strictly)
    PROVE  /\ hit # None =>
                \E m \in 0 .. Len(tokens) :
                    hit = SubSeq(tokens, 1, m) /\ (strictly => m < Len(tokens))
           /\ \A n \in rows :
                IsPrefix(n.tokens, tokens) /\ (strictly => Len(n.tokens) < Len(tokens))
                    => hit # None /\ IsPrefix(n.tokens, hit)
<1> DEFINE maxLen == IF strictly THEN Len(tokens) - 1 ELSE Len(tokens)
           found == {n \in rows : Len(n.tokens) <= maxLen /\ IsPrefix(n.tokens, tokens)}
           lengths == {Len(n.tokens) : n \in found}
           m == Max(lengths)
<1>1. Len(tokens) \in Nat /\ \A n \in rows : Len(n.tokens) \in Nat
    BY LenProperties DEF Toks
<1>2. CASE found = {}
  <2>1. hit = None
      BY <1>2 DEF Lookup
  <2>2. ASSUME NEW n \in rows, IsPrefix(n.tokens, tokens), strictly => Len(n.tokens) < Len(tokens)
        PROVE  n \in found
    <3>1. Len(n.tokens) <= Len(tokens)
        BY <2>2 DEF IsPrefix
    <3> QED
        BY <3>1, <2>2, <1>1
  <2> QED
      BY <2>1, <2>2, <1>2
<1>3. CASE found # {}
  <2>1. hit = SubSeq(tokens, 1, m)
      BY <1>3 DEF Lookup
  <2>2. lengths \in SUBSET (0 .. Len(tokens)) /\ lengths # {}
    <3> SUFFICES ASSUME NEW n \in found PROVE Len(n.tokens) \in 0 .. Len(tokens)
        BY <1>3
    <3>1. n \in rows /\ Len(n.tokens) <= maxLen
        OBVIOUS
    <3> QED
        BY <3>1, <1>1
  <2>3. m \in lengths /\ \A l \in lengths : m >= l
    <3> HIDE DEF lengths
    <3> QED
        BY <2>2, <1>1, GreatestElement
  <2>4. m \in 0 .. Len(tokens) /\ m <= maxLen
      BY <2>2, <2>3
  <2>5. strictly => m < Len(tokens)
    <3> HIDE DEF m
    <3> QED
        BY <2>4, <1>1
  <2>6. hit \in Toks /\ hit # None /\ Len(hit) = m /\ \A i \in 1 .. m : hit[i] = tokens[i]
    <3> HIDE DEF m
    <3>1. /\ SubSeq(tokens, 1, m) \in Toks /\ Len(SubSeq(tokens, 1, m)) = m
          /\ \A i \in 1 .. m : SubSeq(tokens, 1, m)[i] = tokens[i]
        BY <2>4, BeginningOf DEF Toks
    <3>2. None \notin Toks
        BY NamesAssumption DEF Toks
    <3> QED
        BY <2>1, <3>1, <3>2
  <2>7. ASSUME NEW n \in rows, IsPrefix(n.tokens, tokens), strictly => Len(n.tokens) < Len(tokens)
        PROVE  IsPrefix(n.tokens, hit)
    <3>1. Len(n.tokens) <= Len(tokens) /\ \A i \in 1 .. Len(n.tokens) : n.tokens[i] = tokens[i]
        BY <2>7, PrefixAgrees DEF Toks
    <3>2. n \in found
        BY <3>1, <2>7, <1>1
    <3>3. Len(n.tokens) <= m /\ m \in Nat
      <4>1. Len(n.tokens) \in lengths
          BY <3>2
      <4> HIDE DEF m
      <4> QED
          BY <4>1, <2>2, <2>3, <2>4, <1>1
    <3> HIDE DEF m
    <3>4. \A i \in 1 .. Len(n.tokens) : n.tokens[i] = hit[i]
        BY <3>1, <3>3, <2>6, <1>1
    <3> QED
        BY <3>3, <3>4, <2>6, PrefixAgrees DEF Toks
  <2> HIDE DEF m
  <2> QED
      BY <2>1, <2>4, <2>5, <2>6, <2>7
<1> QED
    BY <1>2, <1>3

\* LcpLen goes as far as two sequences agree.
LEMMA LcpAgrees ==
    ASSUME NEW left \in Toks, NEW right \in Toks, NEW l, l = LcpLen(left, right)
    PROVE  /\ l \in Nat /\ l <= Len(left) /\ l <= Len(right)
           /\ \A i \in 1 .. l : left[i] = right[i]
           /\ l < Len(left) /\ l < Len(right) => left[l + 1] # right[l + 1]
<1> DEFINE limit == Min({Len(left), Len(right)})
           stops == {limit} \cup {i \in 0 .. limit - 1 : left[i + 1] # right[i + 1]}
<1>1. Len(left) \in Nat /\ Len(right) \in Nat
    BY LenProperties DEF Toks
<1>2. /\ limit \in {Len(left), Len(right)}
      /\ limit \in Nat /\ limit <= Len(left) /\ limit <= Len(right)
  <2>1. {Len(left), Len(right)} \in SUBSET Nat
      BY <1>1
  <2>2. limit \in {Len(left), Len(right)} /\ \A m \in {Len(left), Len(right)} : limit <= m
      BY <2>1, LeastElement
  <2> HIDE DEF limit
  <2> QED
      BY <2>2, <1>1
<1>3. l = Min(stops)
    BY DEF LcpLen
<1> HIDE DEF limit
<1>4. stops \in SUBSET Nat /\ stops # {}
    BY <1>2
<1>5. l \in stops /\ \A i \in stops : l <= i
  <2> HIDE DEF stops
  <2> QED
      BY <1>3, <1>4, LeastElement
<1>6. l \in Nat /\ l <= limit
    BY <1>4, <1>5
<1>7. ASSUME NEW i \in 1 .. l PROVE left[i] = right[i]
  <2>1. i - 1 \in 0 .. limit - 1 /\ (i - 1) + 1 = i /\ ~(l <= i - 1)
      BY <1>2, <1>6
  <2>2. i - 1 \notin stops
      BY <2>1, <1>5
  <2>3. left[(i - 1) + 1] = right[(i - 1) + 1]
      BY <2>1, <2>2
  <2> QED
      BY <2>1, <2>3
<1>8. l # limit => left[l + 1] # right[l + 1]
    BY <1>5
<1> HIDE DEF stops
<1> QED
    BY <1>1, <1>2, <1>6, <1>7, <1>8

\* So it is the length of the longest common prefix.
LEMMA LcpIsLongest ==
    ASSUME NEW left \in Toks, NEW right \in Toks
    PROVE  SubSeq(right, 1, LcpLen(left, right)) = LongestCommonPrefix({right, left})
<1> DEFINE l == LcpLen(left, right)
           both == {right, left}
           longest == LongestCommonPrefix(both)
           common == CommonPrefixes(both)
           c == SubSeq(right, 1, l)
<1>1. /\ l \in Nat /\ l <= Len(left) /\ l <= Len(right)
      /\ \A i \in 1 .. l : left[i] = right[i]
      /\ l < Len(left) /\ l < Len(right) => left[l + 1] # right[l + 1]
    BY LcpAgrees
<1>2. Len(left) \in Nat /\ Len(right) \in Nat
    BY LenProperties DEF Toks
<1> HIDE DEF l
<1>3. /\ c \in Toks /\ Len(c) = l /\ IsPrefix(c, right)
      /\ \A i \in 1 .. l : c[i] = right[i]
    BY <1>1, <1>2, BeginningOf, BeginningIsPrefix DEF Toks
<1>4. IsPrefix(c, left)
  <2> HIDE DEF c
  <2> QED
      BY <1>1, <1>3, PrefixAgrees DEF Toks
<1>5. c \in common
  <2>1. c \in Prefixes(right)
      BY <1>1, <1>2 DEF Prefixes
  <2> HIDE DEF c
  <2> QED
      BY <2>1, <1>3, <1>4 DEF CommonPrefixes
<1>6. ASSUME NEW s \in common
      PROVE  s \in Toks /\ Len(s) \in Nat /\ Len(s) <= l /\ IsPrefix(s, right)
  <2>1. IsPrefix(s, right) /\ IsPrefix(s, left)
      BY DEF CommonPrefixes
  <2>2. s \in Toks
    <3>1. PICK t \in both : s \in Prefixes(t)
        BY DEF CommonPrefixes
    <3>2. t \in Toks
        BY <3>1
    <3>3. PICK m \in 0 .. Len(t) : s = SubSeq(t, 1, m)
        BY <3>1 DEF Prefixes
    <3> QED
        BY <3>2, <3>3, BeginningOf DEF Toks
  <2>3. Len(s) \in Nat
      BY <2>2, LenProperties DEF Toks
  <2>4. /\ Len(s) <= Len(right) /\ Len(s) <= Len(left)
        /\ \A i \in 1 .. Len(s) : s[i] = right[i] /\ s[i] = left[i]
      BY <2>1, <2>2, PrefixAgrees DEF Toks
  <2>5. Len(s) <= l
    <3> SUFFICES ASSUME l < Len(s) PROVE FALSE
        BY <2>3, <1>1
    <3>1. l < Len(left) /\ l < Len(right) /\ l + 1 \in 1 .. Len(s)
        BY <2>3, <2>4, <1>1, <1>2
    <3> QED
        BY <3>1, <2>4, <1>1
  <2> QED
      BY <2>1, <2>2, <2>3, <2>5
<1> HIDE DEF common, c, both
<1>7. longest \in common /\ \A other \in common : Len(other) <= Len(longest)
  <2>1. \E s \in common : \A other \in common : Len(other) <= Len(s)
      BY <1>3, <1>5, <1>6
  <2> QED
      BY <2>1 DEF LongestCommonPrefix, common
<1> HIDE DEF longest
<1>8. longest \in Toks /\ Len(longest) = l /\ IsPrefix(longest, right)
    BY <1>1, <1>3, <1>5, <1>6, <1>7
<1>9. longest = SubSeq(right, 1, Len(longest))
    BY <1>8, BeginningIsPrefix DEF Toks
<1> QED
    BY <1>8, <1>9 DEF longest, both, l

-----------------------------------------------------------------------------
(* The inductive invariant. *)

\* Bodies as they are sent.
Sent == Bodies \cup {AppendNewline(c) : c \in {d \in Bodies : d.extendable}}

Requests ==
    [at : Phases, body : Sent \cup {None}, text : Texts \cup {<<>>}, exact : Toks \cup {None},
     todo : SUBSET [cfg : Configs, text : Seq(Chars)], restored : Toks \cup {None},
     via : {None, "full-prefix", "anchor"}, pieces : Responses \cup {<<>>}, slot : Toks]

RowsOK ==
    /\ IsFiniteSet(rows) /\ Cardinality(rows) <= MaxRows + 1
    /\ \A n \in rows : RowOK(n)

\* The context goes with the body that will be sent.
ContextOK ==
    ~At("idle") =>
        /\ req.body \in Sent /\ req.text = RenderPromptForCache(req.body)
        /\ Tokens # <<>>
        /\ req.todo \subseteq AnchorsForPrompt(req.body, req.text)

\* What the first context was changed for is what the lookup will find again.
ExactOK ==
    /\ At("context") => req.body \in Bodies /\ req.exact = None /\ req.todo = {}
    /\ At("lookup") /\ req.exact # None => options.strict /\ IsPrefix(req.exact, Tokens)

RestoredOK ==
    /\ req.at \in {"context", "lookup", "anchors"} => req.restored = None /\ req.via = None
    /\ (req.via = None) <=> (req.restored = None)
    /\ options.strict /\ req.via = "full-prefix" => IsStrictPrefix(req.restored, Tokens)

IInv ==
    /\ options \in [strict : BOOLEAN, generated : BOOLEAN]
    /\ RowsOK
    /\ req \in Requests
    /\ At("idle") => req = NoRequest
    /\ ContextOK /\ ExactOK /\ RestoredOK
    /\ At("save") => req.pieces \in Responses

-----------------------------------------------------------------------------
(* Texts, anchors and rows. *)

LEMMA TextsOfSent == \A body \in Sent : RenderPromptForCache(body) \in Texts
BY DEF Sent, Texts

\* A prompt and its beginnings are texts, and have tokens.
LEMMA BeginningTokens ==
    ASSUME NEW text \in Texts
    PROVE  /\ text \in Seq(Chars)
           /\ Tokenize(text) \in Toks
           /\ \A n \in 0 .. Len(text) : Tokenize(SubSeq(text, 1, n)) \in Toks
<1>1. text \in Seq(Chars)
    BY TextsAssumption
<1>2. \A s \in Prefixes(text) : Tokenize(s) \in Toks
    BY TokenizeAssumption DEF Toks
<1>3. ASSUME NEW n \in 0 .. Len(text) PROVE Tokenize(SubSeq(text, 1, n)) \in Toks
  <2>1. SubSeq(text, 1, n) \in Prefixes(text)
      BY DEF Prefixes
  <2> QED
      BY <2>1, <1>2
<1>4. text = SubSeq(text, 1, Len(text)) /\ Len(text) \in 0 .. Len(text)
    BY <1>1, SubSeqFull, LenProperties
<1> QED
    BY <1>1, <1>3, <1>4

\* The anchors of a prompt are beginnings of it that have tokens.
LEMMA AnchorsFound ==
    ASSUME NEW text \in Texts, NEW body, NEW a \in AnchorsForPrompt(body, text)
    PROVE  /\ a \in [cfg : Configs, text : Seq(Chars)]
           /\ Tokenize(a.text) \in Toks /\ Tokenize(a.text) # <<>>
           /\ RowOK(AnchorNode(a))
<1>1. PICK cfg \in Configs :
        /\ FindMarkerBoundary(text, cfg) \notin {None, 0}
        /\ Tokenize(SubSeq(text, 1, FindMarkerBoundary(text, cfg))) # <<>>
        /\ a = [cfg |-> cfg, text |-> SubSeq(text, 1, FindMarkerBoundary(text, cfg))]
    BY DEF AnchorsForPrompt
<1> DEFINE b == FindMarkerBoundary(text, cfg)
           beginning == SubSeq(text, 1, b)
<1>2. text \in Seq(Chars)
    BY BeginningTokens
<1>3. b \in 1 .. Len(text)
    BY <1>1, <1>2, BoundaryFound
<1>4. b \in 0 .. Len(text)
  <2> HIDE DEF b
  <2> QED
      BY <1>2, <1>3, LenProperties
<1>5. beginning \in Seq(Chars) /\ Tokenize(beginning) \in Toks
  <2> HIDE DEF b
  <2> QED
      BY <1>2, <1>4, BeginningOf, BeginningTokens
<1>6. a.cfg = cfg /\ a.text = beginning /\ a \in [cfg : Configs, text : Seq(Chars)]
    BY <1>1, <1>5
<1>7. /\ AnchorNode(a).tokens = Tokenize(beginning) /\ AnchorNode(a).cfg = cfg
      /\ AnchorNode(a).text = beginning
    BY <1>6 DEF AnchorNode
<1> QED
    BY <1>1, <1>5, <1>6, <1>7 DEF RowOK

LEMMA PlainRow ==
    ASSUME NEW tokens \in Toks, tokens # <<>>
    PROVE  RowOK(PlainNode(tokens))
BY DEF RowOK, PlainNode

\* After room was made, there is room for what a save adds.
LEMMA RowsAdded ==
    ASSUME RowsOK, NEW R \in SUBSET rows, Cardinality(R) < MaxRows,
           NEW n, RowOK(n), NEW m, RowOK(m),
           rows' \in {R, R \cup {n}, R \cup {n} \cup {m}}
    PROVE  RowsOK'
<1>1. IsFiniteSet(R) /\ Cardinality(R) \in Nat /\ MaxRows \in Nat
    BY FS_Subset, FS_CardinalityType, BoundsAssumption DEF RowsOK
<1>2. /\ IsFiniteSet(R \cup {n}) /\ Cardinality(R \cup {n}) \in Nat
      /\ Cardinality(R \cup {n}) <= Cardinality(R) + 1
  <2>1. /\ IsFiniteSet(R \cup {n})
        /\ Cardinality(R \cup {n}) = Cardinality(R) \/ Cardinality(R \cup {n}) = Cardinality(R) + 1
      BY <1>1, FS_AddElement
  <2> QED
      BY <2>1, <1>1
<1>3. /\ IsFiniteSet(R \cup {n} \cup {m}) /\ Cardinality(R \cup {n} \cup {m}) \in Nat
      /\ Cardinality(R \cup {n} \cup {m}) <= Cardinality(R) + 2
  <2>1. /\ IsFiniteSet(R \cup {n} \cup {m})
        /\ \/ Cardinality(R \cup {n} \cup {m}) = Cardinality(R \cup {n})
           \/ Cardinality(R \cup {n} \cup {m}) = Cardinality(R \cup {n}) + 1
      BY <1>2, FS_AddElement
  <2> QED
      BY <2>1, <1>1, <1>2
<1>4. IsFiniteSet(rows') /\ Cardinality(rows') <= MaxRows + 1
  <2>1. CASE rows' = R
      BY <2>1, <1>1
  <2>2. CASE rows' = R \cup {n}
      BY <2>2, <1>1, <1>2
  <2>3. CASE rows' = R \cup {n} \cup {m}
      BY <2>3, <1>1, <1>3
  <2> QED
      BY <2>1, <2>2, <2>3
<1>5. \A r \in rows' : RowOK(r)
    BY DEF RowsOK
<1> QED
    BY <1>4, <1>5 DEF RowsOK, RowOK

-----------------------------------------------------------------------------
(* The steps. *)

\* The tokens of the prompt.
LEMMA TokensOfRequest ==
    ASSUME IInv, ~At("idle")
    PROVE  /\ req.text \in Texts /\ req.text \in Seq(Chars)
           /\ Tokens \in Toks /\ Tokens # <<>> /\ Len(Tokens) \in Nat
<1>1. req.text \in Texts
    BY TextsOfSent DEF IInv, ContextOK
<1>2. Tokens # <<>>
    BY DEF IInv, ContextOK
<1> QED
    BY <1>1, <1>2, BeginningTokens, LenProperties DEF Tokens, Toks

\* Between two requests there is nothing to be said of one.
LEMMA IdleStep ==
    ASSUME NoRequest \in Requests, IInv, RowsOK', UNCHANGED options, req' = NoRequest
    PROVE  IInv'
<1>1. /\ req'.at = "idle" /\ req'.via = None /\ req'.restored = None
    BY DEF NoRequest, Request
<1>2. None # "full-prefix"
    BY NamesAssumption
<1> QED
    BY <1>1, <1>2 DEF IInv, ContextOK, ExactOK, RestoredOK, At

LEMMA NoRequestIsOne == NoRequest \in Requests
<1>1. <<>> \in Toks
    BY EmptySeq DEF Toks
<1> QED
    BY <1>1 DEF NoRequest, Request, Requests, Phases

LEMMA InitIInv == Init => IInv
<1> SUFFICES ASSUME Init PROVE IInv
    OBVIOUS
<1>1. RowsOK
  <2>1. IsFiniteSet({}) /\ Cardinality({}) = 0
      BY FS_EmptySet
  <2> QED
      BY <2>1, BoundsAssumption DEF Init, RowsOK
<1>2. req.at = "idle" /\ req.via = None /\ req.restored = None /\ None # "full-prefix"
    BY NamesAssumption DEF Init, NoRequest, Request
<1> QED
    BY <1>1, <1>2, NoRequestIsOne DEF Init, IInv, ContextOK, ExactOK, RestoredOK, At

LEMMA ArriveStep ==
    ASSUME IInv, NEW body \in Bodies, Arrive(body)
    PROVE  IInv'
<1> DEFINE text == RenderPromptForCache(body)
<1>1. body \in Sent /\ text \in Texts
  <2>1. body \in Sent
      BY DEF Sent
  <2> QED
      BY <2>1, TextsOfSent
<1>2. /\ HasContext(text) /\ req' = Request(body, text)
      /\ UNCHANGED <<options, rows>>
    BY DEF Arrive
<1>3. <<>> \in Toks
    BY EmptySeq DEF Toks
<1> HIDE DEF text
<1>4. /\ req'.at = "context" /\ req'.body = body /\ req'.text = text /\ req'.exact = None
      /\ req'.todo = {} /\ req'.restored = None /\ req'.via = None
      /\ req' \in Requests
    BY <1>1, <1>2, <1>3 DEF Request, Requests, Phases
<1>5. RowsOK'
    BY <1>2 DEF IInv, RowsOK
<1>6. ContextOK'
    BY <1>1, <1>2, <1>4 DEF ContextOK, HasContext, Tokens, text
<1>7. ExactOK' /\ RestoredOK'
    BY <1>4, NamesAssumption DEF ExactOK, RestoredOK, At
<1> QED
    BY <1>2, <1>4, <1>5, <1>6, <1>7 DEF IInv, At

LEMMA WorkaroundStep ==
    ASSUME IInv, Workaround
    PROVE  IInv'
<1> DEFINE body == AppendNewline(req.body)
           text == RenderPromptForCache(body)
           changed == /\ options.strict /\ HasRow(Tokens)
                      /\ body # None /\ HasContext(text) /\ IsPrefix(Tokens, Tokenize(text))
<1>1. /\ At("context") /\ UNCHANGED <<options, rows>>
      /\ req' = IF changed
                  THEN [req EXCEPT !.at = "lookup", !.body = body, !.text = text, !.exact = Tokens]
                  ELSE [req EXCEPT !.at = "lookup"]
    BY DEF Workaround
<1>2. /\ req \in Requests /\ req.body \in Bodies /\ req.exact = None /\ req.todo = {}
      /\ req.restored = None /\ req.via = None /\ req.at = "context"
    BY <1>1 DEF IInv, ExactOK, RestoredOK, At
<1>3. Tokens \in Toks /\ ~At("idle")
    BY <1>1, <1>2, TokensOfRequest DEF At
<1>4. RowsOK'
    BY <1>1 DEF IInv, RowsOK
<1>5. CASE changed
  <2>1. body \in Sent
    <3>1. req.body.extendable
        BY <1>5 DEF AppendNewline
    <3> QED
        BY <3>1, <1>2 DEF Sent
  <2>2. text \in Texts
      BY <2>1, TextsOfSent
  <2>3. req' = [req EXCEPT !.at = "lookup", !.body = body, !.text = text, !.exact = Tokens]
      BY <1>1, <1>5
  <2>4. /\ options.strict /\ HasContext(text) /\ IsPrefix(Tokens, Tokenize(text))
      BY <1>5
  <2>5. text = RenderPromptForCache(body)
      OBVIOUS
  <2> HIDE DEF text, body, changed
  <2>6. /\ req' \in Requests
        /\ req'.at = "lookup" /\ req'.body = body /\ req'.text = text /\ req'.exact = Tokens
        /\ req'.todo = {} /\ req'.restored = None /\ req'.via = None
      BY <1>2, <1>3, <2>1, <2>2, <2>3 DEF Requests, Phases
  <2>7. ContextOK'
      BY <2>1, <2>4, <2>5, <2>6 DEF ContextOK, HasContext, Tokens
  <2>8. ExactOK' /\ RestoredOK'
      BY <1>1, <2>4, <2>6, NamesAssumption DEF ExactOK, RestoredOK, At, Tokens
  <2> QED
      BY <1>1, <1>4, <2>6, <2>7, <2>8 DEF IInv, At
<1>6. CASE ~changed
  <2>1. req' = [req EXCEPT !.at = "lookup"]
      BY <1>1, <1>6
  <2> HIDE DEF changed
  <2>2. /\ req' \in Requests
        /\ req'.at = "lookup" /\ req'.body = req.body /\ req'.text = req.text /\ req'.exact = None
        /\ req'.todo = {} /\ req'.restored = None /\ req'.via = None
      BY <1>2, <2>1 DEF Requests, Phases
  <2>3. ContextOK'
      BY <1>3, <2>2 DEF IInv, ContextOK, Tokens, At
  <2>4. ExactOK' /\ RestoredOK'
      BY <2>2, NamesAssumption DEF ExactOK, RestoredOK, At
  <2> QED
      BY <1>1, <1>4, <2>2, <2>3, <2>4 DEF IInv, At
<1> QED
    BY <1>5, <1>6

\* A hit of a strict lookup is a strict beginning of the prompt's tokens.
LEMMA StrictHit ==
    ASSUME NEW tokens \in Toks, NEW m \in 0 .. Len(tokens), m < Len(tokens)
    PROVE  IsStrictPrefix(SubSeq(tokens, 1, m), tokens)
<1>1. /\ IsPrefix(SubSeq(tokens, 1, m), tokens) /\ Len(SubSeq(tokens, 1, m)) = m
    BY BeginningOf, BeginningIsPrefix DEF Toks
<1>2. SubSeq(tokens, 1, m) # tokens
  <2> SUFFICES ASSUME SubSeq(tokens, 1, m) = tokens PROVE FALSE
      OBVIOUS
  <2>1. Len(tokens) = m
      BY <1>1
  <2> QED
      BY <2>1, LenProperties DEF Toks
<1> QED
    BY <1>1, <1>2 DEF IsStrictPrefix

LEMMA LookupStep ==
    ASSUME IInv, LookupAndRestorePrefix
    PROVE  IInv'
<1> DEFINE hit == Lookup(Tokens, options.strict)
           anchors == AnchorsForPrompt(req.body, req.text)
<1>1. /\ At("lookup") /\ UNCHANGED <<options, rows>>
      /\ \/ hit = None /\ req' = [req EXCEPT !.at = "anchors", !.todo = anchors]
         \/ /\ hit # None
            /\ req' = [req EXCEPT !.at = "forward", !.restored = hit, !.via = "full-prefix"]
         \/ req' = [req EXCEPT !.at = "forward"]
    BY DEF LookupAndRestorePrefix
<1>2. /\ req \in Requests /\ req.restored = None /\ req.via = None /\ req.at = "lookup"
    BY <1>1 DEF IInv, RestoredOK, At
<1>3. Tokens \in Toks /\ req.text \in Texts /\ ~At("idle")
    BY <1>1, <1>2, TokensOfRequest DEF At
<1>4. RowsOK'
    BY <1>1 DEF IInv, RowsOK
<1>5. hit # None => \E m \in 0 .. Len(Tokens) :
            hit = SubSeq(Tokens, 1, m) /\ (options.strict => m < Len(Tokens))
  <2>1. \A n \in rows : n.tokens \in Toks /\ n.tokens # <<>>
      BY DEF IInv, RowsOK, RowOK
  <2>2. options.strict \in BOOLEAN
      BY DEF IInv
  <2> QED
      BY <1>3, <2>1, <2>2, LookupFinds
<1>6. hit # None => hit \in Toks /\ (options.strict => IsStrictPrefix(hit, Tokens))
    BY <1>3, <1>5, StrictHit, BeginningOf DEF Toks
<1>7. anchors \subseteq [cfg : Configs, text : Seq(Chars)]
    BY <1>3, AnchorsFound
<1>8. /\ req.body \in Sent /\ req.text = RenderPromptForCache(req.body) /\ Tokens # <<>>
      /\ req.todo \subseteq anchors
    BY <1>3 DEF IInv, ContextOK
<1> HIDE DEF hit, anchors
<1>9. CASE req' = [req EXCEPT !.at = "anchors", !.todo = anchors]
  <2>1. /\ req' \in Requests
        /\ req'.at = "anchors" /\ req'.body = req.body /\ req'.text = req.text
        /\ req'.todo = anchors /\ req'.restored = None /\ req'.via = None
      BY <1>2, <1>7, <1>9 DEF Requests, Phases
  <2>2. ContextOK'
      BY <1>8, <2>1 DEF ContextOK, Tokens, anchors
  <2>3. ExactOK' /\ RestoredOK'
      BY <2>1, NamesAssumption DEF ExactOK, RestoredOK, At
  <2> QED
      BY <1>1, <1>4, <2>1, <2>2, <2>3 DEF IInv, At
<1>10. CASE hit # None /\ req' = [req EXCEPT !.at = "forward", !.restored = hit, !.via = "full-prefix"]
  <2>1. /\ req' \in Requests
        /\ req'.at = "forward" /\ req'.body = req.body /\ req'.text = req.text
        /\ req'.todo = req.todo /\ req'.restored = hit /\ req'.via = "full-prefix"
      BY <1>2, <1>6, <1>10 DEF Requests, Phases
  <2>2. ContextOK'
      BY <1>8, <2>1 DEF ContextOK, Tokens, anchors
  <2>3. ExactOK' /\ RestoredOK'
      BY <1>1, <1>6, <1>10, <2>1, NamesAssumption DEF ExactOK, RestoredOK, At, Tokens
  <2> QED
      BY <1>1, <1>4, <2>1, <2>2, <2>3 DEF IInv, At
<1>11. CASE req' = [req EXCEPT !.at = "forward"]
  <2>1. /\ req' \in Requests
        /\ req'.at = "forward" /\ req'.body = req.body /\ req'.text = req.text
        /\ req'.todo = req.todo /\ req'.restored = None /\ req'.via = None
      BY <1>2, <1>11 DEF Requests, Phases
  <2>2. ContextOK'
      BY <1>8, <2>1 DEF ContextOK, Tokens, anchors
  <2>3. ExactOK' /\ RestoredOK'
      BY <2>1, NamesAssumption DEF ExactOK, RestoredOK, At
  <2> QED
      BY <1>1, <1>4, <2>1, <2>2, <2>3 DEF IInv, At
<1> QED
    BY <1>1, <1>9, <1>10, <1>11

\* What the request still tries is an anchor of its prompt.
LEMMA TodoFound ==
    ASSUME IInv, At("anchors"), NEW a \in req.todo
    PROVE  Tokenize(a.text) \in Toks /\ RowOK(AnchorNode(a))
<1>1. ~At("idle")
    BY DEF At
<1>2. req.text \in Texts
    BY <1>1, TokensOfRequest
<1>3. a \in AnchorsForPrompt(req.body, req.text)
    BY <1>1 DEF IInv, ContextOK
<1> QED
    BY <1>2, <1>3, AnchorsFound

LEMMA RestoreAnchorStep ==
    ASSUME IInv, NEW a \in req.todo, RestoreAnchor(a)
    PROVE  IInv'
<1> DEFINE tokens == Tokenize(a.text)
           n == AnchorNode(a)
<1>1. /\ At("anchors") /\ UNCHANGED options
      /\ rows' = rows \/ \E R \in Pruned : rows' = R \cup {n}
      /\ req' = [req EXCEPT !.at = "forward", !.restored = tokens, !.via = "anchor"]
    BY DEF RestoreAnchor
<1>2. tokens \in Toks /\ RowOK(n)
    BY <1>1, TodoFound
<1>3. RowsOK'
  <2>1. CASE rows' = rows
      BY <2>1 DEF IInv, RowsOK
  <2>2. ASSUME NEW R \in Pruned, rows' = R \cup {n} PROVE RowsOK'
    <3>1. R \in SUBSET rows /\ Cardinality(R) < MaxRows
        BY DEF Pruned
    <3> HIDE DEF n
    <3> QED
        BY <1>2, <2>2, <3>1, RowsAdded DEF IInv
  <2> QED
      BY <1>1, <2>1, <2>2
<1> HIDE DEF tokens
<1>4. req \in Requests /\ req.at = "anchors" /\ ~At("idle")
    BY <1>1 DEF IInv, At
<1>5. /\ req' \in Requests
      /\ req'.at = "forward" /\ req'.body = req.body /\ req'.text = req.text
      /\ req'.todo = req.todo /\ req'.restored = tokens /\ req'.via = "anchor"
    BY <1>1, <1>2, <1>4 DEF Requests, Phases
<1>6. ContextOK'
    BY <1>4, <1>5 DEF IInv, ContextOK, Tokens
<1>7. tokens # None /\ None # "anchor"
    BY <1>2, NamesAssumption DEF Toks
<1>8. ExactOK' /\ RestoredOK'
    BY <1>5, <1>7 DEF ExactOK, RestoredOK, At
<1> QED
    BY <1>1, <1>3, <1>5, <1>6, <1>8 DEF IInv, At

LEMMA SkipAnchorStep ==
    ASSUME IInv, NEW a \in req.todo, SkipAnchor(a)
    PROVE  IInv'
<1> DEFINE n == AnchorNode(a)
<1>1. /\ At("anchors") /\ UNCHANGED options
      /\ rows' = rows \/ \E R \in Pruned : rows' \in {R, R \cup {n}}
      /\ req' = [req EXCEPT !.todo = @ \ {a}]
    BY DEF SkipAnchor
<1>2. RowOK(n)
    BY <1>1, TodoFound
<1>3. RowsOK'
  <2>1. CASE rows' = rows
      BY <2>1 DEF IInv, RowsOK
  <2>2. ASSUME NEW R \in Pruned, rows' \in {R, R \cup {n}} PROVE RowsOK'
    <3>1. R \in SUBSET rows /\ Cardinality(R) < MaxRows
        BY DEF Pruned
    <3> HIDE DEF n
    <3> QED
        BY <1>2, <2>2, <3>1, RowsAdded DEF IInv
  <2> QED
      BY <1>1, <2>1, <2>2
<1>4. req \in Requests /\ req.at = "anchors" /\ req.restored = None /\ req.via = None /\ ~At("idle")
    BY <1>1 DEF IInv, At, RestoredOK
<1>5. /\ req' \in Requests
      /\ req'.at = "anchors" /\ req'.body = req.body /\ req'.text = req.text
      /\ req'.todo = req.todo \ {a} /\ req'.restored = None /\ req'.via = None
    BY <1>1, <1>4 DEF Requests
<1>6. ContextOK'
    BY <1>4, <1>5 DEF IInv, ContextOK, Tokens
<1>7. ExactOK' /\ RestoredOK'
    BY <1>5, NamesAssumption DEF ExactOK, RestoredOK, At
<1> QED
    BY <1>1, <1>3, <1>5, <1>6, <1>7 DEF IInv, At

LEMMA NoMoreAnchorsStep ==
    ASSUME IInv, NoMoreAnchors
    PROVE  IInv'
<1>1. /\ At("anchors") /\ UNCHANGED <<options, rows>>
      /\ req' = [req EXCEPT !.at = "forward"]
    BY DEF NoMoreAnchors
<1>2. req \in Requests /\ req.at = "anchors" /\ req.restored = None /\ req.via = None /\ ~At("idle")
    BY <1>1 DEF IInv, At, RestoredOK
<1>3. /\ req' \in Requests
      /\ req'.at = "forward" /\ req'.body = req.body /\ req'.text = req.text
      /\ req'.todo = req.todo /\ req'.restored = None /\ req'.via = None
    BY <1>1, <1>2 DEF Requests, Phases
<1>4. ContextOK'
    BY <1>2, <1>3 DEF IInv, ContextOK, Tokens
<1>5. ExactOK' /\ RestoredOK'
    BY <1>3, NamesAssumption DEF ExactOK, RestoredOK, At
<1>6. RowsOK'
    BY <1>1 DEF IInv, RowsOK
<1> QED
    BY <1>1, <1>3, <1>4, <1>5, <1>6 DEF IInv, At

\* What the slot holds afterwards is a sequence of tokens.
LEMMA GeneratedTokens ==
    ASSUME NEW tokens \in Toks, tokens # <<>>, NEW pieces \in Responses
    PROVE  Generated(tokens, pieces) \in Toks /\ Front(Generated(tokens, pieces)) \in Toks
<1> DEFINE texts == [i \in 1 .. Len(pieces) |-> pieces[i].text]
           all == Generated(tokens, pieces)
<1>1. Len(pieces) \in Nat /\ \A i \in 1 .. Len(pieces) : pieces[i].text \in Seq(Chars)
  <2>1. pieces \in Seq([field : STRING, text : Seq(Chars)])
      BY ResponsesAssumption
  <2>2. \A i \in 1 .. Len(pieces) : pieces[i] \in [field : STRING, text : Seq(Chars)]
      BY <2>1, ElementOfSeq
  <2> QED
      BY <2>1, <2>2, LenProperties
<1>2. texts \in Toks
    BY <1>1, IsASeq DEF Toks
<1>3. all \in Toks /\ Len(all) = Len(tokens) + Len(texts)
  <2> HIDE DEF texts
  <2>1. all = tokens \o texts
      BY DEF Generated, texts
  <2> HIDE DEF all
  <2> QED
      BY <1>2, <2>1, ConcatProperties DEF Toks
<1>4. Len(tokens) \in Nat \ {0} /\ Len(texts) \in Nat
  <2> HIDE DEF texts
  <2> QED
      BY <1>2, EmptySeq, LenProperties DEF Toks
<1> HIDE DEF all, texts
<1>5. Len(all) - 1 \in 0 .. Len(all)
    BY <1>3, <1>4
<1>6. Front(all) \in Toks
    BY <1>3, <1>5, BeginningOf DEF Front, Toks
<1> QED
    BY <1>3, <1>6 DEF all

LEMMA ForwardStep ==
    ASSUME IInv, NEW pieces \in Responses, Forward(pieces)
    PROVE  IInv'
<1> DEFINE served == Generated(Tokenize(RenderPromptForCache(req.body)), pieces)
<1>1. /\ At("forward") /\ UNCHANGED <<options, rows>>
      /\ \E slot \in {served, Front(served)} \cup {Tokenize(t) : t \in Texts} :
            req' = [req EXCEPT !.at = "save", !.pieces = pieces, !.slot = slot]
    BY DEF Forward
<1>2. PICK slot \in {served, Front(served)} \cup {Tokenize(t) : t \in Texts} :
        req' = [req EXCEPT !.at = "save", !.pieces = pieces, !.slot = slot]
    BY <1>1
<1>3. req \in Requests /\ req.at = "forward" /\ ~At("idle")
    BY <1>1 DEF IInv, At
<1>4. slot \in Toks
  <2>1. Tokens = Tokenize(RenderPromptForCache(req.body))
      BY <1>3 DEF IInv, ContextOK, Tokens
  <2>2. served \in Toks /\ Front(served) \in Toks
      BY <1>3, <2>1, TokensOfRequest, GeneratedTokens
  <2> HIDE DEF served
  <2>3. \A t \in Texts : Tokenize(t) \in Toks
      BY BeginningTokens
  <2> QED
      BY <2>2, <2>3
<1>5. /\ req' \in Requests
      /\ req'.at = "save" /\ req'.body = req.body /\ req'.text = req.text
      /\ req'.todo = req.todo /\ req'.restored = req.restored /\ req'.via = req.via
      /\ req'.pieces = pieces
    BY <1>2, <1>3, <1>4 DEF Requests, Phases
<1>6. ContextOK'
    BY <1>3, <1>5 DEF IInv, ContextOK, Tokens
<1>7. ExactOK' /\ RestoredOK'
    BY <1>1, <1>5 DEF IInv, ExactOK, RestoredOK, At, Tokens
<1>8. RowsOK'
    BY <1>1 DEF IInv, RowsOK
<1> QED
    BY <1>1, <1>5, <1>6, <1>7, <1>8 DEF IInv, At

\* What is verified goes beyond the prompt, and is what the slot and the text a client
\* will send back have in common.
LEMMA VerifiedIsProven ==
    ASSUME IInv, At("save"), IsPrefix(Tokens, req.slot),
           NEW tokens, tokens = VerifiedGeneratedPrefixTokens(req.text, req.pieces, req.slot),
           tokens # None
    PROVE  /\ tokens \in Toks /\ tokens # <<>> /\ IsStrictPrefix(Tokens, tokens)
           /\ tokens = LongestCommonPrefix(
                {req.slot, Tokenize(req.text \o CapturedResponseText(req.pieces))})
<1> DEFINE sentBack == Tokenize(req.text \o CapturedResponseText(req.pieces))
           lcp == LcpLen(sentBack, req.slot)
<1>1. /\ req.text \in Texts /\ Tokens \in Toks /\ Len(Tokens) \in Nat
      /\ req.slot \in Toks /\ req.pieces \in Responses
  <2>1. ~At("idle")
      BY DEF At
  <2> QED
      BY <2>1, TokensOfRequest DEF IInv, Requests
<1>2. sentBack \in Toks
    BY <1>1, TokenizeAssumption DEF Toks
<1>3. tokens = SubSeq(req.slot, 1, lcp) /\ lcp > Len(Tokens)
    BY DEF VerifiedGeneratedPrefixTokens, Tokens
<1> HIDE DEF sentBack
<1>4. tokens = LongestCommonPrefix({req.slot, sentBack})
    BY <1>1, <1>2, <1>3, LcpIsLongest
<1>5. lcp \in 0 .. Len(req.slot)
  <2>1. lcp \in Nat /\ lcp <= Len(req.slot)
      BY <1>1, <1>2, LcpAgrees
  <2> HIDE DEF lcp
  <2> QED
      BY <2>1, <1>1, LenProperties DEF Toks
<1> HIDE DEF lcp
<1>6. tokens \in Toks /\ Len(tokens) = lcp /\ \A i \in 1 .. lcp : tokens[i] = req.slot[i]
    BY <1>1, <1>3, <1>5, BeginningOf DEF Toks
<1>7. \A i \in 1 .. Len(Tokens) : Tokens[i] = req.slot[i]
    BY <1>1, PrefixAgrees DEF Toks
<1>8. Len(Tokens) <= Len(tokens) /\ \A i \in 1 .. Len(Tokens) : Tokens[i] = tokens[i]
    BY <1>1, <1>3, <1>5, <1>6, <1>7
<1>9. IsPrefix(Tokens, tokens)
    BY <1>1, <1>6, <1>8, PrefixAgrees DEF Toks
<1>10. Tokens # tokens /\ tokens # <<>>
  <2>1. Len(tokens) # Len(Tokens) /\ Len(tokens) # 0
      BY <1>1, <1>3, <1>5, <1>6
  <2> QED
      BY <2>1, <1>1, <1>6, EmptySeq
<1> QED
    BY <1>4, <1>6, <1>9, <1>10 DEF IsStrictPrefix, sentBack

\* An autosave adds the prompt, and perhaps what is verified.
LEMMA AutosaveAdds ==
    ASSUME IInv, Autosave
    PROVE  \E R \in Pruned : \E n :
        /\ RowOK(n) /\ rows' = R \cup {PlainNode(Tokens)} \cup {n}
        /\ n.tokens # Tokens =>
            /\ IsStrictPrefix(Tokens, n.tokens)
            /\ n.tokens = LongestCommonPrefix(
                    {req.slot, Tokenize(req.text \o CapturedResponseText(req.pieces))})
<1> DEFINE generated == VerifiedGeneratedPrefixTokens(req.text, req.pieces, req.slot)
           prompt == PlainNode(Tokens)
<1>1. PICK R \in Pruned, readable \in BOOLEAN :
        /\ At("save") /\ readable => IsPrefix(Tokens, req.slot)
        /\ rows' = R \cup {prompt}
                     \cup (IF readable /\ generated # None THEN {PlainNode(generated)} ELSE {})
    BY DEF Autosave
<1>2. At("save") /\ ~At("idle")
    BY DEF Autosave, At
<1>3. RowOK(prompt) /\ prompt.tokens = Tokens
    BY <1>2, TokensOfRequest, PlainRow DEF PlainNode
<1>4. CASE readable /\ generated # None
  <2>1. /\ generated \in Toks /\ generated # <<>> /\ IsStrictPrefix(Tokens, generated)
        /\ generated = LongestCommonPrefix(
                {req.slot, Tokenize(req.text \o CapturedResponseText(req.pieces))})
      BY <1>1, <1>2, <1>4, VerifiedIsProven
  <2> HIDE DEF generated
  <2>2. RowOK(PlainNode(generated)) /\ PlainNode(generated).tokens = generated
      BY <2>1, PlainRow DEF PlainNode
  <2>3. rows' = R \cup {prompt} \cup {PlainNode(generated)}
      BY <1>1, <1>4
  <2> QED
      BY <2>1, <2>2, <2>3
<1>5. CASE ~(readable /\ generated # None)
  <2> HIDE DEF generated
  <2>1. rows' = R \cup {prompt} \cup {prompt}
      BY <1>1, <1>5
  <2> QED
      BY <2>1, <1>3
<1> QED
    BY <1>4, <1>5

LEMMA AutosaveStep ==
    ASSUME IInv, Autosave
    PROVE  IInv'
<1>1. PICK R \in Pruned : \E n : RowOK(n) /\ rows' = R \cup {PlainNode(Tokens)} \cup {n}
    BY AutosaveAdds
<1>2. R \in SUBSET rows /\ Cardinality(R) < MaxRows
    BY DEF Pruned
<1>3. RowOK(PlainNode(Tokens))
  <2>1. ~At("idle")
      BY DEF Autosave, At
  <2> QED
      BY <2>1, TokensOfRequest, PlainRow
<1>4. RowsOK'
  <2>1. PICK n : RowOK(n) /\ rows' = R \cup {PlainNode(Tokens)} \cup {n}
      BY <1>1
  <2> QED
      BY <2>1, <1>2, <1>3, RowsAdded DEF IInv
<1> QED
    BY <1>4, IdleStep, NoRequestIsOne DEF Autosave

LEMMA OthersInsertStep ==
    ASSUME IInv, NEW body \in Bodies, OthersInsert(body)
    PROVE  RowsOK'
<1> DEFINE text == RenderPromptForCache(body)
<1>1. PICK n \in {PlainNode(Tokenize(text))} \cup {AnchorNode(a) : a \in AnchorsForPrompt(body, text)} :
        rows' = rows \cup {n}
    BY DEF OthersInsert
<1>2. Cardinality(rows) < MaxRows /\ Tokenize(text) # <<>>
    BY DEF OthersInsert, HasContext
<1>3. text \in Texts
    BY TextsOfSent DEF Sent
<1> HIDE DEF text
<1>4. RowOK(n)
    BY <1>2, <1>3, BeginningTokens, PlainRow, AnchorsFound
<1> QED
    BY <1>1, <1>2, <1>4, RowsAdded DEF IInv

LEMMA OthersDeleteStep ==
    ASSUME IInv, OthersDelete
    PROVE  RowsOK'
<1>1. PICK n \in rows : rows' = rows \ {n}
    BY DEF OthersDelete
<1>2. IsFiniteSet(rows) /\ Cardinality(rows) \in Nat /\ Cardinality(rows) <= MaxRows + 1
    BY FS_CardinalityType DEF IInv, RowsOK
<1>3. IsFiniteSet(rows') /\ Cardinality(rows') = Cardinality(rows) - 1
    BY <1>1, <1>2, FS_RemoveElement
<1> QED
    BY <1>1, <1>2, <1>3, BoundsAssumption DEF IInv, RowsOK

-----------------------------------------------------------------------------
(* The theorems. *)

LEMMA NextIInv == IInv /\ [Next]_vars => IInv'
<1> SUFFICES ASSUME IInv, [Next]_vars PROVE IInv'
    OBVIOUS
<1>1. ASSUME RowsOK', UNCHANGED <<options, req>> PROVE IInv'
    BY <1>1 DEF IInv, ContextOK, ExactOK, RestoredOK, At, Tokens
<1>2. CASE UNCHANGED vars
  <2>1. RowsOK'
      BY <1>2 DEF IInv, RowsOK, vars
  <2> QED
      BY <1>1, <1>2, <2>1 DEF vars
<1>3. ASSUME NEW body \in Bodies, OthersInsert(body) PROVE IInv'
    BY <1>1, <1>3, OthersInsertStep DEF OthersInsert
<1>4. CASE OthersDelete
    BY <1>1, <1>4, OthersDeleteStep DEF OthersDelete
<1>5. CASE NotSaved
  <2>1. RowsOK'
      BY <1>5 DEF IInv, RowsOK, NotSaved
  <2> QED
      BY <1>5, <2>1, IdleStep, NoRequestIsOne DEF NotSaved
<1>6. ASSUME NEW a \in req.todo, RestoreAnchor(a) \/ SkipAnchor(a) PROVE IInv'
    BY <1>6, RestoreAnchorStep, SkipAnchorStep
<1>7. ASSUME NEW body \in Bodies, Arrive(body) PROVE IInv'
    BY <1>7, ArriveStep
<1>8. ASSUME NEW pieces \in Responses, Forward(pieces) PROVE IInv'
    BY <1>8, ForwardStep
<1> QED
    BY <1>2, <1>3, <1>4, <1>5, <1>6, <1>7, <1>8,
       WorkaroundStep, LookupStep, NoMoreAnchorsStep, AutosaveStep DEF Next

LEMMA Invariance == Spec => []IInv
<1>1. Init => IInv
    BY InitIInv
<1>2. IInv /\ [Next]_vars => IInv'
    BY NextIInv
<1> QED
    BY <1>1, <1>2, PTL DEF Spec

\* The cache holds at most one node more than there is room for, each with tokens; a
\* request is for a known prompt, what it still tries are that prompt's anchors, and it
\* says how it was restored exactly if it was (_handle_request, RestorePlan).
THEOREM TypeCorrect == Spec => []TypeOK
<1>1. IInv => TypeOK
  <2> SUFFICES ASSUME IInv PROVE TypeOK
      OBVIOUS
  <2>1. req.at \in Phases /\ req.via \in {None, "full-prefix", "anchor"}
      BY DEF IInv, Requests
  <2>2. ASSUME NEW n \in rows PROVE Len(n.tokens) > 0 /\ n.cfg \in Configs \cup {None}
    <3>1. n.tokens \in Toks /\ n.tokens # <<>> /\ n.cfg \in Configs \cup {None}
        BY DEF IInv, RowsOK, RowOK
    <3> QED
        BY <3>1, EmptySeq, LenProperties DEF Toks
  <2>3. ~At("idle") => /\ req.text \in Texts
                       /\ req.todo \subseteq AnchorsForPrompt(req.body, req.text)
                       /\ (req.via = None) <=> (req.restored = None)
      BY TokensOfRequest DEF IInv, ContextOK, RestoredOK
  <2> QED
      BY <2>1, <2>2, <2>3 DEF TypeOK, IInv, RowsOK
<1> QED
    BY <1>1, Invariance, PTL

\* Under strict_prefix_restore, a full prefix that is restored leaves the backend a token
\* to evaluate of the body that is sent, whatever the newline did to it
\* (_handle_request, lookup with strictly_less).
THEOREM StrictRestores == Spec => []FullPrefixIsStrict
<1>1. IInv => FullPrefixIsStrict
  <2> SUFFICES ASSUME IInv, options.strict, req.via = "full-prefix"
               PROVE  IsStrictPrefix(req.restored, Tokenize(RenderPromptForCache(req.body)))
      BY DEF FullPrefixIsStrict
  <2>1. ~At("idle")
      BY NamesAssumption DEF IInv, At, NoRequest, Request
  <2>2. IsStrictPrefix(req.restored, Tokens)
      BY DEF IInv, RestoredOK
  <2>3. req.text = RenderPromptForCache(req.body)
      BY <2>1 DEF IInv, ContextOK
  <2> QED
      BY <2>2, <2>3 DEF Tokens
<1> QED
    BY <1>1, Invariance, PTL

\* The prompt that was changed because it was cached to its last token is looked up with
\* at least that many tokens found, while the row is there (the newline workaround of
\* _handle_request).
THEOREM WorkaroundServes == Spec => []ExactNodeServes
<1>1. IInv => ExactNodeServes
  <2> DEFINE strict == Lookup(Tokens, options.strict)
  <2> SUFFICES ASSUME IInv, At("lookup"), req.exact # None, HasRow(req.exact), Tokens # req.exact
               PROVE  strict # None /\ IsPrefix(req.exact, strict)
      BY DEF ExactNodeServes
  <2>1. PICK n \in rows : n.tokens = req.exact
      BY DEF HasRow
  <2>2. IsPrefix(n.tokens, Tokens) /\ options.strict \in BOOLEAN
      BY <2>1 DEF IInv, ExactOK
  <2>3. \A r \in rows : r.tokens \in Toks /\ r.tokens # <<>>
      BY DEF IInv, RowsOK, RowOK
  <2>4. Tokens \in Toks /\ Len(Tokens) \in Nat
    <3>1. ~At("idle")
        BY DEF At
    <3> QED
        BY <3>1, TokensOfRequest
  <2>5. Len(n.tokens) < Len(Tokens)
    <3>1. Len(n.tokens) \in Nat /\ Len(n.tokens) <= Len(Tokens)
        BY <2>2, <2>3, <2>4, LenProperties, PrefixAgrees DEF Toks
    <3>2. n.tokens = SubSeq(Tokens, 1, Len(n.tokens))
        BY <2>2, <2>3, <2>4, BeginningIsPrefix DEF Toks
    <3>3. Len(n.tokens) # Len(Tokens)
      <4> SUFFICES ASSUME Len(n.tokens) = Len(Tokens) PROVE FALSE
          OBVIOUS
      <4>1. n.tokens = Tokens
          BY <3>2, <2>4, SubSeqFull DEF Toks
      <4> QED
          BY <4>1, <2>1
    <3> QED
        BY <3>1, <3>3, <2>4
  <2>6. strict # None /\ IsPrefix(n.tokens, strict)
      BY <2>2, <2>3, <2>4, <2>5, LookupFinds
  <2> QED
      BY <2>1, <2>6
<1> QED
    BY <1>1, Invariance, PTL

\* An anchor that one prompt left in the cache is an anchor of every prompt of its kind
\* that begins with its text and, where the boundary is before the marker, the marker
\* (_find_marker_boundary, _anchors_for_prompt).
THEOREM AnchorsServe == Spec => []MaterializedAnchorServes
<1>1. IInv => MaterializedAnchorServes
  <2> SUFFICES ASSUME IInv, NEW n \in rows, n.cfg # None, ~At("idle"), Applies(n.cfg, req.body),
                      IsPrefix(n.text \o (IF n.cfg.side = "before" THEN n.cfg.marker ELSE <<>>),
                               req.text)
               PROVE  \E a \in AnchorsForPrompt(req.body, req.text) :
                            a.cfg = n.cfg /\ a.text = n.text
      BY DEF MaterializedAnchorServes
  <2> DEFINE b == FindMarkerBoundary(req.text, n.cfg)
  <2>1. /\ n.cfg \in Configs /\ n.tokens # <<>>
        /\ \E text \in Texts :
            /\ FindMarkerBoundary(text, n.cfg) \notin {None, 0}
            /\ n.text = SubSeq(text, 1, FindMarkerBoundary(text, n.cfg))
            /\ n.tokens = Tokenize(n.text)
      BY DEF IInv, RowsOK, RowOK
  <2>2. PICK text \in Texts :
            /\ FindMarkerBoundary(text, n.cfg) \notin {None, 0}
            /\ n.text = SubSeq(text, 1, FindMarkerBoundary(text, n.cfg))
            /\ n.tokens = Tokenize(n.text)
      BY <2>1
  <2>3. text \in Seq(Chars) /\ req.text \in Seq(Chars)
      BY BeginningTokens, TokensOfRequest
  <2>4. IsPrefix(n.text \o Rest(n.cfg), req.text)
      BY DEF Rest
  <2>5. /\ b = FindMarkerBoundary(text, n.cfg)
        /\ SubSeq(req.text, 1, b) = SubSeq(text, 1, b)
    <3>1. \A cfg \in Configs, v \in Seq(Chars) :
            LET c == FindMarkerBoundary(text, cfg)
            IN c \notin {None, 0} /\ IsPrefix(SubSeq(text, 1, c) \o Rest(cfg), v)
                 => FindMarkerBoundary(v, cfg) = c /\ SubSeq(v, 1, c) = SubSeq(text, 1, c)
        BY <2>3, BoundaryLocal
    <3> QED
        BY <3>1, <2>1, <2>2, <2>3, <2>4
  <2>6. /\ b \notin {None, 0} /\ n.text = SubSeq(req.text, 1, b)
        /\ Tokenize(SubSeq(req.text, 1, b)) # <<>>
      BY <2>1, <2>2, <2>5
  <2>7. [cfg |-> n.cfg, text |-> SubSeq(req.text, 1, b)] \in AnchorsForPrompt(req.body, req.text)
      BY <2>1, <2>6 DEF AnchorsForPrompt
  <2> QED
      BY <2>6, <2>7
<1> QED
    BY <1>1, Invariance, PTL

\* The tokens an autosave gives a generated-response node are those of the slot as far as
\* the prompt with the text the client was sent has the same, and more than the prompt's
\* (_auto_save_prefix_cache, _verified_generated_prefix_tokens).
THEOREM GeneratedProven == Spec => GeneratedIsProven
<1> DEFINE Proven(n) ==
        /\ IsStrictPrefix(Tokens, n.tokens)
        /\ n.tokens = LongestCommonPrefix(
                {req.slot, Tokenize(req.text \o CapturedResponseText(req.pieces))})
           Step == \A n \in rows' \ rows :
                      At("save") /\ ~(req'.at = "save") /\ n.tokens # Tokens => Proven(n)
<1>1. IInv /\ [Next]_vars => [Step]_vars
  <2> SUFFICES ASSUME IInv, Next, NEW n \in rows', n \notin rows,
                      At("save"), req'.at # "save", n.tokens # Tokens
               PROVE  Proven(n)
      OBVIOUS
  <2>1. Autosave
    <3>1. ~UNCHANGED rows /\ ~UNCHANGED req
        BY DEF At
    <3> QED
        BY <3>1 DEF Next, At, Arrive, OthersInsert, Workaround, LookupAndRestorePrefix,
            RestoreAnchor, SkipAnchor, NoMoreAnchors, NotSaved, OthersDelete, Forward
  <2>2. PICK R \in Pruned : \E m :
            /\ rows' = R \cup {PlainNode(Tokens)} \cup {m}
            /\ m.tokens # Tokens => Proven(m)
      BY <2>1, AutosaveAdds
  <2>3. PICK m : /\ rows' = R \cup {PlainNode(Tokens)} \cup {m}
                 /\ m.tokens # Tokens => Proven(m)
      BY <2>2
  <2>4. R \subseteq rows
      BY DEF Pruned
  <2>5. n = m
      BY <2>3, <2>4 DEF PlainNode
  <2> QED
      BY <2>3, <2>5
<1>2. GeneratedIsProven <=> [][Step]_vars
    BY DEF GeneratedIsProven
<1> QED
    BY <1>1, <1>2, Invariance, PTL DEF Spec
=============================================================================
