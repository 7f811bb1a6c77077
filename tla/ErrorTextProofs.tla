--------------------------- MODULE ErrorTextProofs --------------------------
(***************************************************************************)
(* Texts of any length, any limit and any number of header members: no     *)
(* reason a handler can come up with makes a write fail, as much of it as  *)
(* fits is kept, and tables that show one call show one text of it.        *)
(*                                                                         *)
(* The text helpers are recursive.  A fact about every position of a text  *)
(* is proved by its least counterexample, which needs a set of positions   *)
(* and no induction rule.                                                  *)
(***************************************************************************)
EXTENDS ErrorText, WellFoundedInduction, TLAPS

Letters == {"a", "wide", "nul", "c1", "subst", "prefix"}

-----------------------------------------------------------------------------
(* Least elements, and functions defined by recursion on 0..N.             *)

\* A set of naturals that is not empty has a least element.
LEMMA Least ==
    ASSUME NEW T \in SUBSET Nat, T # {}
    PROVE  \E m \in T : \A k \in T : m <= k
<1>1. PICK m \in T : \A k \in T : ~(<<k, m>> \in OpToRel(<, Nat))
  BY NatLessThanWellFounded, WFMin
<1>2. \A k \in T : ~(k < m)
  BY <1>1 DEF OpToRel
<1>3. \A k \in T : m <= k
  BY <1>2
<1> QED BY <1>3

\* What holds at 0 and at every successor holds up to N.
LEMMA UpTo ==
    ASSUME NEW N \in Nat, NEW T, 0 \in T, \A n \in 1..N : n - 1 \in T => n \in T
    PROVE  \A n \in 0..N : n \in T
<1> SUFFICES ASSUME (0..N) \ T # {} PROVE FALSE
  OBVIOUS
<1>0. (0..N) \ T \in SUBSET Nat
  OBVIOUS
<1>1. PICK m \in (0..N) \ T : \A k \in (0..N) \ T : m <= k
  BY <1>0, Least
<1>2. m \in 1..N /\ m - 1 \in 0..N
  OBVIOUS
<1>3. m - 1 \notin T
  BY <1>2
<1> QED BY <1>1, <1>2, <1>3

\* A recursion on 0..N that starts with 0 has a solution.
LEMMA Solvable ==
    ASSUME NEW N \in Nat, NEW step \in [1..N -> [Nat -> Nat]]
    PROVE  \E g \in [0..N -> Nat] : g[0] = 0 /\ \A n \in 1..N : g[n] = step[n][g[n - 1]]
<1> DEFINE Good(m) == \E g \in [0..m -> Nat] :
                        g[0] = 0 /\ \A n \in 1..m : g[n] = step[n][g[n - 1]]
           T == {m \in 0..N : Good(m)}
<1>1. 0 \in T
  <2>1. [n \in 0..0 |-> 0] \in [0..0 -> Nat]
    OBVIOUS
  <2>2. [n \in 0..0 |-> 0][0] = 0 /\ 1..0 = {}
    OBVIOUS
  <2>3. Good(0)
    BY <2>1, <2>2
  <2> QED BY <2>3
<1>2. ASSUME NEW m \in 1..N, m - 1 \in T PROVE m \in T
  <2>1. PICK g \in [0..(m - 1) -> Nat] :
          g[0] = 0 /\ \A n \in 1..(m - 1) : g[n] = step[n][g[n - 1]]
    BY <1>2
  <2> DEFINE last == step[m][g[m - 1]]
             f == [n \in 0..m |-> IF n = m THEN last ELSE g[n]]
  <2>2. m - 1 \in 0..(m - 1) /\ m - 1 \in 0..m /\ m \in 0..m /\ 0 \in 0..m /\ m # 0
    OBVIOUS
  <2>3. last \in Nat
    <3>1. g[m - 1] \in Nat /\ step[m] \in [Nat -> Nat]
      BY <2>2
    <3> QED BY <3>1
  <2> HIDE DEF last
  <2>4. \A n \in 0..m : n # m => n \in 0..(m - 1)
    OBVIOUS
  <2>5. f \in [0..m -> Nat] /\ f[m] = last /\ \A n \in 0..(m - 1) : f[n] = g[n]
    <3>1. \A n \in 0..m : (IF n = m THEN last ELSE g[n]) \in Nat
      BY <2>3, <2>4
    <3>2. \A n \in 0..(m - 1) : n \in 0..m /\ n # m
      OBVIOUS
    <3>3. f \in [0..m -> Nat]
      BY <3>1
    <3>4. f[m] = last
      BY <2>2
    <3>5. \A n \in 0..(m - 1) : f[n] = g[n]
      BY <3>2
    <3> QED BY <3>3, <3>4, <3>5
  <2> HIDE DEF f
  <2>6. f[0] = 0
    BY <2>1, <2>2, <2>5
  <2>7. ASSUME NEW n \in 1..m PROVE f[n] = step[n][f[n - 1]]
    <3>1. n - 1 \in 0..(m - 1)
      OBVIOUS
    <3>2. f[n - 1] = g[n - 1]
      BY <2>5, <3>1
    <3>3. CASE n = m
      BY <2>5, <3>2, <3>3 DEF last
    <3>4. CASE n # m
      <4>1. n \in 1..(m - 1) /\ n \in 0..(m - 1)
        BY <3>4
      <4>2. f[n] = g[n] /\ g[n] = step[n][g[n - 1]]
        BY <2>1, <2>5, <4>1
      <4> QED BY <3>2, <4>2
    <3> QED BY <3>3, <3>4
  <2>8. Good(m)
    BY <2>5, <2>6, <2>7
  <2> HIDE DEF Good
  <2> QED BY <2>8
<1>3. N \in T
  <2>1. \A m \in 1..N : m - 1 \in T => m \in T
    BY <1>2
  <2>2. N \in 0..N
    OBVIOUS
  <2> HIDE DEF T
  <2> QED BY <1>1, <2>1, <2>2, UpTo
<1> QED BY <1>3

-----------------------------------------------------------------------------
(* Bytes.                                                                  *)

LEMMA WidthFacts == Width \in [Letters -> Nat \ {0}]
BY DEF Width, Letters

\* The recursion equation of BytesTo.
LEMMA BytesUnfold ==
    ASSUME NEW s \in Seq(Letters)
    PROVE  /\ BytesTo(s) \in [0..Len(s) -> Nat]
           /\ BytesTo(s)[0] = 0
           /\ \A n \in 1..Len(s) : BytesTo(s)[n] = BytesTo(s)[n - 1] + Width[s[n]]
<1> DEFINE N == Len(s)
           step == [n \in 1..N |-> [x \in Nat |-> x + Width[s[n]]]]
<1>1. N \in Nat /\ \A n \in 1..N : s[n] \in Letters /\ Width[s[n]] \in Nat
  BY WidthFacts
<1>2. step \in [1..N -> [Nat -> Nat]]
  BY <1>1
<1>3. PICK g \in [0..N -> Nat] : g[0] = 0 /\ \A n \in 1..N : g[n] = step[n][g[n - 1]]
  <2>1. N \in Nat
    BY <1>1
  <2> HIDE DEF step, N
  <2> QED BY <1>2, <2>1, Solvable
<1>4. ASSUME NEW n \in 1..N PROVE g[n] = g[n - 1] + Width[s[n]]
  <2>1. n - 1 \in 0..N /\ g[n - 1] \in Nat
    BY <1>1
  <2>2. step[n][g[n - 1]] = g[n - 1] + Width[s[n]]
    BY <2>1
  <2> QED BY <1>3, <2>2
<1>5. g = [n \in 0..N |-> IF n = 0 THEN 0 ELSE g[n - 1] + Width[s[n]]]
  BY <1>1, <1>3, <1>4
<1>6. BytesTo(s) = [n \in 0..N |-> IF n = 0 THEN 0 ELSE BytesTo(s)[n - 1] + Width[s[n]]]
  BY <1>5, Zenon DEF BytesTo
<1> DEFINE b == BytesTo(s)
<1> HIDE DEF b
<1>7. /\ b[0] = 0 /\ \A n \in 1..N : n \in 0..N /\ b[n] = b[n - 1] + Width[s[n]]
  BY <1>1, <1>6 DEF b
<1>8. \A n \in 0..N : b[n] \in Nat
  <2> DEFINE T == {n \in 0..N : b[n] \in Nat}
  <2>1. 0 \in T
    BY <1>1, <1>7
  <2>2. \A n \in 1..N : n - 1 \in T => n \in T
    BY <1>1, <1>7
  <2>3. \A n \in 0..N : n \in T
    <3> HIDE DEF T, N
    <3> QED BY <1>1, <2>1, <2>2, UpTo
  <2> QED BY <2>3
<1>9. b \in [0..N -> Nat]
  BY <1>6, <1>8 DEF b
<1> QED BY <1>7, <1>9 DEF b

\* Every character has a byte or more.
LEMMA BytesStep ==
    ASSUME NEW s \in Seq(Letters), NEW n \in 1..Len(s)
    PROVE  /\ BytesTo(s)[n - 1] \in Nat /\ BytesTo(s)[n] \in Nat
           /\ BytesTo(s)[n - 1] < BytesTo(s)[n]
<1>1. n \in 0..Len(s) /\ n - 1 \in 0..Len(s) /\ s[n] \in Letters
  OBVIOUS
<1>2. Width[s[n]] \in Nat \ {0}
  BY <1>1, WidthFacts
<1>3. BytesTo(s)[n - 1] \in Nat /\ BytesTo(s)[n] = BytesTo(s)[n - 1] + Width[s[n]]
  BY <1>1, BytesUnfold
<1> QED BY <1>2, <1>3

\* A longer prefix of a text takes more bytes.
LEMMA BytesAscend ==
    ASSUME NEW s \in Seq(Letters), NEW m \in 0..Len(s), NEW n \in 0..Len(s), m < n
    PROVE  BytesTo(s)[m] < BytesTo(s)[n]
<1> DEFINE N == Len(s)
           b == BytesTo(s)
           T == {k \in 0..N : m < k => b[m] < b[k]}
<1>1. N \in Nat /\ b \in [0..N -> Nat]
  BY BytesUnfold
<1>2. \A k \in 1..N : b[k - 1] \in Nat /\ b[k] \in Nat /\ b[k - 1] < b[k]
  BY BytesStep
<1>3. m \in 0..N /\ b[m] \in Nat
  BY <1>1
<1> HIDE DEF N, b
<1>4. 0 \in T
  BY <1>1, <1>3
<1>5. ASSUME NEW k \in 1..N, k - 1 \in T PROVE k \in T
  <2>1. b[k - 1] \in Nat /\ b[k] \in Nat /\ b[k - 1] < b[k] /\ k \in 0..N
    BY <1>1, <1>2
  <2>2. CASE m = k - 1
    BY <1>3, <2>1, <2>2
  <2>3. CASE m # k - 1
    BY <1>1, <1>3, <1>5, <2>1, <2>3
  <2> QED BY <2>2, <2>3
<1>6. \A k \in 1..N : k - 1 \in T => k \in T
  BY <1>5
<1>7. \A k \in 0..N : k \in T
  <2> HIDE DEF T
  <2> QED BY <1>1, <1>4, <1>6, UpTo
<1> QED BY <1>7 DEF N, b

\* A text has at least as many bytes as characters.
LEMMA LenBelowBytes == ASSUME NEW s \in Seq(Letters) PROVE Len(s) <= Bytes(s) /\ Bytes(s) \in Nat
<1> DEFINE N == Len(s)
           b == BytesTo(s)
           T == {k \in 0..N : k <= b[k]}
<1>1. N \in Nat /\ b \in [0..N -> Nat] /\ b[0] = 0
  BY BytesUnfold
<1>2. \A k \in 1..N : b[k - 1] \in Nat /\ b[k] \in Nat /\ b[k - 1] < b[k]
  BY BytesStep
<1> HIDE DEF N, b
<1>3. 0 \in T
  BY <1>1
<1>4. \A k \in 1..N : k - 1 \in T => k \in T
  BY <1>1, <1>2
<1>5. \A k \in 0..N : k \in T
  <2> HIDE DEF T
  <2> QED BY <1>1, <1>3, <1>4, UpTo
<1>6. N \in 0..N
  BY <1>1
<1>7. N <= b[N] /\ b[N] \in Nat
  BY <1>1, <1>5, <1>6
<1> QED BY <1>7 DEF N, b, Bytes

\* The first k characters of a text have the bytes counted up to k.
LEMMA PrefixBytes ==
    ASSUME NEW s \in Seq(Letters), NEW k \in 0..Len(s)
    PROVE  /\ SubSeq(s, 1, k) \in Seq(Letters) /\ Len(SubSeq(s, 1, k)) = k
           /\ \A n \in 1..k : SubSeq(s, 1, k)[n] = s[n]
           /\ Bytes(SubSeq(s, 1, k)) = BytesTo(s)[k]
<1> DEFINE p == SubSeq(s, 1, k)
           b == BytesTo(s)
           c == BytesTo(p)
           T == {n \in 0..k : c[n] = b[n]}
<1>1. p \in Seq(Letters) /\ Len(p) = k /\ k \in Nat /\ \A n \in 1..k : p[n] = s[n]
  OBVIOUS
<1>2. b[0] = 0 /\ \A n \in 1..k : b[n] = b[n - 1] + Width[s[n]]
  BY BytesUnfold
<1>3. c[0] = 0 /\ \A n \in 1..k : c[n] = c[n - 1] + Width[p[n]]
  <2> HIDE DEF p
  <2> QED BY <1>1, BytesUnfold
<1> HIDE DEF p, b, c
<1>4. 0 \in T
  BY <1>1, <1>2, <1>3
<1>5. ASSUME NEW n \in 1..k, n - 1 \in T PROVE n \in T
  <2>1. n \in 0..k /\ p[n] = s[n] /\ c[n - 1] = b[n - 1]
    BY <1>1, <1>5
  <2>2. b[n] = b[n - 1] + Width[s[n]] /\ c[n] = c[n - 1] + Width[p[n]]
    BY <1>2, <1>3
  <2> QED BY <2>1, <2>2
<1>6. \A n \in 0..k : n \in T
  <2>1. \A n \in 1..k : n - 1 \in T => n \in T
    BY <1>5
  <2> HIDE DEF T
  <2> QED BY <1>1, <1>4, <2>1, UpTo
<1>7. c[k] = b[k]
  BY <1>1, <1>6
<1>8. Bytes(p) = b[k]
  BY <1>1, <1>7 DEF Bytes, c
<1> QED BY <1>1, <1>8 DEF p, b

-----------------------------------------------------------------------------
(* truncate_utf8.                                                          *)

\* The loop ends on a character boundary, and on the last one up to max.
LEMMA MoveBackFacts ==
    ASSUME NEW s \in Seq(Letters), NEW max \in Nat
    PROVE  /\ MoveBack(s, max)[max] \in Boundaries(s) /\ MoveBack(s, max)[max] <= max
           /\ \A x \in Boundaries(s) : x <= max => x <= MoveBack(s, max)[max]
<1> DEFINE B == Boundaries(s)
           step == [e \in 1..max |-> [x \in Nat |-> IF e \notin B THEN x ELSE e]]
           back == MoveBack(s, max)
<1>1. 0 \in B /\ B \subseteq Nat
  <2>1. BytesTo(s) \in [0..Len(s) -> Nat] /\ BytesTo(s)[0] = 0 /\ 0 \in 0..Len(s)
    BY BytesUnfold
  <2> QED BY <2>1 DEF Boundaries
<1> HIDE DEF B
<1>2. step \in [1..max -> [Nat -> Nat]]
  OBVIOUS
<1>3. PICK g \in [0..max -> Nat] : g[0] = 0 /\ \A e \in 1..max : g[e] = step[e][g[e - 1]]
  <2> HIDE DEF step
  <2> QED BY <1>2, Solvable
<1>4. ASSUME NEW e \in 1..max PROVE g[e] = IF e \notin B THEN g[e - 1] ELSE e
  <2>1. e - 1 \in 0..max /\ g[e - 1] \in Nat
    OBVIOUS
  <2>2. step[e][g[e - 1]] = IF e \notin B THEN g[e - 1] ELSE e
    BY <2>1
  <2> QED BY <1>3, <2>2
<1>5. g = [e \in 0..max |-> IF e > 0 /\ e \notin B THEN g[e - 1] ELSE e]
  BY <1>3, <1>4
<1>6. back = [e \in 0..max |-> IF e > 0 /\ e \notin B THEN back[e - 1] ELSE e]
  BY <1>5, Zenon DEF MoveBack, B
<1> HIDE DEF back
<1>7. back[0] = 0 /\ \A e \in 1..max : back[e] = IF e \notin B THEN back[e - 1] ELSE e
  BY <1>6
<1> DEFINE Found(e) == back[e] \in B /\ back[e] <= e /\ \A x \in B : x <= e => x <= back[e]
           T == {e \in 0..max : Found(e)}
<1>8. 0 \in T
  BY <1>1, <1>7
<1>9. ASSUME NEW e \in 1..max, e - 1 \in T PROVE e \in T
  <2>1. CASE e \in B
    BY <1>1, <1>7, <2>1
  <2>2. CASE e \notin B
    <3>1. back[e] = back[e - 1] /\ back[e - 1] \in Nat
      BY <1>1, <1>7, <1>9, <2>2
    <3>2. ASSUME NEW x \in B, x <= e PROVE x <= back[e]
      <4>1. x \in Nat /\ x <= e - 1
        BY <1>1, <2>2, <3>2
      <4> QED BY <1>9, <3>1, <4>1
    <3> QED BY <1>9, <3>1, <3>2
  <2> QED BY <2>1, <2>2
<1>10. \A e \in 1..max : e - 1 \in T => e \in T
  BY <1>9
<1>11. \A e \in 0..max : e \in T
  <2> HIDE DEF T
  <2> QED BY <1>8, <1>10, UpTo
<1>12. Found(max)
  <2>1. max \in 0..max
    OBVIOUS
  <2> QED BY <1>11, <2>1
<1> QED BY <1>12 DEF back, B

\* truncate_utf8 keeps a prefix that fits, and the next character would not.
LEMMA TruncateFacts ==
    ASSUME NEW s \in Seq(Letters), NEW max \in Nat
    PROVE  \E k \in 0..Len(s) :
             /\ truncate_utf8(s, max) = SubSeq(s, 1, k) /\ BytesTo(s)[k] <= max
             /\ k < Len(s) => BytesTo(s)[k + 1] > max
<1> DEFINE b == BytesTo(s)
           N == Len(s)
<1>1. N \in Nat /\ b \in [0..N -> Nat]
  BY BytesUnfold
<1>2. CASE max >= Bytes(s)
  <2>1. truncate_utf8(s, max) = SubSeq(s, 1, N)
    BY <1>2 DEF truncate_utf8
  <2>2. b[N] <= max /\ N \in 0..N
    BY <1>1, <1>2 DEF Bytes
  <2> QED BY <2>1, <2>2
<1>3. CASE ~(max >= Bytes(s))
  <2> DEFINE end == MoveBack(s, max)[max]
             k == CHOOSE n \in 0..N : b[n] = end
  <2>1. /\ end \in Boundaries(s) /\ end <= max
        /\ \A x \in Boundaries(s) : x <= max => x <= end
    BY MoveBackFacts
  <2>2. truncate_utf8(s, max) = SubSeq(s, 1, k)
    BY <1>3 DEF truncate_utf8, PrefixOfBytes
  <2> HIDE DEF end
  <2>3. \E n \in 0..N : b[n] = end
    BY <2>1 DEF Boundaries
  <2>4. k \in 0..N /\ b[k] = end
    BY <2>3
  <2> HIDE DEF k
  <2>5. ASSUME k < N PROVE b[k + 1] > max
    <3>1. k + 1 \in 0..N /\ k < k + 1
      BY <1>1, <2>4, <2>5
    <3>2. b[k] < b[k + 1]
      BY <2>4, <3>1, BytesAscend
    <3>3. b[k + 1] \in Boundaries(s) /\ b[k + 1] \in Nat /\ b[k] \in Nat
      BY <1>1, <2>4, <3>1 DEF Boundaries
    <3> QED BY <2>1, <2>4, <3>2, <3>3
  <2>6. b[k] <= max
    BY <2>1, <2>4
  <2> QED BY <2>2, <2>4, <2>5, <2>6
<1> QED BY <1>2, <1>3

-----------------------------------------------------------------------------
(* What is stored.                                                         *)

\* A cleaned text holds no NUL.
LEMMA SanitizeFacts ==
    ASSUME NEW r \in Seq(Letters)
    PROVE  /\ sanitize_reason(r) \in Seq(Letters)
           /\ \A i \in 1..Len(sanitize_reason(r)) : sanitize_reason(r)[i] # "nul"
<1>1. /\ sanitize_reason(r) \in Seq(Letters) /\ Len(sanitize_reason(r)) = Len(r)
      /\ \A i \in 1..Len(r) : sanitize_reason(r)[i] =
           IF r[i] \in Controls THEN "subst" ELSE r[i]
  BY DEF sanitize_reason, Letters
<1> QED BY <1>1 DEF Controls

\* last_error fits its column, begins the cleaned reason, and could not be
\* longer.
LEMMA LastErrorFacts ==
    ASSUME NEW r \in Seq(Letters)
    PROVE  /\ LastError(r) \in Seq(Letters) /\ "nul" \notin Range(LastError(r))
           /\ Bytes(LastError(r)) \in Nat /\ Bytes(LastError(r)) <= MAX_LAST_ERROR_BYTES
           /\ Len(LastError(r)) <= MAX_LAST_ERROR_BYTES
           /\ IsPrefix(LastError(r), sanitize_reason(r))
           /\ LastError(r) # sanitize_reason(r) =>
                Bytes(SubSeq(sanitize_reason(r), 1, Len(LastError(r)) + 1)) > MAX_LAST_ERROR_BYTES
<1> DEFINE c == sanitize_reason(r)
           max == MAX_LAST_ERROR_BYTES
           e == LastError(r)
<1>1. c \in Seq(Letters) /\ \A i \in 1..Len(c) : c[i] # "nul"
  BY SanitizeFacts
<1>2. max \in Nat
  BY ErrorTextAssumption
<1> HIDE DEF c, max
<1>3. PICK k \in 0..Len(c) : /\ truncate_utf8(c, max) = SubSeq(c, 1, k) /\ BytesTo(c)[k] <= max
                             /\ k < Len(c) => BytesTo(c)[k + 1] > max
  BY <1>1, <1>2, TruncateFacts
<1>4. e = SubSeq(c, 1, k)
  BY <1>3 DEF LastError, c, max
<1> HIDE DEF e
<1>5. /\ e \in Seq(Letters) /\ Len(e) = k /\ Bytes(e) = BytesTo(c)[k]
      /\ \A n \in 1..k : e[n] = c[n]
  BY <1>1, <1>4, PrefixBytes
<1>6. Bytes(e) <= max /\ Bytes(e) \in Nat /\ Len(e) <= max
  BY <1>2, <1>3, <1>5, LenBelowBytes
<1>7. "nul" \notin Range(e)
  BY <1>1, <1>5 DEF Range
<1>8. IsPrefix(e, c)
  <2>1. SubSeq(e, 1, Len(e)) = e
    BY <1>5
  <2> QED BY <1>1, <1>4, <1>5, <2>1 DEF IsPrefix
<1>9. ASSUME e # c PROVE Bytes(SubSeq(c, 1, Len(e) + 1)) > max
  <2>1. SubSeq(c, 1, Len(c)) = c
    BY <1>1
  <2>2. k # Len(c)
    BY <1>4, <1>9, <2>1
  <2>3. Len(c) \in Nat
    BY <1>1
  <2>4. k < Len(c) /\ k + 1 \in 0..Len(c)
    BY <2>2, <2>3
  <2>5. Bytes(SubSeq(c, 1, k + 1)) = BytesTo(c)[k + 1]
    BY <1>1, <2>4, PrefixBytes
  <2> QED BY <1>3, <1>5, <2>4, <2>5
<1> QED BY <1>5, <1>6, <1>7, <1>8, <1>9 DEF e, c, max

\* The CHECK of the audit row refuses no reason.
LEMMA NotRefused ==
    ASSUME NEW r \in Seq(Letters)
    PROVE  Refusals(LastError(r), MAX_LAST_ERROR_BYTES) = {}
<1>1. /\ "nul" \notin Range(LastError(r)) /\ Bytes(LastError(r)) \in Nat
      /\ Bytes(LastError(r)) <= MAX_LAST_ERROR_BYTES
  BY LastErrorFacts
<1>2. ~(Bytes(LastError(r)) > MAX_LAST_ERROR_BYTES)
  BY <1>1, ErrorTextAssumption
<1> QED BY <1>1, <1>2 DEF Refusals

\* What pgwq is given holds no NUL.
LEMMA PgwqReasonFacts ==
    ASSUME NEW r \in Seq(Letters), NEW error
    PROVE  PgwqReason(error, r) \in Seq(Letters) /\ "nul" \notin Range(PgwqReason(error, r))
<1>1. LastError(r) \in Seq(Letters) /\ "nul" \notin Range(LastError(r))
  BY LastErrorFacts
<1> DEFINE e == LastError(r)
           p == <<"prefix">> \o e
<1> HIDE DEF e
<1>2. /\ p \in Seq(Letters) /\ Len(p) = Len(e) + 1
      /\ p[1] = "prefix" /\ \A i \in 2..Len(p) : p[i] = e[i - 1]
  BY <1>1 DEF e, Letters
<1>3. \A i \in 1..Len(e) : e[i] # "nul"
  BY <1>1 DEF e, Range
<1> HIDE DEF p
<1>4. ASSUME NEW i \in 1..Len(p) PROVE p[i] # "nul"
  <2>1. Len(e) \in Nat
    BY <1>1 DEF e
  <2>2. i = 1 \/ (i \in 2..Len(p) /\ i - 1 \in 1..Len(e))
    BY <1>2, <2>1
  <2> QED BY <1>2, <1>3, <2>2
<1>5. "nul" \notin Range(p)
  BY <1>2, <1>4 DEF Range
<1> QED BY <1>1, <1>2, <1>5 DEF PgwqReason, p, e

\* pgwq's cap leaves a text of the audit row alone, and takes at most the
\* prefix's length off a skip.
LEMMA CapFacts ==
    ASSUME NEW r \in Seq(Letters), NEW error
    PROVE  /\ PgwqCap(PgwqReason(error, r)) \in Seq(Letters)
           /\ error # "skip" => PgwqCap(PgwqReason(error, r)) = LastError(r)
           /\ error = "skip" =>
                /\ IsPrefix(PgwqCap(PgwqReason(error, r)), <<"prefix">> \o LastError(r))
                /\ Len(PgwqCap(PgwqReason(error, r))) >= Len(LastError(r))
<1> DEFINE e == LastError(r)
           max == MAX_LAST_ERROR_BYTES
           p == PgwqReason(error, r)
           k == Min({Len(p), max})
<1>1. e \in Seq(Letters) /\ Len(e) <= max /\ max \in Nat
  BY LastErrorFacts, ErrorTextAssumption
<1>2. p \in Seq(Letters)
  BY PgwqReasonFacts
<1>3. p = IF error = "skip" THEN <<"prefix">> \o e ELSE e
  BY DEF PgwqReason
<1>4. PgwqCap(p) = SubSeq(p, 1, k)
  BY DEF PgwqCap
<1> HIDE DEF p, e, max
<1>5. k = IF Len(p) <= max THEN Len(p) ELSE max
  BY <1>1, <1>2 DEF Min
<1> HIDE DEF k
<1>6. k \in 0..Len(p)
  BY <1>1, <1>2, <1>5
<1>7. SubSeq(p, 1, k) \in Seq(Letters) /\ Len(SubSeq(p, 1, k)) = k
  BY <1>2, <1>6
<1>8. CASE error # "skip"
  <2>1. p = e /\ k = Len(p)
    BY <1>1, <1>3, <1>5, <1>8
  <2>2. SubSeq(p, 1, k) = e
    BY <1>1, <2>1
  <2> QED BY <1>4, <1>7, <1>8, <2>2 DEF p, e
<1>9. CASE error = "skip"
  <2>1. p = <<"prefix">> \o e /\ Len(p) = Len(e) + 1
    BY <1>1, <1>3, <1>9
  <2>2. k >= Len(e)
    BY <1>1, <1>5, <2>1
  <2>3. IsPrefix(SubSeq(p, 1, k), p)
    <3>1. SubSeq(SubSeq(p, 1, k), 1, k) = SubSeq(p, 1, k)
      BY <1>7
    <3> QED BY <1>2, <1>6, <1>7, <3>1 DEF IsPrefix
  <2> QED BY <1>4, <1>7, <1>9, <2>1, <2>2, <2>3 DEF p, e
<1> QED BY <1>8, <1>9

-----------------------------------------------------------------------------
(* The invariant.                                                          *)

RowType == [status : Failed \cup {"absent", "queued", "running"}, last_error : Seq(Letters)]
JobType == [status : {"absent", "queued", "leased", "done", "dead"}, attempts : Nat,
            last_error : Seq(Letters)]

TextType ==
    /\ row \in RowType /\ job \in JobType
    /\ call.reason \in Seq(Letters)
    /\ pc \in {"idle", "handler", "mark", "report"}

\* The job and the task are in step: it holds the lease, and until it has
\* marked and reported, neither table shows its call.
InStep ==
    /\ told = "none" => job.status = "absent" /\ ~shown
    /\ pc # "idle" => job.status = "leased" /\ ~heard
    /\ pc \in {"handler", "mark"} => ~shown
    /\ pc = "mark" => call.error \in {"retry", "skip", "abort"}

\* What the row and the job show of the last call.
TextsShown ==
    /\ shown => /\ row.status \in Failed /\ row.last_error = LastError(call.reason)
                /\ row.status = "skipped" <=> call.error = "skip"
    /\ heard => job.last_error = PgwqCap(PgwqReason(call.error, call.reason))

\* Headers are kept of a dispatch that failed on them only.
HeadersKept == HeadersGap /\ (told = "none" => headers = NoHeaders)

TextInv == TextType /\ InStep /\ TextsShown /\ HeadersKept

\* The texts a call is shown with do not change while it does not.
LEMMA CallTexts ==
    ASSUME UNCHANGED call
    PROVE  /\ LastError(call.reason)' = LastError(call.reason)
           /\ PgwqCap(PgwqReason(call.error, call.reason))'
                = PgwqCap(PgwqReason(call.error, call.reason))
BY DEF LastError, PgwqCap, PgwqReason

LEMMA InitText == Init => TextInv
<1> SUFFICES ASSUME Init PROVE TextInv
  OBVIOUS
<1> USE DEF Init, NoText, NoCall
<1>1. TextType
  BY DEF TextType, RowType, JobType
<1>2. InStep /\ TextsShown /\ HeadersKept
  BY DEF InStep, TextsShown, HeadersKept, HeadersGap
<1> QED BY <1>1, <1>2 DEF TextInv

\* The reasons a handler or a panic can give.
LEMMA ReasonsAreTexts ==
    ASSUME NEW r \in Reasons PROVE r \in Seq(Letters) /\ PanicReason(r) \in Seq(Letters)
<1>1. r \in Seq(Letters)
  <2>1. PICK n \in 0..MaxChars : r \in [1..n -> Chars]
    BY DEF Reasons
  <2>2. n \in Nat
    BY ErrorTextAssumption
  <2>3. r \in [1..n -> Letters]
    BY <2>1 DEF Chars, Letters
  <2> QED BY <2>2, <2>3
<1>2. sanitize_reason(r) \in Seq(Letters)
  BY <1>1, SanitizeFacts
<1>3. <<"prefix">> \in Seq(Letters)
  BY DEF Letters
<1>4. PanicReason(r) \in Seq(Letters)
  BY <1>2, <1>3 DEF PanicReason
<1> QED BY <1>1, <1>4

\* The typed check is the stricter of the two, and what it lets through the
\* CHECK can only refuse for the blanks and numbers jsonb prints.
LEMMA DispatchText == ASSUME TextInv, NEW h \in HeaderMap, Dispatch(h) PROVE TextInv'
<1>1. told = "none" /\ job.status = "absent" /\ pc = "idle" /\ headers = NoHeaders
  BY DEF Dispatch, TextInv, InStep, HeadersKept
<1>2. told' \in {"HeadersTooLarge", "Constraint", "Dispatched"} /\ UNCHANGED <<call, pc, shown, heard>>
  BY DEF Dispatch, DispatchErrorOf, Sqlstate, is_sqlx_deterministic
<1>3. CASE told' = "Dispatched"
  <2>1. /\ row' = [row EXCEPT !.status = "queued"] /\ job' = [job EXCEPT !.status = "queued"]
        /\ headers' = headers
    BY <1>3 DEF Dispatch
  <2>2. TextType' /\ job'.last_error = job.last_error
    BY <1>2, <2>1 DEF TextInv, TextType, RowType, JobType
  <2>3. ~shown
    BY <1>1 DEF TextInv, InStep
  <2>4. InStep' /\ TextsShown'
    BY <1>1, <1>2, <1>3, <2>2, <2>3, CallTexts DEF TextInv, InStep, TextsShown
  <2>5. HeadersKept'
    BY <1>1, <1>3, <2>1 DEF HeadersKept, HeadersGap
  <2> QED BY <2>2, <2>4, <2>5 DEF TextInv
<1>4. CASE told' # "Dispatched"
  <2>1. headers' = h /\ UNCHANGED <<row, job>>
    BY <1>4 DEF Dispatch
  <2>2. TextType' /\ InStep' /\ TextsShown'
    BY <1>1, <1>2, <2>1, CallTexts DEF TextInv, TextType, InStep, TextsShown
  <2>3. /\ h.members \in Nat /\ h.content \in Nat /\ h.growth \in Nat
        /\ MAX_HEADERS_BYTES \in Nat
    BY ErrorTextAssumption DEF HeaderMap
  <2>4. Compact(h) \in Nat /\ JsonbText(h) \in Nat /\ Compact(h) <= JsonbText(h)
    BY <2>3 DEF Compact, JsonbText
  <2>5. /\ told' = "HeadersTooLarge" <=> Compact(h) > MAX_HEADERS_BYTES
        /\ told' # "HeadersTooLarge" => JsonbText(h) > MAX_HEADERS_BYTES
    BY <1>4 DEF Dispatch, HeadersTooLarge, DispatchErrorOf, Sqlstate, is_sqlx_deterministic
  <2>6. JsonbText(h) > MAX_HEADERS_BYTES
    BY <2>3, <2>4, <2>5
  <2>7. Compact(h) <= MAX_HEADERS_BYTES <=> told' # "HeadersTooLarge"
    BY <2>3, <2>4, <2>5
  <2>8. told' # "none" /\ told' # "Transient"
    BY <1>2
  <2>9. HeadersKept'
    BY <2>1, <2>6, <2>7, <2>8 DEF HeadersKept, HeadersGap, IsRetriable, JsonbText, Compact
  <2> QED BY <2>2, <2>9 DEF TextInv
<1> QED BY <1>3, <1>4

LEMMA DispatchFailsText ==
    ASSUME TextInv, NEW e \in SqlxErrors, DispatchFails(e) PROVE TextInv'
<1>1. told = "none" /\ headers = NoHeaders /\ job.status = "absent"
  BY DEF DispatchFails, TextInv, HeadersKept, InStep
<1>2. told' # "none" /\ UNCHANGED <<headers, texts>>
  BY DEF DispatchFails, DispatchErrorOf
<1>3. TextType' /\ InStep' /\ TextsShown'
  BY <1>1, <1>2, CallTexts DEF TextInv, TextType, InStep, TextsShown, texts
<1>4. HeadersKept'
  BY <1>1, <1>2 DEF HeadersKept, HeadersGap
<1> QED BY <1>3, <1>4 DEF TextInv

\* The worker's steps leave dispatch's answer alone.
LEMMA HeadersSame == ASSUME TextInv, UNCHANGED <<told, headers>> PROVE HeadersKept'
BY DEF TextInv, HeadersKept, HeadersGap

LEMMA JobStatusFacts ==
    ASSUME NEW verdict, NEW n PROVE JobStatus(verdict, n) \in {"queued", "dead"}
BY DEF JobStatus

LEMMA RedactedFacts ==
    Redacted \in Seq(Letters) /\ "nul" \notin Range(Redacted) /\ PgwqCap(Redacted) \in Seq(Letters)
<1>1. Redacted = <<"a">> /\ Len(<<"a">>) = 1 /\ <<"a">> \in Seq(Letters)
  BY DEF Redacted, Letters
<1>2. "nul" \notin Range(Redacted)
  BY DEF Redacted, Range
<1>3. Min({1, MAX_LAST_ERROR_BYTES}) = 1
  BY ErrorTextAssumption DEF Min
<1>4. PgwqCap(<<"a">>) = SubSeq(<<"a">>, 1, 1)
  BY <1>1, <1>3 DEF PgwqCap
<1>5. ASSUME NEW s \in Seq(Letters), Len(s) = 1 PROVE SubSeq(s, 1, 1) \in Seq(Letters)
  BY <1>5
<1> QED BY <1>1, <1>2, <1>4, <1>5

\* A claim that can happen: the job exists, and no task is running.
LEMMA CanClaimFacts ==
    ASSUME TextInv, CanClaim
    PROVE  pc = "idle" /\ told # "none" /\ job \in JobType /\ job.attempts + 1 \in Nat
BY DEF TextInv, TextType, InStep, CanClaim, JobType

LEMMA ClaimText == ASSUME TextInv, Claim PROVE TextInv'
<1>1. /\ CanClaim /\ pc' = "handler" /\ call' = NoCall
      /\ job' = [job EXCEPT !.status = "leased", !.attempts = job.attempts + 1]
      /\ row' = [status |-> "running", last_error |-> <<>>]
      /\ shown' = FALSE /\ heard' = FALSE /\ UNCHANGED <<told, headers>>
  BY DEF Claim, Claimed, NoText
<1>2. told # "none" /\ job \in JobType /\ job.attempts + 1 \in Nat
  BY <1>1, CanClaimFacts
<1>3. job' \in JobType /\ job'.status = "leased"
  BY <1>1, <1>2 DEF JobType
<1>4. row' \in RowType /\ call'.reason \in Seq(Letters)
  BY <1>1 DEF RowType, NoCall, NoText
<1>5. TextType' /\ InStep' /\ TextsShown'
  BY <1>1, <1>2, <1>3, <1>4 DEF TextType, InStep, TextsShown
<1> QED BY <1>1, <1>5, HeadersSame DEF TextInv

LEMMA ClaimSettledText == ASSUME TextInv, ClaimSettled PROVE TextInv'
<1>1. /\ CanClaim /\ job' = [job EXCEPT !.status = "done", !.attempts = job.attempts + 1]
      /\ UNCHANGED <<told, headers, row, call, pc, shown, heard>>
  BY DEF ClaimSettled
<1>2. pc = "idle" /\ told # "none" /\ job \in JobType /\ job.attempts + 1 \in Nat
  BY <1>1, CanClaimFacts
<1>3. job' \in JobType /\ job'.last_error = job.last_error
  BY <1>1, <1>2 DEF JobType
<1>4. TextType' /\ InStep' /\ TextsShown'
  BY <1>1, <1>2, <1>3, CallTexts DEF TextInv, TextType, InStep, TextsShown
<1> QED BY <1>1, <1>4, HeadersSame DEF TextInv

LEMMA ClaimFailsText == ASSUME TextInv, NEW e \in SqlxErrors, ClaimFails(e) PROVE TextInv'
<1>1. /\ CanClaim /\ heard' = FALSE /\ UNCHANGED <<told, headers, call, pc>>
      /\ job' = [status |-> JobStatus(MapSql(e), job.attempts + 1),
                 attempts |-> job.attempts + 1, last_error |-> Redacted]
      /\ \/ UNCHANGED <<row, shown>>
         \/ row' = [status |-> "running", last_error |-> <<>>] /\ shown' = FALSE
  BY DEF ClaimFails, Claimed, NoText
<1>2. pc = "idle" /\ told # "none" /\ job.attempts + 1 \in Nat
  BY <1>1, CanClaimFacts
<1>3. job' \in JobType
  BY <1>1, <1>2, RedactedFacts, JobStatusFacts DEF JobType
<1>4. CASE UNCHANGED <<row, shown>>
  BY <1>1, <1>2, <1>3, <1>4, CallTexts, HeadersSame DEF TextInv, TextType, InStep, TextsShown
<1>5. CASE row' = [status |-> "running", last_error |-> <<>>] /\ shown' = FALSE
  <2>1. row' \in RowType
    BY <1>5 DEF RowType
  <2> QED BY <1>1, <1>2, <1>3, <1>5, <2>1, HeadersSame DEF TextInv, TextType, InStep, TextsShown
<1> QED BY <1>1, <1>4, <1>5

LEMMA HandlerFailsText ==
    ASSUME TextInv, NEW error \in {"retry", "skip", "abort"}, NEW r \in Seq(Letters),
           HandlerFails(error, r)
    PROVE  TextInv'
<1>1. /\ pc = "handler" /\ pc' = "mark" /\ call' = [error |-> error, reason |-> r]
      /\ UNCHANGED <<told, headers, row, job, shown, heard>>
  BY DEF HandlerFails
<1>2. ~shown /\ ~heard
  BY <1>1 DEF TextInv, InStep
<1>3. TextType' /\ InStep' /\ TextsShown'
  BY <1>1, <1>2 DEF TextInv, TextType, InStep, TextsShown
<1> QED BY <1>1, <1>3, HeadersSame DEF TextInv

\* The fenced UPDATE, whether or not its reply arrives.
LEMMA WriteMarkText ==
    ASSUME TextInv, pc = "mark", pc' = "report", WriteMark \/ UNCHANGED <<row, shown>>,
           UNCHANGED <<told, headers, job, call, heard>>
    PROVE  TextInv'
<1>1. call.reason \in Seq(Letters) /\ call.error \in {"retry", "skip", "abort"}
  BY DEF TextInv, TextType, InStep
<1>2. InStep'
  BY DEF TextInv, InStep
<1>3. CASE UNCHANGED <<row, shown>>
  BY <1>2, <1>3, CallTexts, HeadersSame DEF TextInv, TextType, TextsShown
<1>4. CASE row' = MarkedRow /\ shown' = TRUE
  <2> DEFINE status == MarkStatus(call.error, job.attempts)
  <2>1. status \in Failed /\ (status = "skipped" <=> call.error = "skip")
    BY <1>1 DEF MarkStatus, Failed, Terminal
  <2>2. LastError(call.reason) \in Seq(Letters)
    BY <1>1, LastErrorFacts
  <2> HIDE DEF status
  <2>3. row' = [status |-> status, last_error |-> LastError(call.reason)]
    BY <1>4 DEF MarkedRow, status
  <2>4. row' \in RowType /\ row'.status = status /\ row'.last_error = LastError(call.reason)
    BY <2>1, <2>2, <2>3 DEF RowType
  <2>5. TextType' /\ TextsShown'
    BY <1>4, <2>1, <2>4, CallTexts DEF TextInv, TextType, TextsShown
  <2> QED BY <1>2, <2>5, HeadersSame DEF TextInv
<1> QED BY <1>3, <1>4 DEF WriteMark

LEMMA ReportText == ASSUME TextInv, Report PROVE TextInv'
<1>1. pc = "report" /\ UNCHANGED <<told, headers, row, call, shown>>
  BY DEF Report
<1>2. call.reason \in Seq(Letters) /\ job.status = "leased" /\ told # "none" /\ job \in JobType
  BY <1>1 DEF TextInv, TextType, InStep
<1>3. JobText = IF marked = "ok" THEN PgwqReason(call.error, call.reason) ELSE Redacted
  BY DEF JobText
<1>4. "nul" \notin Range(JobText) /\ PgwqCap(JobText) \in Seq(Letters)
  <2>1. CASE marked = "ok"
    BY <1>2, <1>3, <2>1, PgwqReasonFacts, CapFacts
  <2>2. CASE marked # "ok"
    BY <1>3, <2>2, RedactedFacts
  <2> QED BY <2>1, <2>2
<1>5. /\ pc' = "idle" /\ heard' = (marked = "ok")
      /\ job' = [job EXCEPT !.last_error = PgwqCap(JobText),
                            !.status = JobStatus(Verdict, job.attempts)]
  BY <1>4 DEF Report
<1>6. job' \in JobType /\ job'.last_error = PgwqCap(JobText)
  BY <1>2, <1>4, <1>5, JobStatusFacts DEF JobType
<1>7. TextType' /\ InStep'
  BY <1>1, <1>2, <1>5, <1>6 DEF TextInv, TextType, InStep
<1>8. TextsShown'
  BY <1>1, <1>3, <1>5, <1>6, CallTexts DEF TextInv, TextsShown
<1> QED BY <1>1, <1>7, <1>8, HeadersSame DEF TextInv

LEMMA TaskLostText == ASSUME TextInv, TaskLost PROVE TextInv'
<1>1. /\ pc # "idle" /\ pc' = "idle" /\ UNCHANGED <<told, headers, row, job, call, shown, heard>>
  BY DEF TaskLost
<1>2. TextType' /\ InStep' /\ TextsShown'
  BY <1>1, CallTexts DEF TextInv, TextType, InStep, TextsShown
<1> QED BY <1>1, <1>2, HeadersSame DEF TextInv

LEMMA ClaimLostText == ASSUME TextInv, ClaimLost PROVE TextInv'
<1>1. /\ CanClaim /\ job' = [job EXCEPT !.status = "leased", !.attempts = job.attempts + 1]
      /\ UNCHANGED <<told, headers, row, call, pc, shown, heard>>
  BY DEF ClaimLost
<1>2. pc = "idle" /\ told # "none" /\ job \in JobType /\ job.attempts + 1 \in Nat
  BY <1>1, CanClaimFacts
<1>3. job' \in JobType /\ job'.last_error = job.last_error
  BY <1>1, <1>2 DEF JobType
<1>4. TextType' /\ InStep' /\ TextsShown'
  BY <1>1, <1>2, <1>3, CallTexts DEF TextInv, TextType, InStep, TextsShown
<1> QED BY <1>1, <1>4, HeadersSame DEF TextInv

LEMMA ReapText == ASSUME TextInv, Reap PROVE TextInv'
<1>1. /\ job.status = "leased" /\ pc = "idle" /\ job \in JobType
      /\ UNCHANGED <<told, headers, row, call, pc, shown, heard>>
  BY DEF Reap, TextInv, TextType
<1>2. PICK n \in {0, job.attempts} : job' = [job EXCEPT !.status = "queued", !.attempts = n]
  BY DEF Reap
<1>3. told # "none"
  BY <1>1 DEF TextInv, InStep
<1>4. n \in Nat
  BY <1>1, <1>2 DEF JobType
<1>5. job' \in JobType /\ job'.last_error = job.last_error
  BY <1>1, <1>2, <1>4 DEF JobType
<1>6. TextType' /\ InStep' /\ TextsShown'
  BY <1>1, <1>3, <1>5, CallTexts DEF TextInv, TextType, InStep, TextsShown
<1> QED BY <1>1, <1>6, HeadersSame DEF TextInv

LEMMA OvertakeText == ASSUME TextInv, NEW status \in Failed, Overtake(status) PROVE TextInv'
<1>1. /\ row' = [status |-> status, last_error |-> LateText] /\ shown' = FALSE
      /\ UNCHANGED <<told, headers, job, call, pc, heard>>
  BY DEF Overtake
<1>2. LateText \in Seq(Letters)
  <2>1. <<"a">> \in Seq(Letters)
    BY DEF Letters
  <2> QED BY <2>1, LastErrorFacts DEF LateText
<1>3. row' \in RowType
  BY <1>1, <1>2 DEF RowType
<1>4. TextType' /\ InStep' /\ TextsShown'
  BY <1>1, <1>3, CallTexts DEF TextInv, TextType, InStep, TextsShown
<1> QED BY <1>1, <1>4, HeadersSame DEF TextInv

LEMMA TextStep == TextInv /\ [Next]_vars => TextInv'
<1> SUFFICES ASSUME TextInv, [Next]_vars PROVE TextInv'
  OBVIOUS
<1>1. CASE UNCHANGED vars
  <2>1. UNCHANGED <<told, headers, row, job, call, pc, shown, heard>>
    BY <1>1 DEF vars, texts
  <2>2. TextType' /\ InStep' /\ TextsShown'
    BY <2>1, CallTexts DEF TextInv, TextType, InStep, TextsShown
  <2> QED BY <2>1, <2>2, HeadersSame DEF TextInv
<1>2. ASSUME NEW error \in {"retry", "skip", "abort"}, NEW r \in Reasons,
             HandlerFails(error, r) \/ HandlerFails(error, PanicReason(r))
      PROVE  TextInv'
  BY <1>2, ReasonsAreTexts, HandlerFailsText
<1>3. ASSUME Mark \/ \E e \in SqlxErrors : MarkFails(e) PROVE TextInv'
  BY <1>3, WriteMarkText DEF Mark, MarkFails
<1>4. CASE Claim \/ ClaimSettled \/ ClaimLost \/ TaskLost \/ Reap
  BY <1>4, ClaimText, ClaimSettledText, ClaimLostText, TaskLostText, ReapText
<1>5. CASE Next
  BY <1>2, <1>3, <1>4, <1>5, DispatchText, DispatchFailsText, ClaimFailsText, ReportText,
     OvertakeText
  DEF Next
<1> QED BY <1>1, <1>5

\* What the audit row and pgwq's job show of the last failed call, through lost
\* replies, crashes and late tasks, and a failed dispatch of its headers, in
\* every reachable state.
THEOREM TextInvHolds == Spec => []TextInv
<1>1. TextInv /\ [Next]_vars => TextInv'
  BY TextStep
<1> QED BY InitText, <1>1, PTL DEF Spec

-----------------------------------------------------------------------------
(* The theorems.                                                           *)

\* util.rs:8-11 for reasons of any length and any limit: what sanitize_reason
\* and truncate_utf8 make of a reason has no NUL and fits the column, so no
\* reason makes a mark fail or breaks pgwq's write.
THEOREM TextAcceptedHolds == Spec => []TextAccepted
<1>1. TextInv => TextAccepted
  BY NotRefused DEF TextInv, TextType, TextAccepted
<1> QED BY <1>1, TextInvHolds, PTL

\* util.rs:26-28, "the longest prefix of `s` whose byte length is `<= max`", of
\* the cleaned reason, in every row that shows a failure: truncate_utf8's loop
\* ends on the last character boundary up to the limit.
THEOREM LongestFitHolds == Spec => []LongestFit
<1>1. TextInv => LongestFit
  BY LastErrorFacts DEF TextInv, TextType, TextsShown, LongestFit
<1> QED BY <1>1, TextInvHolds, PTL

\* runtime.rs:420-480: the text of the JobError and the one bound to the mark
\* are cut alike, so of a call that both tables show, pgwq's cap, which counts
\* characters, takes nothing off but, of a skip, as much as "skipped: " is long.
THEOREM SameTextBothSidesHolds == Spec => []SameTextBothSides
<1>1. ASSUME TextInv, shown, heard
      PROVE  IF row.status = "skipped"
               THEN /\ IsPrefix(job.last_error, <<"prefix">> \o row.last_error)
                    /\ Len(job.last_error) >= Len(row.last_error)
               ELSE job.last_error = row.last_error
  <2>1. /\ row.last_error = LastError(call.reason) /\ (row.status = "skipped" <=> call.error = "skip")
        /\ job.last_error = PgwqCap(PgwqReason(call.error, call.reason))
        /\ call.reason \in Seq(Letters)
    BY <1>1 DEF TextInv, TextType, TextsShown
  <2> QED BY <2>1, CapFacts
<1>2. TextInv => SameTextBothSides
  BY <1>1 DEF SameTextBothSides
<1> QED BY <1>2, TextInvHolds, PTL

\* outbox.rs:197-212 for headers of any size: whatever the typed check refuses
\* the CHECK would refuse too, and the opaque error is left for the gap between
\* serde's form and jsonb's; no caller is told to try again.
THEOREM HeadersGapHolds == Spec => []HeadersGap
<1>1. TextInv => HeadersGap
  BY DEF TextInv, HeadersKept
<1> QED BY <1>1, TextInvHolds, PTL
=============================================================================
