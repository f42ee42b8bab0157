------------------------------ MODULE PatchProofs ------------------------------
(***************************************************************************)
(* What the patch scripts do to the files, for any texts the users may     *)
(* have written, any number of runs in any order, a write that fails and a *)
(* kill between any two writes.  Two parts: lemmas on sequences and on     *)
(* what each script makes of one text, which say that a text is plain text *)
(* around at most one block; and from them the invariant PatchInv and what *)
(* it says of blocks, user code, stopped and repeated runs and server.py.  *)
(***************************************************************************)
EXTENDS PatchScripts, SequenceTheorems, WellFoundedInduction, NaturalsInduction, TLAPS

(* The three files a run writes are files.                                 *)
LEMMA AllFilesAreFiles == AllFiles \in Seq(File)
BY DEF AllFiles, File

-----------------------------------------------------------------------------
(* What is kept of a text: Only splits over concatenation.                 *)

(* A set of numbers that is not empty has a least one.                     *)
LEMMA LeastNatural ==
  ASSUME NEW N \in SUBSET Nat, N # {}
  PROVE  \E n \in N : \A m \in N : n <= m
<1>1. PICK n \in N : \A m \in N : <<m, n>> \notin OpToRel(<, Nat)
  BY WFMin, NatLessThanWellFounded
<1>2. \A m \in N : ~(m < n)
  BY <1>1 DEF OpToRel
<1> QED BY <1>2

(* What is kept of the first n tokens of s, for every n up to k.           *)
Keeps(g, s, toks, k) ==
  g = [n \in 0..k |-> IF n = 0 THEN <<>>
                      ELSE IF s[n] \in toks THEN Append(g[n - 1], s[n])
                      ELSE g[n - 1]]

(* The recursion of Only has a solution.                                   *)
LEMMA KeepsExists ==
  ASSUME NEW s, NEW toks, NEW k \in Nat
  PROVE  \E g : Keeps(g, s, toks, k)
<1> DEFINE Lacking == {n \in Nat : ~\E g : Keeps(g, s, toks, n)}
<1> SUFFICES ASSUME Lacking # {} PROVE FALSE
  OBVIOUS
<1>1. PICK n \in Lacking : \A m \in Lacking : n <= m
  BY LeastNatural
<1>2. n # 0
  <2> DEFINE g == [i \in 0..0 |-> <<>>]
  <2>1. Keeps(g, s, toks, 0)
    BY DEF Keeps
  <2> QED BY <2>1
<1>3. n - 1 \in Nat /\ n - 1 \notin Lacking
  BY <1>1, <1>2
<1>4. PICK g : Keeps(g, s, toks, n - 1)
  BY <1>3
<1> DEFINE v == IF s[n] \in toks THEN Append(g[n - 1], s[n]) ELSE g[n - 1]
           h == [i \in 0..n |-> IF i = n THEN v ELSE g[i]]
<1>5. \A i \in 0..(n - 1) : h[i] = g[i] /\ i \in 0..n
  BY <1>3
<1>6. h[n] = v /\ h[n - 1] = g[n - 1]
  BY <1>3
<1>7. \A i \in 0..n : h[i] = IF i = 0 THEN <<>>
                             ELSE IF s[i] \in toks THEN Append(h[i - 1], s[i])
                             ELSE h[i - 1]
  <2> TAKE i \in 0..n
  <2> HIDE DEF v, h
  <2>1. CASE i = n
    BY <2>1, <1>2, <1>6 DEF v
  <2>2. CASE i # n
    <3>1. i \in 0..(n - 1) /\ (i # 0 => i - 1 \in 0..(n - 1))
      BY <2>2, <1>3
    <3>2. g[i] = IF i = 0 THEN <<>>
                 ELSE IF s[i] \in toks THEN Append(g[i - 1], s[i])
                 ELSE g[i - 1]
      BY <3>1, <1>4, Zenon DEF Keeps
    <3> QED BY <3>1, <3>2, <1>5
  <2> QED BY <2>1, <2>2
<1>8. Keeps(h, s, toks, n)
  <2> DEFINE r(i) == IF i = 0 THEN <<>>
                     ELSE IF s[i] \in toks THEN Append(h[i - 1], s[i])
                     ELSE h[i - 1]
  <2>1. h = [i \in 0..n |-> h[i]]
    OBVIOUS
  <2> HIDE DEF h
  <2>2. [i \in 0..n |-> h[i]] = [i \in 0..n |-> r(i)]
    <3>1. \A i \in 0..n : h[i] = r(i)
      BY <1>7, Zenon
    <3> HIDE DEF r
    <3> QED BY <3>1, Zenon
  <2> QED BY <2>1, <2>2, Zenon DEF Keeps
<1> QED BY <1>8

(* Where they begin alike, as much is kept of one text as of another.      *)
LEMMA KeepsAlike ==
  ASSUME NEW s, NEW t, NEW toks, NEW k \in Nat, NEW l \in Nat, k <= l,
         NEW g, NEW h, Keeps(g, s, toks, k), Keeps(h, t, toks, l),
         \A i \in 1..k : s[i] = t[i]
  PROVE  g[k] = h[k]
<1> DEFINE Apart == {n \in 0..k : g[n] # h[n]}
<1> SUFFICES ASSUME Apart # {} PROVE FALSE
  OBVIOUS
<1>1. PICK n \in Apart : \A m \in Apart : n <= m
  <2>1. Apart \in SUBSET Nat
    OBVIOUS
  <2> HIDE DEF Apart
  <2> QED BY <2>1, LeastNatural
<1>2. n \in 0..k /\ n \in 0..l /\ g[n] # h[n]
  BY <1>1
<1>3. g[n] = IF n = 0 THEN <<>>
             ELSE IF s[n] \in toks THEN Append(g[n - 1], s[n]) ELSE g[n - 1]
  BY <1>2, Zenon DEF Keeps
<1>4. h[n] = IF n = 0 THEN <<>>
             ELSE IF t[n] \in toks THEN Append(h[n - 1], t[n]) ELSE h[n - 1]
  BY <1>2, Zenon DEF Keeps
<1>5. n # 0
  BY <1>2, <1>3, <1>4
<1>6. n - 1 \in 0..k /\ n - 1 \notin Apart
  BY <1>1, <1>5
<1>7. g[n - 1] = h[n - 1] /\ s[n] = t[n]
  <2>1. n \in 1..k
    BY <1>2, <1>5
  <2>2. g[n - 1] = h[n - 1]
    BY <1>6
  <2> QED BY <2>1, <2>2
<1> QED BY <1>2, <1>3, <1>4, <1>5, <1>7

(* Only is what is kept of the whole.                                      *)
LEMMA OnlyIsKept ==
  ASSUME NEW T, NEW s \in Seq(T), NEW toks
  PROVE  \E g : Keeps(g, s, toks, Len(s)) /\ Only(s, toks) = g[Len(s)]
<1> DEFINE Is(g) == g = [n \in 0..Len(s) |-> IF n = 0 THEN <<>>
                      ELSE IF s[n] \in toks THEN Append(g[n - 1], s[n])
                      ELSE g[n - 1]]
<1>1. Len(s) \in Nat
  OBVIOUS
<1>2. \E g : Is(g)
  <2>1. PICK g : Keeps(g, s, toks, Len(s))
    BY <1>1, KeepsExists
  <2> QED BY <2>1, Zenon DEF Keeps
<1>3. Is(CHOOSE g : Is(g))
  BY <1>2, Zenon
<1>4. Only(s, toks) = (CHOOSE g : Is(g))[Len(s)]
  BY Zenon DEF Only
<1>5. Keeps(CHOOSE g : Is(g), s, toks, Len(s))
  BY <1>3, Zenon DEF Keeps
<1> QED BY <1>4, <1>5, Zenon

(* The n-th token of s is kept or not.                                     *)
KeptStep(g, s, toks, n) ==
  g[n] = IF s[n] \in toks THEN Append(g[n - 1], s[n]) ELSE g[n - 1]

(* Each solution is built from the one before it.                          *)
LEMMA KeepsNext ==
  ASSUME NEW s, NEW toks, NEW k \in Nat, NEW g, Keeps(g, s, toks, k)
  PROVE  /\ g[0] = <<>>
         /\ \A n \in 1..k : KeptStep(g, s, toks, n)
<1>1. \A n \in 0..k : g[n] = IF n = 0 THEN <<>>
                             ELSE IF s[n] \in toks THEN Append(g[n - 1], s[n])
                             ELSE g[n - 1]
  BY Zenon DEF Keeps
<1>2. 0 \in 0..k /\ \A n \in 1..k : n \in 0..k /\ n # 0
  OBVIOUS
<1> QED BY <1>1, <1>2, Zenon DEF KeptStep

(* What is kept is a text of tokens that were asked for.                   *)
LEMMA KeepsTypes ==
  ASSUME NEW T, NEW s \in Seq(T), NEW toks, NEW g, Keeps(g, s, toks, Len(s))
  PROVE  \A n \in 0..Len(s) : g[n] \in Seq(T \cap toks)
<1> DEFINE Odd == {n \in 0..Len(s) : g[n] \notin Seq(T \cap toks)}
<1> SUFFICES ASSUME Odd # {} PROVE FALSE
  OBVIOUS
<1>1. PICK n \in Odd : \A m \in Odd : n <= m
  <2>1. Odd \in SUBSET Nat
    OBVIOUS
  <2> HIDE DEF Odd
  <2> QED BY <2>1, LeastNatural
<1>2. /\ g[0] = <<>>
      /\ \A i \in 1..Len(s) : KeptStep(g, s, toks, i)
  <2>1. Len(s) \in Nat
    OBVIOUS
  <2> QED BY <2>1, KeepsNext, Zenon
<1>3. n \in 1..Len(s)
  <2>1. g[0] \in Seq(T \cap toks)
    BY <1>2
  <2>2. n \in 0..Len(s) /\ n # 0
    BY <1>1, <2>1
  <2> QED BY <2>2
<1>4. n - 1 \in 0..Len(s) /\ n - 1 \notin Odd
  BY <1>1, <1>3
<1>5. g[n - 1] \in Seq(T \cap toks) /\ s[n] \in T
  BY <1>3, <1>4
<1>6. g[n] \in Seq(T \cap toks)
  <2>1. KeptStep(g, s, toks, n)
    BY <1>2, <1>3
  <2> HIDE DEF Odd
  <2>2. CASE s[n] \in toks
    <3>1. g[n] = Append(g[n - 1], s[n]) /\ s[n] \in T \cap toks
      BY <2>1, <2>2, <1>5 DEF KeptStep
    <3> QED BY <3>1, <1>5
  <2>3. CASE s[n] \notin toks
    BY <2>1, <2>3, <1>5 DEF KeptStep
  <2> QED BY <2>2, <2>3
<1> QED BY <1>1, <1>6

(* What is kept of a text is made of its tokens that are kept.             *)
LEMMA OnlyTypes ==
  ASSUME NEW T, NEW s \in Seq(T), NEW toks
  PROVE  Only(s, toks) \in Seq(T \cap toks)
<1>1. PICK g : Keeps(g, s, toks, Len(s)) /\ Only(s, toks) = g[Len(s)]
  BY OnlyIsKept
<1>2. \A n \in 0..Len(s) : g[n] \in Seq(T \cap toks)
  BY <1>1, KeepsTypes
<1>3. Len(s) \in 0..Len(s)
  OBVIOUS
<1> QED BY <1>1, <1>2, <1>3

(* Of a text in two pieces as much is kept as of each of them.             *)
OnlySplits(s, t, toks) ==
  Only(s \o t, toks) = Only(s, toks) \o Only(t, toks)

(* What is kept of two texts in a row is what is kept of each.             *)
LEMMA OnlyConcat ==
  ASSUME NEW T, NEW s \in Seq(T), NEW t \in Seq(T), NEW toks
  PROVE  OnlySplits(s, t, toks)
<1> DEFINE w == s \o t
           k == Len(s)
           l == Len(t)
<1>1. /\ w \in Seq(T) /\ Len(w) = k + l /\ k \in Nat /\ l \in Nat
      /\ \A i \in 1..k : w[i] = s[i]
      /\ \A i \in 1..l : w[k + i] = t[i]
  OBVIOUS
<1>0. k \in Nat /\ l \in Nat
  OBVIOUS
<1> HIDE DEF w, k, l
<1>2. PICK g : Keeps(g, w, toks, k + l) /\ Only(w, toks) = g[k + l]
  BY <1>1, OnlyIsKept
<1>3. PICK a : Keeps(a, s, toks, k) /\ Only(s, toks) = a[k]
  BY OnlyIsKept DEF k
<1>4. PICK b : Keeps(b, t, toks, l) /\ Only(t, toks) = b[l]
  BY OnlyIsKept DEF l
<1>5. g[k] = a[k]
  <2>1. k <= k + l /\ k + l \in Nat /\ \A i \in 1..k : s[i] = w[i]
    BY <1>1
  <2> QED BY <1>1, <1>2, <1>3, <2>1, KeepsAlike
<1>6. \A n \in 1..(k + l) : KeptStep(g, w, toks, n)
  <2>1. k + l \in Nat
    BY <1>1
  <2> QED BY <1>2, <2>1, KeepsNext, Zenon
<1>7. /\ b[0] = <<>>
      /\ \A n \in 1..l : KeptStep(b, t, toks, n)
  BY <1>1, <1>4, KeepsNext, Zenon
<1>8. \A n \in 0..l : b[n] \in Seq(T)
  <2>1. \A n \in 0..l : b[n] \in Seq(T \cap toks)
    BY <1>4, KeepsTypes DEF l
  <2>2. \A u \in Seq(T \cap toks) : u \in Seq(T)
    OBVIOUS
  <2> QED BY <2>1, <2>2
<1>9. a[k] \in Seq(T)
  <2>1. a[k] \in Seq(T \cap toks)
    BY <1>3, OnlyTypes
  <2>2. \A u \in Seq(T \cap toks) : u \in Seq(T)
    OBVIOUS
  <2> QED BY <2>1, <2>2
<1>10. \A n \in 1..l :
         g[k + (n - 1)] = a[k] \o b[n - 1] => g[k + n] = a[k] \o b[n]
  <2> SUFFICES ASSUME NEW n \in 1..l, g[k + (n - 1)] = a[k] \o b[n - 1]
               PROVE  g[k + n] = a[k] \o b[n]
    OBVIOUS
  <2>1. n - 1 \in 0..l
    BY <1>1
  <2>2. k + n \in 1..(k + l) /\ (k + n) - 1 = k + (n - 1) /\ w[k + n] = t[n]
    BY <1>1
  <2>3. t[n] \in T
    BY DEF l
  <2>4. a[k] \in Seq(T) /\ b[n - 1] \in Seq(T)
    BY <2>1, <1>8, <1>9
  <2>5. KeptStep(g, w, toks, k + n) /\ KeptStep(b, t, toks, n)
    BY <2>2, <1>6, <1>7, Zenon
  <2>6. g[k + n] = IF t[n] \in toks THEN Append(a[k] \o b[n - 1], t[n])
                   ELSE a[k] \o b[n - 1]
    BY <2>2, <2>5, Zenon DEF KeptStep
  <2>7. b[n] = IF t[n] \in toks THEN Append(b[n - 1], t[n]) ELSE b[n - 1]
    BY <2>5, Zenon DEF KeptStep
  <2>8. Append(a[k] \o b[n - 1], t[n]) = a[k] \o Append(b[n - 1], t[n])
    <3> DEFINE y == a[k]
               z == b[n - 1]
               x == t[n]
    <3>1. y \in Seq(T) /\ z \in Seq(T) /\ x \in T
      BY <2>3, <2>4
    <3> HIDE DEF y, z, x
    <3>2. y \o z \in Seq(T) /\ <<x>> \in Seq(T)
      BY <3>1
    <3>3. Append(y \o z, x) = (y \o z) \o <<x>> /\ Append(z, x) = z \o <<x>>
      BY <3>1, <3>2, AppendIsConcat
    <3>4. (y \o z) \o <<x>> = y \o (z \o <<x>>)
      BY <3>1, <3>2, ConcatAssociative
    <3>5. Append(y \o z, x) = y \o Append(z, x)
      BY <3>3, <3>4, Zenon
    <3> QED BY <3>5 DEF y, z, x
  <2>9. CASE t[n] \in toks
    BY <2>6, <2>7, <2>8, <2>9, Zenon
  <2>10. CASE t[n] \notin toks
    BY <2>6, <2>7, <2>10, Zenon
  <2> QED BY <2>9, <2>10
<1>11. g[k + l] = a[k] \o b[l]
  <2> DEFINE Odd == {n \in 0..l : g[k + n] # a[k] \o b[n]}
  <2>0. \A n \in Odd : n \in 0..l
    BY Zenon
  <2>1. Odd \in SUBSET Nat
    <3> HIDE DEF Odd
    <3> QED BY <2>0
  <2>2. 0 \notin Odd
    <3>1. k + 0 = k /\ a[k] \o <<>> = a[k]
      BY <1>1, <1>9
    <3> QED BY <3>1, <1>5, <1>7
  <2>3. \A n \in Odd : n # 0 /\ n \in 1..l /\ n - 1 \in 0..l
    <3> HIDE DEF Odd
    <3> QED BY <2>0, <2>2, <1>0
  <2>4. \A n \in Odd : n - 1 \in Odd
    BY <2>3, <1>10
  <2>5. l \in Odd <=> g[k + l] # a[k] \o b[l]
    <3>1. l \in 0..l
      BY <1>0
    <3> QED BY <3>1, Zenon
  <2> HIDE DEF Odd
  <2>6. Odd = {}
    <3> SUFFICES ASSUME Odd # {} PROVE FALSE
      OBVIOUS
    <3>1. PICK n \in Odd : \A m \in Odd : n <= m
      BY <2>1, LeastNatural
    <3>2. n - 1 \in Odd /\ n \in Nat
      BY <3>1, <2>1, <2>4
    <3> QED BY <3>1, <3>2
  <2> QED BY <2>5, <2>6
<1> QED BY <1>2, <1>3, <1>4, <1>11, Zenon DEF w, OnlySplits

(* Nothing is kept of a text without the tokens that are asked for.        *)
LEMMA OnlyNone ==
  ASSUME NEW T, NEW s \in Seq(T), NEW toks, T \cap toks = {}
  PROVE  Only(s, toks) = <<>>
<1>1. Only(s, toks) \in Seq({})
  BY OnlyTypes
<1> QED BY <1>1

(* One token is kept or not.                                               *)
LEMMA OnlyOne ==
  ASSUME NEW x, NEW toks
  PROVE  Only(<<x>>, toks) = IF x \in toks THEN <<x>> ELSE <<>>
<1>1. <<x>> \in Seq({x}) /\ Len(<<x>>) = 1 /\ <<x>>[1] = x
  OBVIOUS
<1>2. PICK g : Keeps(g, <<x>>, toks, 1) /\ Only(<<x>>, toks) = g[1]
  BY <1>1, OnlyIsKept
<1>3. /\ g[0] = <<>>
      /\ \A n \in 1..1 : KeptStep(g, <<x>>, toks, n)
  BY <1>2, KeepsNext
<1>4. 1 \in 1..1 /\ 1 - 1 = 0
  OBVIOUS
<1>5. g[1] = IF x \in toks THEN Append(g[0], x) ELSE g[0]
  BY <1>1, <1>3, <1>4, Zenon DEF KeptStep
<1> QED BY <1>2, <1>3, <1>5

-----------------------------------------------------------------------------
(* The first place of a token, and where a text is cut.                    *)

(* The first of the places that hold tok.                                  *)
FirstAt(s, tok, n) ==
  /\ n \in 1..Len(s) /\ s[n] = tok
  /\ \A i \in 1..(n - 1) : s[i] # tok

(* Find returns the first place of a token,                                *)
LEMMA FindFirst ==
  ASSUME NEW T, NEW s \in Seq(T), NEW tok, NEW n, FirstAt(s, tok, n)
  PROVE  Find(s, tok) = n
<1> DEFINE I == {i \in 1..Len(s) : s[i] = tok}
<1>1. n \in I /\ \A i \in I : n <= i
  BY DEF FirstAt
<1>2. \A m \in I : (\A i \in I : m <= i) => m = n
  BY <1>1
<1>3. Find(s, tok) = IF I # {} THEN Min(I) ELSE 0
  BY DEF Find, SelectInSeq
<1> HIDE DEF I
<1>4. Min(I) = n
  BY <1>1, <1>2 DEF Min
<1> QED BY <1>1, <1>3, <1>4

(* 0 when there is none,                                                   *)
LEMMA FindNone ==
  ASSUME NEW T, NEW s \in Seq(T), NEW tok, ~Contains(s, tok)
  PROVE  Find(s, tok) = 0
BY DEF Find, SelectInSeq, Contains

(* and a place whenever there is one.                                      *)
LEMMA FindSome ==
  ASSUME NEW T, NEW s \in Seq(T), NEW tok, Contains(s, tok)
  PROVE  FirstAt(s, tok, Find(s, tok))
<1> DEFINE I == {i \in 1..Len(s) : s[i] = tok}
<1>1. I \in SUBSET Nat /\ I # {}
  BY DEF Contains
<1>2. PICK n \in I : \A m \in I : n <= m
  <2> HIDE DEF I
  <2> QED BY <1>1, LeastNatural
<1>3. \A i \in 1..(n - 1) : i \notin I
  <2> HIDE DEF I
  <2> QED BY <1>1, <1>2
<1>4. FirstAt(s, tok, n)
  BY <1>2, <1>3 DEF FirstAt
<1> QED BY <1>4, FindFirst

(* A text in two pieces holds what one of them holds.                      *)
LEMMA ContainsConcat ==
  ASSUME NEW T, NEW s \in Seq(T), NEW t \in Seq(T), NEW tok
  PROVE  Contains(s \o t, tok) <=> Contains(s, tok) \/ Contains(t, tok)
<1>1. /\ Len(s \o t) = Len(s) + Len(t) /\ Len(s) \in Nat /\ Len(t) \in Nat
      /\ \A i \in 1..(Len(s) + Len(t)) :
           (s \o t)[i] = IF i <= Len(s) THEN s[i] ELSE t[i - Len(s)]
  BY ConcatProperties
<1>2. ASSUME Contains(s \o t, tok) PROVE Contains(s, tok) \/ Contains(t, tok)
  <2>1. PICK i \in 1..(Len(s) + Len(t)) : (s \o t)[i] = tok
    BY <1>1, <1>2 DEF Contains
  <2>2. CASE i <= Len(s)
    BY <1>1, <2>1, <2>2 DEF Contains
  <2>3. CASE ~(i <= Len(s))
    <3>1. i - Len(s) \in 1..Len(t) /\ t[i - Len(s)] = tok
      BY <1>1, <2>1, <2>3
    <3> QED BY <3>1, Zenon DEF Contains
  <2> QED BY <2>2, <2>3
<1>3. ASSUME Contains(s, tok) PROVE Contains(s \o t, tok)
  <2>1. PICK i \in 1..Len(s) : s[i] = tok
    BY <1>3 DEF Contains
  <2>2. i \in 1..Len(s \o t) /\ (s \o t)[i] = tok
    BY <1>1, <2>1
  <2> QED BY <2>2, Zenon DEF Contains
<1>4. ASSUME Contains(t, tok) PROVE Contains(s \o t, tok)
  <2>1. PICK i \in 1..Len(t) : t[i] = tok
    BY <1>4 DEF Contains
  <2>2. Len(s) + i \in 1..(Len(s) + Len(t)) /\ (s \o t)[Len(s) + i] = tok
    BY <1>1, <2>1
  <2>3. Len(s) + i \in 1..Len(s \o t)
    BY <1>1, <2>2
  <2> QED BY <2>2, <2>3, Zenon DEF Contains
<1> QED BY <1>2, <1>3, <1>4

(* A text holds no token that it is not made of.                           *)
LEMMA ContainsNone ==
  ASSUME NEW T, NEW s \in Seq(T), NEW tok, tok \notin T
  PROVE  ~Contains(s, tok)
BY DEF Contains

(* The first place of a token that only the second piece holds.            *)
LEMMA FirstAfter ==
  ASSUME NEW T, NEW s \in Seq(T), NEW t \in Seq(T), NEW tok,
         ~Contains(s, tok), NEW n, FirstAt(t, tok, n)
  PROVE  FirstAt(s \o t, tok, Len(s) + n)
<1>1. /\ Len(s \o t) = Len(s) + Len(t) /\ Len(s) \in Nat /\ Len(t) \in Nat
      /\ \A i \in 1..(Len(s) + Len(t)) :
           (s \o t)[i] = IF i <= Len(s) THEN s[i] ELSE t[i - Len(s)]
  BY ConcatProperties
<1>2. n \in 1..Len(t) /\ t[n] = tok /\ \A i \in 1..(n - 1) : t[i] # tok
  BY DEF FirstAt
<1>3. Len(s) + n \in 1..(Len(s) + Len(t)) /\ (s \o t)[Len(s) + n] = tok
  BY <1>1, <1>2
<1>4. ASSUME NEW i \in 1..((Len(s) + n) - 1) PROVE (s \o t)[i] # tok
  <2>1. i \in 1..(Len(s) + Len(t))
    BY <1>1, <1>2
  <2>2. CASE i <= Len(s)
    <3>1. i \in 1..Len(s) /\ (s \o t)[i] = s[i]
      BY <1>1, <2>1, <2>2
    <3> QED BY <3>1 DEF Contains
  <2>3. CASE ~(i <= Len(s))
    <3>1. i - Len(s) \in 1..(n - 1) /\ (s \o t)[i] = t[i - Len(s)]
      BY <1>1, <1>2, <2>1, <2>3
    <3> QED BY <3>1, <1>2
  <2> QED BY <2>2, <2>3
<1> QED BY <1>1, <1>3, <1>4, Zenon DEF FirstAt

(* The first place of a token in the first piece is its first of all.      *)
LEMMA FirstBefore ==
  ASSUME NEW T, NEW s \in Seq(T), NEW t \in Seq(T), NEW tok,
         NEW n, FirstAt(s, tok, n)
  PROVE  FirstAt(s \o t, tok, n)
<1>1. /\ Len(s \o t) = Len(s) + Len(t) /\ Len(s) \in Nat /\ Len(t) \in Nat
      /\ \A i \in 1..(Len(s) + Len(t)) :
           (s \o t)[i] = IF i <= Len(s) THEN s[i] ELSE t[i - Len(s)]
  BY ConcatProperties
<1>2. n \in 1..Len(s) /\ s[n] = tok /\ \A i \in 1..(n - 1) : s[i] # tok
  BY DEF FirstAt
<1>3. n \in 1..(Len(s) + Len(t)) /\ (s \o t)[n] = tok
  BY <1>1, <1>2
<1>4. ASSUME NEW i \in 1..(n - 1) PROVE (s \o t)[i] # tok
  <2>1. i \in 1..(Len(s) + Len(t)) /\ i <= Len(s)
    BY <1>1, <1>2
  <2> QED BY <1>1, <1>2, <2>1
<1> QED BY <1>1, <1>3, <1>4, Zenon DEF FirstAt

(* Two pieces are found again where they were joined.                      *)
LEMMA Cut ==
  ASSUME NEW T, NEW s \in Seq(T), NEW t \in Seq(T)
  PROVE  /\ SubSeq(s \o t, 1, Len(s)) = s
         /\ SubSeq(s \o t, Len(s) + 1, Len(s \o t)) = t
OBVIOUS

-----------------------------------------------------------------------------
(* Texts with at most one block.                                           *)

(* What a text is made of outside the blocks.                              *)
Plain == User \union {"junk"}
(* What a block may carry.                                                 *)
Payloads == {"splice", "eof", "reanchor"}

(* A block without its begin sentinel.                                     *)
Rest(r) == \E w \in Payloads : r = <<w, "end">> \/ r = <<"fallback", w, "end">>
(* A block: what follows its begin sentinel is the rest of it.             *)
Marked(m) == \E r : Rest(r) /\ m = <<"begin">> \o r

(* A file is plain text around at most one block, and a line end follows   *)
(* the block.                                                              *)
Parted(s, p, m, q) ==
  /\ s = (p \o m) \o q
  /\ p \in Seq(Plain) /\ q \in Seq(Plain)
  /\ m = <<>> \/ (Marked(m) /\ q # <<>> /\ q[1] = "nl")

(* Plain text has no token of a script in it,                              *)
LEMMA PlainTokens ==
  /\ Plain \subseteq Token /\ User \subseteq Plain
  /\ \A x \in {"begin", "end", "splice", "eof", "reanchor", "fallback"} : x \notin Plain
BY DEF Plain, Token, User, Scripts

(* so no search of a script ends in it.                                    *)
LEMMA PlainTexts ==
  ASSUME NEW s \in Seq(Plain)
  PROVE  /\ s \in Seq(Token)
         /\ ~Contains(s, "begin") /\ ~Contains(s, "end")
         /\ ~Contains(s, "splice") /\ ~Contains(s, "fallback")
<1>1. s \in Seq(Token)
  BY PlainTokens
<1>2. \A i \in 1..Len(s) : s[i] \in Plain
  OBVIOUS
<1> QED BY <1>1, <1>2, PlainTokens DEF Contains

(* The rest of a block ends in its only end sentinel.                      *)
LEMMA RestIs ==
  ASSUME NEW r, Rest(r)
  PROVE  /\ r \in Seq(Token)
         /\ FirstAt(r, "end", Len(r))
         /\ ~Contains(r, "begin") /\ ~Contains(r, "junk") /\ ~Contains(r, "main")
         /\ Contains(r, "fallback") => FirstAt(r, "fallback", 1)
<1>1. PICK w \in Payloads : r = <<w, "end">> \/ r = <<"fallback", w, "end">>
  BY DEF Rest
<1>2. w \in Token /\ w # "begin" /\ w # "end" /\ w # "junk" /\ w # "main" /\ w # "fallback"
      /\ "end" \in Token /\ "fallback" \in Token
  BY DEF Payloads, Token, Scripts
<1>3. CASE r = <<w, "end">>
  <2>1. Len(r) = 2 /\ r[1] = w /\ r[2] = "end" /\ r \in Seq(Token)
    BY <1>2, <1>3
  <2>2. \A i \in 1..2 : i = 1 \/ i = 2
    OBVIOUS
  <2>3. \A i \in 1..1 : i = 1
    OBVIOUS
  <2> QED BY <1>2, <2>1, <2>2, <2>3 DEF FirstAt, Contains
<1>4. CASE r = <<"fallback", w, "end">>
  <2>1. Len(r) = 3 /\ r[1] = "fallback" /\ r[2] = w /\ r[3] = "end" /\ r \in Seq(Token)
    BY <1>2, <1>4
  <2>2. \A i \in 1..3 : i = 1 \/ i = 2 \/ i = 3
    OBVIOUS
  <2>3. \A i \in 1..2 : i = 1 \/ i = 2
    OBVIOUS
  <2>4. 1 \in 1..3 /\ 3 \in 1..3
    OBVIOUS
  <2> QED BY <1>2, <2>1, <2>2, <2>3, <2>4 DEF FirstAt, Contains
<1> QED BY <1>1, <1>3, <1>4

(* No block is found in a text that has none.                              *)
LEMMA NoBlock ==
  ASSUME NEW s, NEW p, NEW q, Parted(s, p, <<>>, q)
  PROVE  /\ s = p \o q /\ s \in Seq(Plain)
         /\ BlockBegin(s) = 0 /\ BlockEnd(s) = 0
<1>1. s = p \o q /\ s \in Seq(Plain) /\ s \in Seq(Token)
  BY PlainTexts DEF Parted
<1>2. BlockBegin(s) = 0
  BY <1>1, PlainTexts, FindNone DEF BlockBegin
<1> QED BY <1>1, <1>2 DEF BlockEnd

(* Where the block of a text is found, and what is before and after it.    *)
LEMMA ABlock ==
  ASSUME NEW s, NEW p, NEW r, NEW q, Parted(s, p, <<"begin">> \o r, q), Rest(r)
  PROVE  /\ s \in Seq(Token) /\ s = (p \o <<"begin">>) \o (r \o q)
         /\ BlockBegin(s) = Len(p) + 1
         /\ BlockEnd(s) = Len(p) + 1 + Len(r)
         /\ Before(s, BlockBegin(s)) = p
         /\ Before(s, BlockBegin(s) + 1) = p \o <<"begin">>
         /\ After(s, BlockBegin(s)) = r \o q
         /\ After(s, BlockEnd(s)) = q
         /\ After(s, BlockEnd(s) + 1) = Tail(q)
<1> DEFINE b == <<"begin">>
           pb == p \o b
           rq == r \o q
<1>1. /\ p \in Seq(Token) /\ q \in Seq(Token) /\ r \in Seq(Token) /\ b \in Seq(Token)
      /\ Len(b) = 1 /\ "begin" \in Token
  BY PlainTexts, RestIs DEF Parted, Token
<1>2. /\ pb \in Seq(Token) /\ rq \in Seq(Token)
      /\ Len(pb) = Len(p) + 1 /\ Len(rq) = Len(r) + Len(q)
  BY <1>1
<1>3. s = pb \o rq /\ s \in Seq(Token)
  <2>1. s = (p \o (b \o r)) \o q
    BY DEF Parted
  <2>2. p \o (b \o r) = pb \o r
    BY <1>1, ConcatAssociative
  <2>3. (pb \o r) \o q = pb \o rq
    BY <1>1, <1>2, ConcatAssociative
  <2>4. pb \o rq \in Seq(Token)
    BY <1>2
  <2> QED BY <2>1, <2>2, <2>3, <2>4, Zenon
<1>4. /\ SubSeq(s, 1, Len(pb)) = pb
      /\ SubSeq(s, Len(pb) + 1, Len(s)) = rq
  BY <1>2, <1>3, Cut, Zenon
<1>5. s = p \o (b \o rq)
  <2>1. (p \o b) \o rq = p \o (b \o rq)
    BY <1>1, <1>2, ConcatAssociative
  <2> QED BY <1>3, <2>1, Zenon
<1>6. SubSeq(s, 1, Len(p)) = p
  <2>1. b \o rq \in Seq(Token)
    BY <1>1, <1>2
  <2> QED BY <1>1, <1>5, <2>1, Cut, Zenon
<1> DEFINE pr == pb \o r
<1>7. s = pr \o q /\ pr \in Seq(Token) /\ Len(pr) = Len(p) + 1 + Len(r)
  <2>1. pr \o q = pb \o rq
    BY <1>1, <1>2, ConcatAssociative
  <2>2. pr \in Seq(Token) /\ Len(pr) = Len(p) + 1 + Len(r)
    BY <1>1, <1>2
  <2> QED BY <1>3, <2>1, <2>2, Zenon
<1>8. FirstAt(s, "begin", Len(p) + 1)
  <2>1. ~Contains(p, "begin")
    BY PlainTexts DEF Parted
  <2>2. FirstAt(b, "begin", 1)
    BY DEF FirstAt
  <2>3. FirstAt(pb, "begin", Len(p) + 1)
    BY <1>1, <2>1, <2>2, FirstAfter, Zenon
  <2> QED BY <1>2, <1>3, <2>3, FirstBefore, Zenon
<1>9. BlockBegin(s) = Len(p) + 1
  BY <1>3, <1>8, FindFirst, Zenon DEF BlockBegin
<1>10. Find(rq, "end") = Len(r)
  <2>1. FirstAt(r, "end", Len(r))
    BY RestIs
  <2>2. FirstAt(rq, "end", Len(r))
    BY <1>1, <2>1, FirstBefore, Zenon
  <2> QED BY <1>2, <2>2, FindFirst, Zenon
<1>11. Len(r) \in Nat \ {0} /\ Len(p) \in Nat
  BY <1>1, RestIs DEF FirstAt
<1> HIDE DEF b, pb, rq, pr
<1>12. BlockEnd(s) = Len(p) + 1 + Len(r)
  <2>1. Find(SubSeq(s, BlockBegin(s) + 1, Len(s)), "end") = Len(r)
    BY <1>2, <1>4, <1>9, <1>10, Zenon
  <2> QED BY <1>9, <1>11, <2>1 DEF BlockEnd
<1>13. Before(s, BlockBegin(s)) = p
  <2>1. (Len(p) + 1) - 1 = Len(p)
    BY <1>11
  <2> QED BY <1>6, <1>9, <2>1, Zenon DEF Before
<1>14. Before(s, BlockBegin(s) + 1) = pb
  <2>1. (Len(p) + 1 + 1) - 1 = Len(pb)
    BY <1>2, <1>11
  <2> QED BY <1>4, <1>9, <2>1, Zenon DEF Before
<1>15. After(s, BlockBegin(s)) = rq
  BY <1>2, <1>4, <1>9, Zenon DEF After
<1>16. After(s, BlockEnd(s)) = q
  <2>1. SubSeq(s, Len(pr) + 1, Len(s)) = q
    BY <1>1, <1>7, Cut, Zenon
  <2> QED BY <1>7, <1>12, <2>1, Zenon DEF After
<1>17. After(s, BlockEnd(s) + 1) = Tail(q)
  <2> DEFINE n == <<"nl">>
  <2>1. q # <<>> /\ q[1] = "nl"
    BY <1>1, <1>11 DEF Parted, b
  <2>2. q = n \o Tail(q) /\ n \in Seq(Token) /\ Tail(q) \in Seq(Token) /\ Len(n) = 1
    BY <1>1, <2>1 DEF Token, User
  <2> HIDE DEF n
  <2>3. s = (pr \o n) \o Tail(q) /\ pr \o n \in Seq(Token)
        /\ Len(pr \o n) = Len(pr) + 1
    <3>1. (pr \o n) \o Tail(q) = pr \o (n \o Tail(q))
      <4>1. pr \in Seq(Token) /\ n \in Seq(Token) /\ Tail(q) \in Seq(Token)
        BY <1>7, <2>2, Zenon
      <4> QED BY <4>1, ConcatAssociative
    <3>2. pr \o n \in Seq(Token) /\ Len(pr \o n) = Len(pr) + Len(n)
      BY <1>7, <2>2, ConcatProperties, Zenon
    <3> QED BY <1>7, <2>2, <3>1, <3>2, Zenon
  <2>4. SubSeq(s, Len(pr \o n) + 1, Len(s)) = Tail(q)
    BY <2>2, <2>3, Cut, Zenon
  <2>5. SubSeq(s, (BlockEnd(s) + 1) + 1, Len(s)) = Tail(q)
    BY <1>7, <1>12, <2>3, <2>4, Zenon
  <2> QED BY <2>5 DEF After
<1> QED BY <1>3, <1>9, <1>12, <1>13, <1>14, <1>15, <1>16, <1>17 DEF pb, rq, b

-----------------------------------------------------------------------------
(* Splicing a block into a text.                                           *)

(* Four pieces joined in either way.                                       *)
Regroups(a, b, c, d) == (a \o (b \o c)) \o d = (a \o b) \o (c \o d)

(* Two ways to put four pieces together.                                   *)
LEMMA Regroup ==
  ASSUME NEW T, NEW a \in Seq(T), NEW b \in Seq(T), NEW c \in Seq(T), NEW d \in Seq(T)
  PROVE  Regroups(a, b, c, d)
<1>1. a \o (b \o c) = (a \o b) \o c
  BY ConcatAssociative
<1>2. a \o b \in Seq(T)
  OBVIOUS
<1>3. ((a \o b) \o c) \o d = (a \o b) \o (c \o d)
  BY <1>2, ConcatAssociative
<1> QED BY <1>1, <1>3, Zenon DEF Regroups

(* The block that a splice carries, in the pieces of Parted.               *)
LEMMA BlockPieces ==
  /\ <<"begin", "splice", "end", "nl">> = (<<"begin">> \o <<"splice", "end">>) \o <<"nl">>
  /\ <<"nl", "nl", "begin", "eof", "end", "nl">>
       = (<<"nl", "nl">> \o (<<"begin">> \o <<"eof", "end">>)) \o <<"nl">>
  /\ <<"nl", "nl", "begin", "eof", "end", "nl", "nl">>
       = (<<"nl", "nl">> \o (<<"begin">> \o <<"eof", "end">>)) \o <<"nl", "nl">>
  /\ <<"nl", "nl", "begin", "reanchor", "end", "nl", "nl", "nl">>
       = (<<"nl", "nl">> \o (<<"begin">> \o <<"reanchor", "end">>)) \o <<"nl", "nl", "nl">>
OBVIOUS

(* The block between two sentinels that the splices put in.                *)
LEMMA Blocks ==
  \A w \in Payloads : /\ Rest(<<w, "end">>)
                      /\ Marked(<<"begin">> \o <<w, "end">>)
                      /\ <<"begin">> \o <<w, "end">> \in Seq(Token)
                      /\ <<"begin">> \o <<w, "end">> # <<>>
<1> TAKE w \in Payloads
<1>1. Rest(<<w, "end">>)
  BY DEF Rest
<1>2. Marked(<<"begin">> \o <<w, "end">>)
  BY <1>1, Zenon DEF Marked
<1>3. w \in Token /\ "begin" \in Token /\ "end" \in Token
  BY DEF Token, Payloads, Scripts
<1> QED BY <1>1, <1>2, <1>3

(* The splice puts the same tokens in all three files,                     *)
LEMMA SpliceBlockIs ==
  ASSUME NEW f \in File
  PROVE  SpliceBlock(f) = <<"begin", "splice", "end", "nl">>
BY Zenon DEF File, SpliceBlock, SERVER_PY_BLOCK, INDEX_BLOCK, LUA_BLOCK

(* The line ends behind the block of the EOF splice.                       *)
LineEnds == {<<"nl">>, <<"nl", "nl">>}

(* and so does the EOF splice, but for the line ends behind them.          *)
LEMMA EofBlockIs ==
  ASSUME NEW f \in File
  PROVE  \E e \in LineEnds :
           EofBlock(f) = (<<"nl", "nl">> \o (<<"begin">> \o <<"eof", "end">>)) \o e
<1>1. EofBlock(f) \in {<<"nl", "nl", "begin", "eof", "end", "nl">>,
                       <<"nl", "nl", "begin", "eof", "end", "nl", "nl">>}
  BY Zenon DEF File, EofBlock, phase5_block_server_py, phase5_block_index_html,
               phase5_block_init_lua
<1>2. <<"nl">> \in LineEnds /\ <<"nl", "nl">> \in LineEnds
  BY DEF LineEnds
<1> QED BY <1>1, <1>2, BlockPieces, Zenon

(* It is a text.                                                           *)
LEMMA EofBlockTyped ==
  ASSUME NEW f \in File
  PROVE  EofBlock(f) \in Seq(Token)
<1> DEFINE b == <<"nl", "nl", "begin", "eof", "end", "nl">>
           c == <<"nl", "nl", "begin", "eof", "end", "nl", "nl">>
<1>1. b \in Seq(Token) /\ c \in Seq(Token)
  BY DEF Token, User, Scripts
<1> HIDE DEF b, c
<1>2. EofBlock(f) = b \/ EofBlock(f) = c
  BY Zenon DEF File, EofBlock, phase5_block_server_py, phase5_block_index_html,
               phase5_block_init_lua, b, c
<1> QED BY <1>1, <1>2

(* These line ends are plain text.                                         *)
LEMMA LineEndsAre ==
  ASSUME NEW e \in LineEnds
  PROVE  e \in Seq({"nl"}) /\ e \in Seq(Plain) /\ e # <<>> /\ e[1] = "nl"
<1>1. "nl" \in Plain
  BY DEF Plain, User
<1>2. CASE e = <<"nl">>
  BY <1>1, <1>2
<1>3. CASE e = <<"nl", "nl">>
  BY <1>1, <1>3
<1> QED BY <1>2, <1>3 DEF LineEnds

(* Put between two plain texts, the block of a splice parts them.          *)
LEMMA SplicedParts ==
  ASSUME NEW p \in Seq(Plain), NEW q \in Seq(Plain)
  PROVE  Parted((p \o <<"begin", "splice", "end", "nl">>) \o q, p,
                <<"begin">> \o <<"splice", "end">>, <<"nl">> \o q)
<1> DEFINE m == <<"begin">> \o <<"splice", "end">>
           n == <<"nl">>
<1>1. p \in Seq(Token) /\ q \in Seq(Token) /\ m \in Seq(Token) /\ n \in Seq(Token)
  BY PlainTexts DEF Token, Scripts, User
<1>2. n \in Seq(Plain) /\ n \o q \in Seq(Plain) /\ n \o q # <<>> /\ (n \o q)[1] = "nl"
  BY DEF Plain, User
<1>3. Marked(m)
  BY Blocks DEF Payloads
<1> HIDE DEF m, n
<1>4. (p \o (m \o n)) \o q = (p \o m) \o (n \o q)
  <2>1. Regroups(p, m, n, q)
    BY <1>1, Regroup
  <2> QED BY <2>1, Zenon DEF Regroups
<1>5. <<"begin", "splice", "end", "nl">> = m \o n
  BY BlockPieces, Zenon DEF m, n
<1>6. Parted((p \o (m \o n)) \o q, p, m, n \o q)
  BY <1>2, <1>3, <1>4, Zenon DEF Parted
<1> QED BY <1>5, <1>6, Zenon DEF m, n

(* A text is what comes before a place and what comes after it.            *)
LEMMA CutAt ==
  ASSUME NEW T, NEW s \in Seq(T), NEW i \in 0..Len(s)
  PROVE  /\ SubSeq(s, 1, i) \in Seq(T) /\ SubSeq(s, i + 1, Len(s)) \in Seq(T)
         /\ s = SubSeq(s, 1, i) \o SubSeq(s, i + 1, Len(s))
<1> DEFINE u == SubSeq(s, 1, i)
           v == SubSeq(s, i + 1, Len(s))
<1>1. /\ u \in Seq(T) /\ Len(u) = i
      /\ \A j \in 1..i : u[j] = s[j]
  OBVIOUS
<1>2. /\ v \in Seq(T) /\ Len(v) = Len(s) - i
      /\ \A j \in 1..(Len(s) - i) : v[j] = s[i + j]
  OBVIOUS
<1>3. i \in Nat /\ Len(s) \in Nat
  OBVIOUS
<1> HIDE DEF u, v
<1>4. /\ u \o v \in Seq(T) /\ Len(u \o v) = Len(u) + Len(v)
      /\ \A j \in 1..(Len(u) + Len(v)) :
            (u \o v)[j] = IF j <= Len(u) THEN u[j] ELSE v[j - Len(u)]
  BY <1>1, <1>2, ConcatProperties, Zenon
<1>5. Len(u \o v) = Len(s)
  BY <1>1, <1>2, <1>3, <1>4
<1>6. ASSUME NEW j \in 1..Len(s) PROVE s[j] = (u \o v)[j]
  <2>1. j \in 1..(Len(u) + Len(v))
    BY <1>1, <1>2, <1>3
  <2>2. CASE j <= i
    <3>1. j \in 1..i
      BY <1>3, <2>2
    <3>2. (u \o v)[j] = u[j]
      BY <1>1, <1>4, <2>1, <2>2
    <3> QED BY <1>1, <3>1, <3>2
  <2>3. CASE ~(j <= i)
    <3>1. j - i \in 1..(Len(s) - i) /\ i + (j - i) = j
      BY <1>3, <2>3
    <3>2. (u \o v)[j] = v[j - i]
      BY <1>1, <1>4, <2>1, <2>3
    <3>3. v[j - i] = s[i + (j - i)]
      BY <1>2, <3>1
    <3> QED BY <3>1, <3>2, <3>3
  <2> QED BY <2>2, <2>3
<1>7. s = u \o v
  BY <1>4, <1>5, <1>6, SeqEqual
<1> QED BY <1>1, <1>2, <1>7 DEF u, v

(* A splice replaces the block, or puts one before the first anchor, or at *)
(* the end of the file.                                                    *)
SpliceMakes(t, s, p, m, q, a, x, y) ==
  /\ Parted(t, x, <<"begin">> \o <<"splice", "end">>, <<"nl">> \o y)
  /\ m # <<>> => x = p /\ y = q
  /\ m = <<>> => Parted(s, x, m, y) /\ (a # "EOF" => ~Contains(x, a))

(* The splice always makes a text with one block.                          *)
LEMMA Spliced ==
  ASSUME NEW s, NEW p, NEW m, NEW q, Parted(s, p, m, q), NEW a, ~Raises(s, a)
  PROVE  \E x, y :
           SpliceMakes(splice_around(s, <<"begin", "splice", "end", "nl">>, a),
                       s, p, m, q, a, x, y)
<1> DEFINE B == <<"begin", "splice", "end", "nl">>
<1>1. CASE m # <<>>
  <2>1. PICK r : Rest(r) /\ m = <<"begin">> \o r
    BY <1>1, Zenon DEF Parted, Marked
  <2>2. Parted(s, p, <<"begin">> \o r, q)
    BY <2>1, Zenon
  <2>3. /\ Before(s, BlockBegin(s)) = p /\ After(s, BlockEnd(s)) = q
        /\ BlockEnd(s) = Len(p) + 1 + Len(r)
    BY <2>1, <2>2, ABlock
  <2>4. BlockEnd(s) > 0
    BY <2>1, <2>3, RestIs DEF Parted
  <2> HIDE DEF B
  <2>5. splice_around(s, B, a) = (p \o B) \o q
    BY <2>3, <2>4, Zenon DEF splice_around
  <2>6. Parted(splice_around(s, B, a), p, <<"begin">> \o <<"splice", "end">>, <<"nl">> \o q)
    BY <2>5, SplicedParts, Zenon DEF Parted, B
  <2> QED BY <1>1, <2>6, Zenon DEF B, SpliceMakes
<1>2. CASE m = <<>>
  <2>1. s \in Seq(Plain) /\ s = p \o q /\ BlockEnd(s) = 0
    BY <1>2, NoBlock, Zenon
  <2>2. \A x \in Seq(Plain), y \in Seq(Plain) : s = x \o y => Parted(s, x, m, y)
    <3> TAKE x \in Seq(Plain), y \in Seq(Plain)
    <3>1. x \o <<>> = x
      OBVIOUS
    <3> QED BY <1>2, <3>1, Zenon DEF Parted
  <2>3. CASE a = "EOF"
    <3>1. <<>> \in Seq(Plain) /\ s \o <<>> = s
      BY <2>1
    <3>2. Parted(s, s, m, <<>>)
      BY <2>1, <2>2, <3>1, Zenon
    <3> HIDE DEF B
    <3>3. splice_around(s, B, a) = (s \o B) \o <<>>
      <4>1. splice_around(s, B, a) = s \o B
        BY <2>1, <2>3 DEF splice_around
      <4>2. B \in Seq(Token) /\ s \in Seq(Token)
        BY <2>1, PlainTexts DEF B, Token, Scripts, User
      <4>3. (s \o B) \o <<>> = s \o B
        BY <4>2
      <4> QED BY <4>1, <4>3, Zenon
    <3>4. Parted((s \o B) \o <<>>, s, <<"begin">> \o <<"splice", "end">>, <<"nl">> \o <<>>)
      BY <2>1, <3>1, SplicedParts, Zenon DEF B
    <3> QED BY <1>2, <2>3, <3>2, <3>3, <3>4, Zenon DEF B, SpliceMakes
  <2>4. CASE a # "EOF"
    <3>1. Contains(s, a)
      BY <2>1, <2>4 DEF Raises
    <3> DEFINE k == Find(s, a)
    <3>2. k \in 1..Len(s) /\ \A i \in 1..(k - 1) : s[i] # a
      <4>1. FirstAt(s, a, Find(s, a))
        BY <2>1, <3>1, FindSome
      <4> QED BY <4>1 DEF FirstAt
    <3> HIDE DEF k
    <3> DEFINE x == SubSeq(s, 1, k - 1)
               y == SubSeq(s, k, Len(s))
    <3>3. x \in Seq(Plain) /\ y \in Seq(Plain) /\ s = x \o y
      <4>1. k - 1 \in 0..Len(s) /\ (k - 1) + 1 = k /\ s \in Seq(Plain)
        BY <2>1, <3>2
      <4> HIDE DEF k
      <4> QED BY <4>1, CutAt
    <3>4. ~Contains(x, a)
      <4>1. Len(x) = k - 1 /\ \A i \in 1..(k - 1) : x[i] = s[i]
        BY <2>1, <3>2
      <4> QED BY <3>2, <4>1 DEF Contains
    <3>5. Before(s, k) = x /\ After(s, k - 1) = y
      BY <3>2 DEF Before, After
    <3> HIDE DEF B, x, y
    <3>6. splice_around(s, B, a) = (x \o B) \o y
      <4>1. ~(BlockEnd(s) > 0)
        BY <2>1
      <4> QED BY <2>4, <3>5, <4>1, Zenon DEF splice_around, k
    <3>7. Parted((x \o B) \o y, x, <<"begin">> \o <<"splice", "end">>, <<"nl">> \o y)
      BY <3>3, SplicedParts, Zenon DEF B
    <3>8. Parted(s, x, m, y)
      BY <2>2, <3>3, Zenon
    <3> QED BY <1>2, <3>4, <3>6, <3>7, <3>8, Zenon DEF B, SpliceMakes
  <2> QED BY <2>3, <2>4
<1> QED BY <1>1, <1>2

-----------------------------------------------------------------------------
(* Stripping and appending a block.                                        *)

(* x holds, line ends aside, what p and then q hold.                       *)
Carries(x, p, q) ==
  /\ \A toks \in SUBSET Token :
       "nl" \notin toks => Only(x, toks) = Only(p, toks) \o Only(q, toks)
  /\ Contains(x, "junk") <=> Contains(p, "junk") \/ Contains(q, "junk")

(* Of line ends nothing else is kept.                                      *)
LEMMA LineEndsOnly ==
  ASSUME NEW z \in Seq({"nl"})
  PROVE  /\ z \in Seq(Plain)
         /\ \A toks : "nl" \notin toks => Only(z, toks) = <<>>
         /\ ~Contains(z, "junk") /\ ~Contains(z, "main")
<1>1. z \in Seq(Plain)
  BY DEF Plain, User
<1>2. ASSUME NEW toks, "nl" \notin toks PROVE Only(z, toks) = <<>>
  <2>1. {"nl"} \cap toks = {}
    BY <1>2
  <2> QED BY <2>1, OnlyNone
<1>3. ~Contains(z, "junk") /\ ~Contains(z, "main")
  BY ContainsNone
<1> QED BY <1>1, <1>2, <1>3

(* What is kept of a text is a text.                                       *)
LEMMA OnlyInSeq ==
  ASSUME NEW s \in Seq(Token), NEW toks
  PROVE  Only(s, toks) \in Seq(Token)
<1>1. Only(s, toks) \in Seq(Token \cap toks)
  BY OnlyTypes
<1> QED BY <1>1

(* Line ends before the second part or behind both change nothing else.    *)
LEMMA CarriesLineEnds ==
  ASSUME NEW p \in Seq(Plain), NEW y \in Seq(Plain), NEW q \in Seq(Plain),
         y = q \/ q = <<"nl">> \o y, NEW z \in Seq({"nl"})
  PROVE  Carries((p \o y) \o z, p, q)
<1>1. p \in Seq(Token) /\ y \in Seq(Token) /\ q \in Seq(Token) /\ z \in Seq(Token)
      /\ p \o y \in Seq(Token) /\ <<"nl">> \in Seq({"nl"}) /\ <<"nl">> \in Seq(Token)
  BY PlainTexts, LineEndsOnly DEF Token, User
<1>2. ASSUME NEW toks \in SUBSET Token, "nl" \notin toks
      PROVE  Only((p \o y) \o z, toks) = Only(p, toks) \o Only(q, toks)
  <2>1. Only((p \o y) \o z, toks) = Only(p \o y, toks) \o Only(z, toks)
    <3>1. OnlySplits(p \o y, z, toks)
      BY <1>1, OnlyConcat, Zenon
    <3> QED BY <3>1, Zenon DEF OnlySplits
  <2>2. Only(p \o y, toks) = Only(p, toks) \o Only(y, toks)
    <3>1. OnlySplits(p, y, toks)
      BY <1>1, OnlyConcat, Zenon
    <3> QED BY <3>1, Zenon DEF OnlySplits
  <2>3. Only(z, toks) = <<>>
    BY <1>2, LineEndsOnly
  <2>4. Only(y, toks) = Only(q, toks)
    <3>1. CASE q = <<"nl">> \o y
      <4>1. Only(<<"nl">> \o y, toks) = Only(<<"nl">>, toks) \o Only(y, toks)
        <5>1. OnlySplits(<<"nl">>, y, toks)
          BY <1>1, OnlyConcat, Zenon
        <5> QED BY <5>1, Zenon DEF OnlySplits
      <4>2. Only(<<"nl">>, toks) = <<>>
        BY <1>1, <1>2, LineEndsOnly, Zenon
      <4>3. Only(y, toks) \in Seq(Token)
        BY <1>1, OnlyInSeq
      <4>4. <<>> \o Only(y, toks) = Only(y, toks)
        BY <4>3, ConcatEmptySeq, Zenon
      <4> QED BY <3>1, <4>1, <4>2, <4>4, Zenon
    <3> QED BY <3>1
  <2>5. (Only(p, toks) \o Only(q, toks)) \o <<>> = Only(p, toks) \o Only(q, toks)
    <3>1. Only(p, toks) \in Seq(Token) /\ Only(q, toks) \in Seq(Token)
      BY <1>1, OnlyInSeq
    <3>2. Only(p, toks) \o Only(q, toks) \in Seq(Token)
      BY <3>1, ConcatProperties, Zenon
    <3> QED BY <3>2, ConcatEmptySeq, Zenon
  <2> QED BY <2>1, <2>2, <2>3, <2>4, <2>5, Zenon
<1>3. Contains((p \o y) \o z, "junk") <=> Contains(p, "junk") \/ Contains(q, "junk")
  <2>1. Contains((p \o y) \o z, "junk") <=> Contains(p \o y, "junk") \/ Contains(z, "junk")
    BY <1>1, ContainsConcat, Zenon
  <2>2. Contains(p \o y, "junk") <=> Contains(p, "junk") \/ Contains(y, "junk")
    BY <1>1, ContainsConcat, Zenon
  <2>3. ~Contains(z, "junk") /\ ~Contains(<<"nl">>, "junk")
    BY <1>1, LineEndsOnly, Zenon
  <2>4. Contains(<<"nl">> \o y, "junk") <=> Contains(<<"nl">>, "junk") \/ Contains(y, "junk")
    BY <1>1, ContainsConcat, Zenon
  <2> QED BY <2>1, <2>2, <2>3, <2>4, Zenon
<1> QED BY <1>2, <1>3, Zenon DEF Carries

(* Stripping leaves what is around the block, but for a line end behind it.*)
LeftOf(u, p, q) == \E y \in Seq(Plain) : u = p \o y /\ (y = q \/ q = <<"nl">> \o y)

(* Stripping leaves what was around the block, or one line end less.       *)
LEMMA Stripped ==
  ASSUME NEW s, NEW p, NEW m, NEW q, Parted(s, p, m, q), NEW n \in {1, 2}
  PROVE  LeftOf(strip_existing(s, n), p, q)
<1>1. CASE m = <<>>
  <2>1. BlockEnd(s) = 0 /\ s = p \o q
    BY <1>1, NoBlock, Zenon
  <2>2. strip_existing(s, n) = s
    BY <2>1 DEF strip_existing
  <2> QED BY <2>1, <2>2, Zenon DEF Parted, LeftOf
<1>2. CASE m # <<>>
  <2>1. PICK r : Rest(r) /\ m = <<"begin">> \o r
    BY <1>2, Zenon DEF Parted, Marked
  <2>2. Parted(s, p, <<"begin">> \o r, q)
    BY <2>1, Zenon
  <2>3. /\ Before(s, BlockBegin(s)) = p /\ After(s, BlockEnd(s)) = q
        /\ After(s, BlockEnd(s) + 1) = Tail(q)
        /\ BlockEnd(s) = Len(p) + 1 + Len(r)
    BY <2>1, <2>2, ABlock
  <2>4. BlockEnd(s) \in Nat /\ BlockEnd(s) # 0
    BY <2>1, <2>3, RestIs DEF Parted
  <2>5. CASE n = 1
    <3>1. BlockEnd(s) + n - 1 = BlockEnd(s)
      BY <2>4, <2>5
    <3>2. strip_existing(s, n) = p \o q
      BY <2>3, <2>4, <3>1, Zenon DEF strip_existing
    <3> QED BY <3>2, Zenon DEF Parted, LeftOf
  <2>6. CASE n = 2
    <3>1. BlockEnd(s) + n - 1 = BlockEnd(s) + 1
      BY <2>4, <2>6
    <3>2. strip_existing(s, n) = p \o Tail(q)
      BY <2>3, <2>4, <3>1, Zenon DEF strip_existing
    <3>3. q \in Seq(Plain) /\ q # <<>> /\ q[1] = "nl"
      BY <1>2 DEF Parted
    <3>4. Tail(q) \in Seq(Plain) /\ q = <<"nl">> \o Tail(q)
      BY <3>3
    <3> QED BY <3>2, <3>4, Zenon DEF LeftOf
  <2> QED BY <2>5, <2>6
<1> QED BY <1>1, <1>2

(* Put behind a text, a block with line ends around it parts the whole.    *)
LEMMA AppendedParts ==
  ASSUME NEW a \in Seq(Plain), NEW b \in Seq(Plain), NEW w \in Payloads,
         NEW e \in Seq(Plain), e # <<>>, e[1] = "nl"
  PROVE  Parted(a \o ((b \o (<<"begin">> \o <<w, "end">>)) \o e),
                a \o b, <<"begin">> \o <<w, "end">>, e)
<1> DEFINE m == <<"begin">> \o <<w, "end">>
<1>1. a \in Seq(Token) /\ b \in Seq(Token) /\ e \in Seq(Token) /\ a \o b \in Seq(Plain)
  BY PlainTexts
<1>2. m \in Seq(Token) /\ Marked(m)
  BY Blocks, Zenon
<1> HIDE DEF m
<1>3. a \o ((b \o m) \o e) = ((a \o b) \o m) \o e
  <2>1. b \o m \in Seq(Token)
    BY <1>1, <1>2
  <2>2. a \o ((b \o m) \o e) = (a \o (b \o m)) \o e
    BY <1>1, <2>1, ConcatAssociative
  <2>3. a \o (b \o m) = (a \o b) \o m
    BY <1>1, <1>2, ConcatAssociative
  <2> QED BY <2>2, <2>3, Zenon
<1>4. Parted(a \o ((b \o m) \o e), a \o b, m, e)
  BY <1>1, <1>2, <1>3, Zenon DEF Parted
<1> QED BY <1>4, Zenon DEF m

(* The EOF splice leaves the text in front of its block, and behind it     *)
(* only line ends.                                                         *)
LEMMA Eofed ==
  ASSUME NEW s, NEW p, NEW m, NEW q, Parted(s, p, m, q), NEW f \in File
  PROVE  \E x, e : /\ Parted(apply_block(f, s), x, <<"begin">> \o <<"eof", "end">>, e)
                   /\ Carries(x, p, q) /\ e \in Seq({"nl"})
<1> DEFINE n == IF f = "lua" THEN 2 ELSE 1
           two == <<"nl", "nl">>
           mid == <<"begin">> \o <<"eof", "end">>
<1>1. n \in {1, 2}
  OBVIOUS
<1>2. PICK y \in Seq(Plain) : strip_existing(s, n) = p \o y /\ (y = q \/ q = <<"nl">> \o y)
  <2> HIDE DEF n
  <2>1. LeftOf(strip_existing(s, n), p, q)
    BY <1>1, Stripped
  <2> QED BY <2>1, Zenon DEF LeftOf
<1> DEFINE u == p \o y
           v == WithLineEnd(u)
<1>3. u \in Seq(Plain) /\ p \in Seq(Plain) /\ q \in Seq(Plain)
  BY <1>2 DEF Parted
<1>0. PICK e \in LineEnds : EofBlock(f) = (two \o mid) \o e
  BY EofBlockIs
<1>4. two \in Seq(Plain) /\ two \in Seq({"nl"}) /\ "nl" \in Plain
      /\ <<"nl">> \in Seq(Plain)
  BY DEF Plain, User
<1>10. e \in Seq(Plain) /\ e # <<>> /\ e[1] = "nl" /\ e \in Seq({"nl"})
  BY LineEndsAre
<1>5. apply_block(f, s) = v \o ((two \o mid) \o e)
  <2>1. apply_block(f, s) = v \o EofBlock(f)
    BY <1>2, Zenon DEF apply_block
  <2> QED BY <1>0, <2>1, Zenon
<1> HIDE DEF two, mid, u
<1>6. v \in Seq(Plain) /\ \E z \in Seq({"nl"}) : v \o two = u \o z
  <2>1. CASE v = u
    BY <1>3, <1>4, <2>1, Zenon
  <2>2. CASE v = Append(u, "nl")
    <3> DEFINE nl == <<"nl">>
    <3>1. nl \in Seq(Plain) /\ nl \in Seq({"nl"}) /\ nl \o two \in Seq({"nl"})
      BY <1>4
    <3>2. v \in Seq(Plain)
      BY <1>3, <1>4, <2>2
    <3>3. v = u \o nl
      BY <1>3, <1>4, <2>2, AppendIsConcat, Zenon
    <3> HIDE DEF nl, v
    <3>4. (u \o nl) \o two = u \o (nl \o two)
      BY <1>3, <1>4, <3>1, ConcatAssociative
    <3> QED BY <3>1, <3>2, <3>3, <3>4, Zenon
  <2> QED BY <2>1, <2>2, Zenon DEF WithLineEnd
<1> HIDE DEF v
<1>7. PICK z \in Seq({"nl"}) : v \o two = u \o z
  BY <1>6
<1>8. Parted(v \o ((two \o mid) \o e), v \o two, mid, e)
  <2>1. "eof" \in Payloads
    BY DEF Payloads
  <2> QED BY <1>4, <1>6, <1>10, <2>1, AppendedParts, Zenon DEF mid
<1>9. Carries(v \o two, p, q)
  BY <1>2, <1>3, <1>7, CarriesLineEnds, Zenon DEF u
<1> QED BY <1>5, <1>8, <1>9, <1>10, Zenon DEF mid

-----------------------------------------------------------------------------
(* What the pieces hold.                                                   *)

(* The user's tokens that the scripts must keep,                           *)
UserToks == {"code", "app", "main", "body"}
(* and those of the blocks that must be there once.                        *)
PayloadToks == {"begin", "end", "splice", "eof", "reanchor"}

(* The pieces of a text are texts.                                         *)
PartsTyped(s, p, m, q) ==
  /\ p \in Seq(Token) /\ m \in Seq(Token) /\ q \in Seq(Token)
  /\ p \in Seq(Plain) /\ q \in Seq(Plain) /\ s \in Seq(Token)
  /\ s = (p \o m) \o q /\ p \o m \in Seq(Token)

(* And so they are, of every text with at most one block.                  *)
LEMMA PartedTypes ==
  ASSUME NEW s, NEW p, NEW m, NEW q, Parted(s, p, m, q)
  PROVE  PartsTyped(s, p, m, q)
<1>1. p \in Seq(Plain) /\ q \in Seq(Plain) /\ s = (p \o m) \o q
  BY DEF Parted
<1>2. p \in Seq(Token) /\ q \in Seq(Token)
  BY <1>1, PlainTexts
<1>3. m \in Seq(Token)
  <2>1. CASE m = <<>>
    BY <2>1
  <2>2. CASE m # <<>>
    <3>1. PICK r : Rest(r) /\ m = <<"begin">> \o r
      BY <2>2, Zenon DEF Parted, Marked
    <3>2. r \in Seq(Token) /\ <<"begin">> \in Seq(Token)
      BY <3>1, RestIs DEF Token
    <3>3. <<"begin">> \o r \in Seq(Token)
      BY <3>2, ConcatProperties, Zenon
    <3> QED BY <3>1, <3>3, Zenon
  <2> QED BY <2>1, <2>2
<1>4. p \o m \in Seq(Token)
  BY <1>2, <1>3, ConcatProperties, Zenon
<1>5. (p \o m) \o q \in Seq(Token)
  BY <1>2, <1>4, ConcatProperties, Zenon
<1> QED BY <1>1, <1>2, <1>3, <1>4, <1>5, Zenon DEF PartsTyped

(* Nothing of the user is in a block.                                      *)
UserOf(s, p, q) == Only(s, UserToks) = Only(p, UserToks) \o Only(q, UserToks)

(* A block holds none of the user's tokens.                                *)
LEMMA UserParted ==
  ASSUME NEW s, NEW p, NEW m, NEW q, Parted(s, p, m, q)
  PROVE  UserOf(s, p, q)
<1>0. /\ p \in Seq(Token) /\ m \in Seq(Token) /\ q \in Seq(Token)
      /\ s = (p \o m) \o q /\ p \o m \in Seq(Token)
      /\ p \in Seq(Plain) /\ q \in Seq(Plain)
  <2>1. PartsTyped(s, p, m, q)
    BY PartedTypes
  <2> QED BY <2>1, Zenon DEF PartsTyped
<1>1. Only(m, UserToks) = <<>>
  <2>1. CASE m = <<>>
    <3>1. m \in Seq({}) /\ {} \cap UserToks = {}
      BY <2>1
    <3> QED BY <3>1, OnlyNone
  <2>2. CASE m # <<>>
    <3>1. PICK r : Rest(r) /\ m = <<"begin">> \o r
      BY <2>2, Zenon DEF Parted, Marked
    <3> DEFINE D == Token \ UserToks
    <3>2. PICK w \in Payloads : r = <<w, "end">> \/ r = <<"fallback", w, "end">>
      BY <3>1 DEF Rest
    <3>3. w \in D /\ "end" \in D /\ "fallback" \in D /\ "begin" \in D
      BY DEF Payloads, Token, UserToks, Scripts
    <3>4. D \cap UserToks = {}
      OBVIOUS
    <3> HIDE DEF D
    <3>5. <<w, "end">> \in Seq(D) /\ <<"fallback", w, "end">> \in Seq(D)
          /\ <<"begin">> \in Seq(D)
      BY <3>3
    <3>6. <<"begin">> \o r \in Seq(D)
      BY <3>2, <3>5, ConcatProperties, Zenon
    <3> QED BY <3>1, <3>4, <3>6, OnlyNone, Zenon
  <2> QED BY <2>1, <2>2
<1>2. Only(p, UserToks) \in Seq(Token)
  BY <1>0, OnlyInSeq, Zenon
<1>3. Only(p, UserToks) \o <<>> = Only(p, UserToks)
  BY <1>2, ConcatEmptySeq, Zenon
<1>4. OnlySplits(p \o m, q, UserToks) /\ OnlySplits(p, m, UserToks)
  BY <1>0, OnlyConcat, Zenon
<1> QED BY <1>0, <1>1, <1>3, <1>4, Zenon DEF OnlySplits, UserOf

(* Around the block there is nothing of a payload.                         *)
LEMMA PayloadParted ==
  ASSUME NEW s, NEW p, NEW m, NEW q, Parted(s, p, m, q)
  PROVE  Payload(s) = Only(m, PayloadToks)
<1>0. /\ p \in Seq(Token) /\ m \in Seq(Token) /\ q \in Seq(Token)
      /\ s = (p \o m) \o q /\ p \o m \in Seq(Token)
      /\ p \in Seq(Plain) /\ q \in Seq(Plain)
  <2>1. PartsTyped(s, p, m, q)
    BY PartedTypes
  <2> QED BY <2>1, Zenon DEF PartsTyped
<1>1. Only(p, PayloadToks) = <<>> /\ Only(q, PayloadToks) = <<>>
  <2>1. Plain \cap PayloadToks = {}
    BY DEF Plain, User, PayloadToks
  <2> QED BY <2>1, <1>0, OnlyNone, Zenon
<1>2. Only(m, PayloadToks) \in Seq(Token)
  BY <1>0, OnlyInSeq, Zenon
<1>3. <<>> \o Only(m, PayloadToks) = Only(m, PayloadToks)
      /\ Only(m, PayloadToks) \o <<>> = Only(m, PayloadToks)
  BY <1>2, ConcatEmptySeq, Zenon
<1>4. Only(s, PayloadToks) = Only(m, PayloadToks)
  <2>1. OnlySplits(p \o m, q, PayloadToks) /\ OnlySplits(p, m, PayloadToks)
    BY <1>0, OnlyConcat, Zenon
  <2> QED BY <1>0, <1>1, <1>3, <2>1, Zenon DEF OnlySplits
<1> QED BY <1>4, Zenon DEF Payload, PayloadToks

(* The payload of a block is the one its sentinels enclose.                *)
LEMMA PayloadOfBlock ==
  ASSUME NEW w \in Payloads
  PROVE  /\ Only(<<"begin">> \o <<w, "end">>, PayloadToks) = <<"begin", w, "end">>
         /\ Only(<<"begin">> \o <<"fallback", w, "end">>, PayloadToks) = <<"begin", w, "end">>
<1> DEFINE b == <<"begin">>
           v == <<w>>
           e == <<"end">>
           a == <<"fallback">>
<1>1. w \in PayloadToks /\ w \in Token /\ "end" \in PayloadToks /\ "begin" \in PayloadToks
      /\ "fallback" \notin PayloadToks
      /\ "begin" \in Token /\ "end" \in Token /\ "fallback" \in Token
  BY DEF Payloads, PayloadToks, Token, Scripts
<1>2. Only(b, PayloadToks) = b /\ Only(v, PayloadToks) = v /\ Only(e, PayloadToks) = e
      /\ Only(a, PayloadToks) = <<>>
  BY <1>1, OnlyOne
<1>3. b \in Seq(Token) /\ v \in Seq(Token) /\ e \in Seq(Token) /\ a \in Seq(Token)
  BY <1>1
<1>4. <<w, "end">> = v \o e /\ <<"fallback", w, "end">> = a \o (v \o e)
      /\ <<"begin", w, "end">> = b \o (v \o e) /\ <<>> \o (v \o e) = v \o e
  OBVIOUS
<1> HIDE DEF b, v, e, a
<1>5. v \o e \in Seq(Token)
  BY <1>3, ConcatProperties, Zenon
<1>6. a \o (v \o e) \in Seq(Token)
  BY <1>3, <1>5, ConcatProperties, Zenon
<1>7. OnlySplits(v, e, PayloadToks) /\ OnlySplits(a, v \o e, PayloadToks)
  BY <1>3, <1>5, OnlyConcat, Zenon
<1>8. OnlySplits(b, v \o e, PayloadToks) /\ OnlySplits(b, a \o (v \o e), PayloadToks)
  BY <1>3, <1>5, <1>6, OnlyConcat, Zenon
<1>9. Only(v \o e, PayloadToks) = v \o e
  BY <1>2, <1>7, Zenon DEF OnlySplits
<1>10. Only(b \o (v \o e), PayloadToks) = b \o (v \o e)
  BY <1>2, <1>8, <1>9, Zenon DEF OnlySplits
<1>11. Only(a \o (v \o e), PayloadToks) = v \o e
  BY <1>2, <1>4, <1>7, <1>9, Zenon DEF OnlySplits
<1>12. Only(b \o (a \o (v \o e)), PayloadToks) = b \o (v \o e)
  BY <1>2, <1>8, <1>11, Zenon DEF OnlySplits
<1> QED BY <1>4, <1>10, <1>12, Zenon DEF b

(* A stray backslash is in the text around the block.                      *)
LEMMA JunkParted ==
  ASSUME NEW s, NEW p, NEW m, NEW q, Parted(s, p, m, q)
  PROVE  Contains(s, "junk") <=> Contains(p, "junk") \/ Contains(q, "junk")
<1>0. /\ p \in Seq(Token) /\ m \in Seq(Token) /\ q \in Seq(Token)
      /\ s = (p \o m) \o q /\ p \o m \in Seq(Token)
      /\ p \in Seq(Plain) /\ q \in Seq(Plain)
  <2>1. PartsTyped(s, p, m, q)
    BY PartedTypes
  <2> QED BY <2>1, Zenon DEF PartsTyped
<1>1. ~Contains(m, "junk")
  <2>1. CASE m = <<>>
    BY <2>1 DEF Contains
  <2>2. CASE m # <<>>
    <3>1. PICK r : Rest(r) /\ m = <<"begin">> \o r
      BY <2>2, Zenon DEF Parted, Marked
    <3>2. ~Contains(r, "junk") /\ ~Contains(<<"begin">>, "junk")
      BY <3>1, RestIs DEF Contains
    <3>3. r \in Seq(Token) /\ <<"begin">> \in Seq(Token)
      BY <3>1, RestIs DEF Token
    <3>4. ~Contains(<<"begin">> \o r, "junk")
      BY <3>2, <3>3, ContainsConcat, Zenon
    <3> QED BY <3>1, <3>4, Zenon
  <2> QED BY <2>1, <2>2
<1>2. Contains((p \o m) \o q, "junk") <=> Contains(p \o m, "junk") \/ Contains(q, "junk")
  BY <1>0, ContainsConcat, Zenon
<1>3. Contains(p \o m, "junk") <=> Contains(p, "junk") \/ Contains(m, "junk")
  BY <1>0, ContainsConcat, Zenon
<1> QED BY <1>1, <1>2, <1>3, <1>0, Zenon

(* Re-anchoring keeps the user's code, and leaves a stray backslash.       *)
LEMMA Reanchored ==
  ASSUME NEW s, NEW p, NEW m, NEW q, Parted(s, p, m, q)
  PROVE  \E x : /\ Parted(reanchor(s), x, <<"begin">> \o <<"reanchor", "end">>,
                          <<"nl", "nl", "nl">>)
                /\ UserOf(x, p, q) /\ Contains(x, "junk")
<1> DEFINE j == <<"junk">>
           two == <<"nl", "nl">>
           three == <<"nl", "nl", "nl">>
           mid == <<"begin">> \o <<"reanchor", "end">>
<1>1. LeftOf(strip_existing(s, 1), p, q)
  BY Stripped
<1>2. PICK y \in Seq(Plain) : strip_existing(s, 1) = p \o y /\ (y = q \/ q = <<"nl">> \o y)
  BY <1>1, Zenon DEF LeftOf
<1> DEFINE u == p \o y
<1>3. /\ p \in Seq(Plain) /\ q \in Seq(Plain) /\ u \in Seq(Plain) /\ u \o <<>> = u
      /\ p \in Seq(Token) /\ q \in Seq(Token) /\ <<>> \in Seq({"nl"})
  BY <1>2, PartedTypes DEF PartsTyped
<1>4. j \in Seq(Plain) /\ two \in Seq(Plain) /\ three \in Seq(Plain) /\ three # <<>>
      /\ three[1] = "nl" /\ j \in Seq({"junk"}) /\ two \in Seq({"nl"}) /\ Contains(j, "junk")
  BY DEF Plain, User, Contains
<1>5. reanchor(s) = (u \o j) \o ((two \o mid) \o three)
  <2>1. SERVER_PY_BLOCK_TAIL = (two \o mid) \o three
    BY BlockPieces, Zenon DEF SERVER_PY_BLOCK_TAIL
  <2> QED BY <1>2, <2>1, Zenon DEF reanchor
<1>6. Carries(u, p, q)
  <2>1. Carries(u \o <<>>, p, q)
    BY <1>2, <1>3, CarriesLineEnds, Zenon
  <2> QED BY <1>3, <2>1, Zenon
<1> HIDE DEF j, two, three, mid, u
<1> DEFINE x == (u \o j) \o two
<1>7. /\ u \o j \in Seq(Plain) /\ u \in Seq(Token) /\ j \in Seq(Token) /\ two \in Seq(Token)
      /\ u \o j \in Seq(Token)
  <2>1. u \o j \in Seq(Plain)
    BY <1>3, <1>4, ConcatProperties, Zenon
  <2> QED BY <1>3, <1>4, <2>1, PlainTexts, Zenon
<1>8. Parted(reanchor(s), x, mid, three)
  <2>1. "reanchor" \in Payloads
    BY DEF Payloads
  <2>2. Parted((u \o j) \o ((two \o mid) \o three), (u \o j) \o two, mid, three)
    BY <1>4, <1>7, <2>1, AppendedParts, Zenon DEF mid
  <2> QED BY <1>5, <2>2, Zenon
<1>9. UserOf(x, p, q)
  <2>1. UserToks \in SUBSET Token /\ "nl" \notin UserToks /\ {"junk"} \cap UserToks = {}
    BY DEF UserToks, Token, User
  <2>2. Only(u, UserToks) = Only(p, UserToks) \o Only(q, UserToks)
    BY <1>6, <2>1, Zenon DEF Carries
  <2>3. Only(j, UserToks) = <<>> /\ Only(two, UserToks) = <<>>
    BY <1>4, <2>1, OnlyNone, LineEndsOnly, Zenon
  <2>4. OnlySplits(u \o j, two, UserToks) /\ OnlySplits(u, j, UserToks)
    BY <1>7, OnlyConcat, Zenon
  <2>5. Only(u, UserToks) \in Seq(Token)
    BY <1>7, OnlyInSeq
  <2>6. Only(u, UserToks) \o <<>> = Only(u, UserToks)
    BY <2>5, ConcatEmptySeq, Zenon
  <2> QED BY <2>2, <2>3, <2>4, <2>6, Zenon DEF OnlySplits, UserOf
<1>10. Contains(x, "junk")
  <2>1. Contains(u \o j, "junk")
    BY <1>4, <1>7, ContainsConcat, Zenon
  <2> QED BY <1>7, <2>1, ContainsConcat, Zenon
<1> HIDE DEF x
<1> QED BY <1>8, <1>9, <1>10, Zenon DEF mid, three

(* A block with the fallback, in two pieces.                               *)
LEMMA FallbackPieces ==
  \A w : <<"fallback", w, "end">> = <<"fallback">> \o <<w, "end">>
OBVIOUS

(* The fallback is put behind the begin sentinel, once.                    *)
LEMMA FallbackPut ==
  ASSUME NEW s, NEW p, NEW r, NEW q, Parted(s, p, <<"begin">> \o r, q), Rest(r)
  PROVE  \E z : /\ Rest(z) /\ FirstAt(z, "fallback", 1)
                /\ Parted(insert_fallback(s), p, <<"begin">> \o z, q)
<1> DEFINE b == <<"begin">>
           a == <<"fallback">>
<1>1. p \in Seq(Token) /\ q \in Seq(Token) /\ r \in Seq(Token) /\ b \in Seq(Token)
      /\ a \in Seq(Token) /\ p \in Seq(Plain) /\ q \in Seq(Plain)
  BY PartedTypes, RestIs DEF PartsTyped, Token, Scripts
<1>2. s = (p \o b) \o (r \o q) /\ Before(s, BlockBegin(s) + 1) = p \o b
      /\ After(s, BlockBegin(s)) = r \o q
  <2>1. Regroups(p, b, r, q)
    BY <1>1, Regroup
  <2>2. s = (p \o (b \o r)) \o q
    BY Zenon DEF Parted
  <2>3. /\ Before(s, BlockBegin(s) + 1) = p \o b
        /\ After(s, BlockBegin(s)) = r \o q
    BY ABlock
  <2> QED BY <2>1, <2>2, <2>3, Zenon DEF Regroups
<1>3. Contains(s, "fallback") <=> Contains(r, "fallback")
  <2>1. p \o b \in Seq(Token) /\ r \o q \in Seq(Token)
    BY <1>1, ConcatProperties, Zenon
  <2>2. Contains((p \o b) \o (r \o q), "fallback")
          <=> Contains(p \o b, "fallback") \/ Contains(r \o q, "fallback")
    BY <2>1, ContainsConcat, Zenon
  <2>3. Contains(p \o b, "fallback") <=> Contains(p, "fallback") \/ Contains(b, "fallback")
    BY <1>1, ContainsConcat, Zenon
  <2>4. Contains(r \o q, "fallback") <=> Contains(r, "fallback") \/ Contains(q, "fallback")
    BY <1>1, ContainsConcat, Zenon
  <2>5. ~Contains(p, "fallback") /\ ~Contains(q, "fallback")
    BY <1>1, PlainTexts
  <2>6. ~Contains(b, "fallback")
    BY DEF Contains
  <2> QED BY <1>2, <2>2, <2>3, <2>4, <2>5, <2>6, Zenon
<1>4. CASE Contains(s, "fallback")
  <2>1. insert_fallback(s) = s
    BY <1>4 DEF insert_fallback
  <2>2. FirstAt(r, "fallback", 1)
    BY <1>3, <1>4, RestIs
  <2> QED BY <2>1, <2>2, Zenon
<1>5. CASE ~Contains(s, "fallback")
  <2>1. PICK w \in Payloads : r = <<w, "end">> \/ r = <<"fallback", w, "end">>
    BY DEF Rest
  <2>2. r = <<w, "end">>
    <3>1. r = <<"fallback", w, "end">> => Contains(r, "fallback")
      <4>1. Len(<<"fallback", w, "end">>) = 3 /\ 1 \in 1..3
            /\ <<"fallback", w, "end">>[1] = "fallback"
        OBVIOUS
      <4> QED BY <4>1, Zenon DEF Contains
    <3> QED BY <1>3, <1>5, <2>1, <3>1
  <2>3. a \o r = <<"fallback", w, "end">>
    <3>1. <<"fallback", w, "end">> = a \o <<w, "end">>
      BY FallbackPieces, Zenon
    <3> QED BY <2>2, <3>1, Zenon
  <2>4. Rest(a \o r) /\ FirstAt(a \o r, "fallback", 1)
    <3>1. Rest(<<"fallback", w, "end">>)
      BY Zenon DEF Rest
    <3>2. FirstAt(<<"fallback", w, "end">>, "fallback", 1)
      BY DEF FirstAt
    <3> QED BY <2>3, <3>1, <3>2, Zenon
  <2> HIDE DEF a, b
  <2>5. insert_fallback(s) = ((p \o b) \o a) \o (r \o q)
    BY <1>2, <1>5, Zenon DEF insert_fallback, FALLBACK_PATCH, a
  <2>6. ((p \o b) \o a) \o (r \o q) = (p \o (b \o (a \o r))) \o q
    <3>1. p \o b \in Seq(Token) /\ a \o r \in Seq(Token)
      BY <1>1, ConcatProperties, Zenon
    <3>2. Regroups(p \o b, a, r, q) 
      BY <1>1, <3>1, Regroup
    <3> DEFINE ar == a \o r
    <3>3. p \o (b \o ar) = (p \o b) \o ar
      <4>1. ar \in Seq(Token)
        BY <3>1
      <4> HIDE DEF ar
      <4> QED BY <1>1, <4>1, ConcatAssociative
    <3> QED BY <3>2, <3>3, Zenon DEF Regroups
  <2>7. Parted(insert_fallback(s), p, b \o (a \o r), q)
    <3>1. q # <<>> /\ q[1] = "nl"
      <4>1. b \o r # <<>>
        BY <1>1 DEF b
      <4> QED BY <4>1 DEF Parted, b
    <3>2. Marked(b \o (a \o r))
      BY <2>4, Zenon DEF Marked, b
    <3> QED BY <1>1, <2>5, <2>6, <3>1, <3>2, Zenon DEF Parted
  <2> QED BY <2>4, <2>7, Zenon DEF b
<1> QED BY <1>4, <1>5

-----------------------------------------------------------------------------
(* Where app is bound.                                                     *)

(* A step that does not move app behind a block or the call that serves.   *)
KeepsApp(s, t) == AppFirst(s) => AppFirst(t)

(* What is put behind a text does not matter.                              *)
LEMMA AppGrows ==
  ASSUME NEW s \in Seq(Token), NEW r \in Seq(Token)
  PROVE  KeepsApp(s, s \o r)
<1> SUFFICES ASSUME AppFirst(s) PROVE AppFirst(s \o r)
  BY DEF KeepsApp
<1>1. PICK i \in 1..Len(s) : s[i] = "app" /\ \A j \in 1..i : s[j] \notin {"main", "begin"}
  BY DEF AppFirst
<1>2. /\ Len(s \o r) = Len(s) + Len(r) /\ Len(s) \in Nat /\ Len(r) \in Nat
      /\ \A j \in 1..Len(s) : (s \o r)[j] = s[j]
  OBVIOUS
<1>3. i \in 1..Len(s \o r) /\ \A j \in 1..i : j \in 1..Len(s)
  BY <1>2
<1>4. (s \o r)[i] = "app" /\ \A j \in 1..i : (s \o r)[j] \notin {"main", "begin"}
  BY <1>1, <1>2, <1>3
<1> QED BY <1>3, <1>4 DEF AppFirst

(* app is bound in what comes before a block or the call that serves,      *)
LEMMA AppIsBefore ==
  ASSUME NEW s \in Seq(Token), AppFirst(s), NEW k \in 1..Len(s),
         s[k] \in {"main", "begin"}, NEW n \in (k - 1)..Len(s)
  PROVE  AppFirst(SubSeq(s, 1, n)) /\ Contains(SubSeq(s, 1, k - 1), "app")
<1>1. PICK i \in 1..Len(s) : s[i] = "app" /\ \A j \in 1..i : s[j] \notin {"main", "begin"}
  BY DEF AppFirst
<1>2. i < k
  BY <1>1
<1>3. /\ Len(SubSeq(s, 1, n)) = n /\ \A j \in 1..n : SubSeq(s, 1, n)[j] = s[j]
      /\ Len(SubSeq(s, 1, k - 1)) = k - 1
      /\ \A j \in 1..(k - 1) : SubSeq(s, 1, k - 1)[j] = s[j]
  OBVIOUS
<1>4. i \in 1..n /\ i \in 1..(k - 1) /\ \A j \in 1..i : j \in 1..n
  BY <1>2
<1>5. AppFirst(SubSeq(s, 1, n))
  <2> DEFINE u == SubSeq(s, 1, n)
  <2>1. Len(u) = n /\ u[i] = "app" /\ \A j \in 1..i : u[j] \notin {"main", "begin"}
    BY <1>1, <1>3, <1>4
  <2> HIDE DEF u
  <2>2. AppFirst(u)
    BY <1>4, <2>1 DEF AppFirst
  <2> QED BY <2>2 DEF u
<1>6. Contains(SubSeq(s, 1, k - 1), "app")
  <2> DEFINE u == SubSeq(s, 1, k - 1)
  <2>1. i \in 1..Len(u) /\ u[i] = "app"
    BY <1>1, <1>3, <1>4
  <2> HIDE DEF u
  <2>2. Contains(u, "app")
    BY <2>1 DEF Contains
  <2> QED BY <2>2 DEF u
<1> QED BY <1>5, <1>6

(* so that a script may put there what it likes from there on.             *)
LEMMA AppStays ==
  ASSUME NEW s \in Seq(Token), NEW k, FirstAt(s, "main", k) \/ FirstAt(s, "begin", k),
         NEW n \in {k, k + 1}, NEW r \in Seq(Token)
  PROVE  KeepsApp(s, Before(s, n) \o r)
<1> SUFFICES ASSUME AppFirst(s) PROVE AppFirst(Before(s, n) \o r)
  BY DEF KeepsApp
<1>1. k \in 1..Len(s) /\ s[k] \in {"main", "begin"} /\ Len(s) \in Nat
  BY DEF FirstAt
<1>2. n - 1 \in (k - 1)..Len(s)
  BY <1>1
<1>3. AppFirst(Before(s, n)) /\ Before(s, n) \in Seq(Token)
  BY <1>1, <1>2, AppIsBefore DEF Before
<1> QED BY <1>3, AppGrows DEF KeepsApp

(* The block of a text starts where it is found.                           *)
LEMMA BeginIs ==
  ASSUME NEW s \in Seq(Token), BlockBegin(s) # 0
  PROVE  FirstAt(s, "begin", BlockBegin(s))
BY FindNone, FindSome, Zenon DEF BlockBegin

(* A text with a whole block has a begin sentinel.                         *)
LEMMA EndNeedsBegin ==
  ASSUME NEW s, BlockEnd(s) # 0
  PROVE  BlockBegin(s) # 0
BY DEF BlockEnd

(* A place is a number.                                                    *)
LEMMA FindIsNat ==
  ASSUME NEW s \in Seq(Token), NEW tok
  PROVE  Find(s, tok) \in Nat
<1>1. CASE Contains(s, tok)
  <2>1. Find(s, tok) \in 1..Len(s)
    BY <1>1, FindSome DEF FirstAt
  <2> QED BY <2>1
<1>2. CASE ~Contains(s, tok)
  BY <1>2, FindNone
<1> QED BY <1>1, <1>2

(* What comes after a place is a text.                                     *)
LEMMA AfterTyped ==
  ASSUME NEW s \in Seq(Token), NEW i \in Nat
  PROVE  After(s, i) \in Seq(Token)
<1>1. CASE i <= Len(s)
  BY <1>1 DEF After
<1>2. CASE ~(i <= Len(s))
  <2>1. SubSeq(s, i + 1, Len(s)) = <<>>
    BY <1>2
  <2> QED BY <2>1 DEF After
<1> QED BY <1>1, <1>2

(* So is the end of a block.                                               *)
LEMMA EndIsNat ==
  ASSUME NEW s \in Seq(Token)
  PROVE  BlockEnd(s) \in Nat
<1>1. BlockBegin(s) \in Nat
  BY FindIsNat DEF BlockBegin
<1>2. SubSeq(s, BlockBegin(s) + 1, Len(s)) \in Seq(Token)
  BY <1>1, AfterTyped DEF After
<1>3. Find(SubSeq(s, BlockBegin(s) + 1, Len(s)), "end") \in Nat
  BY <1>2, FindIsNat
<1> QED BY <1>1, <1>3 DEF BlockEnd

(* Stripping leaves app where it is.                                       *)
LEMMA StripKeepsApp ==
  ASSUME NEW s \in Seq(Token), NEW n \in {1, 2}
  PROVE  KeepsApp(s, strip_existing(s, n))
<1>1. CASE BlockEnd(s) = 0
  BY <1>1 DEF strip_existing, KeepsApp
<1>2. CASE BlockEnd(s) # 0
  <2>1. FirstAt(s, "begin", BlockBegin(s))
    BY <1>2, BeginIs, EndNeedsBegin
  <2>2. strip_existing(s, n) = Before(s, BlockBegin(s)) \o After(s, BlockEnd(s) + n - 1)
    BY <1>2 DEF strip_existing
  <2>3. BlockBegin(s) \in {BlockBegin(s), BlockBegin(s) + 1}
    OBVIOUS
  <2>4. BlockEnd(s) + n - 1 \in Nat
    BY <1>2, EndIsNat
  <2>5. After(s, BlockEnd(s) + n - 1) \in Seq(Token)
    BY <2>4, AfterTyped
  <2> QED BY <2>1, <2>2, <2>3, <2>5, AppStays
<1> QED BY <1>1, <1>2

-----------------------------------------------------------------------------
(* What each script does to a text.                                        *)

(* All tokens but line ends.                                               *)
LessLineEnds == Token \ {"nl"}

(* What a step may keep of a text: the user's tokens, all but line ends,   *)
(* and whether it has a stray backslash.                                   *)
KeepsUser(s, t) == Only(s, UserToks) = Only(t, UserToks)
SameButLineEnds(s, t) == Only(s, LessLineEnds) = Only(t, LessLineEnds)
SameJunk(s, t) == Contains(s, "junk") <=> Contains(t, "junk")

(* A text with at most one block; while no script has moved the block of   *)
(* server.py, the call that runs the server is not in front of it.         *)
Shape(s, unmoved) ==
  \E p, m, q : /\ Parted(s, p, m, q)
               /\ unmoved /\ m # <<>> => ~Contains(p, "main")

(* A text as script w has just written it.                                 *)
Holds(s, w) ==
  \E p, q : /\ Parted(s, p, <<"begin">> \o <<w, "end">>, q)
            /\ w = "eof" => q \in Seq({"nl"})

(* A text as the fallback has just written it.                             *)
HasFallback(s) ==
  /\ BlockBegin(s) # 0 /\ Contains(s, "fallback")
  /\ Find(s, "fallback") = BlockBegin(s) + 1

(* What is kept of a text is what is kept of its three pieces.             *)
OnlyOf(s, p, m, q, toks) ==
  Only(s, toks) = (Only(p, toks) \o Only(m, toks)) \o Only(q, toks)

(* It is so of every text with at most one block.                          *)
LEMMA OnlyThree ==
  ASSUME NEW s, NEW p, NEW m, NEW q, Parted(s, p, m, q), NEW toks
  PROVE  OnlyOf(s, p, m, q, toks)
<1>1. PartsTyped(s, p, m, q)
  BY PartedTypes
<1>2. OnlySplits(p \o m, q, toks) /\ OnlySplits(p, m, toks)
  BY <1>1, OnlyConcat, Zenon DEF PartsTyped
<1> QED BY <1>1, <1>2, Zenon DEF OnlySplits, PartsTyped, OnlyOf

(* A line end in front of a text changes nothing else.                     *)
LEMMA LineEndInFront ==
  ASSUME NEW q \in Seq(Token)
  PROVE  /\ \A toks : "nl" \notin toks => Only(<<"nl">> \o q, toks) = Only(q, toks)
         /\ Contains(<<"nl">> \o q, "junk") <=> Contains(q, "junk")
<1> DEFINE n == <<"nl">>
<1>1. n \in Seq({"nl"}) /\ n \in Seq(Token)
  BY DEF Token, User
<1> HIDE DEF n
<1>2. ASSUME NEW toks, "nl" \notin toks PROVE Only(n \o q, toks) = Only(q, toks)
  <2>1. Only(n, toks) = <<>>
    BY <1>1, <1>2, LineEndsOnly, Zenon
  <2>2. OnlySplits(n, q, toks)
    BY <1>1, OnlyConcat
  <2>3. Only(q, toks) \in Seq(Token)
    BY OnlyInSeq
  <2>4. <<>> \o Only(q, toks) = Only(q, toks)
    BY <2>3, ConcatEmptySeq, Zenon
  <2> QED BY <2>1, <2>2, <2>4, Zenon DEF OnlySplits
<1>3. Contains(n \o q, "junk") <=> Contains(q, "junk")
  <2>1. ~Contains(n, "junk")
    BY <1>1, LineEndsOnly, Zenon
  <2> QED BY <1>1, <2>1, ContainsConcat, Zenon
<1> QED BY <1>2, <1>3, Zenon DEF n

(* The kept tokens are tokens, and no line ends.                           *)
LEMMA TokSets ==
  /\ "nl" \notin UserToks /\ "nl" \notin LessLineEnds
  /\ UserToks \in SUBSET Token /\ LessLineEnds \in SUBSET Token
BY DEF UserToks, LessLineEnds, Token, User

(* What a splice does to a file that it may splice.                        *)
LEMMA SpliceEffect ==
  ASSUME NEW s, NEW unmoved, Shape(s, unmoved), NEW a, unmoved => a = "main",
         ~Raises(s, a), NEW t,
         t = splice_around(s, <<"begin", "splice", "end", "nl">>, a)
  PROVE  /\ Shape(t, unmoved) /\ Holds(t, "splice")
         /\ KeepsUser(t, s) /\ SameJunk(t, s)
         /\ Holds(s, "splice") => SameButLineEnds(t, s)
         /\ a = "main" => KeepsApp(s, t)
<1> DEFINE mid == <<"begin">> \o <<"splice", "end">>
           n == <<"nl">>
<1>0. mid # <<>>
  BY Blocks DEF Payloads
<1> HIDE DEF mid
<1>1. ASSUME NEW p, NEW m, NEW q, Parted(s, p, m, q)
      PROVE  \E x, y : SpliceMakes(t, s, p, m, q, a, x, y)
  BY <1>1, Spliced, Zenon
<1>2. PICK p, m, q : /\ Parted(s, p, m, q)
                     /\ unmoved /\ m # <<>> => ~Contains(p, "main")
  BY Zenon DEF Shape
<1>3. PICK x, y : /\ Parted(t, x, mid, n \o y)
                  /\ m # <<>> => x = p /\ y = q
                  /\ m = <<>> => Parted(s, x, m, y) /\ (a # "EOF" => ~Contains(x, a))
  <2>1. PICK x, y : SpliceMakes(t, s, p, m, q, a, x, y)
    BY <1>1, <1>2, Zenon
  <2> QED BY <2>1, Zenon DEF SpliceMakes, mid
<1>4. Parted(s, x, m, y)
  BY <1>2, <1>3, Zenon
<1>5. y \in Seq(Token)
  <2>1. PartsTyped(s, x, m, y)
    BY <1>4, PartedTypes
  <2> QED BY <2>1, Zenon DEF PartsTyped
<1>6. Shape(t, unmoved)
  <2>1. unmoved => ~Contains(x, "main")
    BY <1>2, <1>3
  <2> QED BY <1>3, <2>1, Zenon DEF Shape
<1>7. Holds(t, "splice")
  BY <1>3, Zenon DEF Holds, mid
<1>8. KeepsUser(t, s)
  <2>1. UserOf(t, x, n \o y)
    BY <1>3, UserParted, Zenon
  <2>2. UserOf(s, x, y)
    BY <1>4, UserParted, Zenon
  <2>3. Only(n \o y, UserToks) = Only(y, UserToks)
    BY <1>5, TokSets, LineEndInFront, Zenon
  <2> QED BY <2>1, <2>2, <2>3, Zenon DEF KeepsUser, UserOf
<1>9. SameJunk(t, s)
  <2>1. Contains(t, "junk") <=> Contains(x, "junk") \/ Contains(n \o y, "junk")
    BY <1>3, JunkParted, Zenon
  <2>2. Contains(s, "junk") <=> Contains(x, "junk") \/ Contains(y, "junk")
    BY <1>4, JunkParted, Zenon
  <2> QED BY <1>5, <2>1, <2>2, LineEndInFront, Zenon DEF SameJunk
<1>10. ASSUME Holds(s, "splice") PROVE SameButLineEnds(t, s)
  <2>1. PICK p1, q1 : Parted(s, p1, mid, q1)
    BY <1>10, Zenon DEF Holds, mid
  <2>2. Parted(t, p1, mid, n \o q1)
    <3>1. PICK x1, y1 : SpliceMakes(t, s, p1, mid, q1, a, x1, y1)
      BY <1>1, <2>1, Zenon
    <3> QED BY <1>0, <3>1, Zenon DEF SpliceMakes, mid
  <2>3. q1 \in Seq(Token)
    <3>1. PartsTyped(s, p1, mid, q1)
      BY <2>1, PartedTypes
    <3> QED BY <3>1, Zenon DEF PartsTyped
  <2> DEFINE L == LessLineEnds
  <2>4. OnlyOf(t, p1, mid, n \o q1, L)
    BY <2>2, OnlyThree, Zenon
  <2>5. OnlyOf(s, p1, mid, q1, L)
    BY <2>1, OnlyThree, Zenon
  <2>6. Only(n \o q1, L) = Only(q1, L)
    BY <2>3, TokSets, LineEndInFront, Zenon
  <2> QED BY <2>4, <2>5, <2>6, Zenon DEF SameButLineEnds, OnlyOf
<1>11. ASSUME a = "main" PROVE KeepsApp(s, t)
  <2>1. s \in Seq(Token)
    <3>1. PartsTyped(s, p, m, q)
      BY <1>2, PartedTypes
    <3> QED BY <3>1, Zenon DEF PartsTyped
  <2> DEFINE B == <<"begin", "splice", "end", "nl">>
  <2>2. B \in Seq(Token)
    BY DEF Token, Scripts, User
  <2> HIDE DEF B
  <2>3. CASE BlockEnd(s) # 0
    <3> DEFINE k == BlockBegin(s)
    <3>1. FirstAt(s, "begin", k) /\ k \in {k, k + 1}
      BY <2>1, <2>3, BeginIs, EndNeedsBegin
    <3>2. BlockEnd(s) \in Nat /\ BlockEnd(s) > 0
      BY <2>1, <2>3, EndIsNat
    <3>3. t = Before(s, k) \o B \o After(s, BlockEnd(s))
      BY <3>2, Zenon DEF splice_around, B
    <3> DEFINE r == After(s, BlockEnd(s))
    <3>4. r \in Seq(Token)
      BY <2>1, <3>2, AfterTyped
    <3> HIDE DEF r, k
    <3>5. KeepsApp(s, Before(s, k) \o B)
      BY <2>1, <2>2, <3>1, AppStays
    <3>6. Before(s, k) \o B \in Seq(Token)
      <4>1. Before(s, k) \in Seq(Token)
        BY <2>1, <3>1 DEF Before, FirstAt
      <4> QED BY <2>2, <4>1, ConcatProperties, Zenon
    <3>7. KeepsApp(Before(s, k) \o B, (Before(s, k) \o B) \o r)
      BY <3>4, <3>6, AppGrows
    <3> QED BY <3>3, <3>5, <3>7, Zenon DEF KeepsApp, r
  <2>4. CASE BlockEnd(s) = 0
    <3> DEFINE k == Find(s, "main")
    <3>1. FirstAt(s, "main", k) /\ k \in {k, k + 1}
      BY <1>11, <2>1, <2>4, FindSome DEF Raises
    <3>2. t = Before(s, k) \o B \o After(s, k - 1)
      <4>1. ~(BlockEnd(s) > 0) /\ a # "EOF"
        BY <1>11, <2>4
      <4> QED BY <1>11, <4>1, Zenon DEF splice_around, B
    <3> DEFINE r == After(s, k - 1)
    <3>3. k - 1 \in Nat
      BY <3>1 DEF FirstAt
    <3>4. r \in Seq(Token)
      BY <2>1, <3>3, AfterTyped
    <3> HIDE DEF r, k
    <3>5. KeepsApp(s, Before(s, k) \o B)
      BY <2>1, <2>2, <3>1, AppStays
    <3>6. Before(s, k) \o B \in Seq(Token)
      <4>1. Before(s, k) \in Seq(Token)
        BY <2>1, <3>1 DEF Before, FirstAt
      <4> QED BY <2>2, <4>1, ConcatProperties, Zenon
    <3>7. KeepsApp(Before(s, k) \o B, (Before(s, k) \o B) \o r)
      BY <3>4, <3>6, AppGrows
    <3> QED BY <3>2, <3>5, <3>7, Zenon DEF KeepsApp, r
  <2> QED BY <2>3, <2>4
<1> QED BY <1>6, <1>7, <1>8, <1>9, <1>10, <1>11, Zenon

(* What an EOF splice does to a file.                                      *)
LEMMA EofEffect ==
  ASSUME NEW s, NEW unmoved, Shape(s, unmoved), NEW f \in File, NEW t,
         t = apply_block(f, s)
  PROVE  /\ Shape(t, FALSE) /\ Holds(t, "eof")
         /\ KeepsUser(t, s) /\ SameJunk(t, s)
         /\ Holds(s, "eof") => SameButLineEnds(t, s)
         /\ KeepsApp(s, t)
<1> DEFINE mid == <<"begin">> \o <<"eof", "end">>
<1> HIDE DEF mid
<1>1. ASSUME NEW p, NEW m, NEW q, Parted(s, p, m, q)
      PROVE  \E x, e : Parted(t, x, mid, e) /\ Carries(x, p, q) /\ e \in Seq({"nl"})
  BY <1>1, Eofed, Zenon DEF mid
<1>2. PICK p, m, q : Parted(s, p, m, q)
  BY Zenon DEF Shape
<1>3. PICK x, n : Parted(t, x, mid, n) /\ Carries(x, p, q) /\ n \in Seq({"nl"})
  BY <1>1, <1>2, Zenon
<1>4. Shape(t, FALSE) /\ Holds(t, "eof")
  BY <1>3, Zenon DEF Shape, Holds, mid
<1>5. ASSUME NEW toks, "nl" \notin toks PROVE Only(n, toks) = <<>>
  BY <1>3, <1>5, LineEndsOnly, Zenon
<1>6. KeepsUser(t, s)
  <2>1. UserOf(t, x, n)
    BY <1>3, UserParted, Zenon
  <2>2. UserOf(s, p, q)
    BY <1>2, UserParted, Zenon
  <2>3. Only(x, UserToks) = Only(p, UserToks) \o Only(q, UserToks)
    BY <1>3, TokSets, Zenon DEF Carries
  <2>4. Only(x, UserToks) \in Seq(Token)
    <3>1. PartsTyped(t, x, mid, n)
      BY <1>3, PartedTypes
    <3>2. x \in Seq(Token)
      BY <3>1, Zenon DEF PartsTyped
    <3> QED BY <3>2, OnlyInSeq
  <2>5. Only(x, UserToks) \o <<>> = Only(x, UserToks)
    BY <2>4, ConcatEmptySeq, Zenon
  <2>6. Only(n, UserToks) = <<>>
    BY <1>5, TokSets, Zenon
  <2> QED BY <2>1, <2>2, <2>3, <2>5, <2>6, Zenon DEF KeepsUser, UserOf
<1>7. SameJunk(t, s)
  <2>1. Contains(t, "junk") <=> Contains(x, "junk") \/ Contains(n, "junk")
    BY <1>3, JunkParted, Zenon
  <2>2. Contains(s, "junk") <=> Contains(p, "junk") \/ Contains(q, "junk")
    BY <1>2, JunkParted, Zenon
  <2>3. ~Contains(n, "junk")
    BY <1>3, LineEndsOnly, Zenon
  <2> QED BY <1>3, <2>1, <2>2, <2>3, Zenon DEF SameJunk, Carries
<1>8. ASSUME Holds(s, "eof") PROVE SameButLineEnds(t, s)
  <2>1. PICK p1, q1 : Parted(s, p1, mid, q1) /\ q1 \in Seq({"nl"})
    BY <1>8, Zenon DEF Holds, mid
  <2>2. PICK x1, n1 : Parted(t, x1, mid, n1) /\ Carries(x1, p1, q1) /\ n1 \in Seq({"nl"})
    BY <1>1, <2>1, Zenon
  <2> DEFINE L == LessLineEnds
  <2>3. OnlyOf(t, x1, mid, n1, L)
    BY <2>2, OnlyThree, Zenon
  <2>4. OnlyOf(s, p1, mid, q1, L)
    BY <2>1, OnlyThree, Zenon
  <2>5. Only(x1, L) = Only(p1, L) \o Only(q1, L)
    BY <2>2, TokSets, Zenon DEF Carries
  <2>6. Only(q1, L) = <<>> /\ Only(n1, L) = <<>>
    BY <2>1, <2>2, TokSets, LineEndsOnly, Zenon
  <2>7. Only(p1, L) \in Seq(Token)
    <3>1. PartsTyped(s, p1, mid, q1)
      BY <2>1, PartedTypes
    <3>2. p1 \in Seq(Token)
      BY <3>1, Zenon DEF PartsTyped
    <3> QED BY <3>2, OnlyInSeq
  <2>8. Only(p1, L) \o <<>> = Only(p1, L)
    BY <2>7, ConcatEmptySeq, Zenon
  <2> QED BY <2>3, <2>4, <2>5, <2>6, <2>8, Zenon DEF SameButLineEnds, OnlyOf
<1>9. KeepsApp(s, t)
  <2> DEFINE c == IF f = "lua" THEN 2 ELSE 1
             u == strip_existing(s, c)
             v == WithLineEnd(u)
             B == EofBlock(f)
  <2>1. s \in Seq(Token) /\ p \in Seq(Plain) /\ q \in Seq(Plain)
    <3>1. PartsTyped(s, p, m, q)
      BY <1>2, PartedTypes
    <3> QED BY <3>1, Zenon DEF PartsTyped
  <2>2. c \in {1, 2}
    OBVIOUS
  <2>3. t = v \o B
    BY Zenon DEF apply_block
  <2> HIDE DEF c
  <2>4. KeepsApp(s, u)
    BY <2>1, <2>2, StripKeepsApp
  <2>5. u \in Seq(Token)
    <3>1. LeftOf(u, p, q)
      BY <1>2, <2>2, Stripped
    <3>2. PICK y \in Seq(Plain) : u = p \o y
      BY <3>1, Zenon DEF LeftOf
    <3>3. p \o y \in Seq(Plain)
      BY <2>1, ConcatProperties, Zenon
    <3> HIDE DEF u
    <3> QED BY <3>2, <3>3, PlainTexts, Zenon
  <2> HIDE DEF u
  <2>6. "nl" \in Token /\ <<"nl">> \in Seq(Token)
    BY DEF Token, User
  <2>7. v \in Seq(Token) /\ KeepsApp(u, v)
    <3>1. CASE v = u
      BY <2>5, <3>1 DEF KeepsApp
    <3>2. CASE v = Append(u, "nl")
      <4>1. v = u \o <<"nl">> /\ v \in Seq(Token)
        BY <2>5, <2>6, <3>2
      <4> QED BY <2>5, <2>6, <4>1, AppGrows
    <3> QED BY <3>1, <3>2, Zenon DEF WithLineEnd
  <2>8. B \in Seq(Token)
    BY EofBlockTyped
  <2> HIDE DEF v, B
  <2>9. KeepsApp(v, v \o B)
    BY <2>7, <2>8, AppGrows
  <2> QED BY <2>3, <2>4, <2>7, <2>9, Zenon DEF KeepsApp
<1> QED BY <1>4, <1>6, <1>7, <1>8, <1>9, Zenon

(* What re-anchoring does to server.py.                                    *)
LEMMA ReanchorEffect ==
  ASSUME NEW s, NEW unmoved, Shape(s, unmoved), NEW t, t = reanchor(s)
  PROVE  Shape(t, FALSE) /\ KeepsUser(t, s) /\ Contains(t, "junk") /\ KeepsApp(s, t)
<1> DEFINE mid == <<"begin">> \o <<"reanchor", "end">>
           e == <<"nl", "nl", "nl">>
<1>0. e \in Seq({"nl"})
  OBVIOUS
<1> HIDE DEF mid, e
<1>1. PICK p, m, q : Parted(s, p, m, q)
  BY Zenon DEF Shape
<1>2. PICK x : /\ Parted(t, x, mid, e)
               /\ UserOf(x, p, q) /\ Contains(x, "junk")
  BY <1>1, Reanchored, Zenon DEF mid, e
<1>3. Shape(t, FALSE)
  BY <1>2, Zenon DEF Shape
<1>4. KeepsUser(t, s)
  <2>1. UserOf(t, x, e)
    BY <1>2, UserParted, Zenon
  <2>2. UserOf(s, p, q)
    BY <1>1, UserParted, Zenon
  <2>3. Only(e, UserToks) = <<>>
    BY <1>0, TokSets, LineEndsOnly, Zenon
  <2>4. Only(x, UserToks) \in Seq(Token)
    <3>1. PartsTyped(t, x, mid, e)
      BY <1>2, PartedTypes
    <3>2. x \in Seq(Token)
      BY <3>1, Zenon DEF PartsTyped
    <3> QED BY <3>2, OnlyInSeq
  <2>5. Only(x, UserToks) \o <<>> = Only(x, UserToks)
    BY <2>4, ConcatEmptySeq, Zenon
  <2> QED BY <1>2, <2>1, <2>2, <2>3, <2>5, Zenon DEF KeepsUser, UserOf
<1>5. Contains(t, "junk")
  BY <1>2, JunkParted, Zenon
<1>6. KeepsApp(s, t)
  <2> DEFINE u == strip_existing(s, 1)
             j == <<"junk">>
             B == SERVER_PY_BLOCK_TAIL
  <2>1. s \in Seq(Token) /\ p \in Seq(Plain) /\ q \in Seq(Plain)
    <3>1. PartsTyped(s, p, m, q)
      BY <1>1, PartedTypes
    <3> QED BY <3>1, Zenon DEF PartsTyped
  <2>2. KeepsApp(s, u)
    BY <2>1, StripKeepsApp
  <2>3. u \in Seq(Token)
    <3>1. LeftOf(u, p, q)
      BY <1>1, Stripped
    <3>2. PICK y \in Seq(Plain) : u = p \o y
      BY <3>1, Zenon DEF LeftOf
    <3>3. p \o y \in Seq(Plain)
      BY <2>1, ConcatProperties, Zenon
    <3> HIDE DEF u
    <3> QED BY <3>2, <3>3, PlainTexts, Zenon
  <2>4. j \in Seq(Token) /\ B \in Seq(Token)
    BY DEF SERVER_PY_BLOCK_TAIL, Token, User, Scripts
  <2>5. t = (u \o j) \o B
    BY Zenon DEF reanchor
  <2> HIDE DEF u, j, B
  <2>6. u \o j \in Seq(Token)
    BY <2>3, <2>4, ConcatProperties, Zenon
  <2>7. KeepsApp(u, u \o j) /\ KeepsApp(u \o j, (u \o j) \o B)
    BY <2>3, <2>4, <2>6, AppGrows
  <2> QED BY <2>2, <2>5, <2>7, Zenon DEF KeepsApp
<1> QED BY <1>3, <1>4, <1>5, <1>6

(* What the fallback does to server.py, when it has a block.               *)
LEMMA FallbackEffect ==
  ASSUME NEW s, NEW unmoved, Shape(s, unmoved), BlockBegin(s) # 0,
         NEW t, t = insert_fallback(s)
  PROVE  /\ Shape(t, unmoved) /\ KeepsUser(t, s) /\ SameJunk(t, s)
         /\ HasFallback(t) /\ KeepsApp(s, t)
         /\ Contains(s, "fallback") => t = s
<1>1. PICK p, m, q : /\ Parted(s, p, m, q)
                     /\ unmoved /\ m # <<>> => ~Contains(p, "main")
  BY Zenon DEF Shape
<1>2. m # <<>>
  BY <1>1, NoBlock, Zenon
<1>3. PICK r : Rest(r) /\ m = <<"begin">> \o r
  BY <1>1, <1>2, Zenon DEF Parted, Marked
<1> DEFINE b == <<"begin">>
<1>4. PICK z : Rest(z) /\ FirstAt(z, "fallback", 1) /\ Parted(t, p, b \o z, q)
  <2>1. Parted(s, p, <<"begin">> \o r, q)
    BY <1>1, <1>3, Zenon
  <2> QED BY <1>3, <2>1, FallbackPut, Zenon
<1>5. Shape(t, unmoved)
  BY <1>1, <1>2, <1>4, Zenon DEF Shape
<1>6. KeepsUser(t, s)
  <2>1. UserOf(t, p, q)
    BY <1>4, UserParted, Zenon
  <2>2. UserOf(s, p, q)
    BY <1>1, UserParted, Zenon
  <2> QED BY <2>1, <2>2, Zenon DEF KeepsUser, UserOf
<1>7. SameJunk(t, s)
  <2>1. Contains(t, "junk") <=> Contains(p, "junk") \/ Contains(q, "junk")
    BY <1>4, JunkParted, Zenon
  <2>2. Contains(s, "junk") <=> Contains(p, "junk") \/ Contains(q, "junk")
    BY <1>1, JunkParted, Zenon
  <2> QED BY <2>1, <2>2, Zenon DEF SameJunk
<1>8. HasFallback(t)
  <2>1. /\ p \in Seq(Token) /\ q \in Seq(Token) /\ z \in Seq(Token) /\ b \in Seq(Token)
        /\ Len(b) = 1 /\ ~Contains(p, "fallback") /\ ~Contains(b, "fallback")
        /\ t \in Seq(Token)
    <3>1. PartsTyped(t, p, b \o z, q)
      BY <1>4, PartedTypes, Zenon
    <3>2. p \in Seq(Plain) /\ p \in Seq(Token) /\ q \in Seq(Token) /\ t \in Seq(Token)
      BY <3>1, Zenon DEF PartsTyped
    <3>3. b \in Seq(Token) /\ Len(b) = 1 /\ ~Contains(b, "fallback")
      BY DEF Token, Contains
    <3> QED BY <1>4, <3>2, <3>3, PlainTexts, RestIs, Zenon
  <2>2. BlockBegin(t) = Len(p) + 1 /\ BlockBegin(t) # 0
    <3>1. BlockBegin(t) = Len(p) + 1
      BY <1>4, ABlock
    <3> QED BY <2>1, <3>1
  <2>3. t = (p \o b) \o (z \o q)
    <3>1. Regroups(p, b, z, q)
      BY <2>1, Regroup
    <3> QED BY <1>4, <3>1, Zenon DEF Regroups, Parted
  <2> HIDE DEF b
  <2>4. p \o b \in Seq(Token) /\ z \o q \in Seq(Token) /\ Len(p \o b) = Len(p) + 1
    <3>1. p \o b \in Seq(Token) /\ Len(p \o b) = Len(p) + Len(b)
      BY <2>1, ConcatProperties, Zenon
    <3>2. z \o q \in Seq(Token)
      BY <2>1, ConcatProperties, Zenon
    <3> QED BY <2>1, <3>1, <3>2, Zenon
  <2>5. ~Contains(p \o b, "fallback")
    BY <2>1, ContainsConcat, Zenon
  <2>6. FirstAt(z \o q, "fallback", 1)
    BY <1>4, <2>1, FirstBefore, Zenon
  <2>7. FirstAt((p \o b) \o (z \o q), "fallback", Len(p \o b) + 1)
    BY <2>4, <2>5, <2>6, FirstAfter, Zenon
  <2>8. FirstAt(t, "fallback", Len(p) + 1 + 1)
    BY <2>3, <2>4, <2>7, Zenon
  <2>9. Find(t, "fallback") = Len(p) + 1 + 1
    BY <2>1, <2>8, FindFirst, Zenon
  <2>10. Contains(t, "fallback")
    BY <2>8, Zenon DEF FirstAt, Contains
  <2> QED BY <2>2, <2>9, <2>10, Zenon DEF HasFallback
<1>9. Contains(s, "fallback") => t = s
  BY DEF insert_fallback
<1>10. KeepsApp(s, t)
  <2>1. CASE Contains(s, "fallback")
    BY <1>9, <2>1 DEF KeepsApp
  <2>2. CASE ~Contains(s, "fallback")
    <3> DEFINE k == BlockBegin(s)
               u == Before(s, k + 1)
               a == FALLBACK_PATCH
               rest == After(s, k)
    <3>1. s \in Seq(Token)
      <4>1. PartsTyped(s, p, m, q)
        BY <1>1, PartedTypes
      <4> QED BY <4>1, Zenon DEF PartsTyped
    <3>2. FirstAt(s, "begin", k) /\ k + 1 \in {k, k + 1}
      BY <3>1, BeginIs
    <3>3. t = (u \o a) \o rest
      BY <2>2, Zenon DEF insert_fallback
    <3>4. a \in Seq(Token)
      BY DEF FALLBACK_PATCH, Token, Scripts
    <3>5. k \in 1..Len(s)
      BY <3>2 DEF FirstAt
    <3>6. rest \in Seq(Token) /\ u \in Seq(Token)
      <4>1. rest \in Seq(Token)
        BY <3>1, <3>5, AfterTyped
      <4>2. u \in Seq(Token)
        BY <3>1, <3>5 DEF Before
      <4> QED BY <4>1, <4>2
    <3> HIDE DEF k, a, rest
    <3>7. KeepsApp(s, u \o a)
      BY <3>1, <3>2, <3>4, AppStays
    <3> HIDE DEF u
    <3>8. u \o a \in Seq(Token)
      BY <3>4, <3>6, ConcatProperties, Zenon
    <3>9. KeepsApp(u \o a, (u \o a) \o rest)
      BY <3>6, <3>8, AppGrows
    <3> QED BY <3>3, <3>7, <3>9, Zenon DEF KeepsApp
  <2> QED BY <2>1, <2>2
<1> QED BY <1>5, <1>6, <1>7, <1>8, <1>9, <1>10

-----------------------------------------------------------------------------
(* The invariant, and that it holds at the start.                          *)

(* The files that the run has still to write.                              *)
Left == {todo[i] : i \in 1..Len(todo)}
(* The file whose block must stay in front of the call that serves.        *)
Unmoved(f, moved) == f = "server" /\ ~moved

(* Types, and the files of a run in their order.                           *)
Typed ==
  /\ PatchTypeOK
  /\ script \in {"none", "splice", "eof"}
  /\ todo \in {AllFiles, <<"html", "lua">>, <<"lua">>, <<>>}

(* What a file holds, whoever has written it.                              *)
TextInv ==
  /\ \A f \in File : Shape(text[f], Unmoved(f, tail))
  /\ reanchored <=> Contains(text["server"], "junk")
  /\ KeepsApp(base["server"], text["server"])
  /\ UserCodeKept

(* While a splice runs, the files it has written are as it writes them;    *)
(* when it repeats one that went well, the others are so too, and nothing  *)
(* but line ends has changed; and it can write what is left.               *)
Going ==
  /\ script # "none" =>
       /\ done = "none" /\ exit = "none"
       /\ \A f \in File : f \in Left \/ Holds(text[f], script)
       /\ again => \A f \in File : /\ Holds(text[f], script)
                                   /\ SameButLineEnds(text[f], before[f])
  /\ script = "splice" =>
       /\ \A f \in File : exists[f]
       /\ \A f \in Left : ~Raises(text[f], Anchor(f))
       /\ \A f \in File : text[f] = IF f \in Left THEN before[f] ELSE AsSpliced(f)

(* When it has ended well, all files are as it writes them; however it has *)
(* ended, it has kept what it promises of runs that do not end well.       *)
Gone ==
  /\ exit = "0" /\ done \in {"splice", "eof"} =>
       tests = done /\ \A f \in File : Holds(text[f], done)
  /\ exit = "0" /\ done = "fallback" => HasFallback(text["server"])
  /\ RerunAddsOnlyLineEnds /\ RefusedRunChangesNothing

(* The inductive invariant of the scripts.                                 *)
PatchInv == Typed /\ TextInv /\ Going /\ Gone

(* A text with at most one block is a sequence of tokens.                  *)
LEMMA ShapeTyped ==
  ASSUME NEW s, NEW u, Shape(s, u)
  PROVE  s \in Seq(Token)
<1>1. PICK p, m, q : Parted(s, p, m, q)
  BY Zenon DEF Shape
<1>2. PartsTyped(s, p, m, q)
  BY <1>1, PartedTypes
<1> QED BY <1>2, Zenon DEF PartsTyped

(* The three files.                                                        *)
LEMMA FileIs == "server" \in File /\ "html" \in File /\ "lua" \in File
BY DEF File

(* A text without tokens of the scripts has the shape of any.              *)
LEMMA UserShape ==
  ASSUME NEW s \in Seq(User), NEW u
  PROVE  Shape(s, u) /\ ~Contains(s, "junk") /\ s \in Seq(Token)
<1>1. s \in Seq(Plain) /\ <<>> \in Seq(Plain) /\ s \o <<>> = s
  BY PlainTokens
<1>2. (s \o <<>>) \o <<>> = s
  BY <1>1, Zenon
<1>3. Parted(s, s, <<>>, <<>>)
  BY <1>1, <1>2, Zenon DEF Parted
<1>4. Shape(s, u)
  BY <1>3, Zenon DEF Shape
<1>5. ~Contains(s, "junk")
  <2>1. "junk" \notin User
    BY DEF User
  <2> QED BY <2>1, ContainsNone
<1> QED BY <1>1, <1>4, <1>5, PlainTexts

(* No script has run: the texts are all their users'.                      *)
LEMMA PatchInvInit == PatchInit => PatchInv
<1> SUFFICES ASSUME PatchInit PROVE PatchInv
  OBVIOUS
<1>1. \A f \in File : text[f] \in Seq(User)
  BY PatchAssumption DEF PatchInit
<1>2. text \in [File -> Seq(Token)]
  <2>1. \A f \in File : text[f] \in Seq(Token)
    BY <1>1, UserShape
  <2>2. text \in [File -> UNION {Texts[f] : f \in File}]
    BY DEF PatchInit
  <2> QED BY <2>1, <2>2
<1>3. Typed
  <2>1. 0 \in 0..MaxRuns
    BY PatchAssumption
  <2>2. todo = <<>> /\ <<>> \in Seq(File)
    BY DEF PatchInit
  <2>3. exists \in [File -> BOOLEAN] /\ \A f \in File : ~exists[f] => text[f] = <<>>
    BY DEF PatchInit
  <2> QED BY <1>2, <2>1, <2>2, <2>3, Zenon DEF PatchInit, Typed, PatchTypeOK
<1>4. TextInv
  <2>1. \A f \in File : Shape(text[f], Unmoved(f, tail)) /\ ~Contains(text[f], "junk")
    BY <1>1, UserShape
  <2>2. base = text /\ reanchored = FALSE
    BY DEF PatchInit
  <2> QED BY <2>1, <2>2, FileIs, Zenon DEF TextInv, UserCodeKept, KeepsApp
<1>5. Going /\ Gone
  BY DEF PatchInit, Going, Gone, RerunAddsOnlyLineEnds, RefusedRunChangesNothing
<1> QED BY <1>3, <1>4, <1>5 DEF PatchInv

(* Only a write touches what the texts are known by.                       *)
LEMMA TextStays ==
  ASSUME TextInv, text' = text, tail' = tail, reanchored' = reanchored, base' = base
  PROVE  TextInv'
BY Zenon DEF TextInv, UserCodeKept, Unmoved

(* The same of what a step has made of one file.                           *)
LEMMA TextWritten ==
  ASSUME TextInv, Typed, NEW f \in File, NEW t, text' = [text EXCEPT ![f] = t],
         base' = base, tail => tail', Shape(t, Unmoved(f, tail')), KeepsUser(t, text[f]),
         f = "server" => KeepsApp(text[f], t),
         \/ reanchored' = reanchored /\ SameJunk(t, text[f])
         \/ reanchored' = TRUE /\ f = "server" /\ Contains(t, "junk")
  PROVE  TextInv'
<1>1. text'[f] = t /\ \A g \in File : g # f => text'[g] = text[g]
  BY DEF Typed, PatchTypeOK
<1>2. \A g \in File : Shape(text'[g], Unmoved(g, tail'))
  <2> TAKE g \in File
  <2>1. CASE g = f
    BY <1>1, <2>1, Zenon
  <2>2. CASE g # f
    <3>1. Shape(text[g], Unmoved(g, tail)) /\ text'[g] = text[g]
      BY <1>1, <2>2, Zenon DEF TextInv
    <3>2. Unmoved(g, tail') => Unmoved(g, tail)
      BY Zenon DEF Unmoved
    <3>3. Shape(text[g], Unmoved(g, tail'))
      BY <3>1, <3>2, Zenon DEF Shape
    <3> QED BY <3>1, <3>3, Zenon
  <2> QED BY <2>1, <2>2
<1>3. reanchored' <=> Contains(text'["server"], "junk")
  <2>1. reanchored <=> Contains(text["server"], "junk")
    BY DEF TextInv
  <2>2. CASE reanchored' = reanchored /\ SameJunk(t, text[f])
    <3>1. Contains(text'["server"], "junk") <=> Contains(text["server"], "junk")
      <4>1. CASE f = "server"
        BY <1>1, <2>2, <4>1, Zenon DEF SameJunk
      <4>2. CASE f # "server"
        BY <1>1, <4>2, FileIs, Zenon
      <4> QED BY <4>1, <4>2
    <3> QED BY <2>1, <2>2, <3>1
  <2>3. CASE reanchored' = TRUE /\ f = "server" /\ Contains(t, "junk")
    BY <1>1, <2>3
  <2> QED BY <2>2, <2>3
<1>4. UserCodeKept'
  <2>1. \A g \in File : Only(text[g], UserToks) = Only(base[g], UserToks)
    BY Zenon DEF TextInv, UserCodeKept, UserToks
  <2>2. \A g \in File : Only(text'[g], UserToks) = Only(base'[g], UserToks)
    BY <1>1, <2>1, Zenon DEF KeepsUser
  <2> QED BY <2>2, Zenon DEF UserCodeKept, UserToks
<1>5. KeepsApp(base'["server"], text'["server"])
  <2>1. KeepsApp(base["server"], text["server"])
    BY DEF TextInv
  <2>2. CASE f = "server"
    BY <1>1, <2>1, <2>2, Zenon DEF KeepsApp
  <2>3. CASE f # "server"
    BY <1>1, <2>1, <2>3, FileIs, Zenon
  <2> QED BY <2>2, <2>3
<1> QED BY <1>2, <1>3, <1>4, <1>5, Zenon DEF TextInv

(* A write of a splice: the file it is about, and what it becomes.         *)
Written(f, t) ==
  /\ f \in File /\ f \in Left /\ Left' = Left \ {f}
  /\ text' = [text EXCEPT ![f] = t]
  /\ Shape(t, Unmoved(f, tail')) /\ Holds(t, script)
  /\ KeepsUser(t, text[f]) /\ SameJunk(t, text[f])
  /\ Holds(text[f], script) => SameButLineEnds(t, text[f])
  /\ f = "server" => KeepsApp(text[f], t)
  /\ script = "splice" => t = splice_around(text[f], SpliceBlock(f), Anchor(f))

(* The files are written in their order.                                   *)
LEMMA QueueMoves ==
  ASSUME Typed, todo # <<>>
  PROVE  /\ Head(todo) \in File /\ Head(todo) \in Left
         /\ Tail(todo) \in {<<"html", "lua">>, <<"lua">>, <<>>}
         /\ \A t : t = Tail(todo) =>
              {t[i] : i \in 1..Len(t)} = Left \ {Head(todo)}
<1>1. CASE todo = AllFiles
  <2>1. Head(todo) = "server" /\ Tail(todo) = <<"html", "lua">>
    BY <1>1 DEF AllFiles
  <2>2. Left = {"server", "html", "lua"}
    BY <1>1 DEF Left, AllFiles
  <2>3. \A t : t = <<"html", "lua">> => {t[i] : i \in 1..Len(t)} = {"html", "lua"}
    OBVIOUS
  <2> QED BY <2>1, <2>2, <2>3, FileIs
<1>2. CASE todo = <<"html", "lua">>
  <2>1. Head(todo) = "html" /\ Tail(todo) = <<"lua">>
    BY <1>2
  <2>2. Left = {"html", "lua"}
    BY <1>2 DEF Left
  <2>3. \A t : t = <<"lua">> => {t[i] : i \in 1..Len(t)} = {"lua"}
    OBVIOUS
  <2> QED BY <2>1, <2>2, <2>3, FileIs
<1>3. CASE todo = <<"lua">>
  <2>1. Head(todo) = "lua" /\ Tail(todo) = <<>>
    BY <1>3
  <2>2. Left = {"lua"}
    BY <1>3 DEF Left
  <2>3. \A t : t = <<>> => {t[i] : i \in 1..Len(t)} = {}
    OBVIOUS
  <2> QED BY <2>1, <2>2, <2>3, FileIs
<1> QED BY <1>1, <1>2, <1>3 DEF Typed

(* What is left are the last files.                                        *)
LEMMA FirstFilesLeft ==
  ASSUME Typed
  PROVE  \E n \in 0..3 : \A i \in 1..3 : AllFiles[i] \in Left <=> ~(i <= n)
<1>0. /\ AllFiles[1] = "server" /\ AllFiles[2] = "html" /\ AllFiles[3] = "lua"
      /\ \A i \in 1..3 : i = 1 \/ i = 2 \/ i = 3
  BY DEF AllFiles
<1>1. CASE todo = AllFiles
  <2>1. Left = {"server", "html", "lua"}
    BY <1>1 DEF Left, AllFiles
  <2>2. \A i \in 1..3 : AllFiles[i] \in Left <=> ~(i <= 0)
    BY <1>0, <2>1
  <2> QED BY <2>2
<1>2. CASE todo = <<"html", "lua">>
  <2>1. Left = {"html", "lua"}
    BY <1>2 DEF Left
  <2>2. \A i \in 1..3 : AllFiles[i] \in Left <=> ~(i <= 1)
    BY <1>0, <2>1
  <2> QED BY <2>2
<1>3. CASE todo = <<"lua">>
  <2>1. Left = {"lua"}
    BY <1>3 DEF Left
  <2>2. \A i \in 1..3 : AllFiles[i] \in Left <=> ~(i <= 2)
    BY <1>0, <2>1
  <2> QED BY <2>2
<1>4. CASE todo = <<>>
  <2>1. Left = {}
    BY <1>4 DEF Left
  <2>2. \A i \in 1..3 : AllFiles[i] \in Left <=> ~(i <= 3)
    BY <1>0, <2>1
  <2> QED BY <2>2
<1> QED BY <1>1, <1>2, <1>3, <1>4 DEF Typed

(* Every write of either splice is one of these.                           *)
LEMMA WriteWrites ==
  ASSUME PatchInv, WriteNext, exists[Head(todo)]
  PROVE  /\ \E t : Written(Head(todo), t)
         /\ todo' = Tail(todo) /\ tail => tail'
         /\ UNCHANGED <<script, done, exit, exists, tests, login, base, before,
                        again, reanchored, runs>>
<1> DEFINE f == Head(todo)
           t == IF script = "eof" THEN apply_block(f, text[f])
                ELSE splice_around(text[f], SpliceBlock(f), Anchor(f))
<1>1. /\ todo # <<>> /\ todo' = Tail(todo)
      /\ text' = [text EXCEPT ![f] = t]
      /\ tail' = (tail \/ (script = "eof" /\ f = "server"))
      /\ UNCHANGED <<script, done, exit, exists, tests, login, base, before,
                     again, reanchored, runs>>
  BY DEF WriteNext
<1>2. f \in File /\ f \in Left /\ Left' = Left \ {f}
  <2>1. Left' = {Tail(todo)[i] : i \in 1..Len(Tail(todo))}
    BY <1>1 DEF Left
  <2> QED BY <1>1, <2>1, QueueMoves DEF PatchInv
<1>3. Shape(text[f], Unmoved(f, tail)) /\ script \in {"splice", "eof"} /\ (tail => tail')
  <2>1. script # "none"
    BY <1>1 DEF PatchInv, Typed, PatchTypeOK
  <2> QED BY <1>1, <1>2, <2>1, Zenon DEF PatchInv, Typed, TextInv
<1> HIDE DEF f
<1>4. CASE script = "eof"
  <2>1. t = apply_block(f, text[f])
    BY <1>4
  <2> HIDE DEF t
  <2>2. /\ Shape(t, FALSE) /\ Holds(t, "eof")
        /\ KeepsUser(t, text[f]) /\ SameJunk(t, text[f])
        /\ Holds(text[f], "eof") => SameButLineEnds(t, text[f])
        /\ KeepsApp(text[f], t)
    BY <1>2, <1>3, <2>1, EofEffect, Zenon
  <2>3. ~Unmoved(f, tail')
    BY <1>1, <1>4 DEF Unmoved
  <2>4. Shape(t, Unmoved(f, tail'))
    BY <2>2, <2>3, Zenon DEF Shape
  <2> QED BY <1>1, <1>2, <1>3, <1>4, <2>2, <2>4, Zenon DEF Written, f
<1>5. CASE script = "splice"
  <2>0. t = splice_around(text[f], SpliceBlock(f), Anchor(f))
    BY <1>5
  <2>1. t = splice_around(text[f], <<"begin", "splice", "end", "nl">>, Anchor(f))
    BY <1>2, <1>5, SpliceBlockIs
  <2>2. ~Raises(text[f], Anchor(f))
    BY <1>2, <1>5, Zenon DEF PatchInv, Going
  <2>3. Unmoved(f, tail) => Anchor(f) = "main"
    BY Zenon DEF Unmoved, Anchor
  <2> HIDE DEF t
  <2>4. /\ Shape(t, Unmoved(f, tail)) /\ Holds(t, "splice")
        /\ KeepsUser(t, text[f]) /\ SameJunk(t, text[f])
        /\ Holds(text[f], "splice") => SameButLineEnds(t, text[f])
        /\ Anchor(f) = "main" => KeepsApp(text[f], t)
    BY <1>3, <2>1, <2>2, <2>3, SpliceEffect, Zenon
  <2>5. Shape(t, Unmoved(f, tail'))
    <3>1. Unmoved(f, tail') => Unmoved(f, tail)
      BY <1>3 DEF Unmoved
    <3> QED BY <2>4, <3>1, Zenon DEF Shape
  <2>6. f = "server" => Anchor(f) = "main"
    BY Zenon DEF Anchor
  <2> QED BY <1>1, <1>2, <1>3, <1>5, <2>0, <2>4, <2>5, <2>6, Zenon DEF Written, f
<1> QED BY <1>3, <1>4, <1>5

-----------------------------------------------------------------------------
(* Steps and the texts.                                                    *)

(* A step writes one file that is there, or none.                          *)
TextMoves ==
  /\ exists' = exists /\ base' = base
  /\ \/ text' = text
     \/ \E f \in File : exists[f] /\ \E t : text' = [text EXCEPT ![f] = t]

(* The text is as TextInv says after every step, and one file moves.       *)
LEMMA TextStep ==
  ASSUME PatchInv, PatchNext
  PROVE  TextInv' /\ TextMoves
<1>0. TextInv /\ Typed
  BY DEF PatchInv
<1>1. CASE StartSplice \/ StartEof \/ WriteTests \/ WriteFails \/ Kill
  <2>1. /\ text' = text /\ tail' = tail /\ reanchored' = reanchored
        /\ base' = base /\ exists' = exists
    BY <1>1 DEF StartSplice, StartEof, WriteTests, WriteFails, Kill, Begin, ghostVars
  <2> QED BY <1>0, <2>1, TextStays, Zenon DEF TextMoves
<1>2. CASE WriteNext
  <2>1. CASE exists[Head(todo)]
    <3>1. /\ \E t : Written(Head(todo), t)
          /\ tail => tail'
          /\ exists' = exists /\ base' = base /\ reanchored' = reanchored
      <4>1. \E t : Written(Head(todo), t)
        BY <1>2, <2>1, WriteWrites, Zenon
      <4>2. /\ tail => tail'
            /\ exists' = exists /\ base' = base /\ reanchored' = reanchored
        BY <1>2, <2>1 DEF WriteNext
      <4> QED BY <4>1, <4>2
    <3>2. PICK t : Written(Head(todo), t)
      BY <3>1
    <3>3. PICK f \in File : f = Head(todo)
      BY <3>2, Zenon DEF Written
    <3>4. /\ text' = [text EXCEPT ![f] = t]
          /\ Shape(t, Unmoved(f, tail')) /\ KeepsUser(t, text[f]) /\ SameJunk(t, text[f])
          /\ f = "server" => KeepsApp(text[f], t)
      BY <3>2, <3>3, Zenon DEF Written
    <3>5. TextInv'
      BY <1>0, <3>1, <3>4, TextWritten, Zenon
    <3> QED BY <2>1, <3>1, <3>3, <3>4, <3>5, Zenon DEF TextMoves
  <2>2. CASE ~exists[Head(todo)]
    <3>1. /\ text' = text /\ tail' = tail /\ reanchored' = reanchored
          /\ base' = base /\ exists' = exists
      BY <1>2, <2>2 DEF WriteNext
    <3> QED BY <1>0, <3>1, TextStays, Zenon DEF TextMoves
  <2> QED BY <2>1, <2>2
<1> DEFINE s == text["server"]
<1>3. "server" \in File /\ Shape(s, Unmoved("server", tail))
  BY <1>0, FileIs, Zenon DEF TextInv
<1>4. CASE Reanchor
  <2>1. CASE exists["server"] /\ text' = [text EXCEPT !["server"] = reanchor(s)]
             /\ tail' = TRUE /\ reanchored' = TRUE
    <3>1. base' = base /\ exists' = exists
      BY <1>4 DEF Reanchor, Begin
    <3>2. /\ Shape(reanchor(s), FALSE) /\ KeepsUser(reanchor(s), s)
          /\ Contains(reanchor(s), "junk") /\ KeepsApp(s, reanchor(s))
      BY <1>3, ReanchorEffect, Zenon
    <3>3. Shape(reanchor(s), Unmoved("server", tail'))
      BY <2>1, <3>2, Zenon DEF Shape, Unmoved
    <3>4. TextInv'
      BY <1>0, <1>3, <2>1, <3>1, <3>2, <3>3, TextWritten, Zenon
    <3> QED BY <1>3, <2>1, <3>1, <3>4, Zenon DEF TextMoves
  <2>2. CASE text' = text /\ tail' = tail /\ reanchored' = reanchored
    <3>1. base' = base /\ exists' = exists
      BY <1>4 DEF Reanchor, Begin
    <3> QED BY <1>0, <2>2, <3>1, TextStays, Zenon DEF TextMoves
  <2> QED BY <1>4, <2>1, <2>2 DEF Reanchor
<1>5. CASE ApplyFallback
  <2>1. CASE exists["server"] /\ BlockBegin(s) # 0
             /\ text' = [text EXCEPT !["server"] = insert_fallback(s)]
    <3>1. tail' = tail /\ reanchored' = reanchored /\ base' = base /\ exists' = exists
      BY <1>5 DEF ApplyFallback, Begin
    <3>2. /\ Shape(insert_fallback(s), Unmoved("server", tail))
          /\ KeepsUser(insert_fallback(s), s) /\ SameJunk(insert_fallback(s), s)
          /\ KeepsApp(s, insert_fallback(s))
      BY <1>3, <2>1, FallbackEffect, Zenon
    <3>3. Shape(insert_fallback(s), Unmoved("server", tail'))
      BY <3>1, <3>2, Zenon
    <3>4. TextInv'
      BY <1>0, <1>3, <2>1, <3>1, <3>2, <3>3, TextWritten, Zenon
    <3> QED BY <1>3, <2>1, <3>1, <3>4, Zenon DEF TextMoves
  <2>2. CASE text' = text
    <3>1. /\ tail' = tail /\ reanchored' = reanchored
          /\ base' = base /\ exists' = exists
      BY <1>5 DEF ApplyFallback, Begin
    <3> QED BY <1>0, <2>2, <3>1, TextStays, Zenon DEF TextMoves
  <2> QED BY <1>5, <2>1, <2>2 DEF ApplyFallback
<1> QED BY <1>1, <1>2, <1>4, <1>5 DEF PatchNext

(* The types of what a step does not compute with.                         *)
LEMMA TypedStep ==
  ASSUME PatchInv, PatchNext, TextInv', TextMoves
  PROVE  Typed'
<1>0. Typed /\ PatchTypeOK
  BY DEF PatchInv, Typed
<1>1. text' \in [File -> Seq(Token)]
  <2>1. \A f \in File : text'[f] \in Seq(Token)
    BY ShapeTyped, Zenon DEF TextInv
  <2> QED BY <1>0, <2>1 DEF TextMoves, PatchTypeOK
<1>2. /\ exists' \in [File -> BOOLEAN] /\ base' \in [File -> Seq(Token)]
      /\ \A f \in File : ~exists'[f] => text'[f] = <<>>
  BY <1>0 DEF TextMoves, PatchTypeOK
<1>3. before' \in [File -> Seq(Token)]
  <2>1. before' = before \/ before' = text
    BY DEF PatchNext, StartSplice, StartEof, WriteNext, WriteTests, WriteFails, Reanchor,
           ApplyFallback, Kill, Begin, ghostVars
  <2> QED BY <1>0, <2>1 DEF PatchTypeOK
<1>4. runs' \in 0..MaxRuns
  <2>1. runs' = runs \/ (runs < MaxRuns /\ runs' = runs + 1)
    BY DEF PatchNext, StartSplice, StartEof, WriteNext, WriteTests, WriteFails, Reanchor,
           ApplyFallback, Kill, Begin, ghostVars
  <2> QED BY <1>0, <2>1, PatchAssumption DEF PatchTypeOK
<1>5. again' \in BOOLEAN
  <2>1. again' = again \/ (\E s \in Scripts : again' = (done = s /\ exit = "0"))
    BY DEF PatchNext, StartSplice, StartEof, WriteNext, WriteTests, WriteFails, Reanchor,
           ApplyFallback, Kill, Begin, ghostVars, Scripts
  <2> QED BY <1>0, <2>1, Zenon DEF PatchTypeOK
<1>6. login' \in BOOLEAN /\ reanchored' \in BOOLEAN /\ tail' \in BOOLEAN
  <2>1. login' = login
    BY DEF PatchNext, StartSplice, StartEof, WriteNext, WriteTests, WriteFails, Reanchor,
           ApplyFallback, Kill, Begin
  <2>2. reanchored' = reanchored \/ reanchored' = TRUE
    BY DEF PatchNext, StartSplice, StartEof, WriteNext, WriteTests, WriteFails, Reanchor,
           ApplyFallback, Kill, ghostVars
  <2>3. \/ tail' = tail \/ tail' = TRUE
        \/ tail' = (tail \/ (script = "eof" /\ Head(todo) = "server"))
    BY Zenon DEF PatchNext, StartSplice, StartEof, WriteNext, WriteTests, WriteFails, Reanchor,
           ApplyFallback, Kill, ghostVars
  <2> QED BY <1>0, <2>1, <2>2, <2>3, Zenon DEF PatchTypeOK
<1>7. tests' \in {"none", "splice", "eof"}
  BY <1>0 DEF PatchTypeOK, PatchNext, StartSplice, StartEof, WriteNext, WriteTests, WriteFails,
              Reanchor, ApplyFallback, Kill, TEST_FILE_CONTENT, TEST_FILE_BLOCK
<1>8. /\ script' \in {"none", "splice", "eof"}
      /\ todo' \in {AllFiles, <<"html", "lua">>, <<"lua">>, <<>>}
      /\ script' = "none" => todo' = <<>>
      /\ done' \in Scripts \union {"none"}
      /\ exit' \in {"none", "0", "1", "3", "raised", "killed"}
  <2>1. CASE WriteNext /\ exists[Head(todo)]
    <3>1. todo # <<>> /\ todo' = Tail(todo) /\ script' = script /\ done' = done /\ exit' = exit
      BY <2>1 DEF WriteNext
    <3>2. Tail(todo) \in {<<"html", "lua">>, <<"lua">>, <<>>}
      BY <1>0, <3>1, QueueMoves
    <3>3. script' # "none"
      BY <1>0, <3>1 DEF PatchTypeOK
    <3> QED BY <1>0, <3>1, <3>2, <3>3 DEF PatchTypeOK, Typed
  <2>2. CASE \E s \in {"splice", "eof"} : Running(s, AllFiles)
    BY <2>2 DEF Running, Scripts
  <2>3. CASE \E s \in Scripts, c \in {"0", "1", "3", "raised", "killed"} : End(s, c)
    BY <2>3 DEF End
  <2>4. script \in Scripts \/ script = "none"
    BY <1>0 DEF PatchTypeOK
  <2>5. (WriteTests \/ WriteFails \/ Kill \/ WriteNext) => script \in Scripts
    BY <1>0 DEF PatchTypeOK, WriteTests, WriteFails, Kill, WriteNext
  <2> QED BY <2>1, <2>2, <2>3, <2>5 DEF PatchNext, StartSplice, StartEof, WriteNext,
             WriteTests, WriteFails, Reanchor, ApplyFallback, Kill, Scripts
<1>9. todo' \in Seq(File)
  <2>1. /\ AllFiles \in Seq(File) /\ <<"html", "lua">> \in Seq(File)
        /\ <<"lua">> \in Seq(File) /\ <<>> \in Seq(File)
    BY AllFilesAreFiles DEF File
  <2> QED BY <1>8, <2>1, Zenon
<1> QED BY <1>1, <1>2, <1>3, <1>4, <1>5, <1>6, <1>7, <1>8, <1>9, Zenon
        DEF Typed, PatchTypeOK, Scripts

-----------------------------------------------------------------------------
(* Steps and the runs.                                                     *)

(* A text is the same as itself.                                           *)
LEMMA SameTexts == \A s : SameButLineEnds(s, s)
BY DEF SameButLineEnds

(* A run that starts has all three files to write.                         *)
LEMMA AllLeft == {AllFiles[i] : i \in 1..Len(AllFiles)} = File
<1>1. Len(AllFiles) = 3 /\ AllFiles[1] = "server" /\ AllFiles[2] = "html" /\ AllFiles[3] = "lua"
  BY DEF AllFiles
<1>2. 1..3 = {1, 2, 3}
  OBVIOUS
<1> QED BY <1>1, <1>2 DEF File

(* A run that starts has all files to write, and repeats what it says.     *)
LEMMA StartedRun ==
  ASSUME PatchInv, NEW s \in {"splice", "eof"}, Begin(s), Running(s, AllFiles),
         text' = text,
         s = "splice" => \A f \in File : exists[f] /\ ~Raises(text[f], Anchor(f))
  PROVE  Going' /\ Gone'
<1>1. /\ script' = s /\ todo' = AllFiles /\ done' = "none" /\ exit' = "none"
      /\ again' = (done = s /\ exit = "0") /\ before' = text /\ exists' = exists
  BY DEF Begin, Running
<1>2. Left' = File
  <2>1. Left' = {AllFiles[i] : i \in 1..Len(AllFiles)}
    BY <1>1 DEF Left
  <2> QED BY <2>1, AllLeft
<1>3. again' => \A f \in File : /\ Holds(text'[f], s)
                                /\ SameButLineEnds(text'[f], before'[f])
  <2>1. done = s /\ exit = "0" => \A f \in File : Holds(text[f], s)
    BY Zenon DEF PatchInv, Gone
  <2> QED BY <1>1, <2>1, SameTexts, Zenon
<1>6. \A f \in File : text'[f] = before'[f]
  BY <1>1
<1>4. Going'
  <2>1. s = "splice" => /\ \A f \in File : exists'[f]
                        /\ \A f \in File : ~Raises(text'[f], Anchor(f))
    BY <1>1
  <2> QED BY <1>1, <1>2, <1>3, <1>6, <2>1, Zenon DEF Going
<1>5. Gone'
  BY <1>1 DEF Gone, RerunAddsOnlyLineEnds, RefusedRunChangesNothing
<1> QED BY <1>4, <1>5

(* Of a run that does not end well only the promise of refusals is left.   *)
LEMMA FailedRun ==
  ASSUME NEW s, NEW c, c # "0", End(s, c), RefusedRunChangesNothing'
  PROVE  Going' /\ Gone'
BY DEF End, Going, Gone, RerunAddsOnlyLineEnds

(* A run that is stopped between its writes has patched the first files.   *)
LEMMA StoppedRun ==
  ASSUME PatchInv, WriteFails \/ Kill
  PROVE  Going' /\ Gone'
<1>1. PICK c \in {"raised", "killed"} : End(script, c)
  BY DEF WriteFails, Kill
<1>2. /\ script \in {"splice", "eof"} /\ text' = text /\ before' = before
      /\ done' = script
  BY <1>1 DEF WriteFails, Kill, PatchInv, Typed, ghostVars, End
<1>3. ASSUME script = "splice"
      PROVE  \E n \in 0..3 : \A i \in 1..3 :
               text[AllFiles[i]] = IF i <= n THEN AsSpliced(AllFiles[i])
                                   ELSE before[AllFiles[i]]
  <2>1. \A f \in File : text[f] = IF f \in Left THEN before[f] ELSE AsSpliced(f)
    BY <1>3, Zenon DEF PatchInv, Going
  <2>2. \E n \in 0..3 : \A i \in 1..3 : AllFiles[i] \in Left <=> ~(i <= n)
    BY FirstFilesLeft DEF PatchInv
  <2>3. PICK n \in 0..3 : \A i \in 1..3 : AllFiles[i] \in Left <=> ~(i <= n)
    BY <2>2
  <2>4. \A i \in 1..3 : AllFiles[i] \in File
    BY AllFilesAreFiles DEF AllFiles
  <2>5. \A i \in 1..3 : text[AllFiles[i]] = IF i <= n THEN AsSpliced(AllFiles[i])
                                            ELSE before[AllFiles[i]]
    BY <2>1, <2>3, <2>4, Zenon
  <2> QED BY <2>5, Zenon
<1>4. RefusedRunChangesNothing'
  <2>1. CASE script = "splice"
    <3>1. \E n \in 0..3 : \A i \in 1..3 :
            text'[AllFiles[i]] = IF i <= n THEN AsSpliced(AllFiles[i])'
                                 ELSE before'[AllFiles[i]]
      BY <1>2, <1>3, <2>1, Zenon DEF AsSpliced
    <3>2. done' = "splice" /\ exit' \in {"raised", "killed"}
      BY <1>1, <1>2, <2>1 DEF End
    <3>3. done' # "fallback" /\ exit' \notin {"1", "3"}
      BY <3>2
    <3> QED BY <3>1, <3>3, Zenon DEF RefusedRunChangesNothing
  <2>2. CASE script = "eof"
    BY <1>2, <2>2 DEF RefusedRunChangesNothing
  <2> QED BY <1>2, <2>1, <2>2
<1> QED BY <1>1, <1>4, FailedRun

(* A write puts one more file where the run leaves it.                     *)
LEMMA WriteRun ==
  ASSUME PatchInv, WriteNext, exists[Head(todo)]
  PROVE  Going' /\ Gone'
<1>1. \E t : Written(Head(todo), t)
  BY WriteWrites, Zenon
<1>2. /\ todo # <<>> /\ script' = script /\ done' = done /\ exit' = exit
      /\ exists' = exists /\ before' = before /\ again' = again
  BY DEF WriteNext
<1>3. script # "none" /\ Going
  BY <1>2 DEF PatchInv, Typed, PatchTypeOK
<1>4. PICK f \in File : \E t : Written(f, t)
  BY <1>1, Zenon DEF Written
<1>5. PICK t : Written(f, t)
  BY <1>4
<1>6. /\ Left' = Left \ {f} /\ text' = [text EXCEPT ![f] = t]
      /\ Holds(t, script) /\ f \in Left
      /\ Holds(text[f], script) => SameButLineEnds(t, text[f])
      /\ script = "splice" => t = splice_around(text[f], SpliceBlock(f), Anchor(f))
  BY <1>5, Zenon DEF Written
<1>7. text'[f] = t /\ \A g \in File : g # f => text'[g] = text[g]
  BY <1>6 DEF PatchInv, Typed, PatchTypeOK
<1>8. ASSUME NEW g \in File PROVE g \in Left' \/ Holds(text'[g], script)
  <2>1. CASE g = f
    BY <1>6, <1>7, <2>1, Zenon
  <2>2. CASE g # f
    BY <1>3, <1>6, <1>7, <2>2, Zenon DEF Going
  <2> QED BY <2>1, <2>2
<1>9. ASSUME again, NEW g \in File
      PROVE  Holds(text'[g], script) /\ SameButLineEnds(text'[g], before[g])
  <2>1. \A h \in File : Holds(text[h], script) /\ SameButLineEnds(text[h], before[h])
    BY <1>3, <1>9, Zenon DEF Going
  <2>2. CASE g = f
    <3>1. SameButLineEnds(t, text[f]) /\ SameButLineEnds(text[f], before[f])
      BY <1>6, <2>1, Zenon
    <3>2. SameButLineEnds(t, before[f])
      BY <3>1, Zenon DEF SameButLineEnds
    <3> QED BY <1>6, <1>7, <2>2, <3>2, Zenon
  <2>3. CASE g # f
    BY <1>7, <2>1, <2>3, Zenon
  <2> QED BY <2>2, <2>3
<1>10. script = "splice" => \A g \in Left' : ~Raises(text'[g], Anchor(g))
  <2> SUFFICES ASSUME script = "splice", NEW g \in Left'
               PROVE  ~Raises(text'[g], Anchor(g))
    OBVIOUS
  <2>1. g \in Left /\ g # f
    BY <1>6
  <2>2. ~Raises(text[g], Anchor(g))
    BY <1>3, <2>1, Zenon DEF Going
  <2>3. g \in File
    <3>1. PICK i \in 1..Len(todo) : g = todo[i]
      BY <2>1 DEF Left
    <3>2. todo \in Seq(File)
      BY DEF PatchInv, Typed, PatchTypeOK
    <3> QED BY <3>1, <3>2
  <2> QED BY <1>7, <2>1, <2>2, <2>3, Zenon
<1>13. script = "splice" =>
         \A g \in File : text'[g] = IF g \in Left' THEN before'[g] ELSE AsSpliced(g)'
  <2> SUFFICES ASSUME script = "splice", NEW g \in File
               PROVE  text'[g] = IF g \in Left' THEN before'[g] ELSE AsSpliced(g)'
    OBVIOUS
  <2>1. /\ text[g] = IF g \in Left THEN before[g] ELSE AsSpliced(g)
        /\ text[f] = before[f]
    BY <1>3, <1>6, Zenon DEF Going
  <2>2. AsSpliced(g)' = AsSpliced(g)
    BY <1>2 DEF AsSpliced
  <2>3. CASE g = f
    <3>1. text'[g] = AsSpliced(g)
      BY <1>6, <1>7, <2>1, <2>3, Zenon DEF AsSpliced
    <3> QED BY <1>6, <2>2, <2>3, <3>1
  <2>4. CASE g # f
    <3>1. g \in Left' <=> g \in Left
      BY <1>6, <2>4
    <3> QED BY <1>2, <1>7, <2>1, <2>2, <2>4, <3>1, Zenon
  <2> QED BY <2>3, <2>4
<1>11. Going'
  <2>1. done = "none" /\ exit = "none" /\ (script = "splice" => \A g \in File : exists[g])
    BY <1>3, Zenon DEF Going
  <2> QED BY <1>2, <1>8, <1>9, <1>10, <1>13, <2>1, Zenon DEF Going
<1>12. Gone'
  <2>1. exit' = "none" /\ done' = "none"
    BY <1>2, <1>3 DEF Going
  <2> QED BY <2>1 DEF Gone, RerunAddsOnlyLineEnds, RefusedRunChangesNothing
<1> QED BY <1>11, <1>12

(* After the last write, the test file is of the same script.              *)
LEMMA LastWriteRun ==
  ASSUME PatchInv, WriteTests
  PROVE  Going' /\ Gone'
<1>1. /\ script # "none" /\ todo = <<>> /\ script' = "none" /\ exit' = "0"
      /\ done' = script /\ text' = text /\ before' = before /\ again' = again
  BY DEF WriteTests, End, ghostVars
<1>2. script \in {"splice", "eof"} /\ Going
  BY <1>1 DEF PatchInv, Typed
<1>3. tests' = script
  BY <1>2 DEF WriteTests, TEST_FILE_CONTENT, TEST_FILE_BLOCK
<1>4. Left = {}
  BY <1>1 DEF Left
<1>5. \A f \in File : Holds(text[f], script)
  BY <1>1, <1>2, <1>4, Zenon DEF Going
<1>6. RerunAddsOnlyLineEnds'
  <2>1. again => \A f \in File : SameButLineEnds(text[f], before[f])
    BY <1>1, <1>2, Zenon DEF Going
  <2> QED BY <1>1, <2>1, Zenon DEF RerunAddsOnlyLineEnds, SameButLineEnds, LessLineEnds
<1>7. Going'
  BY <1>1 DEF Going
<1>8. Gone'
  <2>1. RefusedRunChangesNothing'
    BY <1>1, <1>2 DEF RefusedRunChangesNothing
  <2> QED BY <1>1, <1>2, <1>3, <1>5, <1>6, <2>1, Zenon DEF Gone
<1> QED BY <1>7, <1>8

(* The fallback: what it leaves, it leaves again.                          *)
LEMMA FallbackRun ==
  ASSUME PatchInv, ApplyFallback
  PROVE  Going' /\ Gone'
<1> DEFINE s == text["server"]
<1>1. CASE text' = text /\ \E c \in {"1", "3", "raised"} : End("fallback", c)
  <2>1. PICK c \in {"1", "3", "raised"} : End("fallback", c)
    BY <1>1
  <2>2. text' = before' /\ done' = "fallback"
    BY <1>1, <2>1 DEF ApplyFallback, Begin, End
  <2>3. RefusedRunChangesNothing'
    BY <2>2 DEF RefusedRunChangesNothing
  <2> QED BY <2>1, <2>3, FailedRun
<1>2. CASE /\ BlockBegin(s) # 0 /\ End("fallback", "0")
           /\ text' = [text EXCEPT !["server"] = insert_fallback(s)]
  <2>1. /\ text' = [text EXCEPT !["server"] = insert_fallback(s)]
        /\ script' = "none" /\ done' = "fallback" /\ exit' = "0"
        /\ again' = (done = "fallback" /\ exit = "0") /\ before' = text
    BY <1>2 DEF ApplyFallback, Begin, End
  <2>2. Shape(s, Unmoved("server", tail))
    BY FileIs, Zenon DEF PatchInv, TextInv
  <2>3. /\ HasFallback(insert_fallback(s))
        /\ Contains(s, "fallback") => insert_fallback(s) = s
    <3> HIDE DEF s
    <3>1. \A t : t = insert_fallback(s) =>
                   HasFallback(t) /\ (Contains(s, "fallback") => t = s)
      BY <1>2, <2>2, FallbackEffect, Zenon
    <3> QED BY <3>1, Zenon
  <2>4. text'["server"] = insert_fallback(s)
    BY <2>1, FileIs DEF PatchInv, Typed, PatchTypeOK
  <2>5. again' => text' = text
    <3>1. again' => HasFallback(s)
      BY <2>1, Zenon DEF PatchInv, Gone
    <3>2. again' => insert_fallback(s) = s
      BY <2>3, <3>1, Zenon DEF HasFallback
    <3>3. [text EXCEPT !["server"] = s] = text
      BY FileIs DEF PatchInv, Typed, PatchTypeOK
    <3> QED BY <2>1, <3>2, <3>3, Zenon
  <2>6. RerunAddsOnlyLineEnds'
    BY <2>1, <2>5, Zenon DEF RerunAddsOnlyLineEnds
  <2>7. Going'
    BY <2>1 DEF Going
  <2>8. Gone'
    <3>1. HasFallback(text'["server"])
      BY <2>3, <2>4, Zenon
    <3>2. exit' = "0" /\ done' = "fallback"
      BY <2>1
    <3>3. RefusedRunChangesNothing'
      BY <3>2 DEF RefusedRunChangesNothing
    <3> QED BY <2>6, <3>1, <3>2, <3>3, Zenon DEF Gone
  <2> QED BY <2>7, <2>8
<1>3. \/ text' = text /\ \E c \in {"1", "3", "raised"} : End("fallback", c)
      \/ /\ BlockBegin(s) # 0 /\ End("fallback", "0")
         /\ text' = [text EXCEPT !["server"] = insert_fallback(s)]
  BY DEF ApplyFallback
<1> QED BY <1>1, <1>2, <1>3

(* What a run has done and will do is as claimed after every step.         *)
LEMMA RunStep ==
  ASSUME PatchInv, PatchNext
  PROVE  Going' /\ Gone'
<1>1. CASE StartSplice
  <2>1. Begin("splice") /\ text' = text
    BY <1>1 DEF StartSplice
  <2>2. CASE End("splice", "3") \/ End("splice", "1")
    <3>1. PICK c \in {"1", "3"} : End("splice", c)
      BY <2>2
    <3>2. text' = before' /\ done' = "splice" /\ exit' = c
      BY <2>1, <3>1 DEF Begin, End
    <3>3. RefusedRunChangesNothing'
      BY <3>2 DEF RefusedRunChangesNothing
    <3> QED BY <3>1, <3>3, FailedRun
  <2>3. CASE /\ Running("splice", AllFiles)
             /\ ~ \E f \in File : ~exists[f]
             /\ ~ \E f \in File : Raises(text[f], Anchor(f))
    BY <2>1, <2>3, StartedRun, Zenon
  <2>4. \/ End("splice", "3") \/ End("splice", "1")
        \/ /\ Running("splice", AllFiles)
           /\ ~ \E f \in File : ~exists[f]
           /\ ~ \E f \in File : Raises(text[f], Anchor(f))
    BY <1>1, Zenon DEF StartSplice
  <2> QED BY <2>2, <2>3, <2>4
<1>2. CASE StartEof
  <2>1. Begin("eof") /\ text' = text /\ (Running("eof", AllFiles) \/ End("eof", "1"))
    BY <1>2 DEF StartEof
  <2>2. CASE Running("eof", AllFiles)
    <3>1. "eof" # "splice" /\ "eof" \in {"splice", "eof"}
      OBVIOUS
    <3> QED BY <2>1, <2>2, <3>1, StartedRun, Zenon
  <2>3. CASE End("eof", "1")
    <3>1. RefusedRunChangesNothing'
      BY <2>3 DEF End, RefusedRunChangesNothing
    <3> QED BY <2>3, <3>1, FailedRun
  <2> QED BY <2>1, <2>2, <2>3
<1>3. CASE WriteNext
  <2>1. CASE exists[Head(todo)]
    BY <1>3, <2>1, WriteRun
  <2>2. CASE ~exists[Head(todo)]
    <3>1. End(script, "1") /\ todo # <<>>
      BY <1>3, <2>2 DEF WriteNext
    <3>2. script \in {"splice", "eof"} /\ Head(todo) \in File
      BY <3>1, QueueMoves DEF PatchInv, Typed, PatchTypeOK
    <3>3. script # "splice"
      BY <2>2, <3>2, Zenon DEF PatchInv, Going
    <3>4. RefusedRunChangesNothing'
      BY <3>1, <3>2, <3>3 DEF End, RefusedRunChangesNothing
    <3> QED BY <3>1, <3>4, FailedRun
  <2> QED BY <2>1, <2>2
<1>4. CASE WriteTests
  BY <1>4, LastWriteRun
<1>5. CASE Reanchor
  <2>1. /\ done' = "reanchor" /\ script' = "none"
    BY <1>5 DEF Reanchor, End
  <2> QED BY <2>1 DEF Going, Gone, RerunAddsOnlyLineEnds, RefusedRunChangesNothing
<1>6. CASE ApplyFallback
  BY <1>6, FallbackRun
<1>7. CASE WriteFails \/ Kill
  BY <1>7, StoppedRun
<1> QED BY <1>1, <1>2, <1>3, <1>4, <1>5, <1>6, <1>7 DEF PatchNext

(* The invariant is inductive.                                             *)
LEMMA PatchInvStep == PatchInv /\ [PatchNext]_patchVars => PatchInv'
<1> SUFFICES ASSUME PatchInv, [PatchNext]_patchVars PROVE PatchInv'
  OBVIOUS
<1>1. CASE PatchNext
  <2>1. TextInv' /\ TextMoves
    BY <1>1, TextStep
  <2>2. Typed'
    BY <1>1, <2>1, TypedStep
  <2>3. Going' /\ Gone'
    BY <1>1, RunStep
  <2> QED BY <2>1, <2>2, <2>3, Zenon DEF PatchInv
<1>2. CASE UNCHANGED patchVars
  <2>1. Typed' /\ TextInv'
    BY <1>2 DEF patchVars, ghostVars, PatchInv, Typed, PatchTypeOK, TextInv,
                UserCodeKept, Unmoved
  <2>2. Going' /\ Gone'
    BY <1>2 DEF patchVars, ghostVars, PatchInv, Going, Gone, Left, AsSpliced,
                RerunAddsOnlyLineEnds, RefusedRunChangesNothing
  <2> QED BY <2>1, <2>2 DEF PatchInv
<1> QED BY <1>1, <1>2

(* The invariant holds, whatever is run and killed.                        *)
LEMMA PatchInvHolds == PatchSpec => []PatchInv
BY PatchInvInit, PatchInvStep, PTL DEF PatchSpec

-----------------------------------------------------------------------------
(* What follows from the invariant.                                        *)

(* The payload of a text with at most one block.                           *)
LEMMA ShapePayload ==
  ASSUME NEW s, NEW u, Shape(s, u)
  PROVE  Payload(s) = <<>> \/ IsBlock(Payload(s))
<1>1. PICK p, m, q : Parted(s, p, m, q)
  BY Zenon DEF Shape
<1>2. Payload(s) = Only(m, PayloadToks)
  BY <1>1, PayloadParted, Zenon
<1>3. CASE m = <<>>
  <2>1. Only(m, PayloadToks) = <<>>
    <3>1. m \in Seq({}) /\ {} \cap PayloadToks = {}
      BY <1>3
    <3> QED BY <3>1, OnlyNone, Zenon
  <2> QED BY <1>2, <2>1, Zenon
<1>4. CASE m # <<>>
  <2>1. PICK r : Rest(r) /\ m = <<"begin">> \o r
    BY <1>1, <1>4, Zenon DEF Parted, Marked
  <2>2. PICK w \in Payloads : r = <<w, "end">> \/ r = <<"fallback", w, "end">>
    BY <2>1, Zenon DEF Rest
  <2>3. /\ Only(<<"begin">> \o <<w, "end">>, PayloadToks) = <<"begin", w, "end">>
        /\ Only(<<"begin">> \o <<"fallback", w, "end">>, PayloadToks) = <<"begin", w, "end">>
    BY PayloadOfBlock
  <2>4. Payload(s) = <<"begin", w, "end">>
    BY <1>2, <2>1, <2>2, <2>3, Zenon
  <2>5. w \in {"splice", "eof", "reanchor"}
    BY DEF Payloads
  <2> QED BY <2>4, <2>5, Zenon DEF IsBlock
<1> QED BY <1>3, <1>4

(* And the payload of one that a script has just written.                  *)
LEMMA HoldsPayload ==
  ASSUME NEW s, NEW w \in {"splice", "eof"}, Holds(s, w)
  PROVE  Payload(s) = <<"begin", w, "end">>
<1>1. PICK p, q : Parted(s, p, <<"begin">> \o <<w, "end">>, q)
  BY Zenon DEF Holds
<1>2. w \in Payloads
  BY DEF Payloads
<1>3. Only(<<"begin">> \o <<w, "end">>, PayloadToks) = <<"begin", w, "end">>
  BY <1>2, PayloadOfBlock
<1> QED BY <1>1, <1>3, PayloadParted, Zenon

(* One block, from the shape of a text and from what a run leaves.         *)
LEMMA OneBlockFollows == PatchInv => OneBlock
<1> SUFFICES ASSUME PatchInv PROVE OneBlock
  OBVIOUS
<1>1. \A f \in File : Payload(text[f]) = <<>> \/ IsBlock(Payload(text[f]))
  BY ShapePayload, Zenon DEF PatchInv, TextInv
<1>2. ASSUME exit = "0", done \in {"splice", "eof"}
      PROVE  tests = done /\ \A f \in File : Payload(text[f]) = <<"begin", done, "end">>
  <2>1. tests = done /\ \A f \in File : Holds(text[f], done)
    BY <1>2, Zenon DEF PatchInv, Gone
  <2> QED BY <1>2, <2>1, HoldsPayload, Zenon
<1> QED BY <1>1, <1>2, Zenon DEF OneBlock

(* Only re-anchoring leaves a stray backslash, the fallback is in its      *)
(* place, and app, once before a block, stays there.                       *)
LEMMA ImportableFollows == PatchInv => ImportableUnlessReanchored
<1> DEFINE s == text["server"]
<1> SUFFICES ASSUME PatchInv, done = "fallback", exit = "0", ~reanchored,
                    AppFirst(base["server"])
             PROVE  Importable
  BY DEF ImportableUnlessReanchored
<1>1. ~Contains(s, "junk")
  BY DEF PatchInv, TextInv
<1>2. HasFallback(s)
  BY Zenon DEF PatchInv, Gone
<1>3. AppFirst(s) /\ s \in Seq(Token)
  <2>1. AppFirst(s)
    BY Zenon DEF PatchInv, TextInv, KeepsApp
  <2>2. Shape(s, Unmoved("server", tail))
    BY FileIs, Zenon DEF PatchInv, TextInv
  <2> QED BY <2>1, <2>2, ShapeTyped
<1> HIDE DEF s
<1> DEFINE b == BlockBegin(s)
<1>4. FirstAt(s, "begin", b)
  BY <1>2, <1>3, BeginIs DEF HasFallback
<1> HIDE DEF b
<1>5. b \in 1..Len(s) /\ s[b] \in {"main", "begin"} /\ b - 1 \in (b - 1)..Len(s)
  BY <1>3, <1>4 DEF FirstAt
<1>6. Contains(Before(s, b), "app")
  BY <1>3, <1>5, AppIsBefore DEF Before
<1> QED BY <1>1, <1>2, <1>6, Zenon DEF Importable, HasFallback, b, s

(* The call that serves is behind a block that has not moved.              *)
LEMMA ServedFollows == PatchInv => ServedWhenRun
<1> DEFINE s == text["server"]
<1> SUFFICES ASSUME PatchInv, ~tail, Contains(s, "splice"), Contains(s, "main")
             PROVE  BlockEnd(s) < Find(s, "main")
  BY DEF ServedWhenRun
<1>1. PICK p, m, q : Parted(s, p, m, q) /\ (m # <<>> => ~Contains(p, "main"))
  <2>1. Shape(s, Unmoved("server", tail)) /\ Unmoved("server", tail)
    BY FileIs, Zenon DEF PatchInv, TextInv, Unmoved
  <2> QED BY <2>1, Zenon DEF Shape
<1> HIDE DEF s
<1>2. m # <<>>
  <2> SUFFICES ASSUME m = <<>> PROVE FALSE
    OBVIOUS
  <2>1. s \in Seq(Plain)
    BY <1>1, NoBlock, Zenon
  <2> QED BY <2>1, PlainTexts
<1>3. PICK r : Rest(r) /\ m = <<"begin">> \o r
  BY <1>1, <1>2, Zenon DEF Parted, Marked
<1>4. BlockEnd(s) = Len(p) + 1 + Len(r)
  <2>1. Parted(s, p, <<"begin">> \o r, q)
    BY <1>1, <1>3, Zenon
  <2> QED BY <1>3, <2>1, ABlock
<1>5. /\ p \in Seq(Token) /\ m \in Seq(Token) /\ q \in Seq(Token) /\ r \in Seq(Token)
      /\ s = (p \o m) \o q /\ p \o m \in Seq(Token) /\ s \in Seq(Token)
  <2>1. PartsTyped(s, p, m, q)
    BY <1>1, PartedTypes, Zenon
  <2> QED BY <1>3, <2>1, RestIs, Zenon DEF PartsTyped
<1> DEFINE b == <<"begin">>
<1>6. b \in Seq(Token) /\ Len(b) = 1 /\ ~Contains(b, "main")
  BY DEF Token, Contains
<1> HIDE DEF b
<1>7. ~Contains(p \o m, "main")
  <2>1. ~Contains(m, "main")
    <3>1. ~Contains(r, "main")
      BY <1>3, RestIs, Zenon
    <3>2. ~Contains(b \o r, "main")
      BY <1>5, <1>6, <3>1, ContainsConcat, Zenon
    <3> QED BY <1>3, <3>2, Zenon DEF b
  <2> QED BY <1>1, <1>2, <1>5, <2>1, ContainsConcat, Zenon
<1>8. Len(p \o m) = Len(p) + (1 + Len(r))
  <2>1. Len(b \o r) = Len(b) + Len(r) /\ Len(p \o m) = Len(p) + Len(m)
    BY <1>5, <1>6, ConcatProperties, Zenon
  <2> QED BY <1>3, <1>6, <2>1, Zenon DEF b
<1>9. Contains(q, "main")
  BY <1>5, <1>7, ContainsConcat, Zenon
<1>10. PICK k : FirstAt(q, "main", k)
  BY <1>5, <1>9, FindSome, Zenon
<1>11. Find(s, "main") = Len(p \o m) + k
  <2>1. FirstAt(s, "main", Len(p \o m) + k)
    <3>1. FirstAt((p \o m) \o q, "main", Len(p \o m) + k)
      BY <1>5, <1>7, <1>10, FirstAfter, Zenon
    <3> QED BY <1>5, <3>1, Zenon
  <2> QED BY <1>5, <2>1, FindFirst, Zenon
<1>12. k \in Nat /\ k >= 1 /\ Len(p) \in Nat /\ Len(r) \in Nat
  BY <1>5, <1>10 DEF FirstAt
<1>13. Len(p) + 1 + Len(r) < Len(p) + (1 + Len(r)) + k
  BY <1>12
<1> QED BY <1>4, <1>8, <1>11, <1>13, Zenon

(* Every variable has its type, for any texts of the users' and any number *)
(* of runs: no script makes a text of anything but tokens, and none gives  *)
(* text to a file that is not there (exists and text, before os.replace).  *)
THEOREM PatchTypeCorrect == PatchSpec => []PatchTypeOK
<1>1. PatchInv => PatchTypeOK
  BY DEF PatchInv, Typed
<1> QED BY <1>1, PatchInvHolds, PTL

(* No sequence of runs of the four scripts, whole or killed between any    *)
(* two writes, leaves two blocks, half a block or a payload outside its    *)
(* sentinels in a file; and a splice that ends well leaves all four files  *)
(* to one script (splice_around and strip_existing look for the sentinels  *)
(* of whichever script was there; multiplayer_launcher/README.md:18-22).   *)
THEOREM AtMostOneBlock == PatchSpec => []OneBlock
BY PatchInvHolds, OneBlockFollows, PTL

(* What the user wrote besides line ends is still there, in its order,     *)
(* after any runs: stripping, replacing and inserting never reach past the *)
(* sentinels (strip_existing, splice_around, insert_fallback).             *)
THEOREM UserCodeStays == PatchSpec => []UserCodeKept
<1>1. PatchInv => UserCodeKept
  BY DEF PatchInv, TextInv
<1> QED BY <1>1, PatchInvHolds, PTL

(* Repeating a splice, an EOF splice or a fallback that went well changes  *)
(* nothing but line ends (multiplayer_launcher/README.md:20-21), also when *)
(* other files are in states that earlier, killed runs have left.          *)
THEOREM RerunsSettle == PatchSpec => []RerunAddsOnlyLineEnds
<1>1. PatchInv => RerunAddsOnlyLineEnds
  BY DEF PatchInv, Gone
<1> QED BY <1>1, PatchInvHolds, PTL

(* A fallback that exits with 0 leaves importable a server.py that binds   *)
(* app before the call that runs the server, after any runs and any        *)
(* failures, unless it was re-anchored: the routes come after app and      *)
(* login_required are bound                                                *)
(* (_phase5_apply_with_login_fallback.py:1-13).                            *)
THEOREM FallbackRepairs == PatchSpec => []ImportableUnlessReanchored
BY PatchInvHolds, ImportableFollows, PTL

(* A splice or a fallback that refuses leaves every file as it found it,   *)
(* and so does a fallback whose write fails; a splice stopped by a write   *)
(* that fails or by a kill has patched the first files of the three, each  *)
(* as the splice makes it of what it found, and no other                   *)
(* (_xb_splice_phase5.py:554-571).                                         *)
THEOREM RefusedRunsChangeNothing == PatchSpec => []RefusedRunChangesNothing
<1>1. PatchInv => RefusedRunChangesNothing
  BY DEF PatchInv, Gone
<1> QED BY <1>1, PatchInvHolds, PTL

(* While no script has put a block at the end of server.py, the routes of  *)
(* the splice come before the call that runs the server, however often the *)
(* splice was run and whatever it found (splice_around's anchor).          *)
THEOREM RoutesBeforeMain == PatchSpec => []ServedWhenRun
BY PatchInvHolds, ServedFollows, PTL
=============================================================================
