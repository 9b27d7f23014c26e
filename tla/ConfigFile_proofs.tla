-------------------------- MODULE ConfigFile_proofs --------------------------
(***************************************************************************)
(* Proofs about the tokenizer and the parser of the configuration file     *)
(* (modules Tokenize and ConfigFile), for any texts and sizes.             *)
(***************************************************************************)
EXTENDS ConfigFile, SequenceTheorems, FiniteSetTheorems, WellFoundedInduction, TLAPS

----------------------------------------------------------------------------
(* The natural numbers: least elements, and induction over a set.          *)
LEMMA Smallest ==
  ASSUME NEW T \in SUBSET Nat, T # {}
  PROVE  \E k \in T : \A j \in T : k <= j
<1>1. PICK k \in T : \A j \in T : ~(<<j, k>> \in OpToRel(<, Nat))
  BY NatLessThanWellFounded, WFMin
<1>2. \A j \in T : <<j, k>> \in OpToRel(<, Nat) <=> j < k
  BY DEF OpToRel
<1>3. \A j \in T : ~(j < k)
  BY ONLY <1>1, <1>2
<1>4. \A j \in T : k <= j
  BY ONLY <1>3, T \in SUBSET Nat, k \in T
<1> QED
  BY <1>4

LEMMA Upwards ==
  ASSUME NEW m \in Int, NEW n \in Int, NEW P, m \in P,
         \A k \in m + 1 .. n : k - 1 \in P => k \in P
  PROVE  \A k \in m .. n : k \in P
<1> DEFINE bad == {j \in Nat : m + j <= n /\ m + j \notin P}
<1>1. SUFFICES ASSUME NEW k \in m .. n, k \notin P PROVE FALSE
  OBVIOUS
<1>2. k - m \in bad
  BY <1>1
<1>3. PICK j \in bad : \A i \in bad : j <= i
  <2>1. bad \in SUBSET Nat /\ bad # {}
    BY <1>2
  <2> HIDE DEF bad
  <2> QED
    BY <2>1, Smallest
<1>4. j # 0
  BY <1>3
<1>5. j - 1 \in Nat /\ j - 1 \notin bad
  BY <1>3, <1>4
<1>6. m + j \in m + 1 .. n /\ (m + j) - 1 = m + (j - 1)
  BY <1>3, <1>4
<1>7. m + (j - 1) \in P
  BY <1>5, <1>6
<1> QED
  BY <1>3, <1>6, <1>7

(* A loop from m to n whose rounds, F[m + 1] and so on, keep to the set S  *)
(* exists as a function.                                                   *)
Iterated(f, m, n, S, s, F) ==
    /\ f \in [m .. n -> S]
    /\ f[m] = s
    /\ \A k \in m + 1 .. n : f[k] = F[k][f[k - 1]]

LEMMA Iterates ==
  ASSUME NEW m, NEW n, m \in Int, n \in Int, m <= n, NEW S, NEW s, s \in S,
         NEW F, F \in [m .. n -> [S -> S]]
  PROVE  \E f : Iterated(f, m, n, S, s, F)
<1> DEFINE Runs(f, k) == /\ f \in [m .. k -> S]
                         /\ f[m] = s
                         /\ \A i \in m + 1 .. k : f[i] = F[i][f[i - 1]]
           P == {k \in m .. n : \E f : Runs(f, k)}
<1>1. m \in P
  <2> DEFINE f == [i \in m .. m |-> s]
  <2>1. Runs(f, m)
    OBVIOUS
  <2> HIDE DEF Runs, f
  <2> QED
    BY <2>1
<1>2. ASSUME NEW k \in m + 1 .. n, k - 1 \in P PROVE k \in P
  <2>1. PICK f : Runs(f, k - 1)
    BY <1>2
  <2> DEFINE g == [i \in m .. k |-> IF i = k THEN F[k][f[k - 1]] ELSE f[i]]
  <2>2. f[k - 1] \in S /\ F[k][f[k - 1]] \in S
    BY <2>1
  <2>3. g \in [m .. k -> S]
    BY <2>1, <2>2
  <2>4. g[m] = s
    BY <2>1
  <2>5. ASSUME NEW i \in m + 1 .. k PROVE g[i] = F[i][g[i - 1]]
    <3>1. i \in m .. k /\ i - 1 \in m .. k /\ i - 1 # k
      OBVIOUS
    <3>2. g[i - 1] = f[i - 1]
      BY <3>1
    <3>3. CASE i = k
      BY <3>1, <3>2, <3>3
    <3>4. CASE i # k
      <4>1. i \in m + 1 .. k - 1
        BY <3>4
      <4> QED
        BY <2>1, <3>1, <3>2, <3>4, <4>1
    <3> QED
      BY <3>3, <3>4
  <2> HIDE DEF g
  <2>6. Runs(g, k)
    BY <2>3, <2>4, <2>5
  <2> HIDE DEF Runs
  <2> QED
    BY <2>6
<1>3. n \in P
  <2>1. \A k \in m .. n : k \in P
    <3> HIDE DEF P
    <3> QED
      BY <1>1, <1>2, Upwards
  <2> QED
    BY <2>1
<1> QED
  BY <1>3 DEF Iterated

(* The members of a set of numbers in order.                               *)
InOrderSeq(s, S) ==
    /\ s \in Seq(S)
    /\ \A e \in S : \E i \in DOMAIN s : s[i] = e
    /\ \A i, j \in DOMAIN s : i < j => s[i] < s[j]

LEMMA InOrderIs ==
  ASSUME NEW n \in Nat, NEW S \in SUBSET (1 .. n)
  PROVE  InOrderSeq(InOrder(S, n), S)
<1> DEFINE Next1(t, i) == IF i \in S THEN Append(t, i) ELSE t
           F == [i \in 0 .. n |-> [t \in Seq(S) |-> Next1(t, i)]]
           up == CHOOSE f : f = [i \in 0 .. n |-> IF i = 0 THEN <<>> ELSE Next1(f[i - 1], i)]
<1>0. \A e \in S : e \in Nat /\ 1 <= e /\ e <= n
  OBVIOUS
<1>1. InOrder(S, n) = up[n]
  BY DEF InOrder
<1>2. PICK g : Iterated(g, 0, n, Seq(S), <<>>, F)
  <2>1. F \in [0 .. n -> [Seq(S) -> Seq(S)]]
    <3>1. ASSUME NEW i \in 0 .. n, NEW t \in Seq(S) PROVE Next1(t, i) \in Seq(S)
      BY AppendProperties
    <3> QED
      BY <3>1
  <2>2. 0 \in Int /\ n \in Int /\ 0 <= n /\ <<>> \in Seq(S)
    OBVIOUS
  <2> HIDE DEF F
  <2> QED
    BY <2>1, <2>2, Iterates, Zenon
<1>3. g \in [0 .. n -> Seq(S)] /\ g[0] = <<>> /\ \A k \in 1 .. n : g[k] = Next1(g[k - 1], k)
  <2>1. g \in [0 .. n -> Seq(S)] /\ g[0] = <<>> /\ \A k \in 1 .. n : g[k] = F[k][g[k - 1]]
    <3> HIDE DEF F
    <3> QED
      BY <1>2 DEF Iterated
  <2>2. \A k \in 1 .. n : k - 1 \in 0 .. n /\ k \in 0 .. n
    OBVIOUS
  <2> QED
    BY <2>1, <2>2
<1> HIDE DEF Next1
<1>4. g = [i \in 0 .. n |-> IF i = 0 THEN <<>> ELSE Next1(g[i - 1], i)]
  <2>1. \A i \in 0 .. n : g[i] = IF i = 0 THEN <<>> ELSE Next1(g[i - 1], i)
    BY <1>3
  <2> QED
    BY <1>3, <2>1
<1>5. up = [i \in 0 .. n |-> IF i = 0 THEN <<>> ELSE Next1(up[i - 1], i)]
  BY <1>4
<1> HIDE DEF up
<1> DEFINE To(i) == {e \in S : e <= i}
           P == {i \in 0 .. n : InOrderSeq(up[i], To(i))}
<1>6. 0 \in P
  <2>1. up[0] = <<>>
    BY <1>5
  <2>2. To(0) = {}
    <3>1. ASSUME NEW e \in S PROVE ~(e <= 0)
      BY <1>0
    <3> QED
      BY <3>1
  <2>3. InOrderSeq(<<>>, {})
    BY DEF InOrderSeq
  <2>4. InOrderSeq(up[0], To(0))
    <3> HIDE DEF To
    <3> QED
      BY <2>1, <2>2, <2>3
  <2> QED
    BY <2>4
<1>7. ASSUME NEW k \in 0 + 1 .. n, k - 1 \in P PROVE k \in P
  <2> DEFINE t == up[k - 1]
             A == To(k - 1)
             B == To(k)
  <2>1. up[k] = Next1(t, k)
    <3>1. k \in 0 .. n /\ k # 0
      OBVIOUS
    <3> QED
      BY <1>5, <3>1
  <2>2. InOrderSeq(t, A)
    BY <1>7
  <2>3. CASE k \notin S
    <3>1. B = A
      <4>1. ASSUME NEW e \in S PROVE e <= k <=> e <= k - 1
        BY <1>0, <2>3
      <4> QED
        BY <4>1
    <3>2. up[k] = t
      BY <2>1, <2>3 DEF Next1
    <3> QED
      BY <2>2, <3>1, <3>2
  <2>4. CASE k \in S
    <3>1. B = A \cup {k} /\ k \in B /\ A \subseteq B /\ \A e \in A : e \in Int /\ e < k
      <4>1. ASSUME NEW e \in S PROVE (e <= k <=> e <= k - 1 \/ e = k) /\ (e <= k - 1 => e \in Int /\ e < k)
        BY <1>0
      <4>2. k \in S /\ k <= k
        BY <2>4
      <4> QED
        BY <4>1, <4>2
    <3>2. t \in Seq(A) /\ t \in Seq(B) /\ Len(t) \in Nat /\ DOMAIN t = 1 .. Len(t)
          /\ \A i \in DOMAIN t : t[i] \in A
      <4>1. t \in Seq(A)
        BY <2>2 DEF InOrderSeq
      <4> QED
        BY <3>1, <4>1, SeqMonotonic, LenProperties, ElementOfSeq
    <3> DEFINE u == Append(t, k)
    <3>3. /\ u \in Seq(B) /\ Len(u) = Len(t) + 1 /\ DOMAIN u = 1 .. Len(t) + 1
          /\ \A i \in DOMAIN t : u[i] = t[i]
          /\ u[Len(t) + 1] = k
      BY <3>1, <3>2, AppendProperties, LenProperties
    <3> HIDE DEF u
    <3>4. ASSUME NEW e \in B PROVE \E i \in DOMAIN u : u[i] = e
      <4>1. CASE e = k
        BY <3>2, <3>3, <4>1
      <4>2. CASE e \in A
        <5>1. PICK i \in DOMAIN t : t[i] = e
          BY <2>2, <4>2 DEF InOrderSeq
        <5>2. i \in DOMAIN u /\ u[i] = e
          BY <3>2, <3>3, <5>1
        <5> QED
          BY <5>2
      <4> QED
        BY <3>1, <4>1, <4>2
    <3>5. ASSUME NEW i \in DOMAIN u, NEW j \in DOMAIN u, i < j PROVE u[i] < u[j]
      <4>1. i \in DOMAIN t /\ u[i] = t[i] /\ t[i] \in A
        BY <3>2, <3>3, <3>5
      <4>2. CASE j = Len(t) + 1
        BY <3>1, <3>3, <4>1, <4>2
      <4>3. CASE j # Len(t) + 1
        <5>1. j \in DOMAIN t /\ u[j] = t[j]
          BY <3>2, <3>3, <4>3
        <5> QED
          BY <2>2, <3>5, <4>1, <5>1 DEF InOrderSeq
      <4> QED
        BY <4>2, <4>3
    <3>6. InOrderSeq(u, B)
      BY <3>3, <3>4, <3>5 DEF InOrderSeq
    <3>7. up[k] = u
      BY <2>1, <2>4 DEF Next1, u
    <3> QED
      BY <3>6, <3>7
  <2> QED
    BY <2>3, <2>4
<1>8. n \in P
  <2>1. \A k \in 0 .. n : k \in P
    <3> HIDE DEF P
    <3> QED
      BY <1>6, <1>7, Upwards
  <2> QED
    BY <2>1
<1>9. To(n) = S
  BY <1>0
<1> QED
  BY <1>1, <1>8, <1>9

LEMMA InOrderCount ==
  ASSUME NEW n \in Nat, NEW S \in SUBSET (1 .. n), NEW s, InOrderSeq(s, S)
  PROVE  Len(s) = Cardinality(S)
<1>1. /\ s \in Seq(S) /\ Len(s) \in Nat /\ DOMAIN s = 1 .. Len(s)
      /\ \A i \in 1 .. Len(s) : s[i] \in S
  BY LenProperties, ElementOfSeq DEF InOrderSeq
<1>2. /\ \A e \in S : \E i \in 1 .. Len(s) : s[i] = e
      /\ \A i, j \in 1 .. Len(s) : i < j => s[i] < s[j]
  BY <1>1 DEF InOrderSeq
<1>3. s \in [1 .. Len(s) -> S]
  BY <1>1
<1>4. s \in Surjection(1 .. Len(s), S)
  BY <1>2, <1>3 DEF Surjection
<1>5. s \in Injection(1 .. Len(s), S)
  <2>1. ASSUME NEW i \in 1 .. Len(s), NEW j \in 1 .. Len(s), s[i] = s[j] PROVE i = j
    <3>1. i < j \/ j < i \/ i = j
      BY <1>1
    <3>2. s[i] \in Nat /\ s[j] \in Nat
      <4>1. s[i] \in S /\ s[j] \in S
        BY <1>1
      <4>2. \A x \in S : x \in 1 .. n
        OBVIOUS
      <4>3. \A x \in S : x \in Nat
        BY <4>2
      <4> QED
        BY <4>1, <4>3
    <3> QED
      BY <1>2, <2>1, <3>1, <3>2
  <2> QED
    BY <1>3, <2>1 DEF Injection, IsInjective
<1>6. IsFiniteSet(1 .. Len(s)) /\ Cardinality(1 .. Len(s)) = Len(s)
  <2>1. 1 \in Int /\ Len(s) \in Int
    BY <1>1
  <2>2. IsFiniteSet(1 .. Len(s))
        /\ Cardinality(1 .. Len(s)) = IF 1 > Len(s) THEN 0 ELSE Len(s) - 1 + 1
    BY <2>1, FS_Interval
  <2> QED
    BY <1>1, <2>2
<1> QED
  BY <1>4, <1>5, <1>6, FS_Surjection

----------------------------------------------------------------------------
(* The inner loop of the tokenizer.                                        *)
Tokens == Seq(Chars)
Modes == {"plain", "comment", "escape", "\"", "'"}
LexStates == [tok : Tokens, mode : Modes, next : Nat]

LEMMA ConsumeIs ==
  ASSUME NEW st \in LexStates, NEW c \in Chars, NEW p \in Nat
  PROVE  /\ Consume(st, c, p) \in LexStates
         /\ Consume(st, c, p).next \in {st.next, p, p + 1}
         /\ Consume(st, c, p).next # st.next => Consume(st, c, p).tok # NoToken
         /\ Consume(st, c, p).next = p /\ st.next # p => st.tok # NoToken
<1>1. st.tok \in Tokens /\ st.mode \in Modes /\ st.next \in Nat
  BY DEF LexStates
<1>2. Append(st.tok, c) \in Tokens /\ Append(st.tok, c) # NoToken
  BY <1>1, AppendProperties DEF Tokens, NoToken
<1>3. /\ Keep(st, c) \in LexStates
      /\ Keep(st, c).tok = Append(st.tok, c) /\ Keep(st, c).next = st.next
  BY <1>1, <1>2 DEF Keep, LexStates, Modes
<1>4. \A m \in Modes : Enter(st, m) \in LexStates /\ Enter(st, m).next = st.next
  BY <1>1 DEF Enter, LexStates
<1>5. \A i \in Nat : /\ Complete(st, i) \in LexStates
                     /\ Complete(st, i).next = i /\ Complete(st, i).tok = st.tok
  BY <1>1 DEF Complete, LexStates
<1>6. c = ";" => Semicolon(st, p) =
          IF st.tok = NoToken THEN Complete(Keep(st, c), p + 1) ELSE Complete(st, p)
  BY DEF Semicolon
<1>7. /\ Complete(Keep(st, c), p + 1) \in LexStates
      /\ Complete(Keep(st, c), p + 1).next = p + 1
      /\ Complete(Keep(st, c), p + 1).tok = Append(st.tok, c)
  BY <1>3 DEF Complete, LexStates
<1>8. \/ Consume(st, c, p) = st
      \/ Consume(st, c, p) = Keep(st, c)
      \/ \E m \in Modes : Consume(st, c, p) = Enter(st, m)
      \/ Consume(st, c, p) = Complete(st, p + 1) /\ st.tok # NoToken
      \/ c = ";" /\ Consume(st, c, p) = Semicolon(st, p)
  <2>1. CASE st.mode # "plain"
    <3>1. Consume(st, c, p) = ConsumeSpecial(st, c)
      BY <2>1 DEF Consume
    <3>2. \/ ConsumeSpecial(st, c) \in {st, Keep(st, c)}
          \/ ConsumeSpecial(st, c) = Enter(st, "plain")
      BY DEF ConsumeSpecial
    <3> QED
      BY <3>1, <3>2 DEF Modes
  <2>2. CASE st.mode = "plain"
    <3>1. Consume(st, c, p) = ConsumePlain(st, c, p)
      BY <2>2 DEF Consume
    <3>2. \/ ConsumePlain(st, c, p) = st
          \/ ConsumePlain(st, c, p) = Keep(st, c)
          \/ \E m \in {"\"", "'", "comment", "escape"} : ConsumePlain(st, c, p) = Enter(st, m)
          \/ ConsumePlain(st, c, p) = Complete(st, p + 1) /\ st.tok # NoToken
          \/ c = ";" /\ ConsumePlain(st, c, p) = Semicolon(st, p)
      BY DEF ConsumePlain, Blanks, Newline
    <3> QED
      BY <3>1, <3>2 DEF Modes
  <2> QED
    BY <2>1, <2>2
<1>9. CASE Consume(st, c, p) = st \/ Consume(st, c, p) = Keep(st, c)
  BY <1>3, <1>9
<1>10. CASE \E m \in Modes : Consume(st, c, p) = Enter(st, m)
  BY <1>4, <1>10
<1>11. CASE Consume(st, c, p) = Complete(st, p + 1) /\ st.tok # NoToken
  BY <1>5, <1>11
<1>12. CASE c = ";" /\ Consume(st, c, p) = Semicolon(st, p)
  <2>1. CASE st.tok = NoToken
    <3>1. Consume(st, c, p) = Complete(Keep(st, c), p + 1)
      BY <1>6, <1>12, <2>1
    <3>2. Consume(st, c, p).next = p + 1 /\ Consume(st, c, p).next # p
      BY <1>7, <3>1
    <3> QED
      BY <1>2, <1>7, <3>1, <3>2
  <2>2. CASE st.tok # NoToken
    BY <1>5, <1>6, <1>12, <2>2
  <2> QED
    BY <2>1, <2>2
<1> QED
  BY <1>8, <1>9, <1>10, <1>11, <1>12

LexRun(st, s, pos) ==
    /\ st \in [pos - 1 .. Len(s) -> LexStates]
    /\ st[pos - 1] = Fresh
    /\ \A p \in pos .. Len(s) : st[p] = Consume(st[p - 1], s[p], p)

Completes(st, p) == st[p].next # 0 /\ st[p - 1].next = 0

LEMMA LexIs ==
  ASSUME NEW s \in Tokens, NEW pos \in 1 .. Len(s) + 1
  PROVE  \E st : /\ LexRun(st, s, pos)
                 /\ Lex(s, pos) = IF \E p \in pos .. Len(s) : Completes(st, p)
                                  THEN st[CHOOSE p \in pos .. Len(s) : Completes(st, p)]
                                  ELSE Fresh
<1> DEFINE m == pos - 1
           n == Len(s)
           Round(x, p) == Consume(x, s[p], p)
           F == [p \in m .. n |-> [x \in LexStates |-> IF p = m THEN x ELSE Round(x, p)]]
           st == CHOOSE f : f = [p \in m .. n |-> IF p = m THEN Fresh ELSE Round(f[p - 1], p)]
<1>1. n \in Nat /\ m \in Int /\ n \in Int /\ m <= n /\ \A p \in pos .. n : p \in Nat /\ s[p] \in Chars
  BY LenProperties DEF Tokens
<1>2. Fresh \in LexStates
  BY DEF Fresh, LexStates, Modes, Tokens, NoToken
<1>3. F \in [m .. n -> [LexStates -> LexStates]]
  <2>1. ASSUME NEW p \in m .. n, p # m, NEW x \in LexStates PROVE Round(x, p) \in LexStates
    <3>1. p \in pos .. n
      BY <1>1, <2>1
    <3> QED
      BY <1>1, <3>1, ConsumeIs
  <2> HIDE DEF Round
  <2> QED
    BY <2>1
<1>4. PICK g : Iterated(g, m, n, LexStates, Fresh, F)
  <2> HIDE DEF F, m, n
  <2> QED
    BY <1>1, <1>2, <1>3, Iterates, Zenon
<1> HIDE DEF Round
<1>5. /\ g \in [m .. n -> LexStates] /\ g[m] = Fresh
      /\ \A p \in m + 1 .. n : g[p] = Round(g[p - 1], p)
  <2>1. /\ g \in [m .. n -> LexStates] /\ g[m] = Fresh
        /\ \A p \in m + 1 .. n : g[p] = F[p][g[p - 1]]
    <3> HIDE DEF F, m, n
    <3> QED
      BY <1>4 DEF Iterated
  <2>2. \A p \in m + 1 .. n : p - 1 \in m .. n /\ p \in m .. n /\ p # m
    BY <1>1
  <2> QED
    BY <2>1, <2>2
<1>6. g = [p \in m .. n |-> IF p = m THEN Fresh ELSE Round(g[p - 1], p)]
  <2>1. \A p \in m .. n : g[p] = IF p = m THEN Fresh ELSE Round(g[p - 1], p)
    BY <1>1, <1>5
  <2> QED
    BY <1>5, <2>1
<1>7. st = [p \in m .. n |-> IF p = m THEN Fresh ELSE Round(st[p - 1], p)]
  BY <1>6
<1>8. Lex(s, pos) = IF \E p \in pos .. n : Completes(st, p)
                    THEN st[CHOOSE p \in pos .. n : Completes(st, p)] ELSE Fresh
  BY DEF Lex, Round, Completes
<1> HIDE DEF st
<1>9. LexRun(st, s, pos)
  <2>1. \A p \in m .. n : st[p] = IF p = m THEN Fresh ELSE Round(st[p - 1], p)
    BY <1>7
  <2>2. \A p \in pos .. n : st[p] = Round(st[p - 1], p)
    BY <1>1, <2>1
  <2>3. st[m] = Fresh
    BY <1>1, <2>1
  <2> DEFINE P == {p \in m .. n : st[p] \in LexStates}
  <2>4. m \in P
    BY <1>1, <1>2, <2>3
  <2>5. ASSUME NEW p \in m + 1 .. n, p - 1 \in P PROVE p \in P
    <3>1. p \in pos .. n /\ p \in Nat /\ s[p] \in Chars
      BY <1>1
    <3>2. Round(st[p - 1], p) \in LexStates
      BY <2>5, <3>1, ConsumeIs DEF Round
    <3> QED
      BY <2>2, <3>1, <3>2
  <2>6. \A p \in m .. n : p \in P
    <3> HIDE DEF P
    <3> QED
      BY <1>1, <2>4, <2>5, Upwards
  <2>7. st \in [m .. n -> LexStates]
    BY <1>7, <2>6
  <2> QED
    BY <2>2, <2>3, <2>7 DEF LexRun, Round
<1> QED
  BY <1>8, <1>9

LEMMA LexFacts ==
  ASSUME NEW s \in Tokens, NEW pos \in 1 .. Len(s) + 1
  PROVE  /\ Lex(s, pos) \in LexStates
         /\ \/ Lex(s, pos).next = 0
            \/ Lex(s, pos).next \in pos + 1 .. Len(s) + 1 /\ Lex(s, pos).tok # NoToken
         /\ pos = Len(s) + 1 => Lex(s, pos).next = 0
<1>1. PICK st : /\ LexRun(st, s, pos)
                /\ Lex(s, pos) = IF \E p \in pos .. Len(s) : Completes(st, p)
                                 THEN st[CHOOSE p \in pos .. Len(s) : Completes(st, p)]
                                 ELSE Fresh
  BY LexIs
<1>2. Fresh \in LexStates /\ Fresh.next = 0 /\ Fresh.tok = NoToken
  BY DEF Fresh, LexStates, Modes, Tokens, NoToken
<1>3. Len(s) \in Nat /\ \A p \in pos .. Len(s) : p \in Nat /\ s[p] \in Chars
  BY LenProperties DEF Tokens
<1>4. CASE ~ \E p \in pos .. Len(s) : Completes(st, p)
  BY <1>1, <1>2, <1>4
<1>5. CASE \E p \in pos .. Len(s) : Completes(st, p)
  <2> DEFINE q == CHOOSE p \in pos .. Len(s) : Completes(st, p)
  <2>1. q \in pos .. Len(s) /\ Completes(st, q)
    BY <1>5
  <2>2. Lex(s, pos) = st[q]
    BY <1>1, <1>5
  <2> HIDE DEF q
  <2>3. /\ st[q] = Consume(st[q - 1], s[q], q)
        /\ st[q - 1] \in LexStates
        /\ q \in Nat /\ s[q] \in Chars
    BY <1>1, <1>3, <2>1 DEF LexRun
  <2>4. st[q].next # 0 /\ st[q - 1].next = 0
    BY <2>1 DEF Completes
  <2>5. /\ st[q] \in LexStates /\ st[q].next \in {q, q + 1} /\ st[q].tok # NoToken
        /\ st[q].next = q => st[q - 1].tok # NoToken
    <3>1. /\ st[q] \in LexStates /\ st[q].next \in {st[q - 1].next, q, q + 1}
          /\ st[q].next # st[q - 1].next => st[q].tok # NoToken
          /\ st[q].next = q /\ st[q - 1].next # q => st[q - 1].tok # NoToken
      BY <2>3, ConsumeIs
    <3> QED
      BY <2>3, <2>4, <3>1
  <2>6. st[q].next = q => q # pos
    <3>1. st[pos - 1].tok = NoToken
      BY <1>1, <1>2 DEF LexRun
    <3> QED
      BY <2>5, <3>1
  <2>7. st[q].next \in pos + 1 .. Len(s) + 1 /\ pos # Len(s) + 1
    BY <1>3, <2>1, <2>5, <2>6
  <2> QED
    BY <2>2, <2>5, <2>7
<1> QED
  BY <1>4, <1>5

----------------------------------------------------------------------------
(* The ring of tokens is a bounded queue.  It is empty with its end away   *)
(* from slot 0 only when nothing will be added to it any more, since what  *)
(* is added to an empty ring is looked for in slot 0.                      *)
Rings == [pos : Nat, t : [0 .. Lookahead -> Tokens], ts : Empty .. Lookahead, te : 0 .. Lookahead]

RingOK(s, r) ==
    /\ r \in Rings
    /\ r.pos \in 1 .. Len(s) + 1
    /\ r.ts = Empty => r.te = 0 \/ r.pos = Len(s) + 1

Queued(r) ==
    IF r.ts = Empty THEN 0
    ELSE IF r.ts < r.te THEN r.te - r.ts
    ELSE r.te - r.ts + Lookahead + 1
Slot(r, i) == IF r.ts + i > Lookahead THEN r.ts + i - (Lookahead + 1) ELSE r.ts + i
Queue(r) == [i \in 1 .. Queued(r) |-> r.t[Slot(r, i - 1)]]

LEMMA QueueIs ==
  ASSUME NEW s \in Tokens, NEW r, RingOK(s, r)
  PROVE  /\ Queued(r) \in 0 .. Lookahead + 1
         /\ Queue(r) \in Seq(Tokens) /\ Len(Queue(r)) = Queued(r)
         /\ \A i \in 1 .. Queued(r) : Slot(r, i - 1) \in 0 .. Lookahead
         /\ Queued(r) = 0 <=> r.ts = Empty
         /\ Queued(r) = Lookahead + 1 <=> r.ts = r.te
<1>1. /\ Lookahead \in Nat /\ r.ts \in -1 .. Lookahead /\ r.te \in 0 .. Lookahead
      /\ r.t \in [0 .. Lookahead -> Tokens]
  BY LookaheadAssumption DEF RingOK, Rings, Empty
<1>2. /\ Queued(r) \in 0 .. Lookahead + 1
      /\ Queued(r) = 0 <=> r.ts = Empty
      /\ Queued(r) = Lookahead + 1 <=> r.ts = r.te
  BY <1>1 DEF Queued, Empty
<1>3. \A i \in 1 .. Queued(r) : Slot(r, i - 1) \in 0 .. Lookahead
  BY <1>1 DEF Queued, Slot, Empty
<1>4. \A i \in 1 .. Queued(r) : r.t[Slot(r, i - 1)] \in Tokens
  BY <1>1, <1>3
<1>5. Queue(r) \in [1 .. Queued(r) -> Tokens]
  BY <1>4 DEF Queue
<1> QED
  BY <1>2, <1>3, <1>5

LEMMA SlotRange ==
  ASSUME NEW L \in Nat, NEW ts \in 0 .. L, NEW te \in 0 .. L, ts # te, NEW n, NEW i \in Int,
         n = IF ts < te THEN te - ts ELSE te - ts + L + 1, 1 <= i, i <= n,
         NEW k, k = IF ts + (i - 1) > L THEN ts + (i - 1) - (L + 1) ELSE ts + (i - 1)
  PROVE  k # te /\ k \in 0 .. L
  OBVIOUS

LEMMA FillOneIs ==
  ASSUME NEW s \in Tokens, NEW r, RingOK(s, r), r.ts # r.te,
         NEW u, u = FillOne(s, r), NEW lexed, lexed = Lex(s, r.pos)
  PROVE  /\ RingOK(s, u)
         /\ lexed.next = 0 => u.pos = Len(s) + 1 /\ Queue(u) = Queue(r) /\ Queued(u) = Queued(r)
         /\ lexed.next # 0 => /\ u.pos = lexed.next /\ lexed.tok \in Tokens
                              /\ Queue(u) = Append(Queue(r), lexed.tok)
                              /\ Queued(u) = Queued(r) + 1
<1>1. /\ Lookahead \in Nat /\ r.ts \in -1 .. Lookahead /\ r.te \in 0 .. Lookahead
      /\ r.t \in [0 .. Lookahead -> Tokens] /\ r \in Rings /\ r.pos \in 1 .. Len(s) + 1
      /\ Len(s) \in Nat
  BY LookaheadAssumption, LenProperties DEF RingOK, Rings, Empty, Tokens
<1>2. /\ lexed \in LexStates /\ lexed.tok \in Tokens /\ lexed.next \in Nat
      /\ lexed.next # 0 => lexed.next \in r.pos + 1 .. Len(s) + 1 /\ r.pos # Len(s) + 1
  BY <1>1, LexFacts DEF LexStates
<1>3. CASE lexed.next = 0
  <2>1. u = [r EXCEPT !.pos = Len(s) + 1]
    BY <1>3 DEF FillOne
  <2>2. u \in Rings /\ u.pos = Len(s) + 1 /\ u.t = r.t /\ u.ts = r.ts /\ u.te = r.te
    BY <1>1, <2>1 DEF Rings
  <2>3. RingOK(s, u)
    BY <1>1, <2>2 DEF RingOK
  <2>4. Queued(u) = Queued(r) /\ Queue(u) = Queue(r)
    BY <2>2 DEF Queued, Queue, Slot
  <2> QED
    BY <1>3, <2>2, <2>3, <2>4
<1>4. CASE lexed.next # 0
  <2>1. u = [pos |-> lexed.next, t |-> [r.t EXCEPT ![r.te] = lexed.tok],
             ts |-> IF r.ts = Empty THEN 0 ELSE r.ts, te |-> Wrap(r.te)]
    BY <1>4 DEF FillOne
  <2>2. Wrap(r.te) \in 0 .. Lookahead /\ Wrap(r.te) = IF r.te = Lookahead THEN 0 ELSE r.te + 1
    BY <1>1 DEF Wrap
  <2>3. /\ u.pos = lexed.next /\ u.te = Wrap(r.te)
        /\ u.ts = IF r.ts = Empty THEN 0 ELSE r.ts
        /\ u.t = [r.t EXCEPT ![r.te] = lexed.tok]
    BY <2>1
  <2>4. u.ts \in 0 .. Lookahead /\ u.t \in [0 .. Lookahead -> Tokens] /\ u.pos \in 1 .. Len(s) + 1
    BY <1>1, <1>2, <1>4, <2>3 DEF Empty
  <2>5. u \in Rings
    BY <1>2, <2>1, <2>2, <2>3, <2>4 DEF Rings, Empty
  <2>6. RingOK(s, u)
    BY <2>4, <2>5 DEF RingOK, Empty
  <2>7. r.ts = Empty => r.te = 0
    BY <1>2, <1>4 DEF RingOK
  <2>8. Queued(u) = Queued(r) + 1
    <3>1. CASE r.ts = Empty
      BY <1>1, <2>2, <2>3, <2>7, <3>1 DEF Queued, Empty
    <3>2. CASE r.ts # Empty /\ r.ts < r.te
      BY <1>1, <2>2, <2>3, <3>2 DEF Queued, Empty
    <3>3. CASE r.ts # Empty /\ r.te < r.ts
      BY <1>1, <2>2, <2>3, <3>3 DEF Queued, Empty
    <3> QED
      BY <1>1, <3>1, <3>2, <3>3 DEF Empty
  <2>9. Queued(r) \in 0 .. Lookahead /\ Len(Queue(r)) = Queued(r) /\ Queue(r) \in Seq(Tokens)
    BY <1>1, QueueIs
  <2>10. ASSUME NEW i \in 1 .. Queued(r)
         PROVE  Slot(u, i - 1) = Slot(r, i - 1) /\ Slot(r, i - 1) # r.te
                /\ Slot(r, i - 1) \in 0 .. Lookahead
    <3>1. r.ts # Empty
      BY <2>9 DEF Queued
    <3>2. u.ts = r.ts
      BY <2>3, <3>1
    <3>3. Slot(u, i - 1) = Slot(r, i - 1)
      BY <3>2 DEF Slot
    <3>4. /\ r.ts \in 0 .. Lookahead /\ Queued(r) \in Int /\ i \in Int /\ 1 <= i /\ i <= Queued(r)
          /\ Queued(r) = IF r.ts < r.te THEN r.te - r.ts ELSE r.te - r.ts + Lookahead + 1
          /\ Slot(r, i - 1) = IF r.ts + (i - 1) > Lookahead
                              THEN r.ts + (i - 1) - (Lookahead + 1) ELSE r.ts + (i - 1)
      BY <1>1, <2>9, <3>1 DEF Slot, Queued, Empty
    <3>5. Slot(r, i - 1) # r.te /\ Slot(r, i - 1) \in 0 .. Lookahead
      BY <1>1, <3>4, SlotRange
    <3> QED
      BY <3>3, <3>5
  <2>11. Slot(u, Queued(r)) = r.te
    BY <1>1, <2>3, <2>7 DEF Slot, Queued, Empty
  <2>12. \A i \in 1 .. Queued(r) : u.t[Slot(u, i - 1)] = r.t[Slot(r, i - 1)]
    BY <1>1, <2>3, <2>10
  <2>13. u.t[Slot(u, Queued(r))] = lexed.tok
    BY <1>1, <2>3, <2>11
  <2> DEFINE q == Append(Queue(r), lexed.tok)
  <2>14. /\ q \in Seq(Tokens) /\ Len(q) = Queued(r) + 1
         /\ \A i \in 1 .. Queued(r) : q[i] = Queue(r)[i]
         /\ q[Queued(r) + 1] = lexed.tok
    BY <1>2, <2>9, AppendProperties
  <2>15. Queue(u) \in Seq(Tokens) /\ Len(Queue(u)) = Queued(r) + 1
    BY <2>6, <2>8, QueueIs
  <2>16. \A i \in 1 .. Queued(r) + 1 : Queue(u)[i] = q[i]
    <3>1. ASSUME NEW i \in 1 .. Queued(r) PROVE Queue(u)[i] = q[i]
      BY <2>8, <2>9, <2>12, <2>14 DEF Queue
    <3>2. Queue(u)[Queued(r) + 1] = lexed.tok
      BY <2>8, <2>9, <2>13 DEF Queue
    <3> QED
      BY <2>9, <2>14, <3>1, <3>2
  <2>17. Queue(u) = q
    <3> HIDE DEF q
    <3> QED
      BY <2>14, <2>15, <2>16, SeqEqual
  <2> QED
    BY <1>2, <1>4, <2>3, <2>6, <2>8, <2>17
<1> QED
  BY <1>3, <1>4

(* The tokens toks are the first of the text s, one behind the other at    *)
(* the positions at, and the search for the next one goes on at pos.       *)
LexedAt(s, toks, at, pos) ==
    /\ at \in [1 .. Len(toks) + 1 -> 1 .. Len(s) + 1]
    /\ at[1] = 1
    /\ \A i \in 1 .. Len(toks) : /\ Lex(s, at[i]).tok = toks[i]
                                 /\ Lex(s, at[i]).next = at[i + 1]
    /\ \/ pos = at[Len(toks) + 1]
       \/ pos = Len(s) + 1 /\ Lex(s, at[Len(toks) + 1]).next = 0

Lexed(s, toks, pos) == toks \in Seq(Tokens) /\ \E at : LexedAt(s, toks, at, pos)

LEMMA LexedNone ==
  ASSUME NEW s \in Tokens
  PROVE  Lexed(s, <<>>, 1)
<1> DEFINE at == [i \in 1 .. 1 |-> 1]
<1>1. Len(s) \in Nat
  BY LenProperties DEF Tokens
<1>2. LexedAt(s, <<>>, at, 1)
  BY <1>1 DEF LexedAt
<1> QED
  BY <1>2 DEF Lexed

(* One more token, or the end of the text.                                 *)
LEMMA LexedMore ==
  ASSUME NEW s \in Tokens, NEW toks, NEW pos \in 1 .. Len(s) + 1, Lexed(s, toks, pos),
         NEW lexed, lexed = Lex(s, pos)
  PROVE  /\ lexed.next = 0 => Lexed(s, toks, Len(s) + 1)
         /\ lexed.next # 0 => Lexed(s, Append(toks, lexed.tok), lexed.next)
<1>1. toks \in Seq(Tokens) /\ Len(toks) \in Nat /\ Len(s) \in Nat
  BY LenProperties DEF Lexed, Tokens
<1>2. PICK at : LexedAt(s, toks, at, pos)
  BY DEF Lexed
<1> DEFINE n == Len(toks)
<1>3. CASE lexed.next = 0
  <2>1. LexedAt(s, toks, at, Len(s) + 1)
    BY <1>2, <1>3 DEF LexedAt
  <2> QED
    BY <1>1, <1>3, <2>1 DEF Lexed
<1>4. CASE lexed.next # 0
  <2>1. /\ lexed.tok \in Tokens /\ lexed.next \in 1 .. Len(s) + 1
        /\ pos # Len(s) + 1
    BY <1>1, <1>4, LexFacts DEF LexStates
  <2>2. pos = at[n + 1]
    BY <1>2, <2>1 DEF LexedAt
  <2> DEFINE more == Append(toks, lexed.tok)
             now == [i \in 1 .. n + 2 |-> IF i = n + 2 THEN lexed.next ELSE at[i]]
  <2>3. /\ more \in Seq(Tokens) /\ Len(more) = n + 1 /\ more[n + 1] = lexed.tok
        /\ \A i \in 1 .. n : more[i] = toks[i]
    BY <1>1, <2>1, AppendProperties
  <2>4. at \in [1 .. n + 1 -> 1 .. Len(s) + 1]
    BY <1>2 DEF LexedAt
  <2>5. now \in [1 .. n + 2 -> 1 .. Len(s) + 1] /\ now[n + 2] = lexed.next
        /\ \A i \in 1 .. n + 1 : now[i] = at[i]
    BY <1>1, <2>1, <2>4
  <2> HIDE DEF now, more
  <2>6. ASSUME NEW i \in 1 .. n + 1
        PROVE  Lex(s, now[i]).tok = more[i] /\ Lex(s, now[i]).next = now[i + 1]
    <3>1. CASE i = n + 1
      BY <1>1, <2>2, <2>3, <2>5, <3>1
    <3>2. CASE i # n + 1
      <4>1. i \in 1 .. n /\ i + 1 \in 1 .. n + 1
        BY <1>1, <3>2
      <4> QED
        BY <1>2, <2>3, <2>5, <4>1 DEF LexedAt
    <3> QED
      BY <3>1, <3>2
  <2>7. now[1] = 1
    BY <1>1, <1>2, <2>5 DEF LexedAt
  <2>8. LexedAt(s, more, now, lexed.next)
    BY <1>1, <2>3, <2>5, <2>6, <2>7 DEF LexedAt
  <2> QED
    BY <1>4, <2>3, <2>8 DEF Lexed, more
<1> QED
  BY <1>3, <1>4

(* No more tokens than characters.                                         *)
LEMMA LexedBound ==
  ASSUME NEW s \in Tokens, NEW toks, NEW pos, Lexed(s, toks, pos)
  PROVE  /\ Len(toks) \in 0 .. Len(s)
         /\ \A i \in 1 .. Len(toks) : toks[i] \in Tokens \ {NoToken}
<1>1. toks \in Seq(Tokens) /\ Len(toks) \in Nat /\ Len(s) \in Nat
  BY LenProperties DEF Lexed, Tokens
<1>2. PICK at : LexedAt(s, toks, at, pos)
  BY DEF Lexed
<1> DEFINE n == Len(toks)
           P == {i \in 1 .. n + 1 : at[i] >= i}
<1>3. \A i \in 1 .. n + 1 : at[i] \in 1 .. Len(s) + 1
  BY <1>2 DEF LexedAt
<1>4. 1 \in P
  BY <1>1, <1>2 DEF LexedAt
<1>5. ASSUME NEW i \in 1 .. n
      PROVE  /\ Lex(s, at[i]).tok = toks[i] /\ toks[i] \in Tokens \ {NoToken}
             /\ at[i + 1] >= at[i] + 1
  <2>1. i \in 1 .. n + 1 /\ i + 1 \in 1 .. n + 1
    BY <1>1
  <2>2. at[i] \in 1 .. Len(s) + 1 /\ at[i + 1] \in 1 .. Len(s) + 1
    BY <1>3, <2>1
  <2>3. Lex(s, at[i]).tok = toks[i] /\ Lex(s, at[i]).next = at[i + 1]
    BY <1>2 DEF LexedAt
  <2> QED
    BY <1>1, <2>2, <2>3, LexFacts DEF LexStates
<1>6. ASSUME NEW i \in 1 + 1 .. n + 1, i - 1 \in P PROVE i \in P
  <2>1. i - 1 \in 1 .. n /\ (i - 1) + 1 = i
    BY <1>1
  <2>2. at[i] >= at[i - 1] + 1
    BY <1>5, <2>1
  <2> QED
    BY <1>1, <1>3, <1>6, <2>1, <2>2
<1>7. \A i \in 1 .. n + 1 : i \in P
  <2>1. 1 \in Int /\ n + 1 \in Int
    BY <1>1
  <2> HIDE DEF P, n
  <2> QED
    BY <1>4, <1>6, <2>1, Upwards
<1>8. at[n + 1] >= n + 1
  BY <1>1, <1>7
<1> QED
  BY <1>1, <1>3, <1>5, <1>8

----------------------------------------------------------------------------
(* Filling the ring takes tokens from the text and adds them to the queue, *)
(* until the ring is full or the text at its end.                          *)
Fills(s, r, u) ==
    /\ RingOK(s, u)
    /\ \A toks \in Seq(Tokens) : Lexed(s, toks \o Queue(r), r.pos) =>
                                 Lexed(s, toks \o Queue(u), u.pos)

LEMMA FillsOnce ==
  ASSUME NEW s \in Tokens, NEW r, NEW u, Fills(s, r, u), u.ts # u.te
  PROVE  Fills(s, r, FillOne(s, u))
<1> DEFINE v == FillOne(s, u)
           lexed == Lex(s, u.pos)
<1>1. RingOK(s, u)
  BY DEF Fills
<1>2. /\ RingOK(s, v)
      /\ lexed.next = 0 => v.pos = Len(s) + 1 /\ Queue(v) = Queue(u)
      /\ lexed.next # 0 => /\ v.pos = lexed.next /\ lexed.tok \in Tokens
                           /\ Queue(v) = Append(Queue(u), lexed.tok)
  BY <1>1, FillOneIs
<1>3. ASSUME NEW toks \in Seq(Tokens), Lexed(s, toks \o Queue(r), r.pos)
      PROVE  Lexed(s, toks \o Queue(v), v.pos)
  <2>1. Lexed(s, toks \o Queue(u), u.pos) /\ u.pos \in 1 .. Len(s) + 1
    BY <1>3 DEF Fills, RingOK
  <2>2. CASE lexed.next = 0
    BY <1>2, <2>1, <2>2, LexedMore
  <2>3. CASE lexed.next # 0
    <3>1. Lexed(s, Append(toks \o Queue(u), lexed.tok), lexed.next)
      BY <2>1, <2>3, LexedMore
    <3>2. Append(toks \o Queue(u), lexed.tok) = toks \o Append(Queue(u), lexed.tok)
      <4>1. Queue(u) \in Seq(Tokens) /\ lexed.tok \in Tokens
        BY <1>1, <1>2, <2>3, QueueIs
      <4> HIDE DEF lexed
      <4>2. <<lexed.tok>> \in Seq(Tokens) /\ toks \o Queue(u) \in Seq(Tokens)
        BY <4>1
      <4>3. /\ Append(toks \o Queue(u), lexed.tok) = (toks \o Queue(u)) \o <<lexed.tok>>
            /\ Append(Queue(u), lexed.tok) = Queue(u) \o <<lexed.tok>>
        BY <4>1, <4>2, AppendIsConcat
      <4> QED
        BY <4>1, <4>2, <4>3, ConcatAssociative
    <3> QED
      BY <1>2, <2>3, <3>1, <3>2
  <2> QED
    BY <2>2, <2>3
<1> QED
  BY <1>2, <1>3 DEF Fills

LEMMA TokenizeIs ==
  ASSUME NEW s \in Tokens, NEW r, RingOK(s, r), NEW u, u = gen_tokenize_tokenize(s, r)
  PROVE  Fills(s, r, u) /\ (u.ts = u.te \/ u.pos = Len(s) + 1)
<1> DEFINE n == Lookahead + 1
           S == {v \in Rings : Fills(s, r, v)}
           Round(v) == IF v.ts = v.te THEN v ELSE FillOne(s, v)
           F == [k \in 0 .. n |-> [v \in S |-> Round(v)]]
           fill == CHOOSE f : f = [k \in 0 .. n |-> IF k = 0 THEN r ELSE Round(f[k - 1])]
<1>1. n \in Nat /\ 0 \in Int /\ n \in Int /\ 0 <= n
  BY LookaheadAssumption
<1>2. r \in S
  BY DEF Fills, RingOK
<1>3. ASSUME NEW v \in S PROVE Round(v) \in S
  <2>1. CASE v.ts = v.te
    BY <2>1
  <2>2. CASE v.ts # v.te
    <3>1. Fills(s, r, FillOne(s, v))
      BY <2>2, FillsOnce
    <3>2. FillOne(s, v) \in Rings
      BY <3>1 DEF Fills, RingOK
    <3> QED
      BY <2>2, <3>1, <3>2
  <2> QED
    BY <2>1, <2>2
<1>4. u = fill[n]
  BY DEF gen_tokenize_tokenize
<1> HIDE DEF Round, S
<1>5. F \in [0 .. n -> [S -> S]]
  BY <1>3
<1>6. PICK g : Iterated(g, 0, n, S, r, F)
  <2> HIDE DEF F, n
  <2> QED
    BY <1>1, <1>2, <1>5, Iterates, Zenon
<1>7. /\ g \in [0 .. n -> S] /\ g[0] = r
      /\ \A k \in 1 .. n : g[k] = Round(g[k - 1])
  <2>1. /\ g \in [0 .. n -> S] /\ g[0] = r
        /\ \A k \in 0 + 1 .. n : g[k] = F[k][g[k - 1]]
    <3> HIDE DEF F, n
    <3> QED
      BY <1>6 DEF Iterated
  <2>2. \A k \in 1 .. n : k - 1 \in 0 .. n /\ k \in 0 .. n /\ k \in 0 + 1 .. n
    BY <1>1
  <2> HIDE DEF n
  <2> QED
    BY <2>1, <2>2
<1>8. g = [k \in 0 .. n |-> IF k = 0 THEN r ELSE Round(g[k - 1])]
  <2>1. \A k \in 0 .. n : g[k] = IF k = 0 THEN r ELSE Round(g[k - 1])
    BY <1>1, <1>7
  <2> QED
    BY <1>7, <2>1
<1>9. fill = [k \in 0 .. n |-> IF k = 0 THEN r ELSE Round(fill[k - 1])]
  BY <1>8
<1> HIDE DEF fill
<1>10. fill[0] = r /\ \A k \in 1 .. n : fill[k] = Round(fill[k - 1])
  <2>1. \A k \in 0 .. n : fill[k] = IF k = 0 THEN r ELSE Round(fill[k - 1])
    BY <1>9
  <2> HIDE DEF n
  <2> QED
    BY <1>1, <2>1
<1> DEFINE Ends(v, k) == v.ts = v.te \/ v.pos = Len(s) + 1 \/ Queued(v) >= k
           P == {k \in 0 .. n : fill[k] \in S /\ Ends(fill[k], k)}
<1>11. 0 \in P
  <2>1. Queued(r) >= 0
    BY QueueIs
  <2> QED
    BY <1>1, <1>2, <1>10, <2>1
<1>12. ASSUME NEW k \in 0 + 1 .. n, k - 1 \in P PROVE k \in P
  <2> DEFINE v == fill[k - 1]
             w == fill[k]
  <2>1. k \in 1 .. n /\ k - 1 \in 0 .. n /\ k \in 0 .. n
    BY <1>1
  <2>2. v \in S /\ w = Round(v) /\ Ends(v, k - 1)
    BY <1>10, <1>12, <2>1
  <2>3. w \in S
    BY <1>3, <2>2
  <2> HIDE DEF v, w
  <2>4. RingOK(s, v) /\ RingOK(s, w)
    BY <2>2, <2>3 DEF S, Fills
  <2>5. ASSUME v.ts = v.te PROVE Ends(w, k)
    <3>1. w = v
      BY <2>2, <2>5 DEF Round
    <3> QED
      BY <2>5, <3>1
  <2>6. ASSUME v.ts # v.te PROVE Ends(w, k)
    <3>1. w = FillOne(s, v)
      BY <2>2, <2>6 DEF Round
    <3>2. /\ Lex(s, v.pos).next = 0 => w.pos = Len(s) + 1
          /\ Lex(s, v.pos).next # 0 => Queued(w) = Queued(v) + 1
          /\ v.pos = Len(s) + 1 => Lex(s, v.pos).next = 0
      <4>1. v.pos \in 1 .. Len(s) + 1
        BY <2>4 DEF RingOK
      <4> QED
        BY <2>4, <2>6, <3>1, <4>1, FillOneIs, LexFacts
    <3>3. Queued(v) \in Nat /\ k \in Nat
      BY <1>1, <2>1, <2>4, LookaheadAssumption, QueueIs
    <3>4. CASE v.pos = Len(s) + 1
      BY <3>2, <3>4
    <3>5. CASE Queued(v) >= k - 1
      BY <3>2, <3>3, <3>5
    <3> QED
      BY <2>2, <2>6, <3>4, <3>5
  <2>7. Ends(w, k)
    BY <2>5, <2>6
  <2> QED
    BY <2>1, <2>3, <2>7 DEF w
<1>13. n \in P
  <2>1. \A k \in 0 .. n : k \in P
    <3> HIDE DEF P, n
    <3> QED
      BY <1>1, <1>11, <1>12, Upwards
  <2> HIDE DEF P
  <2> QED
    BY <1>1, <2>1
<1>14. Fills(s, r, u) /\ Ends(u, n)
  BY <1>4, <1>13 DEF S
<1>15. Queued(u) >= n => u.ts = u.te
  <2>1. Queued(u) \in 0 .. Lookahead + 1 /\ (Queued(u) = Lookahead + 1 <=> u.ts = u.te)
    BY <1>14, QueueIs DEF Fills
  <2> QED
    BY <1>1, <2>1
<1> QED
  BY <1>14, <1>15

(* The next token is the first of the queue, filled up.                    *)
LEMMA NextIs ==
  ASSUME NEW s \in Tokens, NEW r, RingOK(s, r), NEW toks, toks \in Seq(Tokens),
         Lexed(s, toks \o Queue(r), r.pos), NEW next, next = gen_tokenize_next(s, r)
  PROVE  /\ RingOK(s, next.z)
         /\ next.w = NoToken => /\ Lexed(s, toks \o Queue(next.z), next.z.pos)
                                /\ Queue(next.z) = <<>> /\ next.z.pos = Len(s) + 1
         /\ next.w # NoToken => /\ next.w \in Tokens /\ Append(toks, next.w) \in Seq(Tokens)
                                /\ Lexed(s, Append(toks, next.w) \o Queue(next.z), next.z.pos)
<1> DEFINE u == gen_tokenize_tokenize(s, r)
           q == Queue(u)
           v == [u EXCEPT !.ts = IF Wrap(u.ts) = u.te THEN Empty ELSE Wrap(u.ts)]
<1>1. Fills(s, r, u) /\ (u.ts = u.te \/ u.pos = Len(s) + 1)
  BY TokenizeIs
<1>2. RingOK(s, u) /\ Lexed(s, toks \o q, u.pos)
  BY <1>1 DEF Fills
<1>3. /\ Queued(u) \in 0 .. Lookahead + 1 /\ q \in Seq(Tokens) /\ Len(q) = Queued(u)
      /\ Queued(u) = 0 <=> u.ts = Empty
  BY <1>2, QueueIs
<1>4. /\ u.ts = Empty => next = [z |-> u, w |-> NoToken]
      /\ u.ts # Empty => next = [z |-> v, w |-> u.t[u.ts]]
  BY DEF gen_tokenize_next
<1> HIDE DEF u, q, v
<1>5. /\ Lookahead \in Nat /\ u.ts \in -1 .. Lookahead /\ u.te \in 0 .. Lookahead
      /\ u.t \in [0 .. Lookahead -> Tokens] /\ u \in Rings /\ u.pos \in 1 .. Len(s) + 1
      /\ Len(s) \in Nat
  BY <1>2, LookaheadAssumption, LenProperties DEF RingOK, Rings, Empty, Tokens
<1>6. CASE u.ts = Empty
  <2>1. q = <<>>
    BY <1>3, <1>6
  <2>2. u.pos = Len(s) + 1
    BY <1>1, <1>5, <1>6 DEF Empty
  <2>3. next.z = u /\ next.w = NoToken
    BY <1>4, <1>6
  <2> QED
    BY <1>2, <2>1, <2>2, <2>3 DEF q
<1>7. CASE u.ts # Empty
  <2>1. Queued(u) \in 1 .. Lookahead + 1 /\ u.ts \in 0 .. Lookahead
    BY <1>3, <1>5, <1>7 DEF Empty
  <2>2. next.z = v /\ next.w = u.t[u.ts]
    BY <1>4, <1>7
  <2>3. Slot(u, 1 - 1) = u.ts
    BY <1>5, <2>1 DEF Slot
  <2>4. q[1] = u.t[u.ts]
    BY <2>1, <2>3 DEF q, Queue
  <2>5. /\ Wrap(u.ts) \in 0 .. Lookahead
        /\ Wrap(u.ts) = IF u.ts = Lookahead THEN 0 ELSE u.ts + 1
    BY <1>5, <2>1 DEF Wrap
  <2>6. /\ v.ts = IF Wrap(u.ts) = u.te THEN Empty ELSE Wrap(u.ts)
        /\ v.t = u.t /\ v.te = u.te /\ v.pos = u.pos /\ v \in Rings
    <3> DEFINE ts == IF Wrap(u.ts) = u.te THEN Empty ELSE Wrap(u.ts)
    <3>1. ts \in Empty .. Lookahead
      BY <1>5, <2>5 DEF Empty
    <3> HIDE DEF ts
    <3>2. v = [u EXCEPT !.ts = ts]
      BY DEF v, ts
    <3>3. v.ts = ts /\ v.t = u.t /\ v.te = u.te /\ v.pos = u.pos /\ v \in Rings
      BY <1>5, <3>1, <3>2 DEF Rings
    <3> QED
      BY <3>3 DEF ts
  <2>7. RingOK(s, v)
    <3>1. ASSUME v.ts = Empty PROVE v.te = 0 \/ v.pos = Len(s) + 1
      <4>1. Wrap(u.ts) = u.te
        BY <2>5, <2>6, <3>1 DEF Empty
      <4>2. CASE u.ts = u.te
        BY <1>5, <2>5, <2>6, <4>1, <4>2
      <4>3. CASE u.pos = Len(s) + 1
        BY <2>6, <4>3
      <4> QED
        BY <1>1, <4>2, <4>3
    <3> QED
      BY <1>5, <2>6, <3>1 DEF RingOK
  <2>8. Queued(v) = Queued(u) - 1
    <3>1. Queued(u) = IF u.ts < u.te THEN u.te - u.ts ELSE u.te - u.ts + Lookahead + 1
      BY <1>7 DEF Queued
    <3>2. Queued(v) = IF v.ts = -1 THEN 0
                      ELSE IF v.ts < u.te THEN u.te - v.ts ELSE u.te - v.ts + Lookahead + 1
      BY <2>6 DEF Queued, Empty
    <3>3. v.ts = IF Wrap(u.ts) = u.te THEN -1 ELSE Wrap(u.ts)
      BY <2>6 DEF Empty
    <3> QED
      <4>1. Lookahead \in Nat /\ u.ts \in 0 .. Lookahead /\ u.te \in 0 .. Lookahead
        BY <1>5, <2>1
      <4>2. Wrap(u.ts) = IF u.ts = Lookahead THEN 0 ELSE u.ts + 1
        BY <2>5
      <4> QED
        <5>1. CASE u.ts = Lookahead
          BY <3>1, <3>2, <3>3, <4>1, <4>2, <5>1
        <5>2. CASE u.ts # Lookahead /\ u.ts < u.te
          BY <3>1, <3>2, <3>3, <4>1, <4>2, <5>2
        <5>3. CASE u.ts # Lookahead /\ u.te <= u.ts
          <6>1. v.ts = u.ts + 1 /\ v.ts # -1 /\ ~(v.ts < u.te) /\ ~(u.ts < u.te)
            BY <3>3, <4>1, <4>2, <5>3
          <6> QED
            BY <3>1, <3>2, <4>1, <6>1
        <5> QED
          BY <4>1, <5>1, <5>2, <5>3
  <2>9. ASSUME NEW i \in 1 .. Queued(v) PROVE Slot(v, i - 1) = Slot(u, i)
    <3>1. v.ts = Wrap(u.ts)
      BY <2>6 DEF Queued
    <3>2. i \in Nat /\ 1 <= i /\ i <= Lookahead
      BY <1>5, <2>1, <2>8
    <3>3. CASE u.ts = Lookahead
      BY <1>5, <2>5, <3>1, <3>2, <3>3 DEF Slot
    <3>4. CASE u.ts # Lookahead
      <4>1. v.ts = u.ts + 1 /\ u.ts \in Nat
        BY <2>1, <2>5, <3>1, <3>4
      <4>2. v.ts + (i - 1) = u.ts + i
        BY <3>2, <4>1
      <4> QED
        BY <4>1, <4>2, <3>2, <1>5 DEF Slot
    <3> QED
      BY <3>3, <3>4
  <2>10. Queue(v) = Tail(q)
    <3>1. q # <<>> /\ q \in Seq(Tokens) /\ Len(q) = Queued(u)
      BY <1>3, <2>1
    <3>2. /\ Tail(q) \in Seq(Tokens) /\ Len(Tail(q)) = Queued(u) - 1
          /\ \A i \in 1 .. Len(Tail(q)) : Tail(q)[i] = q[i + 1]
      BY <3>1, HeadTailProperties
    <3>3. Queue(v) \in Seq(Tokens) /\ Len(Queue(v)) = Queued(u) - 1
      BY <2>7, <2>8, QueueIs
    <3>4. ASSUME NEW i \in 1 .. Queued(u) - 1 PROVE Queue(v)[i] = q[i + 1]
      <4>1. i \in 1 .. Queued(v) /\ i + 1 \in 1 .. Queued(u) /\ (i + 1) - 1 = i
        BY <2>1, <2>8
      <4> QED
        BY <2>6, <2>9, <4>1 DEF Queue, q
    <3> QED
      BY <3>2, <3>3, <3>4, SeqEqual
  <2>11. u.t[u.ts] \in Tokens
    BY <1>5, <2>1
  <2>12. toks \o q = Append(toks, u.t[u.ts]) \o Queue(v)
    <3> DEFINE w == u.t[u.ts]
    <3>1. q # <<>> /\ Head(q) = w
      BY <1>3, <2>1, <2>4
    <3>2. q = <<w>> \o Tail(q) /\ <<w>> \in Seq(Tokens) /\ Tail(q) \in Seq(Tokens)
      BY <1>3, <2>11, <3>1
    <3>3. Append(toks, w) = toks \o <<w>>
      BY <2>11, AppendIsConcat
    <3> HIDE DEF w
    <3> QED
      BY <2>10, <3>2, <3>3, ConcatAssociative DEF w
  <2>13. u.t[u.ts] # NoToken
    <3>1. /\ Len(toks) \in Nat /\ Len(q) >= 1 /\ q \in Seq(Tokens)
          /\ Len(toks \o q) = Len(toks) + Len(q)
          /\ (toks \o q)[Len(toks) + 1] = q[1]
      <4>1. Len(toks) \in Nat /\ Len(q) >= 1 /\ q \in Seq(Tokens) /\ Len(q) \in Nat
        BY <1>3, <2>1, LenProperties
      <4>2. /\ Len(toks \o q) = Len(toks) + Len(q)
            /\ \A i \in 1 .. Len(toks) + Len(q) : (toks \o q)[i] =
                  IF i <= Len(toks) THEN toks[i] ELSE q[i - Len(toks)]
        BY <4>1, ConcatProperties
      <4>3. Len(toks) + 1 \in 1 .. Len(toks) + Len(q) /\ ~(Len(toks) + 1 <= Len(toks))
            /\ (Len(toks) + 1) - Len(toks) = 1
        BY <4>1
      <4> QED
        BY <4>1, <4>2, <4>3
    <3>2. Len(toks) + 1 \in 1 .. Len(toks \o q)
      BY <1>3, <3>1
    <3> QED
      BY <1>2, <2>4, <3>1, <3>2, LexedBound
  <2>14. Append(toks, u.t[u.ts]) \in Seq(Tokens)
    BY <2>11, AppendProperties
  <2> QED
    BY <1>2, <2>2, <2>6, <2>7, <2>11, <2>12, <2>13, <2>14
<1> QED
  BY <1>6, <1>7

----------------------------------------------------------------------------
(* The tokens of a text without quotes, escapes and comments.              *)
TextFacts(s) ==
    /\ Len(s) \in Nat
    /\ \A p \in 1 .. Len(s) : p \in Nat /\ p \in DOMAIN s /\ s[p] \in Chars
    /\ \A p \in DOMAIN s : p \in 1 .. Len(s)

LEMMA TextIs ==
  ASSUME NEW s \in Tokens
  PROVE  TextFacts(s)
BY LenProperties, ElementOfSeq DEF Tokens, TextFacts

LEMMA SubSeqOf ==
  ASSUME NEW S, NEW s \in Seq(S), NEW p \in 1 .. Len(s), NEW q \in p - 1 .. Len(s)
  PROVE  /\ SubSeq(s, p, q) \in Seq(S)
         /\ Len(SubSeq(s, p, q)) = q - p + 1
         /\ \A i \in 1 .. q - p + 1 : SubSeq(s, p, q)[i] = s[p + i - 1]
         /\ p <= q => SubSeq(s, p, q) # NoToken
         /\ q < Len(s) => SubSeq(s, p, q + 1) = Append(SubSeq(s, p, q), s[q + 1])
<1>1. Len(s) \in Nat /\ p \in Nat /\ q \in Int
  BY LenProperties
<1>2. /\ SubSeq(s, p, q) \in Seq(S) /\ Len(SubSeq(s, p, q)) = q - p + 1
      /\ \A i \in 1 .. q - p + 1 : SubSeq(s, p, q)[i] = s[p + i - 1]
  BY <1>1, ElementOfSeq, LenProperties, SubSeqProperties
<1>3. p <= q => SubSeq(s, p, q) # NoToken
  BY <1>1, <1>2 DEF NoToken
<1>4. ASSUME q < Len(s) PROVE SubSeq(s, p, q + 1) = Append(SubSeq(s, p, q), s[q + 1])
  <2>1. /\ SubSeq(s, p, q + 1) \in Seq(S) /\ Len(SubSeq(s, p, q + 1)) = q - p + 2
        /\ \A i \in 1 .. q - p + 2 : SubSeq(s, p, q + 1)[i] = s[p + i - 1]
    BY <1>1, <1>4, ElementOfSeq, LenProperties, SubSeqProperties
  <2> DEFINE a == SubSeq(s, p, q)
             b == SubSeq(s, p, q + 1)
  <2>2. s[q + 1] \in S
    BY <1>1, <1>4, LenProperties, ElementOfSeq
  <2>3. /\ Append(a, s[q + 1]) \in Seq(S) /\ Len(Append(a, s[q + 1])) = q - p + 2
        /\ \A i \in 1 .. q - p + 1 : Append(a, s[q + 1])[i] = a[i]
        /\ Append(a, s[q + 1])[q - p + 2] = s[q + 1]
    BY <1>1, <1>2, <2>2, AppendProperties
  <2>4. \A i \in 1 .. q - p + 2 : b[i] = Append(a, s[q + 1])[i]
    BY <1>1, <1>2, <2>1, <2>3
  <2> HIDE DEF a, b
  <2>5. b = Append(a, s[q + 1])
    BY <1>1, <2>1, <2>3, <2>4, SeqEqual DEF a, b
  <2> QED
    BY <2>5 DEF a, b
<1> QED
  BY <1>2, <1>3, <1>4

LEMMA SubSeqIs ==
  ASSUME NEW s \in Tokens, NEW p \in 1 .. Len(s), NEW q \in p - 1 .. Len(s)
  PROVE  /\ SubSeq(s, p, q) \in Tokens
         /\ Len(SubSeq(s, p, q)) = q - p + 1
         /\ \A i \in 1 .. q - p + 1 : SubSeq(s, p, q)[i] = s[p + i - 1]
         /\ p <= q => SubSeq(s, p, q) # NoToken
         /\ q < Len(s) => SubSeq(s, p, q + 1) = Append(SubSeq(s, p, q), s[q + 1])
<1>1. s \in Seq(Chars)
  BY DEF Tokens
<1> QED
  BY <1>1, SubSeqOf DEF Tokens

LEMMA One ==
  ASSUME NEW S, NEW c \in S
  PROVE  /\ <<c>> \in Seq(S) /\ Len(<<c>>) = 1 /\ <<c>>[1] = c
         /\ Append(<<>>, c) = <<c>>
<1>1. <<c>> \in Seq(S) /\ Len(<<c>>) = 1 /\ <<c>>[1] = c
  OBVIOUS
<1> QED
  BY <1>1, EmptySeq, AppendIsConcat, ConcatEmptySeq

(* What the inner loop has seen while the token is not complete: blanks,   *)
(* or blanks and then, from p on, the token so far.                        *)
BlankFrom(s, pos, q) == \A i \in pos .. q : s[i] \in Blanks
RunFrom(s, p, q) == \A i \in p .. q : s[i] \notin Delimiters

Seen(s, pos, q, st) ==
    /\ st.mode = "plain"
    /\ \/ st.tok = NoToken /\ BlankFrom(s, pos, q)
       \/ \E p \in pos .. q : /\ st.tok = SubSeq(s, p, q)
                              /\ BlankFrom(s, pos, p - 1)
                              /\ RunFrom(s, p, q)

(* The next character of such a text.                                      *)
LEMMA PlainIs ==
  ASSUME NEW st \in LexStates, st.mode = "plain", NEW c \in Chars, NEW p \in Nat,
         c \notin {"\"", "'", "\\", "#"}
  PROVE  /\ c \in Blanks /\ st.tok = NoToken => Consume(st, c, p) = st
         /\ c \in Blanks /\ st.tok # NoToken =>
              Consume(st, c, p).next = p + 1 /\ Consume(st, c, p).tok = st.tok
         /\ c = ";" /\ st.tok = NoToken =>
              Consume(st, c, p).next = p + 1 /\ Consume(st, c, p).tok = <<";">>
         /\ c = ";" /\ st.tok # NoToken =>
              Consume(st, c, p).next = p /\ Consume(st, c, p).tok = st.tok
         /\ c \notin Delimiters => /\ Consume(st, c, p).tok = Append(st.tok, c)
                                   /\ Consume(st, c, p).mode = "plain"
                                   /\ Consume(st, c, p).next = st.next
<1>1. Consume(st, c, p) = ConsumePlain(st, c, p)
  BY DEF Consume
<1>2. st.tok \in Tokens /\ st.next \in Nat
  BY DEF LexStates
<1>3. /\ Complete(st, p).next = p /\ Complete(st, p).tok = st.tok
      /\ Complete(st, p + 1).next = p + 1 /\ Complete(st, p + 1).tok = st.tok
  BY DEF Complete, LexStates
<1>4. /\ Keep(st, c).tok = Append(st.tok, c) /\ Keep(st, c).mode = "plain"
      /\ Keep(st, c).next = st.next
      /\ Complete(Keep(st, c), p + 1).next = p + 1
      /\ Complete(Keep(st, c), p + 1).tok = Append(st.tok, c)
  BY DEF Keep, Complete, LexStates
<1>5. c \in Blanks => ConsumePlain(st, c, p) = IF st.tok = NoToken THEN st ELSE Complete(st, p + 1)
  BY DEF ConsumePlain, Blanks, Newline
<1>6. c = ";" => ConsumePlain(st, c, p) = Semicolon(st, p)
  BY DEF ConsumePlain, Blanks, Newline
<1>7. c \notin Delimiters => ConsumePlain(st, c, p) = Keep(st, c)
  BY DEF ConsumePlain, Delimiters
<1>8. c = ";" => Append(NoToken, c) = <<";">>
  <2>1. Append(NoToken, c) = <<c>>
    BY One DEF NoToken
  <2> QED
    BY <2>1
<1>9. CASE c \in Blanks
  <2>1. c # ";" /\ c \in Delimiters
    BY <1>9 DEF Blanks, Newline, Delimiters
  <2> QED
    BY <1>1, <1>3, <1>5, <1>9, <2>1
<1>10. CASE c = ";"
  <2>1. c \notin Blanks /\ c \in Delimiters
    BY <1>10 DEF Blanks, Newline, Delimiters
  <2>2. Semicolon(st, p) = IF st.tok = NoToken THEN Complete(Keep(st, c), p + 1) ELSE Complete(st, p)
    BY <1>10 DEF Semicolon
  <2> QED
    BY <1>1, <1>3, <1>4, <1>6, <1>8, <1>10, <2>1, <2>2
<1>11. CASE c \notin Delimiters
  <2>1. c \notin Blanks /\ c # ";"
    BY <1>11 DEF Delimiters
  <2> QED
    BY <1>1, <1>4, <1>7, <1>11, <2>1
<1> QED
  BY <1>9, <1>10, <1>11 DEF Delimiters

(* The special characters by name: the SMT encoding does not get them in   *)
(* strings.                                                                *)
Semi == ";"
Quoting == {"\"", "'", "\\", "#"}
Ends(s, p) == {q \in p .. Len(s) : s[q] \in Delimiters}

LEMMA Characters ==
  /\ Semi \notin Blanks
  /\ \A c : c \in Delimiters <=> c \in Blanks \/ c = Semi
<1>1. Semi \notin Blanks
  BY Zenon DEF Semi, Blanks, Newline
<1>2. \A c : c \in Delimiters <=> c \in Blanks \/ c = Semi
  BY Zenon DEF Semi, Delimiters
<1> QED
  BY <1>1, <1>2

LEMMA PlainCharacters ==
  ASSUME NEW s, Plain(s)
  PROVE  \A p \in DOMAIN s : s[p] \notin Quoting
BY Zenon DEF Plain, Quoting

LEMMA RunEndIs ==
  ASSUME NEW s, NEW p
  PROVE  RunEnd(s, p) = IF s[p] = Semi THEN p + 1
                        ELSE IF Ends(s, p) = {} THEN 0 ELSE Min(Ends(s, p))
BY Zenon DEF RunEnd, Semi, Ends

LEMMA TokenStartsIs ==
  ASSUME NEW s
  PROVE  TokenStarts(s) =
            {p \in RunStarts(s) \cup {q \in DOMAIN s : s[q] = Semi} : RunEnd(s, p) # 0}
BY Zenon DEF TokenStarts, Semi

LEMMA PlainStep ==
  ASSUME NEW st \in LexStates, st.mode = "plain", NEW c \in Chars, NEW p \in Nat, c \notin Quoting
  PROVE  /\ c \in Blanks /\ st.tok = NoToken => Consume(st, c, p) = st
         /\ c \in Blanks /\ st.tok # NoToken =>
              Consume(st, c, p).next = p + 1 /\ Consume(st, c, p).tok = st.tok
         /\ c = Semi /\ st.tok = NoToken =>
              Consume(st, c, p).next = p + 1 /\ Consume(st, c, p).tok = <<Semi>>
         /\ c = Semi /\ st.tok # NoToken =>
              Consume(st, c, p).next = p /\ Consume(st, c, p).tok = st.tok
         /\ c \notin Delimiters => /\ Consume(st, c, p).tok = Append(st.tok, c)
                                   /\ Consume(st, c, p).mode = "plain"
                                   /\ Consume(st, c, p).next = st.next
<1>1. c \notin {"\"", "'", "\\", "#"}
  BY Zenon DEF Quoting
<1> QED
  BY <1>1, PlainIs, Zenon DEF Semi

LEMMA SeenSoFar ==
  ASSUME NEW s \in Tokens, Plain(s), NEW pos \in 1 .. Len(s) + 1, NEW st, LexRun(st, s, pos)
  PROVE  \A q \in pos - 1 .. Len(s) : st[q].next = 0 => Seen(s, pos, q, st[q])
<1> DEFINE P == {q \in pos - 1 .. Len(s) : st[q].next = 0 => Seen(s, pos, q, st[q])}
<1>1. /\ Len(s) \in Nat /\ pos \in Nat /\ 1 <= pos /\ pos - 1 \in Int /\ Len(s) \in Int
      /\ pos - 1 <= Len(s) /\ (pos - 1) + 1 = pos
      /\ \A p \in pos .. Len(s) : p \in Nat /\ p >= 1 /\ s[p] \in Chars /\ p \in DOMAIN s
  BY TextIs DEF TextFacts
<1>2. pos - 1 \in P
  <2>1. st[pos - 1].mode = "plain" /\ st[pos - 1].tok = NoToken
    BY DEF LexRun, Fresh
  <2> QED
    BY <1>1, <2>1 DEF Seen, BlankFrom
<1>3. ASSUME NEW q \in (pos - 1) + 1 .. Len(s), q - 1 \in P PROVE q \in P
  <2>1. /\ q \in pos .. Len(s) /\ q \in Nat /\ q # 0 /\ s[q] \in Chars
        /\ s[q] \notin Quoting
        /\ q - 1 \in pos - 1 .. Len(s) /\ q \in pos - 1 .. Len(s)
    BY <1>1, PlainCharacters
  <2>2. st[q] = Consume(st[q - 1], s[q], q) /\ st[q - 1] \in LexStates
    BY <2>1 DEF LexRun
  <2>3. SUFFICES ASSUME st[q].next = 0 PROVE Seen(s, pos, q, st[q])
    BY <2>1
  <2> PICK before : before = st[q - 1]
    OBVIOUS
  <2>4. before.next = 0 /\ Seen(s, pos, q - 1, before)
    <3>1. before.next \in Nat /\ st[q].next \in {before.next, q, q + 1}
      BY <2>1, <2>2, ConsumeIs DEF LexStates
    <3> QED
      BY <1>3, <2>1, <2>3, <3>1
  <2>5. before.mode = "plain" /\ before \in LexStates /\ before.tok \in Tokens
    BY <2>2, <2>4 DEF Seen, LexStates
  <2>6. /\ s[q] \in Blanks /\ before.tok = NoToken => st[q] = before
        /\ s[q] \in Blanks /\ before.tok # NoToken => st[q].next = q + 1
        /\ s[q] = Semi => st[q].next \in {q, q + 1}
        /\ s[q] \notin Delimiters => st[q].tok = Append(before.tok, s[q]) /\ st[q].mode = "plain"
    <3>1. st[q] = Consume(before, s[q], q)
      BY <2>2
    <3> PICK c : c = s[q]
      OBVIOUS
    <3>2. st[q] = Consume(before, c, q) /\ c \in Chars /\ c \notin Quoting /\ q \in Nat
      BY <2>1, <3>1
    <3>3. /\ c \in Blanks /\ before.tok = NoToken => Consume(before, c, q) = before
          /\ c \in Blanks /\ before.tok # NoToken => Consume(before, c, q).next = q + 1
          /\ c = Semi /\ before.tok = NoToken => Consume(before, c, q).next = q + 1
          /\ c = Semi /\ before.tok # NoToken => Consume(before, c, q).next = q
          /\ c \notin Delimiters => /\ Consume(before, c, q).tok = Append(before.tok, c)
                                    /\ Consume(before, c, q).mode = "plain"
      BY <2>5, <3>2, PlainStep
    <3> QED
      BY <3>2, <3>3
  <2>7. CASE s[q] \in Blanks
    <3>1. before.tok = NoToken /\ st[q] = before
      BY <2>1, <2>3, <2>6, <2>7
    <3>2. BlankFrom(s, pos, q - 1)
      <4>1. ASSUME NEW p \in pos .. q - 1, before.tok = SubSeq(s, p, q - 1) PROVE FALSE
        <5>1. p \in 1 .. Len(s) /\ q - 1 \in p - 1 .. Len(s) /\ p <= q - 1
          BY <1>1, <2>1
        <5> QED
          BY <3>1, <4>1, <5>1, SubSeqIs
      <4> QED
        BY <2>4, <4>1 DEF Seen
    <3>3. BlankFrom(s, pos, q)
      BY <1>1, <2>1, <2>7, <3>2 DEF BlankFrom
    <3> QED
      BY <2>5, <3>1, <3>3 DEF Seen
  <2>8. CASE s[q] = Semi
    BY <2>1, <2>3, <2>6, <2>8
  <2>9. CASE s[q] \notin Delimiters
    <3>1. st[q].tok = Append(before.tok, s[q]) /\ st[q].mode = "plain"
      BY <2>6, <2>9
    <3>2. CASE before.tok = NoToken /\ BlankFrom(s, pos, q - 1)
      <4>1. SubSeq(s, q, q) = Append(SubSeq(s, q, q - 1), s[q])
        <5>1. q \in 1 .. Len(s) /\ q - 1 \in q - 1 .. Len(s) /\ q - 1 < Len(s) /\ (q - 1) + 1 = q
          BY <1>1, <2>1
        <5> QED
          BY <5>1, SubSeqIs
      <4>2. SubSeq(s, q, q - 1) = NoToken
        BY <2>1, SubSeqEmpty DEF NoToken
      <4>3. RunFrom(s, q, q) /\ q \in pos .. q
        BY <2>1, <2>9 DEF RunFrom
      <4>4. st[q].tok = SubSeq(s, q, q)
        BY <3>1, <3>2, <4>1, <4>2
      <4> QED
        BY <3>1, <3>2, <4>3, <4>4, Zenon DEF Seen
    <3>3. CASE \E p \in pos .. q - 1 : /\ before.tok = SubSeq(s, p, q - 1)
                                       /\ BlankFrom(s, pos, p - 1)
                                       /\ RunFrom(s, p, q - 1)
      <4>1. PICK p \in pos .. q - 1 : /\ before.tok = SubSeq(s, p, q - 1)
                                      /\ BlankFrom(s, pos, p - 1)
                                      /\ RunFrom(s, p, q - 1)
        BY <3>3
      <4>2. SubSeq(s, p, q) = Append(SubSeq(s, p, q - 1), s[q])
        <5>1. p \in 1 .. Len(s) /\ q - 1 \in p - 1 .. Len(s) /\ q - 1 < Len(s) /\ (q - 1) + 1 = q
          BY <1>1, <2>1
        <5> QED
          BY <5>1, SubSeqIs
      <4>3. RunFrom(s, p, q) /\ p \in pos .. q
        BY <2>1, <2>9, <4>1 DEF RunFrom
      <4> QED
        BY <3>1, <4>1, <4>2, <4>3 DEF Seen
    <3> QED
      BY <2>4, <3>2, <3>3 DEF Seen
  <2> QED
    BY <2>7, <2>8, <2>9, Characters
<1> HIDE DEF P
<1>4. \A q \in pos - 1 .. Len(s) : q \in P
  BY <1>1, <1>2, <1>3, Upwards
<1> QED
  BY <1>4 DEF P

(* Where a token starts, and where it ends.                                *)
LEMMA Starts ==
  ASSUME NEW s \in Tokens, NEW p \in 1 .. Len(s)
  PROVE  /\ s[p] \in Blanks => p \notin TokenStarts(s)
         /\ s[p] = Semi => p \in TokenStarts(s) /\ RunEnd(s, p) = p + 1
         /\ s[p] \notin Delimiters /\ p # 1 /\ s[p - 1] \notin Delimiters => p \notin TokenStarts(s)
         /\ \A q \in p .. Len(s) :
              RunFrom(s, p, q - 1) /\ s[q] \in Delimiters /\ s[p] \notin Delimiters =>
                 /\ RunEnd(s, p) = q
                 /\ p = 1 \/ s[p - 1] \in Delimiters => p \in TokenStarts(s)
         /\ RunFrom(s, p, Len(s)) => p \notin TokenStarts(s)
<1>1. /\ Len(s) \in Nat /\ DOMAIN s = 1 .. Len(s) /\ p \in Nat /\ p \in DOMAIN s
  BY TextIs DEF TextFacts, Tokens
<1>2. TokenStarts(s) \subseteq RunStarts(s) \cup {q \in DOMAIN s : s[q] = Semi}
  BY TokenStartsIs
<1>3. s[p] \in Blanks => s[p] # Semi /\ s[p] \in Delimiters
  BY Characters
<1>4. s[p] = Semi => p \in TokenStarts(s) /\ RunEnd(s, p) = p + 1
  BY <1>1, TokenStartsIs, RunEndIs
<1>5. s[p] \in Blanks => p \notin TokenStarts(s)
  BY <1>2, <1>3 DEF RunStarts
<1>6. s[p] \notin Delimiters /\ p # 1 /\ s[p - 1] \notin Delimiters => p \notin TokenStarts(s)
  BY <1>2, Characters DEF RunStarts
<1>7. ASSUME NEW q \in p .. Len(s), RunFrom(s, p, q - 1), s[q] \in Delimiters,
             s[p] \notin Delimiters
      PROVE  /\ RunEnd(s, p) = q
             /\ p = 1 \/ s[p - 1] \in Delimiters => p \in TokenStarts(s)
  <2> DEFINE ends == {e \in p .. Len(s) : s[e] \in Delimiters}
  <2>1. q \in ends /\ \A e \in ends : e \in Int /\ q <= e
    BY <1>1, <1>7 DEF RunFrom
  <2>2. Min(ends) = q
    <3> HIDE DEF ends
    <3>1. PICK x : x = Min(ends)
      OBVIOUS
    <3>2. x \in ends /\ \A e \in ends : x <= e
      BY <2>1, <3>1 DEF Min
    <3>3. x \in Int /\ q \in Int /\ x <= q /\ q <= x
      BY <2>1, <3>2
    <3>4. x = q
      BY <3>3
    <3> QED
      BY <3>1, <3>4
  <2>3. s[p] # Semi
    BY <1>7, Characters
  <2>4. RunEnd(s, p) = q
    BY <2>1, <2>2, <2>3, RunEndIs DEF Ends
  <2>5. p = 1 \/ s[p - 1] \in Delimiters => p \in RunStarts(s)
    BY <1>1, <1>7 DEF RunStarts
  <2> QED
    BY <1>1, <2>4, <2>5, TokenStartsIs
<1>8. ASSUME RunFrom(s, p, Len(s)) PROVE p \notin TokenStarts(s)
  <2>1. {e \in p .. Len(s) : s[e] \in Delimiters} = {}
    BY <1>8 DEF RunFrom
  <2>2. s[p] # Semi
    BY <1>1, <1>8, Characters DEF RunFrom
  <2>3. RunEnd(s, p) = 0
    BY <2>1, <2>2, RunEndIs DEF Ends
  <2> QED
    BY <2>3, TokenStartsIs
<1> QED
  BY <1>4, <1>5, <1>6, <1>7, <1>8

(* What Lex finds in such a text behind a token: the token that starts     *)
(* next, and the end of the text only if no other starts.                  *)
Boundary(s, pos) == pos = 1 \/ s[pos - 1] \in Delimiters \/ s[pos] \in Delimiters

NextToken(s, pos, p, lexed) ==
    /\ p \in TokenStarts(s) /\ p \in pos .. lexed.next - 1
    /\ lexed.tok = SubSeq(s, p, RunEnd(s, p) - 1)
    /\ \A x \in pos .. lexed.next - 1 : x \in TokenStarts(s) => x = p
    /\ Boundary(s, lexed.next)

LEMMA NoStart ==
  ASSUME NEW s \in Tokens, NEW pos \in 1 .. Len(s) + 1, NEW q \in pos - 1 .. Len(s)
  PROVE  /\ BlankFrom(s, pos, q) => \A x \in pos .. q : x \notin TokenStarts(s)
         /\ \A p \in pos .. q : RunFrom(s, p, q) => \A x \in p + 1 .. q : x \notin TokenStarts(s)
<1>1. Len(s) \in Nat /\ pos \in Nat /\ pos >= 1 /\ q \in Int
  BY TextIs DEF TextFacts
<1>2. ASSUME BlankFrom(s, pos, q), NEW x \in pos .. q PROVE x \notin TokenStarts(s)
  <2>1. x \in 1 .. Len(s) /\ s[x] \in Blanks
    BY <1>1, <1>2 DEF BlankFrom
  <2> QED
    BY <2>1, Starts
<1>3. ASSUME NEW p \in pos .. q, RunFrom(s, p, q), NEW x \in p + 1 .. q PROVE x \notin TokenStarts(s)
  <2>1. x \in 1 .. Len(s) /\ x # 1 /\ x - 1 \in p .. q /\ x \in p .. q
    BY <1>1
  <2>2. s[x] \notin Delimiters /\ s[x - 1] \notin Delimiters
    BY <1>3, <2>1 DEF RunFrom
  <2> QED
    BY <2>1, <2>2, Starts
<1> QED
  BY <1>2, <1>3

LEMMA PlainLexNone ==
  ASSUME NEW s \in Tokens, Plain(s), NEW pos \in 1 .. Len(s) + 1, Boundary(s, pos),
         Lex(s, pos).next = 0
  PROVE  \A x \in pos .. Len(s) : x \notin TokenStarts(s)
<1>1. PICK st : /\ LexRun(st, s, pos)
                /\ Lex(s, pos) = IF \E p \in pos .. Len(s) : Completes(st, p)
                                 THEN st[CHOOSE p \in pos .. Len(s) : Completes(st, p)]
                                 ELSE Fresh
  BY LexIs
<1>2. Len(s) \in Nat /\ pos \in Nat /\ pos >= 1
  BY TextIs DEF TextFacts
<1>3. ~ \E p \in pos .. Len(s) : Completes(st, p)
  <2>1. ASSUME NEW q \in pos .. Len(s), q = CHOOSE p \in pos .. Len(s) : Completes(st, p),
               Completes(st, q), Lex(s, pos) = st[q]
        PROVE  FALSE
    BY <2>1 DEF Completes
  <2> QED
    BY <1>1, <2>1
<1> DEFINE P == {q \in pos - 1 .. Len(s) : st[q].next = 0}
<1>4. pos - 1 \in P
  BY <1>1, <1>2 DEF LexRun, Fresh
<1>5. ASSUME NEW q \in (pos - 1) + 1 .. Len(s), q - 1 \in P PROVE q \in P
  BY <1>2, <1>3, <1>5 DEF Completes
<1>6. st[Len(s)].next = 0
  <2>1. pos - 1 \in Int /\ Len(s) \in Int /\ Len(s) \in pos - 1 .. Len(s)
    BY <1>2
  <2>2. \A q \in pos - 1 .. Len(s) : q \in P
    <3> HIDE DEF P
    <3> QED
      BY <1>4, <1>5, <2>1, Upwards
  <2> QED
    BY <2>1, <2>2
<1>7. Seen(s, pos, Len(s), st[Len(s)])
  BY <1>1, <1>2, <1>6, SeenSoFar
<1>8. CASE BlankFrom(s, pos, Len(s))
  BY <1>2, <1>8, NoStart
<1>9. CASE \E p \in pos .. Len(s) : BlankFrom(s, pos, p - 1) /\ RunFrom(s, p, Len(s))
  <2>1. PICK p \in pos .. Len(s) : BlankFrom(s, pos, p - 1) /\ RunFrom(s, p, Len(s))
    BY <1>9
  <2>2. p - 1 \in pos - 1 .. Len(s) /\ Len(s) \in pos - 1 .. Len(s) /\ p \in 1 .. Len(s)
    BY <1>2
  <2>3. \A x \in pos .. p - 1 : x \notin TokenStarts(s)
    BY <2>1, <2>2, NoStart
  <2>4. \A x \in p + 1 .. Len(s) : x \notin TokenStarts(s)
    BY <2>1, <2>2, NoStart
  <2>5. p \notin TokenStarts(s)
    BY <2>1, <2>2, Starts
  <2> QED
    BY <1>2, <2>3, <2>4, <2>5
<1> QED
  BY <1>7, <1>8, <1>9 DEF Seen

LEMMA PlainLex ==
  ASSUME NEW s \in Tokens, Plain(s), NEW pos \in 1 .. Len(s) + 1, Boundary(s, pos),
         Lex(s, pos).next # 0
  PROVE  \E p : NextToken(s, pos, p, Lex(s, pos))
<1>1. PICK st : /\ LexRun(st, s, pos)
                /\ Lex(s, pos) = IF \E p \in pos .. Len(s) : Completes(st, p)
                                 THEN st[CHOOSE p \in pos .. Len(s) : Completes(st, p)]
                                 ELSE Fresh
  BY LexIs
<1>2. Len(s) \in Nat /\ pos \in Nat /\ pos >= 1
  BY TextIs DEF TextFacts
<1>3. PICK q \in pos .. Len(s) : Completes(st, q) /\ Lex(s, pos) = st[q]
  <2>1. Fresh.next = 0
    BY DEF Fresh
  <2> QED
    BY <1>1, <2>1
<1>4. /\ q \in 1 .. Len(s) /\ q - 1 \in pos - 1 .. Len(s) /\ q \in Nat
      /\ s[q] \in Chars /\ s[q] \notin Quoting
  <2>1. q \in 1 .. Len(s) /\ q - 1 \in pos - 1 .. Len(s) /\ q \in Nat
    BY <1>2
  <2>2. s[q] \in Chars /\ q \in DOMAIN s
    BY <2>1, TextIs DEF TextFacts
  <2> QED
    BY <2>1, <2>2, PlainCharacters
<1> PICK before : before = st[q - 1]
  OBVIOUS
<1>5. /\ before \in LexStates /\ before.next = 0 /\ Seen(s, pos, q - 1, before)
      /\ Lex(s, pos) = Consume(before, s[q], q)
  <2>1. before.next = 0 /\ before \in LexStates /\ Lex(s, pos) = Consume(before, s[q], q)
    BY <1>1, <1>3, <1>4 DEF Completes, LexRun
  <2> QED
    BY <1>1, <1>4, <2>1, SeenSoFar
<1>6. PICK lexed : lexed = Lex(s, pos)
  OBVIOUS
<1>7. /\ s[q] \in Blanks /\ before.tok = NoToken => lexed = before
      /\ s[q] \in Blanks /\ before.tok # NoToken => lexed.next = q + 1 /\ lexed.tok = before.tok
      /\ s[q] = Semi /\ before.tok = NoToken => lexed.next = q + 1 /\ lexed.tok = <<Semi>>
      /\ s[q] = Semi /\ before.tok # NoToken => lexed.next = q /\ lexed.tok = before.tok
      /\ s[q] \notin Delimiters => lexed.next = before.next
  <2>1. before.mode = "plain" /\ lexed = Consume(before, s[q], q)
    BY <1>5, <1>6 DEF Seen
  <2> PICK c : c = s[q]
    OBVIOUS
  <2>2. /\ c \in Chars /\ c \notin Quoting /\ q \in Nat
        /\ before \in LexStates /\ before.mode = "plain"
    BY <1>4, <1>5, <2>1
  <2>3. /\ c \in Blanks /\ before.tok = NoToken => Consume(before, c, q) = before
        /\ c \in Blanks /\ before.tok # NoToken =>
             Consume(before, c, q).next = q + 1 /\ Consume(before, c, q).tok = before.tok
        /\ c = Semi /\ before.tok = NoToken =>
             Consume(before, c, q).next = q + 1 /\ Consume(before, c, q).tok = <<Semi>>
        /\ c = Semi /\ before.tok # NoToken =>
             Consume(before, c, q).next = q /\ Consume(before, c, q).tok = before.tok
        /\ c \notin Delimiters => Consume(before, c, q).next = before.next
    <3>1. c \in Blanks => /\ before.tok = NoToken => Consume(before, c, q) = before
                          /\ before.tok # NoToken => /\ Consume(before, c, q).next = q + 1
                                                     /\ Consume(before, c, q).tok = before.tok
      BY <2>2, PlainStep, Zenon
    <3>2. c = Semi /\ before.tok = NoToken =>
             Consume(before, c, q).next = q + 1 /\ Consume(before, c, q).tok = <<Semi>>
      BY <2>2, PlainStep, Zenon
    <3>3. c = Semi /\ before.tok # NoToken =>
             Consume(before, c, q).next = q /\ Consume(before, c, q).tok = before.tok
      BY <2>2, PlainStep, Zenon
    <3>4. c \notin Delimiters => Consume(before, c, q).next = before.next
      BY <2>2, PlainStep, Zenon
    <3> QED
      BY <3>1, <3>2, <3>3, <3>4
  <2> QED
    BY <2>1, <2>3
<1>8. lexed.next # 0 /\ s[q] \in Delimiters
  BY <1>5, <1>6, <1>7
<1>9. CASE before.tok = NoToken
  <2>1. s[q] = Semi /\ lexed.next = q + 1 /\ lexed.tok = <<Semi>>
    BY <1>5, <1>7, <1>8, <1>9, Characters
  <2>2. BlankFrom(s, pos, q - 1)
    <3>1. ASSUME NEW p \in pos .. q - 1, before.tok = SubSeq(s, p, q - 1) PROVE FALSE
      <4>1. p \in 1 .. Len(s) /\ q - 1 \in p - 1 .. Len(s) /\ p <= q - 1
        BY <1>2, <1>4
      <4> QED
        BY <1>9, <3>1, <4>1, SubSeqIs
    <3> QED
      BY <1>5, <3>1 DEF Seen
  <2>3. q \in TokenStarts(s) /\ RunEnd(s, q) = q + 1
    BY <1>4, <2>1, Starts
  <2>4. SubSeq(s, q, (q + 1) - 1) = <<Semi>>
    <3>1. (q + 1) - 1 = q /\ q \in q - 1 .. Len(s) /\ q - q + 1 = 1
      BY <1>4
    <3>2. /\ SubSeq(s, q, q) \in Tokens /\ Len(SubSeq(s, q, q)) = 1
          /\ SubSeq(s, q, q)[1] = s[q]
      BY <1>4, <3>1, SubSeqIs
    <3>3. SubSeq(s, q, q) = <<s[q]>>
      <4>1. PICK t, u : t = SubSeq(s, q, q) /\ u = <<s[q]>>
        OBVIOUS
      <4>2. t \in Seq(Chars) /\ Len(t) = 1 /\ t[1] = s[q]
        BY <3>2, <4>1 DEF Tokens
      <4>3. u \in Seq(Chars) /\ Len(u) = 1 /\ u[1] = s[q]
        BY <1>4, <4>1, One
      <4>4. t = u
        BY <4>2, <4>3, SeqEqual
      <4> QED
        BY <4>1, <4>4
    <3> QED
      BY <2>1, <3>1, <3>3
  <2>5. \A x \in pos .. q - 1 : x \notin TokenStarts(s)
    BY <1>4, <2>2, NoStart
  <2>6. Boundary(s, q + 1)
    BY <1>4, <1>8 DEF Boundary
  <2>7. NextToken(s, pos, q, lexed)
    BY <1>2, <1>4, <2>1, <2>3, <2>4, <2>5, <2>6 DEF NextToken
  <2> QED
    BY <1>6, <2>7
<1>10. CASE before.tok # NoToken
  <2>1. PICK p \in pos .. q - 1 : /\ before.tok = SubSeq(s, p, q - 1)
                                  /\ BlankFrom(s, pos, p - 1)
                                  /\ RunFrom(s, p, q - 1)
    BY <1>5, <1>10 DEF Seen
  <2>2. lexed.tok = SubSeq(s, p, q - 1)
    BY <1>7, <1>8, <1>10, <2>1, Characters
  <2>3. \/ lexed.next = q + 1 /\ s[q] \in Blanks
        \/ lexed.next = q
    BY <1>7, <1>8, <1>10, Characters
  <2>4. /\ p \in 1 .. Len(s) /\ q \in p .. Len(s) /\ p - 1 \in pos - 1 .. Len(s)
        /\ q - 1 \in pos - 1 .. Len(s) /\ p \in Nat
    BY <1>2, <1>4
  <2>5. s[p] \notin Delimiters
    BY <2>1, <2>4 DEF RunFrom
  <2>6. p = 1 \/ s[p - 1] \in Delimiters
    <3>1. CASE p = pos
      BY <2>5, <3>1 DEF Boundary
    <3>2. CASE p # pos
      <4>1. s[p - 1] \in Blanks
        BY <1>2, <2>1, <2>4, <3>2 DEF BlankFrom
      <4> QED
        BY <4>1, Characters
    <3> QED
      BY <3>1, <3>2
  <2>7. p \in TokenStarts(s) /\ RunEnd(s, p) = q
    BY <1>8, <2>1, <2>4, <2>5, <2>6, Starts
  <2>8. \A x \in pos .. p - 1 : x \notin TokenStarts(s)
    BY <2>1, <2>4, NoStart
  <2>9. \A x \in p + 1 .. q - 1 : x \notin TokenStarts(s)
    BY <2>1, <2>4, NoStart
  <2>10. s[q] \in Blanks => q \notin TokenStarts(s)
    BY <1>4, Starts
  <2>11. Boundary(s, lexed.next)
    BY <1>4, <1>8, <2>3 DEF Boundary
  <2>12. \A x \in pos .. lexed.next - 1 : x \in TokenStarts(s) => x = p
    BY <1>2, <1>4, <2>3, <2>4, <2>8, <2>9, <2>10
  <2>13. NextToken(s, pos, p, lexed)
    BY <1>2, <1>4, <2>2, <2>3, <2>4, <2>7, <2>11, <2>12 DEF NextToken
  <2> QED
    BY <1>6, <2>13
<1> QED
  BY <1>9, <1>10

(* The next member of a set in order: behind k of them comes x.            *)
Behind(s, S, k, x) ==
    /\ k # 0 => s[k] < x
    /\ \A e \in S : e < x => k # 0 /\ e <= s[k]

LEMMA InOrderNext ==
  ASSUME NEW n \in Nat, NEW S \in SUBSET (1 .. n), NEW s, InOrderSeq(s, S),
         NEW k, k \in 0 .. Len(s), NEW x \in S, Behind(s, S, k, x)
  PROVE  k + 1 \in 1 .. Len(s) /\ s[k + 1] = x
<1>1. /\ s \in Seq(S) /\ Len(s) \in Nat /\ DOMAIN s = 1 .. Len(s)
      /\ \A i \in 1 .. Len(s) : s[i] \in S /\ s[i] \in Nat
      /\ x \in Nat
      /\ \A i, j \in 1 .. Len(s) : i < j => s[i] < s[j]
  <2>1. s \in Seq(S) /\ \A i, j \in DOMAIN s : i < j => s[i] < s[j]
    BY DEF InOrderSeq
  <2>2. Len(s) \in Nat /\ DOMAIN s = 1 .. Len(s) /\ \A i \in 1 .. Len(s) : s[i] \in S
    BY <2>1, LenProperties, ElementOfSeq
  <2>3. \A e \in S : e \in Nat
    OBVIOUS
  <2> QED
    BY <2>1, <2>2, <2>3
<1> USE DEF Behind
<1>2. PICK i \in 1 .. Len(s) : s[i] = x
  BY <1>1 DEF InOrderSeq
<1>3. k < i
  <2>1. CASE k = 0
    BY <1>1, <1>2, <2>1
  <2>2. CASE k # 0
    <3>1. k \in 1 .. Len(s) /\ s[k] < s[i]
      BY <1>1, <1>2, <2>2
    <3>2. ASSUME i <= k PROVE FALSE
      <4>1. i = k \/ s[i] < s[k]
        BY <1>1, <1>2, <3>1, <3>2
      <4> QED
        BY <1>1, <1>2, <3>1, <4>1
    <3> QED
      BY <1>1, <1>2, <3>1, <3>2
  <2> QED
    BY <2>1, <2>2
<1>4. ASSUME k + 1 < i PROVE FALSE
  <2>1. k + 1 \in 1 .. Len(s) /\ s[k + 1] < s[i]
    BY <1>1, <1>2, <1>4
  <2>2. k # 0 /\ s[k + 1] <= s[k]
    BY <1>1, <1>2, <2>1
  <2>3. k \in 1 .. Len(s) /\ s[k] < s[k + 1] /\ s[k] \in Nat /\ s[k + 1] \in Nat
    BY <1>1, <2>1, <2>2
  <2> QED
    BY <2>2, <2>3
<1>5. i = k + 1
  BY <1>1, <1>2, <1>3, <1>4
<1> QED
  BY <1>2, <1>5

(* The tokens that are lexed one behind the other are the tokens of the    *)
(* text, in order, and at its end they are all.                            *)
LexedStarts(s, toks, starts, at, k) ==
    /\ k <= Len(starts)
    /\ Boundary(s, at[k + 1])
    /\ k # 0 => starts[k] < at[k + 1]
    /\ \A x \in TokenStarts(s) : x < at[k + 1] => k # 0 /\ x <= starts[k]
    /\ \A i \in 1 .. k : toks[i] = SubSeq(s, starts[i], RunEnd(s, starts[i]) - 1)

Spelt(s, toks, starts) ==
    /\ Len(toks) <= Len(starts)
    /\ \A i \in 1 .. Len(toks) : toks[i] = SubSeq(s, starts[i], RunEnd(s, starts[i]) - 1)

LEMMA LexedPlain ==
  ASSUME NEW s \in Tokens, Plain(s), NEW toks, NEW pos, Lexed(s, toks, pos),
         NEW starts, InOrderSeq(starts, TokenStarts(s))
  PROVE  /\ Spelt(s, toks, starts)
         /\ pos = Len(s) + 1 => Len(toks) = Len(starts)
<1>1. PICK at : LexedAt(s, toks, at, pos)
  BY DEF Lexed
<1>2. /\ Len(toks) \in Nat /\ Len(s) \in Nat /\ TokenStarts(s) \in SUBSET (1 .. Len(s))
      /\ Len(starts) \in Nat /\ starts \in Seq(TokenStarts(s))
      /\ \A i \in 1 .. Len(starts) : starts[i] \in TokenStarts(s) /\ starts[i] \in Nat
  <2>1. Len(toks) \in Nat /\ Len(s) \in Nat
    BY LenProperties, TextIs DEF Lexed, TextFacts
  <2>2. TokenStarts(s) \in SUBSET (1 .. Len(s))
    BY TextIs, TokenStartsIs DEF RunStarts, TextFacts
  <2>3. starts \in Seq(TokenStarts(s))
    BY DEF InOrderSeq
  <2>4. Len(starts) \in Nat /\ \A i \in 1 .. Len(starts) : starts[i] \in TokenStarts(s)
    BY <2>3, LenProperties, ElementOfSeq
  <2> QED
    BY <2>1, <2>2, <2>3, <2>4
<1>3. \A i \in 1 .. Len(toks) + 1 : at[i] \in 1 .. Len(s) + 1
  BY <1>1 DEF LexedAt
<1> DEFINE P == {k \in 0 .. Len(toks) : LexedStarts(s, toks, starts, at, k)}
<1>4. 0 \in P
  <2>1. at[0 + 1] = 1
    BY <1>1 DEF LexedAt
  <2> QED
    BY <1>2, <2>1 DEF LexedStarts, Boundary
<1>5. ASSUME NEW k \in 0 + 1 .. Len(toks), k - 1 \in P PROVE k \in P
  <2>1. /\ k \in 1 .. Len(toks) /\ k - 1 \in 0 .. Len(toks) /\ (k - 1) + 1 = k
        /\ k \in 1 .. Len(toks) + 1 /\ k + 1 \in 1 .. Len(toks) + 1
    BY <1>2
  <2>2. PICK pre, post : pre = at[k] /\ post = at[k + 1]
    OBVIOUS
  <2>3. /\ pre \in 1 .. Len(s) + 1 /\ post \in 1 .. Len(s) + 1
        /\ Lex(s, pre).tok = toks[k] /\ Lex(s, pre).next = post
    BY <1>1, <1>3, <2>1, <2>2 DEF LexedAt
  <2>4. LexedStarts(s, toks, starts, at, k - 1) /\ at[(k - 1) + 1] = pre
    BY <1>5, <2>1, <2>2
  <2>5. /\ k - 1 <= Len(starts) /\ Boundary(s, pre)
        /\ k - 1 # 0 => starts[k - 1] < pre
        /\ \A x \in TokenStarts(s) : x < pre => k - 1 # 0 /\ x <= starts[k - 1]
        /\ \A i \in 1 .. k - 1 : toks[i] = SubSeq(s, starts[i], RunEnd(s, starts[i]) - 1)
    BY <2>4 DEF LexedStarts
  <2>6. PICK p : NextToken(s, pre, p, Lex(s, pre))
    <3>1. Lex(s, pre).next # 0
      BY <1>2, <2>3
    <3> QED
      BY <2>3, <2>5, <3>1, PlainLex
  <2>7. /\ p \in TokenStarts(s) /\ p \in pre .. post - 1
        /\ toks[k] = SubSeq(s, p, RunEnd(s, p) - 1)
        /\ \A x \in pre .. post - 1 : x \in TokenStarts(s) => x = p
        /\ Boundary(s, post)
    BY <2>3, <2>6 DEF NextToken
  <2>8. k \in 1 .. Len(starts) /\ starts[k] = p
    <3> PICK j : j = k - 1
      OBVIOUS
    <3>1. j \in 0 .. Len(starts) /\ j + 1 = k
      BY <1>2, <2>1, <2>5
    <3>2. j # 0 => starts[j] < p
      <4>1. ASSUME j # 0 PROVE starts[j] < p
        <5>1. starts[j] \in Nat /\ starts[j] < pre
          BY <1>2, <2>5, <3>1, <4>1
        <5> QED
          BY <2>3, <2>7, <5>1
      <4> QED
        BY <4>1
    <3>3. \A e \in TokenStarts(s) : e < p => j # 0 /\ e <= starts[j]
      <4>1. ASSUME NEW e \in TokenStarts(s), e < p PROVE e < pre
        <5>1. e \in Nat /\ e # p
          BY <1>2, <2>7, <4>1
        <5>2. e \notin pre .. post - 1
          BY <2>7, <4>1, <5>1
        <5> QED
          BY <1>2, <2>3, <2>7, <4>1, <5>1, <5>2
      <4> QED
        BY <2>5, <4>1
    <3>4. j + 1 \in 1 .. Len(starts) /\ starts[j + 1] = p
      <4>1. TokenStarts(s) \in SUBSET (1 .. Len(s)) /\ Len(s) \in Nat /\ p \in TokenStarts(s)
            /\ j \in 0 .. Len(starts)
        BY <1>2, <2>7, <3>1
      <4>2. Behind(starts, TokenStarts(s), j, p)
        BY <3>2, <3>3 DEF Behind
      <4> HIDE DEF P
      <4> QED
        BY <4>1, <4>2, InOrderNext
    <3> QED
      BY <3>1, <3>4
  <2>9. LexedStarts(s, toks, starts, at, k)
    <3>1. \A x \in TokenStarts(s) : x < post => x <= p
      <4>1. ASSUME NEW x \in TokenStarts(s), x < post PROVE x <= p
        <5>1. x \in Nat /\ p \in Nat
          BY <1>2, <2>7
        <5>2. CASE x < pre
          BY <2>3, <2>7, <5>1, <5>2
        <5>3. CASE ~(x < pre)
          BY <2>3, <2>7, <4>1, <5>1, <5>3
        <5> QED
          BY <5>2, <5>3
      <4> QED
        BY <4>1
    <3>2. p < post /\ k # 0 /\ k <= Len(starts)
      BY <1>2, <2>1, <2>3, <2>7, <2>8
    <3>3. \A i \in 1 .. k : toks[i] = SubSeq(s, starts[i], RunEnd(s, starts[i]) - 1)
      <4>1. \A i \in 1 .. k : i = k \/ i \in 1 .. k - 1
        BY <2>1
      <4> QED
        BY <2>5, <2>7, <2>8, <4>1
    <3> QED
      BY <2>2, <2>7, <2>8, <3>1, <3>2, <3>3 DEF LexedStarts
  <2> QED
    BY <2>1, <2>9
<1>6. LexedStarts(s, toks, starts, at, Len(toks))
  <2>1. 0 \in Int /\ Len(toks) \in Int /\ Len(toks) \in 0 .. Len(toks)
    BY <1>2
  <2>2. \A k \in 0 .. Len(toks) : k \in P
    <3> HIDE DEF P
    <3> QED
      BY <1>4, <1>5, <2>1, Upwards
  <2> QED
    BY <2>1, <2>2
<1>7. ASSUME pos = Len(s) + 1 PROVE Len(starts) <= Len(toks)
  <2> PICK n, last : n = Len(toks) /\ last = at[n + 1]
    OBVIOUS
  <2>1. n \in Nat /\ last \in 1 .. Len(s) + 1
    BY <1>2, <1>3
  <2>2. \A x \in last .. Len(s) : x \notin TokenStarts(s)
    <3>1. CASE last = Len(s) + 1
      BY <1>2, <3>1
    <3>2. CASE last # Len(s) + 1
      <4>1. Lex(s, last).next = 0
        BY <1>1, <1>7, <3>2 DEF LexedAt
      <4>2. Boundary(s, last)
        BY <1>6 DEF LexedStarts
      <4> QED
        BY <2>1, <4>1, <4>2, PlainLexNone
    <3> QED
      BY <3>1, <3>2
  <2>3. \A x \in TokenStarts(s) : x < last
    BY <1>2, <2>1, <2>2
  <2>4. \A x \in TokenStarts(s) : n # 0 /\ x <= starts[n]
    BY <1>6, <2>3 DEF LexedStarts
  <2>5. SUFFICES ASSUME n < Len(starts) PROVE FALSE
    BY <1>2
  <2>6. n + 1 \in 1 .. Len(starts) /\ starts[n + 1] \in TokenStarts(s)
    BY <1>2, <2>1, <2>5
  <2>7. n # 0 /\ starts[n + 1] <= starts[n]
    BY <2>4, <2>6
  <2>8. n \in 1 .. Len(starts) /\ n < n + 1 /\ DOMAIN starts = 1 .. Len(starts)
    BY <1>2, <2>1, <2>5, <2>7, LenProperties
  <2>9. starts[n] < starts[n + 1] /\ starts[n] \in Nat /\ starts[n + 1] \in Nat
    BY <1>2, <2>6, <2>8 DEF InOrderSeq
  <2> QED
    BY <2>7, <2>9
<1>8. Len(toks) <= Len(starts)
  BY <1>6 DEF LexedStarts
<1> QED
  BY <1>2, <1>6, <1>7, <1>8 DEF LexedStarts, Spelt

----------------------------------------------------------------------------
(* The statements of a sequence of tokens, as it grows: what Begins, Depth *)
(* and Number say of the tokens taken, for any sequence p.                 *)
StmtEnd == <<";">>
BlockOpen == <<"{">>
BlockClose == <<"}">>

Starting(p, i) == p[i] \notin Punctuation /\ (i = 1 \/ p[i - 1] \in Punctuation)
Tally(p, i, x) == Cardinality({j \in 1 .. i : p[j] = x})
Level(p, i) == Tally(p, i, BlockOpen) - Tally(p, i, BlockClose)
No(p, i) == 1 + Cardinality({j \in 1 .. i : Starting(p, j)})

LEMMA Singles ==
  ASSUME NEW c, NEW d, <<c>> = <<d>>
  PROVE  c = d
<1>1. <<c>>[1] = <<d>>[1]
  OBVIOUS
<1> QED
  BY <1>1

LEMMA PunctuationIs ==
  /\ \A w : w \in Punctuation <=> w = StmtEnd \/ w = BlockOpen \/ w = BlockClose
  /\ StmtEnd # BlockOpen /\ StmtEnd # BlockClose /\ BlockOpen # BlockClose
<1>1. \A w : w \in Punctuation <=> w = StmtEnd \/ w = BlockOpen \/ w = BlockClose
  BY Zenon DEF Punctuation, StmtEnd, BlockOpen, BlockClose
<1>2. ";" # "{" /\ ";" # "}" /\ "{" # "}"
  BY Zenon
<1>3. StmtEnd # BlockOpen
  BY <1>2, Singles, Zenon DEF StmtEnd, BlockOpen
<1>4. StmtEnd # BlockClose
  BY <1>2, Singles, Zenon DEF StmtEnd, BlockClose
<1>5. BlockOpen # BlockClose
  BY <1>2, Singles, Zenon DEF BlockOpen, BlockClose
<1> QED
  BY <1>1, <1>3, <1>4, <1>5

(* Sets of numbers, counted.                                               *)
LEMMA Counted ==
  ASSUME NEW n \in Nat, NEW S \in SUBSET (1 .. n)
  PROVE  /\ IsFiniteSet(S) /\ Cardinality(S) \in Nat
         /\ Cardinality(S \cup {n + 1}) = Cardinality(S) + 1
         /\ \A T \in SUBSET S : /\ Cardinality(T) <= Cardinality(S)
                                /\ T # S => Cardinality(T) < Cardinality(S)
<1>1. IsFiniteSet(1 .. n)
  <2>1. 1 \in Int /\ n \in Int
    OBVIOUS
  <2> QED
    BY <2>1, FS_Interval
<1>2. IsFiniteSet(S)
  BY <1>1, FS_Subset
<1>3. Cardinality(S) \in Nat
  BY <1>2, FS_CardinalityType
<1>4. n + 1 \notin S
  OBVIOUS
<1>5. Cardinality(S \cup {n + 1}) = Cardinality(S) + 1
  BY <1>2, <1>4, FS_AddElement
<1>6. ASSUME NEW T \in SUBSET S
      PROVE  Cardinality(T) <= Cardinality(S) /\ (T # S => Cardinality(T) < Cardinality(S))
  <2>1. /\ IsFiniteSet(T) /\ Cardinality(T) <= Cardinality(S)
        /\ Cardinality(S) = Cardinality(T) => S = T
    BY <1>2, FS_Subset
  <2>2. Cardinality(T) \in Nat
    BY <2>1, FS_CardinalityType
  <2> QED
    BY <1>3, <2>1, <2>2
<1> QED
  BY <1>2, <1>3, <1>5, <1>6

LEMMA TallyIs ==
  ASSUME NEW p, NEW i \in Nat
  PROVE  /\ \A x : Tally(p, i, x) \in Nat
         /\ Level(p, i) \in Int
         /\ No(p, i) \in Nat \ {0}
<1>1. \A x : Tally(p, i, x) \in Nat
  <2>1. ASSUME NEW x PROVE Tally(p, i, x) \in Nat
    <3>1. {j \in 1 .. i : p[j] = x} \in SUBSET (1 .. i)
      OBVIOUS
    <3> QED
      BY <3>1, Counted DEF Tally
  <2> QED
    BY <2>1
<1>2. No(p, i) \in Nat \ {0}
  <2>1. {j \in 1 .. i : Starting(p, j)} \in SUBSET (1 .. i)
    OBVIOUS
  <2>2. Cardinality({j \in 1 .. i : Starting(p, j)}) \in Nat
    BY <2>1, Counted
  <2> QED
    BY <2>2 DEF No
<1> QED
  BY <1>1, <1>2 DEF Level

LEMMA NoGrows ==
  ASSUME NEW p, NEW i \in Nat, NEW b \in Nat, i <= b
  PROVE  /\ No(p, i) <= No(p, b)
         /\ Starting(p, b) /\ i < b => No(p, i) < No(p, b)
         /\ (\A j \in i + 1 .. b : ~ Starting(p, j)) => No(p, i) = No(p, b)
<1> DEFINE T == {j \in 1 .. i : Starting(p, j)}
           S == {j \in 1 .. b : Starting(p, j)}
<1>1. T \in SUBSET S /\ S \in SUBSET (1 .. b)
  OBVIOUS
<1>2. /\ Cardinality(S) \in Nat /\ Cardinality(T) <= Cardinality(S)
      /\ T # S => Cardinality(T) < Cardinality(S)
  <2> HIDE DEF S, T
  <2> QED
    BY <1>1, Counted
<1>3. Cardinality(T) \in Nat
  <2>1. T \in SUBSET (1 .. i)
    OBVIOUS
  <2> HIDE DEF T
  <2> QED
    BY <2>1, Counted
<1>4. No(p, i) = 1 + Cardinality(T) /\ No(p, b) = 1 + Cardinality(S)
  BY DEF No
<1>5. Starting(p, b) /\ i < b => T # S
  <2>1. ASSUME Starting(p, b), i < b PROVE b \in S /\ b \notin T
    BY <2>1
  <2> HIDE DEF S, T
  <2> QED
    BY <2>1
<1>6. (\A j \in i + 1 .. b : ~ Starting(p, j)) => T = S
  <2>1. ASSUME \A j \in i + 1 .. b : ~ Starting(p, j), NEW j \in S PROVE j \in T
    <3>1. j \in 1 .. b /\ j \notin i + 1 .. b /\ Starting(p, j)
      BY <2>1
    <3>2. j \in 1 .. i
      BY <3>1
    <3> QED
      BY <3>1, <3>2
  <2> HIDE DEF S, T
  <2> QED
    BY <1>1, <2>1
<1> HIDE DEF S, T
<1> QED
  BY <1>2, <1>3, <1>4, <1>5, <1>6

(* One token more.                                                         *)
LEMMA AppendIs ==
  ASSUME NEW p \in Seq(Tokens), NEW w \in Tokens, NEW q, q = Append(p, w), NEW n, n = Len(p)
  PROVE  /\ n \in Nat /\ q \in Seq(Tokens) /\ Len(q) = n + 1 /\ q[n + 1] = w
         /\ DOMAIN p = 1 .. n /\ DOMAIN q = 1 .. n + 1
         /\ \A i \in 1 .. n : q[i] = p[i]
<1>1. q \in Seq(Tokens) /\ Len(q) = n + 1 /\ q[n + 1] = w /\ \A i \in 1 .. n : q[i] = p[i]
  BY AppendProperties
<1> QED
  BY <1>1, LenProperties

AsBefore(p, q, n) ==
    /\ \A i \in 1 .. n : Starting(q, i) <=> Starting(p, i)
    /\ \A i \in 0 .. n : /\ \A x : Tally(q, i, x) = Tally(p, i, x)
                         /\ Level(q, i) = Level(p, i)
                         /\ No(q, i) = No(p, i)

LEMMA SameBefore ==
  ASSUME NEW p \in Seq(Tokens), NEW w \in Tokens, NEW q, q = Append(p, w), NEW n, n = Len(p)
  PROVE  AsBefore(p, q, n)
<1>1. n \in Nat /\ \A i \in 1 .. n : q[i] = p[i]
  BY AppendIs
<1>2. \A i \in 1 .. n : Starting(q, i) <=> Starting(p, i)
  <2>1. \A i \in 1 .. n : i # 1 => i - 1 \in 1 .. n
    BY <1>1
  <2> QED
    BY <1>1, <2>1 DEF Starting
<1>3. ASSUME NEW i \in 0 .. n, NEW x PROVE Tally(q, i, x) = Tally(p, i, x)
  <2>1. \A j \in 1 .. i : q[j] = p[j]
    BY <1>1
  <2>2. {j \in 1 .. i : q[j] = x} = {j \in 1 .. i : p[j] = x}
    BY <2>1
  <2> QED
    BY <2>2 DEF Tally
<1>4. ASSUME NEW i \in 0 .. n PROVE No(q, i) = No(p, i)
  <2>1. \A j \in 1 .. i : Starting(q, j) <=> Starting(p, j)
    BY <1>1, <1>2
  <2>2. {j \in 1 .. i : Starting(q, j)} = {j \in 1 .. i : Starting(p, j)}
    BY <2>1
  <2> QED
    BY <2>2 DEF No
<1> QED
  BY <1>2, <1>3, <1>4 DEF Level, AsBefore

Longer(p, w, q, n) ==
    /\ w = BlockOpen => Level(q, n + 1) = Level(p, n) + 1
    /\ w = BlockClose => Level(q, n + 1) = Level(p, n) - 1
    /\ w # BlockOpen /\ w # BlockClose => Level(q, n + 1) = Level(p, n)
    /\ w \in Punctuation => No(q, n + 1) = No(p, n)
    /\ w \notin Punctuation /\ (n = 0 \/ p[n] \in Punctuation) =>
          Starting(q, n + 1) /\ No(q, n + 1) = No(p, n) + 1
    /\ n # 0 /\ p[n] \notin Punctuation => ~ Starting(q, n + 1) /\ No(q, n + 1) = No(p, n)

LEMMA OneMore ==
  ASSUME NEW p \in Seq(Tokens), NEW w \in Tokens, NEW q, q = Append(p, w), NEW n, n = Len(p)
  PROVE  Longer(p, w, q, n)
<1>1. /\ n \in Nat /\ q[n + 1] = w /\ \A i \in 1 .. n : q[i] = p[i]
      /\ \A j \in 1 .. n + 1 : j \in 1 .. n \/ j = n + 1
      /\ \A j \in 1 .. n : j \in 1 .. n + 1 /\ j # n + 1
      /\ n + 1 \in 1 .. n + 1
  BY AppendIs
<1>2. ASSUME NEW x
      PROVE  Tally(q, n + 1, x) = IF w = x THEN Tally(p, n, x) + 1 ELSE Tally(p, n, x)
  <2> DEFINE S == {j \in 1 .. n : p[j] = x}
             T == {j \in 1 .. n + 1 : q[j] = x}
  <2>1. S \in SUBSET (1 .. n)
    OBVIOUS
  <2>2. T = IF w = x THEN S \cup {n + 1} ELSE S
    BY <1>1
  <2>3. Tally(p, n, x) = Cardinality(S) /\ Tally(q, n + 1, x) = Cardinality(T)
    BY DEF Tally
  <2> HIDE DEF S, T
  <2>4. Cardinality(S \cup {n + 1}) = Cardinality(S) + 1
    BY <1>1, <2>1, Counted
  <2> QED
    BY <2>2, <2>3, <2>4
<1>3. No(q, n + 1) = IF Starting(q, n + 1) THEN No(p, n) + 1 ELSE No(p, n)
  <2> DEFINE S == {j \in 1 .. n : Starting(p, j)}
             T == {j \in 1 .. n + 1 : Starting(q, j)}
  <2>1. S \in SUBSET (1 .. n)
    OBVIOUS
  <2>2. T = IF Starting(q, n + 1) THEN S \cup {n + 1} ELSE S
    <3>1. \A j \in 1 .. n : Starting(q, j) <=> Starting(p, j)
      BY SameBefore DEF AsBefore
    <3> QED
      BY <1>1, <3>1
  <2>3. No(p, n) = 1 + Cardinality(S) /\ No(q, n + 1) = 1 + Cardinality(T)
    BY DEF No
  <2> HIDE DEF S, T
  <2>4. Cardinality(S \cup {n + 1}) = Cardinality(S) + 1 /\ Cardinality(S) \in Nat
    BY <1>1, <2>1, Counted
  <2> QED
    BY <2>2, <2>3, <2>4
<1>4. Starting(q, n + 1) <=> w \notin Punctuation /\ (n = 0 \/ p[n] \in Punctuation)
  <2>1. n # 0 => q[(n + 1) - 1] = p[n] /\ n + 1 # 1
    BY <1>1
  <2>2. n = 0 => n + 1 = 1
    OBVIOUS
  <2> QED
    BY <1>1, <2>1, <2>2 DEF Starting
<1>5. /\ Tally(p, n, BlockOpen) \in Nat /\ Tally(p, n, BlockClose) \in Nat
      /\ Level(p, n) = Tally(p, n, BlockOpen) - Tally(p, n, BlockClose)
      /\ Level(q, n + 1) = Tally(q, n + 1, BlockOpen) - Tally(q, n + 1, BlockClose)
  BY <1>1, TallyIs DEF Level
<1>6. /\ Tally(q, n + 1, BlockOpen) =
            IF w = BlockOpen THEN Tally(p, n, BlockOpen) + 1 ELSE Tally(p, n, BlockOpen)
      /\ Tally(q, n + 1, BlockClose) =
            IF w = BlockClose THEN Tally(p, n, BlockClose) + 1 ELSE Tally(p, n, BlockClose)
  BY <1>2
<1>7. /\ w = BlockOpen => Level(q, n + 1) = Level(p, n) + 1
      /\ w = BlockClose => Level(q, n + 1) = Level(p, n) - 1
      /\ w # BlockOpen /\ w # BlockClose => Level(q, n + 1) = Level(p, n)
  BY <1>5, <1>6, PunctuationIs
<1> QED
  BY <1>3, <1>4, <1>7 DEF Longer
(* The statement a brace belongs to; the braces in which i is; the         *)
(* statement in whose block the one at i is.                               *)
Owner(p, j, e) == \E b \in 1 .. j : Starting(p, b) /\ No(p, b) = e /\ No(p, j) = e
Unclosed(p, i) == {j \in 1 .. i : p[j] = BlockOpen /\ \A k \in j .. i : Level(p, k) >= Level(p, j)}
Innermost(p, i, j) == j \in Unclosed(p, i) /\ \A k \in Unclosed(p, i) : k <= j
ParentIn(p, i, e) ==
    \/ Unclosed(p, i) = {} /\ e = Root
    \/ \E j \in 1 .. i : Innermost(p, i, j) /\ Owner(p, j, e)

(* The last token of the statement that begins at i.                       *)
EndsAt(p, i, e) ==
    /\ e \in i .. Len(p)
    /\ \A j \in i + 1 .. e : p[j] \notin Punctuation
    /\ e = Len(p) \/ p[e + 1] \in Punctuation

(* x is the entry of the statement that begins at i, t are those of p.     *)
IsEntry(p, i, x) ==
    /\ x.name = p[i]
    /\ ParentIn(p, i, x.parent)
    /\ \E e \in i .. Len(p) : EndsAt(p, i, e) /\ x.values = SubSeq(p, i + 1, e)
Written(p, t) ==
    /\ Len(t) = No(p, Len(p))
    /\ \A i \in 1 .. Len(p) : Starting(p, i) => No(p, i) \in 1 .. Len(t) /\ IsEntry(p, i, t[No(p, i)])

(* A part of a statement began at b.                                       *)
Current(p, b) ==
    /\ b \in 1 .. Len(p) /\ Starting(p, b) /\ EndsAt(p, b, Len(p))
    /\ No(p, b) = No(p, Len(p))

(* o are the blocks that are open behind p.                                *)
Stacked(p, o, m, pos) ==
    /\ Level(p, Len(p)) = m
    /\ \A k \in 1 .. m : /\ pos[k] \in 1 .. Len(p)
                         /\ Level(p, pos[k]) = k
                         /\ Owner(p, pos[k], o[k + 1])
                         /\ \A l \in 1 .. m : k < l => pos[k] < pos[l]
    /\ Unclosed(p, Len(p)) = {pos[k] : k \in 1 .. m}
Nested(p, o) ==
    o[1] = Root /\ \E m \in Nat : Len(o) = m + 1 /\ \E pos : Stacked(p, o, m, pos)

(* What WellFormed says of every token.                                    *)
LocalAt(p, i) ==
    /\ p[i] \in {StmtEnd, BlockOpen} => i > 1 /\ p[i - 1] \notin Punctuation
    /\ p[i] = BlockClose => i > 1 /\ p[i - 1] \in Punctuation
    /\ p[i] \notin Separators
    /\ Level(p, i) >= 0
Local(p) == \A i \in 1 .. Len(p) : LocalAt(p, i)

LEMMA LocalBefore ==
  ASSUME NEW p \in Seq(Tokens), NEW w \in Tokens, NEW q, q = Append(p, w), NEW n, n = Len(p),
         Local(q)
  PROVE  /\ Local(p)
         /\ w \in {StmtEnd, BlockOpen} => n # 0 /\ p[n] \notin Punctuation
         /\ w = BlockClose => n # 0 /\ p[n] \in Punctuation
         /\ w \notin Separators
         /\ Level(q, n + 1) >= 0
<1>1. /\ n \in Nat /\ Len(q) = n + 1 /\ q[n + 1] = w /\ \A i \in 1 .. n : q[i] = p[i]
  BY AppendIs
<1>2. \A i \in 1 .. n + 1 : LocalAt(q, i)
  BY <1>1 DEF Local
<1>3. ASSUME NEW i \in 1 .. n PROVE LocalAt(p, i)
  <2>1. LocalAt(q, i) /\ q[i] = p[i] /\ Level(q, i) = Level(p, i)
    <3>1. i \in 0 .. n /\ i \in 1 .. n + 1
      BY <1>1
    <3>2. Level(q, i) = Level(p, i)
      BY <3>1, SameBefore DEF AsBefore
    <3> QED
      BY <1>1, <1>2, <3>1, <3>2
  <2>2. i > 1 => i - 1 \in 1 .. n /\ q[i - 1] = p[i - 1]
    BY <1>1
  <2> QED
    BY <2>1, <2>2 DEF LocalAt
<1>4. LocalAt(q, n + 1) /\ (n + 1 > 1 => n # 0 /\ n \in 1 .. n /\ q[(n + 1) - 1] = p[n])
  <2>1. LocalAt(q, n + 1)
    BY <1>1, <1>2
  <2>2. n + 1 > 1 => n # 0 /\ n \in 1 .. n /\ (n + 1) - 1 = n
    BY <1>1
  <2> QED
    BY <1>1, <2>1, <2>2
<1> QED
  BY <1>1, <1>3, <1>4 DEF LocalAt, Local

UnclosedAfter(p, w, q, n) ==
    /\ \A i \in 0 .. n : Unclosed(q, i) = Unclosed(p, i)
    /\ w # BlockOpen /\ w # BlockClose => Unclosed(q, n + 1) = Unclosed(p, n)
    /\ w = BlockOpen => Unclosed(q, n + 1) = Unclosed(p, n) \cup {n + 1}
    /\ w = BlockClose => Unclosed(q, n + 1) = {j \in Unclosed(p, n) : Level(p, j) < Level(p, n)}

LEMMA UnclosedMore ==
  ASSUME NEW p \in Seq(Tokens), NEW w \in Tokens, NEW q, q = Append(p, w), NEW n, n = Len(p)
  PROVE  UnclosedAfter(p, w, q, n)
<1>1. /\ n \in Nat /\ Len(q) = n + 1 /\ q[n + 1] = w /\ \A i \in 1 .. n : q[i] = p[i]
  BY AppendIs
<1>2. \A i \in 0 .. n : Level(q, i) = Level(p, i)
  BY SameBefore DEF AsBefore
<1>3. \A i \in 0 .. n : Level(p, i) \in Int
  BY TallyIs
<1>4. /\ w = BlockOpen => Level(q, n + 1) = Level(p, n) + 1
      /\ w = BlockClose => Level(q, n + 1) = Level(p, n) - 1
      /\ w # BlockOpen /\ w # BlockClose => Level(q, n + 1) = Level(p, n)
  <2>1. Longer(p, w, q, n)
    BY OneMore
  <2> QED
    BY <2>1 DEF Longer
<1>5. BlockOpen # BlockClose
  BY PunctuationIs
<1>6. ASSUME NEW i \in 0 .. n PROVE Unclosed(q, i) = Unclosed(p, i)
  BY <1>1, <1>2 DEF Unclosed
<1> DEFINE In(j) == p[j] = BlockOpen /\ \A k \in j .. n : Level(p, k) >= Level(p, j)
<1>7. ASSUME NEW j \in 1 .. n
      PROVE  /\ j \in Unclosed(p, n) <=> In(j)
             /\ j \in Unclosed(q, n + 1) <=> In(j) /\ Level(q, n + 1) >= Level(p, j)
  <2>1. j \in Unclosed(p, n) <=> In(j)
    BY DEF Unclosed
  <2>2. j \in Unclosed(q, n + 1) <=>
          q[j] = BlockOpen /\ \A k \in j .. n + 1 : Level(q, k) >= Level(q, j)
    BY <1>1 DEF Unclosed
  <2>3. q[j] = p[j] /\ Level(q, j) = Level(p, j) /\ \A k \in j .. n : Level(q, k) = Level(p, k)
    BY <1>1, <1>2
  <2>4. \A k : k \in j .. n + 1 <=> k \in j .. n \/ k = n + 1
    BY <1>1
  <2>5. (\A k \in j .. n + 1 : Level(q, k) >= Level(q, j)) <=>
          (\A k \in j .. n : Level(p, k) >= Level(p, j)) /\ Level(q, n + 1) >= Level(p, j)
    BY <2>3, <2>4
  <2> QED
    BY <2>1, <2>2, <2>3, <2>5
<1>8. n + 1 \in Unclosed(q, n + 1) <=> w = BlockOpen
  <2>1. \A k \in n + 1 .. n + 1 : k = n + 1
    BY <1>1
  <2>2. Level(q, n + 1) \in Int
    BY <1>1, TallyIs
  <2>3. \A k \in n + 1 .. n + 1 : Level(q, k) >= Level(q, n + 1)
    BY <2>1, <2>2
  <2> QED
    BY <1>1, <2>3 DEF Unclosed
<1>9. /\ Unclosed(q, n + 1) \in SUBSET (1 .. n + 1) /\ Unclosed(p, n) \in SUBSET (1 .. n)
      /\ \A j \in 1 .. n + 1 : j \in 1 .. n \/ j = n + 1
      /\ \A j \in 1 .. n : j \in 1 .. n + 1 /\ j # n + 1
  BY <1>1 DEF Unclosed
<1>10. \A j \in Unclosed(p, n) : Level(p, n) >= Level(p, j) /\ Level(p, j) \in Int /\ Level(p, n) \in Int
  <2>1. \A j \in Unclosed(p, n) : j \in 1 .. n /\ n \in j .. n
    BY <1>1, <1>9
  <2> QED
    BY <1>3, <1>7, <2>1
<1>11. ASSUME w # BlockOpen, w # BlockClose PROVE Unclosed(q, n + 1) = Unclosed(p, n)
  <2>1. \A j \in 1 .. n : j \in Unclosed(q, n + 1) <=> j \in Unclosed(p, n)
    BY <1>4, <1>7, <1>10, <1>11
  <2> QED
    BY <1>8, <1>9, <1>11, <2>1
<1>12. ASSUME w = BlockOpen PROVE Unclosed(q, n + 1) = Unclosed(p, n) \cup {n + 1}
  <2>1. \A j \in 1 .. n : j \in Unclosed(q, n + 1) <=> j \in Unclosed(p, n)
    BY <1>4, <1>7, <1>10, <1>12
  <2> QED
    BY <1>8, <1>9, <1>12, <2>1
<1>13. ASSUME w = BlockClose
       PROVE  Unclosed(q, n + 1) = {j \in Unclosed(p, n) : Level(p, j) < Level(p, n)}
  <2>1. ASSUME NEW j \in 1 .. n
        PROVE  j \in Unclosed(q, n + 1) <=> j \in Unclosed(p, n) /\ Level(p, j) < Level(p, n)
    <3>1. Level(q, n + 1) = Level(p, n) - 1 /\ Level(p, n) \in Int /\ Level(p, j) \in Int
      BY <1>1, <1>3, <1>4, <1>13
    <3> QED
      BY <1>7, <3>1
  <2> QED
    BY <1>5, <1>8, <1>9, <1>13, <2>1
<1> QED
  BY <1>6, <1>11, <1>12, <1>13 DEF UnclosedAfter
LEMMA OwnerKept ==
  ASSUME NEW p \in Seq(Tokens), NEW w \in Tokens, NEW q, q = Append(p, w), NEW n, n = Len(p)
  PROVE  /\ \A j \in 1 .. n : \A e : Owner(q, j, e) <=> Owner(p, j, e)
         /\ \A i \in 1 .. n : \A e : ParentIn(q, i, e) <=> ParentIn(p, i, e)
<1>1. n \in Nat
  BY AppendIs
<1>2. /\ \A i \in 1 .. n : Starting(q, i) <=> Starting(p, i)
      /\ \A i \in 0 .. n : No(q, i) = No(p, i)
  BY SameBefore DEF AsBefore
<1>3. ASSUME NEW j \in 1 .. n, NEW e PROVE Owner(q, j, e) <=> Owner(p, j, e)
  <2>1. \A b \in 1 .. j : b \in 1 .. n /\ b \in 0 .. n /\ j \in 0 .. n
    BY <1>1
  <2> QED
    BY <1>2, <2>1 DEF Owner
<1>4. ASSUME NEW i \in 1 .. n, NEW e PROVE ParentIn(q, i, e) <=> ParentIn(p, i, e)
  <2>1. \A j \in 1 .. i : j \in 1 .. n
    BY <1>1
  <2>2. i \in 0 .. n
    BY <1>1
  <2>3. Unclosed(q, i) = Unclosed(p, i)
    <3>1. UnclosedAfter(p, w, q, n)
      BY UnclosedMore
    <3> QED
      BY <2>2, <3>1 DEF UnclosedAfter
  <2>4. \A j \in 1 .. i : Owner(q, j, e) <=> Owner(p, j, e)
    BY <1>3, <2>1
  <2>5. \A j : Innermost(q, i, j) <=> Innermost(p, i, j)
    BY <2>3 DEF Innermost
  <2> QED
    BY <2>3, <2>4, <2>5 DEF ParentIn
<1> QED
  BY <1>3, <1>4

LEMMA SubSeqKept ==
  ASSUME NEW p \in Seq(Tokens), NEW w \in Tokens, NEW q, q = Append(p, w), NEW n, n = Len(p),
         NEW i \in 1 .. n, NEW e \in i .. n
  PROVE  SubSeq(q, i + 1, e) = SubSeq(p, i + 1, e)
<1>1. /\ n \in Nat /\ Len(q) = n + 1 /\ q[n + 1] = w /\ \A k \in 1 .. n : q[k] = p[k]
      /\ q \in Seq(Tokens)
  BY AppendIs
<1>2. i \in Nat /\ e \in Nat /\ e <= n /\ i >= 1
  BY <1>1
<1>3. SubSeq(q, i + 1, e) = [k \in 1 .. e - (i + 1) + 1 |-> q[k + (i + 1) - 1]]
      /\ SubSeq(p, i + 1, e) = [k \in 1 .. e - (i + 1) + 1 |-> p[k + (i + 1) - 1]]
  BY <1>1, <1>2, SMT DEF SubSeq
<1>4. \A k \in 1 .. e - (i + 1) + 1 : k + (i + 1) - 1 \in 1 .. n
  BY <1>1, <1>2
<1> QED
  BY <1>1, <1>3, <1>4

(* A statement keeps its entry unless the new token is a value of it.      *)
LEMMA EntryKept ==
  ASSUME NEW p \in Seq(Tokens), NEW w \in Tokens, NEW q, q = Append(p, w), NEW n, n = Len(p),
         NEW i \in 1 .. n, NEW x, x.name = p[i], ParentIn(p, i, x.parent),
         NEW e \in i .. n, EndsAt(p, i, e), x.values = SubSeq(p, i + 1, e),
         e < n \/ w \in Punctuation
  PROVE  IsEntry(q, i, x)
<1>1. /\ n \in Nat /\ Len(q) = n + 1 /\ q[n + 1] = w /\ \A k \in 1 .. n : q[k] = p[k]
      /\ q \in Seq(Tokens)
  BY AppendIs
<1>2. x.name = q[i] /\ ParentIn(q, i, x.parent)
  BY <1>1, OwnerKept
<1>3. i \in Nat /\ e \in Nat /\ e <= n /\ i >= 1 /\ e \in i .. Len(q) /\ e + 1 \in 1 .. n + 1
  BY <1>1
<1>4. EndsAt(q, i, e)
  <2>1. \A j \in i + 1 .. e : p[j] \notin Punctuation /\ j \in 1 .. n
    BY <1>1, <1>3 DEF EndsAt
  <2>2. \A j \in i + 1 .. e : q[j] \notin Punctuation
    BY <1>1, <2>1
  <2>3. e < n => q[e + 1] = p[e + 1] /\ p[e + 1] \in Punctuation
    <3>1. e < n => e + 1 \in 1 .. n /\ e # n
      BY <1>1, <1>3
    <3> QED
      BY <1>1, <3>1 DEF EndsAt
  <2>4. ~(e < n) => e = n
    BY <1>1, <1>3
  <2>5. q[e + 1] \in Punctuation
    BY <1>1, <2>3, <2>4
  <2> QED
    BY <1>3, <2>2, <2>5 DEF EndsAt
<1>5. SubSeq(q, i + 1, e) = SubSeq(p, i + 1, e)
  BY SubSeqKept
<1> QED
  BY <1>2, <1>3, <1>4, <1>5 DEF IsEntry

(* A token that ends a statement, opens or closes a block.                 *)
LEMMA WrittenPunctuation ==
  ASSUME NEW p \in Seq(Tokens), NEW w \in Punctuation, w \in Tokens, NEW q, q = Append(p, w),
         NEW t, Written(p, t)
  PROVE  Written(q, t)
<1>1. PICK n : n = Len(p)
  OBVIOUS
<1>2. /\ n \in Nat /\ Len(q) = n + 1 /\ q[n + 1] = w /\ \A k \in 1 .. n : q[k] = p[k]
  BY <1>1, AppendIs
<1>3. /\ \A i \in 1 .. n : Starting(q, i) <=> Starting(p, i)
      /\ \A i \in 0 .. n : No(q, i) = No(p, i)
  BY <1>1, SameBefore DEF AsBefore
<1>4. No(q, n + 1) = No(p, n)
  <2>1. Longer(p, w, q, n)
    BY <1>1, OneMore
  <2> QED
    BY <2>1 DEF Longer
<1>5. ASSUME NEW i \in 1 .. n + 1, Starting(q, i)
      PROVE  No(q, i) \in 1 .. Len(t) /\ IsEntry(q, i, t[No(q, i)])
  <2>1. i # n + 1
    BY <1>2, <1>5 DEF Starting
  <2>2. i \in 1 .. n /\ i \in 0 .. n
    BY <1>2, <2>1
  <2>3. PICK x : x = t[No(p, i)]
    OBVIOUS
  <2>4. No(p, i) \in 1 .. Len(t) /\ IsEntry(p, i, x) /\ No(q, i) = No(p, i)
    BY <1>1, <1>3, <1>5, <2>2, <2>3 DEF Written
  <2>5. PICK e \in i .. n : EndsAt(p, i, e) /\ x.values = SubSeq(p, i + 1, e)
    BY <1>1, <2>4 DEF IsEntry
  <2>6. x.name = p[i] /\ ParentIn(p, i, x.parent)
    BY <2>4 DEF IsEntry
  <2>7. IsEntry(q, i, x)
    BY <1>1, <2>2, <2>5, <2>6, EntryKept
  <2> QED
    BY <2>3, <2>4, <2>7
<1> QED
  BY <1>1, <1>2, <1>4, <1>5 DEF Written

(* The name of a statement, in the block o's last.                         *)
LEMMA WrittenStart ==
  ASSUME NEW p \in Seq(Tokens), NEW w \in Tokens, w \notin Punctuation, NEW q, q = Append(p, w),
         NEW n, n = Len(p), n = 0 \/ p[n] \in Punctuation,
         NEW t, Written(p, t), NEW u, Len(u) = Len(t) + 1,
         \A e \in 1 .. Len(t) : u[e] = t[e],
         NEW x, u[Len(t) + 1] = x, x.name = w, x.values = <<>>,
         ParentIn(q, n + 1, x.parent)
  PROVE  Written(q, u) /\ Current(q, n + 1)
<1>2. /\ n \in Nat /\ q \in Seq(Tokens) /\ Len(q) = n + 1 /\ q[n + 1] = w
      /\ \A k \in 1 .. n : q[k] = p[k]
  BY AppendIs
<1>3. /\ \A i \in 1 .. n : Starting(q, i) <=> Starting(p, i)
      /\ \A i \in 0 .. n : No(q, i) = No(p, i)
  <2>1. AsBefore(p, q, n)
    BY SameBefore
  <2> QED
    BY <2>1 DEF AsBefore
<1>4. Starting(q, n + 1) /\ No(q, n + 1) = No(p, n) + 1
  <2>1. Longer(p, w, q, n)
    BY OneMore
  <2> QED
    BY <2>1 DEF Longer
<1>5. Len(t) = No(p, n) /\ Len(t) \in Nat /\ Len(u) = No(q, n + 1)
  BY <1>2, <1>4, TallyIs DEF Written
<1>6. ASSUME NEW i \in 1 .. n, Starting(q, i)
      PROVE  No(q, i) \in 1 .. Len(u) /\ IsEntry(q, i, u[No(q, i)])
  <2>1. i \in 0 .. n /\ No(q, i) = No(p, i)
    BY <1>2, <1>3
  <2>2. PICK y : y = t[No(p, i)]
    OBVIOUS
  <2>3. No(p, i) \in 1 .. Len(t) /\ IsEntry(p, i, y)
    BY <1>3, <1>6, <2>2 DEF Written
  <2>4. PICK e \in i .. n : EndsAt(p, i, e) /\ y.values = SubSeq(p, i + 1, e)
    BY <2>3 DEF IsEntry
  <2>5. y.name = p[i] /\ ParentIn(p, i, y.parent)
    BY <2>3 DEF IsEntry
  <2>6. e < n
    <3>1. SUFFICES ASSUME e = n PROVE FALSE
      BY <1>2
    <3>2. p[n] \in Punctuation
      BY <1>2
    <3>3. p[i] \notin Punctuation
      BY <1>3, <1>6 DEF Starting
    <3>4. n \in i + 1 .. e
      BY <1>2, <3>1, <3>2, <3>3
    <3> QED
      BY <2>4, <3>2, <3>4 DEF EndsAt
  <2>7. IsEntry(q, i, y)
    BY <2>4, <2>5, <2>6, EntryKept
  <2>8. u[No(p, i)] = y /\ No(p, i) \in 1 .. Len(u)
    BY <1>5, <2>2, <2>3
  <2> QED
    BY <2>1, <2>7, <2>8
<1>7. n + 1 \in Nat /\ n + 1 \in 1 .. n + 1 /\ n + 1 \in n + 1 .. n + 1
      /\ EndsAt(q, n + 1, n + 1)
  BY <1>2 DEF EndsAt
<1>8. SubSeq(q, (n + 1) + 1, n + 1) = <<>>
  BY <1>2, SubSeqOf
<1>9. IsEntry(q, n + 1, x)
  BY <1>2, <1>7, <1>8 DEF IsEntry
<1>10. No(q, n + 1) \in 1 .. Len(u) /\ u[No(q, n + 1)] = x
  BY <1>4, <1>5
<1>11. ASSUME NEW i \in 1 .. n + 1, Starting(q, i)
       PROVE  No(q, i) \in 1 .. Len(u) /\ IsEntry(q, i, u[No(q, i)])
  <2>1. i \in 1 .. n \/ i = n + 1
    BY <1>2
  <2> QED
    BY <1>6, <1>9, <1>10, <1>11, <2>1
<1>12. Written(q, u)
  BY <1>2, <1>5, <1>11 DEF Written
<1> QED
  BY <1>2, <1>4, <1>7, <1>12 DEF Current

(* There is one current statement, the last.                               *)
LEMMA CurrentOne ==
  ASSUME NEW p \in Seq(Tokens), NEW n, n = Len(p), NEW b, Current(p, b),
         NEW i \in 1 .. n, Starting(p, i)
  PROVE  /\ No(p, i) = No(p, n) <=> i = b
         /\ EndsAt(p, i, n) <=> i = b
         /\ \A e \in i .. n : EndsAt(p, i, e) /\ i = b => e = n
<1>1. /\ n \in Nat /\ b \in 1 .. n /\ Starting(p, b) /\ No(p, b) = No(p, n)
      /\ \A j \in b + 1 .. n : p[j] \notin Punctuation
      /\ EndsAt(p, b, n)
  BY LenProperties DEF Current, EndsAt
<1>2. ~(i > b)
  <2>1. SUFFICES ASSUME i > b PROVE FALSE
    OBVIOUS
  <2>2. i # 1 /\ p[i - 1] \in Punctuation
    BY <1>1, <2>1 DEF Starting
  <2>3. i - 1 = b \/ i - 1 \in b + 1 .. n
    BY <1>1, <2>1
  <2> QED
    BY <1>1, <2>2, <2>3 DEF Starting
<1>3. i < b => No(p, i) # No(p, n)
  <2>1. i < b => No(p, i) < No(p, b)
    BY <1>1, NoGrows
  <2>2. No(p, i) \in Nat /\ No(p, b) \in Nat
    BY <1>1, TallyIs
  <2> QED
    BY <1>1, <2>1, <2>2
<1>4. i < b => ~ EndsAt(p, i, n)
  <2>1. SUFFICES ASSUME i < b, EndsAt(p, i, n) PROVE FALSE
    OBVIOUS
  <2>2. \A j \in i + 1 .. n : p[j] \notin Punctuation
    BY <2>1 DEF EndsAt
  <2>3. b # 1 /\ p[b - 1] \in Punctuation
    BY <1>1, <2>1 DEF Starting
  <2>4. b - 1 = i \/ b - 1 \in i + 1 .. n
    BY <1>1, <2>1
  <2> QED
    BY <2>2, <2>3, <2>4 DEF Starting
<1>5. ASSUME NEW e \in i .. n, EndsAt(p, i, e), i = b PROVE e = n
  <2>1. SUFFICES ASSUME e < n PROVE FALSE
    BY <1>1
  <2>2. p[e + 1] \in Punctuation /\ e + 1 \in b + 1 .. n
    BY <1>1, <1>5, <2>1 DEF EndsAt
  <2> QED
    BY <1>1, <2>2
<1> QED
  BY <1>1, <1>2, <1>3, <1>4, <1>5

(* A value of the current statement, the last entry.                       *)
ValueAdded(t, u, w) ==
    /\ Len(u) = Len(t) /\ \A e \in 1 .. Len(t) : e # Len(t) => u[e] = t[e]
    /\ u[Len(t)].name = t[Len(t)].name /\ u[Len(t)].parent = t[Len(t)].parent
    /\ u[Len(t)].values = Append(t[Len(t)].values, w)

LEMMA WrittenValue ==
  ASSUME NEW p \in Seq(Tokens), NEW w \in Tokens, w \notin Punctuation, NEW q, q = Append(p, w),
         NEW n, n = Len(p), NEW b, Current(p, b),
         NEW t, Written(p, t), NEW u, ValueAdded(t, u, w)
  PROVE  Written(q, u) /\ Current(q, b)
<1> PICK x, y : x = t[Len(t)] /\ y = u[Len(t)]
  OBVIOUS
<1>0. /\ Len(u) = Len(t) /\ \A e \in 1 .. Len(t) : e # Len(t) => u[e] = t[e]
      /\ y.name = x.name /\ y.parent = x.parent /\ y.values = Append(x.values, w)
  BY DEF ValueAdded
<1>1. /\ n \in Nat /\ q \in Seq(Tokens) /\ Len(q) = n + 1 /\ q[n + 1] = w
      /\ \A k \in 1 .. n : q[k] = p[k]
  BY AppendIs
<1>2. /\ b \in 1 .. n /\ Starting(p, b) /\ EndsAt(p, b, n) /\ No(p, b) = No(p, n)
      /\ \A j \in b + 1 .. n : p[j] \notin Punctuation
  BY DEF Current, EndsAt
<1>3. /\ \A i \in 1 .. n : Starting(q, i) <=> Starting(p, i)
      /\ \A i \in 0 .. n : No(q, i) = No(p, i)
  <2>1. AsBefore(p, q, n)
    BY SameBefore
  <2> QED
    BY <2>1 DEF AsBefore
<1>4. n # 0 /\ p[n] \notin Punctuation
  <2>1. n = b \/ n \in b + 1 .. n
    BY <1>1, <1>2
  <2> QED
    BY <1>2, <2>1 DEF Starting
<1>5. ~ Starting(q, n + 1) /\ No(q, n + 1) = No(p, n)
  <2>1. Longer(p, w, q, n)
    BY OneMore
  <2> QED
    BY <1>4, <2>1 DEF Longer
<1>6. Len(t) = No(p, n) /\ Len(t) \in Nat /\ Len(u) = No(q, n + 1)
  BY <1>0, <1>1, <1>5, TallyIs DEF Written
<1>7. ASSUME NEW i \in 1 .. n, Starting(p, i), i # b
      PROVE  No(q, i) \in 1 .. Len(u) /\ IsEntry(q, i, u[No(q, i)])
  <2>1. i \in 0 .. n /\ No(q, i) = No(p, i)
    BY <1>1, <1>3
  <2>2. PICK r : r = t[No(p, i)]
    OBVIOUS
  <2>3. No(p, i) \in 1 .. Len(t) /\ IsEntry(p, i, r)
    BY <1>7, <2>2 DEF Written
  <2>4. PICK e \in i .. n : EndsAt(p, i, e) /\ r.values = SubSeq(p, i + 1, e)
    BY <2>3 DEF IsEntry
  <2>5. r.name = p[i] /\ ParentIn(p, i, r.parent)
    BY <2>3 DEF IsEntry
  <2>6. No(p, i) # No(p, n) /\ ~ EndsAt(p, i, n)
    BY <1>7, CurrentOne
  <2>7. e # n
    BY <2>4, <2>6
  <2>8. e < n
    BY <1>1, <2>7
  <2>9. IsEntry(q, i, r)
    BY <2>4, <2>5, <2>8, EntryKept
  <2>10. u[No(p, i)] = r
    BY <1>0, <1>6, <2>2, <2>3, <2>6
  <2> QED
    BY <1>0, <2>1, <2>3, <2>9, <2>10
<1>8. No(q, b) \in 1 .. Len(u) /\ u[No(q, b)] = y /\ IsEntry(p, b, x)
  <2>1. b \in 0 .. n /\ No(q, b) = Len(t) /\ No(p, b) = Len(t)
    BY <1>1, <1>2, <1>3, <1>6
  <2>2. No(p, b) \in 1 .. Len(t) /\ IsEntry(p, b, t[No(p, b)])
    BY <1>2 DEF Written
  <2> QED
    BY <1>0, <2>1, <2>2
<1>9. EndsAt(q, b, n + 1) /\ n + 1 \in b .. Len(q)
  <2>1. \A j \in b + 1 .. n + 1 : j \in b + 1 .. n \/ j = n + 1
    <3>1. b \in Nat /\ n \in Nat
      BY <1>1, <1>2
    <3> QED
      BY <3>1
  <2>2. \A j \in b + 1 .. n : q[j] = p[j]
    BY <1>1, <1>2
  <2>3. \A j \in b + 1 .. n + 1 : q[j] \notin Punctuation
    BY <1>1, <1>2, <2>1, <2>2
  <2>4. n + 1 \in b .. n + 1
    BY <1>1, <1>2
  <2> QED
    BY <1>1, <2>3, <2>4 DEF EndsAt
<1>10. x.values = SubSeq(p, b + 1, n)
  <2>1. PICK e \in b .. n : EndsAt(p, b, e) /\ x.values = SubSeq(p, b + 1, e)
    BY <1>8 DEF IsEntry
  <2>2. e = n
    BY <1>2, <2>1, CurrentOne
  <2> QED
    BY <2>1, <2>2
<1>11. SubSeq(q, b + 1, n + 1) = Append(SubSeq(p, b + 1, n), w)
  <2>1. b + 1 \in 1 .. Len(q) /\ n \in (b + 1) - 1 .. Len(q) /\ n < Len(q) /\ n \in b .. n
    BY <1>1, <1>2
  <2>2. SubSeq(q, b + 1, n + 1) = Append(SubSeq(q, b + 1, n), q[n + 1])
    BY <1>1, <2>1, SubSeqOf
  <2>3. SubSeq(q, b + 1, n) = SubSeq(p, b + 1, n)
    BY <1>2, <2>1, SubSeqKept
  <2> QED
    BY <1>1, <2>2, <2>3
<1>12. IsEntry(q, b, y)
  <2>1. x.name = p[b] /\ ParentIn(p, b, x.parent)
    BY <1>8 DEF IsEntry
  <2>2. ParentIn(q, b, y.parent)
    BY <1>0, <1>2, <2>1, OwnerKept
  <2>3. y.name = q[b]
    BY <1>0, <1>1, <1>2, <2>1
  <2> QED
    BY <1>0, <1>9, <1>10, <1>11, <2>2, <2>3 DEF IsEntry
<1>13. ASSUME NEW i \in 1 .. n + 1, Starting(q, i)
       PROVE  No(q, i) \in 1 .. Len(u) /\ IsEntry(q, i, u[No(q, i)])
  <2>1. i \in 1 .. n
    BY <1>1, <1>5, <1>13
  <2>2. Starting(p, i)
    BY <1>3, <1>13, <2>1
  <2> QED
    BY <1>7, <1>8, <1>12, <2>1, <2>2
<1>14. Written(q, u)
  BY <1>1, <1>6, <1>13 DEF Written
<1>15. Current(q, b)
  <2>1. b \in 1 .. n + 1 /\ b \in 0 .. n
    BY <1>1, <1>2
  <2> QED
    BY <1>1, <1>2, <1>3, <1>5, <1>9, <2>1 DEF Current
<1> QED
  BY <1>14, <1>15

(* Behind a token that neither opens nor closes a block the same blocks    *)
(* are open, and the innermost is the one a statement there is in.         *)
LEMMA NestedSame ==
  ASSUME NEW p \in Seq(Tokens), NEW w \in Tokens, w # BlockOpen, w # BlockClose,
         NEW q, q = Append(p, w), NEW n, n = Len(p), NEW o, Nested(p, o)
  PROVE  /\ Nested(q, o)
         /\ ParentIn(q, n + 1, o[Len(o)])
<1>1. n \in Nat /\ Len(q) = n + 1 /\ \A i \in 0 .. n : Level(q, i) = Level(p, i)
  <2>1. AsBefore(p, q, n)
    BY SameBefore
  <2> QED
    BY <2>1, AppendIs DEF AsBefore
<1>2. Level(q, n + 1) = Level(p, n)
  <2>1. Longer(p, w, q, n)
    BY OneMore
  <2> QED
    BY <2>1 DEF Longer
<1>3. Unclosed(q, n + 1) = Unclosed(p, n)
  <2>1. UnclosedAfter(p, w, q, n)
    BY UnclosedMore
  <2> QED
    BY <2>1 DEF UnclosedAfter
<1>4. PICK m \in Nat : Len(o) = m + 1 /\ \E pos : Stacked(p, o, m, pos)
  BY DEF Nested
<1>5. PICK pos : Stacked(p, o, m, pos)
  BY <1>4
<1>6. /\ m \in Nat /\ Len(o) = m + 1 /\ o[1] = Root
      /\ Level(p, n) = m
      /\ \A k \in 1 .. m : /\ pos[k] \in 1 .. n /\ Level(p, pos[k]) = k
                           /\ Owner(p, pos[k], o[k + 1])
                           /\ \A l \in 1 .. m : k < l => pos[k] < pos[l]
      /\ Unclosed(p, n) = {pos[k] : k \in 1 .. m}
  BY <1>4, <1>5 DEF Stacked, Nested
<1>7. \A k \in 1 .. m : /\ pos[k] \in 1 .. n + 1 /\ Level(q, pos[k]) = k
                        /\ Owner(q, pos[k], o[k + 1])
  <2>1. ASSUME NEW k \in 1 .. m
        PROVE  pos[k] \in 1 .. n + 1 /\ Level(q, pos[k]) = k /\ Owner(q, pos[k], o[k + 1])
    <3>1. pos[k] \in 1 .. n /\ pos[k] \in 0 .. n /\ pos[k] \in 1 .. n + 1
      BY <1>1, <1>6
    <3>2. Owner(q, pos[k], o[k + 1])
      BY <1>6, <3>1, OwnerKept
    <3> QED
      BY <1>1, <1>6, <3>1, <3>2
  <2> QED
    BY <2>1
<1>8. Nested(q, o)
  <2>1. Stacked(q, o, m, pos)
    BY <1>1, <1>2, <1>3, <1>6, <1>7 DEF Stacked
  <2> QED
    BY <1>6, <2>1 DEF Nested
<1>9. CASE m = 0
  <2>1. Unclosed(q, n + 1) = {}
    BY <1>3, <1>6, <1>9
  <2> QED
    BY <1>6, <1>8, <1>9, <2>1 DEF ParentIn
<1>10. CASE m # 0
  <2>1. m \in 1 .. m
    BY <1>6, <1>10
  <2>2. Innermost(q, n + 1, pos[m])
    <3>1. \A k \in 1 .. m : pos[k] <= pos[m]
      <4>1. \A k \in 1 .. m : k < m \/ k = m
        BY <1>6
      <4> QED
        BY <1>1, <1>6, <2>1, <4>1
    <3>2. \A x \in Unclosed(q, n + 1) : x <= pos[m]
      BY <1>3, <1>6, <3>1
    <3>3. pos[m] \in Unclosed(q, n + 1)
      BY <1>3, <1>6, <2>1
    <3> QED
      BY <3>2, <3>3 DEF Innermost
  <2>3. pos[m] \in 1 .. n + 1 /\ Owner(q, pos[m], o[Len(o)])
    BY <1>6, <1>7, <2>1
  <2> QED
    BY <1>8, <2>2, <2>3 DEF ParentIn
<1> QED
  BY <1>9, <1>10

(* The current statement opens a block.                                    *)
LEMMA NestedOpen ==
  ASSUME NEW p \in Seq(Tokens), BlockOpen \in Tokens, NEW q, q = Append(p, BlockOpen),
         NEW n, n = Len(p), NEW o, o \in Seq(Nat), Nested(p, o), NEW b, Current(p, b),
         NEW e \in Nat, e = No(p, n), NEW r, r = Append(o, e)
  PROVE  Nested(q, r)
<1>1. /\ n \in Nat /\ Len(q) = n + 1
      /\ \A i \in 0 .. n : Level(q, i) = Level(p, i) /\ No(q, i) = No(p, i)
      /\ \A i \in 1 .. n : Starting(q, i) <=> Starting(p, i)
  <2>1. AsBefore(p, q, n)
    BY SameBefore
  <2> QED
    BY <2>1, AppendIs DEF AsBefore
<1>2. Level(q, n + 1) = Level(p, n) + 1 /\ No(q, n + 1) = No(p, n)
  <2>1. Longer(p, BlockOpen, q, n) /\ BlockOpen \in Punctuation
    BY OneMore, PunctuationIs
  <2> QED
    BY <2>1 DEF Longer
<1>3. Unclosed(q, n + 1) = Unclosed(p, n) \cup {n + 1}
  <2>1. UnclosedAfter(p, BlockOpen, q, n)
    BY UnclosedMore
  <2> QED
    BY <2>1 DEF UnclosedAfter
<1>4. PICK m \in Nat : Len(o) = m + 1 /\ \E pos : Stacked(p, o, m, pos)
  BY DEF Nested
<1>5. PICK pos : Stacked(p, o, m, pos)
  BY <1>4
<1>6. /\ m \in Nat /\ Len(o) = m + 1 /\ o[1] = Root
      /\ Level(p, n) = m
      /\ \A k \in 1 .. m : /\ pos[k] \in 1 .. n /\ Level(p, pos[k]) = k
                           /\ Owner(p, pos[k], o[k + 1])
                           /\ \A l \in 1 .. m : k < l => pos[k] < pos[l]
      /\ Unclosed(p, n) = {pos[k] : k \in 1 .. m}
  BY <1>4, <1>5 DEF Stacked, Nested
<1>7. Len(r) = m + 2 /\ Len(r) - 1 = m + 1 /\ r[m + 2] = e /\ \A k \in 1 .. m + 1 : r[k] = o[k]
  <2>1. Len(r) = Len(o) + 1 /\ r[Len(o) + 1] = e /\ \A k \in 1 .. Len(o) : r[k] = o[k]
    BY AppendProperties
  <2>2. Len(o) + 1 = m + 2 /\ (m + 2) - 1 = m + 1
    BY <1>6
  <2> QED
    BY <1>6, <2>1, <2>2
<1>8. PICK top : top = [k \in 1 .. m + 1 |-> IF k = m + 1 THEN n + 1 ELSE pos[k]]
  OBVIOUS
<1>9. top[m + 1] = n + 1 /\ \A k \in 1 .. m : top[k] = pos[k]
  <2>1. m + 1 \in 1 .. m + 1 /\ \A k \in 1 .. m : k \in 1 .. m + 1 /\ k # m + 1
    BY <1>6
  <2> QED
    BY <1>8, <2>1
<1>10. \A k \in 1 .. m : /\ pos[k] \in 1 .. n + 1 /\ Level(q, pos[k]) = k
                         /\ Owner(q, pos[k], r[k + 1]) /\ pos[k] < n + 1
  <2>1. ASSUME NEW k \in 1 .. m
        PROVE  /\ pos[k] \in 1 .. n + 1 /\ Level(q, pos[k]) = k
               /\ Owner(q, pos[k], r[k + 1]) /\ pos[k] < n + 1
    <3>1. pos[k] \in 1 .. n /\ pos[k] \in 0 .. n /\ pos[k] \in 1 .. n + 1 /\ pos[k] < n + 1
      <4>1. pos[k] \in 1 .. n /\ n \in Nat
        BY <1>1, <1>6
      <4> QED
        BY <4>1
    <3>2. Owner(q, pos[k], o[k + 1])
      BY <1>6, <3>1, OwnerKept
    <3>3. k + 1 \in 1 .. m + 1
      BY <1>6
    <3>4. r[k + 1] = o[k + 1]
      BY <1>7, <3>3
    <3> QED
      BY <1>1, <1>6, <3>1, <3>2, <3>4
  <2> QED
    BY <2>1
<1>11. Owner(q, n + 1, r[m + 2])
  <2>1. b \in 1 .. n /\ b \in 1 .. n + 1 /\ b \in 0 .. n /\ Starting(p, b) /\ No(p, b) = No(p, n)
    BY <1>1 DEF Current
  <2> QED
    BY <1>1, <1>2, <1>7, <2>1 DEF Owner
<1>12. \A k \in 1 .. m + 1 : k \in 1 .. m \/ k = m + 1
  BY <1>6
<1>13. \A k \in 1 .. m + 1 : /\ top[k] \in 1 .. n + 1 /\ Level(q, top[k]) = k
                             /\ Owner(q, top[k], r[k + 1])
                             /\ \A l \in 1 .. m + 1 : k < l => top[k] < top[l]
  <2>1. ASSUME NEW k \in 1 .. m
        PROVE  /\ top[k] \in 1 .. n + 1 /\ Level(q, top[k]) = k /\ Owner(q, top[k], r[k + 1])
               /\ \A l \in 1 .. m + 1 : k < l => top[k] < top[l]
    <3>1. top[k] = pos[k]
      BY <1>9
    <3>2. ASSUME NEW l \in 1 .. m + 1, k < l PROVE top[k] < top[l]
      BY <1>6, <1>9, <1>10, <1>12, <3>1, <3>2
    <3> QED
      BY <1>10, <3>1, <3>2
  <2>2. /\ top[m + 1] \in 1 .. n + 1 /\ Level(q, top[m + 1]) = m + 1
        /\ Owner(q, top[m + 1], r[(m + 1) + 1])
        /\ \A l \in 1 .. m + 1 : ~(m + 1 < l)
    <3>1. (m + 1) + 1 = m + 2 /\ n + 1 \in 1 .. n + 1 /\ \A l \in 1 .. m + 1 : ~(m + 1 < l)
      BY <1>1, <1>6
    <3> QED
      BY <1>2, <1>6, <1>9, <1>11, <3>1
  <2> QED
    BY <1>12, <2>1, <2>2
<1>14. Unclosed(q, n + 1) = {top[k] : k \in 1 .. m + 1}
  <2>1. \A k \in 1 .. m : k \in 1 .. m + 1
    BY <1>6
  <2>2. m + 1 \in 1 .. m + 1
    BY <1>6
  <2>3. {top[k] : k \in 1 .. m + 1} = {top[k] : k \in 1 .. m} \cup {top[m + 1]}
    BY <1>12, <2>1, <2>2
  <2>4. {top[k] : k \in 1 .. m} = {pos[k] : k \in 1 .. m}
    BY <1>9
  <2> QED
    BY <1>3, <1>6, <1>9, <2>3, <2>4
<1>15. Stacked(q, r, m + 1, top)
  <2>1. Level(q, Len(q)) = m + 1
    BY <1>1, <1>2, <1>6
  <2> QED
    BY <1>1, <1>13, <1>14, <2>1 DEF Stacked
<1>16. r[1] = Root /\ m + 1 \in Nat /\ Len(r) = (m + 1) + 1
  <2>1. 1 \in 1 .. m + 1
    BY <1>6
  <2> QED
    BY <1>6, <1>7, <2>1
<1> QED
  BY <1>15, <1>16 DEF Nested

(* A block is closed: one was open.                                        *)
LEMMA NestedClose ==
  ASSUME NEW p \in Seq(Tokens), BlockClose \in Tokens, NEW q, q = Append(p, BlockClose),
         NEW n, n = Len(p), NEW o, o \in Seq(Nat), Nested(p, o), Level(q, n + 1) >= 0,
         NEW r, r = Front(o)
  PROVE  Nested(q, r) /\ r # <<>>
<1>1. n \in Nat /\ Len(q) = n + 1 /\ \A i \in 0 .. n : Level(q, i) = Level(p, i)
  <2>1. AsBefore(p, q, n)
    BY SameBefore
  <2> QED
    BY <2>1, AppendIs DEF AsBefore
<1>2. Level(q, n + 1) = Level(p, n) - 1
  <2>1. Longer(p, BlockClose, q, n)
    BY OneMore
  <2> QED
    BY <2>1 DEF Longer
<1>3. Unclosed(q, n + 1) = {j \in Unclosed(p, n) : Level(p, j) < Level(p, n)}
  <2>1. UnclosedAfter(p, BlockClose, q, n)
    BY UnclosedMore
  <2> QED
    BY <2>1 DEF UnclosedAfter
<1>4. PICK m \in Nat : Len(o) = m + 1 /\ \E pos : Stacked(p, o, m, pos)
  BY DEF Nested
<1>5. PICK pos : Stacked(p, o, m, pos)
  BY <1>4
<1>6. /\ m \in Nat /\ Len(o) = m + 1 /\ o[1] = Root
      /\ Level(p, n) = m
      /\ \A k \in 1 .. m : /\ pos[k] \in 1 .. n /\ Level(p, pos[k]) = k
                           /\ Owner(p, pos[k], o[k + 1])
                           /\ \A l \in 1 .. m : k < l => pos[k] < pos[l]
      /\ Unclosed(p, n) = {pos[k] : k \in 1 .. m}
  BY <1>4, <1>5 DEF Stacked, Nested
<1>7. PICK d \in Nat : m = d + 1
  <2>1. m # 0
    BY <1>2, <1>6
  <2>2. m - 1 \in Nat /\ m = (m - 1) + 1
    BY <1>6, <2>1
  <2> QED
    BY <2>2
<1>8. Len(r) = d + 1 /\ \A k \in 1 .. d + 1 : r[k] = o[k]
  <2>1. r = SubSeq(o, 1, d + 1)
    <3>1. Len(o) - 1 = d + 1
      BY <1>6, <1>7
    <3> QED
      BY <3>1 DEF Front
  <2>2. 1 \in 1 .. Len(o) /\ d + 1 \in 1 - 1 .. Len(o)
    BY <1>6, <1>7
  <2>3. /\ Len(r) = (d + 1) - 1 + 1
        /\ \A k \in 1 .. (d + 1) - 1 + 1 : r[k] = o[1 + k - 1]
    BY <2>1, <2>2, SubSeqOf
  <2>4. (d + 1) - 1 + 1 = d + 1 /\ \A k \in 1 .. d + 1 : 1 + k - 1 = k
    BY <1>7
  <2> QED
    BY <2>3, <2>4
<1>9. \A k \in 1 .. d : k \in 1 .. m /\ k + 1 \in 1 .. d + 1
  BY <1>7
<1>10. \A k \in 1 .. d : /\ pos[k] \in 1 .. n + 1 /\ Level(q, pos[k]) = k
                         /\ Owner(q, pos[k], r[k + 1])
                         /\ \A l \in 1 .. d : k < l => pos[k] < pos[l]
  <2>1. ASSUME NEW k \in 1 .. d
        PROVE  /\ pos[k] \in 1 .. n + 1 /\ Level(q, pos[k]) = k /\ Owner(q, pos[k], r[k + 1])
               /\ \A l \in 1 .. d : k < l => pos[k] < pos[l]
    <3>1. pos[k] \in 1 .. n /\ n \in Nat
      BY <1>1, <1>6, <1>9
    <3>2. pos[k] \in 0 .. n /\ pos[k] \in 1 .. n + 1
      BY <3>1
    <3>3. Owner(q, pos[k], o[k + 1])
      BY <1>6, <1>9, <3>1, OwnerKept
    <3>4. r[k + 1] = o[k + 1]
      BY <1>8, <1>9
    <3>5. \A l \in 1 .. d : k < l => pos[k] < pos[l]
      BY <1>6, <1>9
    <3> QED
      BY <1>1, <1>6, <1>9, <3>2, <3>3, <3>4, <3>5
  <2> QED
    BY <2>1
<1>11. Unclosed(q, n + 1) = {pos[k] : k \in 1 .. d}
  <2>1. ASSUME NEW k \in 1 .. m PROVE Level(p, pos[k]) < Level(p, n) <=> k \in 1 .. d
    BY <1>6, <1>7
  <2> QED
    BY <1>3, <1>6, <1>9, <2>1
<1>12. Stacked(q, r, d, pos)
  <2>1. Level(q, Len(q)) = d
    BY <1>1, <1>2, <1>6, <1>7
  <2> QED
    BY <1>1, <1>10, <1>11, <2>1 DEF Stacked
<1>13. r[1] = Root /\ r # <<>>
  <2>1. 1 \in 1 .. d + 1
    BY <1>7
  <2> QED
    BY <1>6, <1>8, <2>1
<1> QED
  BY <1>7, <1>8, <1>12, <1>13 DEF Nested

(* Before the first token.                                                 *)
LEMMA NoStatements ==
  ASSUME NEW t, Len(t) = 1, NEW o, o = <<Root>>
  PROVE  Written(<<>>, t) /\ Nested(<<>>, o)
<1>1. PICK p : p = <<>>
  OBVIOUS
<1>2. Len(p) = 0 /\ 1 .. 0 = {}
  BY <1>1
<1>3. No(p, 0) = 1 /\ Level(p, 0) = 0 /\ Unclosed(p, 0) = {}
  <2>1. Cardinality({}) = 0
    BY FS_EmptySet
  <2>2. {j \in 1 .. 0 : Starting(p, j)} = {} /\ \A x : {j \in 1 .. 0 : p[j] = x} = {}
    BY <1>2
  <2>3. Tally(p, 0, BlockOpen) = 0 /\ Tally(p, 0, BlockClose) = 0
    BY <2>1, <2>2 DEF Tally
  <2>4. Unclosed(p, 0) = {}
    BY <1>2 DEF Unclosed
  <2> QED
    BY <2>1, <2>2, <2>3, <2>4 DEF No, Level
<1>4. Written(p, t)
  BY <1>2, <1>3 DEF Written
<1>5. Stacked(p, o, 0, <<>>)
  BY <1>2, <1>3 DEF Stacked
<1>6. o[1] = Root /\ 0 \in Nat /\ Len(o) = 0 + 1
  OBVIOUS
<1> QED
  BY <1>1, <1>4, <1>5, <1>6 DEF Nested

(* The state's own words for it.                                           *)
Same(p) ==
    /\ \A i \in DOMAIN taken : Begins(i) <=> Starting(p, i)
    /\ \A i \in 0 .. Len(p) : Depth(i) = Level(p, i) /\ Number(i) = No(p, i)

LEMMA SameWords ==
  ASSUME taken \in Seq(Tokens), NEW p, p = taken
  PROVE  Same(p) /\ (WellFormed => Local(p))
<1>1. Len(p) \in Nat /\ DOMAIN taken = 1 .. Len(p)
  BY LenProperties
<1>2. \A i : Begins(i) <=> Starting(p, i)
  BY DEF Begins, Starting
<1>3. \A i : Depth(i) = Level(p, i)
  <2> SUFFICES ASSUME NEW i PROVE Depth(i) = Level(p, i)
    OBVIOUS
  <2>1. BlockOpen = <<"{">> /\ BlockClose = <<"}">>
    BY Zenon DEF BlockOpen, BlockClose
  <2>2. Depth(i) = Cardinality({j \in 1 .. i : p[j] = BlockOpen})
                   - Cardinality({j \in 1 .. i : p[j] = BlockClose})
    BY Zenon DEF Depth, BlockOpen, BlockClose
  <2> QED
    BY <2>2, Zenon DEF Level, Tally
<1>4. \A i : Number(i) = No(p, i)
  <2> SUFFICES ASSUME NEW i PROVE Number(i) = No(p, i)
    OBVIOUS
  <2>1. {j \in 1 .. i : Begins(j)} = {j \in 1 .. i : Starting(p, j)}
    BY <1>2
  <2> QED
    BY <2>1 DEF Number, No
<1>5. Same(p)
  BY <1>2, <1>3, <1>4 DEF Same
<1>6. ASSUME WellFormed, NEW i \in 1 .. Len(p) PROVE LocalAt(p, i)
  <2>1. i \in DOMAIN taken
    BY <1>1
  <2>2. /\ taken[i] \in {StmtEnd, BlockOpen} => i > 1 /\ taken[i - 1] \notin Punctuation
        /\ taken[i] = BlockClose => i > 1 /\ taken[i - 1] \in Punctuation
        /\ taken[i] \notin Separators
        /\ Depth(i) >= 0
    BY <1>6, <2>1, Zenon DEF WellFormed, StmtEnd, BlockOpen, BlockClose
  <2> QED
    BY <1>3, <2>2 DEF LocalAt
<1> QED
  BY <1>5, <1>6 DEF Local

(* The values of a statement that is complete end before its end.          *)
LEMMA ValuesAre ==
  ASSUME taken \in Seq(Tokens), NEW p, p = taken, NEW i \in 1 .. Len(p), Starting(p, i),
         p[Len(p)] \in Punctuation, NEW e, EndsAt(p, i, e)
  PROVE  ValuesOf(i) = SubSeq(p, i + 1, e)
<1>1. Len(p) \in Nat /\ e \in i .. Len(p) /\ e \in Int /\ i \in Nat
  BY LenProperties DEF EndsAt
<1>2. e # Len(p)
  <2>1. SUFFICES ASSUME e = Len(p) PROVE FALSE
    OBVIOUS
  <2>2. e # i
    BY <2>1 DEF Starting
  <2>3. e \in i + 1 .. e
    BY <1>1, <2>2
  <2> QED
    BY <2>1, <2>3 DEF EndsAt
<1> DEFINE ends == {j \in i + 1 .. Len(p) : p[j] \in Punctuation}
<1>3. e + 1 \in ends
  BY <1>1, <1>2 DEF EndsAt
<1>4. \A j \in ends : e + 1 <= j
  <2>1. SUFFICES ASSUME NEW j \in ends, ~(e + 1 <= j) PROVE FALSE
    OBVIOUS
  <2>2. j \in i + 1 .. e /\ p[j] \in Punctuation
    BY <1>1, <2>1
  <2> QED
    BY <2>2 DEF EndsAt
<1>5. PICK end : end = CHOOSE j \in ends : \A k \in ends : j <= k
  OBVIOUS
<1>6. end = e + 1
  <2>1. \A j \in ends : j \in Int
    BY <1>1
  <2> HIDE DEF ends
  <2>2. end \in ends /\ \A k \in ends : end <= k
    BY <1>3, <1>4, <1>5
  <2>3. end <= e + 1 /\ e + 1 <= end
    BY <1>3, <1>4, <2>2
  <2> QED
    BY <1>1, <2>1, <2>2, <2>3
<1>7. ValuesOf(i) = SubSeq(p, i + 1, end - 1)
  BY <1>5 DEF ValuesOf
<1>8. end - 1 = e
  BY <1>1, <1>6
<1> QED
  BY <1>7, <1>8

LEMMA ParentIs ==
  ASSUME taken \in Seq(Tokens), NEW p, p = taken, NEW i \in 1 .. Len(p), NEW e, ParentIn(p, i, e)
  PROVE  ParentOf(i) = e
<1>1. Len(p) \in Nat /\ DOMAIN taken = 1 .. Len(p)
  BY LenProperties
<1> DEFINE opens == {j \in 1 .. i : taken[j] = <<"{">> /\ \A k \in j .. i : Depth(k) >= Depth(j)}
           inner == CHOOSE j \in opens : \A k \in opens : k <= j
<1>2. ParentOf(i) = IF opens = {} THEN Root
                    ELSE Number(CHOOSE b \in 1 .. inner : Begins(b) /\ Number(b) = Number(inner))
  BY Zenon DEF ParentOf
<1>3. opens = {j \in 1 .. i : p[j] = BlockOpen /\ \A k \in j .. i : Depth(k) >= Depth(j)}
  BY Zenon DEF BlockOpen
<1> HIDE DEF opens
<1>4. inner = CHOOSE j \in opens : \A k \in opens : k <= j
  BY DEF inner
<1> HIDE DEF inner
<1>5. /\ \A j \in 1 .. Len(p) : Begins(j) <=> Starting(p, j)
      /\ \A j \in 0 .. Len(p) : Depth(j) = Level(p, j) /\ Number(j) = No(p, j)
  BY <1>1, SameWords DEF Same
<1>6. opens = Unclosed(p, i)
  <2>1. \A j \in 1 .. i : j \in 0 .. Len(p) /\ \A k \in j .. i : k \in 0 .. Len(p)
    BY <1>1
  <2>2. \A j \in 1 .. i : (\A k \in j .. i : Depth(k) >= Depth(j)) <=>
                          (\A k \in j .. i : Level(p, k) >= Level(p, j))
    BY <1>5, <2>1
  <2> QED
    BY <1>3, <2>2 DEF Unclosed
<1>7. CASE Unclosed(p, i) = {} /\ e = Root
  BY <1>2, <1>6, <1>7
<1>8. CASE \E j \in 1 .. i : Innermost(p, i, j) /\ Owner(p, j, e)
  <2>1. PICK j \in 1 .. i : Innermost(p, i, j) /\ Owner(p, j, e)
    BY <1>8
  <2>2. j \in opens /\ \A k \in opens : k <= j
    BY <1>6, <2>1 DEF Innermost
  <2>3. inner = j
    <3>1. \A k \in opens : k \in Int
      BY <1>3
    <3>2. inner \in opens /\ \A k \in opens : k <= inner
      BY <1>4, <2>2
    <3> QED
      BY <2>2, <3>1, <3>2
  <2>4. PICK b \in 1 .. j : Starting(p, b) /\ No(p, b) = e /\ No(p, j) = e
    BY <2>1 DEF Owner
  <2>5. \A a \in 1 .. j : a \in 1 .. Len(p) /\ a \in 0 .. Len(p) /\ j \in 0 .. Len(p)
    BY <1>1
  <2>6. PICK c : c = CHOOSE a \in 1 .. inner : Begins(a) /\ Number(a) = Number(inner)
    OBVIOUS
  <2>7. b \in 1 .. inner /\ Begins(b) /\ Number(b) = Number(inner)
    BY <1>5, <2>3, <2>4, <2>5
  <2>8. Number(c) = Number(inner)
    BY <2>6, <2>7
  <2>9. Number(inner) = e
    BY <1>5, <2>3, <2>4, <2>5
  <2>10. opens # {}
    BY <2>2
  <2> QED
    BY <1>2, <2>6, <2>8, <2>9, <2>10
<1> QED
  BY <1>7, <1>8 DEF ParentIn

LEMMA CurrentIs ==
  ASSUME NEW p \in Seq(Tokens), NEW b, Current(p, b)
  PROVE  Len(p) \in Nat \ {0} /\ p[Len(p)] \notin Punctuation
<1>1. /\ Len(p) \in Nat /\ b \in 1 .. Len(p) /\ p[b] \notin Punctuation
      /\ \A j \in b + 1 .. Len(p) : p[j] \notin Punctuation
  BY LenProperties DEF Current, EndsAt, Starting
<1>2. Len(p) = b \/ Len(p) \in b + 1 .. Len(p)
  BY <1>1
<1> QED
  BY <1>1, <1>2

(* Only the names, the values and the blocks matter.                       *)
LEMMA WrittenEdit ==
  ASSUME NEW p, NEW t, Written(p, t), NEW u, Len(u) = Len(t),
         \A e \in 1 .. Len(t) : /\ u[e].name = t[e].name /\ u[e].values = t[e].values
                               /\ u[e].parent = t[e].parent
  PROVE  Written(p, u)
BY DEF Written, IsEntry
=============================================================================
