------------------------- MODULE PluginStreamProofs -------------------------
(***************************************************************************)
(* Theorems about PluginStream, for streams of any length, payloads of any *)
(* length the stream carries, and any faults.  The induction over the      *)
(* queues comes from the least counterexample (lemmas Least and            *)
(* Induction): the theorems that take an operator cannot be used with the  *)
(* provers at hand.                                                        *)
(***************************************************************************)
EXTENDS PluginStream, SequenceTheorems, WellFoundedInduction, TLAPS

NatBefore == {ss \in Nat \X Nat : ss[1] < ss[2]}

LEMMA Least ==
    ASSUME NEW T, T \subseteq Nat, T # {}
    PROVE  \E n \in T : \A m \in T : n <= m
<1>1. ASSUME NEW m \in Nat, NEW n \in Nat, m < n
      PROVE  <<m, n>> \in NatBefore
    BY <1>1, SMT DEF NatBefore
<1>2. IsWellFoundedOn(NatBefore, Nat)
    BY NatLessThanWellFounded DEF OpToRel, NatBefore
<1>3. PICK n \in T : \A m \in T : ~(<<m, n>> \in NatBefore)
    BY <1>2, WFMin
<1>4. \A m \in T : ~(m < n)
    BY <1>1, <1>3
<1> QED
    BY <1>4

LEMMA Induction ==
    ASSUME NEW S, S \subseteq Nat, 0 \in S, \A n \in S : n + 1 \in S
    PROVE  S = Nat
<1> SUFFICES ASSUME S # Nat PROVE FALSE
    OBVIOUS
<1>1. PICK n \in Nat \ S : \A m \in Nat \ S : n <= m
    BY Least
<1>2. n # 0 /\ n - 1 \in Nat
    BY <1>1
<1>3. n - 1 \in S
    BY <1>1, <1>2
<1>4. (n - 1) + 1 \in S
    BY <1>3
<1> QED
    BY <1>1, <1>4

Follows(f, n, V, base, step) ==
    /\ f \in [0..n -> V] /\ f[0] = base
    /\ \A k \in 1..n : f[k] = step[<<k, f[k - 1]>>]

LEMMA Recursion ==
    ASSUME NEW n \in Nat, NEW V, NEW base \in V, NEW step \in [(1..n) \X V -> V]
    PROVE  \E f : Follows(f, n, V, base, step)
<1> DEFINE Up(m, f) == f[0] = base /\ \A k \in 1..m : f[k] = step[<<k, f[k - 1]>>]
           S == {m \in Nat : m <= n => \E f \in [0..m -> V] : Up(m, f)}
<1>1. 0 \in S
    <2>1. [k \in 0..0 |-> base] \in [0..0 -> V] /\ Up(0, [k \in 0..0 |-> base])
        OBVIOUS
    <2> QED
        BY <2>1
<1>2. ASSUME NEW m \in S PROVE m + 1 \in S
    <2> SUFFICES ASSUME m + 1 <= n PROVE \E f \in [0..(m + 1) -> V] : Up(m + 1, f)
        OBVIOUS
    <2>1. PICK f \in [0..m -> V] : Up(m, f)
        OBVIOUS
    <2> DEFINE g == [k \in 0..(m + 1) |-> IF k = m + 1 THEN step[<<k, f[m]>>] ELSE f[k]]
    <2>2. g \in [0..(m + 1) -> V]
        OBVIOUS
    <2>3. Up(m + 1, g)
        <3>1. g[0] = base
            BY <2>1
        <3>2. ASSUME NEW k \in 1..(m + 1) PROVE g[k] = step[<<k, g[k - 1]>>]
            <4>1. CASE k = m + 1
                <5>1. k - 1 = m /\ g[k - 1] = f[m]
                    BY <4>1
                <5> QED
                    BY <4>1, <5>1
            <4>2. CASE k # m + 1
                <5>1. k \in 1..m /\ g[k] = f[k] /\ g[k - 1] = f[k - 1]
                    BY <4>2
                <5> QED
                    BY <2>1, <5>1
            <4> QED
                BY <4>1, <4>2
        <3> QED
            BY <3>1, <3>2
    <2> QED
        BY <2>2, <2>3
<1>3. S = Nat
    <2> HIDE DEF S
    <2>1. S \subseteq Nat
        BY DEF S
    <2> QED
        BY <1>1, <1>2, <2>1, Induction
<1> QED
    BY <1>3 DEF Follows

-----------------------------------------------------------------------------
\* The equation of the function in Kept, up to place n.
Keeps(f, s, K, n) ==
    f = [i \in 0..n |->
            IF i = 0 THEN <<>>
            ELSE IF i \in K THEN Append(f[i - 1], s[i]) ELSE f[i - 1]]

LEMMA KeepsStep ==
    ASSUME NEW s, NEW K, NEW n \in Nat, NEW f, Keeps(f, s, K, n)
    PROVE  /\ f[0] = <<>>
           /\ \A i \in 1..n : f[i] = IF i \in K THEN Append(f[i - 1], s[i]) ELSE f[i - 1]
<1>1. f = [i \in 0..n |->
            IF i = 0 THEN <<>>
            ELSE IF i \in K THEN Append(f[i - 1], s[i]) ELSE f[i - 1]]
    BY DEF Keeps
<1>2. f[0] = <<>>
    <2>1. 0 \in 0..n
        OBVIOUS
    <2> QED
        BY <1>1, <2>1, Zenon
<1>3. ASSUME NEW i \in 1..n
      PROVE  f[i] = IF i \in K THEN Append(f[i - 1], s[i]) ELSE f[i - 1]
    <2>1. i \in 0..n /\ i # 0
        OBVIOUS
    <2> QED
        BY <1>1, <2>1, Zenon
<1> QED
    BY <1>2, <1>3

LEMMA KeepsAgree ==
    ASSUME NEW s, NEW t, NEW K, NEW L, NEW n \in Nat, NEW m \in 0..n, NEW f, NEW g,
           Keeps(f, s, K, n), Keeps(g, t, L, m),
           \A i \in 1..m : s[i] = t[i] /\ (i \in K <=> i \in L)
    PROVE  \A i \in 0..m : g[i] = f[i]
<1> DEFINE S == {i \in Nat : i <= m => g[i] = f[i]}
<1>1. f[0] = <<>> /\ \A i \in 1..n : f[i] = IF i \in K THEN Append(f[i - 1], s[i]) ELSE f[i - 1]
    BY KeepsStep
<1>2. g[0] = <<>> /\ \A i \in 1..m : g[i] = IF i \in L THEN Append(g[i - 1], t[i]) ELSE g[i - 1]
    <2>1. m \in Nat
        OBVIOUS
    <2> QED
        BY <2>1, KeepsStep
<1>3. 0 \in S
    BY <1>1, <1>2
<1>4. ASSUME NEW i \in S PROVE i + 1 \in S
    <2> SUFFICES ASSUME i + 1 <= m PROVE g[i + 1] = f[i + 1]
        OBVIOUS
    <2>1. i + 1 \in 1..m /\ i + 1 \in 1..n /\ (i + 1) - 1 = i /\ g[i] = f[i]
        OBVIOUS
    <2> QED
        BY <1>1, <1>2, <2>1
<1>5. S = Nat
    <2> HIDE DEF S
    <2>1. S \subseteq Nat
        BY DEF S
    <2> QED
        BY <1>3, <1>4, <2>1, Induction
<1> QED
    BY <1>5

LEMMA KeepsExists ==
    ASSUME NEW V, NEW s, NEW K, NEW n \in Nat, \A i \in 1..n : s[i] \in V
    PROVE  \E f : f \in [0..n -> Seq(V)] /\ Keeps(f, s, K, n)
<1> DEFINE W == Seq(V)
           step == [p \in (1..n) \X W |-> IF p[1] \in K THEN Append(p[2], s[p[1]]) ELSE p[2]]
<1>1. step \in [(1..n) \X W -> W]
    <2>1. ASSUME NEW p \in (1..n) \X W
          PROVE  (IF p[1] \in K THEN Append(p[2], s[p[1]]) ELSE p[2]) \in W
        <3>1. p[1] \in 1..n /\ p[2] \in W /\ s[p[1]] \in V
            OBVIOUS
        <3> QED
            BY <3>1, AppendProperties
    <2> QED
        BY <2>1
<1>2. <<>> \in W
    OBVIOUS
<1>3. PICK f : Follows(f, n, W, <<>>, step)
    <2> HIDE DEF step, W
    <2> QED
        BY <1>1, <1>2, Recursion, Zenon
<1>4. /\ f \in [0..n -> W] /\ f[0] = <<>>
      /\ \A i \in 1..n : f[i] = step[<<i, f[i - 1]>>]
    BY <1>3 DEF Follows
<1>5. ASSUME NEW i \in 0..n
      PROVE  f[i] = IF i = 0 THEN <<>>
                    ELSE IF i \in K THEN Append(f[i - 1], s[i]) ELSE f[i - 1]
    <2>1. CASE i # 0
        <3> DEFINE p == <<i, f[i - 1]>>
        <3>1. i \in 1..n /\ i - 1 \in 0..n
            BY <2>1
        <3>2. p \in (1..n) \X W /\ p[1] = i /\ p[2] = f[i - 1] /\ f[i] = step[p]
            BY <1>4, <3>1
        <3>3. f[i] = IF p[1] \in K THEN Append(p[2], s[p[1]]) ELSE p[2]
            <4> HIDE DEF p
            <4> QED
                BY <3>2
        <3> QED
            BY <2>1, <3>2, <3>3
    <2> QED
        BY <2>1, <1>4
<1>6. Keeps(f, s, K, n)
    <2>1. f = [i \in 0..n |-> f[i]]
        BY <1>4
    <2> QED
        BY <1>5, <2>1, Zenon DEF Keeps
<1> QED
    BY <1>4, <1>6

Long(s, n) == n \in Nat /\ Len(s) = n

\* Kept is the last value of any function that satisfies its equation.
LEMMA KeptIs ==
    ASSUME NEW s, NEW K, NEW n, Long(s, n), NEW f, NEW m \in Nat, n <= m,
           NEW t, NEW L, Keeps(f, t, L, m),
           \A i \in 1..n : t[i] = s[i] /\ (i \in L <=> i \in K)
    PROVE  Kept(s, K) = f[n]
<1>0. n \in Nat
    BY DEF Long
<1>1. \E g : Keeps(g, s, K, n)
    <2> DEFINE g == [i \in 0..n |-> f[i]]
    <2>1. f[0] = <<>> /\ \A i \in 1..m : f[i] = IF i \in L THEN Append(f[i - 1], t[i]) ELSE f[i - 1]
        BY KeepsStep
    <2>2. ASSUME NEW i \in 0..n
          PROVE  f[i] = IF i = 0 THEN <<>>
                        ELSE IF i \in K THEN Append(g[i - 1], s[i]) ELSE g[i - 1]
        <3>1. CASE i # 0
            <4>1. i \in 1..n /\ i \in 1..m /\ i - 1 \in 0..n
                BY <1>0, <3>1
            <4> QED
                BY <2>1, <3>1, <4>1
        <3> QED
            BY <2>1, <3>1
    <2>3. Keeps(g, s, K, n)
        BY <2>2, Zenon DEF Keeps
    <2> QED
        BY <2>3
<1> DEFINE h == CHOOSE g : Keeps(g, s, K, n)
<1>2. Keeps(h, s, K, n)
    BY <1>1
<1>3. Kept(s, K) = h[n]
    BY Zenon DEF Kept, Keeps, Long
<1>4. n \in 0..m /\ n \in 0..n
    BY <1>0
<1>5. \A i \in 0..n : h[i] = f[i]
    <2> HIDE DEF h
    <2> QED
        BY <1>2, <1>4, KeepsAgree
<1> QED
    BY <1>3, <1>4, <1>5

Payload == [value : Nat, len : Nat]

\* What Kept is, member by member.
LEMMA KeptAppend ==
    ASSUME NEW s \in Seq(Payload), NEW x \in Payload, NEW K, NEW L,
           \A i \in 1..Len(s) : i \in K <=> i \in L
    PROVE  /\ Kept(s, K) \in Seq(Payload)
           /\ Kept(Append(s, x), L) = IF Len(s) + 1 \in L THEN Append(Kept(s, K), x) ELSE Kept(s, K)
<1>0. PICK t : t = Append(s, x)
    OBVIOUS
<1>1. PICK n : n = Len(s)
    OBVIOUS
<1>2. Long(s, n) /\ Long(t, n + 1)
    BY <1>0, <1>1 DEF Long
<1>3. /\ n \in Nat /\ n + 1 \in Nat /\ n <= n + 1 /\ n + 1 <= n + 1
      /\ \A i \in 1..n : s[i] \in Payload
      /\ \A i \in 1..n : t[i] = s[i] /\ (i \in L <=> i \in K)
      /\ t[n + 1] = x
    BY <1>0, <1>1
<1>9. \A i \in 1..(n + 1) : t[i] \in Payload
    BY <1>0, <1>1
<1>4. PICK f : f \in [0..(n + 1) -> Seq(Payload)] /\ Keeps(f, t, L, n + 1)
    BY <1>3, <1>9, KeepsExists
<1>10. Keeps(f, t, L, n + 1)
    BY <1>4
<1>5. Kept(t, L) = f[n + 1]
    BY <1>2, <1>3, <1>10, KeptIs
<1>6. Kept(s, K) = f[n]
    BY <1>2, <1>3, <1>10, KeptIs
<1>7. f[n + 1] = IF n + 1 \in L THEN Append(f[n], t[n + 1]) ELSE f[n]
    <2>1. n + 1 \in 1..(n + 1) /\ (n + 1) - 1 = n
        BY <1>3
    <2> QED
        BY <1>3, <1>10, <2>1, KeepsStep
<1>8. n \in 0..(n + 1)
    BY <1>3
<1> QED
    BY <1>0, <1>1, <1>3, <1>4, <1>5, <1>6, <1>7, <1>8

LEMMA KeptEmpty ==
    ASSUME NEW K
    PROVE  Kept(<<>>, K) = <<>>
<1>1. PICK s : s = <<>>
    OBVIOUS
<1>2. (\A i \in 1..0 : s[i] \in {}) /\ Long(s, 0) /\ 0 <= 0 /\ 0 \in Nat
    BY <1>1 DEF Long
<1>3. PICK f : f \in [0..0 -> Seq({})] /\ Keeps(f, s, K, 0)
    BY <1>2, KeepsExists
<1>4. Keeps(f, s, K, 0)
    BY <1>3
<1>5. Kept(s, K) = f[0]
    BY <1>2, <1>4, KeptIs
<1>6. f[0] = <<>>
    BY <1>2, <1>4, KeepsStep
<1> QED
    BY <1>1, <1>5, <1>6

-----------------------------------------------------------------------------
(***************************************************************************)
(* What was given, and what is under way, as sequences of payloads.        *)
(***************************************************************************)
Message == [value : Nat, len : Nat, whole : {TRUE}]

LEMMA ThroughStep ==
    ASSUME NEW len \in Seq(Nat)
    PROVE  /\ Through(len, 0) = <<>>
           /\ \A n \in 0..Len(len) : Through(len, n) \in Seq(Payload)
           /\ \A n \in 1..Len(len) :
                Through(len, n) = IF len[n] > 0
                                  THEN Append(Through(len, n - 1), [value |-> n, len |-> len[n]])
                                  ELSE Through(len, n - 1)
<1> DEFINE s(n) == [k \in 1..n |-> [value |-> k, len |-> len[k]]]
           P(n) == {k \in 1..n : len[k] > 0}
<1>1. s(0) = <<>>
    OBVIOUS
<1>2. Through(len, 0) = <<>>
    BY <1>1, KeptEmpty DEF Through
<1>3. ASSUME NEW n \in 1..Len(len)
      PROVE  /\ Through(len, n - 1) \in Seq(Payload)
             /\ Through(len, n) = IF len[n] > 0
                                  THEN Append(Through(len, n - 1), [value |-> n, len |-> len[n]])
                                  ELSE Through(len, n - 1)
    <2> DEFINE x == [value |-> n, len |-> len[n]]
    <2>1. \A k \in 1..n : [value |-> k, len |-> len[k]] \in Payload
        BY DEF Payload
    <2>2. s(n - 1) \in Seq(Payload) /\ Len(s(n - 1)) = n - 1 /\ x \in Payload
        <3>1. n - 1 \in Nat
            OBVIOUS
        <3>2. s(n - 1) \in [1..(n - 1) -> Payload]
            BY <2>1
        <3> QED
            BY <2>1, <3>1, <3>2
    <2>3. s(n) = Append(s(n - 1), x)
        OBVIOUS
    <2>4. PICK r, y, K, L : /\ r = s(n - 1) /\ y = x
                            /\ K = P(n - 1) /\ L = P(n)
        OBVIOUS
    <2>5. r \in Seq(Payload) /\ y \in Payload /\ \A k \in 1..Len(r) : k \in K <=> k \in L
        BY <2>2, <2>4
    <2>6. /\ Kept(r, K) \in Seq(Payload)
          /\ Kept(Append(r, y), L) =
               IF Len(r) + 1 \in L THEN Append(Kept(r, K), y) ELSE Kept(r, K)
        <3> HIDE DEF s, P, x
        <3> QED
            BY <2>5, KeptAppend
    <2>7. Len(r) + 1 \in L <=> len[n] > 0
        BY <2>2, <2>4
    <2> QED
        BY <2>3, <2>4, <2>6, <2>7 DEF Through
<1>4. \A n \in 0..Len(len) : Through(len, n) \in Seq(Payload)
    <2> SUFFICES ASSUME NEW n \in 0..Len(len) PROVE Through(len, n) \in Seq(Payload)
        OBVIOUS
    <2>1. CASE n = 0
        <3>1. <<>> \in Seq(Payload)
            OBVIOUS
        <3> QED
            BY <1>2, <2>1, <3>1, Zenon
    <2>2. CASE n # 0
        <3>1. n \in 1..Len(len) /\ len[n] \in Nat
            BY <2>2
        <3>2. [value |-> n, len |-> len[n]] \in Payload
            BY <3>1 DEF Payload
        <3>3. Append(Through(len, n - 1), [value |-> n, len |-> len[n]]) \in Seq(Payload)
            BY <1>3, <3>1, <3>2, AppendProperties
        <3> QED
            BY <1>3, <3>1, <3>3
    <2> QED
        BY <2>1, <2>2
<1> QED
    BY <1>2, <1>3, <1>4

Carried == Payload \cup Message
Item(m) == [value |-> m.value, len |-> m.len]
One(m)  == IF m.value = 0 THEN <<>> ELSE <<Item(m)>>

\* The values of a queue, without the errors, and how many errors it holds.
Vals(q) == Kept([i \in 1..Len(q) |-> Item(q[i])], {i \in 1..Len(q) : q[i].value # 0})
Errs(q) == Len(q) - Len(Vals(q))

LEMMA CarriedFacts ==
    ASSUME NEW m \in Carried
    PROVE  Item(m) \in Payload /\ One(m) \in Seq(Payload)
<1>1. Item(m) \in Payload
    BY DEF Carried, Payload, Message, Item
<1> QED
    BY <1>1 DEF One

LEMMA ValsAppend ==
    ASSUME NEW q \in Seq(Carried), NEW m \in Carried
    PROVE  /\ Vals(q) \in Seq(Payload)
           /\ Vals(Append(q, m)) = Vals(q) \o One(m)
<1> DEFINE s(u) == [i \in 1..Len(u) |-> Item(u[i])]
           P(u) == {i \in 1..Len(u) : u[i].value # 0}
           t == Append(q, m)
<1>1. /\ s(q) \in Seq(Payload) /\ Len(s(q)) = Len(q) /\ Item(m) \in Payload
      /\ Len(q) \in Nat
    <2>1. \A i \in 1..Len(q) : Item(q[i]) \in Payload
        BY CarriedFacts
    <2>2. Len(q) \in Nat
        OBVIOUS
    <2>3. s(q) \in [1..Len(q) -> Payload]
        BY <2>1
    <2> QED
        BY <2>1, <2>2, <2>3, CarriedFacts
<1>2. /\ Len(t) = Len(q) + 1 /\ t[Len(q) + 1] = m
      /\ \A i \in 1..Len(q) : t[i] = q[i]
    OBVIOUS
<1>3. s(t) = Append(s(q), Item(m))
    <2> HIDE DEF t
    <2> QED
        BY <1>1, <1>2
<1>4. PICK r, y, K, L : r = s(q) /\ y = Item(m) /\ K = P(q) /\ L = P(t)
    OBVIOUS
<1>5. r \in Seq(Payload) /\ y \in Payload /\ \A i \in 1..Len(r) : i \in K <=> i \in L
    <2> HIDE DEF t
    <2> QED
        BY <1>1, <1>2, <1>4
<1>6. /\ Kept(r, K) \in Seq(Payload)
      /\ Kept(Append(r, y), L) = IF Len(r) + 1 \in L THEN Append(Kept(r, K), y) ELSE Kept(r, K)
    BY <1>5, KeptAppend
<1>7. Len(r) + 1 \in L <=> m.value # 0
    <2> HIDE DEF t
    <2> QED
        BY <1>1, <1>2, <1>4
<1>8. Vals(q) = Kept(r, K) /\ Vals(t) = Kept(Append(r, y), L)
    BY <1>3, <1>4 DEF Vals
<1>9. Vals(t) = IF m.value # 0 THEN Append(Vals(q), Item(m)) ELSE Vals(q)
    <2> HIDE DEF s, P, t
    <2> QED
        BY <1>4, <1>6, <1>7, <1>8
<1>10. \A v \in Seq(Payload) : v \o <<>> = v /\ Append(v, Item(m)) = v \o <<Item(m)>>
    BY <1>1, ConcatEmptySeq, AppendIsConcat
<1> QED
    <2> HIDE DEF s, P, t
    <2>1. Vals(q) \in Seq(Payload)
        BY <1>6, <1>8
    <2>2. Vals(t) = Vals(q) \o One(m)
        BY <1>9, <1>10, <2>1 DEF One
    <2> QED
        BY <2>1, <2>2 DEF t

LEMMA ValsEmpty == Vals(<<>>) = <<>> /\ Errs(<<>>) = 0
<1> DEFINE q == <<>>
<1>1. [i \in 1..Len(q) |-> Item(q[i])] = <<>> /\ Len(q) = 0
    OBVIOUS
<1>2. Vals(q) = <<>>
    BY <1>1, KeptEmpty DEF Vals
<1> QED
    BY <1>1, <1>2 DEF Errs

LEMMA OneLong ==
    ASSUME NEW u \in Seq(Carried), Len(u) = 1
    PROVE  /\ Head(u) \in Carried /\ Tail(u) = <<>> /\ u = Append(<<>>, Head(u))
           /\ <<>> \in Seq(Carried)
<1>1. u # <<>> /\ Head(u) = u[1] /\ u[1] \in Carried
    OBVIOUS
<1>2. Tail(u) \in Seq(Carried) /\ Len(Tail(u)) = 0
    BY <1>1, HeadTailProperties
<1>3. <<>> \in Seq(Carried)
    OBVIOUS
<1>4. Append(<<>>, u[1]) = u
    <2>1. /\ Append(<<>>, u[1]) \in Seq(Carried) /\ Len(Append(<<>>, u[1])) = 1
          /\ Append(<<>>, u[1])[1] = u[1]
        BY <1>1, <1>3, AppendProperties
    <2> QED
        BY <2>1, SeqEqual
<1>5. Tail(u) = <<>>
    BY <1>2, EmptySeq
<1>6. Head(u) \in Carried
    BY <1>1, Zenon
<1>7. u = Append(<<>>, Head(u))
    BY <1>1, <1>4, Zenon
<1> QED
    BY <1>3, <1>5, <1>6, <1>7, Zenon

LEMMA ValsHead ==
    ASSUME NEW q \in Seq(Carried), q # <<>>
    PROVE  /\ Head(q) \in Carried /\ Tail(q) \in Seq(Carried)
           /\ Vals(q) = One(Head(q)) \o Vals(Tail(q))
<1> DEFINE Splits(u) == Vals(u) = One(Head(u)) \o Vals(Tail(u))
           S == {n \in Nat : \A u \in Seq(Carried) : Len(u) = n + 1 => Splits(u)}
<1>1. 0 \in S
    <2> SUFFICES ASSUME NEW u \in Seq(Carried), Len(u) = 1 PROVE Splits(u)
        OBVIOUS
    <2>1. /\ Head(u) \in Carried /\ Tail(u) = <<>> /\ u = Append(<<>>, Head(u))
          /\ <<>> \in Seq(Carried)
        BY OneLong, Zenon
    <2>2. Vals(u) = <<>> \o One(Head(u))
        BY <2>1, ValsAppend, ValsEmpty
    <2> QED
        <3>1. /\ One(Head(u)) \in Seq(Payload)
              /\ Vals(u) = <<>> \o One(Head(u)) /\ Vals(Tail(u)) = <<>>
            BY <2>1, <2>2, ValsEmpty, CarriedFacts
        <3>2. PICK o : o = One(Head(u))
            OBVIOUS
        <3>3. <<>> \o o = o \o <<>>
            BY <3>1, <3>2
        <3> QED
            BY <3>1, <3>2, <3>3
<1>2. ASSUME NEW n \in S PROVE n + 1 \in S
    <2> SUFFICES ASSUME NEW u \in Seq(Carried), Len(u) = (n + 1) + 1 PROVE Splits(u)
        OBVIOUS
    <2>1. PICK w, m : /\ w = SubSeq(u, 1, n + 1) /\ m = u[n + 2]
        OBVIOUS
    <2>2. /\ w \in Seq(Carried) /\ m \in Carried /\ Len(w) = n + 1 /\ u = Append(w, m)
        BY <2>1
    <2>3. /\ w # <<>> /\ Head(w) \in Carried /\ Tail(w) \in Seq(Carried)
          /\ Head(u) = Head(w) /\ Tail(u) = Append(Tail(w), m)
        BY <2>2
    <2>4. Splits(w)
        BY <2>2
    <2>5. Vals(u) = Vals(w) \o One(m) /\ Vals(Tail(u)) = Vals(Tail(w)) \o One(m)
        BY <2>2, <2>3, ValsAppend
    <2>6. /\ One(Head(w)) \in Seq(Payload) /\ Vals(Tail(w)) \in Seq(Payload)
          /\ One(m) \in Seq(Payload)
        BY <2>2, <2>3, ValsAppend, CarriedFacts
    <2>7. (One(Head(w)) \o Vals(Tail(w))) \o One(m) = One(Head(w)) \o (Vals(Tail(w)) \o One(m))
        <3>1. ASSUME NEW a \in Seq(Payload), NEW b \in Seq(Payload), NEW c \in Seq(Payload)
              PROVE  (a \o b) \o c = a \o (b \o c)
            BY ConcatAssociative, SMTT(30)
        <3> QED
            BY <2>6, <3>1, Zenon
    <2> QED
        BY <2>3, <2>4, <2>5, <2>7
<1>3. S = Nat
    <2> HIDE DEF S
    <2>1. S \subseteq Nat
        BY DEF S
    <2> QED
        BY <1>1, <1>2, <2>1, Induction
<1>4. Len(q) - 1 \in Nat /\ Len(q) = (Len(q) - 1) + 1
    OBVIOUS
<1>5. Splits(q)
    BY <1>3, <1>4
<1> QED
    BY <1>5

-----------------------------------------------------------------------------
(***************************************************************************)
(* Types.                                                                  *)
(***************************************************************************)
\* A record is what its fields are.
ClientOK ==
    /\ DOMAIN client = {"in", "out", "taken", "eof", "outputDone", "outDoneC", "hold", "yielded",
                        "reported", "cancelled", "failed"}
    /\ client.in \in {"off", "select", "send", "done"}
    /\ client.out \in {"open", "recv", "yield", "wait", "ret"}
    /\ client.taken \in 0..Len(InLen) /\ client.reported \in Nat
    /\ client.hold \in Seq(Payload) /\ client.yielded \in Seq(Payload)

StreamOK ==
    /\ DOMAIN stream = {"up", "down", "upQ", "downQ", "sendClosed", "status"}
    /\ stream.up \in Seq(Message) /\ stream.upQ \in Seq(Message)
    /\ stream.down \in Seq(Message) /\ stream.downQ \in Seq(Message)
    /\ stream.status \in {"open", "ok", "canceled", "lost"}

ServerOK ==
    /\ DOMAIN server = {"run", "in", "hold", "inputSet", "wg", "open", "nilC"}
    /\ server.run \in {"off", "start", "sync", "select", "send", "ret"}
    /\ server.in \in {"off", "init", "barrier", "recv", "forward", "done"}
    /\ server.hold \in Seq(Payload) /\ server.wg \in Int
    /\ server.nilC \in SUBSET {"errC", "outputC"}

WorkerOK ==
    /\ DOMAIN worker = {"pc", "fed", "made", "raised", "offer", "closed"}
    /\ worker.pc \in {"off", "init", "barrier", "run", "exit", "done"}
    /\ worker.fed \in Seq(Payload) /\ worker.made \in 0..Len(OutLen) /\ worker.raised \in Nat
    /\ worker.offer \in {"none", "value", "error"}
    /\ worker.offer = "value" => worker.made >= 1

TypeOK == ClientOK /\ StreamOK /\ ServerOK /\ WorkerOK

\* RunLoop.Send gives at most one message, whole.
LEMMA SendFacts ==
    ASSUME NEW k \in Nat, NEW n \in Nat
    PROVE  /\ Send(k, n) \in Seq(Message)
           /\ Send(k, n) = IF n > 0 THEN <<Msg(k, n, TRUE)>> ELSE <<>>
           /\ Msg(k, n, TRUE) \in Message
<1>1. Msg(k, n, TRUE) \in Message
    BY DEF Msg, Message
<1>2. ~(0 >= Lim)
    BY StreamBounds
<1>3. Send(k, n) = IF n > 0 THEN <<Msg(k, n, TRUE)>> ELSE <<>>
    BY <1>2 DEF Send
<1>4. \A m \in Message : <<m>> \in Seq(Message) /\ <<>> \in Seq(Message)
    OBVIOUS
<1>5. <<Msg(k, n, TRUE)>> \in Seq(Message) /\ <<>> \in Seq(Message)
    BY <1>1, <1>4, Zenon
<1> QED
    BY <1>1, <1>3, <1>5, Zenon

LEMMA RecvFacts ==
    ASSUME NEW m \in Message
    PROVE  /\ Recv(m) = <<Item(m)>> /\ Recv(m) \in Seq(Payload) /\ Recv(m) # <<>>
           /\ m \in Carried /\ Item(m) \in Payload
<1>1. Item(m) \in Payload /\ m.whole
    BY DEF Item, Message, Payload
<1> QED
    BY <1>1 DEF Recv, Item, Carried

LEMMA Lengths ==
    /\ Len(InLen) \in Nat /\ \A k \in 1..Len(InLen) : InLen[k] \in Nat
    /\ Len(OutLen) \in Nat /\ \A k \in 1..Len(OutLen) : OutLen[k] \in Nat
BY StreamBounds

LEMMA QueueFacts ==
    /\ \A q \in Seq(Message) : q # <<>> =>
         Head(q) \in Message /\ Tail(q) \in Seq(Message)
    /\ \A q \in Seq(Message), m \in Message : Append(q, m) \in Seq(Message)
    /\ \A p, q \in Seq(Payload) : p \o q \in Seq(Payload)
BY AppendProperties

LEMMA ClientTypeStep == TypeOK /\ [Next]_vars => ClientOK'
<1> SUFFICES ASSUME TypeOK, [Next]_vars PROVE ClientOK'
    OBVIOUS
<1>0. ClientOK /\ StreamOK
    BY DEF TypeOK
<1> USE DEF ClientOK
<1>1. CASE Refused
    BY <1>0, <1>1 DEF Refused
<1>2. CASE Run
    BY <1>0, <1>2 DEF Run
<1>3. CASE ContextDone \/ InputClosed
    <2>1. \E e : client' = [client EXCEPT !.in = "done", !.eof = e]
        BY <1>3, Zenon DEF ContextDone, InputClosed, EndInput
    <2> QED
        BY <1>0, <2>1
<1>4. CASE SeeOutputDone
    BY <1>0, <1>4 DEF SeeOutputDone
<1>5. CASE TakeInput
    <2>1. PICK k : k = client.taken + 1
        OBVIOUS
    <2>2. client.taken \in 0..Len(InLen) /\ k <= Len(InLen)
        BY <1>0, <1>5, <2>1 DEF TakeInput
    <2>3. k \in 0..Len(InLen)
        BY <2>1, <2>2, Lengths
    <2>4. client' = [client EXCEPT !.taken = k, !.in = IF client.outputDone THEN @ ELSE "send"]
        BY <1>5, <2>1 DEF TakeInput
    <2> QED
        BY <1>0, <2>3, <2>4
<1>6. CASE SendUp
    <2>1. client' = [client EXCEPT !.in = "select"] \/ client' = client
        BY <1>6, Zenon DEF SendUp
    <2> QED
        BY <1>0, <2>1
<1>7. CASE ClientRecv
    <2>1. PICK m : m = Head(stream.down)
        OBVIOUS
    <2>2. m \in Message
        BY <1>0, <1>7, <2>1, QueueFacts DEF ClientRecv, StreamOK
    <2>3. PICK w : w = Recv(m)
        OBVIOUS
    <2>4. w \in Seq(Payload)
        BY <2>2, <2>3, RecvFacts
    <2>5. client' = [client EXCEPT !.hold = w, !.out = IF w = <<>> THEN @ ELSE "yield"]
        BY <1>7, <2>1, <2>3, Zenon DEF ClientRecv
    <2> QED
        BY <1>0, <2>4, <2>5
<1>8. CASE Yield
    <2>1. PICK y : y = client.yielded \o client.hold
        OBVIOUS
    <2>2. y \in Seq(Payload)
        BY <1>0, <2>1, QueueFacts
    <2>3. \/ client' = [client EXCEPT !.out = "recv", !.reported = @ + 1]
          \/ client' = [client EXCEPT !.out = "recv", !.yielded = y]
        BY <1>8, <2>1, Zenon DEF Yield
    <2>4. CASE client' = [client EXCEPT !.out = "recv", !.reported = @ + 1]
        BY <1>0, <2>4
    <2>5. CASE client' = [client EXCEPT !.out = "recv", !.yielded = y]
        BY <1>0, <2>2, <2>5
    <2> QED
        BY <2>3, <2>4, <2>5
<1>9. CASE YieldRefused \/ StreamEnded
    <2>1. \E e : client' = [client EXCEPT !.outDoneC = TRUE, !.out = "wait", !.failed = e]
        BY <1>9, Zenon DEF YieldRefused, StreamEnded, EndOutput
    <2> QED
        BY <1>0, <2>1
<1>10. CASE Return
    BY <1>0, <1>10 DEF Return
<1>11. CASE Cancel
    BY <1>0, <1>11 DEF Cancel
<1>12. CASE ServerIn \/ ServerRun \/ WorkerRun \/ Crash \/ UNCHANGED vars
    <2>1. UNCHANGED client
        BY <1>12, Zenon DEF ServerIn, ServerRun, WorkerRun, Crash, vars, SetInput, InputPass,
                            ServerRecv, InputEnds, Serve, Synchronize, Select, SendDown, ServeEnds,
                            ServeAborts, EndStream, SelectClosed, WorkerInitialized, WorkerPass,
                            WorkerReads, WorkerSends, WorkerReturns
    <2> QED
        BY <1>0, <2>1
<1> QED
    BY <1>1, <1>2, <1>3, <1>4, <1>5, <1>6, <1>7, <1>8, <1>9, <1>10, <1>11, <1>12
       DEF Next, Over, Step, ClientIn, ClientRun

LEMMA StreamTypeStep == TypeOK /\ [Next]_vars => StreamOK'
<1> SUFFICES ASSUME TypeOK, [Next]_vars PROVE StreamOK'
    OBVIOUS
<1>0. StreamOK
    BY DEF TypeOK
<1> USE DEF StreamOK
<1>1. CASE ContextDone \/ InputClosed
    <2>1. stream' = [stream EXCEPT !.sendClosed = TRUE]
        BY <1>1, Zenon DEF ContextDone, InputClosed, EndInput
    <2> QED
        BY <1>0, <2>1
<1>2. CASE TakeInput
    <2>1. PICK k : k = client.taken + 1
        OBVIOUS
    <2>2. client.taken \in 0..Len(InLen) /\ k <= Len(InLen)
        BY <1>2, <2>1 DEF TakeInput, TypeOK, ClientOK
    <2>3. k \in 1..Len(InLen) /\ k \in Nat
        BY <2>1, <2>2, Lengths
    <2>4. InLen[k] \in Nat
        BY <2>3, Lengths
    <2>5. PICK q : q = Send(k, InLen[k])
        OBVIOUS
    <2>6. q \in Seq(Message)
        BY <2>3, <2>4, <2>5, SendFacts, Zenon
    <2>7. stream' = [stream EXCEPT !.upQ = IF client.outputDone THEN @ ELSE q]
        BY <1>2, <2>1, <2>5 DEF TakeInput
    <2> QED
        BY <1>0, <2>6, <2>7
<1>3. CASE SendUp
    <2>1. CASE stream.upQ = <<>> \/ stream.status # "open"
        <3>1. stream' = [stream EXCEPT !.upQ = <<>>] /\ <<>> \in Seq(Message)
            BY <1>3, <2>1 DEF SendUp
        <3> QED
            BY <1>0, <3>1
    <2>2. CASE ~(stream.upQ = <<>> \/ stream.status # "open")
        <3>1. stream' = [stream EXCEPT !.up = Append(@, Head(stream.upQ)), !.upQ = Tail(@)]
            BY <1>3, <2>2 DEF SendUp
        <3> QED
            BY <1>0, <2>2, <3>1, QueueFacts
    <2> QED
        BY <2>1, <2>2
<1>4. CASE ClientRecv
    <2>1. stream' = [stream EXCEPT !.down = Tail(@)] /\ stream.down # <<>>
        BY <1>4 DEF ClientRecv
    <2> QED
        BY <1>0, <2>1, QueueFacts
<1>5. CASE Select
    <2>1. PICK e : e = Msg(0, 0, TRUE)
        OBVIOUS
    <2>2. e \in Message
        BY <2>1, SendFacts, Zenon
    <2>3. PICK q : q = IF worker.offer = "error" THEN <<e>>
                       ELSE Send(worker.made, OutLen[worker.made])
        OBVIOUS
    <2>4. stream' = [stream EXCEPT !.downQ = q]
        BY <1>5, <2>1, <2>3, Zenon DEF Select
    <2>5. q \in Seq(Message)
        <3>1. CASE worker.offer = "error"
            BY <2>2, <2>3, <3>1
        <3>2. CASE worker.offer # "error"
            <4>1. PICK k : k = worker.made
                OBVIOUS
            <4>2. k \in 0..Len(OutLen) /\ k >= 1
                BY <1>5, <3>2, <4>1 DEF Select, TypeOK, WorkerOK
            <4>3. k \in Nat /\ k \in 1..Len(OutLen)
                BY <4>2, Lengths
            <4>4. OutLen[k] \in Nat
                BY <4>3, Lengths
            <4>5. q = Send(k, OutLen[k])
                BY <2>3, <3>2, <4>1
            <4> QED
                BY <4>3, <4>4, <4>5, SendFacts, Zenon
        <3> QED
            BY <3>1, <3>2
    <2> QED
        BY <1>0, <2>4, <2>5
<1>6. CASE SendDown
    <2>1. CASE stream.downQ = <<>>
        <3>1. stream' = stream
            BY <1>6, <2>1 DEF SendDown
        <3> QED
            BY <1>0, <3>1
    <2>2. CASE stream.downQ # <<>>
        <3>1. stream' = [stream EXCEPT !.down = Append(@, Head(stream.downQ)), !.downQ = Tail(@)]
            BY <1>6, <2>2 DEF SendDown
        <3> QED
            BY <1>0, <2>2, <3>1, QueueFacts
    <2> QED
        BY <2>1, <2>2
<1>7. CASE ServeEnds \/ ServeAborts
    <2>1. \E how \in {"ok", "canceled"} :
             stream' = [stream EXCEPT !.status = IF @ = "open" THEN how ELSE @]
        BY <1>7 DEF ServeEnds, ServeAborts, EndStream
    <2> QED
        BY <1>0, <2>1
<1>8. CASE ServerRecv
    <2>1. stream' = [stream EXCEPT !.up = Tail(@)] /\ stream.up # <<>>
        BY <1>8 DEF ServerRecv
    <2> QED
        BY <1>0, <2>1, QueueFacts
<1>9. CASE Cancel \/ Crash
    <2>1. \E how \in {"canceled", "lost"} : stream' = [stream EXCEPT !.status = how]
        BY <1>9, Zenon DEF Cancel, Crash
    <2> QED
        BY <1>0, <2>1
<1>10. CASE \/ Refused \/ Run \/ SeeOutputDone \/ Yield \/ YieldRefused \/ StreamEnded \/ Return
            \/ Serve \/ Synchronize \/ \E c \in {"errC", "outputC"} : SelectClosed(c)
            \/ SetInput \/ InputPass \/ InputEnds \/ WorkerRun \/ UNCHANGED vars
    <2>1. UNCHANGED stream
        BY <1>10, Zenon DEF Refused, Run, SeeOutputDone, Yield, YieldRefused, StreamEnded, EndOutput,
                            Return, Serve, Synchronize, SelectClosed, SetInput, InputPass, InputEnds,
                            WorkerRun, WorkerInitialized, WorkerPass, WorkerReads, WorkerSends,
                            WorkerReturns, vars
    <2> QED
        BY <1>0, <2>1
<1> QED
    BY <1>1, <1>2, <1>3, <1>4, <1>5, <1>6, <1>7, <1>8, <1>9, <1>10
       DEF Next, Over, Step, ClientIn, ClientRun, ServerIn, ServerRun

LEMMA ServerTypeStep == TypeOK /\ [Next]_vars => ServerOK'
<1> SUFFICES ASSUME TypeOK, [Next]_vars PROVE ServerOK'
    OBVIOUS
<1>0. ServerOK
    BY DEF TypeOK
<1> USE DEF ServerOK
<1>1. CASE Run
    BY <1>0, <1>1 DEF Run
<1>2. CASE Serve
    BY <1>0, <1>2 DEF Serve
<1>3. CASE Synchronize
    BY <1>0, <1>3 DEF Synchronize
<1>4. CASE Select
    <2>1. server' = [server EXCEPT !.run = "send"]
        BY <1>4 DEF Select
    <2> QED
        BY <1>0, <2>1
<1>5. CASE \E c \in {"errC", "outputC"} : SelectClosed(c)
    BY <1>0, <1>5 DEF SelectClosed
<1>6. CASE SendDown
    <2>1. server' = [server EXCEPT !.run = "select"] \/ server' = server
        BY <1>6, Zenon DEF SendDown
    <2> QED
        BY <1>0, <2>1
<1>7. CASE ServeEnds \/ ServeAborts
    <2>1. server' = [server EXCEPT !.run = "ret"]
        BY <1>7, Zenon DEF ServeEnds, ServeAborts, EndStream
    <2> QED
        BY <1>0, <2>1
<1>8. CASE SetInput
    BY <1>0, <1>8 DEF SetInput
<1>9. CASE InputPass
    BY <1>0, <1>9 DEF InputPass
<1>10. CASE ServerRecv
    <2>1. PICK m : m = Head(stream.up)
        OBVIOUS
    <2>2. m \in Message
        BY <1>10, <2>1, QueueFacts DEF ServerRecv, TypeOK, StreamOK
    <2>3. PICK w : w = Recv(m)
        OBVIOUS
    <2>4. w \in Seq(Payload)
        BY <2>2, <2>3, RecvFacts
    <2>5. server' = [server EXCEPT !.hold = w, !.in = IF w = <<>> THEN @ ELSE "forward"]
        BY <1>10, <2>1, <2>3, Zenon DEF ServerRecv
    <2> QED
        BY <1>0, <2>4, <2>5
<1>11. CASE InputEnds
    BY <1>0, <1>11 DEF InputEnds
<1>12. CASE WorkerInitialized
    BY <1>0, <1>12 DEF WorkerInitialized
<1>13. CASE WorkerReads
    <2>1. server' = [server EXCEPT !.in = "recv"]
        BY <1>13 DEF WorkerReads
    <2> QED
        BY <1>0, <2>1
<1>14. CASE \/ Refused \/ ClientIn \/ ClientRecv \/ Yield \/ YieldRefused \/ StreamEnded \/ Return
            \/ WorkerPass \/ WorkerSends \/ WorkerReturns \/ Cancel \/ Crash \/ UNCHANGED vars
    <2>1. UNCHANGED server
        BY <1>14, Zenon DEF Refused, ClientIn, ContextDone, InputClosed, EndInput, SeeOutputDone,
                            TakeInput, SendUp, ClientRecv, Yield, YieldRefused, StreamEnded, EndOutput,
                            Return, WorkerPass, WorkerSends, WorkerReturns, Cancel, Crash, vars
    <2> QED
        BY <1>0, <2>1
<1> QED
    BY <1>1, <1>2, <1>3, <1>4, <1>5, <1>6, <1>7, <1>8, <1>9, <1>10, <1>11, <1>12, <1>13, <1>14
       DEF Next, Over, Step, ClientRun, ServerIn, ServerRun, WorkerRun

LEMMA WorkerTypeStep == TypeOK /\ [Next]_vars => WorkerOK'
<1> SUFFICES ASSUME TypeOK, [Next]_vars PROVE WorkerOK'
    OBVIOUS
<1>0. WorkerOK
    BY DEF TypeOK
<1> USE DEF WorkerOK
<1>1. CASE Serve
    BY <1>0, <1>1 DEF Serve
<1>2. CASE Select
    <2>1. worker' = [worker EXCEPT !.offer = "none"]
        BY <1>2 DEF Select
    <2> QED
        BY <1>0, <2>1
<1>3. CASE WorkerInitialized
    BY <1>0, <1>3 DEF WorkerInitialized
<1>4. CASE WorkerPass
    BY <1>0, <1>4 DEF WorkerPass
<1>5. CASE WorkerReads
    <2>1. worker' = [worker EXCEPT !.fed = @ \o server.hold] /\ server.hold \in Seq(Payload)
        BY <1>5 DEF WorkerReads, TypeOK, ServerOK
    <2> QED
        BY <1>0, <2>1, QueueFacts
<1>6. CASE WorkerSends
    <2>1. CASE worker.made < Len(OutLen)
               /\ worker' = [worker EXCEPT !.made = @ + 1, !.offer = "value"]
        BY <1>0, <2>1, Lengths
    <2>2. CASE worker' = [worker EXCEPT !.raised = @ + 1, !.offer = "error"]
        BY <1>0, <2>2
    <2> QED
        BY <1>6, <2>1, <2>2 DEF WorkerSends
<1>7. CASE WorkerReturns
    BY <1>0, <1>7 DEF WorkerReturns
<1>8. CASE \/ ClientIn \/ ClientRun \/ Synchronize \/ SendDown \/ ServeEnds \/ ServeAborts \/ ServerIn
           \/ \E c \in {"errC", "outputC"} : SelectClosed(c)
           \/ Cancel \/ Crash \/ UNCHANGED vars
    <2>1. UNCHANGED worker
        BY <1>8, Zenon DEF ClientIn, ContextDone, InputClosed, EndInput, SeeOutputDone, TakeInput,
                           SendUp, ClientRun, Refused, Run, ClientRecv, Yield, YieldRefused,
                           StreamEnded, EndOutput, Return, Synchronize, SendDown, ServeEnds,
                           ServeAborts, EndStream, ServerIn, SetInput, InputPass, ServerRecv,
                           InputEnds, SelectClosed, Cancel, Crash, vars
    <2> QED
        BY <1>0, <2>1
<1> QED
    BY <1>1, <1>2, <1>3, <1>4, <1>5, <1>6, <1>7, <1>8 DEF Next, Over, Step, ServerRun, WorkerRun

LEMMA TypeStep == TypeOK /\ [Next]_vars => TypeOK'
BY ClientTypeStep, StreamTypeStep, ServerTypeStep, WorkerTypeStep DEF TypeOK

\* The barrier: what it counts, and who has passed it.
Gate ==
    /\ server.run \in {"off", "start"} =>
         server.in = "off" /\ worker.pc = "off" /\ server.wg = 0 /\ ~server.open
    /\ server.run \notin {"off", "start"} => server.in # "off" /\ worker.pc # "off"
    /\ server.wg = (IF server.in = "init" THEN 1 ELSE 0) + (IF worker.pc = "init" THEN 1 ELSE 0)
    /\ server.in \notin {"off", "init"} => server.inputSet
    /\ server.open => server.in # "init" /\ worker.pc # "init"
    /\ worker.pc \in {"run", "exit", "done"} => server.open

\* The two goroutines of the client: when the one waits for the other.
Ends ==
    /\ client.in = "off" <=> server.run = "off"
    /\ server.run = "off" => client.out \in {"open", "ret"} /\ ~client.cancelled
    /\ client.out = "open" <=> server.run = "off" /\ ~client.failed
    /\ client.out = "ret" => client.in \in {"off", "done"}
    /\ client.in \in {"off", "select", "send"} => client.eof = FALSE
    /\ client.in = "done" => client.eof \/ client.cancelled
    /\ client.in # "send" => stream.upQ = <<>>
    /\ client.in = "send" => ~client.outputDone

\* A stream the server ended well has nothing to come.
Closed ==
    /\ server.run \notin {"send", "ret"} => stream.downQ = <<>>
    /\ worker.pc \notin {"run", "exit"} => worker.offer = "none"
    /\ "errC" \in server.nilC => worker.pc = "done"
    /\ stream.status = "canceled" => client.cancelled
    /\ stream.status = "ok" => /\ worker.pc = "done" /\ stream.downQ = <<>>
                               /\ server.run = "ret"
    /\ stream.status = "open" => ~client.cancelled
    /\ server.run = "ret" => stream.status # "open"

Control == Gate /\ Ends /\ Closed

LEMMA ControlStep == TypeOK /\ Control /\ [Next]_vars => Control'
<1> SUFFICES ASSUME TypeOK, Control, [Next]_vars PROVE Control'
    OBVIOUS
<1> USE DEF TypeOK, ClientOK, StreamOK, ServerOK, WorkerOK, Control, Gate, Ends, Closed
<1>1. CASE Refused
    BY <1>1 DEF Refused
<1>2. CASE Run
    BY <1>2 DEF Run
<1>3. CASE ContextDone \/ InputClosed
    <2>1. CASE ContextDone
        BY <2>1 DEF ContextDone, EndInput
    <2>2. CASE InputClosed
        BY <2>2 DEF InputClosed, EndInput
    <2> QED
        BY <1>3, <2>1, <2>2
<1>4. CASE SeeOutputDone
    <2>1. /\ client.in = "select" /\ client' = [client EXCEPT !.outputDone = TRUE]
          /\ UNCHANGED <<stream, server, worker>>
        BY <1>4 DEF SeeOutputDone
    <2>2. Gate'
        BY <2>1
    <2>3. Ends'
        BY <2>1
    <2>4. Closed'
        BY <2>1
    <2> QED
        BY <2>2, <2>3, <2>4
<1>5. CASE TakeInput
    BY <1>5 DEF TakeInput
<1>6. CASE SendUp
    <2>1. CASE stream.upQ = <<>> \/ stream.status # "open"
        <3>1. /\ stream' = [stream EXCEPT !.upQ = <<>>]
              /\ client' = [client EXCEPT !.in = "select"]
              /\ client.in = "send" /\ UNCHANGED <<server, worker>>
            BY <1>6, <2>1 DEF SendUp
        <3> QED
            BY <3>1
    <2>2. CASE ~(stream.upQ = <<>> \/ stream.status # "open")
        <3>1. /\ stream' = [stream EXCEPT !.up = Append(@, Head(stream.upQ)), !.upQ = Tail(@)]
              /\ client.in = "send" /\ UNCHANGED <<client, server, worker>>
            BY <1>6, <2>2 DEF SendUp
        <3>2. Gate' /\ Closed'
            BY <3>1
        <3>3. Ends'
            BY <3>1
        <3> QED
            BY <3>2, <3>3
    <2> QED
        BY <2>1, <2>2
<1>7. CASE ClientRecv
    BY <1>7 DEF ClientRecv
<1>8. CASE Yield
    BY <1>8 DEF Yield
<1>9. CASE YieldRefused \/ StreamEnded
    <2>1. CASE YieldRefused
        BY <2>1 DEF YieldRefused, EndOutput
    <2>2. CASE StreamEnded
        BY <2>2 DEF StreamEnded, EndOutput
    <2> QED
        BY <1>9, <2>1, <2>2
<1>10. CASE Return
    <2>1. /\ client' = [client EXCEPT !.out = "ret"] /\ client.out = "wait" /\ client.in = "done"
          /\ UNCHANGED <<stream, server, worker>>
        BY <1>10 DEF Return
    <2>2. server.run # "off"
        BY <2>1
    <2>3. Gate' /\ Closed'
        BY <2>1
    <2>4. Ends'
        BY <2>1, <2>2
    <2> QED
        BY <2>3, <2>4
<1>11. CASE Serve
    BY <1>11 DEF Serve, At, Alive
<1>12. CASE Synchronize
    <2>1. /\ server.run = "sync" /\ server.wg = 0 /\ UNCHANGED <<client, stream, worker>>
          /\ server' = [server EXCEPT !.run = "select", !.open = TRUE]
        BY <1>12 DEF Synchronize, At
    <2>2. server.in # "init" /\ worker.pc # "init"
        BY <2>1
    <2>3. stream.downQ = <<>>
        BY <2>1
    <2> QED
        BY <2>1, <2>2, <2>3
<1>13. CASE Select
    BY <1>13 DEF Select, At, Alive
<1>14. CASE \E c \in {"errC", "outputC"} : SelectClosed(c)
    <2> PICK c \in {"errC", "outputC"} : SelectClosed(c)
        BY <1>14
    <2>1. /\ server' = [server EXCEPT !.nilC = @ \cup {c}]
          /\ IF c = "errC" THEN worker.pc = "done" ELSE worker.closed
          /\ server.run = "select" /\ UNCHANGED <<client, stream, worker>>
        BY DEF SelectClosed, At
    <2>2. Gate'
        BY <2>1
    <2>3. Ends'
        BY <2>1
    <2>4. Closed'
        BY <2>1
    <2> QED
        BY <2>2, <2>3, <2>4
<1>15. CASE SendDown
    <2>1. CASE stream.downQ = <<>>
        <3>1. /\ server' = [server EXCEPT !.run = "select"] /\ server.run = "send"
              /\ UNCHANGED <<client, stream, worker>>
            BY <1>15, <2>1 DEF SendDown, At
        <3> QED
            BY <2>1, <3>1
    <2>2. CASE stream.downQ # <<>>
        <3>1. /\ stream' = [stream EXCEPT !.down = Append(@, Head(stream.downQ)), !.downQ = Tail(@)]
              /\ server.run = "send" /\ UNCHANGED <<client, server, worker>>
            BY <1>15, <2>2 DEF SendDown, At
        <3>2. Gate' /\ Closed'
            BY <3>1
        <3>3. Ends'
            BY <3>1
        <3> QED
            BY <3>2, <3>3
    <2> QED
        BY <2>1, <2>2
<1>16. CASE ServeEnds \/ ServeAborts
    <2>1. CASE ServeEnds
        <3>1. /\ server' = [server EXCEPT !.run = "ret"] /\ UNCHANGED <<client, worker>>
              /\ server.run = "select" /\ server.nilC = {"errC", "outputC"}
              /\ stream' = [stream EXCEPT !.status = IF @ = "open" THEN "ok" ELSE @]
            BY <2>1 DEF ServeEnds, EndStream, At
        <3>2. Gate' /\ Ends'
            BY <3>1
        <3>3. stream.downQ = <<>> /\ worker.pc = "done"
            BY <3>1
        <3>4. Closed'
            BY <3>1, <3>3
        <3> QED
            BY <3>2, <3>4
    <2>2. CASE ServeAborts
        <3>1. /\ server' = [server EXCEPT !.run = "ret"] /\ UNCHANGED <<client, worker>>
              /\ server.run \in {"select", "send"} /\ stream.status # "open"
              /\ stream' = [stream EXCEPT !.status = IF @ = "open" THEN "canceled" ELSE @]
            BY <2>2 DEF ServeAborts, EndStream, At, CtxDone
        <3>2. /\ stream'.status = stream.status /\ stream'.downQ = stream.downQ
              /\ stream'.upQ = stream.upQ
            BY <3>1
        <3>3. Gate'
            BY <3>1
        <3>4. Ends'
            BY <3>1, <3>2
        <3>5. Closed'
            BY <3>1, <3>2
        <3> QED
            BY <3>3, <3>4, <3>5
    <2> QED
        BY <1>16, <2>1, <2>2
<1>17. CASE SetInput
    BY <1>17 DEF SetInput
<1>18. CASE InputPass
    BY <1>18 DEF InputPass
<1>19. CASE ServerRecv
    BY <1>19 DEF ServerRecv
<1>20. CASE InputEnds
    BY <1>20 DEF InputEnds
<1>21. CASE WorkerInitialized
    BY <1>21 DEF WorkerInitialized
<1>22. CASE WorkerPass
    BY <1>22 DEF WorkerPass
<1>23. CASE WorkerReads
    <2>1. /\ worker' = [worker EXCEPT !.fed = @ \o server.hold]
          /\ server' = [server EXCEPT !.in = "recv"] /\ server.in = "forward"
          /\ worker.pc = "run" /\ UNCHANGED <<client, stream>>
        BY <1>23 DEF WorkerReads
    <2>2. Gate'
        BY <2>1
    <2>3. Ends'
        BY <2>1
    <2>4. Closed'
        BY <2>1
    <2> QED
        BY <2>2, <2>3, <2>4
<1>24. CASE WorkerSends
    <2>1. CASE worker' = [worker EXCEPT !.made = @ + 1, !.offer = "value"]
        BY <1>24, <2>1 DEF WorkerSends
    <2>2. CASE worker' = [worker EXCEPT !.raised = @ + 1, !.offer = "error"]
        BY <1>24, <2>2 DEF WorkerSends
    <2> QED
        BY <1>24, <2>1, <2>2 DEF WorkerSends
<1>25. CASE WorkerReturns
    <2>1. /\ worker.pc \in {"run", "exit"} /\ worker.offer = "none" /\ UNCHANGED <<client, stream, server>>
          /\ worker' = [worker EXCEPT !.pc = IF @ = "run" THEN "exit" ELSE "done", !.closed = TRUE]
        BY <1>25, Zenon DEF WorkerReturns
    <2>2. Gate'
        BY <2>1
    <2>3. Ends'
        BY <2>1
    <2>4. Closed'
        BY <2>1
    <2> QED
        BY <2>2, <2>3, <2>4
<1>26. CASE Cancel \/ Crash
    <2>1. CASE Cancel
        BY <2>1 DEF Cancel, Fault
    <2>2. CASE Crash
        BY <2>2 DEF Crash, Fault
    <2> QED
        BY <1>26, <2>1, <2>2
<1>27. CASE UNCHANGED vars
    BY <1>27 DEF vars
<1> QED
    BY <1>1, <1>2, <1>3, <1>4, <1>5, <1>6, <1>7, <1>8, <1>9, <1>10, <1>11, <1>12, <1>13,
       <1>14, <1>15, <1>16, <1>17, <1>18, <1>19, <1>20, <1>21, <1>22, <1>23, <1>24, <1>25,
       <1>26, <1>27
       DEF Next, Over, Step, ClientIn, ClientRun, ServerIn, ServerRun, WorkerRun

-----------------------------------------------------------------------------
(***************************************************************************)
(* What a value passes on its way: it was handed over, it is held, it is   *)
(* under way, it has still to be sent.                                     *)
(***************************************************************************)
Route(over, held, way, queue) == over \o (held \o (way \o queue))

\* The steps on the way, each of which leaves the whole as it is; the last one
\* adds a value where it enters.
Sends(a, b, c, d, e) == Route(a, b, c \o d, e) = Route(a, b, c, d \o e)
Receives(a, b, c, d) == Route(a, <<>>, b \o c, d) = Route(a, b, c, d)
Hands(a, b, c, d)    == Route(a \o b, <<>>, c, d) = Route(a, b, c, d)
Puts(a, b, c, d)     == Route(a, b, c, <<>>) \o d = Route(a, b, c, d)

LEMMA RouteType ==
    \A a, b, c, d \in Seq(Payload) : Route(a, b, c, d) \in Seq(Payload)
BY DEF Route

Joins(a, b, c) == (a \o b) \o c = a \o (b \o c)

LEMMA Joining == \A a, b, c \in Seq(Payload) : Joins(a, b, c) /\ b \o c \in Seq(Payload)
BY ConcatAssociative DEF Joins

LEMMA RoutePut ==
    \A a, b, c, d \in Seq(Payload) : Puts(a, b, c, d)
<1> SUFFICES ASSUME NEW a \in Seq(Payload), NEW b \in Seq(Payload), NEW c \in Seq(Payload),
                    NEW d \in Seq(Payload)
             PROVE  Puts(a, b, c, d)
    OBVIOUS
<1>1. c \o <<>> = c /\ b \o c \in Seq(Payload)
    BY ConcatEmptySeq
<1>2. Joins(a, b \o c, d)
    BY <1>1, Joining, Zenon
<1>3. Joins(b, c, d)
    BY Joining, Zenon
<1> QED
    BY <1>1, <1>2, <1>3, Zenon DEF Route, Puts, Joins

LEMMA RouteSend ==
    \A a, b, c, d, e \in Seq(Payload) : Sends(a, b, c, d, e)
<1> SUFFICES ASSUME NEW a \in Seq(Payload), NEW b \in Seq(Payload), NEW c \in Seq(Payload),
                    NEW d \in Seq(Payload), NEW e \in Seq(Payload)
             PROVE  Sends(a, b, c, d, e)
    OBVIOUS
<1>1. Joins(c, d, e)
    BY Joining, Zenon
<1> QED
    BY <1>1, Zenon DEF Route, Sends, Joins

LEMMA RouteReceive ==
    \A a, b, c, d \in Seq(Payload) : Receives(a, b, c, d)
<1> SUFFICES ASSUME NEW a \in Seq(Payload), NEW b \in Seq(Payload), NEW c \in Seq(Payload),
                    NEW d \in Seq(Payload)
             PROVE  Receives(a, b, c, d)
    OBVIOUS
<1>1. Joins(b, c, d) /\ (b \o c) \o d \in Seq(Payload)
    BY Joining, Zenon
<1>2. <<>> \o ((b \o c) \o d) = (b \o c) \o d
    BY <1>1, ConcatEmptySeq
<1> QED
    BY <1>1, <1>2, Zenon DEF Route, Receives, Joins

LEMMA RouteHand ==
    \A a, b, c, d \in Seq(Payload) : Hands(a, b, c, d)
<1> SUFFICES ASSUME NEW a \in Seq(Payload), NEW b \in Seq(Payload), NEW c \in Seq(Payload),
                    NEW d \in Seq(Payload)
             PROVE  Hands(a, b, c, d)
    OBVIOUS
<1>1. c \o d \in Seq(Payload)
    OBVIOUS
<1>2. <<>> \o (c \o d) = c \o d
    BY <1>1, ConcatEmptySeq
<1>3. Joins(a, b, c \o d)
    BY <1>1, Joining, Zenon
<1> QED
    BY <1>2, <1>3, Zenon DEF Route, Hands, Joins

Begins(s, t) == \E r \in Seq(Payload) : t = s \o r

LEMMA BeginsFacts ==
    /\ \A s \in Seq(Payload) : Begins(s, s)
    /\ \A s, r \in Seq(Payload) : Begins(s, s \o r) /\ IsPrefix(s, s \o r)
    /\ \A s, t, r \in Seq(Payload) : Begins(s, t) => Begins(s, t \o r)
    /\ \A s, t, r \in Seq(Payload) : Begins(s \o r, t) => Begins(s, t)
    /\ \A s, t \in Seq(Payload) : Begins(s, t) => IsPrefix(s, t)
<1>2. \A s \in Seq(Payload) : s \o <<>> = s
    BY ConcatEmptySeq
<1>3. <<>> \in Seq(Payload)
    OBVIOUS
<1>4. \A s, r \in Seq(Payload) : IsPrefix(s, s \o r)
    <2> SUFFICES ASSUME NEW s \in Seq(Payload), NEW r \in Seq(Payload) PROVE IsPrefix(s, s \o r)
        OBVIOUS
    <2>1. Len(s) <= Len(s \o r)
        OBVIOUS
    <2>2. SubSeq(s, 1, Len(s)) = SubSeq(s \o r, 1, Len(s))
        OBVIOUS
    <2> QED
        BY <2>1, <2>2 DEF IsPrefix
<1>5. \A s, r \in Seq(Payload) : Begins(s, s \o r)
    BY DEF Begins
<1>6. \A s \in Seq(Payload) : Begins(s, s)
    BY <1>2, <1>3, Zenon DEF Begins
<1>7. ASSUME NEW s \in Seq(Payload), NEW t \in Seq(Payload), NEW r \in Seq(Payload), Begins(s, t)
      PROVE  Begins(s, t \o r)
    <2>1. PICK x \in Seq(Payload) : t = s \o x
        BY <1>7, Zenon DEF Begins
    <2>2. Joins(s, x, r) /\ x \o r \in Seq(Payload)
        BY Joining, Zenon
    <2> QED
        BY <2>1, <2>2, Zenon DEF Begins, Joins
<1>8. ASSUME NEW s \in Seq(Payload), NEW t \in Seq(Payload), NEW r \in Seq(Payload), Begins(s \o r, t)
      PROVE  Begins(s, t)
    <2>1. PICK x \in Seq(Payload) : t = (s \o r) \o x
        BY <1>8, Zenon DEF Begins
    <2>2. Joins(s, r, x) /\ r \o x \in Seq(Payload)
        BY Joining, Zenon
    <2> QED
        BY <2>1, <2>2, Zenon DEF Begins, Joins
<1>9. \A s, t \in Seq(Payload) : Begins(s, t) => IsPrefix(s, t)
    BY <1>4, Zenon DEF Begins
<1> QED
    BY <1>4, <1>5, <1>6, <1>7, <1>8, <1>9, Zenon

\* A queue's values and errors, as it grows and as it is emptied.
Weight(m) == IF m.value = 0 THEN 1 ELSE 0

LEMMA QueueSteps ==
    /\ Vals(<<>>) = <<>> /\ Errs(<<>>) = 0
    /\ \A q \in Seq(Message) \cup Seq(Payload) :
         /\ q \in Seq(Carried) /\ Vals(q) \in Seq(Payload) /\ Errs(q) \in Int
    /\ \A q \in Seq(Message), m \in Message :
         /\ Vals(Append(q, m)) = Vals(q) \o One(m)
         /\ Errs(Append(q, m)) = Errs(q) + Weight(m)
    /\ \A q \in Seq(Message) : q # <<>> =>
         /\ Vals(q) = One(Head(q)) \o Vals(Tail(q))
         /\ Errs(q) = Weight(Head(q)) + Errs(Tail(q))
    /\ \A m \in Message : Vals(<<m>>) = One(m) /\ Errs(<<m>>) = Weight(m)
    /\ \A p \in Payload :
         /\ Vals(<<p>>) = IF p.value = 0 THEN <<>> ELSE <<p>>
         /\ Errs(<<p>>) = Weight(p)
<1>1. \A q \in Seq(Message) \cup Seq(Payload) : q \in Seq(Carried)
    BY DEF Carried
<1>2. \A m \in Message \cup Payload : m \in Carried /\ One(m) \in Seq(Payload)
    BY CarriedFacts DEF Carried
<1>3. \A m : Len(One(m)) = 1 - Weight(m) /\ Weight(m) \in Int
    BY DEF One, Weight
<1>4. ASSUME NEW q \in Seq(Carried) PROVE Vals(q) \in Seq(Payload) /\ Errs(q) \in Int
    <2>1. PICK m : m \in Carried /\ m = [value |-> 0, len |-> 0]
        BY DEF Carried, Payload
    <2>2. Vals(q) \in Seq(Payload)
        BY <2>1, ValsAppend, Zenon
    <2>3. Len(Vals(q)) \in Int /\ Len(q) \in Int
        BY <2>2
    <2> QED
        BY <2>2, <2>3 DEF Errs
<1>5. ASSUME NEW q \in Seq(Carried), NEW m \in Carried
      PROVE  Vals(Append(q, m)) = Vals(q) \o One(m) /\ Errs(Append(q, m)) = Errs(q) + Weight(m)
    <2>1. Vals(Append(q, m)) = Vals(q) \o One(m)
        BY ValsAppend
    <2>2. Len(Append(q, m)) = Len(q) + 1 /\ Len(q) \in Int
        OBVIOUS
    <2>3. /\ Len(Vals(q) \o One(m)) = Len(Vals(q)) + Len(One(m))
          /\ Len(Vals(q)) \in Int /\ Len(One(m)) \in Int
        BY <1>4, CarriedFacts, ConcatProperties
    <2> QED
        BY <1>3, <2>1, <2>2, <2>3 DEF Errs
<1>6. ASSUME NEW q \in Seq(Carried), q # <<>>
      PROVE  Vals(q) = One(Head(q)) \o Vals(Tail(q)) /\ Errs(q) = Weight(Head(q)) + Errs(Tail(q))
    <2>1. /\ Head(q) \in Carried /\ Tail(q) \in Seq(Carried)
          /\ Vals(q) = One(Head(q)) \o Vals(Tail(q))
        BY <1>6, ValsHead
    <2>2. PICK m, u : m = Head(q) /\ u = Tail(q)
        OBVIOUS
    <2>3. Len(q) = Len(u) + 1 /\ Len(u) \in Int
        BY <1>6, <2>2
    <2>4. /\ Len(One(m) \o Vals(u)) = Len(One(m)) + Len(Vals(u))
          /\ Len(Vals(u)) \in Int /\ Len(One(m)) \in Int
        BY <1>4, <2>1, <2>2, CarriedFacts, ConcatProperties
    <2>5. Len(Vals(q)) = Len(One(m)) + Len(Vals(u))
        BY <2>1, <2>2, <2>4, Zenon
    <2>6. Errs(q) = Weight(m) + Errs(u)
        BY <1>3, <2>3, <2>4, <2>5 DEF Errs
    <2> QED
        BY <2>1, <2>2, <2>6, Zenon
<1>7. ASSUME NEW m \in Carried PROVE Vals(<<m>>) = One(m) /\ Errs(<<m>>) = Weight(m)
    <2>1. <<m>> = Append(<<>>, m) /\ <<>> \in Seq(Carried)
        OBVIOUS
    <2>2. Vals(<<m>>) = Vals(<<>>) \o One(m) /\ Errs(<<m>>) = Errs(<<>>) + Weight(m)
        BY <1>5, <2>1
    <2>3. <<>> \o One(m) = One(m)
        BY CarriedFacts, ConcatEmptySeq
    <2>4. Errs(<<m>>) = Weight(m)
        BY <1>3, <2>2, ValsEmpty
    <2> QED
        BY <2>2, <2>3, <2>4, ValsEmpty
<1>8. ASSUME NEW p \in Payload
      PROVE  Vals(<<p>>) = (IF p.value = 0 THEN <<>> ELSE <<p>>) /\ Errs(<<p>>) = Weight(p)
    <2>1. Item(p) = p /\ p \in Carried
        BY DEF Item, Payload, Carried
    <2> QED
        BY <1>7, <2>1, Zenon DEF One
<1>9. ASSUME NEW m \in Message PROVE Vals(<<m>>) = One(m) /\ Errs(<<m>>) = Weight(m)
    BY <1>2, <1>7
<1> QED
    BY <1>1, <1>2, <1>4, <1>5, <1>6, <1>8, <1>9, ValsEmpty

\* What RunLoop.Send makes of the value n of a stream is what Through adds for it.
Sized(n, len) == IF len > 0 THEN <<[value |-> n, len |-> len]>> ELSE <<>>
NoError(q)    == \A i \in 1..Len(q) : q[i].value # 0

LEMMA SendVals ==
    ASSUME NEW k \in Nat \ {0}, NEW n \in Nat
    PROVE  /\ Send(k, n) \in Seq(Message) /\ Sized(k, n) \in Seq(Payload)
           /\ Vals(Send(k, n)) = Sized(k, n) /\ Errs(Send(k, n)) = 0
           /\ NoError(Send(k, n))
<1>1. PICK m : m = Msg(k, n, TRUE)
    OBVIOUS
<1>2. PICK p : p = [value |-> k, len |-> n]
    OBVIOUS
<1>3. m \in Message /\ p \in Payload /\ Item(m) = p /\ m.value # 0
    <2>1. m \in Message
        BY <1>1, SendFacts
    <2> QED
        BY <1>1, <1>2, <2>1 DEF Payload, Item, Msg
<1>4. <<m>> \in Seq(Message) /\ <<p>> \in Seq(Payload) /\ NoError(<<m>>)
    BY <1>3 DEF NoError
<1>5. One(m) = <<p>> /\ Weight(m) = 0
    BY <1>3 DEF One, Weight
<1>6. Vals(<<m>>) = <<p>> /\ Errs(<<m>>) = 0
    BY <1>3, <1>5, QueueSteps
<1>7. CASE n > 0
    <2>1. Send(k, n) = <<m>> /\ Sized(k, n) = <<p>>
        BY <1>1, <1>2, <1>7, SendFacts DEF Sized
    <2> QED
        BY <1>4, <1>6, <2>1
<1>8. CASE ~(n > 0)
    <2>1. Send(k, n) = <<>> /\ Sized(k, n) = <<>>
        BY <1>8, SendFacts DEF Sized
    <2> QED
        BY <2>1, QueueSteps DEF NoError
<1> QED
    BY <1>7, <1>8

LEMMA ThroughGrows ==
    ASSUME NEW len \in Seq(Nat), NEW n \in 1..Len(len)
    PROVE  /\ Through(len, n - 1) \in Seq(Payload)
           /\ Sized(n, len[n]) \in Seq(Payload)
           /\ Through(len, n) = Through(len, n - 1) \o Sized(n, len[n])
<1>1. PICK p : p = [value |-> n, len |-> len[n]]
    OBVIOUS
<1>2. n \in Nat /\ len[n] \in Nat /\ n - 1 \in 0..Len(len)
    OBVIOUS
<1>3. p \in Payload /\ <<>> \in Seq(Payload)
    BY <1>1, <1>2 DEF Payload
<1>4. PICK s : s = Through(len, n - 1)
    OBVIOUS
<1>5. s \in Seq(Payload)
    BY <1>2, <1>4, ThroughStep
<1>6. Append(s, p) = s \o <<p>> /\ s \o <<>> = s /\ <<p>> \in Seq(Payload)
    BY <1>3, <1>5, AppendIsConcat, ConcatEmptySeq
<1>7. Through(len, n) = IF len[n] > 0 THEN Append(s, p) ELSE s
    BY <1>1, <1>4, ThroughStep
<1>8. Sized(n, len[n]) = IF len[n] > 0 THEN <<p>> ELSE <<>>
    BY <1>1 DEF Sized
<1> QED
    BY <1>3, <1>4, <1>5, <1>6, <1>7, <1>8

LEMMA RouteEnd == \A a \in Seq(Payload) : Route(a, <<>>, <<>>, <<>>) = a
<1>1. <<>> \in Seq(Payload) /\ <<>> \o <<>> = <<>>
    OBVIOUS
<1> QED
    BY <1>1, ConcatEmptySeq DEF Route

-----------------------------------------------------------------------------
(***************************************************************************)
(* Upstream.                                                               *)
(***************************************************************************)
Held    == IF server.in = "forward" THEN server.hold ELSE <<>>
Waiting == IF stream.status = "open" THEN Vals(stream.upQ) ELSE <<>>
Sent    == Route(worker.fed, Vals(Held), Vals(stream.up), Waiting)
Taken   == Through(InLen, client.taken)

\* Nothing taken is lost before the stream is over or the output done: a value
\* taken afterwards is thrown away, and with it all that follows.
Upstream ==
    /\ server.in = "forward" => \E p \in Payload : server.hold = <<p>> /\ p.value # 0
    /\ NoError(stream.up) /\ NoError(stream.upQ)
    /\ Begins(Sent, Taken)
    /\ stream.status = "open" /\ ~client.outputDone => Sent = Taken

UpPlaces == <<worker.fed, server.hold, server.in = "forward", stream.up, stream.upQ, client.taken>>

LEMMA Parts ==
    ASSUME TypeOK
    PROVE  /\ Vals(Held) \in Seq(Payload) /\ Vals(stream.up) \in Seq(Payload)
           /\ Waiting \in Seq(Payload) /\ worker.fed \in Seq(Payload)
           /\ Sent \in Seq(Payload) /\ Taken \in Seq(Payload)
<1>1. /\ stream.up \in Seq(Message) /\ stream.upQ \in Seq(Message)
      /\ server.hold \in Seq(Payload) /\ worker.fed \in Seq(Payload)
      /\ client.taken \in 0..Len(InLen)
    BY DEF TypeOK, ClientOK, StreamOK, ServerOK, WorkerOK
<1>2. <<>> \in Seq(Payload)
    OBVIOUS
<1>3. Vals(Held) \in Seq(Payload) /\ Vals(stream.up) \in Seq(Payload) /\ Waiting \in Seq(Payload)
    BY <1>1, <1>2, QueueSteps DEF Held, Waiting
<1>4. Taken \in Seq(Payload)
    BY <1>1, StreamBounds, ThroughStep DEF Taken
<1>5. Sent \in Seq(Payload)
    BY <1>1, <1>3, RouteType, Zenon DEF Sent
<1> QED
    BY <1>1, <1>3, <1>4, <1>5

LEMMA NoErrorFacts ==
    /\ NoError(<<>>) /\ \A m \in Message : m.value # 0 => NoError(<<m>>)
    /\ \A q \in Seq(Message), m \in Message : NoError(q) /\ m.value # 0 => NoError(Append(q, m))
    /\ \A q \in Seq(Message) : q # <<>> /\ NoError(q) => Head(q).value # 0 /\ NoError(Tail(q))
<1>1. NoError(<<>>) /\ \A m \in Message : m.value # 0 => NoError(<<m>>)
    BY DEF NoError
<1>2. ASSUME NEW q \in Seq(Message), NEW m \in Message, NoError(q), m.value # 0
      PROVE  NoError(Append(q, m))
    BY <1>2 DEF NoError
<1>3. ASSUME NEW q \in Seq(Message), q # <<>>, NoError(q)
      PROVE  Head(q).value # 0 /\ NoError(Tail(q))
    BY <1>3 DEF NoError
<1> QED
    BY <1>1, <1>2, <1>3

\* A step that leaves alone what was taken and all the places it may be in.
LEMMA UpIdle ==
    ASSUME TypeOK, TypeOK', Upstream, UNCHANGED <<worker.fed, server.hold, stream.up, client.taken>>,
           server.in = "forward" <=> (server.in = "forward")',
           client.outputDone => client.outputDone',
           \/ UNCHANGED <<stream.status, stream.upQ>>
           \/ stream.status' # "open" /\ (stream.upQ' = stream.upQ \/ stream.upQ' = <<>>)
    PROVE  Upstream'
<1>1. /\ server'.in = "forward" => \E p \in Payload : server'.hold = <<p>> /\ p.value # 0
      /\ NoError(stream'.up) /\ NoError(stream'.upQ)
    BY NoErrorFacts DEF Upstream
<1>2. Vals(Held') = Vals(Held) /\ Vals(stream'.up) = Vals(stream.up) /\ Taken' = Taken
    BY DEF Held, Taken
<1>3. CASE UNCHANGED <<stream.status, stream.upQ>>
    <2>1. Waiting' = Waiting
        BY <1>3 DEF Waiting
    <2>2. Sent' = Sent
        BY <1>2, <2>1 DEF Sent
    <2> QED
        BY <1>1, <1>2, <1>3, <2>2 DEF Upstream
<1>4. CASE stream.status' # "open"
    <2>1. Waiting' = <<>>
        BY <1>4 DEF Waiting
    <2>2. Sent' = Route(worker.fed, Vals(Held), Vals(stream.up), <<>>)
        BY <1>2, <2>1 DEF Sent
    <2>5. /\ Vals(Held) \in Seq(Payload) /\ Vals(stream.up) \in Seq(Payload)
          /\ Waiting \in Seq(Payload) /\ worker.fed \in Seq(Payload)
          /\ Taken \in Seq(Payload) /\ <<>> \in Seq(Payload)
        BY Parts
    <2>6. PICK a, b, c, d : /\ a = worker.fed /\ b = Vals(Held) /\ c = Vals(stream.up) /\ d = Waiting
        OBVIOUS
    <2>7. Puts(a, b, c, d)
        <3>1. a \in Seq(Payload) /\ b \in Seq(Payload) /\ c \in Seq(Payload) /\ d \in Seq(Payload)
            BY <2>5, <2>6, Zenon
        <3> QED
            BY <3>1, RoutePut, Zenon
    <2>3. Sent' \o Waiting = Sent
        BY <2>2, <2>6, <2>7, Zenon DEF Sent, Puts
    <2>4. Begins(Sent', Taken)
        <3>1. Begins(Sent' \o Waiting, Taken)
            BY <2>3 DEF Upstream
        <3>2. Sent' \in Seq(Payload) /\ Waiting \in Seq(Payload) /\ Taken \in Seq(Payload)
            BY <2>2, <2>5, RouteType, Zenon
        <3> QED
            BY <3>1, <3>2, BeginsFacts, Zenon
    <2> QED
        BY <1>1, <1>2, <1>4, <2>4 DEF Upstream
<1> QED
    BY <1>3, <1>4

LEMMA UpTake ==
    ASSUME TypeOK, Control, Upstream, TakeInput
    PROVE  Upstream'
<1>1. PICK k : k = client.taken + 1
    OBVIOUS
<1>2. /\ k \in 1..Len(InLen) /\ k \in Nat \ {0} /\ InLen[k] \in Nat /\ k - 1 = client.taken
    <2>1. client.taken \in 0..Len(InLen) /\ k <= Len(InLen)
        BY <1>1 DEF TakeInput, TypeOK, ClientOK
    <2>2. k \in 1..Len(InLen) /\ k \in Nat \ {0} /\ k - 1 = client.taken
        BY <1>1, <2>1, Lengths
    <2> QED
        BY <2>2, Lengths
<1>3. PICK q, x : q = Send(k, InLen[k]) /\ x = Sized(k, InLen[k])
    OBVIOUS
<1>4. /\ client' = [client EXCEPT !.taken = k, !.in = IF client.outputDone THEN @ ELSE "send"]
      /\ stream' = [stream EXCEPT !.upQ = IF client.outputDone THEN @ ELSE q]
      /\ UNCHANGED <<server, worker>> /\ client.in = "select"
    BY <1>1, <1>3 DEF TakeInput
<1>5. q \in Seq(Message) /\ x \in Seq(Payload) /\ Vals(q) = x /\ NoError(q)
    BY <1>2, <1>3, SendVals
<1>6. /\ stream'.up = stream.up /\ stream'.status = stream.status
      /\ stream'.upQ = IF client.outputDone THEN stream.upQ ELSE q
      /\ client'.outputDone = client.outputDone /\ client'.taken = k
    BY <1>4 DEF TypeOK, ClientOK, StreamOK
<1>7. Taken' = Taken \o x
    BY <1>2, <1>3, <1>6, StreamBounds, ThroughGrows DEF Taken
<1>8. stream.upQ = <<>> /\ Held' = Held /\ worker.fed' = worker.fed
    BY <1>4 DEF Control, Ends, Held
<1>9. /\ server'.in = "forward" => \E p \in Payload : server'.hold = <<p>> /\ p.value # 0
      /\ NoError(stream'.up) /\ NoError(stream'.upQ)
    BY <1>4, <1>5, <1>6 DEF Upstream
<1>10. CASE client.outputDone \/ stream.status # "open"
    <2>1. Sent' = Sent
        <3>1. Waiting' = Waiting
            BY <1>6, <1>10 DEF Waiting
        <3> QED
            BY <1>6, <1>8, <3>1 DEF Sent
    <2>2. Begins(Sent, Taken \o x)
        BY <1>5, Parts, BeginsFacts, Zenon DEF Upstream
    <2> QED
        BY <1>6, <1>7, <1>9, <1>10, <2>1, <2>2 DEF Upstream
<1>11. CASE ~client.outputDone /\ stream.status = "open"
    <2>1. Waiting = <<>> /\ Waiting' = x
        BY <1>5, <1>6, <1>8, <1>11, QueueSteps DEF Waiting
    <2>2. PICK a, b, c : a = worker.fed /\ b = Vals(Held) /\ c = Vals(stream.up)
        OBVIOUS
    <2>3. a \in Seq(Payload) /\ b \in Seq(Payload) /\ c \in Seq(Payload)
        BY <2>2, Parts, Zenon
    <2>4. Sent = Route(a, b, c, <<>>) /\ Sent' = Route(a, b, c, x)
        BY <1>6, <1>8, <2>1, <2>2 DEF Sent
    <2>5. Puts(a, b, c, x)
        BY <1>5, <2>3, RoutePut, Zenon
    <2>6. Sent' = Taken'
        BY <1>7, <1>11, <2>4, <2>5 DEF Upstream, Puts
    <2>7. Sent' \in Seq(Payload)
        BY <1>5, <2>3, <2>4, RouteType, Zenon
    <2>8. Begins(Sent', Taken')
        BY <2>6, <2>7, BeginsFacts, Zenon
    <2> QED
        BY <1>9, <2>6, <2>8 DEF Upstream
<1> QED
    BY <1>10, <1>11

\* A step that moves a value from one place to the next.
LEMMA UpMoves ==
    ASSUME Upstream, UNCHANGED <<client.taken, client.outputDone, stream.status>>, Sent' = Sent,
           (server.in = "forward" => \E p \in Payload : server.hold = <<p>> /\ p.value # 0)',
           (NoError(stream.up) /\ NoError(stream.upQ))'
    PROVE  Upstream'
BY DEF Upstream, Taken

LEMMA UpSends ==
    ASSUME TypeOK, Upstream, SendUp, stream.upQ # <<>>, stream.status = "open"
    PROVE  Upstream'
<1>1. /\ stream' = [stream EXCEPT !.up = Append(@, Head(stream.upQ)), !.upQ = Tail(@)]
      /\ UNCHANGED <<client, server, worker>>
    BY DEF SendUp
<1>2. PICK m, u : m = Head(stream.upQ) /\ u = Tail(stream.upQ)
    OBVIOUS
<1>3. /\ stream'.up = Append(stream.up, m) /\ stream'.upQ = u /\ stream'.status = stream.status
      /\ stream.up \in Seq(Message) /\ stream.upQ \in Seq(Message)
    BY <1>1, <1>2 DEF TypeOK, StreamOK
<1>4. m \in Message /\ u \in Seq(Message) /\ m.value # 0 /\ NoError(u)
    BY <1>2, <1>3, QueueFacts, NoErrorFacts DEF Upstream
<1>5. NoError(stream'.up) /\ NoError(stream'.upQ)
    BY <1>3, <1>4, NoErrorFacts DEF Upstream
<1>6. Sent' = Sent
    <2>1. PICK a, b, c, d, e : /\ a = worker.fed /\ b = Vals(Held) /\ c = Vals(stream.up)
                               /\ d = One(m) /\ e = Vals(u)
        OBVIOUS
    <2>2. /\ a \in Seq(Payload) /\ b \in Seq(Payload) /\ c \in Seq(Payload) /\ d \in Seq(Payload)
          /\ e \in Seq(Payload)
        BY <1>4, <2>1, Parts, QueueSteps, CarriedFacts DEF Carried
    <2>3. Vals(stream'.up) = c \o d
        BY <1>3, <1>4, <2>1, QueueSteps
    <2>4. Vals(stream.upQ) = d \o e
        BY <1>2, <1>3, <2>1, QueueSteps
    <2>5. Sent = Route(a, b, c, d \o e)
        BY <2>1, <2>4 DEF Sent, Waiting
    <2>6. Sent' = Route(a, b, c \o d, e)
        BY <1>1, <1>3, <2>1, <2>3 DEF Sent, Waiting, Held
    <2>7. Sends(a, b, c, d, e)
        BY <2>2, RouteSend, Zenon
    <2> QED
        BY <2>5, <2>6, <2>7, Zenon DEF Sends
<1> QED
    BY <1>1, <1>3, <1>5, <1>6, UpMoves DEF Upstream

LEMMA UpReceives ==
    ASSUME TypeOK, Upstream, ServerRecv
    PROVE  Upstream'
<1>1. PICK m, u : m = Head(stream.up) /\ u = Tail(stream.up)
    OBVIOUS
<1>2. /\ stream.up \in Seq(Message) /\ stream.up # <<>> /\ server.in = "recv"
      /\ m \in Message /\ u \in Seq(Message) /\ m.value # 0 /\ NoError(u)
    BY <1>1, QueueFacts, NoErrorFacts DEF ServerRecv, TypeOK, StreamOK, Upstream
<1>3. PICK p : p = Item(m)
    OBVIOUS
<1>4. p \in Payload /\ p.value # 0 /\ Recv(m) = <<p>> /\ Recv(m) # <<>> /\ One(m) = <<p>>
    <2>1. p \in Payload /\ Recv(m) = <<p>> /\ Recv(m) # <<>>
        BY <1>2, <1>3, RecvFacts
    <2> QED
        BY <1>2, <1>3, <2>1 DEF One, Item
<1>5. /\ server' = [server EXCEPT !.hold = <<p>>, !.in = "forward"]
      /\ stream' = [stream EXCEPT !.up = u]
      /\ UNCHANGED <<client, worker>>
    BY <1>1, <1>4 DEF ServerRecv
<1>6. /\ server'.in = "forward" /\ server'.hold = <<p>> /\ stream'.up = u
      /\ stream'.upQ = stream.upQ /\ stream'.status = stream.status
    BY <1>5 DEF TypeOK, StreamOK, ServerOK
<1>7. Sent' = Sent
    <2>1. PICK a, b, c, d : /\ a = worker.fed /\ b = One(m) /\ c = Vals(u) /\ d = Waiting
        OBVIOUS
    <2>2. a \in Seq(Payload) /\ b \in Seq(Payload) /\ c \in Seq(Payload) /\ d \in Seq(Payload)
        BY <1>2, <2>1, Parts, QueueSteps, CarriedFacts DEF Carried
    <2>3. Vals(stream.up) = b \o c
        BY <1>1, <1>2, <2>1, QueueSteps
    <2>4. Sent = Route(a, <<>>, b \o c, d)
        BY <1>2, <2>1, <2>3, QueueSteps DEF Sent, Held
    <2>5. Vals(Held') = b
        BY <1>4, <1>6, <2>1, QueueSteps DEF Held
    <2>6. Waiting' = d
        BY <1>6, <2>1 DEF Waiting
    <2>7. Sent' = Route(a, b, c, d)
        BY <1>5, <1>6, <2>1, <2>5, <2>6 DEF Sent
    <2>8. Receives(a, b, c, d)
        BY <2>2, RouteReceive, Zenon
    <2> QED
        BY <2>4, <2>7, <2>8, Zenon DEF Receives
<1>8. NoError(stream'.upQ)
    BY <1>6 DEF Upstream
<1> QED
    BY <1>2, <1>4, <1>5, <1>6, <1>7, <1>8, UpMoves

LEMMA UpReads ==
    ASSUME TypeOK, Upstream, WorkerReads
    PROVE  Upstream'
<1>1. /\ server.in = "forward" /\ worker' = [worker EXCEPT !.fed = @ \o server.hold]
      /\ server' = [server EXCEPT !.in = "recv"] /\ UNCHANGED <<client, stream>>
    BY DEF WorkerReads
<1>2. worker'.fed = worker.fed \o server.hold /\ server'.in = "recv"
    BY <1>1 DEF TypeOK, WorkerOK, ServerOK
<1>3. PICK p \in Payload : server.hold = <<p>> /\ p.value # 0
    BY <1>1 DEF Upstream
<1>4. Sent' = Sent
    <2>1. PICK a, b, c, d : /\ a = worker.fed /\ b = Vals(Held) /\ c = Vals(stream.up)
                            /\ d = Waiting
        OBVIOUS
    <2>2. a \in Seq(Payload) /\ b \in Seq(Payload) /\ c \in Seq(Payload) /\ d \in Seq(Payload)
        BY <2>1, Parts
    <2>3. b = server.hold
        BY <1>1, <1>3, <2>1, QueueSteps DEF Held
    <2>4. Sent = Route(a, b, c, d)
        BY <2>1 DEF Sent
    <2>5. Vals(Held') = <<>>
        BY <1>2, QueueSteps DEF Held
    <2>6. Waiting' = d
        BY <1>1, <2>1 DEF Waiting
    <2>7. Sent' = Route(a \o b, <<>>, c, d)
        BY <1>1, <1>2, <2>1, <2>3, <2>5, <2>6 DEF Sent
    <2>8. Hands(a, b, c, d)
        BY <2>2, RouteHand, Zenon
    <2> QED
        BY <2>4, <2>7, <2>8, Zenon DEF Hands
<1> QED
    BY <1>1, <1>2, <1>4, UpMoves DEF Upstream

LEMMA UpstreamStep == TypeOK /\ TypeOK' /\ Control /\ Upstream /\ [Next]_vars => Upstream'
<1> SUFFICES ASSUME TypeOK, TypeOK', Control, Upstream, [Next]_vars PROVE Upstream'
    OBVIOUS
<1> DEFINE Idle ==
        /\ UNCHANGED <<worker.fed, server.hold, stream.up, client.taken>>
        /\ server.in = "forward" <=> (server.in = "forward")'
        /\ client.outputDone => client.outputDone'
        /\ \/ UNCHANGED <<stream.status, stream.upQ>>
           \/ stream.status' # "open" /\ (stream.upQ' = stream.upQ \/ stream.upQ' = <<>>)
<1>0. Idle => Upstream'
    BY UpIdle
<1> USE DEF TypeOK, ClientOK, StreamOK, ServerOK, WorkerOK
<1>1. CASE Refused
    BY <1>0, <1>1 DEF Refused
<1>2. CASE Run
    BY <1>0, <1>2 DEF Run
<1>3. CASE ContextDone \/ InputClosed
    <2>1. PICK e : EndInput(e)
        BY <1>3 DEF ContextDone, InputClosed
    <2>2. /\ client' = [client EXCEPT !.in = "done", !.eof = e]
          /\ stream' = [stream EXCEPT !.sendClosed = TRUE] /\ UNCHANGED <<server, worker>>
        BY <2>1 DEF EndInput
    <2>3. /\ UNCHANGED <<client.taken, client.outputDone>>
          /\ UNCHANGED <<stream.up, stream.upQ, stream.status>>
        BY <2>2
    <2> QED
        BY <1>0, <2>2, <2>3
<1>4. CASE SeeOutputDone
    BY <1>0, <1>4 DEF SeeOutputDone
<1>5. CASE TakeInput
    BY <1>5, UpTake
<1>6. CASE SendUp
    <2>1. CASE stream.upQ = <<>> \/ stream.status # "open"
        <3>1. /\ stream' = [stream EXCEPT !.upQ = <<>>]
              /\ client' = [client EXCEPT !.in = "select"]
              /\ UNCHANGED <<server, worker>>
            BY <1>6, <2>1 DEF SendUp
        <3> QED
            BY <1>0, <2>1, <3>1
    <2>2. CASE ~(stream.upQ = <<>> \/ stream.status # "open")
        BY <1>6, <2>2, UpSends
    <2> QED
        BY <2>1, <2>2
<1>7. CASE ClientRecv
    BY <1>0, <1>7 DEF ClientRecv
<1>8. CASE Yield
    BY <1>0, <1>8 DEF Yield
<1>9. CASE YieldRefused \/ StreamEnded
    <2>1. /\ \E e \in BOOLEAN :
               client' = [client EXCEPT !.outDoneC = TRUE, !.out = "wait", !.failed = e]
          /\ UNCHANGED <<stream, server, worker>>
        BY <1>9, Zenon DEF YieldRefused, StreamEnded, EndOutput
    <2>2. UNCHANGED <<client.taken, client.outputDone>>
        BY <2>1
    <2> QED
        BY <1>0, <2>1, <2>2
<1>10. CASE Return
    BY <1>0, <1>10 DEF Return
<1>11. CASE Serve
    BY <1>0, <1>11 DEF Serve, At, Control, Gate
<1>12. CASE Synchronize
    BY <1>0, <1>12 DEF Synchronize
<1>13. CASE Select
    BY <1>0, <1>13 DEF Select
<1>14. CASE \E c \in {"errC", "outputC"} : SelectClosed(c)
    BY <1>0, <1>14 DEF SelectClosed
<1>15. CASE SendDown
    <2>1. CASE stream.downQ = <<>>
        <3>1. server' = [server EXCEPT !.run = "select"] /\ UNCHANGED <<client, stream, worker>>
            BY <1>15, <2>1 DEF SendDown
        <3> QED
            BY <1>0, <3>1
    <2>2. CASE stream.downQ # <<>>
        <3>1. /\ stream' = [stream EXCEPT !.down = Append(@, Head(stream.downQ)), !.downQ = Tail(@)]
              /\ UNCHANGED <<client, server, worker>>
            BY <1>15, <2>2 DEF SendDown
        <3>2. UNCHANGED <<stream.up, stream.upQ, stream.status>>
            BY <3>1
        <3> QED
            BY <1>0, <3>1, <3>2
    <2> QED
        BY <2>1, <2>2
<1>16. CASE ServeEnds \/ ServeAborts
    <2>1. /\ server' = [server EXCEPT !.run = "ret"] /\ UNCHANGED <<client, worker>>
          /\ \E how \in {"ok", "canceled"} :
               stream' = [stream EXCEPT !.status = IF @ = "open" THEN how ELSE @]
        BY <1>16 DEF ServeEnds, ServeAborts, EndStream
    <2> QED
        BY <1>0, <2>1
<1>17. CASE SetInput
    BY <1>0, <1>17 DEF SetInput
<1>18. CASE InputPass
    BY <1>0, <1>18 DEF InputPass
<1>19. CASE ServerRecv
    BY <1>19, UpReceives
<1>20. CASE InputEnds
    BY <1>0, <1>20 DEF InputEnds
<1>21. CASE WorkerInitialized
    BY <1>0, <1>21 DEF WorkerInitialized
<1>22. CASE WorkerPass
    BY <1>0, <1>22 DEF WorkerPass
<1>23. CASE WorkerReads
    BY <1>23, UpReads
<1>24. CASE WorkerSends
    <2>1. /\ \/ worker' = [worker EXCEPT !.made = @ + 1, !.offer = "value"]
             \/ worker' = [worker EXCEPT !.raised = @ + 1, !.offer = "error"]
          /\ UNCHANGED <<client, stream, server>>
        BY <1>24, Zenon DEF WorkerSends
    <2>2. UNCHANGED worker.fed
        BY <2>1
    <2> QED
        BY <1>0, <2>1, <2>2, Zenon
<1>25. CASE WorkerReturns
    BY <1>0, <1>25 DEF WorkerReturns
<1>26. CASE Cancel \/ Crash
    <2>1. CASE Cancel
        <3>1. /\ client' = [client EXCEPT !.cancelled = TRUE]
              /\ stream' = [stream EXCEPT !.status = "canceled"] /\ UNCHANGED <<server, worker>>
            BY <2>1 DEF Cancel
        <3> QED
            BY <1>0, <3>1
    <2>2. CASE Crash
        <3>1. stream' = [stream EXCEPT !.status = "lost"] /\ UNCHANGED <<client, server, worker>>
            BY <2>2 DEF Crash
        <3> QED
            BY <1>0, <3>1
    <2> QED
        BY <1>26, <2>1, <2>2
<1>27. CASE UNCHANGED vars
    BY <1>0, <1>27 DEF vars
<1> QED
    BY <1>1, <1>2, <1>3, <1>4, <1>5, <1>6, <1>7, <1>8, <1>9, <1>10, <1>11, <1>12, <1>13,
       <1>14, <1>15, <1>16, <1>17, <1>18, <1>19, <1>20, <1>21, <1>22, <1>23, <1>24, <1>25,
       <1>26, <1>27
       DEF Next, Over, Step, ClientIn, ClientRun, ServerIn, ServerRun, WorkerRun

-----------------------------------------------------------------------------
(***************************************************************************)
(* Downstream.                                                             *)
(***************************************************************************)
Yielding == IF client.out = "yield" THEN client.hold ELSE <<>>
Got      == Route(client.yielded, Vals(Yielding), Vals(stream.down), Vals(stream.downQ))
Errors   == client.reported + Errs(Yielding) + Errs(stream.down) + Errs(stream.downQ)

Offered(what) == IF worker.offer = what THEN 1 ELSE 0
Made == Through(OutLen, worker.made - Offered("value"))
All  == Through(OutLen, worker.made)

\* While handleOutputStream runs nothing is lost; when it is over the client
\* knows why it is.
Downstream ==
    /\ client.out = "yield" => \E p \in Payload : client.hold = <<p>>
    /\ client.out \notin {"wait", "ret"} =>
         Got = Made /\ Errors + Offered("error") = worker.raised
    /\ client.out \in {"wait", "ret"} =>
         /\ Begins(client.yielded, All)
         /\ \/ client.failed \/ client.cancelled
            \/ stream.status = "ok" /\ client.yielded = All /\ client.reported = worker.raised

LEMMA DownTypes ==
    ASSUME TypeOK
    PROVE  /\ client.yielded \in Seq(Payload) /\ Vals(Yielding) \in Seq(Payload)
           /\ Vals(stream.down) \in Seq(Payload) /\ Vals(stream.downQ) \in Seq(Payload)
           /\ Errs(Yielding) \in Int /\ Errs(stream.down) \in Int /\ Errs(stream.downQ) \in Int
           /\ client.reported \in Int /\ worker.raised \in Int
           /\ worker.made \in 0..Len(OutLen) /\ worker.made - Offered("value") \in 0..Len(OutLen)
           /\ Made \in Seq(Payload) /\ All \in Seq(Payload)
<1>1. /\ stream.down \in Seq(Message) /\ stream.downQ \in Seq(Message)
      /\ client.yielded \in Seq(Payload) /\ client.hold \in Seq(Payload)
      /\ client.reported \in Int /\ worker.raised \in Int /\ worker.made \in 0..Len(OutLen)
    BY DEF TypeOK, ClientOK, StreamOK, WorkerOK
<1>2. Yielding \in Seq(Payload)
    BY <1>1 DEF Yielding
<1>3. PICK n : n = worker.made - Offered("value")
    OBVIOUS
<1>4. n \in 0..Len(OutLen)
    BY <1>1, <1>3, Lengths DEF TypeOK, WorkerOK, Offered
<1>5. Through(OutLen, n) \in Seq(Payload)
    BY <1>4, StreamBounds, ThroughStep
<1>6. All \in Seq(Payload)
    BY <1>1, StreamBounds, ThroughStep DEF All
<1>7. /\ Vals(Yielding) \in Seq(Payload) /\ Errs(Yielding) \in Int
      /\ Vals(stream.down) \in Seq(Payload) /\ Errs(stream.down) \in Int
      /\ Vals(stream.downQ) \in Seq(Payload) /\ Errs(stream.downQ) \in Int
    BY <1>1, <1>2, QueueSteps
<1> QED
    BY <1>1, <1>3, <1>4, <1>5, <1>6, <1>7 DEF Made

\* What has been yielded begins what the worker has made.
LEMMA YieldedBegins ==
    ASSUME TypeOK, Downstream
    PROVE  Begins(client.yielded, All)
<1>1. CASE client.out \notin {"wait", "ret"}
    <2>1. Begins(client.yielded, Made)
        <3>1. PICK a, b, c, d : /\ a = client.yielded /\ b = Vals(Yielding)
                                /\ c = Vals(stream.down) /\ d = Vals(stream.downQ)
            OBVIOUS
        <3>2. a \in Seq(Payload) /\ b \o (c \o d) \in Seq(Payload)
            <4>1. a \in Seq(Payload) /\ b \in Seq(Payload) /\ c \in Seq(Payload) /\ d \in Seq(Payload)
                BY <3>1, DownTypes, Zenon
            <4> QED
                BY <4>1
        <3>3. Made = a \o (b \o (c \o d))
            BY <1>1, <3>1 DEF Downstream, Got, Route
        <3> QED
            BY <3>1, <3>2, <3>3, Zenon DEF Begins
    <2>2. CASE worker.offer = "value"
        <3>1. PICK n : n = worker.made
            OBVIOUS
        <3>2. n \in 1..Len(OutLen) /\ Made = Through(OutLen, n - 1) /\ All = Through(OutLen, n)
            BY <2>2, <3>1, DownTypes, Lengths DEF TypeOK, WorkerOK, Offered, Made, All
        <3>3. PICK x \in Seq(Payload) : All = Made \o x
            BY <3>2, StreamBounds, ThroughGrows
        <3> QED
            BY <2>1, <3>3, DownTypes, BeginsFacts, Zenon
    <2>3. CASE worker.offer # "value"
        <3>1. worker.made - Offered("value") = worker.made
            BY <2>3, DownTypes, Lengths DEF Offered
        <3> QED
            BY <2>1, <3>1 DEF Made, All
    <2> QED
        BY <2>2, <2>3
<1>2. CASE client.out \in {"wait", "ret"}
    BY <1>2 DEF Downstream
<1> QED
    BY <1>1, <1>2

\* A step that leaves alone what was made and all the places it may be in.
LEMMA DownIdle ==
    ASSUME Downstream,
           UNCHANGED <<client.hold, client.yielded, client.reported, stream.down, stream.downQ,
                       worker.made, worker.raised, worker.offer>>,
           client.out = "yield" <=> client.out' = "yield",
           client.out \in {"wait", "ret"} <=> client.out' \in {"wait", "ret"},
           client.failed => client.failed', client.cancelled => client.cancelled',
           stream.status = "ok" => stream.status' = "ok"
    PROVE  Downstream'
<1>1. Yielding' = Yielding
    BY DEF Yielding
<1>2. Got' = Got /\ Errors' = Errors
    BY <1>1 DEF Got, Errors
<1>3. Made' = Made /\ All' = All /\ Offered("error")' = Offered("error")
    BY DEF Made, All, Offered
<1> QED
    BY <1>2, <1>3 DEF Downstream

\* When the client's output is over, only the worker's end still matters.
LEMMA DownOver ==
    ASSUME TypeOK, Downstream, client.out \in {"wait", "ret"},
           UNCHANGED client, UNCHANGED worker.raised, UNCHANGED worker.made,
           stream.status = "ok" => stream.status' = "ok"
    PROVE  Downstream'
<1>1. All' = All
    BY DEF All
<1> QED
    BY <1>1 DEF Downstream

\* A step that moves a value, or an error, from one place to the next.
LEMMA DownMoves ==
    ASSUME Downstream, client.out \notin {"wait", "ret"}, client'.out \notin {"wait", "ret"},
           UNCHANGED <<worker.made, worker.raised, worker.offer>>,
           client'.out = "yield" => \E p \in Payload : client'.hold = <<p>>,
           Got' = Got, Errors' = Errors
    PROVE  Downstream'
<1>1. Made' = Made /\ Offered("error")' = Offered("error")
    BY DEF Made, Offered
<1> QED
    BY <1>1 DEF Downstream

LEMMA DownSends ==
    ASSUME TypeOK, Downstream, SendDown, stream.downQ # <<>>
    PROVE  Downstream'
<1>1. /\ stream' = [stream EXCEPT !.down = Append(@, Head(stream.downQ)), !.downQ = Tail(@)]
      /\ UNCHANGED <<client, server, worker>>
    BY DEF SendDown
<1>2. PICK m, u : m = Head(stream.downQ) /\ u = Tail(stream.downQ)
    OBVIOUS
<1>3. /\ stream'.down = Append(stream.down, m) /\ stream'.downQ = u
      /\ stream'.status = stream.status
      /\ stream.down \in Seq(Message) /\ stream.downQ \in Seq(Message)
    BY <1>1, <1>2 DEF TypeOK, StreamOK
<1>4. m \in Message /\ u \in Seq(Message)
    BY <1>2, <1>3, QueueFacts
<1>5. Yielding' = Yielding
    BY <1>1 DEF Yielding
<1>6. Got' = Got
    <2>1. PICK a, b, c, d, e : /\ a = client.yielded /\ b = Vals(Yielding)
                               /\ c = Vals(stream.down) /\ d = One(m) /\ e = Vals(u)
        OBVIOUS
    <2>2. /\ a \in Seq(Payload) /\ b \in Seq(Payload) /\ c \in Seq(Payload) /\ d \in Seq(Payload)
          /\ e \in Seq(Payload)
        BY <1>4, <2>1, DownTypes, QueueSteps, CarriedFacts DEF Carried
    <2>3. Vals(stream'.down) = c \o d
        BY <1>3, <1>4, <2>1, QueueSteps
    <2>4. Vals(stream.downQ) = d \o e
        BY <1>2, <1>3, <2>1, QueueSteps
    <2>5. Got = Route(a, b, c, d \o e)
        BY <2>1, <2>4 DEF Got
    <2>6. Got' = Route(a, b, c \o d, e)
        BY <1>1, <1>3, <1>5, <2>1, <2>3 DEF Got
    <2>7. Sends(a, b, c, d, e)
        BY <2>2, RouteSend, Zenon
    <2> QED
        BY <2>5, <2>6, <2>7, Zenon DEF Sends
<1>7. Errors' = Errors
    <2>1. Errs(stream'.down) = Errs(stream.down) + Weight(m)
        BY <1>3, <1>4, QueueSteps
    <2>2. Errs(stream.downQ) = Weight(m) + Errs(u)
        BY <1>2, <1>3, QueueSteps
    <2>3. Weight(m) \in Int /\ Errs(u) \in Int
        BY <1>4, QueueSteps DEF Weight
    <2>4. /\ Errors = client.reported + Errs(Yielding) + Errs(stream.down) + Errs(stream.downQ)
          /\ Errors' = client.reported + Errs(Yielding) + Errs(stream'.down) + Errs(u)
        BY <1>1, <1>3, <1>5, Zenon DEF Errors
    <2>5. PICK r, y, d, q, w, z : /\ r = client.reported /\ y = Errs(Yielding) /\ z = Errs(u)
                                  /\ d = Errs(stream.down) /\ q = Errs(stream.downQ) /\ w = Weight(m)
        OBVIOUS
    <2>6. /\ r \in Int /\ y \in Int /\ d \in Int /\ w \in Int /\ z \in Int
          /\ Errors = r + y + d + q /\ Errors' = r + y + (d + w) + z /\ q = w + z
        BY <2>1, <2>2, <2>3, <2>4, <2>5, DownTypes, Zenon
    <2> QED
        BY <2>6
<1>8. CASE client.out \in {"wait", "ret"}
    BY <1>1, <1>3, <1>8, DownOver
<1>9. CASE client.out \notin {"wait", "ret"}
    <2>1. client'.out = "yield" => \E p \in Payload : client'.hold = <<p>>
        BY <1>1 DEF Downstream
    <2> QED
        BY <1>1, <1>6, <1>7, <1>9, <2>1, DownMoves
<1> QED
    BY <1>8, <1>9

LEMMA DownReceives ==
    ASSUME TypeOK, Downstream, ClientRecv
    PROVE  Downstream'
<1>1. PICK m, u : m = Head(stream.down) /\ u = Tail(stream.down)
    OBVIOUS
<1>2. /\ stream.down \in Seq(Message) /\ stream.down # <<>> /\ client.out = "recv"
      /\ m \in Message /\ u \in Seq(Message)
    BY <1>1, QueueFacts DEF ClientRecv, TypeOK, StreamOK
<1>3. PICK p : p = Item(m)
    OBVIOUS
<1>4. p \in Payload /\ Recv(m) = <<p>> /\ Recv(m) # <<>> /\ p.value = m.value
    <2>1. p \in Payload /\ Recv(m) = <<p>> /\ Recv(m) # <<>>
        BY <1>2, <1>3, RecvFacts
    <2> QED
        BY <1>3, <2>1 DEF Item
<1>5. Vals(<<p>>) = One(m) /\ Errs(<<p>>) = Weight(m)
    BY <1>3, <1>4, QueueSteps DEF One, Weight
<1>6. /\ client' = [client EXCEPT !.hold = <<p>>, !.out = "yield"]
      /\ stream' = [stream EXCEPT !.down = u]
      /\ UNCHANGED <<server, worker>>
    BY <1>1, <1>4 DEF ClientRecv
<1>7. /\ client'.out = "yield" /\ client'.hold = <<p>> /\ stream'.down = u
      /\ stream'.downQ = stream.downQ /\ client'.yielded = client.yielded
      /\ client'.reported = client.reported
    BY <1>6 DEF TypeOK, StreamOK, ClientOK
<1>8. Yielding = <<>> /\ Yielding' = <<p>>
    BY <1>2, <1>7 DEF Yielding
<1>9. Got' = Got
    <2>1. PICK a, b, c, d : /\ a = client.yielded /\ b = One(m) /\ c = Vals(u)
                            /\ d = Vals(stream.downQ)
        OBVIOUS
    <2>2. a \in Seq(Payload) /\ b \in Seq(Payload) /\ c \in Seq(Payload) /\ d \in Seq(Payload)
        BY <1>2, <2>1, DownTypes, QueueSteps, CarriedFacts DEF Carried
    <2>3. Vals(stream.down) = b \o c
        BY <1>1, <1>2, <2>1, QueueSteps
    <2>4. Got = Route(a, <<>>, b \o c, d)
        BY <1>8, <2>1, <2>3, QueueSteps DEF Got
    <2>5. Got' = Route(a, b, c, d)
        BY <1>5, <1>7, <1>8, <2>1 DEF Got
    <2>6. Receives(a, b, c, d)
        BY <2>2, RouteReceive, Zenon
    <2> QED
        BY <2>4, <2>5, <2>6, Zenon DEF Receives
<1>10. Errors' = Errors
    <2>1. Errs(stream.down) = Weight(m) + Errs(u)
        BY <1>1, <1>2, QueueSteps
    <2>2. Weight(m) \in Int /\ Errs(u) \in Int
        BY <1>2, QueueSteps DEF Weight
    <2>3. /\ Errors = client.reported + 0 + Errs(stream.down) + Errs(stream.downQ)
          /\ Errors' = client.reported + Weight(m) + Errs(u) + Errs(stream.downQ)
        BY <1>5, <1>7, <1>8, QueueSteps DEF Errors
    <2>4. PICK r, d, q, w, z : /\ r = client.reported /\ z = Errs(u) /\ w = Weight(m)
                               /\ d = Errs(stream.down) /\ q = Errs(stream.downQ)
        OBVIOUS
    <2>5. /\ r \in Int /\ q \in Int /\ w \in Int /\ z \in Int
          /\ Errors = r + 0 + d + q /\ Errors' = r + w + z + q /\ d = w + z
        BY <2>1, <2>2, <2>3, <2>4, DownTypes, Zenon
    <2> QED
        BY <2>5
<1> QED
    BY <1>2, <1>4, <1>6, <1>7, <1>9, <1>10, DownMoves

LEMMA DownYields ==
    ASSUME TypeOK, Downstream, Yield
    PROVE  Downstream'
<1>1. PICK p \in Payload : client.hold = <<p>>
    BY DEF Yield, Downstream
<1>2. client.out = "yield" /\ UNCHANGED <<stream, server, worker>>
    BY DEF Yield
<1>3. client.hold[1] = p /\ Yielding = <<p>>
    BY <1>1, <1>2 DEF Yielding
<1>4. PICK a, c, d : a = client.yielded /\ c = Vals(stream.down) /\ d = Vals(stream.downQ)
    OBVIOUS
<1>5. a \in Seq(Payload) /\ c \in Seq(Payload) /\ d \in Seq(Payload)
    BY <1>4, DownTypes, Zenon
<1>6. CASE p.value = 0
    <2>1. client' = [client EXCEPT !.out = "recv", !.reported = @ + 1]
        BY <1>3, <1>6 DEF Yield
    <2>2. /\ client'.out = "recv" /\ client'.yielded = client.yielded
          /\ client'.reported = client.reported + 1
        BY <2>1 DEF TypeOK, ClientOK
    <2>3. Yielding' = <<>> /\ Vals(Yielding) = <<>> /\ Errs(Yielding) = 1
        BY <1>3, <1>6, <2>2, QueueSteps DEF Yielding, Weight
    <2>4. Got' = Got
        BY <1>2, <2>2, <2>3, QueueSteps DEF Got
    <2>5. Errors' = Errors
        <3>1. /\ Errors = client.reported + 1 + Errs(stream.down) + Errs(stream.downQ)
              /\ Errors' = (client.reported + 1) + 0 + Errs(stream.down) + Errs(stream.downQ)
            BY <1>2, <2>2, <2>3, QueueSteps DEF Errors
        <3>2. PICK r, e, f : /\ r = client.reported /\ e = Errs(stream.down)
                             /\ f = Errs(stream.downQ)
            OBVIOUS
        <3>3. /\ r \in Int /\ e \in Int /\ f \in Int
              /\ Errors = r + 1 + e + f /\ Errors' = (r + 1) + 0 + e + f
            BY <3>1, <3>2, DownTypes, Zenon
        <3> QED
            BY <3>3
    <2> QED
        BY <1>2, <2>2, <2>4, <2>5, DownMoves
<1>7. CASE p.value # 0
    <2>1. client' = [client EXCEPT !.out = "recv", !.yielded = @ \o client.hold]
        BY <1>3, <1>7 DEF Yield
    <2>2. /\ client'.out = "recv" /\ client'.yielded = a \o <<p>>
          /\ client'.reported = client.reported
        BY <1>1, <1>4, <2>1 DEF TypeOK, ClientOK
    <2>3. Yielding' = <<>> /\ Vals(Yielding) = <<p>> /\ Errs(Yielding) = 0
        BY <1>3, <1>7, <2>2, QueueSteps DEF Yielding, Weight
    <2>4. Got' = Got
        <3>1. PICK b : b = <<p>>
            OBVIOUS
        <3>2. b \in Seq(Payload)
            BY <3>1
        <3>3. Got = Route(a, b, c, d)
            BY <1>4, <2>3, <3>1 DEF Got
        <3>4. Got' = Route(a \o b, <<>>, c, d)
            BY <1>2, <1>4, <2>2, <2>3, <3>1, QueueSteps DEF Got
        <3>5. Hands(a, b, c, d)
            BY <1>5, <3>2, RouteHand, Zenon
        <3> QED
            BY <3>3, <3>4, <3>5, Zenon DEF Hands
    <2>5. Errors' = Errors
        BY <1>2, <2>2, <2>3, QueueSteps, DownTypes DEF Errors
    <2> QED
        BY <1>2, <2>2, <2>4, <2>5, DownMoves
<1> QED
    BY <1>6, <1>7

LEMMA DownSelects ==
    ASSUME TypeOK, Control, Downstream, Select
    PROVE  Downstream'
<1>1. /\ server.run = "select" /\ worker.offer \in {"value", "error"}
      /\ worker' = [worker EXCEPT !.offer = "none"] /\ UNCHANGED client
    BY DEF Select, At, TypeOK, WorkerOK
<1>2. /\ worker'.offer = "none" /\ worker'.made = worker.made /\ worker'.raised = worker.raised
      /\ stream'.down = stream.down /\ stream'.status = stream.status /\ stream.downQ = <<>>
      /\ stream'.downQ = IF worker.offer = "error" THEN <<Msg(0, 0, TRUE)>>
                         ELSE Send(worker.made, OutLen[worker.made])
    BY <1>1 DEF Select, TypeOK, WorkerOK, StreamOK, Control, Closed
<1>3. CASE client.out \in {"wait", "ret"}
    BY <1>1, <1>2, <1>3, DownOver
<1>4. CASE client.out \notin {"wait", "ret"}
    <2>1. PICK a, b, c : /\ a = client.yielded /\ b = Vals(Yielding) /\ c = Vals(stream.down)
        OBVIOUS
    <2>2. a \in Seq(Payload) /\ b \in Seq(Payload) /\ c \in Seq(Payload)
        BY <2>1, DownTypes, Zenon
    <2>3. PICK n : n = worker.made
        OBVIOUS
    <2>4. n \in 0..Len(OutLen) /\ (worker.offer = "value" => n \in 1..Len(OutLen))
        BY <2>3, DownTypes, Lengths DEF TypeOK, WorkerOK
    <2>5. Made' = Through(OutLen, n) /\ Offered("error")' = 0
        BY <1>2, <2>3, <2>4, Lengths DEF Made, Offered
    <2>6. Yielding' = Yielding
        BY <1>1 DEF Yielding
    <2>7. /\ Got = Route(a, b, c, <<>>) /\ Got' = Route(a, b, c, Vals(stream'.downQ))
        BY <1>1, <1>2, <2>1, <2>6, QueueSteps DEF Got
    <2>8. PICK e : e = client.reported + Errs(Yielding) + Errs(stream.down)
        OBVIOUS
    <2>9. /\ e \in Int /\ Errors = e + 0 /\ Errors' = e + Errs(stream'.downQ)
        <3>1. e \in Int
            <4>1. PICK r, y, d : r = client.reported /\ y = Errs(Yielding) /\ d = Errs(stream.down)
                OBVIOUS
            <4>2. r \in Int /\ y \in Int /\ d \in Int /\ e = r + y + d
                BY <2>8, <4>1, DownTypes, Zenon
            <4> QED
                BY <4>2
        <3>2. Errors = e + Errs(stream.downQ)
            BY <2>8, Zenon DEF Errors
        <3>3. Errors' = e + Errs(stream'.downQ)
            BY <1>1, <1>2, <2>6, <2>8, Zenon DEF Errors
        <3> QED
            BY <1>2, <3>1, <3>2, <3>3, QueueSteps
    <2>10. CASE worker.offer = "error"
        <3>1. PICK m : m = Msg(0, 0, TRUE)
            OBVIOUS
        <3>2. m \in Message /\ One(m) = <<>> /\ Weight(m) = 1
            BY <3>1, SendFacts DEF One, Weight, Msg
        <3>3. stream'.downQ = <<m>>
            BY <1>2, <2>10, <3>1
        <3>4. Vals(stream'.downQ) = <<>> /\ Errs(stream'.downQ) = 1
            BY <3>2, <3>3, QueueSteps
        <3>5. Made = Through(OutLen, n) /\ Offered("error") = 1
            BY <2>3, <2>4, <2>10, Lengths DEF Made, Offered
        <3>6. Got' = Made' /\ Errors' + Offered("error")' = worker'.raised
            BY <1>2, <1>4, <2>5, <2>7, <2>9, <3>4, <3>5 DEF Downstream
        <3> QED
            BY <1>1, <1>4, <3>6 DEF Downstream
    <2>11. CASE worker.offer = "value"
        <3>1. PICK x : x = Sized(n, OutLen[n])
            OBVIOUS
        <3>2. n \in Nat \ {0} /\ OutLen[n] \in Nat
            BY <2>4, <2>11, Lengths
        <3>3. stream'.downQ = Send(n, OutLen[n])
            BY <1>2, <2>3, <2>11
        <3>4. Vals(stream'.downQ) = x /\ Errs(stream'.downQ) = 0 /\ x \in Seq(Payload)
            BY <3>1, <3>2, <3>3, SendVals
        <3>5. Made = Through(OutLen, n - 1) /\ Offered("error") = 0
            BY <2>3, <2>11 DEF Made, Offered
        <3>6. Made' = Made \o x
            BY <2>4, <2>5, <2>11, <3>1, <3>5, StreamBounds, ThroughGrows
        <3>7. Puts(a, b, c, x)
            BY <2>2, <3>4, RoutePut, Zenon
        <3>8. Got' = Made'
            BY <1>4, <2>7, <3>4, <3>6, <3>7 DEF Downstream, Puts
        <3>9. Errors' + Offered("error")' = worker'.raised
            BY <1>2, <1>4, <2>5, <2>9, <3>4, <3>5 DEF Downstream
        <3> QED
            BY <1>1, <1>4, <3>8, <3>9 DEF Downstream
    <2> QED
        BY <1>1, <2>10, <2>11
<1> QED
    BY <1>3, <1>4

LEMMA DownMakes ==
    ASSUME TypeOK, Control, Downstream, WorkerSends
    PROVE  Downstream'
<1>1. worker.offer = "none" /\ worker.pc = "run" /\ UNCHANGED <<client, stream, server>>
    BY DEF WorkerSends
<1>2. /\ Yielding' = Yielding /\ Got' = Got /\ Errors' = Errors
      /\ Offered("value") = 0 /\ Offered("error") = 0
    BY <1>1 DEF Yielding, Got, Errors, Offered
<1>3. Made = All
    BY <1>2, DownTypes, Lengths DEF Made, All
<1>4. stream.status # "ok"
    BY <1>1 DEF Control, Closed
<1>5. CASE worker.made < Len(OutLen) /\ worker' = [worker EXCEPT !.made = @ + 1, !.offer = "value"]
    <2>1. PICK n : n = worker.made + 1
        OBVIOUS
    <2>2. /\ worker'.made = n /\ worker'.raised = worker.raised /\ worker'.offer = "value"
          /\ n \in 1..Len(OutLen) /\ n - 1 = worker.made
        BY <1>5, <2>1, Lengths DEF TypeOK, WorkerOK
    <2>3. Made' = Made /\ Offered("error")' = 0
        BY <1>3, <2>2 DEF Made, All, Offered
    <2>4. PICK x \in Seq(Payload) : All' = All \o x
        BY <2>2, StreamBounds, ThroughGrows DEF All
    <2>5. Begins(client.yielded, All')
        BY <2>4, YieldedBegins, DownTypes, BeginsFacts, Zenon
    <2> QED
        BY <1>1, <1>2, <1>4, <2>2, <2>3, <2>5 DEF Downstream
<1>6. CASE worker' = [worker EXCEPT !.raised = @ + 1, !.offer = "error"]
    <2>1. /\ worker'.made = worker.made /\ worker'.raised = worker.raised + 1
          /\ worker'.offer = "error"
        BY <1>6 DEF TypeOK, WorkerOK
    <2>2. Made' = Made /\ All' = All /\ Offered("error")' = 1
        BY <1>2, <2>1 DEF Made, All, Offered
    <2>3. client.out \notin {"wait", "ret"} => Errors' + 1 = worker'.raised
        <3>1. PICK e : e = Errors
            OBVIOUS
        <3>2. client.out \notin {"wait", "ret"} => e + 0 = worker.raised
            BY <1>2, <3>1 DEF Downstream
        <3>3. e \in Int
            <4>1. PICK r, y, d, q : /\ r = client.reported /\ y = Errs(Yielding)
                                    /\ d = Errs(stream.down) /\ q = Errs(stream.downQ)
                OBVIOUS
            <4>2. r \in Int /\ y \in Int /\ d \in Int /\ q \in Int /\ e = r + y + d + q
                BY <3>1, <4>1, DownTypes, Zenon DEF Errors
            <4> QED
                BY <4>2
        <3> QED
            BY <1>2, <2>1, <3>1, <3>2, <3>3
    <2> QED
        BY <1>1, <1>2, <1>4, <2>1, <2>2, <2>3 DEF Downstream
<1> QED
    BY <1>5, <1>6 DEF WorkerSends

\* The end of the client's output: with an error, cancelled, or after all of it.
LEMMA DownEnds ==
    ASSUME TypeOK, Control, Downstream, Refused \/ YieldRefused \/ StreamEnded
    PROVE  Downstream'
<1>1. Begins(client.yielded, All)
    BY YieldedBegins
<1>2. CASE Refused
    <2>1. /\ client'.out = "ret" /\ client'.failed /\ client'.yielded = client.yielded
          /\ UNCHANGED <<stream, worker>>
        BY <1>2 DEF Refused, TypeOK, ClientOK
    <2> QED
        BY <1>1, <2>1 DEF Downstream, All
<1>3. CASE YieldRefused
    <2>1. /\ client'.out = "wait" /\ client'.failed /\ client'.yielded = client.yielded
          /\ UNCHANGED <<stream, worker>>
        BY <1>3 DEF YieldRefused, EndOutput, TypeOK, ClientOK
    <2> QED
        BY <1>1, <2>1 DEF Downstream, All
<1>4. CASE StreamEnded
    <2>1. /\ client'.out = "wait" /\ client'.failed = (stream.status = "lost")
          /\ client'.yielded = client.yielded /\ client'.reported = client.reported
          /\ client'.cancelled = client.cancelled
          /\ UNCHANGED <<stream, worker>> /\ client.out = "recv"
          /\ stream.status # "open" /\ (stream.status = "ok" => stream.down = <<>>)
        BY <1>4 DEF StreamEnded, EndOutput, TypeOK, ClientOK
    <2>2. CASE stream.status = "ok"
        <3>1. stream.down = <<>> /\ stream.downQ = <<>> /\ worker.offer = "none"
            BY <2>1, <2>2 DEF Control, Closed
        <3>2. Yielding = <<>> /\ Offered("value") = 0 /\ Offered("error") = 0
            BY <2>1, <3>1 DEF Yielding, Offered
        <3>3. Made = All
            BY <3>2, DownTypes, Lengths DEF Made, All
        <3>4. Got = client.yielded
            BY <3>1, <3>2, QueueSteps, RouteEnd, DownTypes DEF Got
        <3>5. Errors = client.reported + 0 + 0 + 0
            BY <3>1, <3>2, QueueSteps, Zenon DEF Errors
        <3>6. client.yielded = All /\ client.reported = worker.raised
            <4>1. Got = Made /\ Errors + 0 = worker.raised
                BY <2>1, <3>2 DEF Downstream
            <4>2. client.reported \in Int /\ worker.raised \in Int
                BY DownTypes
            <4> QED
                BY <3>3, <3>4, <3>5, <4>1, <4>2
        <3> QED
            BY <1>1, <2>1, <2>2, <3>6 DEF Downstream, All
    <2>3. CASE stream.status = "canceled"
        <3>1. client.cancelled
            BY <2>3 DEF Control, Closed
        <3> QED
            BY <1>1, <2>1, <3>1 DEF Downstream, All
    <2>4. CASE stream.status = "lost"
        BY <1>1, <2>1, <2>4 DEF Downstream, All
    <2> QED
        BY <2>1, <2>2, <2>3, <2>4 DEF TypeOK, StreamOK
<1> QED
    BY <1>2, <1>3, <1>4

LEMMA DownstreamStep == TypeOK /\ Control /\ Downstream /\ [Next]_vars => Downstream'
<1> SUFFICES ASSUME TypeOK, Control, Downstream, [Next]_vars PROVE Downstream'
    OBVIOUS
<1> DEFINE Idle ==
        /\ UNCHANGED <<client.hold, client.yielded, client.reported, stream.down, stream.downQ,
                       worker.made, worker.raised, worker.offer>>
        /\ client.out = "yield" <=> client.out' = "yield"
        /\ client.out \in {"wait", "ret"} <=> client.out' \in {"wait", "ret"}
        /\ client.failed => client.failed'
        /\ client.cancelled => client.cancelled'
        /\ stream.status = "ok" => stream.status' = "ok"
<1>0. Idle => Downstream'
    BY DownIdle
<1> USE DEF TypeOK, ClientOK, StreamOK, ServerOK, WorkerOK
<1>1. CASE Refused \/ YieldRefused \/ StreamEnded
    BY <1>1, DownEnds
<1>2. CASE Run
    BY <1>0, <1>2 DEF Run
<1>3. CASE ContextDone \/ InputClosed
    <2>1. /\ \E e \in BOOLEAN : client' = [client EXCEPT !.in = "done", !.eof = e]
          /\ stream' = [stream EXCEPT !.sendClosed = TRUE] /\ UNCHANGED worker
        BY <1>3, Zenon DEF ContextDone, InputClosed, EndInput
    <2>2. UNCHANGED <<client.hold, client.yielded, client.reported, client.out, client.failed,
                      client.cancelled>>
        BY <2>1
    <2> QED
        BY <1>0, <2>1, <2>2
<1>4. CASE SeeOutputDone
    BY <1>0, <1>4 DEF SeeOutputDone
<1>5. CASE TakeInput
    <2>1. /\ \E k, i : client' = [client EXCEPT !.taken = k, !.in = i]
          /\ \E q : stream' = [stream EXCEPT !.upQ = q]
          /\ UNCHANGED worker
        BY <1>5, Zenon DEF TakeInput
    <2>2. UNCHANGED <<client.hold, client.yielded, client.reported, client.out, client.failed,
                      client.cancelled>>
        BY <2>1
    <2>3. UNCHANGED <<stream.down, stream.downQ, stream.status>>
        BY <2>1
    <2> QED
        BY <1>0, <2>1, <2>2, <2>3
<1>6. CASE SendUp
    <2>1. /\ UNCHANGED <<client.hold, client.yielded, client.reported, client.out, client.failed,
                         client.cancelled>>
          /\ UNCHANGED <<stream.down, stream.downQ, stream.status>> /\ UNCHANGED worker
        <3>1. CASE stream.upQ = <<>> \/ stream.status # "open"
            <4>1. /\ stream' = [stream EXCEPT !.upQ = <<>>]
                  /\ client' = [client EXCEPT !.in = "select"]
                  /\ UNCHANGED worker
                BY <1>6, <3>1 DEF SendUp
            <4> QED
                BY <4>1
        <3>2. CASE ~(stream.upQ = <<>> \/ stream.status # "open")
            <4>1. /\ stream' = [stream EXCEPT !.up = Append(@, Head(stream.upQ)), !.upQ = Tail(@)]
                  /\ UNCHANGED <<client, worker>>
                BY <1>6, <3>2 DEF SendUp
            <4> QED
                BY <4>1
        <3> QED
            BY <3>1, <3>2
    <2> QED
        BY <1>0, <2>1
<1>7. CASE ClientRecv
    BY <1>7, DownReceives
<1>8. CASE Yield
    BY <1>8, DownYields
<1>10. CASE Return
    BY <1>0, <1>10 DEF Return
<1>11. CASE Serve
    BY <1>0, <1>11 DEF Serve
<1>12. CASE Synchronize
    BY <1>0, <1>12 DEF Synchronize
<1>13. CASE Select
    BY <1>13, DownSelects
<1>14. CASE \E c \in {"errC", "outputC"} : SelectClosed(c)
    BY <1>0, <1>14 DEF SelectClosed
<1>15. CASE SendDown
    <2>1. CASE stream.downQ = <<>>
        <3>1. UNCHANGED <<client, stream, worker>>
            BY <1>15, <2>1 DEF SendDown
        <3> QED
            BY <1>0, <3>1
    <2>2. CASE stream.downQ # <<>>
        BY <1>15, <2>2, DownSends
    <2> QED
        BY <2>1, <2>2
<1>16. CASE ServeEnds \/ ServeAborts
    <2>1. /\ UNCHANGED <<client, worker>>
          /\ \E how \in {"ok", "canceled"} :
               stream' = [stream EXCEPT !.status = IF @ = "open" THEN how ELSE @]
        BY <1>16 DEF ServeEnds, ServeAborts, EndStream
    <2> QED
        BY <1>0, <2>1
<1>17. CASE SetInput
    BY <1>0, <1>17 DEF SetInput
<1>18. CASE InputPass
    BY <1>0, <1>18 DEF InputPass
<1>19. CASE ServerRecv
    BY <1>0, <1>19 DEF ServerRecv
<1>20. CASE InputEnds
    BY <1>0, <1>20 DEF InputEnds
<1>21. CASE WorkerInitialized
    BY <1>0, <1>21 DEF WorkerInitialized
<1>22. CASE WorkerPass
    BY <1>0, <1>22 DEF WorkerPass
<1>23. CASE WorkerReads
    BY <1>0, <1>23 DEF WorkerReads
<1>24. CASE WorkerSends
    BY <1>24, DownMakes
<1>25. CASE WorkerReturns
    BY <1>0, <1>25 DEF WorkerReturns
<1>26. CASE Cancel
    BY <1>0, <1>26 DEF Cancel, Fault
<1>28. CASE Crash
    BY <1>0, <1>28 DEF Crash, Fault
<1>27. CASE UNCHANGED vars
    BY <1>0, <1>27 DEF vars
<1> QED
    BY <1>1, <1>2, <1>3, <1>4, <1>5, <1>6, <1>7, <1>8, <1>10, <1>11, <1>12, <1>13,
       <1>14, <1>15, <1>16, <1>17, <1>18, <1>19, <1>20, <1>21, <1>22, <1>23, <1>24, <1>25,
       <1>26, <1>27, <1>28
       DEF Next, Over, Step, ClientIn, ClientRun, ServerIn, ServerRun, WorkerRun

-----------------------------------------------------------------------------
(***************************************************************************)
(* The theorems.                                                           *)
(***************************************************************************)
IInv == TypeOK /\ Control /\ Upstream /\ Downstream

LEMMA InitIInv == Init => IInv
<1> SUFFICES ASSUME Init PROVE IInv
    OBVIOUS
<1>1. Len(InLen) \in Nat /\ Len(OutLen) \in Nat
    BY Lengths
<1>2. /\ <<>> \in Seq(Payload) /\ <<>> \in Seq(Message)
    OBVIOUS
<1>3. TypeOK
    BY <1>1, <1>2 DEF Init, TypeOK, ClientOK, StreamOK, ServerOK, WorkerOK
<1>4. Control
    BY DEF Init, Control, Gate, Ends, Closed
<1>5. Vals(<<>>) = <<>> /\ Errs(<<>>) = 0 /\ NoError(<<>>)
    BY QueueSteps, NoErrorFacts
<1>6. Route(<<>>, <<>>, <<>>, <<>>) = <<>>
    BY <1>2, RouteEnd
<1>7. Through(InLen, 0) = <<>> /\ Through(OutLen, 0) = <<>>
    BY StreamBounds, ThroughStep
<1>8. Upstream
    <2>1. /\ client.taken = 0 /\ worker.fed = <<>> /\ server.in = "off"
          /\ stream.up = <<>> /\ stream.upQ = <<>>
        BY DEF Init
    <2>2. Held = <<>> /\ Waiting = <<>>
        BY <1>5, <2>1 DEF Held, Waiting
    <2>3. Sent = <<>> /\ Taken = <<>>
        BY <1>5, <1>6, <1>7, <2>1, <2>2 DEF Sent, Taken
    <2>4. Begins(Sent, Taken)
        BY <1>2, <2>3, BeginsFacts
    <2> QED
        BY <1>5, <2>1, <2>3, <2>4 DEF Upstream
<1>9. Downstream
    <2>1. /\ client.out = "open" /\ client.yielded = <<>> /\ client.reported = 0
          /\ stream.down = <<>> /\ stream.downQ = <<>>
          /\ worker.made = 0 /\ worker.raised = 0 /\ worker.offer = "none"
        BY DEF Init
    <2>2. Yielding = <<>> /\ Offered("value") = 0 /\ Offered("error") = 0
        BY <2>1 DEF Yielding, Offered
    <2>3. Got = <<>> /\ Errors = 0
        BY <1>5, <1>6, <2>1, <2>2 DEF Got, Errors
    <2>4. Made = <<>>
        BY <1>7, <2>1, <2>2 DEF Made
    <2> QED
        BY <2>1, <2>2, <2>3, <2>4 DEF Downstream
<1> QED
    BY <1>3, <1>4, <1>8, <1>9 DEF IInv

LEMMA StepIInv == IInv /\ [Next]_vars => IInv'
<1> SUFFICES ASSUME IInv, [Next]_vars PROVE IInv'
    OBVIOUS
<1>1. TypeOK'
    BY TypeStep DEF IInv
<1>2. Control'
    BY ControlStep DEF IInv
<1>3. Upstream'
    BY <1>1, UpstreamStep DEF IInv
<1>4. Downstream'
    BY DownstreamStep DEF IInv
<1> QED
    BY <1>1, <1>2, <1>3, <1>4 DEF IInv

\* The inductive invariant: types, the control of both ends, and the account of
\* every value and error under way.
THEOREM Inductive == Spec => []IInv
<1> QED
    BY InitIInv, StepIInv, PTL DEF Spec

\* The worker looks at its input field only after SetInput: the barrier counts
\* SetInput's goroutine and the worker's own, and opens at zero.
THEOREM InputBeforeWorkHolds == Spec => []InputBeforeWork
<1>1. IInv => InputBeforeWork
    BY DEF IInv, Control, Gate, TypeOK, ServerOK, InputBeforeWork
<1> QED
    BY <1>1, Inductive, PTL

\* Payloads of any lengths the stream carries arrive whole, once and in order, in
\* both directions, whatever fails on the way.
THEOREM WholeHolds == Spec => []Whole
<1>1. ASSUME IInv PROVE Whole
    <2>1. IsPrefix(worker.fed, Taken)
        <3>1. PICK r : r = Vals(Held) \o (Vals(stream.up) \o Waiting)
            OBVIOUS
        <3>2. r \in Seq(Payload) /\ worker.fed \in Seq(Payload) /\ Taken \in Seq(Payload)
            <4>1. PICK b, c, d : b = Vals(Held) /\ c = Vals(stream.up) /\ d = Waiting
                OBVIOUS
            <4>2. b \in Seq(Payload) /\ c \in Seq(Payload) /\ d \in Seq(Payload)
                BY <1>1, <4>1, Parts, Zenon DEF IInv
            <4>3. b \o (c \o d) \in Seq(Payload)
                BY <4>2
            <4> QED
                BY <1>1, <3>1, <4>1, <4>3, Parts DEF IInv
        <3>3. Begins(worker.fed \o r, Taken)
            BY <1>1, <3>1 DEF IInv, Upstream, Sent, Route
        <3> QED
            BY <3>2, <3>3, BeginsFacts, Zenon
    <2>2. IsPrefix(client.yielded, All)
        BY <1>1, YieldedBegins, DownTypes, BeginsFacts, Zenon DEF IInv
    <2> QED
        BY <2>1, <2>2 DEF Whole, Taken, All
<1> QED
    BY <1>1, Inductive, PTL

\* A Run that returns without an error and was not cancelled has yielded every
\* value and every error of the plugin's worker: no stream ends well early.
THEOREM CompleteReturnHolds == Spec => []CompleteReturn
<1>1. IInv => CompleteReturn
    BY DEF IInv, Downstream, CompleteReturn, All
<1> QED
    BY <1>1, Inductive, PTL

\* Every step of the client is one of the patient runner, or none: it never
\* returns while its input is neither drained nor excused.
LEMMA StageStep == IInv /\ IInv' /\ [Next]_vars => [Stage!Next]_(Stage!vars)
<1> SUFFICES ASSUME IInv, IInv', [Next]_vars PROVE [Stage!Next]_(Stage!vars)
    OBVIOUS
<1> USE DEF TypeOK, ClientOK
<1>0. TypeOK /\ Control
    BY DEF IInv
<1>1. UNCHANGED client => UNCHANGED Stage!vars
    BY DEF Stage!vars
<1>2. CASE Refused
    <2>1. /\ client.out = "open" /\ client.in = "off" /\ ~client.cancelled
          /\ client'.out = "ret" /\ client'.in = "off"
          /\ client'.taken = client.taken /\ client'.eof = client.eof
        BY <1>0, <1>2 DEF Refused, Control, Ends
    <2>2. Stage!Excuse
        BY <2>1 DEF Stage!Excuse
    <2> QED
        BY <2>2 DEF Stage!Next
<1>3. CASE Run
    <2>1. /\ client.out = "open" /\ client'.out = "recv" /\ client'.in = "select"
          /\ client'.taken = client.taken /\ client'.eof = client.eof
          /\ client'.cancelled = client.cancelled
        BY <1>0, <1>3 DEF Run
    <2> QED
        BY <2>1 DEF Stage!vars
<1>4. CASE ContextDone
    <2>1. /\ client.in = "select" /\ client'.in = "done" /\ client'.eof = FALSE /\ client.eof = FALSE
          /\ client'.out = client.out /\ client'.taken = client.taken /\ client.out # "ret"
          /\ client'.cancelled = client.cancelled /\ client.cancelled
        BY <1>0, <1>4 DEF ContextDone, EndInput, Control, Ends
    <2> QED
        BY <2>1 DEF Stage!vars
<1>5. CASE InputClosed
    <2>1. /\ client.in = "select" /\ client'.in = "done" /\ client'.eof = TRUE /\ ~client.eof
          /\ client'.out = client.out /\ client'.taken = client.taken /\ client.out # "ret"
          /\ client'.cancelled = client.cancelled /\ client.taken = Len(InLen)
        BY <1>0, <1>5 DEF InputClosed, EndInput, Control, Ends
    <2>2. Stage!SeeEnd
        BY <2>1 DEF Stage!SeeEnd
    <2> QED
        BY <2>2 DEF Stage!Next
<1>6. CASE TakeInput
    <2>1. /\ client.in = "select" /\ client'.in \in {"select", "send"} /\ client'.eof = client.eof
          /\ client'.out = client.out /\ client'.taken = client.taken + 1 /\ client.out # "ret"
          /\ client'.cancelled = client.cancelled /\ client.taken + 1 <= Len(InLen)
          /\ client.taken \in Nat
        BY <1>0, <1>6, Lengths DEF TakeInput, Control, Ends
    <2>2. Stage!Read
        BY <2>1, Lengths DEF Stage!Read
    <2> QED
        BY <2>2 DEF Stage!Next
<1>7. CASE Return
    <2>1. /\ client.in = "done" /\ client.out = "wait" /\ client'.out = "ret"
          /\ client'.in = "done" /\ client'.eof = client.eof /\ client'.taken = client.taken
          /\ client'.cancelled = client.cancelled /\ (client.eof \/ client.cancelled)
        BY <1>0, <1>7 DEF Return, Control, Ends
    <2>2. Stage!Return
        BY <2>1 DEF Stage!Return
    <2> QED
        BY <2>2 DEF Stage!Next
<1>8. CASE Cancel
    <2>1. /\ ~client.cancelled /\ client'.cancelled = TRUE /\ client.in # "off"
          /\ client'.out = client.out /\ client'.eof = client.eof /\ client'.taken = client.taken
        BY <1>0, <1>8 DEF Cancel, Fault, Control, Ends, Closed
    <2>2. Stage!Excuse
        BY <2>1 DEF Stage!Excuse
    <2> QED
        BY <2>2 DEF Stage!Next
<1>9. CASE SeeOutputDone \/ SendUp \/ ClientRecv \/ Yield \/ YieldRefused \/ StreamEnded
    <2>1. /\ client'.taken = client.taken /\ client'.eof = client.eof
          /\ client'.cancelled = client.cancelled
          /\ client.in = "off" <=> client'.in = "off"
          /\ client.out = "ret" <=> client'.out = "ret"
        <3>1. CASE SeeOutputDone
            BY <1>0, <3>1 DEF SeeOutputDone
        <3>2. CASE SendUp
            <4>1. client.in = "send" /\ client' \in {client, [client EXCEPT !.in = "select"]}
                BY <3>2 DEF SendUp
            <4> QED
                BY <1>0, <4>1
        <3>3. CASE ClientRecv
            BY <1>0, <3>3 DEF ClientRecv
        <3>4. CASE Yield
            BY <1>0, <3>4 DEF Yield
        <3>5. CASE YieldRefused \/ StreamEnded
            BY <1>0, <3>5 DEF YieldRefused, StreamEnded, EndOutput
        <3> QED
            BY <1>9, <3>1, <3>2, <3>3, <3>4, <3>5
    <2> QED
        BY <2>1 DEF Stage!vars
<1>10. CASE ServerIn \/ ServerRun \/ WorkerRun \/ Crash \/ UNCHANGED vars
    <2>1. UNCHANGED client
        BY <1>10, Zenon DEF ServerIn, ServerRun, WorkerRun, Crash, vars, SetInput, InputPass, ServerRecv,
                     InputEnds, Serve, Synchronize, Select, SendDown, ServeEnds, ServeAborts,
                     EndStream, SelectClosed, WorkerInitialized, WorkerPass, WorkerReads,
                     WorkerSends, WorkerReturns
    <2> QED
        BY <1>1, <2>1
<1> QED
    BY <1>2, <1>3, <1>4, <1>5, <1>6, <1>7, <1>8, <1>9, <1>10
       DEF Next, Over, Step, ClientIn, ClientRun

\* The client implements what Pipeline takes a plugin's runner for, but for
\* its fairness.
THEOREM RefinesRunner == Spec => Stage!Safety
<1>1. Init => Stage!Init
    BY DEF Init, Stage!Init
<1> QED
    BY <1>1, Inductive, StageStep, PTL DEF Spec, Stage!Safety
=============================================================================
