----------------------------- MODULE ShellProofs -----------------------------
(***************************************************************************)
(* Theorems about Shell, for any number of values and lines, any of which  *)
(* may be empty or too long, and pipes of any room.  The induction over    *)
(* the lines comes from the least counterexample (lemmas Least and         *)
(* Induction): the library's theorems that take an operator cannot be used *)
(* with the provers at hand.                                               *)
(***************************************************************************)
EXTENDS Shell, SequenceTheorems, WellFoundedInduction, TLAPS

NatBefore == {ss \in Nat \X Nat : ss[1] < ss[2]}

LEMMA Least ==
    ASSUME NEW T, T \subseteq Nat, T # {}
    PROVE  \E n \in T : \A m \in T : n <= m
<1>1. ASSUME NEW m \in Nat, NEW n \in Nat, m < n
      PROVE  <<m, n>> \in NatBefore
    BY <1>1, SMT DEF NatBefore
<1>2. IsWellFoundedOn(NatBefore, Nat)
    BY NatLessThanWellFounded DEF OpToRel, NatBefore
<1>3. PICK n \in T : \A m \in T : ~(<<m, n>> \in NatBefore)
    BY <1>2, WFMin
<1>4. \A m \in T : ~(m < n)
    BY <1>1, <1>3
<1> QED
    BY <1>4

LEMMA Induction ==
    ASSUME NEW S, S \subseteq Nat, 0 \in S, \A n \in S : n + 1 \in S
    PROVE  S = Nat
<1> SUFFICES ASSUME S # Nat PROVE FALSE
    OBVIOUS
<1>1. PICK n \in Nat \ S : \A m \in Nat \ S : n <= m
    BY Least
<1>2. n # 0 /\ n - 1 \in Nat
    BY <1>1
<1>3. n - 1 \in S
    BY <1>1, <1>2
<1>4. (n - 1) + 1 \in S
    BY <1>3
<1> QED
    BY <1>1, <1>4

-----------------------------------------------------------------------------
(***************************************************************************)
(* Shown, line by line.                                                    *)
(***************************************************************************)
\* The equation of the function in Shown, up to place n.
Shows(f, s, n) ==
    f = [i \in 0..n |-> IF i = 0 THEN <<>>
                        ELSE IF s[i] \in Empty THEN f[i - 1] ELSE Append(f[i - 1], s[i])]

More(t, e) == IF e \in Empty THEN t ELSE Append(t, e)

LEMMA ShowsStep ==
    ASSUME NEW f, NEW s, NEW n \in Nat, Shows(f, s, n)
    PROVE  f[0] = <<>> /\ \A i \in 1..n : f[i] = More(f[i - 1], s[i])
<1>1. f = [i \in 0..n |-> IF i = 0 THEN <<>>
                          ELSE IF s[i] \in Empty THEN f[i - 1] ELSE Append(f[i - 1], s[i])]
    BY DEF Shows
<1>2. 0 \in 0..n /\ \A i \in 1..n : i \in 0..n /\ i # 0
    OBVIOUS
<1> QED
    BY <1>1, <1>2, Zenon DEF More

LEMMA ShowsExists ==
    ASSUME NEW s, NEW n \in Nat
    PROVE  \E f : Shows(f, s, n)
<1> DEFINE S == {m \in Nat : \E f : Shows(f, s, m)}
<1>1. 0 \in S
    <2> DEFINE f == [i \in 0..0 |-> <<>>]
    <2>1. \A i \in 0..0 : i = 0
        OBVIOUS
    <2>2. Shows(f, s, 0)
        BY <2>1, Zenon DEF Shows
    <2> QED
        BY <2>2
<1>2. ASSUME NEW m \in S PROVE m + 1 \in S
    <2>1. PICK f : Shows(f, s, m)
        OBVIOUS
    <2> DEFINE g == [i \in 0..(m + 1) |-> IF i = m + 1 THEN More(f[m], s[i]) ELSE f[i]]
    <2>2. m \in Nat /\ f[0] = <<>> /\ \A i \in 1..m : f[i] = More(f[i - 1], s[i])
        BY <2>1, ShowsStep
    <2>3. ASSUME NEW i \in 0..(m + 1)
          PROVE  g[i] = IF i = 0 THEN <<>> ELSE More(g[i - 1], s[i])
        <3>1. CASE i = 0
            BY <2>2, <3>1
        <3>2. CASE i \in 1..m
            <4>1. g[i] = f[i] /\ g[i - 1] = f[i - 1] /\ i # 0
                BY <2>2, <3>2
            <4> QED
                BY <2>2, <3>2, <4>1, Zenon
        <3>3. CASE i = m + 1
            <4>1. i - 1 = m /\ i # 0 /\ g[i - 1] = f[m]
                BY <2>2, <3>3
            <4>2. g[i] = More(f[m], s[i])
                BY <3>3, Zenon
            <4> QED
                BY <4>1, <4>2, Zenon
        <3> QED
            BY <2>2, <3>1, <3>2, <3>3
    <2>4. g = [i \in 0..(m + 1) |-> g[i]]
        OBVIOUS
    <2>5. Shows(g, s, m + 1)
        <3> HIDE DEF g
        <3> QED
            BY <2>3, <2>4, Zenon DEF Shows, More
    <2> QED
        BY <2>5
<1>3. S = Nat
    <2> HIDE DEF S
    <2>1. S \subseteq Nat
        BY DEF S
    <2> QED
        BY <1>1, <1>2, <2>1, Induction
<1> QED
    BY <1>3

\* Two functions of the kind agree as far as their lines do.
LEMMA ShowsAgree ==
    ASSUME NEW s, NEW t, NEW n \in Nat, NEW m \in Nat, m <= n, NEW f, NEW g,
           Shows(f, s, n), Shows(g, t, m), \A i \in 1..m : s[i] = t[i]
    PROVE  g[m] = f[m]
<1> DEFINE S == {i \in Nat : i <= m => g[i] = f[i]}
<1>1. f[0] = <<>> /\ \A i \in 1..n : f[i] = More(f[i - 1], s[i])
    BY ShowsStep
<1>2. g[0] = <<>> /\ \A i \in 1..m : g[i] = More(g[i - 1], t[i])
    BY ShowsStep
<1>3. 0 \in S
    BY <1>1, <1>2
<1>4. ASSUME NEW i \in S PROVE i + 1 \in S
    <2> SUFFICES ASSUME i + 1 <= m PROVE g[i + 1] = f[i + 1]
        OBVIOUS
    <2>1. i + 1 \in 1..m /\ i + 1 \in 1..n /\ (i + 1) - 1 = i /\ g[i] = f[i]
        OBVIOUS
    <2> QED
        BY <1>1, <1>2, <2>1
<1>5. S = Nat
    <2> HIDE DEF S
    <2>1. S \subseteq Nat
        BY DEF S
    <2> QED
        BY <1>3, <1>4, <2>1, Induction
<1> QED
    BY <1>5

LEMMA ShownIs ==
    ASSUME NEW s, NEW n, n = Len(s), n \in Nat
    PROVE  \E f : Shows(f, s, n) /\ Shown(s) = f[n]
<1> DEFINE h == CHOOSE f : Shows(f, s, n)
<1>1. Shows(h, s, n)
    BY ShowsExists
<1>2. Shown(s) = h[n]
    BY Zenon DEF Shown, Shows
<1> QED
    BY <1>1, <1>2

LEMMA ShownAppend ==
    /\ Shown(<<>>) = <<>>
    /\ \A s \in Seq(Nat), e \in Nat : Shown(Append(s, e)) = More(Shown(s), e)
<1>1. Shown(<<>>) = <<>>
    <2>1. PICK n : n = Len(<<>>) /\ n = 0 /\ n \in Nat
        OBVIOUS
    <2>2. PICK f : Shows(f, <<>>, n) /\ Shown(<<>>) = f[n]
        BY <2>1, ShownIs
    <2> QED
        BY <2>1, <2>2, ShowsStep
<1>2. ASSUME NEW s \in Seq(Nat), NEW e \in Nat
      PROVE  Shown(Append(s, e)) = More(Shown(s), e)
    <2>1. PICK n, t : n = Len(s) /\ t = Append(s, e)
        OBVIOUS
    <2>2. /\ n \in Nat /\ n + 1 \in Nat /\ Len(t) = n + 1 /\ t[n + 1] = e
          /\ \A i \in 1..n : t[i] = s[i]
        BY <2>1, AppendProperties
    <2>3. PICK f : Shows(f, t, n + 1) /\ Shown(t) = f[n + 1]
        BY <2>2, ShownIs
    <2>4. PICK g : Shows(g, s, n) /\ Shown(s) = g[n]
        BY <2>1, <2>2, ShownIs
    <2>5. n <= n + 1 /\ n + 1 \in 1..(n + 1) /\ (n + 1) - 1 = n
        BY <2>2
    <2>6. g[n] = f[n]
        BY <2>2, <2>3, <2>4, <2>5, ShowsAgree
    <2>7. f[n + 1] = More(f[n], t[n + 1])
        BY <2>2, <2>3, <2>5, ShowsStep
    <2> QED
        BY <2>1, <2>2, <2>3, <2>4, <2>6, <2>7
<1> QED
    BY <1>1, <1>2

-----------------------------------------------------------------------------
(***************************************************************************)
(* The lines k + 1 .. n, and what is shown of them.                        *)
(***************************************************************************)
Between(k, n) == [i \in 1..(n - k) |-> k + i]

LEMMA BetweenFacts ==
    ASSUME NEW k \in Nat, NEW n \in Nat, k <= n
    PROVE  /\ Between(k, n) \in Seq(Nat) /\ Len(Between(k, n)) = n - k
           /\ Between(k, k) = <<>>
           /\ Between(k, n + 1) = Append(Between(k, n), n + 1)
           /\ k < n => /\ Between(k, n) # <<>> /\ Head(Between(k, n)) = k + 1
                       /\ Tail(Between(k, n)) = Between(k + 1, n)
<1>1. n - k \in Nat /\ k - k = 0 /\ (n + 1) - k = (n - k) + 1
    OBVIOUS
<1>2. Between(k, n) \in Seq(Nat) /\ Len(Between(k, n)) = n - k
    BY <1>1 DEF Between
<1>3. Between(k, k) = <<>>
    BY DEF Between
<1>4. Between(k, n + 1) = Append(Between(k, n), n + 1)
    <2>1. PICK b, c, d : b = Between(k, n) /\ c = Between(k, n + 1) /\ d = n - k
        OBVIOUS
    <2>2. /\ b \in Seq(Nat) /\ Len(b) = d /\ d \in Nat /\ \A i \in 1..d : b[i] = k + i
          /\ c \in Seq(Nat) /\ Len(c) = d + 1 /\ \A i \in 1..(d + 1) : c[i] = k + i
        BY <1>1, <1>2, <2>1 DEF Between
    <2>3. k + (d + 1) = n + 1
        BY <2>1
    <2>4. PICK a : a = Append(b, n + 1)
        OBVIOUS
    <2>5. /\ a \in Seq(Nat) /\ Len(a) = d + 1 /\ a[d + 1] = n + 1
          /\ \A i \in 1..d : a[i] = b[i]
        BY <2>2, <2>4, AppendProperties
    <2>6. \A i \in 1..(d + 1) : a[i] = c[i]
        BY <2>2, <2>3, <2>5
    <2>7. a = c
        BY <2>2, <2>5, <2>6, SeqEqual
    <2> QED
        BY <2>1, <2>4, <2>7
<1>5. ASSUME k < n
      PROVE  /\ Between(k, n) # <<>> /\ Head(Between(k, n)) = k + 1
             /\ Tail(Between(k, n)) = Between(k + 1, n)
    <2>1. PICK b, c, d : b = Between(k, n) /\ c = Between(k + 1, n) /\ d = n - k
        OBVIOUS
    <2>2. /\ b \in Seq(Nat) /\ Len(b) = d /\ d \in Nat \ {0} /\ \A i \in 1..d : b[i] = k + i
          /\ c \in Seq(Nat) /\ Len(c) = d - 1 /\ \A i \in 1..(d - 1) : c[i] = (k + 1) + i
        BY <1>1, <1>2, <1>5, <2>1 DEF Between
    <2>3. b # <<>> /\ Head(b) = k + 1
        BY <2>2
    <2>4. PICK a : a = Tail(b)
        OBVIOUS
    <2>5. a \in Seq(Nat) /\ Len(a) = d - 1 /\ \A i \in 1..(d - 1) : a[i] = b[i + 1]
        BY <2>2, <2>3, <2>4
    <2>6. \A i \in 1..(d - 1) : a[i] = c[i]
        BY <2>2, <2>5
    <2>7. a = c
        BY <2>2, <2>5, <2>6, SeqEqual
    <2> QED
        BY <2>1, <2>3, <2>4, <2>7
<1> QED
    BY <1>2, <1>3, <1>4, <1>5

\* What is shown of the first n lines.
First(n) == Shown(Between(0, n))

LEMMA FirstFacts ==
    /\ First(0) = <<>>
    /\ \A n \in Nat : First(n) \in Seq(Nat) /\ First(n + 1) = More(First(n), n + 1)
<1>1. First(0) = <<>>
    BY BetweenFacts, ShownAppend DEF First
<1>2. ASSUME NEW n \in Nat PROVE First(n + 1) = More(First(n), n + 1)
    <2>1. PICK b, c, m : b = Between(0, n) /\ c = Between(0, n + 1) /\ m = n + 1
        OBVIOUS
    <2>2. 0 \in Nat /\ 0 <= n /\ m \in Nat
        BY <2>1
    <2>3. b \in Seq(Nat) /\ c = Append(b, m)
        BY <2>1, <2>2, BetweenFacts
    <2>4. Shown(c) = More(Shown(b), m)
        BY <2>2, <2>3, ShownAppend
    <2> QED
        BY <2>1, <2>4 DEF First
<1> DEFINE S == {n \in Nat : First(n) \in Seq(Nat)}
<1>3. 0 \in S
    <2>1. <<>> \in Seq(Nat)
        OBVIOUS
    <2> QED
        BY <1>1, <2>1
<1>4. ASSUME NEW n \in S PROVE n + 1 \in S
    <2>1. PICK f, m : f = First(n) /\ m = n + 1
        OBVIOUS
    <2>2. f \in Seq(Nat) /\ m \in Nat /\ First(m) = More(f, m)
        BY <1>2, <2>1
    <2>3. First(m) \in Seq(Nat)
        BY <2>2 DEF More
    <2> QED
        BY <2>1, <2>2, <2>3
<1>5. S = Nat
    <2> HIDE DEF S
    <2>1. S \subseteq Nat
        BY DEF S
    <2> QED
        BY <1>3, <1>4, <2>1, Induction
<1> QED
    BY <1>1, <1>2, <1>5

\* The first n lines are the first k and those between.
LEMMA FirstSplits ==
    ASSUME NEW k \in Nat, NEW n \in Nat, k <= n
    PROVE  /\ Shown(Between(k, n)) \in Seq(Nat)
           /\ First(k) \o Shown(Between(k, n)) = First(n)
<1> DEFINE Right(m) == /\ Shown(Between(k, m)) \in Seq(Nat)
                       /\ First(k) \o Shown(Between(k, m)) = First(m)
           S == {i \in Nat : Right(k + i)}
<1>1. 0 \in S
    <2>1. Shown(Between(k, k)) = <<>>
        BY BetweenFacts, ShownAppend
    <2>2. First(k) \in Seq(Nat) /\ First(k) \o <<>> = First(k)
        BY FirstFacts, ConcatEmptySeq
    <2>3. k + 0 = k
        OBVIOUS
    <2> QED
        BY <2>1, <2>2, <2>3
<1>2. ASSUME NEW i \in S PROVE i + 1 \in S
    <2>1. PICK m, b, c, f : /\ m = k + i /\ b = Between(k, m) /\ c = Shown(b) /\ f = First(k)
                            /\ m \in Nat /\ k <= m /\ k + (i + 1) = m + 1
        OBVIOUS
    <2>2. c \in Seq(Nat) /\ f \o c = First(m)
        BY <2>1
    <2>3. f \in Seq(Nat) /\ First(m + 1) = More(First(m), m + 1)
        BY <2>1, FirstFacts
    <2>4. b \in Seq(Nat) /\ Between(k, m + 1) = Append(b, m + 1)
        BY <2>1, BetweenFacts
    <2>5. Shown(Between(k, m + 1)) = More(c, m + 1)
        <3>1. m + 1 \in Nat
            BY <2>1
        <3>2. Shown(Append(b, m + 1)) = More(Shown(b), m + 1)
            BY <2>4, <3>1, ShownAppend
        <3> QED
            BY <2>1, <2>4, <3>2
    <2>6. More(c, m + 1) \in Seq(Nat) /\ f \o More(c, m + 1) = More(f \o c, m + 1)
        <3>1. CASE m + 1 \in Empty
            BY <2>2, <3>1 DEF More
        <3>2. CASE m + 1 \notin Empty
            <4>1. Append(c, m + 1) \in Seq(Nat) /\ f \o Append(c, m + 1) = Append(f \o c, m + 1)
                BY <2>1, <2>2, <2>3, SMTT(30)
            <4> QED
                BY <3>2, <4>1 DEF More
        <3> QED
            BY <3>1, <3>2
    <2>7. Right(m + 1)
        BY <2>1, <2>2, <2>3, <2>5, <2>6
    <2> QED
        BY <2>1, <2>7
<1>3. S = Nat
    <2> HIDE DEF S
    <2>1. S \subseteq Nat
        BY DEF S
    <2> QED
        BY <1>1, <1>2, <2>1, Induction
<1>4. n - k \in S /\ k + (n - k) = n
    <2> HIDE DEF S
    <2> QED
        BY <1>3
<1> QED
    BY <1>4

-----------------------------------------------------------------------------
(***************************************************************************)
(* The inductive invariant: with k lines shown and m lines read, what the  *)
(* scanner's buffer and the pipe hold is the rest, until the plugin's end  *)
(* of the pipe is closed behind a child that has exited, or by a reader    *)
(* that gave up.                                                           *)
(***************************************************************************)
Records ==
    /\ DOMAIN stdin = {"held", "open"} /\ DOMAIN stdout = {"held", "open"}
    /\ DOMAIN child = {"pc", "owes", "printed", "failed"} /\ DOMAIN scan = {"pc", "buf"}
    /\ child.printed \in Nat

Lost == Reaped /\ child.pc = "exited" /\ stdout.held = <<>>

\* The reader gave up: at a refused yield, or at line k + 1.
GaveUp(k) ==
    /\ scan.pc = "ended"
    /\ ctx # {} \/ (k + 1 \in Long /\ k + 1 <= child.printed)

Account(k, m) ==
    /\ k <= m /\ m <= child.printed /\ delivered = First(k)
    /\ \/ GaveUp(k)
       \/ /\ scan.buf = Between(k, m)
          /\ stdout.held = Between(m, child.printed) \/ Lost

\* Who closes the plugin's end of the child's output.
Shut ==
    /\ run = "init" => scan.pc = "off"
    /\ scan.pc = "ended" => ~stdout.open
    /\ stdout.open \/ scan.pc = "ended" \/ (Reaped /\ child.pc = "exited")

Sending == scan.pc = "send" => scan.buf # <<>> /\ Head(scan.buf) \notin Empty

IInv ==
    /\ Records /\ (\E k, m \in Nat : Account(k, m)) /\ Sending /\ Shut
    /\ Alive \/ Reaped

LEMMA InitIInv == Init => IInv
<1> SUFFICES ASSUME Init PROVE IInv
    OBVIOUS
<1>1. Records /\ Sending /\ Shut /\ Alive /\ child.printed = 0
    BY DEF Init, Records, Sending, Shut, Alive
<1>2. First(0) = <<>> /\ Between(0, 0) = <<>>
    <2>1. 0 \in Nat /\ 0 <= 0
        OBVIOUS
    <2> QED
        BY <2>1, FirstFacts, BetweenFacts, Zenon
<1>3. Account(0, 0)
    BY <1>1, <1>2 DEF Init, Account
<1> QED
    BY <1>1, <1>3 DEF IInv

\* Nothing moves between the pipe, the buffer and the reader.
LEMMA Still ==
    ASSUME IInv, Records', child'.printed = child.printed, UNCHANGED delivered,
           scan'.buf = scan.buf, stdout'.held = stdout.held, Sending', Shut',
           scan.pc = "ended" => scan'.pc = "ended", ctx # {} => ctx' # {},
           Reaped => Reaped', child.pc = "exited" => child'.pc = "exited", Alive' \/ Reaped'
    PROVE  IInv'
<1>1. PICK k \in Nat, m \in Nat : Account(k, m)
    BY DEF IInv
<1>2. Account(k, m)'
    BY <1>1 DEF Account, GaveUp, Lost
<1> QED
    BY <1>2 DEF IInv

LEMMA MainStep ==
    ASSUME IInv, Alive, Main \/ Report
    PROVE  IInv'
<1> USE DEF Reaped, Alive
<1>1. Records /\ Sending /\ Shut
    BY DEF IInv
<1>2. CASE Start
    <2>1. /\ child' = [child EXCEPT !.pc = "run"] /\ scan' = [scan EXCEPT !.pc = "scan"]
          /\ run = "init" /\ run' = "select" /\ scan.pc = "off"
          /\ UNCHANGED <<stdin, stdout, delivered>>
        BY <1>1, <1>2 DEF Start, Shut
    <2>2. PICK k \in Nat, m \in Nat : Account(k, m)
        BY DEF IInv
    <2>3. /\ Records' /\ child'.printed = child.printed /\ scan'.buf = scan.buf
          /\ scan'.pc = "scan" /\ stdout'.held = stdout.held
        BY <1>1, <2>1 DEF Records
    <2>4. Sending' /\ Shut'
        BY <1>1, <2>1, <2>3 DEF Sending, Shut
    <2>5. Account(k, m)'
        BY <2>1, <2>2, <2>3 DEF Account, GaveUp, Lost
    <2> QED
        BY <2>3, <2>4, <2>5 DEF IInv
<1>3. CASE StartFails \/ Take \/ Write \/ EndInput
    <2>1. /\ UNCHANGED <<stdout, child, scan, delivered, ctx>> /\ ~Reaped /\ run' # "init"
          /\ stdin' = stdin \/ (\E h : stdin' = [stdin EXCEPT !.held = h])
             \/ (\E o : stdin' = [stdin EXCEPT !.open = o])
        BY <1>3 DEF StartFails, Take, Write, EndInput
    <2>2. Records'
        BY <1>1, <2>1 DEF Records
    <2>3. Sending' /\ Shut'
        BY <1>1, <2>1 DEF Sending, Shut
    <2> QED
        BY <2>1, <2>2, <2>3, Still
<1>4. CASE Wait
    <2>1. /\ child.pc = "exited" /\ run' \in {"errC", "close"}
          /\ stdout' = [held |-> <<>>, open |-> FALSE]
          /\ UNCHANGED <<stdin, child, scan, delivered, ctx>>
        BY <1>4 DEF Wait
    <2>2. PICK k \in Nat, m \in Nat : Account(k, m)
        BY DEF IInv
    <2>3. Records' /\ Sending' /\ Shut'
        BY <1>1, <2>1 DEF Records, Sending, Shut
    <2>4. Account(k, m)'
        BY <2>1, <2>2 DEF Account, GaveUp, Lost
    <2> QED
        BY <2>1, <2>3, <2>4 DEF IInv
<1>5. CASE Report \/ Close \/ RunnerCancel
    <2>1. /\ UNCHANGED <<stdin, stdout, child, scan, delivered>> /\ Reaped' /\ run' # "init"
          /\ ctx # {} => ctx' # {}
        BY <1>5 DEF Report, Close, RunnerCancel
    <2>2. Records' /\ Sending' /\ Shut'
        BY <1>1, <2>1 DEF Records, Sending, Shut
    <2> QED
        BY <2>1, <2>2, Still
<1> QED
    BY <1>2, <1>3, <1>4, <1>5 DEF Main

LEMMA ChildStep ==
    ASSUME IInv, Alive, Child \/ ChildDies
    PROVE  IInv'
<1> USE DEF Reaped, Alive
<1>1. Records /\ Sending /\ Shut
    BY DEF IInv
<1>2. ASSUME NEW p, NEW o, NEW f,
             child' = [child EXCEPT !.pc = p, !.owes = o, !.failed = f],
             child.pc = "exited" => p = "exited",
             UNCHANGED <<run, stdout, scan, delivered, ctx>>, DOMAIN stdin' = DOMAIN stdin
      PROVE  IInv'
    <2>1. DOMAIN child' = DOMAIN child /\ child'.printed = child.printed /\ child'.pc = p
        BY <1>1, <1>2 DEF Records
    <2>2. Records' /\ Sending' /\ Shut'
        BY <1>1, <1>2, <2>1 DEF Records, Sending, Shut
    <2> QED
        BY <1>2, <2>1, <2>2, Still
<1>3. CASE ChildReads
    <2>1. PICK o : child' = [child EXCEPT !.owes = o]
        BY <1>3 DEF ChildReads
    <2>2. child' = [child EXCEPT !.pc = child.pc, !.owes = o, !.failed = child.failed]
        BY <1>1, <2>1 DEF Records
    <2>3. DOMAIN stdin' = DOMAIN stdin /\ UNCHANGED <<run, stdout, scan, delivered, ctx>>
        BY <1>1, <1>3 DEF ChildReads, Records
    <2> QED
        BY <1>2, <2>2, <2>3
<1>4. CASE ChildEof
    <2>1. PICK o : child' = [child EXCEPT !.pc = "ending", !.owes = o]
        BY <1>4 DEF ChildEof
    <2>2. child' = [child EXCEPT !.pc = "ending", !.owes = o, !.failed = child.failed]
        BY <1>1, <2>1 DEF Records
    <2>3. child.pc = "run" /\ UNCHANGED <<run, stdin, stdout, scan, delivered, ctx>>
        BY <1>4 DEF ChildEof
    <2> QED
        BY <1>2, <2>2, <2>3
<1>5. CASE ChildDone
    <2>1. child' = [child EXCEPT !.pc = "exited"] /\ UNCHANGED <<run, stdin, stdout, scan, delivered, ctx>>
        BY <1>5 DEF ChildDone
    <2>2. child' = [child EXCEPT !.pc = "exited", !.owes = child.owes, !.failed = child.failed]
        BY <1>1, <2>1 DEF Records
    <2> QED
        BY <1>2, <2>1, <2>2
<1>6. CASE ChildDies
    <2>1. /\ child' = [child EXCEPT !.pc = "exited", !.owes = 0, !.failed = TRUE]
          /\ UNCHANGED <<run, stdin, stdout, scan, delivered, ctx>>
        BY <1>6 DEF ChildDies
    <2> QED
        BY <1>2, <2>1
<1>7. CASE ChildPrints
    <2>1. CASE ~stdout.open
        <3>1. /\ child' = [child EXCEPT !.pc = "exited", !.owes = 0, !.failed = TRUE]
              /\ UNCHANGED <<run, stdin, stdout, scan, delivered, ctx>>
            BY <1>7, <2>1 DEF ChildPrints
        <3> QED
            BY <1>2, <3>1
    <2>2. CASE stdout.open
        <3>1. PICK k \in Nat, m \in Nat : Account(k, m)
            BY DEF IInv
        <3>2. PICK n, o : n = child.printed /\ o = child.owes - 1
            OBVIOUS
        <3>3. /\ child' = [child EXCEPT !.owes = o, !.printed = n + 1] /\ child.pc # "exited"
              /\ stdout' = [stdout EXCEPT !.held = Append(stdout.held, n + 1)]
              /\ UNCHANGED <<run, stdin, scan, delivered, ctx>>
            BY <1>7, <2>2, <3>2 DEF ChildPrints
        <3>4. /\ Records' /\ child'.printed = n + 1 /\ n \in Nat
              /\ stdout'.held = Append(stdout.held, n + 1)
            BY <1>1, <3>2, <3>3 DEF Records
        <3>5. stdout.held = Between(m, n) /\ m <= n /\ scan.buf = Between(k, m)
            BY <1>1, <2>2, <3>1, <3>2, <3>3 DEF Account, GaveUp, Lost, Shut
        <3>6. stdout'.held = Between(m, n + 1)
            <4>1. Between(m, n + 1) = Append(Between(m, n), n + 1)
                BY <3>4, <3>5, BetweenFacts, Zenon
            <4> QED
                BY <3>4, <3>5, <4>1
        <3>7. Account(k, m)'
            BY <3>1, <3>2, <3>3, <3>4, <3>5, <3>6 DEF Account
        <3>8. Sending' /\ Shut'
            BY <1>1, <1>7, <2>2, <3>3 DEF Sending, Shut
        <3> QED
            BY <3>3, <3>4, <3>7, <3>8 DEF IInv
    <2> QED
        BY <2>1, <2>2
<1> QED
    BY <1>3, <1>4, <1>5, <1>6, <1>7 DEF Child

LEMMA OutputStep ==
    ASSUME IInv, Alive, Output
    PROVE  IInv'
<1>1. Records /\ Sending /\ Shut /\ scan.pc \in {"scan", "send"} /\ run # "init"
    BY DEF IInv, Output, Fill, Scan, SendOutput, Shut
<1>2. PICK k \in Nat, m \in Nat : Account(k, m)
    BY DEF IInv
<1>3. PICK n : n = child.printed /\ n \in Nat /\ k <= m /\ m <= n
    BY <1>1, <1>2 DEF Account, Records
<1>4. /\ scan.buf = Between(k, m) /\ delivered = First(k)
      /\ stdout.held = Between(m, n) \/ Lost
    BY <1>1, <1>2, <1>3 DEF Account, GaveUp
<1>5. UNCHANGED <<run, stdin, child, ctx>>
    BY DEF Output, Fill, Scan, SendOutput
<1>6. ASSUME EndOutput, UNCHANGED delivered,
             \/ ctx # {} \/ (k + 1 \in Long /\ k < m)
             \/ scan.buf = <<>> /\ (~stdout.open \/ stdout.held = <<>>)
      PROVE  IInv'
    <2>1. scan' = [pc |-> "ended", buf |-> <<>>] /\ stdout' = [held |-> <<>>, open |-> FALSE]
        BY <1>6 DEF EndOutput
    <2>2. Records' /\ Sending' /\ Shut' /\ Alive' /\ scan'.buf = <<>> /\ stdout'.held = <<>>
        BY <1>1, <1>5, <2>1 DEF Records, Sending, Shut, Alive
    <2>3. CASE ctx # {} \/ (k + 1 \in Long /\ k < m)
        <3>1. GaveUp(k)'
            BY <1>3, <1>5, <2>1, <2>3 DEF GaveUp
        <3>2. Account(k, m)'
            BY <1>3, <1>4, <1>5, <1>6, <3>1 DEF Account
        <3> QED
            BY <2>2, <3>2 DEF IInv
    <2>4. CASE scan.buf = <<>> /\ (~stdout.open \/ stdout.held = <<>>)
        <3>1. ~stdout.open => Lost'
            BY <1>1, <1>5, <2>2 DEF Shut, Lost, Reaped
        <3>2. stdout'.held = Between(m, n) \/ Lost'
            BY <1>4, <1>5, <2>2, <2>4, <3>1 DEF Lost, Reaped
        <3>3. Account(k, m)'
            BY <1>3, <1>4, <1>5, <1>6, <2>2, <2>4, <3>2 DEF Account
        <3> QED
            BY <2>2, <3>3 DEF IInv
    <2> QED
        BY <1>6, <2>3, <2>4
<1>7. CASE Fill
    <2>1. scan.buf = <<>> /\ scan.pc = "scan" /\ UNCHANGED delivered
        BY <1>7 DEF Fill
    <2>2. CASE EndOutput /\ (~stdout.open \/ stdout.held = <<>>)
        BY <1>6, <2>1, <2>2
    <2>3. CASE ~(EndOutput /\ (~stdout.open \/ stdout.held = <<>>))
        <3>1. /\ stdout.held # <<>> /\ scan' = [scan EXCEPT !.buf = stdout.held]
              /\ stdout' = [stdout EXCEPT !.held = <<>>]
            BY <1>7, <2>3 DEF Fill
        <3>2. k = m
            <4>1. Len(scan.buf) = m - k /\ Len(scan.buf) = 0
                BY <1>3, <1>4, <2>1, BetweenFacts
            <4> QED
                BY <1>3, <4>1
        <3>3. /\ scan'.buf = Between(m, n) /\ scan'.pc = "scan" /\ stdout'.held = <<>> /\ Records'
            BY <1>1, <1>4, <1>5, <2>1, <3>1 DEF Records, Lost
        <3>4. stdout'.held = Between(n, n)
            <4>1. n <= n
                BY <1>3
            <4>2. Between(n, n) = <<>>
                BY <1>3, <4>1, BetweenFacts, Zenon
            <4> QED
                BY <3>3, <4>2
        <3>5. Account(k, n)'
            BY <1>3, <1>4, <1>5, <2>1, <3>2, <3>3, <3>4 DEF Account
        <3>6. Sending' /\ Alive' /\ Shut'
            BY <1>1, <1>5, <3>1, <3>3 DEF Records, Sending, Alive, Shut, Reaped
        <3> QED
            BY <1>3, <3>3, <3>5, <3>6 DEF IInv
    <2> QED
        BY <2>2, <2>3
<1>8. ASSUME scan.buf # <<>>
      PROVE  /\ k < m /\ Head(scan.buf) = k + 1 /\ Tail(scan.buf) = Between(k + 1, m)
             /\ First(k + 1) = More(First(k), k + 1)
    <2>1. k # m
        BY <1>3, <1>4, <1>8, BetweenFacts
    <2>2. k < m
        BY <1>3, <2>1
    <2>3. Head(Between(k, m)) = k + 1 /\ Tail(Between(k, m)) = Between(k + 1, m)
        BY <1>3, <2>2, BetweenFacts, Zenon
    <2>4. First(k + 1) = More(First(k), k + 1)
        BY FirstFacts
    <2> QED
        BY <1>4, <2>2, <2>3, <2>4
\* One line leaves the buffer, for the reader unless it is empty.
<1>9. ASSUME scan.buf # <<>>, scan'.buf = Tail(scan.buf), scan'.pc = "scan", Records',
             stdout' = stdout, delivered' = More(delivered, Head(scan.buf))
      PROVE  IInv'
    <2>1. /\ k + 1 \in Nat /\ k + 1 <= m /\ scan'.buf = Between(k + 1, m)
          /\ delivered' = First(k + 1)
        BY <1>3, <1>4, <1>8, <1>9
    <2>2. Account(k + 1, m)'
        BY <1>3, <1>4, <1>5, <1>9, <2>1 DEF Account, Lost, Reaped
    <2>3. Sending' /\ Alive' /\ Shut'
        BY <1>1, <1>5, <1>9 DEF Sending, Alive, Shut, Reaped
    <2> QED
        BY <1>9, <2>1, <2>2, <2>3 DEF IInv
<1>10. CASE Scan
    <2>1. scan.buf # <<>> /\ scan.pc = "scan" /\ UNCHANGED delivered
        BY <1>10 DEF Scan
    <2>2. CASE EndOutput /\ (ctx # {} \/ Head(scan.buf) \in Long)
        BY <1>6, <1>8, <2>1, <2>2
    <2>3. CASE /\ Head(scan.buf) \in Empty
               /\ ~(EndOutput /\ (ctx # {} \/ Head(scan.buf) \in Long))
        <3>1. scan' = [scan EXCEPT !.buf = Tail(scan.buf)] /\ UNCHANGED stdout
            BY <1>10, <2>3 DEF Scan
        <3>2. scan'.buf = Tail(scan.buf) /\ scan'.pc = "scan" /\ Records'
            BY <1>1, <1>5, <2>1, <3>1 DEF Records
        <3>3. delivered' = More(delivered, Head(scan.buf))
            BY <2>1, <2>3 DEF More
        <3> QED
            BY <1>9, <2>1, <3>1, <3>2, <3>3
    <2>4. CASE /\ Head(scan.buf) \notin Empty
               /\ ~(EndOutput /\ (ctx # {} \/ Head(scan.buf) \in Long))
        <3>1. scan' = [scan EXCEPT !.pc = "send"] /\ UNCHANGED stdout
            BY <1>10, <2>4 DEF Scan
        <3>2. scan'.buf = scan.buf /\ scan'.pc = "send" /\ Records'
            BY <1>1, <1>5, <3>1 DEF Records
        <3>3. Sending' /\ Alive' /\ Shut'
            BY <1>1, <1>5, <2>1, <2>4, <3>1, <3>2 DEF Sending, Alive, Shut, Reaped
        <3> QED
            BY <1>5, <2>1, <3>1, <3>2, <3>3, Still DEF Reaped
    <2> QED
        BY <2>2, <2>3, <2>4
<1>11. CASE SendOutput
    <2>1. scan.pc = "send" /\ scan.buf # <<>> /\ Head(scan.buf) \notin Empty /\ UNCHANGED stdout
        BY <1>1, <1>11 DEF SendOutput, Sending
    <2>2. CASE delivered' = Append(delivered, Head(scan.buf)) /\ scan' = [pc |-> "scan", buf |-> Tail(scan.buf)]
        <3>1. scan'.buf = Tail(scan.buf) /\ scan'.pc = "scan" /\ Records'
            BY <1>1, <1>5, <2>1, <2>2 DEF Records
        <3>2. delivered' = More(delivered, Head(scan.buf))
            BY <2>1, <2>2 DEF More
        <3> QED
            BY <1>9, <2>1, <3>1, <3>2
    <2>3. CASE /\ run \in {"closed", "ended"} /\ scan' = [scan EXCEPT !.pc = "panic"]
               /\ UNCHANGED delivered
        <3>1. scan'.buf = scan.buf /\ scan'.pc = "panic" /\ Records'
            BY <1>1, <1>5, <2>1, <2>3 DEF Records
        <3>2. Sending' /\ Shut' /\ Reaped'
            BY <1>1, <1>5, <2>1, <2>3, <3>1 DEF Sending, Shut, Reaped
        <3> QED
            BY <1>5, <2>1, <2>3, <3>1, <3>2, Still DEF Reaped
    <2> QED
        BY <1>11, <2>2, <2>3 DEF SendOutput
<1> QED
    BY <1>7, <1>10, <1>11 DEF Output

LEMMA NextIInv == IInv /\ [Next]_vars => IInv'
<1> SUFFICES ASSUME IInv, [Next]_vars PROVE IInv'
    OBVIOUS
<1>1. CASE Alive /\ (Main \/ Report)
    BY <1>1, MainStep
<1>2. CASE Alive /\ (Child \/ ChildDies)
    BY <1>2, ChildStep
<1>3. CASE Alive /\ Output
    BY <1>3, OutputStep
<1>4. CASE UNCHANGED <<run, stdin, stdout, child, scan, delivered>> /\ (ctx # {} => ctx' # {})
    <2>1. Records' /\ Sending' /\ Shut' /\ (Alive' \/ Reaped')
        BY <1>4 DEF IInv, Records, Sending, Shut, Alive, Reaped
    <2> QED
        BY <1>4, <2>1, Still DEF Reaped
<1>5. CASE Cancel \/ StopReading \/ UNCHANGED vars
    BY <1>4, <1>5 DEF Cancel, StopReading, vars
<1> QED
    BY <1>1, <1>2, <1>3, <1>5 DEF Next

\* For any number of lines, empty and too long ones among them, however the child
\* prints, exits or is cut off: what the stage's reader has is the beginning of what the
\* child printed, in order, without the empty lines; none is missing unless the child has
\* exited and was waited for, yield refused, or a line was over the scanner's limit, and
\* then none before that line; no send meets the closed output before the child was
\* waited for (handleCmdOutput, Run's cmd.Wait).
THEOREM LinesAccountedHolds == Spec => []LinesAccounted
<1>1. ASSUME IInv PROVE LinesAccounted
    <2>1. PICK k \in Nat, m \in Nat : Account(k, m)
        BY <1>1 DEF IInv
    <2>2. PICK n : n = child.printed /\ n \in Nat /\ k <= m /\ m <= n /\ k <= n
        BY <1>1, <2>1 DEF IInv, Records, Account
    <2>3. Printed = First(n) /\ \A i \in Nat : Shown(UpTo(i)) = First(i)
        <3>1. ASSUME NEW i \in Nat PROVE Shown(UpTo(i)) = First(i)
            <4>1. i - 0 = i /\ \A l \in 1..i : 0 + l = l
                OBVIOUS
            <4>2. UpTo(i) = Between(0, i)
                BY <4>1 DEF UpTo, Between
            <4> QED
                BY <4>2 DEF First
        <3> QED
            BY <2>2, <3>1 DEF Printed
    <2>4. PICK f, b : f = First(k) /\ b = Shown(Between(k, n))
        OBVIOUS
    <2>5. f \in Seq(Nat) /\ b \in Seq(Nat) /\ f \o b = First(n) /\ delivered = f
        BY <2>1, <2>2, <2>4, FirstFacts, FirstSplits DEF Account
    <2>6. IsPrefix(delivered, Printed)
        <3>1. Len(f) <= Len(f \o b) /\ SubSeq(f, 1, Len(f)) = SubSeq(f \o b, 1, Len(f))
            BY <2>5
        <3> QED
            BY <2>3, <2>5, <3>1 DEF IsPrefix
    <2>7. CASE scan.buf = Between(k, m) /\ stdout.held = Between(m, n)
        <3>1. scan.buf \o stdout.held = Between(k, n)
            <4>1. PICK p, q, r : p = Between(k, m) /\ q = Between(m, n) /\ r = Between(k, n)
                OBVIOUS
            <4>2. /\ p \in Seq(Nat) /\ q \in Seq(Nat) /\ r \in Seq(Nat)
                  /\ Len(p) = m - k /\ Len(q) = n - m /\ Len(r) = n - k
                  /\ \A i \in 1..(m - k) : p[i] = k + i
                  /\ \A i \in 1..(n - m) : q[i] = m + i
                  /\ \A i \in 1..(n - k) : r[i] = k + i
                BY <2>2, <4>1, BetweenFacts DEF Between
            <4>3. PICK s : s = p \o q
                OBVIOUS
            <4>4. /\ s \in Seq(Nat) /\ Len(s) = n - k
                  /\ \A i \in 1..(m - k) : s[i] = p[i]
                  /\ \A i \in 1..(n - m) : s[(m - k) + i] = q[i]
                <5>1. /\ s \in Seq(Nat) /\ Len(s) = (m - k) + (n - m)
                      /\ \A i \in 1..((m - k) + (n - m)) :
                           s[i] = IF i <= m - k THEN p[i] ELSE q[i - (m - k)]
                    <6>1. /\ p \in Seq(Nat) /\ q \in Seq(Nat)
                          /\ Len(p) = m - k /\ Len(q) = n - m
                        BY <4>2
                    <6>2. /\ p \o q \in Seq(Nat) /\ Len(p \o q) = Len(p) + Len(q)
                          /\ \A i \in 1..(Len(p) + Len(q)) :
                               (p \o q)[i] = IF i <= Len(p) THEN p[i] ELSE q[i - Len(p)]
                        BY <6>1, ConcatProperties
                    <6> QED
                        BY <4>3, <6>1, <6>2, Zenon
                <5>2. Len(s) = n - k
                    BY <2>2, <5>1
                <5>3. ASSUME NEW i \in 1..(m - k) PROVE s[i] = p[i]
                    BY <2>2, <5>1
                <5>4. ASSUME NEW i \in 1..(n - m) PROVE s[(m - k) + i] = q[i]
                    <6>1. PICK j : j = (m - k) + i
                        OBVIOUS
                    <6>2. /\ j \in 1..((m - k) + (n - m)) /\ ~(j <= m - k)
                          /\ j - (m - k) = i
                        BY <2>2, <6>1
                    <6> QED
                        BY <5>1, <6>1, <6>2
                <5> QED
                    BY <5>1, <5>2, <5>3, <5>4
            <4>5. ASSUME NEW i \in 1..(n - k) PROVE s[i] = r[i]
                <5>1. CASE i <= m - k
                    BY <2>2, <4>2, <4>4, <5>1
                <5>2. CASE i > m - k
                    <6>1. PICK j : j = i - (m - k)
                        OBVIOUS
                    <6>2. j \in 1..(n - m) /\ i = (m - k) + j /\ m + j = k + i
                        BY <2>2, <5>2, <6>1
                    <6> QED
                        BY <4>2, <4>4, <6>2
                <5> QED
                    BY <2>2, <5>1, <5>2
            <4>6. s = r
                BY <4>2, <4>4, <4>5, SeqEqual
            <4> QED
                BY <2>7, <4>1, <4>3, <4>6
        <3>2. delivered \o Shown(scan.buf \o stdout.held) = Printed
            BY <2>3, <2>4, <2>5, <3>1
        <3> QED
            BY <1>1, <2>6, <3>2 DEF LinesAccounted, IInv
    <2>8. CASE Lost
        BY <1>1, <2>6, <2>8 DEF LinesAccounted, Excused, Lost, IInv
    <2>9. CASE GaveUp(k)
        <3>1. (k + 1) - 1 = k /\ delivered = Shown(UpTo(k))
            BY <2>3, <2>4, <2>5
        <3>2. Excused
            <4>1. CASE ctx # {}
                BY <2>9, <4>1 DEF Excused, GaveUp
            <4>2. CASE ctx = {}
                <5>1. PICK l : l = k + 1 /\ l - 1 = k /\ l \in Long /\ l <= child.printed
                    BY <2>9, <3>1, <4>2 DEF GaveUp
                <5> QED
                    BY <2>9, <3>1, <5>1 DEF Excused, GaveUp
            <4> QED
                BY <4>1, <4>2
        <3> QED
            BY <1>1, <2>6, <3>2 DEF LinesAccounted, IInv
    <2> QED
        BY <2>1, <2>2, <2>7, <2>8, <2>9 DEF Account
<1> QED
    BY <1>1, InitIInv, NextIInv, PTL DEF Spec

=============================================================================
