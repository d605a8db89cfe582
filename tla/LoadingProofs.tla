---------------------------- MODULE LoadingProofs ----------------------------
(***************************************************************************)
(* Theorems about Loading, for any template files, nested as deep as they  *)
(* are, and any failures.  The invariant has three parts: Shape, what is   *)
(* being loaded and what is loaded; Wraps, what the include wrappers have; *)
(* Places, where each template is and which one included it.  A fourth,    *)
(* Owned, is of the plugin processes.                                      *)
(* Induction over the wrappers comes from the least counterexample (lemmas *)
(* Least and Induction): the library's theorems that take an operator      *)
(* cannot be used with the provers at hand.                                *)
(***************************************************************************)
EXTENDS Loading, SequenceTheorems, WellFoundedInduction, TLAPS

NatBefore == {ss \in Nat \X Nat : ss[1] < ss[2]}

LEMMA Least ==
    ASSUME NEW T, T \subseteq Nat, T # {}
    PROVE  \E n \in T : \A m \in T : n <= m
<1>1. ASSUME NEW m \in Nat, NEW n \in Nat, m < n
      PROVE  <<m, n>> \in NatBefore
    BY <1>1, SMT DEF NatBefore
<1>2. IsWellFoundedOn(NatBefore, Nat)
    BY NatLessThanWellFounded DEF OpToRel, NatBefore
<1>3. PICK n \in T : \A m \in T : ~(<<m, n>> \in NatBefore)
    BY <1>2, WFMin
<1>4. \A m \in T : ~(m < n)
    BY <1>1, <1>3
<1> QED
    BY <1>4

LEMMA Induction ==
    ASSUME NEW S, S \subseteq Nat, 0 \in S, \A n \in S : n + 1 \in S
    PROVE  S = Nat
<1> SUFFICES ASSUME S # Nat PROVE FALSE
    OBVIOUS
<1>1. PICK n \in Nat \ S : \A m \in Nat \ S : n <= m
    BY Least
<1>2. n # 0 /\ n - 1 \in Nat
    BY <1>1
<1>3. n - 1 \in S
    BY <1>1, <1>2
<1>4. (n - 1) + 1 \in S
    BY <1>3
<1> QED
    BY <1>1, <1>4

-----------------------------------------------------------------------------
(***************************************************************************)
(* Stacks: sequences of whatever their members are.                        *)
(***************************************************************************)
List(q) == q \in Seq({q[i] : i \in DOMAIN q})

LEMMA ListIs ==
    ASSUME NEW G, NEW q \in Seq(G)
    PROVE  List(q)
<1>1. DOMAIN q = 1..Len(q) /\ Len(q) \in Nat
    OBVIOUS
<1>2. q \in [1..Len(q) -> {q[i] : i \in DOMAIN q}]
    BY <1>1
<1> QED
    BY <1>1, <1>2 DEF List

\* p is q with a before it; q without its first member; with a for it; with b
\* and a for it.
Put(p, a, q) ==
    /\ List(p) /\ Len(q) \in Nat /\ Len(p) = Len(q) + 1 /\ p[1] = a
    /\ \A i \in 1..Len(q) : p[i + 1] = q[i]
Cut(p, q) ==
    /\ List(p) /\ Len(q) \in Nat \ {0} /\ Len(p) = Len(q) - 1 /\ Head(q) = q[1]
    /\ \A i \in 1..(Len(q) - 1) : p[i] = q[i + 1]
Swap(p, a, q) ==
    /\ List(p) /\ Len(q) \in Nat \ {0} /\ Len(p) = Len(q) /\ Head(q) = q[1] /\ p[1] = a
    /\ \A i \in 2..Len(q) : p[i] = q[i]
Push(p, b, a, q) ==
    /\ List(p) /\ Len(q) \in Nat \ {0} /\ Len(p) = Len(q) + 1 /\ Head(q) = q[1]
    /\ p[1] = b /\ p[2] = a /\ \A i \in 3..(Len(q) + 1) : p[i] = q[i - 1]

LEMMA PutIs ==
    ASSUME NEW q, List(q), NEW a
    PROVE  Put(<<a>> \o q, a, q)
<1>1. PICK G : G = {q[i] : i \in DOMAIN q} \cup {a}
    OBVIOUS
<1>2. q \in Seq(G)
    <2>1. PICK F : F = {q[i] : i \in DOMAIN q}
        OBVIOUS
    <2>2. q \in Seq(F) /\ F \subseteq G
        BY <1>1, <2>1 DEF List
    <2> QED
        BY <2>2
<1>3. <<a>> \in Seq(G) /\ Len(<<a>>) = 1
    BY <1>1
<1>4. PICK p : p = <<a>> \o q
    OBVIOUS
<1>5. /\ p \in Seq(G) /\ Len(q) \in Nat /\ Len(p) = Len(q) + 1 /\ p[1] = a
      /\ \A i \in 1..Len(q) : p[i + 1] = q[i]
    BY <1>2, <1>3, <1>4
<1>6. List(p)
    BY <1>5, ListIs
<1> QED
    BY <1>4, <1>5, <1>6 DEF Put

LEMMA CutIs ==
    ASSUME NEW q, List(q), q # <<>>
    PROVE  Cut(Tail(q), q)
<1>1. PICK G : G = {q[i] : i \in DOMAIN q}
    OBVIOUS
<1>2. q \in Seq(G)
    BY <1>1 DEF List
<1>3. /\ Tail(q) \in Seq(G) /\ Len(q) \in Nat \ {0} /\ Len(Tail(q)) = Len(q) - 1
      /\ Head(q) = q[1] /\ \A i \in 1..(Len(q) - 1) : Tail(q)[i] = q[i + 1]
    BY <1>2
<1>4. List(Tail(q))
    BY <1>3, ListIs
<1> QED
    BY <1>3, <1>4 DEF Cut

LEMMA SwapIs ==
    ASSUME NEW q, List(q), q # <<>>, NEW a
    PROVE  Swap(<<a>> \o Tail(q), a, q)
<1>1. PICK r, p, n : r = Tail(q) /\ p = <<a>> \o r /\ n = Len(q)
    OBVIOUS
<1>2. Cut(r, q)
    BY <1>1, CutIs, Zenon
<1>3. List(r)
    BY <1>2 DEF Cut
<1>4. Put(p, a, r)
    BY <1>1, <1>3, PutIs, Zenon
<1>5. /\ n \in Nat \ {0} /\ Len(r) = n - 1 /\ Head(q) = q[1] /\ List(p) /\ Len(p) = n
      /\ p[1] = a /\ \A i \in 1..(n - 1) : r[i] = q[i + 1] /\ p[i + 1] = r[i]
    BY <1>1, <1>2, <1>4 DEF Cut, Put
<1>6. ASSUME NEW i \in 2..n PROVE p[i] = q[i]
    <2>1. i - 1 \in 1..(n - 1) /\ (i - 1) + 1 = i
        BY <1>5
    <2> QED
        BY <1>5, <2>1
<1>7. Swap(p, a, q)
    BY <1>1, <1>5, <1>6 DEF Swap
<1> QED
    BY <1>1, <1>7, Zenon

LEMMA PushIs ==
    ASSUME NEW q, List(q), q # <<>>, NEW a, NEW b
    PROVE  Push(<<b>> \o (<<a>> \o Tail(q)), b, a, q)
<1>1. PICK r, p, n : r = <<a>> \o Tail(q) /\ p = <<b>> \o r /\ n = Len(q)
    OBVIOUS
<1>2. Swap(r, a, q)
    BY <1>1, SwapIs, Zenon
<1>3. List(r)
    BY <1>2 DEF Swap
<1>4. Put(p, b, r)
    BY <1>1, <1>3, PutIs, Zenon
<1>5. /\ n \in Nat \ {0} /\ Len(r) = n /\ Head(q) = q[1] /\ List(p) /\ Len(p) = n + 1
      /\ p[1] = b /\ r[1] = a /\ \A i \in 2..n : r[i] = q[i]
      /\ \A i \in 1..n : p[i + 1] = r[i]
    BY <1>1, <1>2, <1>4 DEF Swap, Put
<1>6. ASSUME NEW i \in 3..(n + 1) PROVE p[i] = q[i - 1]
    <2>1. i - 1 \in 2..n /\ i - 1 \in 1..n /\ (i - 1) + 1 = i
        BY <1>5
    <2> QED
        BY <1>5, <2>1
<1>7. p[2] = a
    BY <1>5
<1>8. Push(p, b, a, q)
    BY <1>1, <1>5, <1>6, <1>7 DEF Push
<1> QED
    BY <1>1, <1>8, Zenon

-----------------------------------------------------------------------------
(***************************************************************************)
(* The templates being loaded, and those loaded.                           *)
(***************************************************************************)
Names(files) == {s.name : s \in UNION {files[f] : f \in DOMAIN files}}

\* The workers of t are those of the stages S.
Loaded(t, S) == {w.name : w \in t.workers} = {s.name : s \in S}

Frame(files, t) ==
    /\ DOMAIN t = {"file", "at", "vars", "path", "todo", "workers"}
    /\ t.file \in DOMAIN files /\ t.at \in Seq(Names(files))
    /\ t.todo \subseteq files[t.file]
    /\ Loaded(t, files[t.file] \ t.todo)

Template(files, t) ==
    /\ t.file \in DOMAIN files /\ t.at \in Seq(Names(files))
    /\ Loaded(t, files[t.file])

\* t is the template that stage s of template u names.
Named(t, u, s) == t.file = s.file /\ t.at = Append(u.at, s.name)

\* What stage s of template u includes is loaded, or is t.
Has(u, s, done, t) == \/ \E v \in done : Named(v, u, s)
                      \/ Named(t, u, s)

Stack ==
    /\ List(stack) /\ \A i \in 1..Len(stack) : Frame(Stages, stack[i])
    /\ \A i \in 1..Len(stack) : Len(stack[i].at) = Len(stack) - i
    /\ stack # <<>> => stack[Len(stack)].file \in Roots
    /\ stack # <<>> => \A s \in Stages[stack[1].file] \ stack[1].todo :
         s.plugin = "include" => \E v \in built : Named(v, stack[1], s)
    /\ \A i \in 2..Len(stack) : \A s \in Stages[stack[i].file] \ stack[i].todo :
         s.plugin = "include" => Has(stack[i], s, built, stack[i - 1])

Built ==
    \A t \in built :
      /\ Template(Stages, t)
      /\ \A s \in Stages[t.file] : s.plugin = "include" => \E u \in built : Named(u, t, s)

Ends ==
    /\ result = "start" => stack = <<>> /\ built = {} /\ wraps = <<>>
    /\ result = "loading" => stack # <<>>
    /\ result = "ok" => \E t \in built : t.at = <<>> /\ t.file \in Roots

Shape == Stages \in Templates /\ Stack /\ Built /\ Ends

\* What a step of the loading does.
Stops ==
    /\ result' \in {"error", "fatal", "exit"} /\ UNCHANGED <<Stages, stack, built>>
    /\ \/ wraps' = wraps
       \/ \E v, q : /\ wraps' = <<[vars |-> v, path |-> q]>> \o wraps
                    /\ result = "loading" \/ (result = "start" /\ q = "cli")

Starts ==
    \E f \in Roots \cap DOMAIN Stages : \E v :
      /\ result = "start" /\ result' = "loading" /\ UNCHANGED <<Stages, built>>
      /\ wraps' = <<[vars |-> v, path |-> "cli"]>> \o wraps
      /\ stack' = <<[file |-> f, at |-> <<>>, vars |-> v, path |-> "cli", todo |-> Stages[f],
                     workers |-> {}]>>
      /\ UNCHANGED running

Loads(s) ==
    /\ result = "loading" /\ s \in Top.todo /\ s.plugin # "include"
    /\ UNCHANGED <<Stages, result, wraps, built>>
    /\ \E p : stack' = <<WithWorker(Top, s, p)>> \o Tail(stack)
    /\ running' = running \cup Processes(Top.at, s)

Includes(s, v, q) ==
    /\ result = "loading" /\ s \in Top.todo /\ s.plugin = "include"
    /\ s.file \in DOMAIN Stages
    /\ UNCHANGED <<Stages, result, built>>
    /\ wraps' = <<[vars |-> v, path |-> q]>> \o wraps
    /\ \E p : stack' = <<[file |-> s.file, at |-> IncludedAt(s), vars |-> v, path |-> q,
                          todo |-> Stages[s.file], workers |-> {}]>>
                        \o (<<WithWorker(Top, s, p)>> \o Tail(stack))
    /\ UNCHANGED running

Reads(s) == \* the variables that an include takes from the wrappers
    Includes(s, Over([is_included |-> IncludedAt(s)], Wrapped(s).vars), Wrapped(s).path)

\* A name of the registry is no gRPC plugin, and but for a pipe starts no process.
LEMMA NotRemote ==
    /\ \A n \in DOMAIN InitLoader : ~Remote(n)
    /\ "include" \in DOMAIN InitLoader /\ "pipe" \in DOMAIN InitLoader
BY DEF Remote, InitLoader

LEMMA NoProcess ==
    ASSUME NEW s, s.plugin \in DOMAIN InitLoader, s.plugin # "pipe"
    PROVE  \A at : Processes(at, s) = {}
BY NotRemote, Zenon DEF Processes

LEMMA StepCases ==
    ASSUME Shape, [Next]_vars
    PROVE  \/ UNCHANGED vars
           \/ Stops \/ Starts \/ EndTemplate
           \/ \E s : Loads(s) \/ Reads(s)
<1>1. CASE RunTemplate
    <2>1. CASE Fail /\ UNCHANGED Stages
        BY <2>1 DEF Fail, Stops
    <2>2. ASSUME NEW f \in Roots, NewFile(f, <<>>, [v \in Cli |-> <<>>], "cli", <<>>),
                 UNCHANGED <<Stages, running>>, result = "start"
          PROVE  Stops \/ Starts
        <3> DEFINE v == [w \in Cli |-> <<>>]
                   top == [file |-> f, at |-> <<>>, vars |-> v, path |-> "cli",
                           todo |-> Stages[f], workers |-> {}]
        <3>1. CASE f \notin DOMAIN Stages \cup Malformed
            BY <2>2, <3>1 DEF NewFile, Fail, Stops
        <3>2. CASE f \in Malformed
            <4>1. /\ wraps' = <<[vars |-> v, path |-> "cli"]>> \o wraps
                  /\ result' = "error" /\ UNCHANGED <<Stages, stack, built>>
                BY <2>2, <3>2 DEF NewFile
            <4> QED
                BY <2>2, <4>1 DEF Stops
        <3>3. CASE f \in DOMAIN Stages /\ f \notin Malformed
            <4>1. /\ wraps' = <<[vars |-> v, path |-> "cli"]>> \o wraps
                  /\ result' = "loading" /\ UNCHANGED <<Stages, built>>
                  /\ stack' = <<top>> \o <<>>
                BY <2>2, <3>3 DEF NewFile
            <4>2. stack' = <<top>>
                <5>1. PICK b : b = top
                    OBVIOUS
                <5>2. <<b>> \o <<>> = <<b>>
                    <6>1. <<b>> \in Seq({b})
                        OBVIOUS
                    <6> QED
                        BY <6>1, ConcatEmptySeq
                <5> QED
                    BY <4>1, <5>1, <5>2, Zenon
            <4> QED
                BY <2>2, <3>3, <4>1, <4>2, Zenon DEF Starts
        <3> QED
            BY <3>1, <3>2, <3>3
    <2> QED
        BY <1>1, <2>1, <2>2 DEF RunTemplate
<1>2. CASE LoadPlugin
    <2>1. PICK s \in Top.todo : LoadStatic(s) \/ LoadPipe(s) \/ Connect(s) \/ Include(s)
        BY <1>2 DEF LoadPlugin
    <2>2. result = "loading" /\ UNCHANGED Stages
        BY <1>2 DEF LoadPlugin
    <2>3. CASE FailStage(s)
        BY <2>2, <2>3 DEF FailStage, Fail, Stops
    <2>4. ASSUME NEW p, LoadStage(s, p), s.plugin # "include",
                 running' = running \cup Processes(Top.at, s)
          PROVE  Loads(s)
        BY <2>1, <2>2, <2>4, Zenon DEF LoadStage, Loads
    <2>5. CASE LoadStatic(s)
        <3>1. s.plugin # "include" /\ s.plugin \in DOMAIN InitLoader /\ s.plugin # "pipe"
              /\ running' = running
            BY <2>5 DEF LoadStatic
        <3>2. Processes(Top.at, s) = {}
            BY <3>1, NoProcess
        <3>3. running' = running \cup Processes(Top.at, s)
            BY <3>1, <3>2
        <3> QED
            BY <2>3, <2>4, <2>5, <3>1, <3>3, Zenon DEF LoadStatic
    <2>6. CASE LoadPipe(s)
        <3>1. s.plugin = "pipe" /\ s.plugin # "include"
            BY <2>6 DEF LoadPipe
        <3>2. CASE result' = "fatal" /\ UNCHANGED <<wraps, stack, built>>
            BY <2>2, <3>2 DEF Stops
        <3>3. ~Remote(s.plugin)
            BY <3>1, NotRemote
        <3>4. Processes(Top.at, s) = Steps(Top.at, s, Len(s.steps))
            BY <3>1, <3>3, Zenon DEF Processes
        <3>5. CASE running' = running \cup Steps(Top.at, s, Len(s.steps)) /\ LoadStage(s, PathOf(s))
            BY <2>4, <3>1, <3>4, <3>5, Zenon
        <3> QED
            BY <2>3, <2>6, <3>2, <3>5, Zenon DEF LoadPipe
    <2>7. CASE Connect(s)
        <3>1. Remote(s.plugin) /\ s.plugin # "include" /\ s.plugin # "pipe"
            BY <2>7, NotRemote DEF Connect
        <3>2. Processes(Top.at, s) = {Append(Top.at, s.name)}
            BY <3>1, Zenon DEF Processes
        <3>3. ASSUME NEW p, LoadStage(s, p), running' = running \cup {Append(Top.at, s.name)}
              PROVE  Loads(s)
            BY <2>4, <3>1, <3>2, <3>3, Zenon
        <3> QED
            BY <2>3, <2>7, <3>3, Zenon DEF Connect
    <2>8. CASE Include(s)
        <3> DEFINE config == Wrapped(s)
                   v == Over([is_included |-> IncludedAt(s)], config.vars)
                   rest == <<WithWorker(Top, s, PathOf(s))>> \o Tail(stack)
        <3>1. s.plugin = "include" /\ UNCHANGED running
            BY <2>8 DEF Include
        <3>2. FailStage(s) \/ NewFile(s.file, IncludedAt(s), v, config.path, rest)
            BY <2>8, Zenon DEF Include
        <3>3. CASE NewFile(s.file, IncludedAt(s), v, config.path, rest)
            <4> HIDE DEF v, config, rest
            <4>1. CASE s.file \notin DOMAIN Stages \cup Malformed
                BY <2>2, <3>3, <4>1 DEF NewFile, Fail, Stops
            <4>2. CASE s.file \in Malformed
                <5>1. /\ wraps' = <<[vars |-> v, path |-> config.path]>> \o wraps
                      /\ result' = "error" /\ UNCHANGED <<Stages, stack, built>>
                    BY <2>2, <3>3, <4>2 DEF NewFile
                <5>2. \E u, q : wraps' = <<[vars |-> u, path |-> q]>> \o wraps
                    BY <5>1, Zenon
                <5>3. Stops
                    BY <2>2, <5>1, <5>2 DEF Stops
                <5> QED
                    BY <5>3
            <4>3. CASE s.file \in DOMAIN Stages /\ s.file \notin Malformed
                <5>1. /\ wraps' = <<[vars |-> v, path |-> config.path]>> \o wraps
                      /\ result' = result /\ UNCHANGED <<Stages, built>>
                      /\ stack' = <<[file |-> s.file, at |-> IncludedAt(s), vars |-> v,
                                     path |-> config.path, todo |-> Stages[s.file],
                                     workers |-> {}]>> \o rest
                    BY <2>2, <3>3, <4>3 DEF NewFile
                <5>2. Includes(s, v, config.path)
                    BY <2>1, <2>2, <3>1, <4>3, <5>1, Zenon DEF Includes, rest
                <5> QED
                    BY <5>2, Zenon DEF Reads, v, config
            <4> QED
                BY <4>1, <4>2, <4>3
        <3> QED
            BY <2>3, <3>2, <3>3
    <2> QED
        BY <2>1, <2>5, <2>6, <2>7, <2>8
<1>3. CASE CleanupClients
    BY <1>3 DEF CleanupClients, Stops
<1>4. CASE UNCHANGED vars
    BY <1>4 DEF vars
<1> QED
    BY <1>1, <1>2, <1>3, <1>4 DEF Next

\* u is t, and has loaded stage s.
Grown(files, u, t, s) ==
    /\ Frame(files, u) /\ u.file = t.file /\ u.at = t.at /\ u.vars = t.vars /\ u.path = t.path
    /\ u.todo = t.todo \ {s}

LEMMA WithWorkerIs ==
    ASSUME NEW files, NEW t, Frame(files, t), NEW s \in t.todo, NEW p
    PROVE  Grown(files, WithWorker(t, s, p), t, s)
<1>1. PICK w : w = Worker(s, p) /\ w.name = s.name
    <2>1. PICK k : k = convertPluginToIOWorker(Loader(s.plugin).kinds)
        OBVIOUS
    <2>2. Worker(s, p) = [name |-> s.name, kind |-> k, path |-> p]
        BY <2>1, Zenon DEF Worker
    <2> QED
        BY <2>2
<1>2. PICK u : u = WithWorker(t, s, p)
    OBVIOUS
<1>3. u = [t EXCEPT !.todo = @ \ {s}, !.workers = @ \cup {w}]
    BY <1>1, <1>2, Zenon DEF WithWorker
<1>4. /\ DOMAIN u = DOMAIN t /\ u.file = t.file /\ u.at = t.at /\ u.vars = t.vars
      /\ u.path = t.path /\ u.todo = t.todo \ {s} /\ u.workers = t.workers \cup {w}
    BY <1>3 DEF Frame
<1>5. Loaded(u, files[u.file] \ u.todo)
    <2>1. files[u.file] \ u.todo = (files[t.file] \ t.todo) \cup {s}
        BY <1>4 DEF Frame
    <2>2. {v.name : v \in t.workers \cup {w}} = {v.name : v \in t.workers} \cup {s.name}
        BY <1>1
    <2>3. {r.name : r \in (files[t.file] \ t.todo) \cup {s}}
            = {r.name : r \in files[t.file] \ t.todo} \cup {s.name}
        OBVIOUS
    <2> QED
        BY <1>4, <2>1, <2>2, <2>3 DEF Frame, Loaded
<1>6. Grown(files, u, t, s)
    BY <1>4, <1>5 DEF Frame, Grown
<1> QED
    BY <1>2, <1>6

\* The stack, with its length n.
Stacked(x, n, files, done) ==
    /\ List(x) /\ n = Len(x) /\ \A i \in 1..n : Frame(files, x[i])
    /\ \A i \in 1..n : Len(x[i].at) = n - i
    /\ n # 0 => x[n].file \in Roots
    /\ n # 0 => \A s \in files[x[1].file] \ x[1].todo :
         s.plugin = "include" => \E v \in done : Named(v, x[1], s)
    /\ \A i \in 2..n : \A s \in files[x[i].file] \ x[i].todo :
         s.plugin = "include" => Has(x[i], s, done, x[i - 1])

LEMMA EmptyList ==
    ASSUME NEW x, List(x)
    PROVE  Len(x) \in Nat /\ (x = <<>> <=> Len(x) = 0)
<1>1. PICK G : x \in Seq(G)
    BY DEF List
<1> QED
    BY <1>1

LEMMA StackedIs ==
    /\ Stack <=> \E n : Stacked(stack, n, Stages, built)
    /\ Stack' <=> \E n : Stacked(stack', n, Stages', built')
<1>1. \A x : List(x) => (x = <<>> <=> Len(x) = 0)
    BY EmptyList
<1>2. Stack <=> \E n : Stacked(stack, n, Stages, built)
    BY <1>1 DEF Stack, Stacked
<1>3. Stack' <=> \E n : Stacked(stack', n, Stages', built')
    BY <1>1 DEF Stack, Stacked
<1> QED
    BY <1>2, <1>3

LEMMA StackLoads ==
    ASSUME NEW x, NEW n, NEW files, NEW done, Stacked(x, n, files, done), NEW y,
           x # <<>>, NEW s \in Head(x).todo, s.plugin # "include",
           NEW p, y = <<WithWorker(Head(x), s, p)>> \o Tail(x)
    PROVE  Stacked(y, n, files, done)
<1>1. PICK u : u = WithWorker(Head(x), s, p)
    OBVIOUS
<1>2. List(x) /\ y = <<u>> \o Tail(x)
    BY <1>1 DEF Stacked
<1>3. Swap(y, u, x)
    BY <1>2, SwapIs, Zenon
<1>4. /\ n \in Nat \ {0} /\ Len(y) = n /\ Head(x) = x[1] /\ y[1] = u /\ List(y)
      /\ \A i \in 2..n : y[i] = x[i]
    BY <1>3 DEF Swap, Stacked
<1>5. 1 \in 1..n /\ Frame(files, x[1]) /\ s \in x[1].todo /\ u = WithWorker(x[1], s, p)
    BY <1>1, <1>4 DEF Stacked
<1>11. Grown(files, u, x[1], s)
    BY <1>5, WithWorkerIs, Zenon
<1>6. /\ Frame(files, u) /\ u.file = x[1].file /\ u.at = x[1].at /\ u.todo = x[1].todo \ {s}
    BY <1>11 DEF Grown
<1>7. ASSUME NEW i \in 1..n
      PROVE  Frame(files, y[i]) /\ Len(y[i].at) = n - i /\ y[i].file = x[i].file /\ y[i].at = x[i].at
    <2>1. CASE i = 1
        BY <1>4, <1>6, <2>1 DEF Stacked
    <2>2. CASE i # 1
        BY <1>4, <2>2 DEF Stacked
    <2> QED
        BY <2>1, <2>2
<1>8. y[n].file \in Roots
    BY <1>4, <1>7 DEF Stacked
<1>9. ASSUME NEW r \in files[y[1].file] \ y[1].todo, r.plugin = "include"
      PROVE  \E v \in done : Named(v, y[1], r)
    <2>1. r \in files[x[1].file] \ x[1].todo
        BY <1>4, <1>6, <1>9
    <2>2. PICK v \in done : Named(v, x[1], r)
        BY <1>4, <1>9, <2>1 DEF Stacked
    <2> QED
        BY <1>4, <1>6, <2>2 DEF Named
<1>10. ASSUME NEW i \in 2..n, NEW r \in files[y[i].file] \ y[i].todo, r.plugin = "include"
       PROVE  Has(y[i], r, done, y[i - 1])
    <2>1. y[i] = x[i] /\ i - 1 \in 1..n
        BY <1>4
    <2>2. Has(x[i], r, done, x[i - 1])
        BY <1>10, <2>1 DEF Stacked
    <2>3. y[i - 1].file = x[i - 1].file /\ y[i - 1].at = x[i - 1].at
        BY <1>7, <2>1
    <2> QED
        BY <2>1, <2>2, <2>3 DEF Has, Named
<1> QED
    BY <1>4, <1>7, <1>8, <1>9, <1>10 DEF Stacked

LEMMA StackIncludes ==
    ASSUME NEW x, NEW n, NEW files, NEW done, Stacked(x, n, files, done), NEW y,
           x # <<>>, NEW s \in Head(x).todo, NEW b, NEW p,
           DOMAIN b = {"file", "at", "vars", "path", "todo", "workers"}, b.file = s.file,
           s.file \in DOMAIN files, b.at = Append(Head(x).at, s.name), b.todo = files[s.file],
           b.workers = {}, y = <<b>> \o (<<WithWorker(Head(x), s, p)>> \o Tail(x))
    PROVE  Stacked(y, n + 1, files, done)
<1>1. PICK u : u = WithWorker(Head(x), s, p)
    OBVIOUS
<1>2. List(x) /\ y = <<b>> \o (<<u>> \o Tail(x))
    BY <1>1 DEF Stacked
<1>3. Push(y, b, u, x)
    BY <1>2, PushIs, Zenon
<1>4. /\ n \in Nat \ {0} /\ Len(y) = n + 1 /\ Head(x) = x[1] /\ y[1] = b /\ y[2] = u
      /\ List(y) /\ \A i \in 3..(n + 1) : y[i] = x[i - 1]
    BY <1>3 DEF Push, Stacked
<1>5. 1 \in 1..n /\ Frame(files, x[1]) /\ s \in x[1].todo /\ u = WithWorker(x[1], s, p)
    BY <1>1, <1>4 DEF Stacked
<1>6. Grown(files, u, x[1], s)
    BY <1>5, WithWorkerIs, Zenon
<1>7. /\ Frame(files, u) /\ u.file = x[1].file /\ u.at = x[1].at /\ u.todo = x[1].todo \ {s}
    BY <1>6 DEF Grown
<1>8. ASSUME NEW i \in 2..(n + 1)
      PROVE  /\ i - 1 \in 1..n /\ Frame(files, y[i]) /\ Len(y[i].at) = (n + 1) - i
             /\ y[i].file = x[i - 1].file /\ y[i].at = x[i - 1].at
    <2>1. i - 1 \in 1..n /\ (n + 1) - i = n - (i - 1)
        BY <1>4
    <2>2. Frame(files, x[i - 1]) /\ Len(x[i - 1].at) = n - (i - 1)
        BY <2>1 DEF Stacked
    <2>3. CASE i = 2
        BY <1>4, <1>7, <2>1, <2>2, <2>3
    <2>4. CASE i # 2
        <3>1. y[i] = x[i - 1]
            BY <1>4, <2>4
        <3> QED
            BY <2>1, <2>2, <3>1
    <2> QED
        BY <2>3, <2>4
<1>9. Frame(files, b) /\ Len(b.at) = (n + 1) - 1
    <2>1. x[1].at \in Seq(Names(files)) /\ Len(x[1].at) = n - 1
        BY <1>4, <1>5 DEF Stacked, Frame
    <2>2. s.name \in Names(files)
        BY <1>5 DEF Frame, Names
    <2>3. b.at \in Seq(Names(files)) /\ Len(b.at) = (n - 1) + 1
        <3>1. PICK N, a, m : N = Names(files) /\ a = x[1].at /\ m = s.name
            OBVIOUS
        <3>2. a \in Seq(N) /\ m \in N /\ Len(a) = n - 1 /\ b.at = Append(a, m)
            BY <1>4, <2>1, <2>2, <3>1
        <3>3. Append(a, m) \in Seq(N) /\ Len(Append(a, m)) = Len(a) + 1
            BY <3>2, AppendProperties
        <3> QED
            BY <3>1, <3>2, <3>3
    <2>4. Loaded(b, files[b.file] \ b.todo)
        BY DEF Loaded
    <2> QED
        BY <1>4, <2>3, <2>4 DEF Frame
<1>10. ASSUME NEW i \in 1..(n + 1) PROVE Frame(files, y[i]) /\ Len(y[i].at) = (n + 1) - i
    <2>1. CASE i = 1
        BY <1>4, <1>9, <2>1
    <2>2. CASE i # 1
        BY <1>4, <1>8, <2>2
    <2> QED
        BY <2>1, <2>2
<1>11. y[n + 1].file \in Roots
    <2>1. n + 1 \in 2..(n + 1) /\ (n + 1) - 1 = n
        BY <1>4
    <2> QED
        BY <1>4, <1>8, <2>1 DEF Stacked
<1>12. files[y[1].file] \ y[1].todo = {}
    BY <1>4
<1>13. ASSUME NEW i \in 2..(n + 1), NEW r \in files[y[i].file] \ y[i].todo, r.plugin = "include"
       PROVE  Has(y[i], r, done, y[i - 1])
    <2>1. CASE i = 2
        <3>1. i - 1 = 1 /\ y[i - 1] = b /\ y[i] = u
            BY <1>4, <2>1
        <3>2. CASE r = s
            BY <1>4, <1>7, <3>1, <3>2 DEF Has, Named
        <3>3. CASE r # s
            <4>1. r \in files[x[1].file] \ x[1].todo
                BY <1>7, <1>13, <3>1, <3>3
            <4>2. PICK v \in done : Named(v, x[1], r)
                BY <1>4, <1>13, <4>1 DEF Stacked
            <4>3. Named(v, u, r)
                BY <1>7, <4>2 DEF Named
            <4> QED
                BY <3>1, <4>3 DEF Has
        <3> QED
            BY <3>2, <3>3
    <2>2. CASE i # 2
        <3>1. i \in 3..(n + 1) /\ i - 1 \in 2..n /\ i - 1 \in 2..(n + 1) /\ y[i] = x[i - 1]
            BY <1>4, <2>2
        <3>2. PICK j : j = i - 1
            OBVIOUS
        <3>3. /\ j \in 2..n /\ y[i] = x[j] /\ y[j].file = x[j - 1].file /\ y[j].at = x[j - 1].at
            BY <1>8, <3>1, <3>2
        <3>4. Has(x[j], r, done, x[j - 1])
            BY <1>13, <3>3 DEF Stacked
        <3> QED
            BY <3>2, <3>3, <3>4 DEF Has, Named
    <2> QED
        BY <2>1, <2>2
<1> QED
    BY <1>4, <1>10, <1>11, <1>12, <1>13 DEF Stacked

LEMMA StackEnds ==
    ASSUME NEW x, NEW n, NEW files, NEW done, Stacked(x, n, files, done), x # <<>>,
           NEW more, done \subseteq more,
           \E t \in more : t.file = Head(x).file /\ t.at = Head(x).at
    PROVE  Stacked(Tail(x), n - 1, files, more)
<1>1. PICK y : y = Tail(x)
    OBVIOUS
<1>2. Cut(y, x)
    BY <1>1, CutIs, Zenon DEF Stacked
<1>3. /\ n \in Nat \ {0} /\ Len(y) = n - 1 /\ Head(x) = x[1] /\ List(y)
      /\ \A i \in 1..(n - 1) : y[i] = x[i + 1]
    BY <1>2 DEF Cut, Stacked
<1>4. ASSUME NEW i \in 1..(n - 1)
      PROVE  /\ i + 1 \in 2..n /\ y[i] = x[i + 1] /\ Frame(files, y[i])
             /\ Len(y[i].at) = (n - 1) - i
    <2>1. i + 1 \in 1..n /\ i + 1 \in 2..n /\ (n - 1) - i = n - (i + 1)
        BY <1>3
    <2> QED
        BY <1>3, <2>1 DEF Stacked
<1>5. n - 1 # 0 => y[n - 1].file \in Roots
    BY <1>3 DEF Stacked
<1>6. ASSUME n - 1 # 0, NEW s \in files[y[1].file] \ y[1].todo, s.plugin = "include"
      PROVE  \E v \in more : Named(v, y[1], s)
    <2>1. y[1] = x[2] /\ 2 \in 2..n /\ 2 - 1 = 1
        BY <1>3, <1>6
    <2>2. Has(x[2], s, done, x[1])
        BY <1>6, <2>1 DEF Stacked
    <2> QED
        BY <1>3, <2>1, <2>2 DEF Has, Named
<1>7. ASSUME NEW i \in 2..(n - 1), NEW s \in files[y[i].file] \ y[i].todo, s.plugin = "include"
      PROVE  Has(y[i], s, more, y[i - 1])
    <2>1. /\ i + 1 \in 2..n /\ y[i] = x[i + 1] /\ (i + 1) - 1 = i
          /\ i - 1 \in 1..(n - 1) /\ (i - 1) + 1 = i
        BY <1>3
    <2>2. y[i - 1] = x[i]
        BY <1>3, <2>1
    <2>3. Has(x[i + 1], s, done, x[i])
        BY <1>7, <2>1 DEF Stacked
    <2> QED
        BY <2>1, <2>2, <2>3 DEF Has
<1>8. Stacked(y, n - 1, files, more)
    BY <1>3, <1>4, <1>5, <1>6, <1>7 DEF Stacked
<1> QED
    BY <1>1, <1>8

LEMMA StackStarts ==
    ASSUME NEW files, NEW done, NEW t,
           DOMAIN t = {"file", "at", "vars", "path", "todo", "workers"}, t.file \in DOMAIN files,
           t.file \in Roots, t.at = <<>>, t.todo = files[t.file], t.workers = {}
    PROVE  Stacked(<<t>>, 1, files, done)
<1>1. PICK y : y = <<t>>
    OBVIOUS
<1>2. y \in Seq({t}) /\ Len(y) = 1 /\ y[1] = t
    BY <1>1
<1>3. List(y)
    BY <1>2, ListIs
<1>4. Frame(files, t) /\ Len(t.at) = 0
    BY DEF Frame, Loaded
<1>5. \A i \in 1..1 : i = 1
    OBVIOUS
<1>6. files[y[1].file] \ y[1].todo = {}
    BY <1>2
<1>7. 2..1 = {} /\ 1 - 1 = 0
    OBVIOUS
<1>8. Stacked(y, 1, files, done)
    BY <1>2, <1>3, <1>4, <1>5, <1>6, <1>7 DEF Stacked
<1> QED
    BY <1>1, <1>8

LEMMA ShapeStep == Shape /\ [Next]_vars => Shape'
<1> SUFFICES ASSUME Shape, [Next]_vars PROVE Shape'
    OBVIOUS
<1>1. PICK n : Stacked(stack, n, Stages, built)
    BY StackedIs DEF Shape
<1>2. Stages \in Templates /\ Built /\ Ends
    BY DEF Shape
<1>3. ASSUME UNCHANGED <<Stages, stack, built>>, Ends' PROVE Shape'
    <2>1. Stacked(stack', n, Stages', built')
        BY <1>1, <1>3
    <2>2. Stack'
        BY <2>1, StackedIs
    <2>3. Built'
        BY <1>2, <1>3 DEF Built
    <2> QED
        BY <1>2, <1>3, <2>2, <2>3 DEF Shape
<1>4. CASE UNCHANGED <<Stages, result, wraps, stack, built>>
    BY <1>2, <1>3, <1>4 DEF Ends
<1>5. CASE Stops
    BY <1>2, <1>3, <1>5 DEF Ends, Stops
<1>6. CASE Starts
    <2>1. PICK f, v :
            /\ f \in Roots \cap DOMAIN Stages
            /\ result' = "loading" /\ UNCHANGED <<Stages, built>> /\ result = "start"
            /\ stack' = <<[file |-> f, at |-> <<>>, vars |-> v, path |-> "cli",
                           todo |-> Stages[f], workers |-> {}]>>
        BY <1>6 DEF Starts
    <2>2. PICK t : t = [file |-> f, at |-> <<>>, vars |-> v, path |-> "cli",
                        todo |-> Stages[f], workers |-> {}]
        OBVIOUS
    <2>3. stack' = <<t>>
        BY <2>1, <2>2
    <2>7. /\ DOMAIN t = {"file", "at", "vars", "path", "todo", "workers"}
          /\ t.file \in DOMAIN Stages /\ t.file \in Roots /\ t.at = <<>>
          /\ t.todo = Stages[t.file] /\ t.workers = {}
        BY <2>1, <2>2
    <2>4. Stacked(<<t>>, 1, Stages, built)
        BY <2>7, StackStarts, Zenon
    <2>5. Stack'
        BY <2>1, <2>3, <2>4, StackedIs
    <2>6. Built' /\ Ends'
        BY <1>2, <2>1, <2>3 DEF Built, Ends
    <2> QED
        BY <1>2, <2>1, <2>5, <2>6 DEF Shape
<1>7. ASSUME NEW s, Loads(s) PROVE Shape'
    <2>1. stack # <<>> /\ Top = Head(stack)
        BY <1>2, <1>7 DEF Ends, Loads, Top
    <2>2. PICK p : stack' = <<WithWorker(Head(stack), s, p)>> \o Tail(stack)
        BY <1>7, <2>1, Zenon DEF Loads
    <2>3. s \in Head(stack).todo /\ s.plugin # "include" /\ UNCHANGED <<Stages, result, wraps, built>>
        BY <1>7, <2>1 DEF Loads
    <2>4. Stacked(stack', n, Stages, built)
        BY <1>1, <2>1, <2>2, <2>3, StackLoads, Zenon
    <2>5. stack' # <<>>
        <3>1. List(stack) /\ List(stack') /\ Len(stack) = n /\ Len(stack') = n
            BY <1>1, <2>4 DEF Stacked
        <3> QED
            BY <2>1, <3>1, EmptyList
    <2>6. Stack' /\ Built' /\ Ends'
        BY <1>2, <2>3, <2>4, <2>5, <1>7, StackedIs DEF Built, Ends, Loads
    <2> QED
        BY <1>2, <2>3, <2>6 DEF Shape
<1>8. ASSUME NEW s, Reads(s) PROVE Shape'
    <2>1. stack # <<>> /\ Top = Head(stack)
        BY <1>2, <1>8 DEF Ends, Reads, Includes, Top
    <2>2. PICK v, q : Includes(s, v, q)
        BY <1>8, Zenon DEF Reads
    <2>3. /\ s \in Head(stack).todo /\ s.file \in DOMAIN Stages /\ result = "loading"
          /\ UNCHANGED <<Stages, result, built>>
        BY <2>1, <2>2 DEF Includes
    <2>4. PICK b : b = [file |-> s.file, at |-> IncludedAt(s), vars |-> v, path |-> q,
                        todo |-> Stages[s.file], workers |-> {}]
        OBVIOUS
    <2>5. /\ DOMAIN b = {"file", "at", "vars", "path", "todo", "workers"} /\ b.file = s.file
          /\ b.at = Append(Head(stack).at, s.name) /\ b.todo = Stages[s.file] /\ b.workers = {}
        BY <2>1, <2>4 DEF IncludedAt
    <2>6. PICK p : stack' = <<b>> \o (<<WithWorker(Head(stack), s, p)>> \o Tail(stack))
        BY <2>1, <2>2, <2>4, Zenon DEF Includes
    <2>7. Stacked(stack', n + 1, Stages, built)
        BY <1>1, <2>1, <2>3, <2>5, <2>6, StackIncludes, Zenon
    <2>8. stack' # <<>>
        <3>1. n \in Nat /\ Len(stack') = n + 1
            BY <1>1, <2>7 DEF Stacked, List
        <3> QED
            BY <3>1
    <2>9. Stack' /\ Built' /\ Ends'
        BY <1>2, <2>3, <2>7, <2>8, StackedIs DEF Built, Ends
    <2> QED
        BY <1>2, <2>3, <2>9 DEF Shape
<1>9. CASE EndTemplate
    <2>1. /\ result = "loading" /\ Top.todo = {} /\ stack' = Tail(stack)
          /\ result' = IF Tail(stack) = <<>> THEN "ok" ELSE "loading"
          /\ UNCHANGED <<Stages, wraps>>
        BY <1>9 DEF EndTemplate
    <2>2. stack # <<>> /\ Top = Head(stack) /\ List(stack)
        BY <1>1, <1>2, <2>1 DEF Ends, Top, Stacked
    <2>3. PICK t : t = [at |-> Top.at, file |-> Top.file, vars |-> Top.vars,
                        path |-> Top.path, workers |-> Top.workers]
        OBVIOUS
    <2>4. built' = built \cup {t} /\ t.file = Head(stack).file /\ t.at = Head(stack).at
        BY <1>9, <2>2, <2>3 DEF EndTemplate
    <2>5. Cut(stack', stack)
        BY <2>1, <2>2, CutIs
    <2>6. n \in Nat \ {0} /\ Len(stack') = n - 1 /\ Top = stack[1] /\ List(stack') /\ 1 \in 1..n
        BY <1>1, <2>2, <2>5 DEF Cut, Stacked
    <2>7. Stacked(stack', n - 1, Stages', built')
        BY <1>1, <2>1, <2>2, <2>4, StackEnds
    <2>8. Frame(Stages, stack[1]) /\ t.workers = stack[1].workers
        BY <1>1, <2>3, <2>6 DEF Stacked
    <2>9. Template(Stages, t)
        BY <2>1, <2>2, <2>4, <2>6, <2>8 DEF Frame, Template, Loaded
    <2>10. ASSUME NEW s \in Stages[t.file], s.plugin = "include"
           PROVE  \E u \in built' : Named(u, t, s)
        <3>1. s \in Stages[stack[1].file] \ stack[1].todo
            BY <2>1, <2>2, <2>4, <2>6, <2>10
        <3>2. PICK u \in built : Named(u, stack[1], s)
            BY <1>1, <2>6, <2>10, <3>1 DEF Stacked
        <3> QED
            BY <2>2, <2>4, <2>6, <3>2 DEF Named
    <2>11. Built'
        BY <1>2, <2>1, <2>4, <2>9, <2>10 DEF Built
    <2>12. Ends'
        <3>1. CASE Tail(stack) = <<>>
            <4>1. n = 1
                BY <2>1, <2>6, <3>1
            <4>2. stack[1].file \in Roots /\ stack[1].at = <<>>
                BY <1>1, <2>6, <2>8, <4>1 DEF Stacked, Frame
            <4>3. t \in built' /\ t.at = <<>> /\ t.file \in Roots
                BY <2>2, <2>4, <2>6, <4>2
            <4> QED
                BY <2>1, <3>1, <4>3 DEF Ends
        <3>2. CASE Tail(stack) # <<>>
            BY <2>1, <3>2 DEF Ends
        <3> QED
            BY <3>1, <3>2
    <2>13. Stack'
        BY <2>7, StackedIs
    <2> QED
        BY <1>2, <2>1, <2>11, <2>12, <2>13 DEF Shape
<1> QED
    BY <1>4, <1>5, <1>6, <1>7, <1>8, <1>9, StepCases DEF vars

LEMMA ShapeInit == Init => Shape
<1> SUFFICES ASSUME Init PROVE Shape
    OBVIOUS
<1>1. <<>> \in Seq({}) /\ Len(<<>>) = 0
    OBVIOUS
<1>2. List(stack)
    BY <1>1, ListIs DEF Init
<1>3. 1..0 = {} /\ 2..0 = {}
    OBVIOUS
<1>4. Stack
    BY <1>1, <1>2, <1>3 DEF Init, Stack
<1> QED
    BY <1>4 DEF Init, Shape, Built, Ends

-----------------------------------------------------------------------------
(***************************************************************************)
(* What an include gets through the wrappers.                              *)
(***************************************************************************)
\* The equation of the function in Wrapped, up to the n-th wrapper.
Fits(f, w, base, n) ==
    f = [i \in 0..n |-> IF i = 0 THEN base ELSE wrapTemplatePlugin(f[i - 1], w[i])]

LEMMA FitsStep ==
    ASSUME NEW w, NEW base, NEW n \in Nat, NEW f, Fits(f, w, base, n)
    PROVE  /\ f[0] = base
           /\ \A i \in 1..n : f[i] = wrapTemplatePlugin(f[i - 1], w[i])
<1>1. f = [i \in 0..n |-> IF i = 0 THEN base ELSE wrapTemplatePlugin(f[i - 1], w[i])]
    BY DEF Fits
<1>2. 0 \in 0..n /\ \A i \in 1..n : i \in 0..n /\ i # 0
    OBVIOUS
<1> QED
    BY <1>1, <1>2, Zenon

LEMMA FitsExists ==
    ASSUME NEW w, NEW base, NEW n \in Nat
    PROVE  \E f : Fits(f, w, base, n)
<1> DEFINE S == {m \in Nat : \E f : Fits(f, w, base, m)}
<1>1. 0 \in S
    <2> DEFINE f == [i \in 0..0 |-> base]
    <2>1. \A i \in 0..0 : i = 0
        OBVIOUS
    <2>2. Fits(f, w, base, 0)
        BY <2>1, Zenon DEF Fits
    <2> QED
        BY <2>2
<1>2. ASSUME NEW m \in S PROVE m + 1 \in S
    <2>1. PICK f : Fits(f, w, base, m)
        OBVIOUS
    <2> DEFINE g == [i \in 0..(m + 1) |->
                       IF i = m + 1 THEN wrapTemplatePlugin(f[m], w[i]) ELSE f[i]]
    <2>2. m \in Nat /\ f[0] = base /\ \A i \in 1..m : f[i] = wrapTemplatePlugin(f[i - 1], w[i])
        BY <2>1, FitsStep
    <2>3. ASSUME NEW i \in 0..(m + 1)
          PROVE  g[i] = IF i = 0 THEN base ELSE wrapTemplatePlugin(g[i - 1], w[i])
        <3>1. CASE i = 0
            BY <2>2, <3>1
        <3>2. CASE i \in 1..m
            <4>1. g[i] = f[i] /\ g[i - 1] = f[i - 1]
                BY <2>2, <3>2
            <4>2. i # 0
                BY <3>2
            <4> QED
                BY <2>2, <3>2, <4>1, <4>2, Zenon
        <3>3. CASE i = m + 1
            <4>1. i - 1 = m /\ i # 0 /\ g[i - 1] = f[m]
                BY <2>2, <3>3
            <4>2. g[i] = wrapTemplatePlugin(f[m], w[i])
                BY <3>3, Zenon
            <4> QED
                BY <4>1, <4>2, Zenon
        <3> QED
            BY <2>2, <3>1, <3>2, <3>3
    <2>4. g = [i \in 0..(m + 1) |-> g[i]]
        OBVIOUS
    <2>5. Fits(g, w, base, m + 1)
        <3> HIDE DEF g
        <3> QED
            BY <2>3, <2>4, Zenon DEF Fits
    <2> QED
        BY <2>5
<1>3. S = Nat
    <2> HIDE DEF S
    <2>1. S \subseteq Nat
        BY DEF S
    <2> QED
        BY <1>1, <1>2, <2>1, Induction
<1> QED
    BY <1>3

\* What the include of stage s, at place p, is given by the wrappers w.
Given(config, s, p, w) ==
    /\ config.path = w[Len(w)].path
    /\ \A i \in 1..Len(w) : DOMAIN w[i].vars \subseteq DOMAIN config.vars
    /\ \A v \in s.own : v \in DOMAIN config.vars /\ config.vars[v] = p

LEMMA WrappedIs ==
    ASSUME NEW s, s.section = "none" => s.own = {}, List(wraps), wraps # <<>>
    PROVE  Given(Wrapped(s), s, IncludedAt(s), wraps)
<1>1. PICK p : p = IncludedAt(s)
    OBVIOUS
<1>2. PICK base : base = [section |-> s.section, path |-> "", vars |-> OwnVars(s)]
    OBVIOUS
<1>3. /\ base.section = s.section /\ DOMAIN base.vars = s.own
      /\ \A v \in s.own : base.vars[v] = p
    BY <1>1, <1>2 DEF OwnVars
<1>4. PICK n : n = Len(wraps) /\ n \in Nat /\ n # 0
    BY EmptyList
<1> DEFINE h == CHOOSE f : Fits(f, wraps, base, n)
<1>5. Fits(h, wraps, base, n)
    BY <1>4, FitsExists
<1>6. Wrapped(s) = h[n]
    BY <1>2, <1>4, Zenon DEF Wrapped, Fits
<1>7. h[0] = base /\ \A i \in 1..n : h[i] = wrapTemplatePlugin(h[i - 1], wraps[i])
    <2>1. PICK g : g = h
        OBVIOUS
    <2>2. n \in Nat /\ Fits(g, wraps, base, n)
        BY <1>4, <1>5, <2>1
    <2>3. g[0] = base /\ \A i \in 1..n : g[i] = wrapTemplatePlugin(g[i - 1], wraps[i])
        BY <2>2, FitsStep
    <2> QED
        BY <2>1, <2>3
<1> HIDE DEF h
<1> DEFINE Right(i) ==
              /\ i # 0 => h[i].section = "map" /\ h[i].path = wraps[i].path
              /\ \A j \in 1..i : DOMAIN wraps[j].vars \subseteq DOMAIN h[i].vars
              /\ \A v \in s.own : v \in DOMAIN h[i].vars /\ h[i].vars[v] = p
           S == {i \in Nat : i <= n => Right(i)}
<1>8. 0 \in S
    BY <1>3, <1>7
<1>9. ASSUME NEW i \in S PROVE i + 1 \in S
    <2> SUFFICES ASSUME i + 1 <= n PROVE Right(i + 1)
        OBVIOUS
    <2>1. PICK k : k = i + 1
        OBVIOUS
    <2>2. i \in Nat /\ k \in 1..n /\ k - 1 = i /\ k # 0 /\ Right(i)
        BY <1>4, <2>1
    <2>3. PICK c, d, x, y : c = h[i] /\ d = h[k] /\ x = c.vars /\ y = wraps[k].vars
        OBVIOUS
    <2>4. d = wrapTemplatePlugin(c, wraps[k])
        BY <1>7, <2>2, <2>3
    <2>5. /\ d.section = "map" /\ d.path = wraps[k].path
          /\ d.vars = IF c.section = "none" THEN y ELSE Over(x, y)
        BY <2>3, <2>4 DEF wrapTemplatePlugin
    <2>6. CASE c.section = "none"
        <3>1. i = 0
            BY <2>2, <2>3, <2>6
        <3>2. s.own = {}
            BY <1>3, <1>7, <2>3, <2>6, <3>1
        <3>3. \A j \in 1..k : j = k
            BY <2>2, <3>1
        <3> QED
            BY <2>1, <2>2, <2>3, <2>5, <2>6, <3>2, <3>3
    <2>7. CASE c.section # "none"
        <3>1. d.vars = [v \in DOMAIN x \cup DOMAIN y |-> IF v \in DOMAIN x THEN x[v] ELSE y[v]]
            BY <2>5, <2>7 DEF Over
        <3>2. DOMAIN d.vars = DOMAIN x \cup DOMAIN y /\ \A v \in DOMAIN x : d.vars[v] = x[v]
            BY <3>1
        <3>3. ASSUME NEW j \in 1..k PROVE DOMAIN wraps[j].vars \subseteq DOMAIN d.vars
            <4>1. CASE j = k
                BY <2>3, <3>2, <4>1
            <4>2. CASE j # k
                <5>1. j \in 1..i
                    BY <2>2, <4>2
                <5> QED
                    BY <2>2, <2>3, <3>2, <5>1
            <4> QED
                BY <4>1, <4>2
        <3>4. ASSUME NEW v \in s.own PROVE v \in DOMAIN d.vars /\ d.vars[v] = p
            BY <2>2, <2>3, <3>2
        <3> QED
            BY <2>1, <2>3, <2>5, <3>3, <3>4
    <2> QED
        BY <2>6, <2>7
<1>10. S = Nat
    <2> HIDE DEF S
    <2>1. S \subseteq Nat
        BY DEF S
    <2> QED
        BY <1>8, <1>9, <2>1, Induction
<1>11. Right(n)
    BY <1>4, <1>10
<1> QED
    BY <1>1, <1>4, <1>6, <1>11 DEF Given

-----------------------------------------------------------------------------
(***************************************************************************)
(* Where the templates are, and what they know.                            *)
(***************************************************************************)
\* u is t, with fewer stages to load.
Same(u, t) ==
    /\ u.file = t.file /\ u.at = t.at /\ u.vars = t.vars /\ u.path = t.path
    /\ u.todo \subseteq t.todo

\* y is the stack x after a stage is loaded, or included as b; z the wrappers w
\* after e is put on them.
Moved(y, x, n) ==
    n \in Nat \ {0} /\ Len(y) = n /\ \A i \in 1..n : Same(y[i], x[i])
Deeper(y, x, n, b, s) ==
    /\ n \in Nat \ {0} /\ Len(y) = n + 1 /\ y[1] = b /\ Head(x) = x[1]
    /\ y[2].todo = x[1].todo \ {s} /\ \A i \in 1..n : Same(y[i + 1], x[i])
Wrapping(z, w, e) ==
    /\ List(z) /\ z # <<>> /\ z[Len(z)].path = "cli"
    /\ \E j \in 1..Len(z) : z[j].vars = e.vars
    /\ \A i \in 1..Len(w) : \E j \in 1..Len(z) : z[j].vars = w[i].vars

LEMMA LoadsMoves ==
    ASSUME NEW x, NEW n, NEW files, NEW done, Stacked(x, n, files, done), NEW y,
           x # <<>>, NEW s \in Head(x).todo, NEW p, y = <<WithWorker(Head(x), s, p)>> \o Tail(x)
    PROVE  Moved(y, x, n)
<1>1. PICK u : u = WithWorker(Head(x), s, p)
    OBVIOUS
<1>2. List(x) /\ y = <<u>> \o Tail(x)
    BY <1>1 DEF Stacked
<1>3. Swap(y, u, x)
    BY <1>2, SwapIs, Zenon
<1>4. /\ n \in Nat \ {0} /\ Len(y) = n /\ Head(x) = x[1] /\ y[1] = u
      /\ \A i \in 2..n : y[i] = x[i]
    BY <1>3 DEF Swap, Stacked
<1>5. 1 \in 1..n /\ Frame(files, x[1]) /\ s \in x[1].todo /\ u = WithWorker(x[1], s, p)
    BY <1>1, <1>4 DEF Stacked
<1>6. Grown(files, u, x[1], s)
    BY <1>5, WithWorkerIs, Zenon
<1>7. ASSUME NEW i \in 1..n PROVE Same(y[i], x[i])
    <2>1. CASE i = 1
        BY <1>4, <1>6, <2>1 DEF Grown, Same
    <2>2. CASE i # 1
        <3>1. y[i] = x[i]
            BY <1>4, <2>2
        <3> QED
            BY <3>1 DEF Same
    <2> QED
        BY <2>1, <2>2
<1> QED
    BY <1>4, <1>7 DEF Moved

LEMMA IncludesMoves ==
    ASSUME NEW x, NEW n, NEW files, NEW done, Stacked(x, n, files, done), NEW y, NEW b,
           x # <<>>, NEW s \in Head(x).todo, NEW p,
           y = <<b>> \o (<<WithWorker(Head(x), s, p)>> \o Tail(x))
    PROVE  Deeper(y, x, n, b, s)
<1>1. PICK u : u = WithWorker(Head(x), s, p)
    OBVIOUS
<1>2. List(x) /\ y = <<b>> \o (<<u>> \o Tail(x))
    BY <1>1 DEF Stacked
<1>3. Push(y, b, u, x)
    BY <1>2, PushIs, Zenon
<1>4. /\ n \in Nat \ {0} /\ Len(y) = n + 1 /\ Head(x) = x[1] /\ y[1] = b /\ y[2] = u
      /\ \A i \in 3..(n + 1) : y[i] = x[i - 1]
    BY <1>3 DEF Push, Stacked
<1>5. 1 \in 1..n /\ Frame(files, x[1]) /\ s \in x[1].todo /\ u = WithWorker(x[1], s, p)
    BY <1>1, <1>4 DEF Stacked
<1>6. Grown(files, u, x[1], s)
    BY <1>5, WithWorkerIs, Zenon
<1>7. ASSUME NEW i \in 1..n PROVE Same(y[i + 1], x[i])
    <2>1. CASE i = 1
        BY <1>4, <1>6, <2>1 DEF Grown, Same
    <2>2. CASE i # 1
        <3>1. i + 1 \in 3..(n + 1) /\ (i + 1) - 1 = i
            BY <1>4, <2>2
        <3>2. y[i + 1] = x[i]
            BY <1>4, <3>1
        <3> QED
            BY <3>2 DEF Same
    <2> QED
        BY <2>1, <2>2
<1> QED
    BY <1>4, <1>6, <1>7 DEF Grown, Deeper

\* What the wrappers have: the oldest is the command line's, and whatever is being
\* loaded has left its variables there.
Wraps ==
    /\ List(wraps) /\ (result = "loading" => wraps # <<>>)
    /\ wraps # <<>> => wraps[Len(wraps)].path = "cli"
    /\ \A t \in built : t.path = "cli"
    /\ \A i \in 1..Len(stack) :
         stack[i].path = "cli" /\ \E j \in 1..Len(wraps) : wraps[j].vars = stack[i].vars

LEMMA WrapsPut ==
    ASSUME NEW w, List(w), NEW e, NEW z, z = <<e>> \o w,
           (w # <<>> => w[Len(w)].path = "cli"), w # <<>> \/ e.path = "cli"
    PROVE  Wrapping(z, w, e)
<1>1. Put(z, e, w)
    BY PutIs, Zenon
<1>2. PICK n : n = Len(w)
    OBVIOUS
<1>3. /\ List(z) /\ n \in Nat /\ Len(z) = n + 1 /\ z[1] = e
      /\ \A i \in 1..n : z[i + 1] = w[i]
    BY <1>1, <1>2 DEF Put
<1>4. z # <<>>
    BY <1>3, EmptyList
<1>5. z[n + 1].path = "cli"
    <2>1. CASE w = <<>>
        <3>1. n = 0
            BY <1>2, <2>1
        <3> QED
            BY <1>3, <2>1, <3>1
    <2>2. CASE w # <<>>
        <3>1. n # 0
            BY <1>2, <2>2, EmptyList
        <3>2. n \in 1..n
            BY <1>3, <3>1
        <3> QED
            BY <1>2, <1>3, <2>2, <3>2
    <2> QED
        BY <2>1, <2>2
<1>6. 1 \in 1..(n + 1) /\ \A i \in 1..n : i + 1 \in 1..(n + 1)
    BY <1>3
<1>7. \E j \in 1..(n + 1) : z[j].vars = e.vars
    BY <1>3, <1>6
<1>8. \A i \in 1..n : \E j \in 1..(n + 1) : z[j].vars = w[i].vars
    BY <1>3, <1>6
<1> QED
    BY <1>2, <1>3, <1>4, <1>5, <1>7, <1>8 DEF Wrapping

LEMMA Unnamed ==
    ASSUME Shape, NEW s \in Top.todo, stack # <<>>
    PROVE  s.section = "none" => s.own = {}
<1>1. PICK n : Stacked(stack, n, Stages, built)
    BY StackedIs DEF Shape
<1>2. Top = stack[1] /\ 1 \in 1..n
    <2>1. Cut(Tail(stack), stack)
        BY <1>1, CutIs DEF Stacked
    <2> QED
        BY <1>1, <2>1 DEF Cut, Stacked, Top
<1>3. Frame(Stages, Top)
    BY <1>1, <1>2 DEF Stacked
<1>4. Top.file \in DOMAIN Stages /\ s \in Stages[Top.file] /\ Stages \in Templates
    BY <1>3 DEF Frame, Shape
<1> QED
    BY <1>4, StageNames

LEMMA WrapsStep == Shape /\ Wraps /\ [Next]_vars => Wraps'
<1> SUFFICES ASSUME Shape, Wraps, [Next]_vars PROVE Wraps'
    OBVIOUS
<1>1. PICK n : Stacked(stack, n, Stages, built) /\ n = Len(stack)
    BY StackedIs DEF Shape, Stacked
<1>2. Ends
    BY DEF Shape
<1>3. CASE UNCHANGED <<Stages, result, wraps, stack, built>>
    BY <1>3 DEF Wraps
<1>4. CASE Stops
    <2>1. result' # "loading" /\ UNCHANGED <<stack, built>>
        BY <1>4 DEF Stops
    <2>2. CASE wraps' = wraps
        BY <2>1, <2>2 DEF Wraps
    <2>3. CASE wraps' # wraps
        <3>1. PICK v, q : /\ wraps' = <<[vars |-> v, path |-> q]>> \o wraps
                          /\ result = "loading" \/ q = "cli"
            BY <1>4, <2>3 DEF Stops
        <3>2. PICK e : e = [vars |-> v, path |-> q]
            OBVIOUS
        <3>3. /\ List(wraps) /\ wraps' = <<e>> \o wraps
              /\ wraps # <<>> \/ e.path = "cli"
              /\ wraps # <<>> => wraps[Len(wraps)].path = "cli"
            BY <3>1, <3>2 DEF Wraps
        <3>4. Wrapping(wraps', wraps, e)
            BY <3>3, WrapsPut, Zenon
        <3>5. \A i \in 1..Len(stack) : \E j \in 1..Len(wraps') : wraps'[j].vars = stack[i].vars
            BY <3>4, Zenon DEF Wraps, Wrapping
        <3> QED
            BY <2>1, <3>4, <3>5 DEF Wraps, Wrapping
    <2> QED
        BY <2>2, <2>3
<1>5. CASE Starts
    <2>1. PICK f, v :
            /\ result = "start" /\ result' = "loading" /\ UNCHANGED built
            /\ wraps' = <<[vars |-> v, path |-> "cli"]>> \o wraps
            /\ stack' = <<[file |-> f, at |-> <<>>, vars |-> v, path |-> "cli",
                           todo |-> Stages[f], workers |-> {}]>>
        BY <1>5, Zenon DEF Starts
    <2>2. PICK e, t : /\ e = [vars |-> v, path |-> "cli"]
                      /\ t = [file |-> f, at |-> <<>>, vars |-> v, path |-> "cli",
                              todo |-> Stages[f], workers |-> {}]
        OBVIOUS
    <2>3. wraps' = <<e>> \o wraps /\ stack' = <<t>> /\ e.path = "cli" /\ e.vars = v
        BY <2>1, <2>2
    <2>4. List(wraps) /\ (wraps # <<>> => wraps[Len(wraps)].path = "cli")
        BY DEF Wraps
    <2>8. Wrapping(wraps', wraps, e)
        BY <2>3, <2>4, WrapsPut, Zenon
    <2>5. /\ List(wraps') /\ wraps' # <<>> /\ wraps'[Len(wraps')].path = "cli"
          /\ \E j \in 1..Len(wraps') : wraps'[j].vars = e.vars
        BY <2>8, Zenon DEF Wrapping
    <2>6. /\ Len(stack') = 1 /\ stack'[1].path = "cli" /\ stack'[1].vars = v
        BY <2>2, <2>3
    <2>7. \A i \in 1..1 : i = 1
        OBVIOUS
    <2> QED
        BY <2>1, <2>3, <2>5, <2>6, <2>7 DEF Wraps
<1>6. ASSUME NEW s, Loads(s) PROVE Wraps'
    <2>1. stack # <<>> /\ Top = Head(stack)
        BY <1>2, <1>6 DEF Ends, Loads, Top
    <2>2. PICK p : stack' = <<WithWorker(Head(stack), s, p)>> \o Tail(stack)
        BY <1>6, <2>1, Zenon DEF Loads
    <2>3. s \in Head(stack).todo /\ UNCHANGED <<result, wraps, built>>
        BY <1>6, <2>1 DEF Loads
    <2>4. Moved(stack', stack, n)
        BY <1>1, <2>1, <2>2, <2>3, LoadsMoves, Zenon
    <2> QED
        BY <1>1, <2>3, <2>4 DEF Wraps, Same, Moved
<1>7. ASSUME NEW s, Reads(s) PROVE Wraps'
    <2>1. stack # <<>> /\ Top = Head(stack)
        BY <1>2, <1>7 DEF Ends, Reads, Includes, Top
    <2>2. PICK v, q : Includes(s, v, q) /\ q = Wrapped(s).path
        BY <1>7, Zenon DEF Reads
    <2>3. /\ s \in Head(stack).todo /\ result = "loading" /\ UNCHANGED <<result, built>>
          /\ wraps' = <<[vars |-> v, path |-> q]>> \o wraps
        BY <2>1, <2>2 DEF Includes
    <2>4. PICK b : b = [file |-> s.file, at |-> IncludedAt(s), vars |-> v, path |-> q,
                        todo |-> Stages[s.file], workers |-> {}]
        OBVIOUS
    <2>5. PICK p : stack' = <<b>> \o (<<WithWorker(Head(stack), s, p)>> \o Tail(stack))
        BY <2>1, <2>2, <2>4, Zenon DEF Includes
    <2>13. Deeper(stack', stack, n, b, s)
        BY <1>1, <2>1, <2>3, <2>5, IncludesMoves, Zenon
    <2>6. /\ n \in Nat \ {0} /\ Len(stack') = n + 1 /\ stack'[1] = b
          /\ \A i \in 1..n : Same(stack'[i + 1], stack[i])
        BY <2>13 DEF Deeper
    <2>7. PICK e : e = [vars |-> v, path |-> q]
        OBVIOUS
    <2>8. /\ List(wraps) /\ wraps # <<>> /\ wraps[Len(wraps)].path = "cli"
          /\ wraps' = <<e>> \o wraps /\ e.vars = v
        BY <2>3, <2>7 DEF Wraps
    <2>14. Wrapping(wraps', wraps, e)
        BY <2>8, WrapsPut, Zenon
    <2>9. /\ List(wraps') /\ wraps' # <<>> /\ wraps'[Len(wraps')].path = "cli"
          /\ \E j \in 1..Len(wraps') : wraps'[j].vars = e.vars
          /\ \A i \in 1..Len(wraps) : \E j \in 1..Len(wraps') : wraps'[j].vars = wraps[i].vars
        BY <2>14, Zenon DEF Wrapping
    <2>10. q = "cli"
        <3>1. s.section = "none" => s.own = {}
            BY <2>1, <2>3, Unnamed
        <3>2. Given(Wrapped(s), s, IncludedAt(s), wraps)
            BY <2>8, <3>1, WrappedIs
        <3> QED
            BY <2>2, <2>8, <3>2 DEF Given
    <2>11. b.path = "cli" /\ b.vars = v
        BY <2>4, <2>10
    <2>12. ASSUME NEW i \in 1..(n + 1)
           PROVE  /\ stack'[i].path = "cli"
                  /\ \E j \in 1..Len(wraps') : wraps'[j].vars = stack'[i].vars
        <3>1. CASE i = 1
            BY <2>6, <2>8, <2>9, <2>11, <3>1
        <3>2. CASE i # 1
            <4>1. PICK k : k = i - 1
                OBVIOUS
            <4>2. k \in 1..n /\ i = k + 1
                BY <2>6, <3>2, <4>1
            <4>3. Same(stack'[i], stack[k])
                BY <2>6, <4>2
            <4>4. PICK j \in 1..Len(wraps) : wraps[j].vars = stack[k].vars
                BY <1>1, <4>2 DEF Wraps
            <4>5. stack[k].path = "cli"
                BY <1>1, <4>2 DEF Wraps
            <4>6. \E m \in 1..Len(wraps') : wraps'[m].vars = wraps[j].vars
                BY <2>9
            <4> QED
                BY <4>3, <4>4, <4>5, <4>6 DEF Same
        <3> QED
            BY <3>1, <3>2
    <2> QED
        BY <2>3, <2>6, <2>9, <2>12 DEF Wraps
<1>8. CASE EndTemplate
    <2>1. /\ result = "loading" /\ stack' = Tail(stack) /\ UNCHANGED wraps
          /\ built' = built \cup {[at |-> Top.at, file |-> Top.file, vars |-> Top.vars,
                                   path |-> Top.path, workers |-> Top.workers]}
        BY <1>8 DEF EndTemplate
    <2>2. stack # <<>> /\ Top = Head(stack) /\ List(stack)
        BY <1>1, <1>2, <2>1 DEF Ends, Top, Stacked
    <2>3. Cut(stack', stack)
        BY <2>1, <2>2, CutIs
    <2>4. /\ n \in Nat \ {0} /\ Len(stack') = n - 1 /\ Top = stack[1] /\ 1 \in 1..n
          /\ \A i \in 1..(n - 1) : stack'[i] = stack[i + 1] /\ i + 1 \in 1..n
        BY <1>1, <2>2, <2>3 DEF Cut
    <2>5. Top.path = "cli"
        BY <1>1, <2>4 DEF Wraps
    <2>6. \A t \in built' : t.path = "cli"
        BY <2>1, <2>5 DEF Wraps
    <2>7. wraps # <<>> /\ List(wraps) /\ wraps[Len(wraps)].path = "cli"
        BY <2>1 DEF Wraps
    <2>8. \A i \in 1..(n - 1) :
             stack'[i].path = "cli" /\ \E j \in 1..Len(wraps) : wraps[j].vars = stack'[i].vars
        <3> SUFFICES ASSUME NEW i \in 1..(n - 1)
                     PROVE  /\ stack'[i].path = "cli"
                            /\ \E j \in 1..Len(wraps) : wraps[j].vars = stack'[i].vars
            OBVIOUS
        <3>1. PICK k : k = i + 1
            OBVIOUS
        <3>2. stack'[i] = stack[k] /\ k \in 1..Len(stack)
            BY <1>1, <2>4, <3>1
        <3> QED
            BY <3>2 DEF Wraps
    <2> QED
        BY <2>1, <2>4, <2>6, <2>7, <2>8 DEF Wraps
<1> QED
    BY <1>3, <1>4, <1>5, <1>6, <1>7, <1>8, StepCases DEF vars

-----------------------------------------------------------------------------
(***************************************************************************)
(* No two templates at one place, and who included whom.                   *)
(***************************************************************************)
\* t is at stage s of u, knows what the stage sets and has all variables of u.
Joined(t, u, s) ==
    /\ t.at = Append(u.at, s.name)
    /\ "is_included" \in DOMAIN t.vars /\ DOMAIN u.vars \subseteq DOMAIN t.vars
    /\ \A v \in s.own : v \in DOMAIN t.vars /\ t.vars[v] = t.at

Around(t, x, n, files, done) ==
    \/ \E u \in done : \E s \in files[u.file] : Joined(t, u, s)
    \/ \E i \in 1..n : \E s \in files[x[i].file] \ x[i].todo : Joined(t, x[i], s)

Placed(x, n, files, done) ==
    /\ \A t, u \in done : t.at = u.at => t = u
    /\ \A t \in done, i \in 1..n : t.at # x[i].at
    /\ \A t \in done : t.at = <<>> \/ Around(t, x, n, files, done)
    /\ \A i \in 1..n : x[i].at = <<>> \/ Around(x[i], x, n, files, done)

Places == \E n : n = Len(stack) /\ Placed(stack, n, Stages, built)

\* Every template of the stack x is on the stack y, or loaded.
Carried(x, n, y, m, more) ==
    \A i \in 1..n :
      \/ \E u \in more : u.file = x[i].file /\ u.at = x[i].at /\ u.vars = x[i].vars
      \/ \E j \in 1..m : Same(y[j], x[i])

LEMMA AroundStays ==
    ASSUME NEW x, NEW n, NEW y, NEW m, NEW files, NEW done, NEW more, done \subseteq more,
           Carried(x, n, y, m, more), NEW t, NEW r, Around(t, x, n, files, done),
           r.at = t.at, r.vars = t.vars
    PROVE  Around(r, y, m, files, more)
<1>1. CASE \E u \in done : \E s \in files[u.file] : Joined(t, u, s)
    <2>1. PICK u \in done : \E s \in files[u.file] : Joined(t, u, s)
        BY <1>1
    <2>2. PICK s \in files[u.file] : Joined(t, u, s)
        BY <2>1
    <2>3. Joined(r, u, s)
        BY <2>2 DEF Joined
    <2> QED
        BY <2>3 DEF Around
<1>2. CASE \E i \in 1..n : \E s \in files[x[i].file] \ x[i].todo : Joined(t, x[i], s)
    <2>1. PICK i \in 1..n : \E s \in files[x[i].file] \ x[i].todo : Joined(t, x[i], s)
        BY <1>2
    <2>2. PICK s \in files[x[i].file] \ x[i].todo : Joined(t, x[i], s)
        BY <2>1
    <2>3. CASE \E u \in more : u.file = x[i].file /\ u.at = x[i].at /\ u.vars = x[i].vars
        <3>1. PICK u \in more : u.file = x[i].file /\ u.at = x[i].at /\ u.vars = x[i].vars
            BY <2>3
        <3>2. Joined(r, u, s) /\ s \in files[u.file]
            BY <2>2, <3>1 DEF Joined
        <3> QED
            BY <3>2 DEF Around
    <2>4. CASE \E j \in 1..m : Same(y[j], x[i])
        <3>1. PICK j \in 1..m : Same(y[j], x[i])
            BY <2>4
        <3>2. Joined(r, y[j], s) /\ s \in files[y[j].file] \ y[j].todo
            BY <2>2, <3>1 DEF Joined, Same
        <3> QED
            BY <3>2 DEF Around
    <2> QED
        BY <2>3, <2>4 DEF Carried
<1> QED
    BY <1>1, <1>2 DEF Around

LEMMA PlacedLoads ==
    ASSUME NEW x, NEW n, NEW files, NEW done, Placed(x, n, files, done), NEW y, Moved(y, x, n)
    PROVE  Placed(y, n, files, done)
<1>1. \A i \in 1..n : Same(y[i], x[i])
    BY DEF Moved
<1>2. Carried(x, n, y, n, done)
    BY <1>1 DEF Carried
<1>3. \A t \in done : t.at = <<>> \/ Around(t, y, n, files, done)
    BY <1>2, AroundStays DEF Placed
<1>4. ASSUME NEW i \in 1..n PROVE y[i].at = <<>> \/ Around(y[i], y, n, files, done)
    <2>1. y[i].at = x[i].at /\ y[i].vars = x[i].vars
        BY <1>1 DEF Same
    <2>2. CASE x[i].at = <<>>
        BY <2>1, <2>2
    <2>3. CASE Around(x[i], x, n, files, done)
        BY <1>2, <2>1, <2>3, AroundStays
    <2> QED
        BY <2>2, <2>3 DEF Placed
<1>5. \A t \in done, i \in 1..n : t.at # y[i].at
    BY <1>1 DEF Placed, Same
<1> QED
    BY <1>3, <1>4, <1>5 DEF Placed

\* The names of a file's stages are distinct.
Distinct(files) ==
    \A f \in DOMAIN files : \A r, s \in files[f] : r.name = s.name => r = s

\* Nothing is at the place of a stage that is still to load.
LEMMA Fresh ==
    ASSUME NEW x, NEW n \in Nat \ {0}, NEW files, NEW done, Placed(x, n, files, done),
           Stacked(x, n, files, done), Distinct(files), NEW s \in x[1].todo,
           NEW t \in done, \A u \in done : Template(files, u),
           t.at = Append(x[1].at, s.name)
    PROVE  FALSE
<1> DEFINE N == Names(files)
<1>1. /\ 1 \in 1..n /\ x[1].at \in Seq(N) /\ x[1].file \in DOMAIN files
      /\ s \in files[x[1].file] /\ Len(x[1].at) = n - 1
    <2>1. 1 \in 1..n
        OBVIOUS
    <2>2. Frame(files, x[1]) /\ Len(x[1].at) = n - 1
        BY <2>1 DEF Stacked
    <2>3. x[1].at \in Seq(N) /\ x[1].file \in DOMAIN files /\ x[1].todo \subseteq files[x[1].file]
        BY <2>2 DEF Frame
    <2> QED
        BY <2>1, <2>2, <2>3
<1>2. s.name \in N
    BY <1>1 DEF Names
<1> HIDE DEF N
<1>3. PICK a, m : a = x[1].at /\ m = s.name
    OBVIOUS
<1>4. a \in Seq(N) /\ m \in N /\ t.at = Append(a, m)
    BY <1>1, <1>2, <1>3
<1>5. t.at # <<>>
    BY <1>4, AppendProperties
<1>6. Around(t, x, n, files, done)
    BY <1>5 DEF Placed
<1>7. ASSUME NEW b \in Seq(N), NEW k \in N, t.at = Append(b, k) PROVE b = a /\ k = m
    <2>1. PICK G : G = N
        OBVIOUS
    <2>2. a \in Seq(G) /\ m \in G /\ b \in Seq(G) /\ k \in G /\ Append(b, k) = Append(a, m)
        BY <1>4, <1>7, <2>1
    <2> QED
        BY <2>2, AppendInjective
<1>8. ASSUME NEW u \in done, NEW r \in files[u.file], Joined(t, u, r) PROVE FALSE
    <2>1. u.at \in Seq(N) /\ r.name \in N /\ t.at = Append(u.at, r.name)
        BY <1>8 DEF Template, Names, Joined, N
    <2>2. u.at = x[1].at
        BY <1>3, <1>7, <2>1
    <2> QED
        BY <1>1, <2>2 DEF Placed
<1>9. ASSUME NEW i \in 1..n, NEW r \in files[x[i].file] \ x[i].todo, Joined(t, x[i], r) PROVE FALSE
    <2>1. /\ x[i].at \in Seq(N) /\ x[i].file \in DOMAIN files /\ t.at = Append(x[i].at, r.name)
          /\ Len(x[i].at) = n - i
        BY <1>9 DEF Stacked, Frame, Joined, N
    <2>2. r.name \in N
        BY <2>1 DEF Names, N
    <2>3. x[i].at = x[1].at /\ r.name = s.name
        BY <1>3, <1>7, <2>1, <2>2
    <2>4. n - i = n - 1
        BY <1>1, <2>1, <2>3
    <2>5. i = 1
        BY <2>4
    <2>6. r = s
        BY <1>1, <2>3, <2>5 DEF Distinct
    <2> QED
        BY <2>5, <2>6
<1> QED
    BY <1>6, <1>8, <1>9 DEF Around

LEMMA PlacedIncludes ==
    ASSUME NEW x, NEW n, NEW files, NEW done, Placed(x, n, files, done),
           Stacked(x, n, files, done), Distinct(files), NEW y, NEW b, NEW s \in x[1].todo,
           Deeper(y, x, n, b, s), Joined(b, x[1], s), \A u \in done : Template(files, u)
    PROVE  Placed(y, n + 1, files, done)
<1>1. /\ n \in Nat \ {0} /\ y[1] = b /\ y[2].todo = x[1].todo \ {s}
      /\ \A i \in 1..n : Same(y[i + 1], x[i]) /\ i + 1 \in 1..(n + 1)
    BY DEF Deeper
<1>2. Carried(x, n, y, n + 1, done)
    BY <1>1 DEF Carried
<1>3. \A t \in done : t.at = <<>> \/ Around(t, y, n + 1, files, done)
    BY <1>2, AroundStays DEF Placed
<1>4. Around(b, y, n + 1, files, done)
    <2>1. 1 \in 1..n /\ 1 + 1 = 2 /\ 2 \in 1..(n + 1)
        BY <1>1
    <2>2. Same(y[2], x[1])
        BY <1>1, <2>1
    <2>3. Joined(b, y[2], s)
        BY <2>2 DEF Same, Joined
    <2>4. s \in files[y[2].file] \ y[2].todo
        BY <1>1, <2>1, <2>2 DEF Same, Stacked, Frame
    <2> QED
        BY <2>1, <2>3, <2>4 DEF Around
<1>5. ASSUME NEW i \in 1..(n + 1) PROVE y[i].at = <<>> \/ Around(y[i], y, n + 1, files, done)
    <2>1. CASE i = 1
        BY <1>1, <1>4, <2>1
    <2>2. CASE i # 1
        <3>1. PICK j : j = i - 1
            OBVIOUS
        <3>2. j \in 1..n /\ i = j + 1
            BY <1>1, <2>2, <3>1
        <3>3. y[i].at = x[j].at /\ y[i].vars = x[j].vars
            BY <1>1, <3>2 DEF Same
        <3>4. CASE x[j].at = <<>>
            BY <3>3, <3>4
        <3>5. CASE Around(x[j], x, n, files, done)
            BY <1>2, <3>3, <3>5, AroundStays
        <3> QED
            BY <3>2, <3>4, <3>5 DEF Placed
    <2> QED
        BY <2>1, <2>2
<1>6. ASSUME NEW t \in done, NEW i \in 1..(n + 1) PROVE t.at # y[i].at
    <2>1. CASE i = 1
        <3> SUFFICES ASSUME t.at = y[i].at PROVE FALSE
            OBVIOUS
        <3>1. t.at = Append(x[1].at, s.name) /\ n \in Nat \ {0}
            BY <1>1, <2>1 DEF Joined
        <3> QED
            BY <1>6, <3>1, Fresh, Zenon
    <2>2. CASE i # 1
        <3>1. PICK j : j = i - 1
            OBVIOUS
        <3>2. j \in 1..n /\ i = j + 1
            BY <1>1, <2>2, <3>1
        <3>3. y[i].at = x[j].at
            BY <1>1, <3>2 DEF Same
        <3>4. t.at # x[j].at
            BY <1>6, <3>2 DEF Placed
        <3> QED
            BY <3>3, <3>4
    <2> QED
        BY <2>1, <2>2
<1> QED
    BY <1>3, <1>5, <1>6 DEF Placed

LEMMA PlacedEnds ==
    ASSUME NEW x, NEW n, NEW files, NEW done, Placed(x, n, files, done),
           Stacked(x, n, files, done), NEW y, Cut(y, x), NEW t,
           t.at = x[1].at, t.file = x[1].file, t.vars = x[1].vars
    PROVE  Placed(y, n - 1, files, done \cup {t})
<1> DEFINE more == done \cup {t}
<1>1. /\ n \in Nat \ {0} /\ 1 \in 1..n
      /\ \A i \in 1..(n - 1) : y[i] = x[i + 1] /\ i + 1 \in 1..n
    BY DEF Cut, Stacked
<1>2. Carried(x, n, y, n - 1, more)
    <2> SUFFICES ASSUME NEW i \in 1..n
                 PROVE  \/ \E u \in more : u.file = x[i].file /\ u.at = x[i].at /\ u.vars = x[i].vars
                        \/ \E j \in 1..(n - 1) : Same(y[j], x[i])
        BY Zenon DEF Carried
    <2>1. CASE i = 1
        BY <2>1
    <2>2. CASE i # 1
        <3>1. PICK j : j = i - 1
            OBVIOUS
        <3>2. j \in 1..(n - 1) /\ i = j + 1
            BY <1>1, <2>2, <3>1
        <3>3. Same(y[j], x[i])
            BY <1>1, <3>2 DEF Same
        <3> QED
            BY <3>2, <3>3
    <2> QED
        BY <2>1, <2>2
<1>3. done \subseteq more /\ t \in more
    OBVIOUS
<1> HIDE DEF more
<1>4. ASSUME NEW u \in done PROVE u.at = <<>> \/ Around(u, y, n - 1, files, more)
    BY <1>2, <1>3, AroundStays DEF Placed
<1>5. t.at = <<>> \/ Around(t, y, n - 1, files, more)
    <2>1. x[1].at = <<>> \/ Around(x[1], x, n, files, done)
        BY <1>1 DEF Placed
    <2>2. CASE Around(x[1], x, n, files, done)
        BY <1>2, <1>3, <2>2, AroundStays
    <2> QED
        BY <2>1, <2>2
<1>6. ASSUME NEW i \in 1..(n - 1) PROVE y[i].at = <<>> \/ Around(y[i], y, n - 1, files, more)
    <2>1. PICK j : j = i + 1
        OBVIOUS
    <2>2. j \in 1..n /\ y[i] = x[j]
        BY <1>1, <2>1
    <2>3. x[j].at = <<>> \/ Around(x[j], x, n, files, done)
        BY <2>2 DEF Placed
    <2>4. CASE Around(x[j], x, n, files, done)
        BY <1>2, <1>3, <2>2, <2>4, AroundStays
    <2> QED
        BY <2>2, <2>3, <2>4
<1>7. \A r, u \in more : r.at = u.at => r = u
    BY <1>1 DEF Placed, more
<1>8. ASSUME NEW u \in more, NEW i \in 1..(n - 1) PROVE u.at # y[i].at
    <2>1. PICK j : j = i + 1
        OBVIOUS
    <2>2. j \in 1..n /\ y[i] = x[j] /\ j # 1
        BY <1>1, <2>1
    <2>3. CASE u \in done
        BY <2>2, <2>3 DEF Placed
    <2>4. CASE u = t
        <3>1. Len(x[1].at) = n - 1 /\ Len(x[j].at) = n - j
            BY <1>1, <2>2 DEF Stacked
        <3>2. n - 1 # n - j
            BY <1>1, <2>2
        <3> QED
            BY <2>2, <2>4, <3>1, <3>2
    <2> QED
        BY <2>3, <2>4 DEF more
<1>9. Placed(y, n - 1, files, more)
    BY <1>4, <1>5, <1>6, <1>7, <1>8 DEF Placed, more
<1> QED
    BY <1>9 DEF more

\* The step of an include: the new template is joined to the one it is in.
LEMMA ReadsJoins ==
    ASSUME Shape, Wraps, stack # <<>>, NEW s \in Top.todo, NEW b, b.at = IncludedAt(s),
           b.vars = Over([is_included |-> IncludedAt(s)], Wrapped(s).vars)
    PROVE  Joined(b, Top, s)
<1>1. s.section = "none" => s.own = {}
    BY Unnamed
<1>2. wraps # <<>> /\ List(wraps)
    <2>1. PICK n : n = Len(stack) /\ n \in Nat /\ n # 0
        BY EmptyList DEF Shape, Stack
    <2>2. 1 \in 1..n
        BY <2>1
    <2>3. \E j \in 1..Len(wraps) : wraps[j].vars = stack[1].vars
        BY <2>1, <2>2 DEF Wraps
    <2>4. List(wraps)
        BY DEF Wraps
    <2>5. Len(wraps) # 0
        BY <2>3
    <2> QED
        BY <2>4, <2>5, EmptyList
<1>3. Given(Wrapped(s), s, IncludedAt(s), wraps)
    BY <1>1, <1>2, WrappedIs
<1>4. PICK c, p, d : c = Wrapped(s) /\ p = IncludedAt(s) /\ d = c.vars
    OBVIOUS
<1>5. /\ \A i \in 1..Len(wraps) : DOMAIN wraps[i].vars \subseteq DOMAIN d
      /\ \A v \in s.own : v \in DOMAIN d /\ d[v] = p
    BY <1>3, <1>4 DEF Given
<1>6. b.vars = Over([is_included |-> p], d) /\ b.at = p
    BY <1>4
<1>7. PICK o : o = [is_included |-> p]
    OBVIOUS
<1>8. DOMAIN o = {"is_included"} /\ o["is_included"] = p
    BY <1>7
<1>9. b.vars = [v \in DOMAIN o \cup DOMAIN d |-> IF v \in DOMAIN o THEN o[v] ELSE d[v]]
    BY <1>6, <1>7 DEF Over
<1>10. /\ "is_included" \in DOMAIN b.vars /\ DOMAIN d \subseteq DOMAIN b.vars
       /\ \A v \in s.own : v \in DOMAIN b.vars /\ b.vars[v] = b.at
    BY <1>5, <1>6, <1>8, <1>9
<1>11. DOMAIN Top.vars \subseteq DOMAIN d
    <2>1. PICK n : n = Len(stack) /\ n \in Nat /\ n # 0
        BY EmptyList DEF Shape, Stack
    <2>2. 1 \in 1..n
        BY <2>1
    <2>3. PICK j \in 1..Len(wraps) : wraps[j].vars = stack[1].vars
        BY <2>1, <2>2 DEF Wraps
    <2>4. Cut(Tail(stack), stack)
        BY CutIs DEF Shape, Stack
    <2>5. Top = stack[1]
        BY <2>4 DEF Cut, Top
    <2> QED
        BY <1>5, <2>3, <2>5
<1>12. b.at = Append(Top.at, s.name)
    BY DEF IncludedAt
<1> QED
    BY <1>10, <1>11, <1>12 DEF Joined

LEMMA PlacesStep == Shape /\ Wraps /\ Places /\ [Next]_vars => Places'
<1> SUFFICES ASSUME Shape, Wraps, Places, [Next]_vars PROVE Places'
    OBVIOUS
<1>1. PICK n : Stacked(stack, n, Stages, built) /\ n = Len(stack)
    BY StackedIs DEF Shape, Stacked
<1>2. Ends /\ Built /\ Stages \in Templates
    BY DEF Shape
<1>3. Placed(stack, n, Stages, built)
    BY <1>1 DEF Places
<1>4. CASE UNCHANGED <<Stages, stack, built>>
    BY <1>4 DEF Places
<1>5. CASE Starts
    <2>1. PICK f, v :
            /\ result = "start" /\ UNCHANGED built
            /\ stack' = <<[file |-> f, at |-> <<>>, vars |-> v, path |-> "cli",
                           todo |-> Stages[f], workers |-> {}]>>
        BY <1>5, Zenon DEF Starts
    <2>2. built' = {}
        BY <1>2, <2>1 DEF Ends
    <2>3. Len(stack') = 1 /\ stack'[1].at = <<>>
        BY <2>1
    <2>4. \A i \in 1..1 : stack'[i].at = <<>>
        BY <2>3
    <2>5. Placed(stack', 1, Stages', built')
        BY <2>2, <2>4 DEF Placed
    <2> QED
        BY <2>3, <2>5 DEF Places
<1>6. ASSUME NEW s, Loads(s) PROVE Places'
    <2>1. stack # <<>> /\ Top = Head(stack)
        BY <1>2, <1>6 DEF Ends, Loads, Top
    <2>2. PICK p : stack' = <<WithWorker(Head(stack), s, p)>> \o Tail(stack)
        BY <1>6, <2>1, Zenon DEF Loads
    <2>3. s \in Head(stack).todo /\ UNCHANGED <<Stages, built>>
        BY <1>6, <2>1 DEF Loads
    <2>4. Moved(stack', stack, n)
        BY <1>1, <2>1, <2>2, <2>3, LoadsMoves, Zenon
    <2>5. Placed(stack', n, Stages, built) /\ Len(stack') = n
        BY <1>3, <2>4, PlacedLoads DEF Moved
    <2> QED
        BY <2>3, <2>5 DEF Places
<1>7. ASSUME NEW s, Reads(s) PROVE Places'
    <2>1. stack # <<>> /\ Top = Head(stack)
        BY <1>2, <1>7 DEF Ends, Reads, Includes, Top
    <2>2. PICK v, q : Includes(s, v, q)
                      /\ v = Over([is_included |-> IncludedAt(s)], Wrapped(s).vars)
        BY <1>7, Zenon DEF Reads
    <2>3. s \in Top.todo /\ UNCHANGED <<Stages, built>>
        BY <2>2 DEF Includes
    <2>4. PICK b : b = [file |-> s.file, at |-> IncludedAt(s), vars |-> v, path |-> q,
                        todo |-> Stages[s.file], workers |-> {}]
        OBVIOUS
    <2>5. PICK p : stack' = <<b>> \o (<<WithWorker(Head(stack), s, p)>> \o Tail(stack))
        BY <2>1, <2>2, <2>4, Zenon DEF Includes
    <2>6. Deeper(stack', stack, n, b, s)
        BY <1>1, <2>1, <2>3, <2>5, IncludesMoves, Zenon
    <2>7. Head(stack) = stack[1] /\ Len(stack') = n + 1
        BY <2>6 DEF Deeper
    <2>8. b.at = IncludedAt(s) /\ b.vars = v
        BY <2>4
    <2>9. Joined(b, stack[1], s)
        <3>1. Joined(b, Top, s)
            BY <2>1, <2>2, <2>3, <2>8, ReadsJoins, Zenon
        <3> QED
            BY <2>1, <2>7, <3>1
    <2>10. s \in stack[1].todo
        BY <2>1, <2>3, <2>7
    <2>11. Distinct(Stages)
        BY <1>2, StageNames DEF Distinct
    <2>12. \A u \in built : Template(Stages, u)
        BY <1>2 DEF Built
    <2>13. Placed(stack', n + 1, Stages, built)
        BY <1>1, <1>3, <2>6, <2>9, <2>10, <2>11, <2>12, PlacedIncludes, Zenon
    <2> QED
        BY <2>3, <2>7, <2>13 DEF Places
<1>8. CASE EndTemplate
    <2>1. PICK t : t = [at |-> Top.at, file |-> Top.file, vars |-> Top.vars,
                        path |-> Top.path, workers |-> Top.workers]
        OBVIOUS
    <2>2. /\ result = "loading" /\ stack' = Tail(stack) /\ built' = built \cup {t}
          /\ UNCHANGED Stages
        BY <1>8, <2>1 DEF EndTemplate
    <2>3. stack # <<>> /\ Top = Head(stack) /\ List(stack)
        BY <1>1, <1>2, <2>2 DEF Ends, Top, Stacked
    <2>4. Cut(stack', stack)
        BY <2>2, <2>3, CutIs
    <2>5. Len(stack') = n - 1 /\ Top = stack[1]
        BY <1>1, <2>3, <2>4 DEF Cut
    <2>6. t.at = stack[1].at /\ t.file = stack[1].file /\ t.vars = stack[1].vars
        BY <2>1, <2>5
    <2>7. Placed(stack', n - 1, Stages, built \cup {t})
        BY <1>1, <1>3, <2>4, <2>6, PlacedEnds, Zenon
    <2> QED
        BY <2>2, <2>5, <2>7 DEF Places
<1>9. CASE Stops
    BY <1>4, <1>9 DEF Stops
<1> QED
    BY <1>4, <1>5, <1>6, <1>7, <1>8, <1>9, StepCases DEF vars

-----------------------------------------------------------------------------
(***************************************************************************)
(* The theorems.                                                           *)
(***************************************************************************)
IInv == Shape /\ Wraps /\ Places

LEMMA InductiveInit == Init => IInv
<1> SUFFICES ASSUME Init PROVE IInv
    OBVIOUS
<1>1. /\ stack = <<>> /\ wraps = <<>> /\ built = {} /\ result = "start"
      /\ Len(stack) = 0 /\ Len(wraps) = 0
    BY DEF Init
<1>2. List(wraps)
    <2>1. wraps \in Seq({})
        BY <1>1
    <2> QED
        BY <2>1, ListIs
<1>3. Wraps
    BY <1>1, <1>2 DEF Wraps
<1>4. Placed(stack, 0, Stages, built)
    BY <1>1 DEF Placed
<1> QED
    BY <1>1, <1>3, <1>4, ShapeInit DEF Places, IInv

\* However templates include each other and whatever fails: what is loaded is
\* loaded entirely, everything on the stack of includes and everything loaded has
\* a place of its own, inside the template that includes it, and the command
\* line's path; and its variables stay among those of the include wrappers
\* (NewTemplate, wrapTemplatePlugin, WorkerVertexIterator).
THEOREM Inductive == Spec => []IInv
<1>1. IInv /\ [Next]_vars => IInv'
    <2> SUFFICES ASSUME IInv, [Next]_vars PROVE IInv'
        OBVIOUS
    <2>1. Shape /\ Wraps /\ Places
        BY DEF IInv
    <2>2. Shape'
        BY <2>1, ShapeStep
    <2>3. Wraps'
        BY <2>1, WrapsStep
    <2>4. Places'
        BY <2>1, PlacesStep
    <2> QED
        BY <2>2, <2>3, <2>4 DEF IInv
<1> QED
    BY <1>1, InductiveInit, PTL DEF Spec

All == built \cup ToSet(stack)

LEMMA OnePlace ==
    ASSUME Shape, Places
    PROVE  /\ \A t \in All : t.file \in DOMAIN Stages /\ t.at \in Seq(Names(Stages))
           /\ \A t, u \in All : t.at = u.at => t = u
           /\ \A t \in All : t.at # <<>> => \E u \in All : \E s \in Stages[u.file] : Joined(t, u, s)
<1>1. PICK n : Stacked(stack, n, Stages, built) /\ n = Len(stack)
    BY StackedIs DEF Shape, Stacked
<1>2. Placed(stack, n, Stages, built)
    BY <1>1 DEF Places
<1>3. DOMAIN stack = 1..n /\ n \in Nat
    <2>1. PICK G : stack \in Seq(G)
        BY <1>1 DEF Stacked, List
    <2> QED
        BY <1>1, <2>1
<1>4. ToSet(stack) = {stack[i] : i \in 1..n}
    BY <1>3 DEF ToSet
<1>5. \A t \in All : t \in built \/ \E i \in 1..n : t = stack[i]
    BY <1>4 DEF All
<1>6. \A t \in built : t \in All
    BY DEF All
<1>7. \A i \in 1..n : stack[i] \in All
    BY <1>4 DEF All
<1>8. ASSUME NEW t \in All PROVE t.file \in DOMAIN Stages /\ t.at \in Seq(Names(Stages))
    <2>1. CASE t \in built
        BY <2>1 DEF Shape, Built, Template
    <2>2. ASSUME NEW i \in 1..n, t = stack[i] PROVE Frame(Stages, t)
        BY <1>1, <2>2 DEF Stacked
    <2> QED
        BY <1>5, <2>1, <2>2 DEF Frame
<1>9. ASSUME NEW t \in All, NEW u \in All, t.at = u.at PROVE t = u
    <2>1. CASE t \in built /\ u \in built
        BY <1>2, <1>9, <2>1 DEF Placed
    <2>2. ASSUME NEW i \in 1..n, NEW j \in 1..n, t = stack[i], u = stack[j] PROVE t = u
        <3>1. Len(t.at) = n - i /\ Len(u.at) = n - j
            BY <1>1, <2>2 DEF Stacked
        <3>2. n - i = n - j
            BY <1>9, <3>1
        <3>3. i = j
            BY <1>3, <3>2
        <3> QED
            BY <2>2, <3>3
    <2>3. ASSUME NEW r \in built, NEW i \in 1..n PROVE r.at # stack[i].at
        BY <1>2 DEF Placed
    <2> QED
        BY <1>5, <1>9, <2>1, <2>2, <2>3
<1>10. ASSUME NEW t \in All, t.at # <<>>
       PROVE  \E u \in All : \E s \in Stages[u.file] : Joined(t, u, s)
    <2>1. ASSUME t \in built PROVE Around(t, stack, n, Stages, built)
        BY <1>2, <1>10, <2>1 DEF Placed
    <2>2. ASSUME NEW i \in 1..n, t = stack[i] PROVE Around(t, stack, n, Stages, built)
        BY <1>2, <1>10, <2>2 DEF Placed
    <2>3. Around(t, stack, n, Stages, built)
        BY <1>5, <2>1, <2>2
    <2>4. ASSUME NEW u \in built, NEW s \in Stages[u.file], Joined(t, u, s)
          PROVE  \E r \in All : \E q \in Stages[r.file] : Joined(t, r, q)
        BY <1>6, <2>4
    <2>5. ASSUME NEW i \in 1..n, NEW s \in Stages[stack[i].file] \ stack[i].todo,
                 Joined(t, stack[i], s)
          PROVE  \E r \in All : \E q \in Stages[r.file] : Joined(t, r, q)
        BY <1>7, <2>5
    <2> QED
        BY <2>3, <2>4, <2>5 DEF Around
<1> QED
    BY <1>8, <1>9, <1>10

LEMMA FrontLast ==
    ASSUME NEW G, NEW q \in Seq(G), NEW e \in G
    PROVE  Front(Append(q, e)) = q /\ Last(Append(q, e)) = e
<1>1. PICK p, n : p = Append(q, e) /\ n = Len(q)
    OBVIOUS
<1>2. /\ p \in Seq(G) /\ n \in Nat /\ Len(p) = n + 1 /\ \A i \in 1..n : p[i] = q[i]
      /\ p[n + 1] = e
    BY <1>1, AppendProperties
<1>3. Last(p) = e
    BY <1>2 DEF Last
<1>4. Front(p) = q
    <2>1. Front(p) = SubSeq(p, 1, n)
        BY <1>2 DEF Front
    <2>2. SubSeq(p, 1, n) = [i \in 1..n |-> p[i]]
        BY <1>2
    <2>3. q = [i \in 1..n |-> q[i]]
        BY <1>1
    <2> QED
        BY <1>2, <2>1, <2>2, <2>3
<1> QED
    BY <1>1, <1>3, <1>4

\* An include's configuration goes through every wrapper that any NewTemplate put
\* on the one "include" loader, and none is taken off; still an included template
\* has its stage's own values, every variable of the template around it and the
\* command line's plugin path (wrapTemplatePlugin, include.Worker).
THEOREM VariablesReachHolds == Spec => []VariablesReach
<1>1. IInv => VariablesReach
    <2> SUFFICES ASSUME IInv, NEW t \in Included
                 PROVE  /\ t.path = "cli" /\ "is_included" \in DOMAIN t.vars
                        /\ \A v \in StageAt(t).own : t.vars[v] = t.at
                        /\ \A u \in Includer(t) : DOMAIN u.vars \subseteq DOMAIN t.vars
        BY DEF VariablesReach
    <2>1. Shape /\ Wraps /\ Places /\ t \in All /\ t.at # <<>>
        BY DEF IInv, Included, All
    <2>2. PICK u \in All : \E s \in Stages[u.file] : Joined(t, u, s)
        BY <2>1, OnePlace
    <2>3. PICK s \in Stages[u.file] : Joined(t, u, s)
        BY <2>2
    <2>4. u.at \in Seq(Names(Stages)) /\ u.file \in DOMAIN Stages
        BY <2>1, OnePlace
    <2>5. s.name \in Names(Stages)
        BY <2>4 DEF Names
    <2>6. Front(t.at) = u.at /\ Last(t.at) = s.name
        BY <2>3, <2>4, <2>5, FrontLast DEF Joined
    <2>7. Includer(t) = {u}
        <3>1. \A w \in All : w.at = u.at <=> w = u
            BY <2>1, OnePlace
        <3> QED
            BY <2>6, <3>1 DEF Includer, All
    <2>8. StageAt(t) = s
        <3>1. \A r \in Stages[u.file] : r.name = s.name => r = s
            BY <2>1, <2>4, StageNames DEF Shape
        <3>2. (CHOOSE w \in {u} : TRUE) = u
            OBVIOUS
        <3>3. StageAt(t) = CHOOSE r \in Stages[u.file] : r.name = s.name
            BY <2>6, <2>7, <3>2 DEF StageAt
        <3> QED
            BY <3>1, <3>3
    <2>9. t.path = "cli"
        <3>1. CASE t \in built
            BY <2>1, <3>1 DEF Wraps
        <3>2. CASE t \in ToSet(stack)
            <4>1. PICK G : stack \in Seq(G)
                BY <2>1 DEF Shape, Stack, List
            <4>2. DOMAIN stack = 1..Len(stack)
                BY <4>1
            <4>3. \E i \in 1..Len(stack) : t = stack[i]
                BY <3>2, <4>2 DEF ToSet
            <4> QED
                BY <2>1, <4>3 DEF Wraps
        <3> QED
            BY <2>1, <3>1, <3>2 DEF All
    <2> QED
        BY <2>3, <2>7, <2>8, <2>9 DEF Joined
<1> QED
    BY <1>1, Inductive, PTL

\* A template's graph is made only when each of its stages has its worker and each
\* template it includes is loaded as well; RunTemplate runs nothing else
\* (WorkerVertexIterator's error ends NewTemplate's caller).
THEOREM WhollyLoadedHolds == Spec => []WhollyLoaded
<1>1. IInv => WhollyLoaded
    BY DEF IInv, Shape, Built, Ends, Template, Loaded, Named, WhollyLoaded
<1> QED
    BY <1>1, Inductive, PTL

-----------------------------------------------------------------------------
(***************************************************************************)
(* The plugin processes.                                                   *)
(***************************************************************************)
Own(t) == UNION {Processes(t.at, s) : s \in LoadedStages(t)}

Owned == result \in {"start", "loading", "ok"} => running = UNION {Own(t) : t \in All}

LEMMA PutSet ==
    ASSUME NEW q, List(q), NEW a
    PROVE  List(<<a>> \o q) /\ ToSet(<<a>> \o q) = {a} \cup ToSet(q)
<1>1. PICK p, n : p = <<a>> \o q /\ n = Len(q)
    OBVIOUS
<1>2. Put(p, a, q)
    BY <1>1, PutIs, Zenon
<1>3. DOMAIN q = 1..n /\ DOMAIN p = 1..(n + 1) /\ n \in Nat /\ p[1] = a
      /\ \A i \in 1..n : p[i + 1] = q[i]
    <2>1. PICK G, F : q \in Seq(G) /\ p \in Seq(F)
        BY <1>2, <1>1 DEF Put, List
    <2> QED
        BY <1>1, <1>2, <2>1 DEF Put
<1>4. ASSUME NEW i \in 1..(n + 1) PROVE p[i] \in {a} \cup {q[j] : j \in 1..n}
    <2>1. CASE i = 1
        BY <1>3, <2>1
    <2>2. CASE i # 1
        <3>1. i - 1 \in 1..n /\ (i - 1) + 1 = i
            BY <1>3, <2>2
        <3> QED
            BY <1>3, <3>1
    <2> QED
        BY <2>1, <2>2
<1>5. ASSUME NEW j \in 1..n PROVE q[j] \in {p[i] : i \in 1..(n + 1)}
    <2>1. j + 1 \in 1..(n + 1)
        BY <1>3
    <2> QED
        BY <1>3, <2>1
<1>6. a \in {p[i] : i \in 1..(n + 1)}
    BY <1>3
<1>7. {p[i] : i \in 1..(n + 1)} = {a} \cup {q[j] : j \in 1..n}
    BY <1>4, <1>5, <1>6
<1>8. ToSet(p) = {a} \cup ToSet(q)
    BY <1>3, <1>7 DEF ToSet
<1>9. List(p)
    BY <1>2 DEF Put
<1> QED
    BY <1>1, <1>8, <1>9, Zenon

\* The templates of a stack are its innermost one and the others.
LEMMA TopAndRest ==
    ASSUME NEW q, List(q), q # <<>>
    PROVE  List(Tail(q)) /\ ToSet(q) = {Head(q)} \cup ToSet(Tail(q))
<1>1. PICK r : r = Tail(q)
    OBVIOUS
<1>2. Cut(r, q)
    BY <1>1, CutIs, Zenon
<1>3. List(r)
    BY <1>2 DEF Cut
<1>4. ToSet(<<Head(q)>> \o r) = {Head(q)} \cup ToSet(r)
    BY <1>3, PutSet, Zenon
<1>5. <<Head(q)>> \o r = q
    <2>1. PICK G : q \in Seq(G)
        BY DEF List
    <2> QED
        BY <1>1, <2>1
<1> QED
    BY <1>1, <1>3, <1>4, <1>5, Zenon

\* A template that loads a stage has the stage's processes as well.
LEMMA OwnGrows ==
    ASSUME Shape, NEW t, Frame(Stages, t), NEW s \in t.todo, NEW p
    PROVE  Own(WithWorker(t, s, p)) = Own(t) \cup Processes(t.at, s)
<1>1. PICK u, w : u = WithWorker(t, s, p) /\ w = Worker(s, p)
    OBVIOUS
<1>2. w.name = s.name
    <2>1. PICK k : k = convertPluginToIOWorker(Loader(s.plugin).kinds)
        OBVIOUS
    <2>2. w = [name |-> s.name, kind |-> k, path |-> p]
        BY <1>1, <2>1, Zenon DEF Worker
    <2> QED
        BY <2>2
<1>3. u = [t EXCEPT !.todo = @ \ {s}, !.workers = @ \cup {w}]
    BY <1>1, Zenon DEF WithWorker
<1>4. u.file = t.file /\ u.at = t.at /\ u.workers = t.workers \cup {w}
    BY <1>3 DEF Frame
<1>5. s \in Stages[t.file] /\ \A r \in Stages[t.file] : r.name = s.name => r = s
    <2>1. Stages \in Templates /\ t.file \in DOMAIN Stages /\ s \in Stages[t.file]
        BY DEF Shape, Frame
    <2> QED
        BY <2>1, StageNames
<1>6. LoadedStages(u) = LoadedStages(t) \cup {s}
    BY <1>2, <1>4, <1>5 DEF LoadedStages
<1>7. Own(u) = Own(t) \cup Processes(t.at, s)
    BY <1>4, <1>6 DEF Own
<1> QED
    BY <1>1, <1>7, Zenon

LEMMA OwnedStep ==
    ASSUME Shape, Owned, [Next]_vars
    PROVE  Owned'
<1>2. CASE Stops
    BY <1>2 DEF Stops, Owned
<1> DEFINE R == built \cup ToSet(Tail(stack))
<1>3. ASSUME stack # <<>>
      PROVE  /\ All = {Top} \cup R /\ List(Tail(stack))
             /\ Frame(Stages, Top)
    <2>1. List(stack)
        BY DEF Shape, Stack
    <2>2. ToSet(stack) = {Top} \cup ToSet(Tail(stack)) /\ List(Tail(stack))
        BY <1>3, <2>1, TopAndRest, Zenon DEF Top
    <2>3. Cut(Tail(stack), stack)
        BY <1>3, <2>1, CutIs
    <2>4. Top = stack[1] /\ 1 \in 1..Len(stack)
        BY <2>3 DEF Cut, Top
    <2>5. Frame(Stages, Top)
        BY <2>4 DEF Shape, Stack
    <2> QED
        BY <2>2, <2>5 DEF All
<1>4. ASSUME Stages' = Stages, running' = UNION {Own(t) : t \in All'}
      PROVE  Owned'
    <2>1. \A t : Own(t)' = Own(t)
        BY <1>4 DEF Own, LoadedStages
    <2> QED
        BY <1>4, <2>1 DEF Owned
<1>1. CASE UNCHANGED vars
    <2>1. UNCHANGED <<Stages, result, stack, built, running>>
        BY <1>1 DEF vars
    <2>2. ToSet(stack') = ToSet(stack)
        BY <2>1, Zenon
    <2>3. All' = All
        BY <2>1, <2>2 DEF All
    <2>4. CASE result \in {"start", "loading", "ok"}
        <3>1. running' = UNION {Own(t) : t \in All'}
            BY <2>1, <2>3, <2>4 DEF Owned
        <3> QED
            BY <1>4, <2>1, <3>1
    <2>5. CASE result \notin {"start", "loading", "ok"}
        BY <2>1, <2>5 DEF Owned
    <2> QED
        BY <2>4, <2>5
<1>5. CASE Starts
    <2>1. PICK t : stack' = <<t>> /\ t.workers = {}
        BY <1>5 DEF Starts
    <2>2. UNCHANGED <<Stages, built, running>> /\ result = "start"
        BY <1>5 DEF Starts
    <2>3. built = {} /\ stack = <<>>
        BY <2>2 DEF Shape, Ends
    <2>4. ToSet(stack) = {} /\ ToSet(stack') = {t}
        BY <2>1, <2>3 DEF ToSet
    <2>5. All = {} /\ All' = {t}
        BY <2>2, <2>3, <2>4 DEF All
    <2>6. Own(t) = {}
        BY <2>1 DEF Own, LoadedStages
    <2>7. running = {}
        BY <2>2, <2>5 DEF Owned
    <2>8. running' = UNION {Own(v) : v \in All'}
        BY <2>2, <2>5, <2>6, <2>7
    <2> QED
        BY <1>4, <2>2, <2>8
<1>6. ASSUME NEW s, Loads(s)
      PROVE  Owned'
    <2>1. /\ result = "loading" /\ UNCHANGED <<Stages, result, built>> /\ s \in Top.todo
          /\ running' = running \cup Processes(Top.at, s)
        BY <1>6 DEF Loads
    <2>2. PICK p : stack' = <<WithWorker(Top, s, p)>> \o Tail(stack)
        BY <1>6 DEF Loads
    <2>3. PICK u : u = WithWorker(Top, s, p)
        OBVIOUS
    <2>4. stack # <<>>
        BY <2>1 DEF Shape, Ends
    <2>5. All = {Top} \cup R /\ List(Tail(stack)) /\ Frame(Stages, Top)
        BY <1>3, <2>4
    <2>6. Own(u) = Own(Top) \cup Processes(Top.at, s)
        BY <2>1, <2>3, <2>5, OwnGrows, Zenon
    <2>7. ToSet(stack') = {u} \cup ToSet(Tail(stack))
        BY <2>2, <2>3, <2>5, PutSet, Zenon
    <2>8. All' = {u} \cup R
        BY <2>1, <2>7 DEF All
    <2>9. running = UNION {Own(t) : t \in {Top} \cup R}
        BY <2>1, <2>5 DEF Owned
    <2>10. running' = UNION {Own(t) : t \in All'}
        BY <2>1, <2>6, <2>8, <2>9
    <2> QED
        BY <1>4, <2>1, <2>10
<1>7. ASSUME NEW s, Reads(s)
      PROVE  Owned'
    <2>1. PICK v, q : Includes(s, v, q)
        BY <1>7 DEF Reads
    <2>2. /\ result = "loading" /\ UNCHANGED <<Stages, result, built, running>> /\ s \in Top.todo
          /\ s.plugin = "include"
        BY <2>1 DEF Includes
    <2>3. PICK p, t : /\ stack' = <<t>> \o (<<WithWorker(Top, s, p)>> \o Tail(stack))
                      /\ t.workers = {}
        <3>1. PICK p : stack' = <<[file |-> s.file, at |-> IncludedAt(s), vars |-> v, path |-> q,
                                   todo |-> Stages[s.file], workers |-> {}]>>
                                \o (<<WithWorker(Top, s, p)>> \o Tail(stack))
            BY <2>1 DEF Includes
        <3>2. PICK t : t = [file |-> s.file, at |-> IncludedAt(s), vars |-> v, path |-> q,
                            todo |-> Stages[s.file], workers |-> {}]
            OBVIOUS
        <3>3. t.workers = {}
            BY <3>2
        <3> QED
            BY <3>1, <3>2, <3>3, Zenon
    <2>4. PICK u : u = WithWorker(Top, s, p)
        OBVIOUS
    <2>5. stack # <<>>
        BY <2>2 DEF Shape, Ends
    <2>6. All = {Top} \cup R /\ List(Tail(stack)) /\ Frame(Stages, Top)
        BY <1>3, <2>5
    <2>7. Own(u) = Own(Top) \cup Processes(Top.at, s)
        BY <2>2, <2>4, <2>6, OwnGrows, Zenon
    <2>8. Processes(Top.at, s) = {}
        BY <2>2, NotRemote, NoProcess
    <2>9. Own(t) = {}
        BY <2>3 DEF Own, LoadedStages
    <2>10. PICK x : x = <<u>> \o Tail(stack)
        OBVIOUS
    <2>11. List(x) /\ ToSet(x) = {u} \cup ToSet(Tail(stack))
        BY <2>6, <2>10, PutSet, Zenon
    <2>12. ToSet(stack') = {t} \cup ToSet(x)
        BY <2>3, <2>4, <2>10, <2>11, PutSet, Zenon
    <2>13. All' = {t} \cup ({u} \cup R)
        BY <2>2, <2>11, <2>12 DEF All
    <2>14. running = UNION {Own(w) : w \in {Top} \cup R}
        BY <2>2, <2>6 DEF Owned
    <2>15. running' = UNION {Own(w) : w \in All'}
        BY <2>2, <2>7, <2>8, <2>9, <2>13, <2>14
    <2> QED
        BY <1>4, <2>2, <2>15
<1>8. CASE EndTemplate
    <2>1. result = "loading" /\ UNCHANGED <<Stages, running>> /\ stack' = Tail(stack)
        BY <1>8 DEF EndTemplate
    <2>2. PICK t : /\ built' = built \cup {t} /\ t.at = Top.at /\ t.file = Top.file
                   /\ t.workers = Top.workers
        <3>1. PICK t : t = [at |-> Top.at, file |-> Top.file, vars |-> Top.vars,
                            path |-> Top.path, workers |-> Top.workers]
            OBVIOUS
        <3>2. built' = built \cup {t}
            BY <1>8, <3>1, Zenon DEF EndTemplate
        <3>3. t.at = Top.at /\ t.file = Top.file /\ t.workers = Top.workers
            BY <3>1
        <3> QED
            BY <3>2, <3>3, Zenon
    <2>3. stack # <<>>
        BY <2>1 DEF Shape, Ends
    <2>4. All = {Top} \cup R
        BY <1>3, <2>3
    <2>5. Own(t) = Own(Top)
        BY <2>2 DEF Own, LoadedStages
    <2>6. All' = {t} \cup R
        BY <2>1, <2>2 DEF All
    <2>7. running = UNION {Own(w) : w \in {Top} \cup R}
        BY <2>1, <2>4 DEF Owned
    <2>8. running' = UNION {Own(w) : w \in All'}
        BY <2>1, <2>5, <2>6, <2>7
    <2> QED
        BY <1>4, <2>1, <2>8
<1> QED
    BY <1>1, <1>2, <1>5, <1>6, <1>7, <1>8, StepCases

\* A step that fails, a stage that does not load or a pipe that does not leaves no
\* process behind while the loading goes on, and each process that runs is a loaded
\* stage's, or a loaded pipe's step's (Connect, pipe.Config).
THEOREM ProcessesOwnedHolds == Spec => []ProcessesOwned
<1>1. Init => Owned
    <2> SUFFICES ASSUME Init PROVE Owned
        OBVIOUS
    <2>1. All = {}
        BY DEF Init, All, ToSet
    <2> QED
        BY <2>1 DEF Init, Owned
<1>2. IInv /\ Owned /\ [Next]_vars => Owned'
    BY OwnedStep DEF IInv
<1>3. Owned => ProcessesOwned
    BY DEF Owned, ProcessesOwned, Own, All
<1> QED
    BY <1>1, <1>2, <1>3, Inductive, PTL DEF Spec

=============================================================================
