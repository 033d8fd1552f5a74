-------------------------- MODULE ExecutionProofs --------------------------
(***************************************************************************)
(* Proofs about the outputs of an execution (CellExecution over            *)
(* OutputState), for any messages of the kernel, lags and faults.          *)
(***************************************************************************)
EXTENDS CellExecution, FiniteSetTheorems, FunctionTheorems, SequenceTheorems, TLAPS

-----------------------------------------------------------------------------
(* Sequences, and what they flatten to. *)

\* Induction over the natural numbers, of a set: its part up to a missing number
\* would be as large as that part without 0.
LEMMA Induction ==
  ASSUME NEW A, 0 \in A, \A n \in Nat : n \in A => n + 1 \in A
  PROVE  \A n \in Nat : n \in A
<1> SUFFICES ASSUME NEW n \in Nat, n \notin A PROVE FALSE
  OBVIOUS
<1> DEFINE T == (0..n) \cap A
           U == T \ {0}
<1>1. IsFiniteSet(0..n)
  BY FS_Interval
<1>2. IsFiniteSet(T) /\ 0 \in T
  BY <1>1, FS_Subset
<1>3. IsFiniteSet(U) /\ Cardinality(U) = Cardinality(T) - 1 /\ Cardinality(T) \in Nat
  BY <1>2, FS_RemoveElement, FS_CardinalityType
<1> DEFINE f == [k \in T |-> k + 1]
<1>4. f \in Injection(T, U)
  <2>1. \A k \in T : k + 1 \in U
    <3> TAKE k \in T
    <3>1. k \in Nat /\ k \in A /\ k <= n
      OBVIOUS
    <3>2. k + 1 \in A
      BY <3>1
    <3>3. k # n
      BY <3>1
    <3> QED
      BY <3>1, <3>2, <3>3
  <2> QED
    BY <2>1 DEF Injection, IsInjective
<1>5. Cardinality(T) <= Cardinality(U)
  BY <1>3, <1>4, FS_Injection
<1> QED
  BY <1>3, <1>5

\* The largest of some numbers.
LEMMA LargestOf ==
  ASSUME NEW n \in Nat, NEW s \in SUBSET (0..n), s # {}
  PROVE  Max(s) \in s /\ \A y \in s : Max(s) >= y
<1>1. \E x \in s : \A y \in s : x >= y
  <2> SUFFICES ASSUME \A x \in s : \E y \in s : x < y PROVE FALSE
    BY SMT
  <2> DEFINE C == {k \in Nat : \E x \in s : x >= k}
  <2>1. \A x \in s : x \in 0..n
    OBVIOUS
  <2>2. 0 \in C
    <3>1. PICK x \in s : TRUE
      OBVIOUS
    <3> QED
      BY <2>1, <3>1
  <2>3. \A k \in Nat : k \in C => k + 1 \in C
    <3> TAKE k \in Nat
    <3> HAVE k \in C
    <3>1. PICK x \in s : x >= k
      OBVIOUS
    <3>2. PICK y \in s : x < y
      OBVIOUS
    <3>3. x \in 0..n /\ y \in 0..n
      BY <2>1
    <3>4. y >= k + 1
      BY <3>1, <3>2, <3>3
    <3> QED
      BY <3>4
  <2> HIDE DEF C
  <2>4. n + 1 \in C
    BY <2>2, <2>3, Induction
  <2> QED
    BY <2>1, <2>4 DEF C
<1> QED
  BY <1>1 DEF Max

LEMMA LargestIs ==
  ASSUME NEW n \in Nat, NEW s \in SUBSET (0..n), NEW x \in s, \A y \in s : x >= y
  PROVE  Max(s) = x
<1>1. Max(s) \in s /\ Max(s) >= x
  BY LargestOf
<1>2. Max(s) \in 0..n /\ x \in 0..n /\ x >= Max(s)
  BY <1>1
<1> QED
  BY <1>1, <1>2

Joint(s, t) == s \o t

\* The sequences that flattening goes through.
IsConcat(c, f, n, V) ==
  /\ c \in [0..n -> Seq(V)] /\ c[0] = <<>>
  /\ \A k \in 1..n : c[k] = Joint(c[k - 1], f[k])

IsFlattening(g, f, n) == \A i \in 1..n : g[i] = IF i = 1 THEN f[i] ELSE Joint(g[i - 1], f[i])

LEMMA ConcatExists ==
  ASSUME NEW V, NEW n \in Nat, NEW f \in [1..n -> Seq(V)]
  PROVE  \E c : IsConcat(c, f, n, V)
<1> DEFINE A == {m \in Nat : m <= n => \E c : IsConcat(c, f, m, V)}
<1>1. 0 \in A
  <2>1. IsConcat([k \in 0..0 |-> <<>>], f, 0, V)
    BY DEF IsConcat
  <2> QED
    BY <2>1
<1>2. ASSUME NEW m \in Nat, m \in A PROVE m + 1 \in A
  <2> SUFFICES ASSUME m + 1 <= n PROVE \E c : IsConcat(c, f, m + 1, V)
    OBVIOUS
  <2>1. PICK c : IsConcat(c, f, m, V)
    BY <1>2
  <2> DEFINE d == [k \in 0..(m + 1) |-> IF k <= m THEN c[k] ELSE Joint(c[m], f[m + 1])]
  <2>2. Joint(c[m], f[m + 1]) \in Seq(V)
    <3>1. c[m] \in Seq(V) /\ f[m + 1] \in Seq(V)
      BY <2>1 DEF IsConcat
    <3> QED
      BY <3>1, ConcatProperties DEF Joint
  <2>3. d \in [0..(m + 1) -> Seq(V)] /\ d[0] = <<>>
    BY <2>1, <2>2 DEF IsConcat
  <2>4. \A k \in 1..(m + 1) : d[k] = Joint(d[k - 1], f[k])
    <3> TAKE k \in 1..(m + 1)
    <3>1. CASE k <= m
      BY <3>1, <2>1 DEF IsConcat
    <3>2. CASE k = m + 1
      BY <3>2
    <3> QED
      BY <3>1, <3>2
  <2> QED
    BY <2>3, <2>4 DEF IsConcat
<1> HIDE DEF A
<1>3. n \in A
  BY <1>1, <1>2, Induction
<1> QED
  BY <1>3 DEF A

LEMMA ConcatUnique ==
  ASSUME NEW V, NEW n \in Nat, NEW f \in [1..n -> Seq(V)], NEW c, IsConcat(c, f, n, V),
         NEW g, IsFlattening(g, f, n)
  PROVE  \A i \in 1..n : g[i] = c[i]
<1> DEFINE A == {m \in Nat : m \in 1..n => g[m] = c[m]}
<1>1. 0 \in A
  OBVIOUS
<1>2. ASSUME NEW m \in Nat, m \in A PROVE m + 1 \in A
  <2> SUFFICES ASSUME m + 1 <= n PROVE g[m + 1] = c[m + 1]
    OBVIOUS
  <2>1. c[m + 1] = Joint(c[m], f[m + 1]) /\ c[0] = <<>>
    BY DEF IsConcat
  <2>2. CASE m = 0
    <3>1. g[1] = f[1] /\ f[1] \in Seq(V)
      BY <2>2 DEF IsFlattening
    <3>2. Joint(<<>>, f[1]) = f[1]
      BY <3>1, ConcatEmptySeq DEF Joint
    <3> QED
      BY <2>1, <2>2, <3>1, <3>2
  <2>3. CASE m # 0
    <3>1. g[m + 1] = Joint(g[m], f[m + 1])
      BY <2>3 DEF IsFlattening
    <3> QED
      BY <2>1, <2>3, <3>1, <1>2
  <2> QED
    BY <2>2, <2>3
<1> HIDE DEF A
<1>3. \A m \in Nat : m \in A
  BY <1>1, <1>2, Induction
<1> QED
  BY <1>3 DEF A

\* A flattened sequence is the end of that sequence.
LEMMA FlattenIsConcat ==
  ASSUME NEW V, NEW n \in Nat, NEW f \in [1..n -> Seq(V)], NEW c, IsConcat(c, f, n, V)
  PROVE  FlattenSeq(f) = c[n]
<1>1. Len(f) = n
  OBVIOUS
<1>2. CASE n = 0
  BY <1>1, <1>2 DEF FlattenSeq, IsConcat
<1>3. CASE n # 0
  <2> DEFINE Eq(g) == g = [i \in 1..Len(f) |-> IF i = 1 THEN f[i] ELSE Joint(g[i - 1], f[i])]
             flat == CHOOSE g : Eq(g)
             h == [i \in 1..n |-> c[i]]
  <2>1. Eq(h)
    <3>1. \A i \in 1..n : h[i] = IF i = 1 THEN f[i] ELSE Joint(h[i - 1], f[i])
      <4> TAKE i \in 1..n
      <4>1. c[i] = Joint(c[i - 1], f[i]) /\ c[0] = <<>> /\ f[i] \in Seq(V)
        BY DEF IsConcat
      <4>2. Joint(<<>>, f[i]) = f[i]
        BY <4>1, ConcatEmptySeq DEF Joint
      <4>3. CASE i = 1
        BY <4>1, <4>2, <4>3
      <4>4. CASE i # 1
        BY <4>1, <4>4
      <4> QED
        BY <4>3, <4>4
    <3> QED
      BY <3>1, <1>1
  <2> HIDE DEF h, Eq
  <2>2. Eq(flat)
    BY <2>1
  <2>3. FlattenSeq(f) = flat[n]
    BY <1>1, <1>3 DEF FlattenSeq, flat, Eq, Joint
  <2> HIDE DEF flat
  <2>4. IsFlattening(flat, f, n)
    BY <2>2, <1>1 DEF Eq, IsFlattening
  <2>5. \A i \in 1..n : flat[i] = c[i]
    BY <2>4, ConcatUnique
  <2> QED
    BY <1>3, <2>3, <2>5
<1> QED
  BY <1>2, <1>3

\* What some consecutive pieces make together.
Span(f, a, b) == FlattenSeq([j \in 1..(b - a) |-> f[a + j]])

LEMMA SpanSteps ==
  ASSUME NEW V, NEW n \in Nat, NEW f \in [1..n -> Seq(V)], NEW a \in 0..n, NEW b \in a..n
  PROVE  /\ Span(f, a, b) \in Seq(V)
         /\ Span(f, a, a) = <<>>
         /\ a < b => Span(f, a, b) = Joint(Span(f, a, b - 1), f[b])
<1> DEFINE m == b - a
           g == [j \in 1..m |-> f[a + j]]
<1>1. m \in Nat /\ g \in [1..m -> Seq(V)]
  OBVIOUS
<1>2. PICK c : IsConcat(c, g, m, V)
  <2> HIDE DEF g, m
  <2> QED
    BY <1>1, ConcatExists
<1>3. FlattenSeq(g) = c[m]
  <2> HIDE DEF g, m
  <2> QED
    BY <1>1, <1>2, FlattenIsConcat
<1>4. Span(f, a, b) = c[m] /\ c[m] \in Seq(V)
  BY <1>1, <1>2, <1>3 DEF Span, IsConcat
<1>5. Span(f, a, a) = <<>>
  <2> DEFINE e == [j \in 1..(a - a) |-> f[a + j]]
  <2>1. e = <<>> /\ Len(e) = 0
    OBVIOUS
  <2> QED
    BY <2>1 DEF Span, FlattenSeq
<1>6. ASSUME a < b PROVE Span(f, a, b) = Joint(Span(f, a, b - 1), f[b])
  <2> DEFINE k == (b - 1) - a
             h == [j \in 1..k |-> f[a + j]]
             d == [j \in 0..k |-> c[j]]
  <2>1. k \in Nat /\ k + 1 = m /\ h \in [1..k -> Seq(V)] /\ \A j \in 1..k : h[j] = g[j]
    BY <1>6
  <2>2. IsConcat(d, h, k, V)
    <3> HIDE DEF m, g, h, k
    <3>1. c \in [0..m -> Seq(V)] /\ c[0] = <<>> /\ \A j \in 1..m : c[j] = Joint(c[j - 1], g[j])
      BY <1>2 DEF IsConcat
    <3>2. d \in [0..k -> Seq(V)] /\ d[0] = <<>>
      BY <3>1, <2>1
    <3>3. \A j \in 1..k : d[j] = Joint(d[j - 1], h[j])
      <4> TAKE j \in 1..k
      <4>1. d[j] = c[j] /\ d[j - 1] = c[j - 1] /\ h[j] = g[j] /\ j \in 1..m
        BY <2>1
      <4> QED
        BY <3>1, <4>1
    <3> HIDE DEF d
    <3> QED
      BY <3>2, <3>3 DEF IsConcat
  <2>3. d[k] = c[k]
    BY <2>1
  <2>4. FlattenSeq(h) = c[k]
    <3> HIDE DEF h, d, k
    <3> QED
      BY <2>1, <2>2, <2>3, FlattenIsConcat
  <2>5. Span(f, a, b - 1) = c[k]
    BY <2>4 DEF Span
  <2>6. g[m] = f[b] /\ m - 1 = k /\ m \in 1..m
    BY <1>6
  <2>7. c[m] = Joint(c[m - 1], g[m])
    <3> HIDE DEF m, g
    <3> QED
      BY <1>2, <2>6 DEF IsConcat
  <2> QED
    BY <1>4, <2>5, <2>6, <2>7
<1> QED
  BY <1>4, <1>5, <1>6

LEMMA SpanNext ==
  ASSUME NEW V, NEW n \in Nat, NEW f \in [1..n -> Seq(V)], NEW a \in 0..n, NEW b \in a..n, b < n
  PROVE  Span(f, a, b + 1) = Joint(Span(f, a, b), f[b + 1]) /\ f[b + 1] \in Seq(V)
<1> PICK c : c = b + 1
  OBVIOUS
<1>1. c \in a..n /\ a < c /\ c - 1 = b /\ c \in 1..n
  OBVIOUS
<1>2. Span(f, a, c) = Joint(Span(f, a, c - 1), f[c])
  BY <1>1, SpanSteps
<1> QED
  BY <1>1, <1>2

LEMMA JointTyped ==
  ASSUME NEW V, NEW s \in Seq(V), NEW t \in Seq(V), NEW u \in Seq(V)
  PROVE  /\ Joint(s, t) \in Seq(V) /\ Joint(s, <<>>) = s /\ Joint(<<>>, s) = s
         /\ Joint(Joint(s, t), u) = Joint(s, Joint(t, u))
<1>1. s \o t \in Seq(V) /\ s \o <<>> = s /\ <<>> \o s = s
  BY ConcatProperties, ConcatEmptySeq
<1>2. (s \o t) \o u = s \o (t \o u)
  BY ConcatAssociative
<1> QED
  BY <1>1, <1>2 DEF Joint

LEMMA SpanSplit ==
  ASSUME NEW V, NEW n \in Nat, NEW f \in [1..n -> Seq(V)],
         NEW a \in 0..n, NEW b \in a..n, NEW c \in b..n
  PROVE  Span(f, a, c) = Joint(Span(f, a, b), Span(f, b, c))
<1> DEFINE Splits(x) == Span(f, a, x) = Joint(Span(f, a, b), Span(f, b, x))
           A == {d \in Nat : b + d <= n => Splits(b + d)}
<1>1. b \in 0..n /\ Span(f, a, b) \in Seq(V)
  BY SpanSteps
<1>2. 0 \in A
  <2>1. Span(f, b, b) = <<>>
    BY <1>1, SpanSteps
  <2>2. Joint(Span(f, a, b), <<>>) = Span(f, a, b)
    BY <1>1, JointTyped
  <2> QED
    BY <2>1, <2>2
<1>3. ASSUME NEW d \in Nat, d \in A PROVE d + 1 \in A
  <2> SUFFICES ASSUME b + (d + 1) <= n PROVE Splits(b + (d + 1))
    OBVIOUS
  <2> DEFINE x == b + d
  <2>1. x \in b..n /\ x + 1 \in b..n /\ x + 1 \in a..n /\ x \in a..n /\ (x + 1) - 1 = x
        /\ b + (d + 1) = x + 1 /\ x < n
    OBVIOUS
  <2>2. Splits(x)
    BY <1>3, <2>1
  <2> HIDE DEF x
  <2>3. Span(f, a, x + 1) = Joint(Span(f, a, x), f[x + 1])
    BY <2>1, SpanNext
  <2>4. Span(f, b, x + 1) = Joint(Span(f, b, x), f[x + 1]) /\ f[x + 1] \in Seq(V)
    <3>1. b \in 0..n /\ x \in b..n /\ x < n
      BY <2>1
    <3> QED
      BY <3>1, SpanNext
  <2>5. Span(f, b, x) \in Seq(V) /\ f[x + 1] \in Seq(V)
    <3>1. b \in 0..n /\ x \in b..n
      BY <2>1
    <3> QED
      BY <2>4, <3>1, SpanSteps
  <2>6. Joint(Joint(Span(f, a, b), Span(f, b, x)), f[x + 1])
          = Joint(Span(f, a, b), Joint(Span(f, b, x), f[x + 1]))
    <3> PICK s \in Seq(V) : s = Span(f, a, b)
      BY <1>1
    <3> PICK t \in Seq(V) : t = Span(f, b, x)
      BY <2>5
    <3> PICK u \in Seq(V) : u = f[x + 1]
      BY <2>5
    <3>1. Joint(Joint(s, t), u) = Joint(s, Joint(t, u))
      BY ONLY JointTyped, s \in Seq(V), t \in Seq(V), u \in Seq(V)
    <3> QED
      BY <3>1
  <2> QED
    BY <2>1, <2>2, <2>3, <2>4, <2>6
<1> HIDE DEF A
<1>4. c - b \in A
  <2>1. c - b \in Nat
    OBVIOUS
  <2> QED
    BY <1>2, <1>3, <2>1, Induction
<1>5. b + (c - b) = c
  OBVIOUS
<1> QED
  BY <1>4, <1>5 DEF A

LEMMA SpanSilent ==
  ASSUME NEW V, NEW n \in Nat, NEW f \in [1..n -> Seq(V)], NEW a \in 0..n, NEW b \in a..n,
         \A i \in (a + 1)..b : f[i] = <<>>
  PROVE  Span(f, a, b) = <<>>
<1> DEFINE A == {d \in Nat : a + d <= b => Span(f, a, a + d) = <<>>}
<1>1. 0 \in A
  <2>1. Span(f, a, a) = <<>>
    BY SpanSteps
  <2> QED
    BY <2>1
<1>2. ASSUME NEW d \in Nat, d \in A PROVE d + 1 \in A
  <2> SUFFICES ASSUME a + (d + 1) <= b PROVE Span(f, a, a + (d + 1)) = <<>>
    OBVIOUS
  <2> DEFINE x == a + d
  <2>1. x \in a..n /\ x < n /\ a + (d + 1) = x + 1 /\ x + 1 \in (a + 1)..b
    OBVIOUS
  <2>2. Span(f, a, x) = <<>>
    BY <1>2
  <2> HIDE DEF x
  <2>3. Span(f, a, x + 1) = Joint(Span(f, a, x), f[x + 1])
    BY <2>1, SpanNext
  <2>4. f[x + 1] = <<>> /\ <<>> \in Seq(V)
    BY <2>1
  <2>5. Joint(<<>>, <<>>) = <<>>
    BY <2>4, JointTyped
  <2> QED
    BY <2>1, <2>2, <2>3, <2>4, <2>5
<1> HIDE DEF A
<1>3. b - a \in A
  <2>1. b - a \in Nat
    OBVIOUS
  <2> QED
    BY <1>1, <1>2, <2>1, Induction
<1>4. a + (b - a) = b
  OBVIOUS
<1> QED
  BY <1>3, <1>4 DEF A

LEMMA SpanSame ==
  ASSUME NEW f, NEW g, NEW a \in Nat, NEW b \in Nat, \A i \in (a + 1)..b : f[i] = g[i]
  PROVE  Span(f, a, b) = Span(g, a, b)
<1>1. \A j \in 1..(b - a) : a + j \in (a + 1)..b
  OBVIOUS
<1>2. [j \in 1..(b - a) |-> f[a + j]] = [j \in 1..(b - a) |-> g[a + j]]
  BY <1>1
<1> QED
  BY <1>2 DEF Span

-----------------------------------------------------------------------------
(* What a history of messages promises. *)

Events ==
  {e \in [kind : STRING, name : STRING, id : STRING, wait : BOOLEAN, ok : BOOLEAN,
          size : Nat, at : Nat] : e.kind \in {"stream", "error"} => e.id = NoId}
History == Seq(Events)
Unit == [name : STRING, at : Nat]

\* The clears that took effect, and the updates that replace what is displayed.
Effective(h, i) ==
  /\ h[i].kind = "clear_output"
  /\ ~h[i].wait \/ \E j \in (i + 1)..Len(h) : Shows(h[j])
Replaces(h, i, j) ==
  h[j].kind = "update_display_data" /\ h[i].id # NoId /\ h[j].id = h[i].id

LEMMA LastClearOf ==
  ASSUME NEW h \in History
  PROVE  /\ LastClear(h) \in 0..Len(h)
         /\ \A i \in 1..Len(h) : Effective(h, i) => i <= LastClear(h)
         /\ LastClear(h) # 0 => Effective(h, LastClear(h))
<1> DEFINE S == {0} \cup {i \in DOMAIN h : Effective(h, i)}
<1>1. LastClear(h) = Max(S)
  BY DEF LastClear, Effective
<1>2. DOMAIN h = 1..Len(h) /\ Len(h) \in Nat
  BY DEF History
<1>3. S \in SUBSET (0..Len(h)) /\ S # {}
  BY <1>2
<1>4. Max(S) \in S /\ \A y \in S : Max(S) >= y
  <2> HIDE DEF S
  <2> QED
    BY <1>2, <1>3, LargestOf
<1>5. \A i \in 1..Len(h) : Effective(h, i) => i \in S
  BY <1>2
<1>6. Max(S) # 0 => Effective(h, Max(S))
  BY <1>4
<1> HIDE DEF S
<1> QED
  BY <1>1, <1>2, <1>3, <1>4, <1>5, <1>6

LEMMA LastClearIs ==
  ASSUME NEW h \in History, NEW x \in 0..Len(h), x = 0 \/ Effective(h, x),
         \A i \in 1..Len(h) : Effective(h, i) => i <= x
  PROVE  LastClear(h) = x
<1>1. Len(h) \in Nat
  BY DEF History
<1> PICK m : m = LastClear(h)
  OBVIOUS
<1>2. m \in 0..Len(h) /\ (\A i \in 1..Len(h) : Effective(h, i) => i <= m) /\ (m # 0 => Effective(h, m))
  BY LastClearOf
<1>3. m <= x
  BY <1>1, <1>2
<1>4. x <= m
  BY <1>1, <1>2
<1> QED
  BY <1>1, <1>2, <1>3, <1>4

LEMMA LatestOf ==
  ASSUME NEW h \in History, NEW i \in 1..Len(h)
  PROVE  /\ Latest(h, i) \in i..Len(h)
         /\ \A j \in (i + 1)..Len(h) : Replaces(h, i, j) => j <= Latest(h, i)
         /\ Latest(h, i) # i => Replaces(h, i, Latest(h, i))
<1> DEFINE S == {i} \cup {j \in (i + 1)..Len(h) : Replaces(h, i, j)}
<1>1. Latest(h, i) = Max(S)
  BY DEF Latest, Replaces
<1>2. Len(h) \in Nat
  BY DEF History
<1>3. S \in SUBSET (0..Len(h)) /\ S # {} /\ S \subseteq i..Len(h)
  BY <1>2
<1>4. Max(S) \in S /\ \A y \in S : Max(S) >= y
  <2> HIDE DEF S
  <2> QED
    BY <1>2, <1>3, LargestOf
<1>5. \A j \in (i + 1)..Len(h) : Replaces(h, i, j) => j \in S
  OBVIOUS
<1>6. Max(S) # i => Replaces(h, i, Max(S))
  BY <1>4
<1> HIDE DEF S
<1>7. \A y \in S : y \in i..Len(h)
  BY <1>3
<1> QED
  BY <1>1, <1>2, <1>4, <1>5, <1>6, <1>7

LEMMA LatestIs ==
  ASSUME NEW h \in History, NEW i \in 1..Len(h), NEW x \in i..Len(h), x = i \/ Replaces(h, i, x),
         \A j \in (i + 1)..Len(h) : Replaces(h, i, j) => j <= x
  PROVE  Latest(h, i) = x
<1>1. Len(h) \in Nat
  BY DEF History
<1> PICK m : m = Latest(h, i)
  OBVIOUS
<1>2. m \in i..Len(h) /\ (\A j \in (i + 1)..Len(h) : Replaces(h, i, j) => j <= m)
      /\ (m # i => Replaces(h, i, m))
  BY LatestOf
<1>3. m <= x
  BY <1>1, <1>2
<1>4. x <= m
  BY <1>1, <1>2
<1> QED
  BY <1>1, <1>2, <1>3, <1>4

\* A clear still waits for an output, or none does.
Awaiting(h) ==
  \E i \in 1..Len(h) : /\ h[i].kind = "clear_output" /\ h[i].wait
                       /\ \A j \in (i + 1)..Len(h) : ~Shows(h[j])
Settled(h) == \A i \in 1..Len(h) : h[i].kind = "clear_output" => i <= LastClear(h)

LEMMA OneMore ==
  ASSUME NEW h \in History, NEW e \in Events
  PROVE  LET g == Append(h, e) IN
         /\ g \in History /\ Len(g) = Len(h) + 1 /\ Len(h) \in Nat
         /\ g[Len(h) + 1] = e /\ \A i \in 1..Len(h) : g[i] = h[i]
<1>1. Len(h) \in Nat
  BY DEF History
<1> QED
  BY <1>1, AppendProperties DEF History

\* What one more message does to the clears before it.
LEMMA EffectiveNext ==
  ASSUME NEW h \in History, NEW e \in Events
  PROVE  LET g == Append(h, e) IN
         /\ \A i \in 1..Len(h) :
              Effective(g, i) <=> Effective(h, i) \/ (h[i].kind = "clear_output" /\ Shows(e))
         /\ Effective(g, Len(h) + 1) <=> e.kind = "clear_output" /\ ~e.wait
<1> PICK g : g = Append(h, e)
  OBVIOUS
<1>1. /\ g \in History /\ Len(g) = Len(h) + 1 /\ Len(h) \in Nat
      /\ g[Len(h) + 1] = e /\ \A i \in 1..Len(h) : g[i] = h[i]
  BY OneMore
<1>2. ASSUME NEW i \in 1..Len(h)
      PROVE  Effective(g, i) <=> Effective(h, i) \/ (h[i].kind = "clear_output" /\ Shows(e))
  <2>1. g[i] = h[i]
    BY <1>1
  <2>2. (\E j \in (i + 1)..Len(g) : Shows(g[j])) <=> (\E j \in (i + 1)..Len(h) : Shows(h[j])) \/ Shows(e)
    <3>1. \A j \in (i + 1)..Len(g) : j \in (i + 1)..Len(h) \/ j = Len(h) + 1
      BY <1>1
    <3>2. (i + 1)..Len(h) \subseteq (i + 1)..Len(g) /\ Len(h) + 1 \in (i + 1)..Len(g)
      BY <1>1
    <3>3. \A j \in (i + 1)..Len(h) : g[j] = h[j]
      BY <1>1
    <3> QED
      BY <3>1, <3>2, <3>3, <1>1
  <2> QED
    BY <2>1, <2>2 DEF Effective
<1>3. Effective(g, Len(h) + 1) <=> e.kind = "clear_output" /\ ~e.wait
  <2>1. ((Len(h) + 1) + 1)..Len(g) = {}
    BY <1>1
  <2> QED
    BY <1>1, <2>1 DEF Effective
<1> QED
  BY <1>2, <1>3

LEMMA ClearsNext ==
  ASSUME NEW h \in History, NEW e \in Events
  PROVE  LET g == Append(h, e) IN
         /\ ~Shows(e) /\ ~(e.kind = "clear_output" /\ ~e.wait) => LastClear(g) = LastClear(h)
         /\ e.kind = "clear_output" /\ ~e.wait => LastClear(g) = Len(h) + 1
         /\ Shows(e) /\ Settled(h) => LastClear(g) = LastClear(h)
         /\ Shows(e) => LastClear(g) \in 0..Len(h) /\ Settled(g)
         /\ Shows(e) /\ Awaiting(h) => \A j \in (LastClear(g) + 1)..Len(h) : ~Shows(h[j])
<1> PICK g : g = Append(h, e)
  OBVIOUS
<1> PICK x : x = LastClear(h)
  OBVIOUS
<1> PICK y : y = LastClear(g)
  OBVIOUS
<1> PICK n : n = Len(h)
  OBVIOUS
<1>1. /\ g \in History /\ Len(g) = n + 1 /\ n \in Nat
      /\ g[n + 1] = e /\ \A i \in 1..n : g[i] = h[i]
  BY OneMore
<1>2. /\ \A i \in 1..n : Effective(g, i) <=> Effective(h, i) \/ (h[i].kind = "clear_output" /\ Shows(e))
      /\ Effective(g, n + 1) <=> e.kind = "clear_output" /\ ~e.wait
  BY EffectiveNext
<1>3. x \in 0..n /\ (\A i \in 1..n : Effective(h, i) => i <= x) /\ (x # 0 => Effective(h, x))
  BY LastClearOf
<1>4. y \in 0..(n + 1) /\ (\A i \in 1..(n + 1) : Effective(g, i) => i <= y) /\ (y # 0 => Effective(g, y))
  BY <1>1, LastClearOf
<1>5. e.kind = "clear_output" => ~Shows(e)
  BY DEF Shows, Pushing
<1>6. ASSUME ~Effective(g, n + 1), \A i \in 1..n : Effective(g, i) => Effective(h, i) \/ i <= x PROVE y = x
  <2>1. x # 0 => Effective(g, x)
    BY <1>2, <1>3
  <2>2. \A i \in 1..(n + 1) : Effective(g, i) => i <= x
    <3> TAKE i \in 1..(n + 1)
    <3> HAVE Effective(g, i)
    <3>1. i # n + 1
      BY <1>6
    <3>2. i \in 1..n
      BY <3>1, <1>1
    <3> QED
      BY <3>2, <1>3, <1>6
  <2> QED
    BY <2>1, <2>2, <1>1, <1>3, <1>4
<1>7. ASSUME ~Shows(e), ~(e.kind = "clear_output" /\ ~e.wait) PROVE y = x
  BY <1>2, <1>6, <1>7
<1>8. ASSUME e.kind = "clear_output", ~e.wait PROVE y = n + 1
  <2>1. n + 1 \in 1..(n + 1)
    BY <1>1
  <2> QED
    BY <1>1, <1>2, <1>4, <1>8, <2>1
<1>9. ASSUME Shows(e), Settled(h) PROVE y = x
  <2>1. \A i \in 1..n : Effective(g, i) => i <= x
    BY <1>2, <1>3, <1>9 DEF Settled
  <2> QED
    BY <2>1, <1>2, <1>5, <1>6, <1>9
<1>10. ASSUME Shows(e) PROVE y \in 0..n /\ Settled(g)
  <2>1. y # n + 1
    <3> SUFFICES ASSUME y = n + 1 PROVE FALSE
      OBVIOUS
    <3>1. Effective(g, n + 1)
      BY <1>1, <1>4
    <3> QED
      BY <3>1, <1>2, <1>5, <1>10
  <2>2. \A i \in 1..(n + 1) : g[i].kind = "clear_output" => i <= y
    <3> TAKE i \in 1..(n + 1)
    <3> HAVE g[i].kind = "clear_output"
    <3>1. i # n + 1
      BY <1>1, <1>5, <1>10
    <3>2. i \in 1..n /\ h[i].kind = "clear_output"
      BY <3>1, <1>1
    <3>3. Effective(g, i)
      BY <3>2, <1>2, <1>10
    <3> QED
      BY <3>3, <1>4
  <2> QED
    BY <2>1, <2>2, <1>1, <1>4 DEF Settled
<1>11. ASSUME Shows(e), Awaiting(h) PROVE \A j \in (y + 1)..n : ~Shows(h[j])
  <2>1. PICK i \in 1..n : h[i].kind = "clear_output" /\ \A j \in (i + 1)..n : ~Shows(h[j])
    BY <1>11 DEF Awaiting
  <2>2. Effective(g, i) /\ i \in 1..(n + 1)
    BY <2>1, <1>1, <1>2, <1>11
  <2>3. i <= y
    BY <2>2, <1>4
  <2>4. \A j \in (y + 1)..n : j \in (i + 1)..n
    BY <2>3, <1>1, <1>4
  <2> QED
    BY <2>1, <2>4
<1> QED
  BY <1>7, <1>8, <1>9, <1>10, <1>11

LEMMA LatestNext ==
  ASSUME NEW h \in History, NEW e \in Events, NEW i \in 1..Len(h)
  PROVE  LET g == Append(h, e) IN
         /\ Replaces(g, i, Len(h) + 1) <=>
              e.kind = "update_display_data" /\ h[i].id # NoId /\ e.id = h[i].id
         /\ Latest(g, i) = IF Replaces(g, i, Len(h) + 1) THEN Len(h) + 1 ELSE Latest(h, i)
<1> PICK g : g = Append(h, e)
  OBVIOUS
<1> PICK n : n = Len(h)
  OBVIOUS
<1> PICK x : x = Latest(h, i)
  OBVIOUS
<1>1. /\ g \in History /\ Len(g) = n + 1 /\ n \in Nat
      /\ g[n + 1] = e /\ \A k \in 1..n : g[k] = h[k]
  BY OneMore
<1>2. x \in i..n /\ (\A j \in (i + 1)..n : Replaces(h, i, j) => j <= x) /\ (x # i => Replaces(h, i, x))
  BY LatestOf
<1>3. Replaces(g, i, n + 1) <=> e.kind = "update_display_data" /\ h[i].id # NoId /\ e.id = h[i].id
  BY <1>1 DEF Replaces
<1>4. \A j \in 1..n : Replaces(g, i, j) <=> Replaces(h, i, j)
  BY <1>1 DEF Replaces
<1>5. i \in 1..Len(g)
  BY <1>1
<1>6. ASSUME Replaces(g, i, n + 1) PROVE Latest(g, i) = n + 1
  <2>1. n + 1 \in i..Len(g) /\ \A j \in (i + 1)..Len(g) : j <= n + 1
    BY <1>1
  <2> QED
    BY <2>1, <1>1, <1>5, <1>6, LatestIs
<1>7. ASSUME ~Replaces(g, i, n + 1) PROVE Latest(g, i) = x
  <2>1. x \in i..Len(g) /\ x \in 1..n
    BY <1>1, <1>2
  <2>2. x = i \/ Replaces(g, i, x)
    BY <2>1, <1>2, <1>4
  <2>3. \A j \in (i + 1)..Len(g) : Replaces(g, i, j) => j <= x
    <3> TAKE j \in (i + 1)..Len(g)
    <3> HAVE Replaces(g, i, j)
    <3>1. j # n + 1
      BY <1>7
    <3>2. j \in (i + 1)..n /\ j \in 1..n
      BY <3>1, <1>1
    <3> QED
      BY <3>2, <1>2, <1>4
  <2> QED
    BY <2>1, <2>2, <2>3, <1>1, <1>5, LatestIs
<1> QED
  BY <1>3, <1>6, <1>7

LEMMA LatestLast ==
  ASSUME NEW h \in History, h # <<>>
  PROVE  Latest(h, Len(h)) = Len(h)
<1>1. Len(h) \in Nat /\ Len(h) \in 1..Len(h)
  BY DEF History
<1>2. Latest(h, Len(h)) \in Len(h)..Len(h)
  BY <1>1, LatestOf
<1> QED
  BY <1>1, <1>2

-----------------------------------------------------------------------------
(* What outputs show. *)

OutputKind == {"stream", "error", "text", "rich"}
OutputRec == [kind : OutputKind, name : STRING, text : Seq(Nat), layers : Int]
States ==
  {s \in [outputs : Seq(OutputRec), ids : Seq(STRING), clear_next : BOOLEAN] :
     Len(s.ids) = Len(s.outputs)}
Pieces(h) == [i \in 1..Len(h) |-> Piece(h, i)]
Parts(outs) == [k \in 1..Len(outs) |-> UnitsOf(outs[k])]

LEMMA UnitsTyped ==
  ASSUME NEW e \in Events
  PROVE  /\ Units(e) \in Seq(Unit)
         /\ Output(e) \in OutputRec /\ UnitsOf(Output(e)) = Units(e)
         /\ display(e) \in OutputRec /\ UnitsOf(display(e)) = Units(e)
         /\ display(e).kind # "stream"
         /\ Output(e).kind = "stream" => e.kind = "stream"
<1>1. e.size \in Nat /\ e.name \in STRING /\ e.at \in Nat /\ e.kind \in STRING
  BY DEF Events
<1>2. Units(e) \in Seq(Unit)
  <2>1. Units(e) \in [1..e.size -> Unit]
    BY <1>1 DEF Units, Unit
  <2> QED
    BY <2>1, <1>1
<1>3. Content(e) \in Seq(Nat) /\ DOMAIN Content(e) = 1..e.size /\ \A u \in 1..e.size : Content(e)[u] = e.at
  BY <1>1 DEF Content
<1> PICK c : c = Content(e)
  OBVIOUS
<1> PICK l \in {0, 1} : l = IF e.name = SVG THEN 1 ELSE 0
  OBVIOUS
<1> PICK k \in {"text", "rich"} : k = IF e.name = "text/plain" THEN "text" ELSE "rich"
  OBVIOUS
<1>8. display(e) = [kind |-> k, name |-> e.name, text |-> c, layers |-> l]
  BY DEF display
<1>4. display(e) \in OutputRec /\ display(e).name = e.name /\ display(e).text = Content(e)
      /\ display(e).kind \in {"text", "rich"}
  <2>1. c \in Seq(Nat) /\ k \in OutputKind /\ l \in Int /\ e.name \in STRING
    <3>1. c \in Seq(Nat)
      BY <1>3
    <3>2. k \in OutputKind
      BY DEF OutputKind
    <3>3. l \in Int
      BY ONLY l \in {0, 1}
    <3> QED
      BY ONLY <1>1, <3>1, <3>2, <3>3
  <2>2. display(e) \in OutputRec
    BY <2>1, <1>8 DEF OutputRec
  <2> QED
    BY <2>2, <1>8
<1>5. Output(e) \in OutputRec /\ Output(e).name = e.name /\ Output(e).text = Content(e)
  BY <1>1, <1>3, <1>4 DEF Output, OutputRec, OutputKind
<1>6. Output(e).kind = "stream" => e.kind = "stream"
  BY <1>4 DEF Output
<1>7. UnitsOf(Output(e)) = Units(e) /\ UnitsOf(display(e)) = Units(e)
  BY <1>3, <1>4, <1>5 DEF UnitsOf, Units
<1> QED
  BY <1>2, <1>4, <1>5, <1>6, <1>7

LEMMA UnitsOfTyped ==
  ASSUME NEW o \in OutputRec
  PROVE  UnitsOf(o) \in Seq(Unit) /\ Len(UnitsOf(o)) = Len(o.text)
<1>1. o.text \in Seq(Nat) /\ o.name \in STRING
  BY DEF OutputRec
<1>2. UnitsOf(o) \in [1..Len(o.text) -> Unit] /\ Len(o.text) \in Nat
  BY <1>1 DEF UnitsOf, Unit
<1> QED
  BY <1>2

Marked(name, s) == [u \in DOMAIN s |-> [name |-> name, at |-> s[u]]]

LEMMA MarkedTyped ==
  ASSUME NEW name \in STRING, NEW s \in Seq(Nat)
  PROVE  /\ Marked(name, s) \in Seq(Unit) /\ Len(Marked(name, s)) = Len(s)
         /\ \A i \in 1..Len(s) : Marked(name, s)[i] = [name |-> name, at |-> s[i]]
<1>1. Marked(name, s) \in [1..Len(s) -> Unit] /\ Len(s) \in Nat
  BY DEF Marked, Unit
<1> QED
  BY <1>1 DEF Marked

LEMMA MarkedJoined ==
  ASSUME NEW name \in STRING, NEW a \in Seq(Nat), NEW b \in Seq(Nat)
  PROVE  Marked(name, a \o b) = Marked(name, a) \o Marked(name, b)
<1> PICK c : c = a \o b
  OBVIOUS
<1>1. c \in Seq(Nat) /\ Len(c) = Len(a) + Len(b)
      /\ \A i \in 1..(Len(a) + Len(b)) : c[i] = IF i <= Len(a) THEN a[i] ELSE b[i - Len(a)]
  BY ConcatProperties
<1> PICK x \in Seq(Unit) : x = Marked(name, a)
  BY MarkedTyped
<1> PICK y \in Seq(Unit) : y = Marked(name, b)
  BY MarkedTyped
<1> PICK z \in Seq(Unit) : z = Marked(name, c)
  BY <1>1, MarkedTyped
<1>2. Len(x) = Len(a) /\ Len(y) = Len(b) /\ Len(z) = Len(c)
  BY <1>1, MarkedTyped
<1>3. \A i \in 1..Len(a) : x[i] = [name |-> name, at |-> a[i]]
  BY MarkedTyped
<1>4. \A i \in 1..Len(b) : y[i] = [name |-> name, at |-> b[i]]
  BY MarkedTyped
<1>5. \A i \in 1..Len(c) : z[i] = [name |-> name, at |-> c[i]]
  BY <1>1, MarkedTyped
<1>6. x \o y \in Seq(Unit) /\ Len(x \o y) = Len(x) + Len(y)
  BY ConcatProperties
<1>7. \A i \in 1..(Len(x) + Len(y)) : (x \o y)[i] = IF i <= Len(x) THEN x[i] ELSE y[i - Len(x)]
  BY ConcatProperties
<1> PICK w \in Seq(Unit) : w = x \o y
  BY <1>6
<1> PICK m \in Nat : m = Len(a)
  OBVIOUS
<1> PICK n \in Nat : n = Len(b)
  OBVIOUS
<1>8. ASSUME NEW i \in 1..(m + n) PROVE z[i] = w[i]
  <2>1. CASE i <= m
    <3>1. i \in 1..m /\ i \in 1..(m + n)
      BY <2>1
    <3>2. w[i] = x[i]
      <4>1. Len(x) = m /\ Len(y) = n
        BY <1>2
      <4>2. (x \o y)[i] = IF i <= m THEN x[i] ELSE y[i - m]
        BY <4>1, <1>7
      <4> QED
        BY <4>2, <2>1
    <3>3. c[i] = a[i]
      BY <3>1, <1>1
    <3>4. z[i] = [name |-> name, at |-> c[i]]
      BY <1>1, <1>5
    <3> QED
      BY <3>1, <3>2, <3>3, <3>4, <1>3
  <2>2. CASE ~(i <= m)
    <3>1. i - m \in 1..n
      BY <2>2
    <3>2. w[i] = y[i - m]
      BY <2>2, <1>2, <1>7
    <3>3. c[i] = b[i - m]
      BY <2>2, <1>1
    <3>4. z[i] = [name |-> name, at |-> c[i]]
      BY <1>1, <1>5
    <3>5. y[i - m] = [name |-> name, at |-> b[i - m]]
      BY <3>1, <1>4
    <3> QED
      BY <3>2, <3>3, <3>4, <3>5
  <2> QED
    BY <2>1, <2>2
<1>9. Len(z) = m + n /\ Len(w) = m + n
  BY <1>1, <1>2, <1>6
<1>10. z = w
  BY <1>8, <1>9, SeqEqual
<1> QED
  BY <1>10

\* Text that continues a stream is shown after it.
LEMMA UnitsJoined ==
  ASSUME NEW o \in OutputRec, NEW p \in OutputRec, o.name = p.name
  PROVE  LET q == [o EXCEPT !.text = p.text \o @] IN
         q \in OutputRec /\ q.kind = o.kind /\ q.name = o.name
           /\ UnitsOf(q) = Joint(UnitsOf(p), UnitsOf(o))
<1> PICK q : q = [o EXCEPT !.text = p.text \o @]
  OBVIOUS
<1>1. o.text \in Seq(Nat) /\ p.text \in Seq(Nat) /\ o.name \in STRING /\ o.kind \in OutputKind /\ o.layers \in Int
  BY DEF OutputRec
<1> PICK c : c = p.text \o o.text
  OBVIOUS
<1>2. c \in Seq(Nat)
  BY <1>1, ConcatProperties
<1>3. q = [kind |-> o.kind, name |-> o.name, text |-> c, layers |-> o.layers]
  BY <1>1 DEF OutputRec
<1>4. q \in OutputRec /\ q.kind = o.kind /\ q.name = o.name /\ q.text = c
  BY <1>1, <1>2, <1>3 DEF OutputRec
<1>5. \A r \in OutputRec : UnitsOf(r) = Marked(r.name, r.text)
  BY DEF UnitsOf, Marked
<1>6. Marked(o.name, p.text \o o.text) = Marked(o.name, p.text) \o Marked(o.name, o.text)
  BY <1>1, MarkedJoined
<1>7. UnitsOf(q) = Joint(UnitsOf(p), UnitsOf(o))
  BY <1>4, <1>5, <1>6 DEF Joint
<1> QED
  BY <1>4, <1>7

LEMMA PiecesTyped ==
  ASSUME NEW h \in History
  PROVE  Pieces(h) \in [1..Len(h) -> Seq(Unit)] /\ \A i \in 1..Len(h) : Pieces(h)[i] = Piece(h, i)
<1>1. ASSUME NEW i \in 1..Len(h) PROVE Piece(h, i) \in Seq(Unit)
  <2>1. Latest(h, i) \in 1..Len(h)
    <3>1. Latest(h, i) \in i..Len(h) /\ Len(h) \in Nat
      BY LatestOf DEF History
    <3> QED
      BY <3>1
  <2>2. h[Latest(h, i)] \in Events
    BY <2>1 DEF History
  <2>3. Units(h[Latest(h, i)]) \in Seq(Unit)
    BY <2>2, UnitsTyped
  <2> QED
    BY <2>3 DEF Piece
<1> QED
  BY <1>1 DEF Pieces

LEMMA PartsTyped ==
  ASSUME NEW outs \in Seq(OutputRec)
  PROVE  Parts(outs) \in [1..Len(outs) -> Seq(Unit)]
<1>1. \A k \in 1..Len(outs) : outs[k] \in OutputRec
  OBVIOUS
<1>2. \A k \in 1..Len(outs) : UnitsOf(outs[k]) \in Seq(Unit)
  BY <1>1, UnitsOfTyped
<1> QED
  BY <1>2 DEF Parts

LEMMA PromisedIsSpan ==
  ASSUME NEW h \in History
  PROVE  Promised(h) = Span(Pieces(h), 0, Len(h))
<1>1. DOMAIN h = 1..Len(h) /\ Len(h) \in Nat /\ 1..(Len(h) - 0) = 1..Len(h)
  BY DEF History
<1>2. \A i \in 1..Len(h) : Pieces(h)[0 + i] = Piece(h, i)
  BY DEF Pieces
<1>3. [i \in DOMAIN h |-> Piece(h, i)] = [j \in 1..(Len(h) - 0) |-> Pieces(h)[0 + j]]
  BY <1>1, <1>2
<1> QED
  BY <1>3 DEF Promised, Span

LEMMA ShownIsSpan ==
  ASSUME NEW outs \in Seq(OutputRec)
  PROVE  Shown(outs) = Span(Parts(outs), 0, Len(outs))
<1>1. DOMAIN outs = 1..Len(outs) /\ Len(outs) \in Nat /\ 1..(Len(outs) - 0) = 1..Len(outs)
  OBVIOUS
<1>2. \A i \in 1..Len(outs) : Parts(outs)[0 + i] = UnitsOf(outs[i])
  BY DEF Parts
<1>3. [i \in DOMAIN outs |-> UnitsOf(outs[i])] = [j \in 1..(Len(outs) - 0) |-> Parts(outs)[0 + j]]
  BY <1>1, <1>2
<1> QED
  BY <1>3 DEF Shown, Span

\* What one more message does to the pieces before it.
LEMMA PiecesNext ==
  ASSUME NEW h \in History, NEW e \in Events
  PROVE  LET g == Append(h, e) IN
         /\ \A i \in 1..Len(h) :
              /\ LastClear(g) = LastClear(h) /\ ~Replaces(g, i, Len(h) + 1) => Piece(g, i) = Piece(h, i)
              /\ Replaces(g, i, Len(h) + 1) /\ i > LastClear(g) /\ h[i].kind \in Pushing =>
                   Piece(g, i) = Units(e)
              /\ h[i].kind \notin Pushing => Piece(g, i) = <<>> /\ Piece(h, i) = <<>>
         /\ Len(h) + 1 > LastClear(g) /\ e.kind \in Pushing => Piece(g, Len(h) + 1) = Units(e)
         /\ e.kind \notin Pushing => Piece(g, Len(h) + 1) = <<>>
<1> PICK g : g = Append(h, e)
  OBVIOUS
<1> PICK n : n = Len(h)
  OBVIOUS
<1>1. /\ g \in History /\ Len(g) = n + 1 /\ n \in Nat
      /\ g[n + 1] = e /\ \A k \in 1..n : g[k] = h[k]
  BY OneMore
<1>2. ASSUME NEW i \in 1..n
      PROVE  /\ LastClear(g) = LastClear(h) /\ ~Replaces(g, i, n + 1) => Piece(g, i) = Piece(h, i)
             /\ Replaces(g, i, n + 1) /\ i > LastClear(g) /\ h[i].kind \in Pushing => Piece(g, i) = Units(e)
             /\ h[i].kind \notin Pushing => Piece(g, i) = <<>> /\ Piece(h, i) = <<>>
  <2>1. Latest(g, i) = IF Replaces(g, i, n + 1) THEN n + 1 ELSE Latest(h, i)
    BY LatestNext
  <2>2. Latest(h, i) \in 1..n /\ g[i] = h[i]
    <3>1. Latest(h, i) \in i..n
      BY LatestOf
    <3> QED
      BY <3>1, <1>1
  <2>3. g[Latest(h, i)] = h[Latest(h, i)]
    BY <2>2, <1>1
  <2> QED
    BY <2>1, <2>2, <2>3, <1>1 DEF Piece
<1>3. Latest(g, n + 1) = n + 1
  <2>1. g # <<>>
    BY <1>1
  <2> QED
    BY <2>1, <1>1, LatestLast
<1>4. n + 1 > LastClear(g) /\ e.kind \in Pushing => Piece(g, n + 1) = Units(e)
  BY <1>1, <1>3 DEF Piece
<1>5. e.kind \notin Pushing => Piece(g, n + 1) = <<>>
  BY <1>1 DEF Piece
<1> QED
  BY <1>2, <1>4, <1>5

-----------------------------------------------------------------------------
(* Which messages an output stands for. *)

\* An output stands for the messages after a up to b: a display with an id for
\* itself, the others for messages nothing replaces.
Block(a, b, o, id, h) ==
  /\ a < b /\ UnitsOf(o) = Span(Pieces(h), a, b)
  /\ o.kind = "stream" => id = NoId
  /\ id # NoId => /\ h[b].kind \in Pushing /\ h[b].id = id
                  /\ \A i \in (a + 1)..(b - 1) : h[i].kind \notin Pushing
  /\ id = NoId => \A i \in (a + 1)..b : h[i].kind \in Pushing => h[i].id = NoId

\* The outputs stand for the messages since the last clear up to m.
GroupsOf(at, s, h, m) ==
  /\ at \in [0..Len(s.outputs) -> 0..m] /\ at[0] = LastClear(h)
  /\ \A i \in (at[Len(s.outputs)] + 1)..m : h[i].kind \notin Pushing
  /\ \A k \in 1..Len(s.outputs) : Block(at[k - 1], at[k], s.outputs[k], s.ids[k], h)

LEMMA GroupsAscend ==
  ASSUME NEW s \in States, NEW h \in History, NEW m \in Nat, NEW at, GroupsOf(at, s, h, m)
  PROVE  \A k \in 0..Len(s.outputs) : at[k] \in LastClear(h)..m
<1> PICK n \in Nat : n = Len(s.outputs)
  BY DEF States
<1> PICK c : c = LastClear(h)
  OBVIOUS
<1> DEFINE A == {k \in Nat : k <= n => at[k] >= c}
<1>1. at \in [0..n -> 0..m] /\ at[0] = c /\ c \in 0..m
  BY DEF GroupsOf
<1>2. \A k \in 1..n : at[k - 1] < at[k]
  BY DEF GroupsOf, Block
<1>3. 0 \in A
  BY <1>1
<1>4. ASSUME NEW k \in Nat, k \in A PROVE k + 1 \in A
  <2> SUFFICES ASSUME k + 1 <= n PROVE at[k + 1] >= c
    OBVIOUS
  <2>1. k + 1 \in 1..n /\ (k + 1) - 1 = k /\ k \in 0..n /\ k + 1 \in 0..n
    OBVIOUS
  <2>2. at[k] < at[k + 1] /\ at[k] >= c
    BY <2>1, <1>2, <1>4
  <2>3. at[k] \in Nat /\ at[k + 1] \in Nat
    BY <2>1, <1>1
  <2> QED
    BY <2>2, <2>3, <1>1
<1> HIDE DEF A
<1>5. \A k \in Nat : k \in A
  BY <1>3, <1>4, Induction
<1>6. ASSUME NEW k \in 0..n PROVE at[k] \in c..m
  <2>1. at[k] >= c /\ at[k] \in 0..m
    BY <1>1, <1>5 DEF A
  <2> QED
    BY <2>1, <1>1
<1> QED
  BY <1>6

\* What an output shows is what its messages make together.
LEMMA GroupsShow ==
  ASSUME NEW s \in States, NEW h \in History, NEW at, GroupsOf(at, s, h, Len(h))
  PROVE  Shown(s.outputs) = Promised(h)
<1> PICK f : f = Pieces(h)
  OBVIOUS
<1> PICK g : g = Parts(s.outputs)
  OBVIOUS
<1> PICK m : m = Len(h)
  OBVIOUS
<1> PICK n : n = Len(s.outputs)
  OBVIOUS
<1>1. f \in [1..m -> Seq(Unit)] /\ m \in Nat /\ \A i \in 1..m : f[i] = Piece(h, i)
  BY PiecesTyped DEF History
<1>2. g \in [1..n -> Seq(Unit)] /\ n \in Nat /\ \A k \in 1..n : g[k] = UnitsOf(s.outputs[k])
  BY PartsTyped DEF States, Parts
<1>3. /\ \A k \in 0..n : at[k] \in LastClear(h)..m
      /\ at[0] = LastClear(h) /\ LastClear(h) \in 0..m
      /\ \A i \in (at[n] + 1)..m : h[i].kind \notin Pushing
  BY <1>1, GroupsAscend, LastClearOf DEF GroupsOf
<1>4. \A k \in 1..n : at[k - 1] < at[k] /\ g[k] = Span(f, at[k - 1], at[k])
  BY <1>2 DEF GroupsOf, Block
<1>5. \A k \in 0..n : at[k] \in 0..m
  BY <1>3
<1> DEFINE A == {k \in Nat : k <= n => Span(g, 0, k) = Span(f, 0, at[k])}
<1>6. 0 \in A
  <2>1. Span(g, 0, 0) = <<>>
    <3>1. g \in [1..n -> Seq(Unit)] /\ n \in Nat /\ 0 \in 0..n
      BY <1>2
    <3> QED
      BY ONLY <3>1, SpanSteps
  <2>2. \A i \in (0 + 1)..at[0] : f[i] = <<>>
    BY <1>1, <1>3 DEF Piece
  <2>3. at[0] \in 0..m /\ 0 \in 0..m
    BY <1>1, <1>3
  <2>4. Span(f, 0, at[0]) = <<>>
    BY <1>1, <2>2, <2>3, SpanSilent
  <2> QED
    BY <2>1, <2>4
<1>7. ASSUME NEW k \in Nat, k \in A PROVE k + 1 \in A
  <2> SUFFICES ASSUME k + 1 <= n PROVE Span(g, 0, k + 1) = Span(f, 0, at[k + 1])
    OBVIOUS
  <2>1. k \in 0..n /\ k < n /\ k + 1 \in 1..n /\ (k + 1) - 1 = k /\ 0 \in 0..n /\ k + 1 \in 0..n
    BY <1>2
  <2>2. Span(g, 0, k + 1) = Joint(Span(g, 0, k), g[k + 1])
    <3>1. g \in [1..n -> Seq(Unit)] /\ n \in Nat
      BY <1>2
    <3>2. 0 \in 0..n /\ k \in 0..n /\ k < n
      BY <2>1
    <3> QED
      BY ONLY <3>1, <3>2, SpanNext
  <2>3. g[k + 1] = Span(f, at[k], at[k + 1]) /\ at[k] < at[k + 1]
    BY <2>1, <1>4
  <2> PICK a \in 0..m : a = at[k]
    BY <2>1, <1>5
  <2> PICK b \in 0..m : b = at[k + 1]
    BY <2>1, <1>5
  <2>4. a \in 0..m /\ b \in a..m /\ 0 \in 0..m
    BY <2>3, <1>1
  <2>5. Span(f, 0, b) = Joint(Span(f, 0, a), Span(f, a, b))
    BY <2>4, <1>1, SpanSplit
  <2>6. Span(g, 0, k) = Span(f, 0, a)
    BY <1>7, <2>1
  <2> QED
    BY <2>2, <2>3, <2>5, <2>6
<1> HIDE DEF A
<1>8. n \in A
  BY <1>2, <1>6, <1>7, Induction
<1>9. Span(g, 0, n) = Span(f, 0, at[n])
  BY <1>2, <1>8 DEF A
<1> PICK b \in 0..m : b = at[n]
  BY <1>2, <1>5
<1>10. \A i \in (b + 1)..m : f[i] = <<>>
  <2> TAKE i \in (b + 1)..m
  <2>1. i \in 1..m /\ i \in (at[n] + 1)..m
    OBVIOUS
  <2> QED
    BY <2>1, <1>1, <1>3 DEF Piece
<1>11. b \in 0..m /\ m \in b..m /\ 0 \in 0..m
  BY <1>1
<1>12. Span(f, b, m) = <<>>
  BY <1>1, <1>10, <1>11, SpanSilent
<1>13. Span(f, 0, m) = Joint(Span(f, 0, b), Span(f, b, m))
  BY <1>1, <1>11, SpanSplit
<1>14. Span(f, 0, b) \in Seq(Unit)
  BY <1>1, <1>11, SpanSteps
<1>15. Joint(Span(f, 0, b), <<>>) = Span(f, 0, b)
  BY <1>14, JointTyped
<1>16. Shown(s.outputs) = Span(g, 0, n)
  BY ShownIsSpan DEF States
<1>17. Promised(h) = Span(f, 0, m)
  BY PromisedIsSpan
<1> QED
  BY <1>9, <1>12, <1>13, <1>15, <1>16, <1>17

\* One more message, which may replace what the output stands for.
Updates(e, id) == e.kind = "update_display_data" /\ e.id # NoId /\ id = e.id

LEMMA BlockKept ==
  ASSUME NEW h \in History, NEW e \in Events, LastClear(Append(h, e)) = LastClear(h),
         NEW a \in LastClear(h)..Len(h), NEW b \in a..Len(h), NEW o, NEW p, NEW id,
         Block(a, b, o, id, h),
         Updates(e, id) => UnitsOf(p) = Units(e) /\ p.kind # "stream",
         ~Updates(e, id) => p = o
  PROVE  Block(a, b, p, id, Append(h, e))
<1> PICK g : g = Append(h, e)
  OBVIOUS
<1> PICK n : n = Len(h)
  OBVIOUS
<1> PICK c : c = LastClear(h)
  OBVIOUS
<1>1. /\ g \in History /\ Len(g) = n + 1 /\ n \in Nat
      /\ g[n + 1] = e /\ \A i \in 1..n : g[i] = h[i]
  BY OneMore
<1>2. c \in 0..n /\ LastClear(g) = c
  BY LastClearOf
<1>3. a \in c..n /\ b \in a..n /\ a < b
  BY DEF Block
<1>4. \A i \in (a + 1)..b : i \in 1..n /\ i > c
  BY <1>1, <1>2, <1>3
<1>5. Pieces(g) \in [1..(n + 1) -> Seq(Unit)] /\ \A i \in 1..(n + 1) : Pieces(g)[i] = Piece(g, i)
  BY <1>1, PiecesTyped
<1>6. Pieces(h) \in [1..n -> Seq(Unit)] /\ \A i \in 1..n : Pieces(h)[i] = Piece(h, i)
  BY PiecesTyped
<1>7. \A i \in 1..n :
        /\ ~Replaces(g, i, n + 1) => Piece(g, i) = Piece(h, i)
        /\ Replaces(g, i, n + 1) /\ i > c /\ h[i].kind \in Pushing => Piece(g, i) = Units(e)
        /\ h[i].kind \notin Pushing => Piece(g, i) = <<>> /\ Piece(h, i) = <<>>
  BY <1>2, PiecesNext
<1>8. \A i \in 1..n : Replaces(g, i, n + 1) <=> Updates(e, h[i].id)
  BY LatestNext DEF Updates
<1>9. UnitsOf(p) = Span(Pieces(g), a, b)
  <2>1. CASE Updates(e, id)
    <3>1. h[b].kind \in Pushing /\ h[b].id = id /\ \A i \in (a + 1)..(b - 1) : h[i].kind \notin Pushing
      BY <2>1 DEF Block, Updates
    <3>2. b \in (a + 1)..b /\ b \in 1..n
      BY <1>1, <1>2, <1>3
    <3>3. Piece(g, b) = Units(e)
      BY <3>1, <3>2, <2>1, <1>4, <1>7, <1>8
    <3>4. \A i \in (a + 1)..(b - 1) : Pieces(g)[i] = <<>>
      <4> TAKE i \in (a + 1)..(b - 1)
      <4>1. i \in 1..n /\ i \in 1..(n + 1)
        BY <1>1, <1>2, <1>3
      <4> QED
        BY <4>1, <3>1, <1>5, <1>7
    <3> PICK x : x = b - 1
      OBVIOUS
    <3> PICK m : m = n + 1
      OBVIOUS
    <3>5. /\ a \in 0..m /\ x \in a..m /\ x < m /\ x + 1 = b /\ b \in 1..(n + 1) /\ m \in Nat
          /\ Pieces(g) \in [1..m -> Seq(Unit)]
      BY <1>1, <1>2, <1>3, <1>5
    <3>6. Span(Pieces(g), a, x) = <<>>
      <4>1. \A i \in (a + 1)..x : Pieces(g)[i] = <<>>
        BY <3>4
      <4> QED
        BY ONLY <4>1, <3>5, SpanSilent
    <3>7. Span(Pieces(g), a, x + 1) = Joint(Span(Pieces(g), a, x), Pieces(g)[x + 1])
      BY ONLY <3>5, SpanNext
    <3>8. Units(e) \in Seq(Unit)
      BY UnitsTyped
    <3>9. Joint(<<>>, Units(e)) = Units(e)
      BY <3>8, JointTyped
    <3> QED
      BY <2>1, <3>3, <3>5, <3>6, <3>7, <3>9, <1>5
  <2>2. CASE ~Updates(e, id)
    <3>1. \A i \in (a + 1)..b : Pieces(g)[i] = Pieces(h)[i]
      <4> TAKE i \in (a + 1)..b
      <4>1. i \in 1..n /\ i \in 1..(n + 1)
        BY <1>1, <1>4
      <4>2. Piece(g, i) = Piece(h, i)
        <5>1. CASE h[i].kind \notin Pushing
          BY <5>1, <4>1, <1>7
        <5>2. CASE h[i].kind \in Pushing /\ id = NoId
          <6>1. h[i].id = NoId
            BY <5>2 DEF Block
          <6>2. ~Replaces(g, i, n + 1)
            BY <6>1, <4>1, <1>8 DEF Updates
          <6> QED
            BY <6>2, <4>1, <1>7
        <5>3. CASE h[i].kind \in Pushing /\ id # NoId
          <6>1. i = b
            <7>1. i \notin (a + 1)..(b - 1)
              BY <5>3 DEF Block
            <7> QED
              BY <7>1, <1>1, <1>2, <1>3
          <6>2. h[i].id = id
            BY <6>1, <5>3 DEF Block
          <6>3. ~Replaces(g, i, n + 1)
            BY <6>2, <4>1, <2>2, <1>8
          <6> QED
            BY <6>3, <4>1, <1>7
        <5> QED
          BY <5>1, <5>2, <5>3
      <4> QED
        BY <4>1, <4>2, <1>5, <1>6
    <3>2. a \in Nat /\ b \in Nat
      BY <1>1, <1>2, <1>3
    <3>3. Span(Pieces(g), a, b) = Span(Pieces(h), a, b)
      BY <3>1, <3>2, SpanSame
    <3>4. UnitsOf(o) = Span(Pieces(h), a, b)
      BY DEF Block
    <3> QED
      BY <2>2, <3>3, <3>4
  <2> QED
    BY <2>1, <2>2
<1>10. p.kind = "stream" => id = NoId
  BY DEF Block
<1>11. \A i \in (a + 1)..b : g[i] = h[i]
  BY <1>1, <1>4
<1>12. b \in (a + 1)..b /\ \A i \in (a + 1)..(b - 1) : i \in (a + 1)..b
  BY <1>1, <1>2, <1>3
<1>13. id # NoId => /\ g[b].kind \in Pushing /\ g[b].id = id
                    /\ \A i \in (a + 1)..(b - 1) : g[i].kind \notin Pushing
  BY <1>11, <1>12 DEF Block
<1>14. id = NoId => \A i \in (a + 1)..b : g[i].kind \in Pushing => g[i].id = NoId
  BY <1>11 DEF Block
<1> QED
  BY <1>3, <1>9, <1>10, <1>13, <1>14 DEF Block

LEMMA GroupsKept ==
  ASSUME NEW s \in States, NEW t \in States, NEW h \in History, NEW e \in Events,
         LastClear(Append(h, e)) = LastClear(h), NEW at, GroupsOf(at, s, h, Len(h)),
         t.ids = s.ids, Len(t.outputs) = Len(s.outputs),
         \A k \in 1..Len(s.outputs) :
           /\ Updates(e, s.ids[k]) => UnitsOf(t.outputs[k]) = Units(e) /\ t.outputs[k].kind # "stream"
           /\ ~Updates(e, s.ids[k]) => t.outputs[k] = s.outputs[k]
  PROVE  GroupsOf(at, t, Append(h, e), Len(h))
<1> PICK g : g = Append(h, e)
  OBVIOUS
<1> PICK n \in Nat : n = Len(s.outputs)
  BY DEF States
<1> PICK m \in Nat : m = Len(h)
  BY DEF History
<1>1. /\ Len(g) = m + 1 /\ g[m + 1] = e /\ \A i \in 1..m : g[i] = h[i]
  BY OneMore
<1>2. at \in [0..n -> 0..m] /\ at[0] = LastClear(g)
  BY DEF GroupsOf
<1>3. \A k \in 0..n : at[k] \in LastClear(h)..m
  BY GroupsAscend
<1>4. ASSUME NEW k \in 1..n PROVE Block(at[k - 1], at[k], t.outputs[k], t.ids[k], g)
  <2>1. Block(at[k - 1], at[k], s.outputs[k], s.ids[k], h)
    BY DEF GroupsOf
  <2>2. k - 1 \in 0..n /\ k \in 0..n
    OBVIOUS
  <2> PICK a \in LastClear(h)..m : a = at[k - 1]
    BY <2>2, <1>3
  <2> PICK b \in LastClear(h)..m : b = at[k]
    BY <2>2, <1>3
  <2>3. b \in a..m
    BY <2>1 DEF Block
  <2> PICK o : o = s.outputs[k]
    OBVIOUS
  <2> PICK p : p = t.outputs[k]
    OBVIOUS
  <2> PICK id : id = s.ids[k]
    OBVIOUS
  <2>4. Block(a, b, o, id, h)
    BY <2>1
  <2>5. (Updates(e, id) => UnitsOf(p) = Units(e) /\ p.kind # "stream") /\ (~Updates(e, id) => p = o)
    OBVIOUS
  <2>6. Block(a, b, p, id, g)
    BY <2>3, <2>4, <2>5, BlockKept
  <2> QED
    BY <2>6
<1>5. \A i \in (at[n] + 1)..m : g[i].kind \notin Pushing
  <2> TAKE i \in (at[n] + 1)..m
  <2>1. at[n] \in 0..m
    BY <1>2
  <2>2. i \in 1..m
    BY <2>1
  <2>3. h[i].kind \notin Pushing
    BY DEF GroupsOf
  <2> QED
    BY <2>2, <2>3, <1>1
<1> QED
  BY <1>2, <1>4, <1>5 DEF GroupsOf

LEMMA NoGroups ==
  ASSUME NEW h \in History, NEW m \in LastClear(h)..Len(h),
         \A i \in (LastClear(h) + 1)..m : h[i].kind \notin Pushing
  PROVE  Empty \in States /\ Joined(Empty.outputs) /\ \E at : GroupsOf(at, Empty, h, m)
<1> PICK c : c = LastClear(h)
  OBVIOUS
<1>1. c \in 0..Len(h) /\ Len(h) \in Nat
  BY LastClearOf DEF History
<1>2. Empty.outputs = <<>> /\ Empty.ids = <<>> /\ Empty.clear_next = FALSE /\ Empty \in States
  BY DEF Empty, States
<1> DEFINE at == [k \in 0..0 |-> c]
<1>3. Len(Empty.outputs) = 0
  BY <1>2
<1>4. at \in [0..0 -> 0..m] /\ at[0] = c
  BY <1>1
<1>5. \A i \in (at[0] + 1)..m : h[i].kind \notin Pushing
  BY <1>4
<1> HIDE DEF at
<1>6. GroupsOf(at, Empty, h, m)
  <2>1. 1..0 = {}
    OBVIOUS
  <2> QED
    BY <2>1, <1>3, <1>4, <1>5 DEF GroupsOf
<1>7. Joined(Empty.outputs)
  BY <1>3 DEF Joined
<1> QED
  BY <1>2, <1>6, <1>7

LEMMA GroupsPass ==
  ASSUME NEW s \in States, NEW h \in History, NEW e \in Events, NEW at,
         GroupsOf(at, s, Append(h, e), Len(h)), e.kind \notin Pushing
  PROVE  GroupsOf(at, s, Append(h, e), Len(Append(h, e)))
<1> PICK g : g = Append(h, e)
  OBVIOUS
<1> PICK n \in Nat : n = Len(s.outputs)
  BY DEF States
<1> PICK m \in Nat : m = Len(h)
  BY DEF History
<1>1. Len(g) = m + 1 /\ g[m + 1] = e
  BY OneMore
<1>2. at \in [0..n -> 0..m] /\ at[n] \in 0..m
  BY DEF GroupsOf
<1>3. at \in [0..n -> 0..(m + 1)]
  BY <1>2
<1>4. \A i \in (at[n] + 1)..(m + 1) : g[i].kind \notin Pushing
  <2> TAKE i \in (at[n] + 1)..(m + 1)
  <2>1. i = m + 1 \/ i \in (at[n] + 1)..m
    BY <1>2
  <2>2. \A j \in (at[n] + 1)..m : g[j].kind \notin Pushing
    BY DEF GroupsOf
  <2> QED
    BY <2>1, <2>2, <1>1
<1> QED
  BY <1>1, <1>3, <1>4 DEF GroupsOf

\* What a new output shows: its message, after messages that show nothing.
LEMMA SpanOfNew ==
  ASSUME NEW h \in History, NEW e \in Events, e.kind \in Pushing, LastClear(Append(h, e)) <= Len(h),
         NEW a \in 0..Len(h), \A i \in (a + 1)..Len(h) : Append(h, e)[i].kind \notin Pushing
  PROVE  Span(Pieces(Append(h, e)), a, Len(h) + 1) = Units(e)
<1> PICK g : g = Append(h, e)
  OBVIOUS
<1> PICK n \in Nat : n = Len(h)
  BY DEF History
<1> PICK m : m = n + 1
  OBVIOUS
<1>1. /\ g \in History /\ Len(g) = n + 1 /\ g[n + 1] = e /\ \A k \in 1..n : g[k] = h[k]
  BY OneMore
<1>2. Pieces(g) \in [1..m -> Seq(Unit)] /\ \A i \in 1..m : Pieces(g)[i] = Piece(g, i)
  BY <1>1, PiecesTyped
<1>3. Piece(g, m) = Units(e)
  <2>1. LastClear(g) \in 0..(n + 1)
    BY <1>1, LastClearOf
  <2>2. n + 1 > LastClear(g)
    BY <2>1
  <2> QED
    BY <2>2, PiecesNext
<1>4. /\ a \in 0..m /\ n \in a..m /\ n < m /\ n + 1 = m /\ m \in Nat /\ m \in 1..m
      /\ Pieces(g) \in [1..m -> Seq(Unit)]
  BY <1>2
<1>5. \A i \in (a + 1)..n : Pieces(g)[i] = <<>>
  <2> TAKE i \in (a + 1)..n
  <2>1. i \in 1..m /\ g[i].kind \notin Pushing
    OBVIOUS
  <2> QED
    BY <2>1, <1>2 DEF Piece
<1>6. Span(Pieces(g), a, n) = <<>>
  BY ONLY <1>4, <1>5, SpanSilent
<1> PICK f : f = Pieces(g)
  OBVIOUS
<1>7. Span(f, a, n + 1) = Joint(Span(f, a, n), f[n + 1])
  <2>1. m \in Nat /\ f \in [1..m -> Seq(Unit)] /\ a \in 0..m /\ n \in a..m /\ n < m
    BY <1>4
  <2> QED
    BY ONLY <2>1, SpanNext
<1>8. Joint(<<>>, Units(e)) = Units(e)
  <2>1. Units(e) \in Seq(Unit)
    BY UnitsTyped
  <2> QED
    BY <2>1, JointTyped
<1> QED
  BY <1>2, <1>3, <1>4, <1>6, <1>7, <1>8

LEMMA LastReplaced ==
  ASSUME NEW S, NEW s \in Seq(S), s # <<>>, NEW x \in S
  PROVE  LET t == Append(Front(s), x) IN
         /\ t \in Seq(S) /\ Len(t) = Len(s) /\ Len(s) \in Nat \ {0} /\ t[Len(s)] = x
         /\ \A k \in 1..(Len(s) - 1) : t[k] = s[k]
<1> PICK n : n = Len(s)
  OBVIOUS
<1>1. n \in Nat \ {0}
  OBVIOUS
<1> PICK f : f = SubSeq(s, 1, n - 1)
  OBVIOUS
<1>2. f \in Seq(S) /\ Len(f) = n - 1 /\ \A k \in 1..(n - 1) : f[k] = s[k]
  BY <1>1
<1>3. Front(s) = f
  BY DEF Front
<1>4. Append(f, x) \in Seq(S) /\ Len(Append(f, x)) = n /\ Append(f, x)[n] = x
      /\ \A k \in 1..(n - 1) : Append(f, x)[k] = f[k]
  BY <1>1, <1>2, AppendProperties
<1> QED
  BY <1>1, <1>2, <1>3, <1>4

\* A message that shows something ends the block of a stream, or begins one.
LEMMA BlockOfNew ==
  ASSUME NEW h \in History, NEW e \in Events, e.kind \in Pushing, LastClear(Append(h, e)) <= Len(h),
         NEW a \in 0..Len(h), \A i \in (a + 1)..Len(h) : Append(h, e)[i].kind \notin Pushing
  PROVE  Block(a, Len(h) + 1, Output(e), e.id, Append(h, e))
<1> PICK g : g = Append(h, e)
  OBVIOUS
<1> PICK m \in Nat : m = Len(h)
  BY DEF History
<1>1. g[m + 1] = e
  BY OneMore
<1>2. UnitsOf(Output(e)) = Span(Pieces(g), a, m + 1)
  <2>1. UnitsOf(Output(e)) = Units(e)
    BY UnitsTyped
  <2>2. Span(Pieces(Append(h, e)), a, Len(h) + 1) = Units(e)
    BY SpanOfNew
  <2> QED
    BY <2>1, <2>2
<1>3. Output(e).kind = "stream" => e.id = NoId
  BY UnitsTyped DEF Events
<1>4. \A i \in (a + 1)..((m + 1) - 1) : g[i].kind \notin Pushing
  <2>1. (m + 1) - 1 = m
    OBVIOUS
  <2> QED
    BY <2>1
<1>5. \A i \in (a + 1)..(m + 1) : g[i].kind \in Pushing => i = m + 1
  <2> TAKE i \in (a + 1)..(m + 1)
  <2>1. i = m + 1 \/ i \in (a + 1)..m
    OBVIOUS
  <2> QED
    BY <2>1
<1>6. a < m + 1
  OBVIOUS
<1> QED
  BY <1>1, <1>2, <1>3, <1>4, <1>5, <1>6 DEF Block

LEMMA BlockContinued ==
  ASSUME NEW h \in History, NEW e \in Events, e.kind \in Pushing, LastClear(Append(h, e)) <= Len(h),
         NEW a \in 0..Len(h), NEW b \in a..Len(h),
         \A i \in (b + 1)..Len(h) : Append(h, e)[i].kind \notin Pushing,
         NEW p \in OutputRec, NEW id, Block(a, b, p, id, Append(h, e)), p.kind = "stream",
         Output(e).kind = "stream", Output(e).name = p.name
  PROVE  LET q == [Output(e) EXCEPT !.text = p.text \o @] IN
         q \in OutputRec /\ q.kind = p.kind /\ q.name = p.name
           /\ Block(a, Len(h) + 1, q, e.id, Append(h, e))
<1> PICK g : g = Append(h, e)
  OBVIOUS
<1> PICK m \in Nat : m = Len(h)
  BY DEF History
<1> PICK n \in Nat : n = m + 1
  OBVIOUS
<1> PICK o \in OutputRec : o = Output(e)
  BY UnitsTyped
<1> PICK q : q = [o EXCEPT !.text = p.text \o @]
  OBVIOUS
<1>1. Len(g) = n /\ g \in History /\ g[n] = e
  BY OneMore
<1>2. q \in OutputRec /\ q.kind = "stream" /\ q.name = p.name /\ UnitsOf(q) = Joint(UnitsOf(p), UnitsOf(o))
  <2>1. o \in OutputRec /\ p \in OutputRec /\ o.name = p.name /\ o.kind = "stream"
    OBVIOUS
  <2>2. q = [o EXCEPT !.text = p.text \o @]
    OBVIOUS
  <2> QED
    BY ONLY <2>1, <2>2, UnitsJoined
<1>3. b \in 0..Len(h)
  OBVIOUS
<1>4. Block(b, Len(h) + 1, Output(e), e.id, Append(h, e))
  BY <1>3, BlockOfNew
<1>5. Block(b, n, o, e.id, g)
  BY <1>4
<1>6. UnitsOf(p) = Span(Pieces(g), a, b) /\ UnitsOf(o) = Span(Pieces(g), b, n) /\ a < b /\ b < n
  BY <1>5 DEF Block
<1>7. UnitsOf(q) = Span(Pieces(g), a, n)
  <2> PICK f : f = Pieces(g)
    OBVIOUS
  <2>3. f \in [1..n -> Seq(Unit)]
    BY <1>1, PiecesTyped
  <2>4. a \in 0..n /\ b \in a..n /\ n \in b..n
    BY <1>6
  <2>1. n \in Nat /\ f \in [1..n -> Seq(Unit)] /\ a \in 0..n /\ b \in a..n /\ n \in b..n
    BY <2>3, <2>4
  <2>2. Span(f, a, n) = Joint(Span(f, a, b), Span(f, b, n))
    BY ONLY <2>1, SpanSplit
  <2> QED
    BY <2>2, <1>2, <1>6
<1>8. id = NoId /\ e.id = NoId
  <2>1. Output(e).kind = "stream" => e.kind = "stream"
    BY UnitsTyped
  <2> QED
    BY <2>1 DEF Block, Events
<1>9. \A i \in (a + 1)..n : g[i].kind \in Pushing => g[i].id = NoId
  <2> TAKE i \in (a + 1)..n
  <2>1. i \in (a + 1)..b \/ i \in (b + 1)..n
    OBVIOUS
  <2>2. \A j \in (a + 1)..b : g[j].kind \in Pushing => g[j].id = NoId
    BY <1>8 DEF Block
  <2>3. \A j \in (b + 1)..n : g[j].kind \in Pushing => g[j].id = NoId
    BY <1>5, <1>8 DEF Block
  <2> QED
    BY <2>1, <2>2, <2>3
<1>10. a < n
  BY <1>6
<1>11. Block(a, n, q, e.id, g)
  BY <1>7, <1>8, <1>9, <1>10 DEF Block
<1> QED
  BY <1>2, <1>11

\* The messages of all outputs but the last, and of a last one.
LEMMA GroupsBuilt ==
  ASSUME NEW s \in States, NEW t \in States, NEW g \in History, NEW m \in Nat, NEW at, NEW k \in Nat,
         GroupsOf(at, s, g, m), Len(g) = m + 1, k <= Len(s.outputs), Len(t.outputs) = k + 1,
         \A i \in 1..k : t.outputs[i] = s.outputs[i] /\ t.ids[i] = s.ids[i],
         Block(at[k], m + 1, t.outputs[k + 1], t.ids[k + 1], g)
  PROVE  \E b : GroupsOf(b, t, g, Len(g))
<1> DEFINE b == [i \in 0..(k + 1) |-> IF i = k + 1 THEN m + 1 ELSE at[i]]
<1> PICK n \in Nat : n = Len(s.outputs)
  BY DEF States
<1>1. at \in [0..n -> 0..m] /\ at[0] = LastClear(g)
      /\ \A i \in 1..n : Block(at[i - 1], at[i], s.outputs[i], s.ids[i], g)
  BY DEF GroupsOf
<1>2. b \in [0..(k + 1) -> 0..(m + 1)]
  <2>1. \A i \in 0..(k + 1) : i # k + 1 => at[i] \in 0..m
    BY <1>1
  <2>2. \A i \in 0..(k + 1) : (IF i = k + 1 THEN m + 1 ELSE at[i]) \in 0..(m + 1)
    BY <2>1
  <2> QED
    BY <2>2
<1>3. /\ b[0] = LastClear(g) /\ b[k + 1] = m + 1 /\ b[k] = at[k]
      /\ \A i \in 1..k : b[i] = at[i] /\ b[i - 1] = at[i - 1]
  BY <1>1
<1> HIDE DEF b
<1>4. ASSUME NEW i \in 1..(k + 1) PROVE Block(b[i - 1], b[i], t.outputs[i], t.ids[i], g)
  <2>1. CASE i = k + 1
    <3>1. i - 1 = k
      BY <2>1
    <3> QED
      BY <2>1, <3>1, <1>3
  <2>2. CASE i # k + 1
    <3>1. i \in 1..k /\ i \in 1..n
      BY <2>2
    <3> QED
      BY <3>1, <1>1, <1>3
  <2> QED
    BY <2>1, <2>2
<1>5. \A i \in (b[k + 1] + 1)..(m + 1) : g[i].kind \notin Pushing
  BY <1>3
<1>6. GroupsOf(b, t, g, m + 1)
  BY <1>2, <1>3, <1>4, <1>5 DEF GroupsOf
<1> QED
  BY <1>6

LEMMA GroupsPush ==
  ASSUME NEW s \in States, NEW h \in History, NEW e \in Events, e.kind \in Pushing,
         LastClear(Append(h, e)) <= Len(h), Joined(s.outputs),
         NEW at, GroupsOf(at, s, Append(h, e), Len(h))
  PROVE  LET t == Push(s, Output(e), e.id) IN
         /\ t \in States /\ ~t.clear_next /\ Joined(t.outputs)
         /\ \E b : GroupsOf(b, t, Append(h, e), Len(Append(h, e)))
<1> PICK g : g = Append(h, e)
  OBVIOUS
<1> PICK m \in Nat : m = Len(h)
  BY DEF History
<1> PICK o \in OutputRec : o = Output(e)
  BY UnitsTyped
<1> PICK outs \in Seq(OutputRec) : outs = s.outputs
  BY DEF States
<1> PICK ids \in Seq(STRING) : ids = s.ids
  BY DEF States
<1> PICK n \in Nat : n = Len(outs)
  OBVIOUS
<1> PICK id \in STRING : id = e.id
  BY DEF Events
<1>1. Len(g) = m + 1 /\ g \in History /\ Len(ids) = n
  BY OneMore DEF States
<1>2. at \in [0..n -> 0..m] /\ (\A i \in (at[n] + 1)..m : g[i].kind \notin Pushing)
      /\ \A i \in 1..n : Block(at[i - 1], at[i], outs[i], ids[i], g)
  BY DEF GroupsOf
<1> PICK b \in 0..m : b = at[n]
  BY <1>2
<1> PICK t : t = Push(s, Output(e), e.id)
  OBVIOUS
<1>3. CASE Continues(s, Output(e))
  <2>1. o.kind = "stream" /\ outs # <<>> /\ Last(outs).kind = "stream" /\ Last(outs).name = o.name
    BY <1>3 DEF Continues
  <2>2. n # 0 /\ ids # <<>> /\ Last(outs) = outs[n]
    BY <2>1, <1>1 DEF Last
  <2> PICK p \in OutputRec : p = outs[n]
    BY <2>2
  <2> PICK q : q = [o EXCEPT !.text = p.text \o @]
    OBVIOUS
  <2> PICK k \in Nat : k = n - 1
    BY <2>2
  <2>3. k \in 0..n /\ k + 1 = n /\ n \in 1..n
    BY <2>2
  <2> PICK a \in 0..m : a = at[k]
    BY <2>3, <1>2
  <2>4. Block(a, b, p, ids[n], g)
    BY <2>3, <1>2
  <2>5. b \in a..m
    BY <2>4 DEF Block
  <2>6. q \in OutputRec /\ q.kind = p.kind /\ q.name = p.name /\ Block(a, m + 1, q, id, g)
    <3>1. \A i \in (b + 1)..m : g[i].kind \notin Pushing
      BY <1>2
    <3> QED
      <4>1. /\ h \in History /\ e \in Events /\ e.kind \in Pushing /\ LastClear(g) <= m
            /\ g = Append(h, e) /\ m = Len(h) /\ o = Output(e) /\ id = e.id
        OBVIOUS
      <4>2. a \in 0..m /\ b \in a..m /\ p \in OutputRec
        BY <2>5
      <4>3. p.kind = "stream" /\ o.kind = "stream" /\ o.name = p.name
        BY <2>1, <2>2
      <4>4. q = [o EXCEPT !.text = p.text \o @]
        OBVIOUS
      <4> PICK j : j = ids[n]
        OBVIOUS
      <4>5. Block(a, b, p, j, Append(h, e)) /\ \A i \in (b + 1)..Len(h) : Append(h, e)[i].kind \notin Pushing
        BY <2>4, <3>1
      <4>6. a \in 0..Len(h) /\ b \in a..Len(h) /\ LastClear(Append(h, e)) <= Len(h)
        BY <4>1, <4>2
      <4>7. Output(e).kind = "stream" /\ Output(e).name = p.name
        BY <4>3
      <4>8. LET r == [Output(e) EXCEPT !.text = p.text \o @] IN
            r \in OutputRec /\ r.kind = p.kind /\ r.name = p.name
              /\ Block(a, Len(h) + 1, r, e.id, Append(h, e))
        BY ONLY <4>1, <4>2, <4>3, <4>5, <4>6, <4>7, BlockContinued
      <4> QED
        BY ONLY <4>1, <4>4, <4>8
  <2> PICK w : w = Append(Front(outs), q)
    OBVIOUS
  <2> PICK x : x = Append(Front(ids), id)
    OBVIOUS
  <2>7. t = [outputs |-> w, ids |-> x, clear_next |-> FALSE]
    BY <1>3, <2>2 DEF Push
  <2>8. w \in Seq(OutputRec) /\ Len(w) = n /\ w[n] = q /\ \A i \in 1..k : w[i] = outs[i]
    BY <2>1, <2>6, LastReplaced
  <2>9. x \in Seq(STRING) /\ Len(x) = n /\ x[n] = id /\ \A i \in 1..k : x[i] = ids[i]
    BY <2>2, <1>1, LastReplaced
  <2>10. t \in States
    BY <2>7, <2>8, <2>9 DEF States
  <2>11. \E c : GroupsOf(c, t, g, Len(g))
    <3>1. Block(at[k], m + 1, t.outputs[k + 1], t.ids[k + 1], g)
      BY <2>3, <2>6, <2>7, <2>8, <2>9
    <3>2. \A i \in 1..k : t.outputs[i] = s.outputs[i] /\ t.ids[i] = s.ids[i]
      BY <2>7, <2>8, <2>9
    <3>3. k <= Len(s.outputs) /\ Len(t.outputs) = k + 1
      BY <2>3, <2>7, <2>8
    <3> QED
      BY <2>10, <3>1, <3>2, <3>3, <1>1, GroupsBuilt
  <2>12. Joined(t.outputs)
    <3>1. ASSUME NEW i \in 1..(n - 1)
          PROVE  ~(w[i].kind = "stream" /\ w[i + 1].kind = "stream" /\ w[i].name = w[i + 1].name)
      <4>1. i \in 1..k /\ i + 1 \in 1..n
        BY <2>3
      <4>2. ~(outs[i].kind = "stream" /\ outs[i + 1].kind = "stream" /\ outs[i].name = outs[i + 1].name)
        BY DEF Joined
      <4>3. w[i] = outs[i]
        BY <4>1, <2>8
      <4>4. w[i + 1].kind = outs[i + 1].kind /\ w[i + 1].name = outs[i + 1].name
        <5>1. CASE i + 1 = n
          BY <5>1, <2>6, <2>8
        <5>2. CASE i + 1 # n
          <6>1. i + 1 \in 1..k
            BY <5>2, <4>1, <2>3
          <6> QED
            BY <6>1, <2>8
        <5> QED
          BY <5>1, <5>2
      <4> QED
        BY <4>2, <4>3, <4>4
    <3>2. Len(w) - 1 = n - 1 /\ t.outputs = w
      BY <2>7, <2>8
    <3> QED
      BY <3>1, <3>2 DEF Joined
  <2>13. ~t.clear_next
    BY <2>7
  <2> QED
    BY <2>10, <2>11, <2>12, <2>13
<1>4. CASE ~Continues(s, Output(e))
  <2> PICK w : w = Append(outs, o)
    OBVIOUS
  <2> PICK x : x = Append(ids, id)
    OBVIOUS
  <2>1. t = [outputs |-> w, ids |-> x, clear_next |-> FALSE]
    BY <1>4 DEF Push
  <2>2. w \in Seq(OutputRec) /\ Len(w) = n + 1 /\ w[n + 1] = o /\ \A i \in 1..n : w[i] = outs[i]
    BY AppendProperties
  <2>3. x \in Seq(STRING) /\ Len(x) = n + 1 /\ x[n + 1] = id /\ \A i \in 1..n : x[i] = ids[i]
    BY <1>1, AppendProperties
  <2>4. t \in States
    BY <2>1, <2>2, <2>3 DEF States
  <2>5. Block(b, m + 1, o, id, g)
    <3>1. \A i \in (b + 1)..m : g[i].kind \notin Pushing
      BY <1>2
    <3> QED
      BY <3>1, BlockOfNew
  <2>6. \E c : GroupsOf(c, t, g, Len(g))
    <3>1. Block(at[n], m + 1, t.outputs[n + 1], t.ids[n + 1], g)
      BY <2>1, <2>2, <2>3, <2>5
    <3>2. \A i \in 1..n : t.outputs[i] = s.outputs[i] /\ t.ids[i] = s.ids[i]
      BY <2>1, <2>2, <2>3
    <3>3. n <= Len(s.outputs) /\ Len(t.outputs) = n + 1
      BY <2>1, <2>2
    <3> QED
      BY <2>4, <3>1, <3>2, <3>3, <1>1, GroupsBuilt
  <2>7. Joined(t.outputs)
    <3>1. ASSUME NEW i \in 1..n
          PROVE  ~(w[i].kind = "stream" /\ w[i + 1].kind = "stream" /\ w[i].name = w[i + 1].name)
      <4>1. CASE i = n
        <5>1. outs # <<>> /\ Last(outs) = outs[n] /\ w[n] = outs[n]
          BY <4>1, <2>2 DEF Last
        <5> QED
          BY <5>1, <4>1, <2>2, <1>4 DEF Continues
      <4>2. CASE i # n
        <5>1. i \in 1..(n - 1) /\ i + 1 \in 1..n
          BY <4>2
        <5>2. ~(outs[i].kind = "stream" /\ outs[i + 1].kind = "stream" /\ outs[i].name = outs[i + 1].name)
          BY <5>1 DEF Joined
        <5> QED
          BY <5>1, <5>2, <2>2
      <4> QED
        BY <4>1, <4>2
    <3>2. Len(w) - 1 = n
      BY <2>2
    <3> QED
      BY <3>1, <3>2, <2>1 DEF Joined
  <2>8. ~t.clear_next
    BY <2>1
  <2> QED
    BY <2>4, <2>6, <2>7, <2>8
<1> QED
  BY <1>3, <1>4

-----------------------------------------------------------------------------
(* The outputs follow the messages. *)

Follows(s, h) ==
  /\ s \in States /\ Joined(s.outputs)
  /\ s.clear_next => Awaiting(h)
  /\ ~s.clear_next => Settled(h)
  /\ \E at : GroupsOf(at, s, h, Len(h))

LEMMA FollowsShow ==
  ASSUME NEW s, NEW h \in History, Follows(s, h)
  PROVE  Shown(s.outputs) = Promised(h) /\ Joined(s.outputs)
<1>1. s \in States /\ Joined(s.outputs)
  BY DEF Follows
<1>2. PICK at : GroupsOf(at, s, h, Len(h))
  BY DEF Follows
<1> QED
  BY <1>1, <1>2, GroupsShow

LEMMA FollowsEmpty == Follows(Empty, <<>>)
<1>1. <<>> \in History /\ Len(<<>>) = 0
  BY DEF History
<1> PICK h \in History : h = <<>>
  BY <1>1
<1>2. LastClear(h) = 0
  <2>1. LastClear(h) \in 0..0
    BY <1>1, LastClearOf
  <2> QED
    BY <2>1
<1>3. Empty \in States /\ Joined(Empty.outputs) /\ \E at : GroupsOf(at, Empty, h, 0)
  <2>1. 0 \in LastClear(h)..Len(h) /\ \A i \in (LastClear(h) + 1)..0 : h[i].kind \notin Pushing
    BY <1>1, <1>2
  <2> QED
    BY <2>1, NoGroups
<1>4. Settled(h) /\ ~Empty.clear_next
  BY <1>1 DEF Settled, Empty
<1> QED
  BY <1>1, <1>3, <1>4 DEF Follows

\* A message that shows nothing new.
LEMMA FollowsKept ==
  ASSUME NEW s, NEW h \in History, NEW e \in Events, Follows(s, h), NEW t \in States,
         LastClear(Append(h, e)) = LastClear(h), e.kind \notin Pushing,
         t.ids = s.ids, Len(t.outputs) = Len(s.outputs),
         \A k \in 1..Len(s.outputs) :
           /\ Updates(e, s.ids[k]) => UnitsOf(t.outputs[k]) = Units(e) /\ t.outputs[k].kind # "stream"
           /\ ~Updates(e, s.ids[k]) => t.outputs[k] = s.outputs[k],
         t.clear_next => Awaiting(Append(h, e)), ~t.clear_next => Settled(Append(h, e))
  PROVE  Follows(t, Append(h, e))
<1>1. s \in States /\ Joined(s.outputs)
  BY DEF Follows
<1>2. PICK at : GroupsOf(at, s, h, Len(h))
  BY DEF Follows
<1>3. GroupsOf(at, t, Append(h, e), Len(h))
  BY <1>1, <1>2, GroupsKept
<1>4. GroupsOf(at, t, Append(h, e), Len(Append(h, e)))
  BY <1>3, GroupsPass
<1>5. Joined(t.outputs)
  <2> SUFFICES ASSUME NEW i \in 1..(Len(t.outputs) - 1)
               PROVE  ~ /\ t.outputs[i].kind = "stream" /\ t.outputs[i + 1].kind = "stream"
                        /\ t.outputs[i].name = t.outputs[i + 1].name
    BY DEF Joined
  <2>1. Len(t.outputs) \in Nat
    BY DEF States
  <2>2. i \in 1..Len(s.outputs) /\ i + 1 \in 1..Len(s.outputs) /\ i \in 1..(Len(s.outputs) - 1)
    BY <2>1
  <2>3. ~(s.outputs[i].kind = "stream" /\ s.outputs[i + 1].kind = "stream"
          /\ s.outputs[i].name = s.outputs[i + 1].name)
    BY <1>1, <2>2 DEF Joined
  <2>4. \A k \in 1..Len(s.outputs) : t.outputs[k].kind = "stream" => t.outputs[k] = s.outputs[k]
    OBVIOUS
  <2> QED
    BY <2>2, <2>3, <2>4
<1> QED
  BY <1>4, <1>5 DEF Follows

LEMMA FollowsClear ==
  ASSUME NEW s, NEW h \in History, NEW e \in Events, Follows(s, h), e.kind = "clear_output"
  PROVE  Follows(reduce(s, e), Append(h, e))
<1> PICK g : g = Append(h, e)
  OBVIOUS
<1> PICK n \in Nat : n = Len(h)
  BY DEF History
<1>1. /\ g \in History /\ Len(g) = n + 1 /\ g[n + 1] = e /\ \A k \in 1..n : g[k] = h[k]
  BY OneMore
<1>2. reduce(s, e) = Clear(s, e.wait)
  BY DEF reduce, Pushing
<1>3. e.wait \in BOOLEAN
  BY DEF Events
<1>4. CASE ~e.wait
  <2>5. Empty \in States /\ Joined(Empty.outputs)
    BY FollowsEmpty DEF Follows
  <2> PICK t : t = [Empty EXCEPT !.clear_next = FALSE]
    OBVIOUS
  <2>1. Clear(s, e.wait) = t
    <3>1. e.wait = FALSE
      BY <1>3, <1>4
    <3>2. Clear(s, FALSE) = [Empty EXCEPT !.clear_next = FALSE]
      BY DEF Clear
    <3> QED
      BY <3>1, <3>2
  <2>6. t \in States /\ t.outputs = Empty.outputs /\ t.ids = Empty.ids /\ t.clear_next = FALSE
    BY <2>5 DEF States
  <2>2. LastClear(g) = n + 1
    BY <1>4, ClearsNext
  <2>3. PICK at : GroupsOf(at, Empty, g, n + 1)
    <3>1. n + 1 \in LastClear(g)..Len(g) /\ \A i \in (LastClear(g) + 1)..(n + 1) : g[i].kind \notin Pushing
      BY <1>1, <2>2
    <3> QED
      BY <1>1, <3>1, NoGroups
  <2>7. GroupsOf(at, t, g, n + 1)
    BY <2>3, <2>6 DEF GroupsOf
  <2>4. Settled(g)
    BY <1>1, <2>2 DEF Settled
  <2>8. Joined(t.outputs) /\ ~t.clear_next
    BY <2>5, <2>6
  <2> QED
    BY <1>1, <1>2, <2>1, <2>4, <2>6, <2>7, <2>8 DEF Follows
<1>5. CASE e.wait
  <2> PICK t : t = [s EXCEPT !.clear_next = TRUE]
    OBVIOUS
  <2>1. Clear(s, e.wait) = t
    BY <1>5, <1>3 DEF Clear
  <2>2. s \in States
    BY DEF Follows
  <2>3. t \in States /\ t.outputs = s.outputs /\ t.ids = s.ids /\ t.clear_next = TRUE
    BY <2>2 DEF States
  <2>4. LastClear(g) = LastClear(h)
    <3>1. ~Shows(e)
      BY DEF Shows, Pushing
    <3> QED
      BY <3>1, <1>5, ClearsNext
  <2>5. Awaiting(g)
    <3>1. n + 1 \in 1..Len(g) /\ g[n + 1].kind = "clear_output" /\ g[n + 1].wait
      BY <1>1, <1>5
    <3>2. \A j \in ((n + 1) + 1)..Len(g) : ~Shows(g[j])
      BY <1>1
    <3> QED
      BY <3>1, <3>2 DEF Awaiting
  <2>6. e.kind \notin Pushing /\ \A id : ~Updates(e, id)
    BY DEF Pushing, Updates
  <2>7. Follows(t, g)
    BY <2>3, <2>4, <2>5, <2>6, FollowsKept
  <2> QED
    BY <1>2, <2>1, <2>7
<1> QED
  BY <1>3, <1>4, <1>5

LEMMA FollowsPush ==
  ASSUME NEW s, NEW h \in History, NEW e \in Events, Follows(s, h), e.kind \in Pushing
  PROVE  Follows(reduce(s, e), Append(h, e))
<1> PICK g : g = Append(h, e)
  OBVIOUS
<1> PICK n \in Nat : n = Len(h)
  BY DEF History
<1>1. /\ g \in History /\ Len(g) = n + 1 /\ g[n + 1] = e /\ \A k \in 1..n : g[k] = h[k]
  BY OneMore
<1>2. Shows(e) /\ e.kind # "clear_output" /\ \A id : ~Updates(e, id)
  BY DEF Shows, Pushing, Updates
<1> PICK u : u = Cleared(s)
  OBVIOUS
<1> PICK t : t = reduce(s, e)
  OBVIOUS
<1>3. t = Push(u, Output(e), e.id)
  BY <1>2 DEF reduce, Pushing
<1>4. LastClear(g) \in 0..n /\ Settled(g)
  BY <1>2, ClearsNext
<1>5. s \in States /\ Joined(s.outputs) /\ s.clear_next \in BOOLEAN
  BY DEF Follows, States
<1>6. u \in States /\ Joined(u.outputs) /\ \E at : GroupsOf(at, u, g, n)
  <2>1. CASE s.clear_next
    <3>1. u = Empty
      BY <2>1 DEF Cleared
    <3>2. \A j \in (LastClear(g) + 1)..n : ~Shows(h[j])
      BY <2>1, <1>2, ClearsNext DEF Follows
    <3>3. \A j \in (LastClear(g) + 1)..n : g[j].kind \notin Pushing
      <4> TAKE j \in (LastClear(g) + 1)..n
      <4>1. j \in 1..n
        BY <1>4
      <4> QED
        BY <4>1, <3>2, <1>1 DEF Shows
    <3>4. n \in LastClear(g)..Len(g)
      BY <1>1, <1>4
    <3> QED
      BY <1>1, <3>1, <3>3, <3>4, NoGroups
  <2>2. CASE ~s.clear_next
    <3>1. u = s
      BY <2>2 DEF Cleared
    <3>2. PICK at : GroupsOf(at, s, h, Len(h))
      BY DEF Follows
    <3>3. LastClear(Append(h, e)) = LastClear(h)
      BY <2>2, <1>2, ClearsNext DEF Follows
    <3>4. GroupsOf(at, s, Append(h, e), Len(h))
      BY <3>2, <3>3, <1>2, <1>5, GroupsKept
    <3> QED
      BY <3>1, <3>4, <1>5
  <2> QED
    BY <2>1, <2>2, <1>5
<1>7. PICK at : GroupsOf(at, u, g, n)
  BY <1>6
<1>8. LET p == Push(u, Output(e), e.id) IN
      /\ p \in States /\ ~p.clear_next /\ Joined(p.outputs)
      /\ \E b : GroupsOf(b, p, Append(h, e), Len(Append(h, e)))
  <2>1. LastClear(Append(h, e)) <= Len(h)
    BY <1>4
  <2>2. GroupsOf(at, u, Append(h, e), Len(h))
    BY <1>7
  <2> QED
    BY <2>1, <2>2, <1>6, GroupsPush
<1> QED
  BY <1>3, <1>4, <1>8 DEF Follows

LEMMA FollowsUpdate ==
  ASSUME NEW s, NEW h \in History, NEW e \in Events, Follows(s, h), e.kind = "update_display_data"
  PROVE  Follows(reduce(s, e), Append(h, e))
<1> PICK g : g = Append(h, e)
  OBVIOUS
<1> PICK n \in Nat : n = Len(h)
  BY DEF History
<1>1. /\ g \in History /\ Len(g) = n + 1 /\ g[n + 1] = e /\ \A k \in 1..n : g[k] = h[k]
  BY OneMore
<1>2. Shows(e) /\ e.kind # "clear_output" /\ e.kind \notin Pushing
  BY DEF Shows, Pushing
<1>3. reduce(s, e) = UpdateDisplay(Cleared(s), e)
  BY <1>2 DEF reduce
<1>4. LastClear(g) \in 0..n /\ Settled(g)
  BY <1>2, ClearsNext
<1>5. s \in States /\ Joined(s.outputs) /\ s.clear_next \in BOOLEAN
  BY DEF Follows, States
<1>6. CASE s.clear_next
  <2>1. Cleared(s) = Empty
    BY <1>6 DEF Cleared
  <2>2. Empty = [outputs |-> <<>>, ids |-> <<>>, clear_next |-> FALSE]
    BY DEF Empty
  <2> PICK x : x = Empty
    OBVIOUS
  <2> PICK w : w = [i \in DOMAIN x.outputs |-> IF e.id # NoId /\ x.ids[i] = e.id
                                             THEN display(e) ELSE x.outputs[i]]
    OBVIOUS
  <2>3. w = <<>>
    <3>1. DOMAIN x.outputs = {}
      BY <2>2
    <3> QED
      BY <3>1
  <2>10. UpdateDisplay(x, e) = [x EXCEPT !.clear_next = FALSE, !.outputs = w]
    BY DEF UpdateDisplay
  <2>4. UpdateDisplay(Empty, e) = Empty
    BY <2>2, <2>3, <2>10
  <2>5. \A j \in (LastClear(g) + 1)..n : ~Shows(h[j])
    BY <1>6, <1>2, ClearsNext DEF Follows
  <2>6. \A j \in (LastClear(g) + 1)..(n + 1) : g[j].kind \notin Pushing
    <3> TAKE j \in (LastClear(g) + 1)..(n + 1)
    <3>1. j = n + 1 \/ (j \in 1..n /\ j \in (LastClear(g) + 1)..n)
      BY <1>4
    <3> QED
      BY <3>1, <2>5, <1>1, <1>2 DEF Shows
  <2>7. n + 1 \in LastClear(g)..Len(g)
    BY <1>1, <1>4
  <2>8. \E at : GroupsOf(at, Empty, g, n + 1)
    BY <1>1, <2>6, <2>7, NoGroups
  <2>9. Empty \in States /\ ~Empty.clear_next /\ Joined(Empty.outputs)
    BY FollowsEmpty DEF Follows, Empty
  <2> QED
    BY <1>1, <1>3, <1>4, <2>1, <2>4, <2>8, <2>9 DEF Follows
<1>7. CASE ~s.clear_next
  <2>1. Cleared(s) = s
    BY <1>7 DEF Cleared
  <2> PICK t : t = UpdateDisplay(s, e)
    OBVIOUS
  <2> PICK outs \in Seq(OutputRec) : outs = s.outputs
    BY <1>5 DEF States
  <2> PICK ids \in Seq(STRING) : ids = s.ids
    BY <1>5 DEF States
  <2> PICK m \in Nat : m = Len(outs)
    OBVIOUS
  <2> PICK d \in OutputRec : d = display(e)
    BY UnitsTyped
  <2> PICK w : w = [i \in 1..m |-> IF e.id # NoId /\ ids[i] = e.id THEN d ELSE outs[i]]
    OBVIOUS
  <2>2. w \in Seq(OutputRec) /\ Len(w) = m
        /\ \A i \in 1..m : w[i] = IF e.id # NoId /\ ids[i] = e.id THEN d ELSE outs[i]
    <3>1. w \in [1..m -> OutputRec]
      OBVIOUS
    <3> QED
      BY <3>1
  <2>3. t.outputs = w /\ t.ids = ids /\ t.clear_next = FALSE /\ t = [outputs |-> w, ids |-> ids, clear_next |-> FALSE]
    <3>1. s = [outputs |-> outs, ids |-> ids, clear_next |-> s.clear_next]
      BY <1>5 DEF States
    <3>2. DOMAIN outs = 1..m
      OBVIOUS
    <3> QED
      BY <3>1, <3>2 DEF UpdateDisplay
  <2>4. t \in States
    BY <2>2, <2>3, <1>5 DEF States
  <2>5. LastClear(g) = LastClear(h)
    BY <1>7, <1>2, ClearsNext DEF Follows
  <2>6. ASSUME NEW k \in 1..m
        PROVE  /\ Updates(e, ids[k]) => UnitsOf(w[k]) = Units(e) /\ w[k].kind # "stream"
               /\ ~Updates(e, ids[k]) => w[k] = outs[k]
    <3>1. UnitsOf(d) = Units(e) /\ d.kind # "stream"
      BY UnitsTyped
    <3>2. w[k] = IF Updates(e, ids[k]) THEN d ELSE outs[k]
      BY <2>2 DEF Updates
    <3> QED
      BY <3>1, <3>2
  <2>7. Follows(t, g)
    <3>1. t.ids = s.ids /\ Len(t.outputs) = Len(s.outputs) /\ ~t.clear_next
      BY <2>2, <2>3
    <3>2. \A k \in 1..Len(s.outputs) :
            /\ Updates(e, s.ids[k]) => UnitsOf(t.outputs[k]) = Units(e) /\ t.outputs[k].kind # "stream"
            /\ ~Updates(e, s.ids[k]) => t.outputs[k] = s.outputs[k]
      BY <2>3, <2>6
    <3> QED
      BY <3>1, <3>2, <2>4, <2>5, <1>2, <1>4, FollowsKept
  <2> QED
    BY <1>3, <2>1, <2>7
<1> QED
  BY <1>5, <1>6, <1>7

LEMMA FollowsStep ==
  ASSUME NEW s, NEW h \in History, NEW e \in Events, Follows(s, h)
  PROVE  Follows(reduce(s, e), Append(h, e))
<1>1. CASE e.kind \in Pushing
  BY <1>1, FollowsPush
<1>2. CASE e.kind = "clear_output"
  BY <1>2, FollowsClear
<1>3. CASE e.kind = "update_display_data"
  BY <1>3, FollowsUpdate
<1>4. CASE e.kind \notin Pushing /\ e.kind # "clear_output" /\ e.kind # "update_display_data"
  <2>1. reduce(s, e) = s
    BY <1>4 DEF reduce
  <2>2. ~Shows(e) /\ \A id : ~Updates(e, id)
    BY <1>4 DEF Shows, Updates
  <2>3. LastClear(Append(h, e)) = LastClear(h)
    BY <1>4, <2>2, ClearsNext
  <2> PICK n \in Nat : n = Len(h)
    BY DEF History
  <2> PICK g : g = Append(h, e)
    OBVIOUS
  <2>4. Len(g) = n + 1 /\ g[n + 1] = e /\ \A i \in 1..n : g[i] = h[i]
    BY OneMore
  <2>5. s \in States
    BY DEF Follows
  <2>6. ASSUME s.clear_next PROVE Awaiting(g)
    <3>1. PICK i \in 1..n : /\ h[i].kind = "clear_output" /\ h[i].wait
                            /\ \A j \in (i + 1)..n : ~Shows(h[j])
      BY <2>6 DEF Follows, Awaiting
    <3>2. i \in 1..(n + 1) /\ g[i] = h[i]
      BY <2>4
    <3>3. \A j \in (i + 1)..(n + 1) : ~Shows(g[j])
      <4> TAKE j \in (i + 1)..(n + 1)
      <4>1. j = n + 1 \/ (j \in (i + 1)..n /\ j \in 1..n)
        OBVIOUS
      <4>2. CASE j = n + 1
        BY <4>2, <2>2, <2>4
      <4>3. CASE j # n + 1
        BY <4>1, <4>3, <3>1, <2>4
      <4> QED
        BY <4>2, <4>3
    <3> QED
      BY <3>1, <3>2, <3>3, <2>4 DEF Awaiting
  <2>7. ASSUME ~s.clear_next PROVE Settled(g)
    <3>1. \A i \in 1..n : h[i].kind = "clear_output" => i <= LastClear(h)
      BY <2>7 DEF Follows, Settled
    <3>2. \A i \in 1..(n + 1) : g[i].kind = "clear_output" => i <= LastClear(g)
      <4> TAKE i \in 1..(n + 1)
      <4>1. i = n + 1 \/ i \in 1..n
        OBVIOUS
      <4>2. CASE i = n + 1
        BY <4>2, <1>4, <2>4
      <4>3. CASE i \in 1..n
        BY <4>3, <2>3, <2>4, <3>1
      <4> QED
        BY <4>1, <4>2, <4>3
    <3> QED
      BY <3>2, <2>4 DEF Settled
  <2> QED
    BY <2>1, <2>2, <2>3, <2>5, <2>6, <2>7, <1>4, FollowsKept
<1> QED
  BY <1>1, <1>2, <1>3, <1>4

-----------------------------------------------------------------------------
(* Outputs written to a file and read again. *)

Written(outs) == [i \in DOMAIN outs |-> output_nb(outs[i])]

LEMMA EncodedBack ==
  ASSUME NEW o \in OutputRec
  PROVE  output_nb(o) \in OutputRec /\ Encoded(output_nb(o)) = o
<1>1. o.kind \in OutputKind /\ o.name \in STRING /\ o.text \in Seq(Nat) /\ o.layers \in Int
      /\ o = [kind |-> o.kind, name |-> o.name, text |-> o.text, layers |-> o.layers]
  BY DEF OutputRec
<1>2. CASE o.name = SVG
  <2> PICK l : l = o.layers - 1
    OBVIOUS
  <2> PICK p : p = [kind |-> o.kind, name |-> o.name, text |-> o.text, layers |-> l]
    OBVIOUS
  <2>1. output_nb(o) = p
    BY <1>1, <1>2 DEF output_nb
  <2>2. p \in OutputRec /\ p.name = SVG /\ p.layers + 1 = o.layers
    BY <1>1, <1>2 DEF OutputRec
  <2>3. Encoded(p) = [kind |-> p.kind, name |-> p.name, text |-> p.text, layers |-> p.layers + 1]
    BY <2>2 DEF Encoded
  <2>4. Encoded(p) = o
    BY <2>2, <2>3, <1>1
  <2> QED
    BY <2>1, <2>2, <2>4
<1>3. CASE o.name # SVG
  BY <1>3 DEF output_nb, Encoded
<1> QED
  BY <1>2, <1>3

LEMMA WrittenTyped ==
  ASSUME NEW outs \in Seq(OutputRec)
  PROVE  /\ Written(outs) \in Seq(OutputRec) /\ Len(Written(outs)) = Len(outs)
         /\ \A i \in 1..Len(outs) : Encoded(Written(outs)[i]) = outs[i]
<1> PICK n \in Nat : n = Len(outs)
  OBVIOUS
<1>1. \A i \in 1..n : outs[i] \in OutputRec
  OBVIOUS
<1>2. Written(outs) = [i \in 1..n |-> output_nb(outs[i])]
  BY DEF Written
<1>3. Written(outs) \in [1..n -> OutputRec]
  BY <1>1, <1>2, EncodedBack
<1>4. \A i \in 1..n : Written(outs)[i] = output_nb(outs[i])
  BY <1>2
<1>5. \A i \in 1..n : Encoded(Written(outs)[i]) = outs[i]
  BY <1>1, <1>4, EncodedBack
<1> QED
  BY <1>3, <1>5

\* The states reading goes through.
FirstOf(outs, k) ==
  [outputs |-> SubSeq(outs, 1, k), ids |-> [i \in 1..k |-> NoId], clear_next |-> FALSE]

LEMMA FirstStep ==
  ASSUME NEW outs \in Seq(OutputRec), Joined(outs), NEW k \in 1..Len(outs)
  PROVE  Push(FirstOf(outs, k - 1), outs[k], NoId) = FirstOf(outs, k)
<1> PICK j \in Nat : j = k - 1
  OBVIOUS
<1> PICK s : s = SubSeq(outs, 1, j)
  OBVIOUS
<1> PICK x : x = [i \in 1..j |-> NoId]
  OBVIOUS
<1> PICK u : u = FirstOf(outs, k - 1)
  OBVIOUS
<1> PICK o : o = outs[k]
  OBVIOUS
<1>1. u.outputs = s /\ u.ids = x
  BY DEF FirstOf
<1>2. s \in Seq(OutputRec) /\ Len(s) = j /\ \A i \in 1..j : s[i] = outs[i]
  OBVIOUS
<1>3. ~Continues(u, o)
  <2> SUFFICES ASSUME outs[k].kind = "stream", s # <<>>, Last(s).kind = "stream", Last(s).name = outs[k].name
               PROVE  FALSE
    BY <1>1 DEF Continues
  <2>1. j # 0 /\ Last(s) = outs[j]
    BY <1>2 DEF Last
  <2>2. j \in 1..(Len(outs) - 1) /\ j + 1 = k
    BY <2>1
  <2> QED
    BY <2>1, <2>2 DEF Joined
<1>4. Push(u, o, NoId) = [outputs |-> Append(s, o), ids |-> Append(x, NoId), clear_next |-> FALSE]
  BY <1>1, <1>3 DEF Push
<1>5. Append(s, outs[k]) = SubSeq(outs, 1, k)
  <2> PICK v : v = Append(s, outs[k])
    OBVIOUS
  <2> PICK w : w = SubSeq(outs, 1, k)
    OBVIOUS
  <2>1. outs[k] \in OutputRec
    OBVIOUS
  <2>2. v \in Seq(OutputRec) /\ Len(v) = k /\ \A i \in 1..k : v[i] = outs[i]
    <3>1. v \in Seq(OutputRec) /\ Len(v) = j + 1 /\ v[j + 1] = outs[k] /\ \A i \in 1..j : v[i] = s[i]
      BY <1>2, <2>1, AppendProperties
    <3>2. \A i \in 1..k : i = k \/ i \in 1..j
      OBVIOUS
    <3> QED
      BY <3>1, <3>2, <1>2
  <2>3. w \in Seq(OutputRec) /\ Len(w) = k /\ \A i \in 1..k : w[i] = outs[i]
    OBVIOUS
  <2> QED
    BY <2>2, <2>3, SeqEqual
<1>6. Append(x, NoId) = [i \in 1..k |-> NoId]
  <2>1. x \in Seq({NoId}) /\ Len(x) = j /\ \A i \in 1..j : x[i] = NoId
    OBVIOUS
  <2> PICK v : v = Append(x, NoId)
    OBVIOUS
  <2> PICK w : w = [i \in 1..k |-> NoId]
    OBVIOUS
  <2>2. v \in Seq({NoId}) /\ Len(v) = k
    BY <2>1, AppendProperties
  <2>3. w \in Seq({NoId}) /\ Len(w) = k
    OBVIOUS
  <2>4. \A i \in 1..k : v[i] \in {NoId} /\ w[i] \in {NoId}
    BY <2>2, <2>3
  <2>5. \A i \in 1..k : v[i] = w[i]
    BY <2>4
  <2> QED
    BY <2>2, <2>3, <2>5, SeqEqual
<1> QED
  BY <1>4, <1>5, <1>6 DEF FirstOf

LEMMA WrittenReadBack ==
  ASSUME NEW outs \in Seq(OutputRec), Joined(outs)
  PROVE  ReadBack(Written(outs)) = outs
<1> PICK n \in Nat : n = Len(outs)
  OBVIOUS
<1> PICK stored : stored = Written(outs)
  OBVIOUS
<1>1. Len(stored) = n /\ \A i \in 1..n : Encoded(stored[i]) = outs[i]
  BY WrittenTyped
<1> DEFINE Eq(g) == g = [k \in 0..Len(stored) |->
                          IF k = 0 THEN Empty ELSE Push(g[k - 1], Encoded(stored[k]), NoId)]
           read == CHOOSE g : Eq(g)
           f == [k \in 0..n |-> FirstOf(outs, k)]
<1>2. FirstOf(outs, 0) = Empty
  <2>1. SubSeq(outs, 1, 0) = <<>> /\ [i \in 1..0 |-> NoId] = <<>>
    OBVIOUS
  <2> QED
    BY <2>1 DEF FirstOf, Empty
<1>3. \A k \in 1..n : FirstOf(outs, k) = Push(FirstOf(outs, k - 1), Encoded(stored[k]), NoId)
  BY <1>1, FirstStep
<1>4. Eq(f)
  <2>1. \A k \in 0..n : f[k] = IF k = 0 THEN Empty ELSE Push(f[k - 1], Encoded(stored[k]), NoId)
    <3> TAKE k \in 0..n
    <3>1. CASE k = 0
      BY <3>1, <1>2
    <3>2. CASE k # 0
      <4>1. k \in 1..n /\ k - 1 \in 0..n
        BY <3>2
      <4>2. f[k] = FirstOf(outs, k) /\ f[k - 1] = FirstOf(outs, k - 1)
        BY <4>1
      <4> HIDE DEF f
      <4> QED
        BY <4>1, <4>2, <1>3, <3>2
    <3> QED
      BY <3>1, <3>2
  <2>2. f = [k \in 0..n |-> f[k]]
    OBVIOUS
  <2> HIDE DEF f
  <2>3. f = [k \in 0..n |-> IF k = 0 THEN Empty ELSE Push(f[k - 1], Encoded(stored[k]), NoId)]
    BY <2>1, <2>2
  <2> QED
    BY <2>3, <1>1
<1>5. f[n] = FirstOf(outs, n)
  OBVIOUS
<1> HIDE DEF f, Eq
<1>6. Eq(read)
  BY <1>4
<1>7. ReadBack(stored) = read[n].outputs
  BY <1>1 DEF ReadBack, read, Eq
<1> HIDE DEF read
<1>8. \A k \in 0..n : read[k] = IF k = 0 THEN Empty ELSE Push(read[k - 1], Encoded(stored[k]), NoId)
  BY <1>1, <1>6 DEF Eq
<1>9. \A k \in 0..n : f[k] = FirstOf(outs, k)
  BY DEF f
<1> DEFINE A == {k \in Nat : k <= n => read[k] = FirstOf(outs, k)}
<1>10. 0 \in A
  BY <1>2, <1>8
<1>11. ASSUME NEW k \in Nat, k \in A PROVE k + 1 \in A
  <2> SUFFICES ASSUME k + 1 <= n PROVE read[k + 1] = FirstOf(outs, k + 1)
    OBVIOUS
  <2>1. k + 1 \in 1..n /\ k + 1 \in 0..n /\ k + 1 # 0 /\ (k + 1) - 1 = k
    OBVIOUS
  <2>2. read[k + 1] = Push(read[k], Encoded(stored[k + 1]), NoId)
    BY <2>1, <1>8
  <2>3. FirstOf(outs, k + 1) = Push(FirstOf(outs, k), Encoded(stored[k + 1]), NoId)
    BY <2>1, <1>3
  <2>4. read[k] = FirstOf(outs, k)
    BY <1>11
  <2> QED
    BY <2>2, <2>3, <2>4
<1> HIDE DEF A
<1>12. n \in A
  BY <1>10, <1>11, Induction
<1>13. read[n] = FirstOf(outs, n)
  BY <1>12 DEF A
<1>14. FirstOf(outs, n).outputs = outs
  <2>1. SubSeq(outs, 1, n) = outs
    <3> PICK w : w = SubSeq(outs, 1, n)
      OBVIOUS
    <3>1. w \in Seq(OutputRec) /\ Len(w) = n /\ \A i \in 1..n : w[i] = outs[i]
      OBVIOUS
    <3> QED
      BY <3>1, SeqEqual
  <2> QED
    BY <2>1 DEF FirstOf
<1> QED
  BY <1>7, <1>13, <1>14

LEMMA EmptyFits == Fits(Empty.outputs)
<1> PICK f : f = [k \in DOMAIN Empty.outputs |-> Empty.outputs[k].text]
  OBVIOUS
<1>1. Empty.outputs = <<>>
  BY DEF Empty
<1>2. f = <<>> /\ Len(f) = 0 /\ Len(Empty.outputs) = 0
  BY <1>1
<1>3. Bytes(Empty.outputs) = Len(FlattenSeq(f))
  BY DEF Bytes
<1>4. FlattenSeq(f) = f
  BY <1>2 DEF FlattenSeq
<1> QED
  BY <1>2, <1>3, <1>4, LimitsAssumption DEF Fits

-----------------------------------------------------------------------------
(* What waits on the channel of the outputs. *)

OursEvent(m) == m.parent = Ours /\ m.kind = "event"
OursIdle(m) == m.parent = Ours /\ m.kind = "idle"
Messages ==
  {m \in [parent : {Ours, Foreign}, kind : {"execute_input", "event", "idle"},
          event : Events \cup {Empty, OtherText}] : OursEvent(m) => m.event \in Events}
Numbered(p) == p \in History /\ \A i \in 1..Len(p) : p[i].at = i

\* The channel has all that was produced after the first t messages, in order,
\* and the idle status after all of it.
Queued(q, p, t) ==
  /\ \A i \in 1..Len(q) : OursEvent(q[i]) =>
       q[i].event.at \in (t + 1)..Len(p) /\ q[i].event = p[q[i].event.at]
  /\ \A n \in (t + 1)..Len(p) : \E i \in 1..Len(q) : OursEvent(q[i]) /\ q[i].event.at = n
  /\ \A i, j \in 1..Len(q) : i < j /\ OursEvent(q[i]) /\ OursEvent(q[j]) => q[i].event.at < q[j].event.at
  /\ \A i, j \in 1..Len(q) : OursIdle(q[i]) /\ OursEvent(q[j]) => j < i

LEMMA Tails ==
  ASSUME NEW S, NEW q \in Seq(S), q # <<>>
  PROVE  /\ Tail(q) \in Seq(S) /\ Len(Tail(q)) = Len(q) - 1 /\ Len(q) \in Nat \ {0}
         /\ Head(q) \in S /\ Head(q) = q[1]
         /\ \A i \in 1..(Len(q) - 1) : Tail(q)[i] = q[i + 1]
<1>1. Len(q) \in Nat \ {0}
  OBVIOUS
<1>2. Tail(q) \in Seq(S) /\ Len(Tail(q)) = Len(q) - 1
  BY <1>1
<1>3. Head(q) = q[1] /\ q[1] \in S
  BY <1>1
<1>4. \A i \in 1..(Len(q) - 1) : Tail(q)[i] = q[i + 1]
  BY <1>1, <1>2
<1> QED
  BY <1>1, <1>2, <1>3, <1>4

LEMMA QueuedOther ==
  ASSUME NEW q \in Seq(Messages), NEW p, Numbered(p), NEW t \in 0..Len(p), Queued(q, p, t),
         NEW m \in Messages, ~OursEvent(m)
  PROVE  Queued(Append(q, m), p, t)
<1> PICK k \in Nat : k = Len(q)
  OBVIOUS
<1> PICK w : w = Append(q, m)
  OBVIOUS
<1>1. w \in Seq(Messages) /\ Len(w) = k + 1 /\ w[k + 1] = m /\ \A i \in 1..k : w[i] = q[i]
  BY AppendProperties
<1>2. \A i \in 1..(k + 1) : OursEvent(w[i]) => i \in 1..k /\ w[i] = q[i]
  <2> TAKE i \in 1..(k + 1)
  <2> HAVE OursEvent(w[i])
  <2>1. i # k + 1
    BY <1>1
  <2>2. i \in 1..k
    BY <2>1
  <2> QED
    BY <2>2, <1>1
<1>3. \A i \in 1..Len(w) : OursEvent(w[i]) =>
        w[i].event.at \in (t + 1)..Len(p) /\ w[i].event = p[w[i].event.at]
  BY <1>1, <1>2 DEF Queued
<1>4. \A n \in (t + 1)..Len(p) : \E i \in 1..Len(w) : OursEvent(w[i]) /\ w[i].event.at = n
  <2> TAKE n \in (t + 1)..Len(p)
  <2>1. PICK i \in 1..k : OursEvent(q[i]) /\ q[i].event.at = n
    BY DEF Queued
  <2>2. i \in 1..Len(w) /\ w[i] = q[i]
    BY <1>1
  <2> QED
    BY <2>1, <2>2
<1>5. \A i, j \in 1..Len(w) : i < j /\ OursEvent(w[i]) /\ OursEvent(w[j]) => w[i].event.at < w[j].event.at
  <2> TAKE i, j \in 1..Len(w)
  <2> HAVE i < j /\ OursEvent(w[i]) /\ OursEvent(w[j])
  <2>1. i \in 1..k /\ w[i] = q[i] /\ j \in 1..k /\ w[j] = q[j]
    BY <1>1, <1>2
  <2> QED
    BY <2>1 DEF Queued
<1>6. \A i, j \in 1..Len(w) : OursIdle(w[i]) /\ OursEvent(w[j]) => j < i
  <2> TAKE i, j \in 1..Len(w)
  <2> HAVE OursIdle(w[i]) /\ OursEvent(w[j])
  <2>1. j \in 1..k /\ w[j] = q[j]
    BY <1>1, <1>2
  <2>2. CASE i = k + 1
    BY <2>1, <2>2
  <2>3. CASE i # k + 1
    <3>1. i \in 1..k /\ w[i] = q[i]
      BY <2>3, <1>1
    <3> QED
      BY <2>1, <3>1 DEF Queued
  <2> QED
    BY <2>2, <2>3
<1> QED
  BY <1>3, <1>4, <1>5, <1>6 DEF Queued

LEMMA QueuedEvent ==
  ASSUME NEW q \in Seq(Messages), NEW p, Numbered(p), NEW t \in 0..Len(p), Queued(q, p, t),
         NEW m \in Messages, OursEvent(m), m.event.at = Len(p) + 1,
         \A i \in 1..Len(q) : ~OursIdle(q[i])
  PROVE  Queued(Append(q, m), Append(p, m.event), t)
<1> PICK k \in Nat : k = Len(q)
  OBVIOUS
<1> PICK l \in Nat : l = Len(p)
  BY DEF Numbered, History
<1> PICK w : w = Append(q, m)
  OBVIOUS
<1> PICK r : r = Append(p, m.event)
  OBVIOUS
<1>1. w \in Seq(Messages) /\ Len(w) = k + 1 /\ w[k + 1] = m /\ \A i \in 1..k : w[i] = q[i]
  BY AppendProperties
<1>2. Len(r) = l + 1 /\ r[l + 1] = m.event /\ \A i \in 1..l : r[i] = p[i]
  <2>1. p \in History /\ m.event \in Events
    BY DEF Numbered, Messages
  <2> QED
    BY <2>1, OneMore
<1>3. \A i \in 1..k : OursEvent(q[i]) => q[i].event.at \in (t + 1)..l /\ q[i].event = p[q[i].event.at]
  BY DEF Queued
<1>4. \A i \in 1..(k + 1) : i = k + 1 \/ i \in 1..k
  OBVIOUS
<1>5. \A i \in 1..Len(w) : OursEvent(w[i]) =>
        w[i].event.at \in (t + 1)..Len(r) /\ w[i].event = r[w[i].event.at]
  <2> TAKE i \in 1..Len(w)
  <2> HAVE OursEvent(w[i])
  <2>1. CASE i = k + 1
    <3>1. m.event.at = l + 1 /\ l + 1 \in (t + 1)..(l + 1)
      OBVIOUS
    <3> QED
      BY <2>1, <3>1, <1>1, <1>2
  <2>2. CASE i \in 1..k
    <3>1. w[i] = q[i]
      BY <2>2, <1>1
    <3> PICK a \in (t + 1)..l : a = q[i].event.at
      BY <2>2, <3>1, <1>3
    <3>2. a \in 1..l /\ a \in (t + 1)..(l + 1) /\ q[i].event = p[a]
      BY <2>2, <3>1, <1>3
    <3> QED
      BY <3>1, <3>2, <1>2
  <2> QED
    BY <2>1, <2>2, <1>1, <1>4
<1>6. \A n \in (t + 1)..Len(r) : \E i \in 1..Len(w) : OursEvent(w[i]) /\ w[i].event.at = n
  <2> TAKE n \in (t + 1)..Len(r)
  <2>1. CASE n = l + 1
    <3>1. k + 1 \in 1..Len(w)
      BY <1>1
    <3> QED
      BY <2>1, <3>1, <1>1
  <2>2. CASE n # l + 1
    <3>1. n \in (t + 1)..l
      BY <2>2, <1>2
    <3>2. PICK i \in 1..k : OursEvent(q[i]) /\ q[i].event.at = n
      BY <3>1 DEF Queued
    <3>3. i \in 1..Len(w) /\ w[i] = q[i]
      BY <1>1
    <3> QED
      BY <3>2, <3>3
  <2> QED
    BY <2>1, <2>2
<1>7. \A i, j \in 1..Len(w) : i < j /\ OursEvent(w[i]) /\ OursEvent(w[j]) => w[i].event.at < w[j].event.at
  <2> TAKE i, j \in 1..Len(w)
  <2> HAVE i < j /\ OursEvent(w[i]) /\ OursEvent(w[j])
  <2>1. i \in 1..k /\ w[i] = q[i]
    BY <1>1
  <2> PICK a \in (t + 1)..l : a = q[i].event.at
    BY <2>1, <1>3
  <2>2. CASE j = k + 1
    <3>1. w[j].event.at = l + 1
      BY <2>2, <1>1
    <3> QED
      BY <2>1, <3>1
  <2>3. CASE j \in 1..k
    <3>1. w[j] = q[j]
      BY <2>3, <1>1
    <3> QED
      BY <2>1, <2>3, <3>1 DEF Queued
  <2> QED
    BY <2>2, <2>3, <1>1, <1>4
<1>8. \A i \in 1..Len(w) : ~OursIdle(w[i])
  <2> TAKE i \in 1..Len(w)
  <2>1. CASE i = k + 1
    BY <2>1, <1>1 DEF OursEvent, OursIdle
  <2>2. CASE i \in 1..k
    BY <2>2, <1>1
  <2> QED
    BY <2>1, <2>2, <1>1, <1>4
<1> QED
  BY <1>5, <1>6, <1>7, <1>8 DEF Queued

LEMMA QueuedTail ==
  ASSUME NEW q \in Seq(Messages), q # <<>>, NEW p, Numbered(p), NEW t \in 0..Len(p), Queued(q, p, t)
  PROVE  /\ OursEvent(Head(q)) => /\ t + 1 \in 1..Len(p) /\ Head(q).event = p[t + 1]
                                  /\ Queued(Tail(q), p, t + 1)
         /\ ~OursEvent(Head(q)) => Queued(Tail(q), p, t)
         /\ OursIdle(Head(q)) => t = Len(p)
<1> PICK k \in Nat : k = Len(q) - 1
  BY Tails
<1> PICK l \in Nat : l = Len(p)
  BY DEF Numbered, History
<1> PICK w : w = Tail(q)
  OBVIOUS
<1>1. w \in Seq(Messages) /\ Len(w) = k /\ Len(q) = k + 1 /\ Head(q) = q[1] /\ 1 \in 1..(k + 1)
      /\ \A i \in 1..k : w[i] = q[i + 1] /\ i + 1 \in 1..(k + 1)
  BY Tails
<1>2. \A i \in 1..(k + 1) : OursEvent(q[i]) => q[i].event.at \in (t + 1)..l /\ q[i].event = p[q[i].event.at]
  BY <1>1 DEF Queued
<1>3. \A n \in (t + 1)..l : \E i \in 1..(k + 1) : OursEvent(q[i]) /\ q[i].event.at = n
  BY <1>1 DEF Queued
<1>4. \A i, j \in 1..(k + 1) : i < j /\ OursEvent(q[i]) /\ OursEvent(q[j]) => q[i].event.at < q[j].event.at
  BY <1>1 DEF Queued
<1>5. \A i, j \in 1..(k + 1) : OursIdle(q[i]) /\ OursEvent(q[j]) => j < i
  BY <1>1 DEF Queued
<1>6. \A i, j \in 1..k : i < j /\ OursEvent(w[i]) /\ OursEvent(w[j]) => w[i].event.at < w[j].event.at
  <2> TAKE i, j \in 1..k
  <2> HAVE i < j /\ OursEvent(w[i]) /\ OursEvent(w[j])
  <2>1. w[i] = q[i + 1] /\ w[j] = q[j + 1] /\ i + 1 \in 1..(k + 1) /\ j + 1 \in 1..(k + 1) /\ i + 1 < j + 1
    BY <1>1
  <2> QED
    BY <2>1, <1>4
<1>7. \A i, j \in 1..k : OursIdle(w[i]) /\ OursEvent(w[j]) => j < i
  <2> TAKE i, j \in 1..k
  <2> HAVE OursIdle(w[i]) /\ OursEvent(w[j])
  <2>1. w[i] = q[i + 1] /\ w[j] = q[j + 1] /\ i + 1 \in 1..(k + 1) /\ j + 1 \in 1..(k + 1)
    BY <1>1
  <2>2. j + 1 < i + 1
    BY <2>1, <1>5
  <2> QED
    BY <2>2
<1>8. ASSUME OursEvent(q[1]) PROVE t + 1 \in 1..l /\ q[1].event = p[t + 1] /\ q[1].event.at = t + 1 /\ Queued(w, p, t + 1)
  <2> PICK a \in (t + 1)..l : a = q[1].event.at
    BY <1>1, <1>2, <1>8
  <2>1. t + 1 \in (t + 1)..l /\ t + 1 \in 1..l
    OBVIOUS
  <2>2. PICK i \in 1..(k + 1) : OursEvent(q[i]) /\ q[i].event.at = t + 1
    BY <2>1, <1>3
  <2>3. a = t + 1
    <3>1. CASE i = 1
      BY <3>1, <2>2
    <3>2. CASE i # 1
      <4>1. 1 < i
        BY <3>2
      <4>2. q[1].event.at < q[i].event.at
        BY <4>1, <2>2, <1>1, <1>4, <1>8
      <4> QED
        BY <4>2, <2>2
    <3> QED
      BY <3>1, <3>2
  <2>4. q[1].event = p[t + 1]
    BY <2>3, <1>1, <1>2, <1>8
  <2>5. \A j \in 1..k : OursEvent(w[j]) => w[j].event.at \in ((t + 1) + 1)..l /\ w[j].event = p[w[j].event.at]
    <3> TAKE j \in 1..k
    <3> HAVE OursEvent(w[j])
    <3>1. w[j] = q[j + 1] /\ j + 1 \in 1..(k + 1) /\ 1 < j + 1
      BY <1>1
    <3> PICK b \in (t + 1)..l : b = q[j + 1].event.at
      BY <3>1, <1>2
    <3>2. q[1].event.at < q[j + 1].event.at
      BY <3>1, <1>1, <1>4, <1>8
    <3>3. b \in ((t + 1) + 1)..l
      BY <2>3, <3>2
    <3>4. q[j + 1].event = p[b]
      BY <3>1, <1>2
    <3> QED
      BY <3>1, <3>3, <3>4
  <2>6. \A n \in ((t + 1) + 1)..l : \E j \in 1..k : OursEvent(w[j]) /\ w[j].event.at = n
    <3> TAKE n \in ((t + 1) + 1)..l
    <3>1. n \in (t + 1)..l /\ n # t + 1
      OBVIOUS
    <3>2. PICK j \in 1..(k + 1) : OursEvent(q[j]) /\ q[j].event.at = n
      BY <3>1, <1>3
    <3>3. j # 1
      BY <3>1, <3>2, <2>3
    <3> PICK x \in 1..k : x = j - 1
      BY <3>3
    <3>4. w[x] = q[j]
      <4>1. x + 1 = j
        OBVIOUS
      <4> QED
        BY <4>1, <1>1
    <3> QED
      BY <3>2, <3>4
  <2> QED
    BY <2>1, <2>3, <2>4, <2>5, <2>6, <1>1, <1>6, <1>7 DEF Queued
<1>9. ASSUME ~OursEvent(q[1]) PROVE Queued(w, p, t)
  <2>1. \A j \in 1..k : OursEvent(w[j]) => w[j].event.at \in (t + 1)..l /\ w[j].event = p[w[j].event.at]
    BY <1>1, <1>2
  <2>2. \A n \in (t + 1)..l : \E j \in 1..k : OursEvent(w[j]) /\ w[j].event.at = n
    <3> TAKE n \in (t + 1)..l
    <3>2. PICK j \in 1..(k + 1) : OursEvent(q[j]) /\ q[j].event.at = n
      BY <1>3
    <3>3. j # 1
      BY <3>2, <1>9
    <3> PICK x \in 1..k : x = j - 1
      BY <3>3
    <3>4. w[x] = q[j]
      <4>1. x + 1 = j
        OBVIOUS
      <4> QED
        BY <4>1, <1>1
    <3> QED
      BY <3>2, <3>4
  <2> QED
    BY <2>1, <2>2, <1>1, <1>6, <1>7 DEF Queued
<1>10. ASSUME OursIdle(q[1]) PROVE t = l
  <2> SUFFICES ASSUME t # l PROVE FALSE
    OBVIOUS
  <2>1. t + 1 \in (t + 1)..l
    OBVIOUS
  <2>2. PICK i \in 1..(k + 1) : OursEvent(q[i])
    BY <2>1, <1>3
  <2>3. i < 1
    BY <2>2, <1>1, <1>5, <1>10
  <2> QED
    BY <2>3
<1> QED
  BY <1>1, <1>8, <1>9, <1>10

-----------------------------------------------------------------------------
(* The invariant of an execution. *)

Counts == {"old", "none", "new"}
CellRec == [outputs : Seq(OutputRec) \cup {Stale.outputs}, count : Counts]
Replies == {Message(Ours, "execute_reply")}
Kernels == [state : {"ready", "sent", "running", "replied", "ended"}, foreign : Nat]

Typed ==
  /\ kernel \in Kernels /\ Numbered(produced)
  /\ iopub \in Seq(Messages) /\ shell \in Seq(Replies)
  /\ exec \in {"ready", "running", "done", "failed"}
  /\ replied \in BOOLEAN /\ idle \in BOOLEAN /\ interrupted \in BOOLEAN
  /\ raw \in CellRec /\ file \in CellRec /\ room.count \in Counts

\* The applied messages make the outputs.
Reduced ==
  /\ accepted \in History /\ Len(accepted) <= Len(produced)
  /\ Follows(outputs, accepted) /\ Fits(outputs.outputs)

\* The first n messages, and a cell they make.
First(p, n) == SubSeq(p, 1, n)
Writes(cell, p, n) == \E s : Follows(s, First(p, n)) /\ cell.outputs = Written(s.outputs)
Saved == file = Stale \/ \E n \in 0..Len(produced) : Writes(file, produced, n)

Untouched ==
  exec = "ready" =>
    /\ kernel.state = "ready" /\ produced = <<>> /\ outputs = Empty
    /\ ~replied /\ ~idle /\ file = Stale

\* While the socket is open, the outputs are those of the first messages and
\* the others are on the channel.
Delivers(t) ==
  /\ t \in 0..Len(produced) /\ Len(accepted) <= t
  /\ Follows(outputs, First(produced, t)) /\ Queued(iopub, produced, t)
  /\ idle => t = Len(produced)
Delivered == exec # "failed" => \E t : Delivers(t)

\* The idle status is the kernel's last word.
Idled ==
  /\ \A i \in 1..Len(iopub) : OursIdle(iopub[i]) => kernel.state = "ended"
  /\ idle => kernel.state = "ended"

Kept ==
  /\ exec = "running" => raw.outputs = Written(outputs.outputs) /\ (replied => raw.count = "new")
  /\ exec \in {"running", "done"} => room.outputs = outputs.outputs
  /\ exec = "done" => /\ idle /\ file.outputs = Written(outputs.outputs)
                      /\ file.count = "new" /\ room = Cells(file)

ExecInv == Typed /\ Reduced /\ Saved /\ Untouched /\ Delivered /\ Idled /\ Kept

LEMMA CellsOf ==
  ASSUME NEW cell \in CellRec
  PROVE  /\ Cells(cell).outputs = ReadBack(cell.outputs) /\ Cells(cell).count = cell.count
         /\ Cells(cell).count \in Counts
<1>1. cell = [outputs |-> cell.outputs, count |-> cell.count] /\ cell.count \in Counts
  BY DEF CellRec
<1> PICK r : r = ReadBack(cell.outputs)
  OBVIOUS
<1>2. Cells(cell) = [outputs |-> r, count |-> cell.count]
  BY <1>1 DEF Cells
<1> QED
  BY <1>1, <1>2

LEMMA PrefixTyped ==
  ASSUME NEW p \in History, NEW n \in 0..Len(p)
  PROVE  First(p, n) \in History /\ First(p, Len(p)) = p
<1>1. p \in Seq(Events) /\ n \in Nat /\ Len(p) \in Nat
  BY DEF History
<1>2. SubSeq(p, 1, n) \in Seq(Events)
  BY <1>1
<1> PICK w : w = SubSeq(p, 1, Len(p))
  OBVIOUS
<1>3. w \in Seq(Events) /\ Len(w) = Len(p) /\ \A i \in 1..Len(p) : w[i] = p[i]
  BY <1>1
<1>4. w = p
  BY <1>3, <1>1, SeqEqual
<1>5. First(p, n) \in History
  BY <1>2 DEF First, History
<1>6. First(p, Len(p)) = w
  BY DEF First
<1>7. First(p, Len(p)) = p
  BY ONLY <1>4, <1>6
<1> QED
  BY <1>5, <1>7

LEMMA PrefixNext ==
  ASSUME NEW p \in History, NEW n \in Nat, n + 1 \in 1..Len(p)
  PROVE  First(p, n + 1) = Append(First(p, n), p[n + 1])
<1>1. p \in Seq(Events) /\ Len(p) \in Nat
  BY DEF History
<1> PICK s : s = SubSeq(p, 1, n)
  OBVIOUS
<1>2. s \in Seq(Events) /\ Len(s) = n /\ \A i \in 1..n : s[i] = p[i]
  BY <1>1
<1> PICK k \in Nat : k = n + 1
  OBVIOUS
<1> PICK w : w = SubSeq(p, 1, k)
  OBVIOUS
<1> PICK v : v = Append(s, p[k])
  OBVIOUS
<1>3. w \in Seq(Events) /\ Len(w) = k /\ \A i \in 1..k : w[i] = p[i]
  BY <1>1
<1>4. p[k] \in Events
  BY <1>1
<1>5. v \in Seq(Events) /\ Len(v) = k /\ v[k] = p[k] /\ \A i \in 1..n : v[i] = s[i]
  BY <1>2, <1>4, AppendProperties
<1>6. \A i \in 1..k : v[i] = w[i]
  <2> TAKE i \in 1..k
  <2>1. i = k \/ i \in 1..n
    OBVIOUS
  <2> QED
    BY <2>1, <1>2, <1>3, <1>5
<1>7. v = w
  BY <1>3, <1>5, <1>6, SeqEqual
<1>8. First(p, k) = w /\ First(p, n) = s
  BY DEF First
<1> QED
  BY <1>7, <1>8

LEMMA PrefixKept ==
  ASSUME NEW p \in History, NEW e \in Events, NEW n \in 0..Len(p)
  PROVE  First(Append(p, e), n) = First(p, n)
<1>1. p \in Seq(Events) /\ n \in Nat /\ Len(p) \in Nat
  BY DEF History
<1> PICK r : r = Append(p, e)
  OBVIOUS
<1>2. r \in Seq(Events) /\ Len(r) = Len(p) + 1 /\ \A i \in 1..Len(p) : r[i] = p[i]
  BY <1>1, AppendProperties
<1> PICK s : s = SubSeq(p, 1, n)
  OBVIOUS
<1>3. s \in Seq(Events) /\ Len(s) = n /\ \A i \in 1..n : s[i] = p[i]
  BY <1>1
<1> PICK w : w = SubSeq(r, 1, n)
  OBVIOUS
<1>4. w \in Seq(Events) /\ Len(w) = n /\ \A i \in 1..n : w[i] = r[i]
  BY <1>1, <1>2
<1>5. \A i \in 1..n : w[i] = s[i]
  <2> TAKE i \in 1..n
  <2>1. i \in 1..Len(p)
    OBVIOUS
  <2> QED
    BY <2>1, <1>2, <1>3, <1>4
<1>6. w = s
  BY <1>3, <1>4, <1>5, SeqEqual
<1> QED
  BY <1>6 DEF First

LEMMA BlankWritten ==
  /\ Blank \in CellRec /\ Stale \in CellRec
  /\ Blank.outputs = Written(Empty.outputs) /\ Cells(Blank).outputs = Empty.outputs
  /\ Blank.count \in Counts
<1>1. Blank.outputs = <<>> /\ Empty.outputs = <<>> /\ Blank = [outputs |-> <<>>, count |-> "none"]
  BY DEF Blank, Empty
<1>2. Blank \in CellRec
  BY <1>1 DEF CellRec, Counts
<1>3. Empty.outputs \in Seq(OutputRec) /\ Joined(Empty.outputs)
  BY FollowsEmpty DEF Follows, States
<1>4. Written(Empty.outputs) = <<>>
  <2>1. Written(Empty.outputs) \in Seq(OutputRec) /\ Len(Written(Empty.outputs)) = 0
    BY <1>1, <1>3, WrittenTyped
  <2> QED
    BY <2>1
<1>5. Cells(Blank).outputs = Empty.outputs
  BY <1>1, <1>2, <1>3, <1>4, CellsOf, WrittenReadBack
<1>6. Stale \in CellRec
  <2> PICK o : o = Stale.outputs
    OBVIOUS
  <2>1. Stale = [outputs |-> o, count |-> "old"]
    BY DEF Stale
  <2> QED
    BY <2>1 DEF CellRec, Counts
<1> QED
  BY <1>1, <1>2, <1>4, <1>5, <1>6 DEF CellRec

LEMMA ExecInit == Init => ExecInv
<1> SUFFICES ASSUME Init PROVE ExecInv
  OBVIOUS
<1>1. <<>> \in History /\ Len(<<>>) = 0 /\ First(<<>>, 0) = <<>>
  BY DEF History, First
<1>2. Numbered(<<>>)
  BY <1>1 DEF Numbered
<1>3. Typed
  <2>1. kernel \in Kernels
    BY DEF Init, Kernels
  <2>2. iopub \in Seq(Messages) /\ shell \in Seq(Replies)
    BY DEF Init
  <2>3. "old" \in Counts /\ Stale.count = "old"
    BY DEF Counts, Stale
  <2> QED
    BY <2>1, <2>2, <2>3, <1>2, BlankWritten DEF Init, Typed
<1>4. Reduced
  BY <1>1, FollowsEmpty, EmptyFits DEF Init, Reduced
<1>5. Delivers(0)
  <2>1. Queued(<<>>, <<>>, 0)
    BY <1>1 DEF Queued
  <2>2. /\ produced = <<>> /\ accepted = <<>> /\ iopub = <<>> /\ outputs = Empty /\ ~idle
    BY DEF Init
  <2>3. Follows(outputs, First(produced, 0))
    BY <2>2, <1>1, FollowsEmpty
  <2>4. 0 \in 0..Len(produced) /\ Len(accepted) <= 0
    BY <2>2, <1>1
  <2> QED
    BY <2>1, <2>2, <2>3, <2>4 DEF Delivers
<1>6. Delivered
  BY <1>5 DEF Delivered
<1>7. Idled
  BY <1>1 DEF Idled, Init
<1>8. Saved /\ Untouched /\ Kept
  BY <1>1 DEF Init, Saved, Untouched, Kept
<1> QED
  BY <1>3, <1>4, <1>6, <1>7, <1>8 DEF ExecInv

\* What the kernel publishes.
LEMMA PublishedKeeps ==
  ASSUME ExecInv, exec # "ready", UnchangedGateway, kernel' \in Kernels, shell' \in Seq(Replies),
         kernel.state = "ended" => kernel'.state = "ended",
         NEW m \in Messages,
         OursIdle(m) => kernel'.state = "ended",
         IF exec = "failed" THEN UNCHANGED iopub ELSE iopub' \in {iopub, Append(iopub, m)},
         \/ produced' = produced /\ ~OursEvent(m)
         \/ /\ OursEvent(m) /\ m.event.at = Len(produced) + 1 /\ produced' = Append(produced, m.event)
            /\ kernel.state # "ended" /\ (exec # "failed" => iopub' = Append(iopub, m))
  PROVE  ExecInv'
<1> USE DEF ExecInv
<1> PICK p \in History : p = produced
  BY DEF Typed, Numbered
<1> PICK l \in Nat : l = Len(p)
  BY DEF History
<1> PICK q \in Seq(Messages) : q = iopub
  BY DEF Typed
<1> PICK k \in Nat : k = Len(q)
  OBVIOUS
<1>1. /\ exec' = exec /\ replied' = replied /\ idle' = idle /\ outputs' = outputs /\ accepted' = accepted
      /\ raw' = raw /\ file' = file /\ room' = room /\ interrupted' = interrupted
  BY DEF UnchangedGateway
<1>2. Append(q, m) \in Seq(Messages) /\ Len(Append(q, m)) = k + 1 /\ Append(q, m)[k + 1] = m
      /\ \A i \in 1..k : Append(q, m)[i] = q[i]
  BY AppendProperties
<1>3. iopub' \in {q, Append(q, m)}
  OBVIOUS
<1>4. /\ Numbered(produced') /\ Len(produced') \in Nat /\ Len(p) <= Len(produced')
      /\ \A n \in 0..Len(p) : n \in 0..Len(produced') /\ First(produced', n) = First(p, n)
  <2>1. CASE produced' = produced
    BY <2>1 DEF Typed
  <2>2. CASE OursEvent(m) /\ m.event.at = l + 1 /\ produced' = Append(p, m.event)
    <3>1. m.event \in Events
      BY <2>2 DEF Messages
    <3>2. produced' \in History /\ Len(produced') = l + 1 /\ produced'[l + 1] = m.event
          /\ \A i \in 1..l : produced'[i] = p[i]
      BY <2>2, <3>1, OneMore
    <3>3. \A i \in 1..Len(produced') : produced'[i].at = i
      <4> TAKE i \in 1..Len(produced')
      <4>1. i = l + 1 \/ i \in 1..l
        BY <3>2
      <4> QED
        BY <4>1, <3>2, <2>2 DEF Typed, Numbered
    <3>4. \A n \in 0..Len(p) : First(produced', n) = First(p, n)
      <4> TAKE n \in 0..Len(p)
      <4>1. First(Append(p, m.event), n) = First(p, n)
        BY <3>1, PrefixKept
      <4> QED
        BY <4>1, <2>2
    <3> QED
      BY <3>2, <3>3, <3>4 DEF Numbered
  <2> QED
    BY <2>1, <2>2
<1>5. Typed'
  <2>1. iopub' \in Seq(Messages)
    BY <1>2, <1>3
  <2> QED
    BY <2>1, <1>1, <1>4 DEF Typed
<1>6. Reduced'
  <2>1. Len(accepted) <= Len(produced')
    <3>1. Len(accepted) \in Nat /\ Len(accepted) <= l
      BY DEF Reduced, History
    <3> QED
      BY <3>1, <1>4
  <2> QED
    BY <2>1, <1>1 DEF Reduced
<1>7. Saved'
  <2>1. CASE file = Stale
    BY <2>1, <1>1 DEF Saved
  <2>2. CASE file # Stale
    <3>1. PICK n \in 0..l : Writes(file, p, n)
      BY <2>2 DEF Saved
    <3>2. n \in 0..Len(produced') /\ Writes(file', produced', n)
      BY <3>1, <1>1, <1>4 DEF Writes
    <3> QED
      BY <3>2 DEF Saved
  <2> QED
    BY <2>1, <2>2
<1>8. Untouched'
  BY <1>1 DEF Untouched
<1>9. Idled'
  <2>1. \A i \in 1..k : OursIdle(q[i]) => kernel'.state = "ended"
    BY DEF Idled
  <2>2. \A i \in 1..Len(iopub') : OursIdle(iopub'[i]) => kernel'.state = "ended"
    <3>1. CASE iopub' = q
      BY <3>1, <2>1
    <3>2. CASE iopub' = Append(q, m)
      <4> TAKE i \in 1..Len(iopub')
      <4>1. i = k + 1 \/ i \in 1..k
        BY <3>2, <1>2
      <4> QED
        BY <4>1, <3>2, <2>1, <1>2
    <3> QED
      BY <3>1, <3>2, <1>3
  <2>3. idle' => kernel'.state = "ended"
    BY <1>1 DEF Idled
  <2> QED
    BY <2>2, <2>3 DEF Idled
<1>10. Delivered'
  <2> SUFFICES ASSUME exec # "failed" PROVE \E t : Delivers(t)'
    BY <1>1 DEF Delivered
  <2>1. PICK t : Delivers(t)
    BY DEF Delivered
  <2>2. t \in 0..l /\ Queued(q, p, t) /\ Numbered(p) /\ Follows(outputs, First(p, t)) /\ Len(accepted) <= t
    BY <2>1 DEF Delivers, Typed
  <2>3. Queued(iopub', produced', t)
    <3>1. CASE produced' = produced /\ ~OursEvent(m)
      <4>1. Queued(Append(q, m), p, t)
        BY <2>2, <3>1, QueuedOther
      <4> QED
        BY <4>1, <3>1, <2>2, <1>3
    <3>2. CASE /\ OursEvent(m) /\ m.event.at = l + 1 /\ produced' = Append(p, m.event)
               /\ kernel.state # "ended" /\ iopub' = Append(q, m)
      <4>1. \A i \in 1..Len(q) : ~OursIdle(q[i])
        BY <3>2 DEF Idled
      <4> QED
        BY <4>1, <3>2, <2>2, QueuedEvent
    <3> QED
      BY <3>1, <3>2
  <2>4. idle => t = Len(produced')
    <3>1. ASSUME idle PROVE produced' = produced
      BY <3>1 DEF Idled
    <3> QED
      BY <3>1, <2>1 DEF Delivers
  <2>5. t \in 0..Len(produced') /\ Follows(outputs, First(produced', t))
    BY <2>2, <1>4
  <2>6. Delivers(t)'
    BY <2>2, <2>3, <2>4, <2>5, <1>1 DEF Delivers
  <2> QED
    BY <2>6
<1>11. Kept'
  BY <1>1 DEF Kept, Cells
<1> QED
  BY <1>5, <1>6, <1>7, <1>8, <1>9, <1>10, <1>11

\* What the gateway makes of a message, and what it emits of it.
LEMMA HandledKeeps ==
  ASSUME ExecInv, exec = "running", kernel' = kernel, produced' = produced,
         iopub' \in Seq(Messages), shell' \in Seq(Replies),
         \A i \in 1..Len(iopub') : OursIdle(iopub'[i]) => kernel.state = "ended",
         replied' \in BOOLEAN, idle' \in BOOLEAN, interrupted' \in BOOLEAN,
         NEW t \in 0..Len(produced), Len(accepted') <= t, accepted' \in History,
         Follows(outputs', First(produced, t)), Queued(iopub', produced, t),
         idle' => t = Len(produced) /\ kernel.state = "ended",
         Follows(outputs', accepted'), Fits(outputs'.outputs),
         raw' \in CellRec, raw'.outputs = Written(outputs'.outputs), replied' => raw'.count = "new",
         \/ exec' = "running" /\ file' = file /\ room' = room /\ outputs' = outputs
         \/ exec' = "running" /\ file' = raw' /\ room' = Cells(raw')
         \/ exec' = "done" /\ idle' /\ replied' /\ file' = raw' /\ room' = Cells(raw')
         \/ exec' = "failed" /\ file' \in {file, raw'} /\ room' \in {room, Cells(raw')}
  PROVE  ExecInv'
<1>1. /\ raw \in CellRec /\ file \in CellRec /\ room.count \in Counts /\ produced \in History
      /\ Numbered(produced) /\ kernel \in Kernels
  BY DEF ExecInv, Typed, Numbered
<1>2. /\ Cells(raw').count \in Counts /\ Cells(raw').outputs = ReadBack(raw'.outputs)
  BY CellsOf
<1>3. Cells(raw').outputs = outputs'.outputs
  <2>1. outputs'.outputs \in Seq(OutputRec) /\ Joined(outputs'.outputs)
    BY DEF Follows, States
  <2> QED
    BY <2>1, <1>2, WrittenReadBack
<1>4. Typed'
  <2>1. exec' \in {"ready", "running", "done", "failed"}
    OBVIOUS
  <2>2. file' \in CellRec /\ room'.count \in Counts
    BY <1>1, <1>2
  <2> QED
    BY <2>1, <2>2, <1>1 DEF Typed
<1>5. Reduced'
  <2>1. Len(accepted') \in Nat /\ Len(produced) \in Nat
    BY <1>1 DEF History
  <2>2. Len(accepted') <= Len(produced)
    BY <2>1
  <2> QED
    BY <2>2 DEF Reduced
<1>6. Saved'
  <2>1. CASE file' = file
    BY <2>1 DEF ExecInv, Saved, Writes
  <2>2. CASE file' = raw'
    <3>1. Writes(file', produced', t)
      BY <2>2 DEF Writes
    <3> QED
      BY <3>1 DEF Saved
  <2> QED
    BY <2>1, <2>2
<1>7. Untouched' /\ Idled'
  <2>1. exec' # "ready"
    OBVIOUS
  <2>2. Untouched'
    BY <2>1 DEF Untouched
  <2>3. Idled'
    BY DEF Idled
  <2> QED
    BY <2>2, <2>3
<1>8. Delivers(t)'
  BY DEF Delivers
<1>9. Delivered'
  BY <1>8 DEF Delivered
<1>10. Kept'
  <2>1. CASE exec' = "running" /\ file' = file /\ room' = room /\ outputs' = outputs
    BY <2>1 DEF ExecInv, Kept
  <2>2. CASE exec' = "running" /\ file' = raw' /\ room' = Cells(raw')
    BY <2>2, <1>3 DEF Kept
  <2>3. CASE exec' = "done" /\ idle' /\ replied' /\ file' = raw' /\ room' = Cells(raw')
    <3>1. Cells(file)' = Cells(raw')
      BY <2>3 DEF Cells
    <3> QED
      BY <2>3, <3>1, <1>3 DEF Kept
  <2>4. CASE exec' = "failed"
    BY <2>4 DEF Kept
  <2> QED
    BY <2>1, <2>2, <2>3, <2>4
<1> QED
  BY <1>4, <1>5, <1>6, <1>7, <1>9, <1>10 DEF ExecInv

\* Nothing is received after a failure.
LEMMA FailedKeeps ==
  ASSUME ExecInv, exec' = "failed", kernel' = kernel, produced' = produced,
         iopub' \in Seq(Messages), shell' \in Seq(Replies),
         \A i \in 1..Len(iopub') : OursIdle(iopub'[i]) => kernel.state = "ended",
         UNCHANGED <<replied, idle, outputs, accepted, raw, file, room>>, interrupted' \in BOOLEAN
  PROVE  ExecInv'
<1> USE DEF ExecInv
<1>1. Typed'
  BY DEF Typed
<1>2. Reduced' /\ Untouched' /\ Delivered' /\ Kept'
  BY DEF Reduced, Untouched, Delivered, Kept
<1>3. Saved'
  BY DEF Saved, Writes
<1>4. Idled'
  BY DEF Idled
<1> QED
  BY <1>1, <1>2, <1>3, <1>4

LEMMA AbandonKeeps == ExecInv /\ Abandon => ExecInv'
<1> SUFFICES ASSUME ExecInv, Abandon PROVE ExecInv'
  OBVIOUS
<1>1. exec' = "failed" /\ interrupted' \in BOOLEAN
  BY DEF Abandon, Fails
<1>2. iopub \in Seq(Messages) /\ shell \in Seq(Replies)
  BY DEF ExecInv, Typed
<1>3. \A i \in 1..Len(iopub) : OursIdle(iopub[i]) => kernel.state = "ended"
  BY DEF ExecInv, Idled
<1>4. UNCHANGED <<kernel, produced, iopub, shell, replied, idle, outputs, accepted, raw, file, room>>
  BY DEF Abandon
<1> QED
  BY <1>1, <1>2, <1>3, <1>4, FailedKeeps

\* The outcomes of an emit.
LEMMA EmitRunning ==
  ASSUME exec = "running", emit(raw', Running), interrupted \in BOOLEAN
  PROVE  /\ interrupted' \in BOOLEAN
         /\ \/ exec' = "running" /\ file' = raw' /\ room' = Cells(raw')
            \/ exec' = "failed" /\ file' \in {file, raw'} /\ room' \in {room, Cells(raw')}
BY DEF emit, Running, Fails

LEMMA NotedOutcome ==
  ASSUME exec = "running", NEW r \in BOOLEAN, NEW i \in BOOLEAN, Noted(r, i), interrupted \in BOOLEAN
  PROVE  /\ interrupted' \in BOOLEAN /\ replied' = r /\ idle' = i
         /\ \/ exec' = "running" /\ file' = file /\ room' = room
            \/ exec' = "done" /\ r /\ i /\ file' = raw' /\ room' = Cells(raw')
            \/ exec' = "failed" /\ file' \in {file, raw'} /\ room' \in {room, Cells(raw')}
<1>1. CASE r /\ i
  BY <1>1 DEF Noted, emit, Finishes, Fails
<1>2. CASE ~(r /\ i)
  BY <1>2 DEF Noted, Running
<1> QED
  BY <1>1, <1>2

\* The facts about a running execution that its steps start from.
LEMMA RunningFacts ==
  ASSUME ExecInv, exec = "running"
  PROVE  /\ produced \in History /\ Numbered(produced) /\ Len(produced) \in Nat
         /\ iopub \in Seq(Messages) /\ shell \in Seq(Replies)
         /\ replied \in BOOLEAN /\ idle \in BOOLEAN /\ interrupted \in BOOLEAN
         /\ raw \in CellRec /\ raw.outputs = Written(outputs.outputs)
         /\ replied => raw.count = "new"
         /\ accepted \in History /\ Len(accepted) \in Nat
         /\ Follows(outputs, accepted) /\ Fits(outputs.outputs)
         /\ idle => kernel.state = "ended"
         /\ \A i \in 1..Len(iopub) : OursIdle(iopub[i]) => kernel.state = "ended"
         /\ \E t \in 0..Len(produced) : Delivers(t)
<1>1. PICK t : Delivers(t)
  BY DEF ExecInv, Delivered
<1>2. t \in 0..Len(produced)
  BY <1>1 DEF Delivers
<1>3. produced \in History /\ Numbered(produced) /\ accepted \in History
  BY DEF ExecInv, Typed, Numbered, Reduced
<1>4. Len(produced) \in Nat /\ Len(accepted) \in Nat
  BY <1>3 DEF History
<1>5. /\ iopub \in Seq(Messages) /\ shell \in Seq(Replies) /\ raw \in CellRec
      /\ replied \in BOOLEAN /\ idle \in BOOLEAN /\ interrupted \in BOOLEAN
  BY DEF ExecInv, Typed
<1>6. raw.outputs = Written(outputs.outputs) /\ (replied => raw.count = "new")
  BY DEF ExecInv, Kept
<1>7. Follows(outputs, accepted) /\ Fits(outputs.outputs)
  BY DEF ExecInv, Reduced
<1>8. (idle => kernel.state = "ended")
      /\ \A i \in 1..Len(iopub) : OursIdle(iopub[i]) => kernel.state = "ended"
  BY DEF ExecInv, Idled
<1> QED
  BY <1>1, <1>2, <1>3, <1>4, <1>5, <1>6, <1>7, <1>8

LEMMA Counted ==
  ASSUME NEW cell \in CellRec
  PROVE  LET c == [cell EXCEPT !.count = "new"] IN
         c \in CellRec /\ c.outputs = cell.outputs /\ c.count = "new"
<1>1. "new" \in Counts
  BY DEF Counts
<1> QED
  BY <1>1 DEF CellRec

LEMMA ReceiveShellKeeps == ExecInv /\ ReceiveShell => ExecInv'
<1> SUFFICES ASSUME ExecInv, ReceiveShell PROVE ExecInv'
  OBVIOUS
<1>1. exec = "running" /\ shell # <<>> /\ shell' = Tail(shell) /\ OnMessage(Head(shell))
      /\ UNCHANGED <<kernel, produced, iopub>>
  BY DEF ReceiveShell
<1> PICK m : m = Head(shell)
  OBVIOUS
<1>2. shell' \in Seq(Replies) /\ m \in Replies
  BY <1>1, RunningFacts, Tails
<1>3. m.parent = Ours /\ m.kind = "execute_reply"
  BY <1>2 DEF Replies, Message
<1>4. /\ raw' = [raw EXCEPT !.count = "new"] /\ UNCHANGED <<outputs, accepted>>
      /\ Noted(TRUE, idle)
  BY <1>1, <1>3 DEF OnMessage, Ignored
<1>5. raw' \in CellRec /\ raw'.outputs = raw.outputs /\ raw'.count = "new"
  BY <1>1, <1>4, RunningFacts, Counted
<1>6. PICK t \in 0..Len(produced) : Delivers(t)
  BY <1>1, RunningFacts
<1>7. /\ interrupted' \in BOOLEAN /\ replied' = TRUE /\ idle' = idle
      /\ \/ exec' = "running" /\ file' = file /\ room' = room
         \/ exec' = "done" /\ idle /\ file' = raw' /\ room' = Cells(raw')
         \/ exec' = "failed" /\ file' \in {file, raw'} /\ room' \in {room, Cells(raw')}
  <2>1. idle \in BOOLEAN /\ interrupted \in BOOLEAN /\ TRUE \in BOOLEAN
    BY <1>1, RunningFacts
  <2> QED
    BY <2>1, <1>1, <1>4, NotedOutcome
<1>8. /\ Len(accepted') <= t /\ accepted' \in History /\ Follows(outputs', First(produced, t))
      /\ Queued(iopub', produced, t) /\ Follows(outputs', accepted') /\ Fits(outputs'.outputs)
      /\ idle' => t = Len(produced) /\ kernel.state = "ended"
  BY <1>1, <1>4, <1>6, <1>7, RunningFacts DEF Delivers
<1>9. /\ iopub' \in Seq(Messages) /\ raw'.outputs = Written(outputs'.outputs) /\ idle' \in BOOLEAN
      /\ \A i \in 1..Len(iopub') : OursIdle(iopub'[i]) => kernel.state = "ended"
  BY <1>1, <1>4, <1>5, <1>7, RunningFacts
<1> QED
  BY <1>1, <1>2, <1>4, <1>5, <1>7, <1>8, <1>9, HandledKeeps

\* The channel after its first message.
LEMMA ReceivedFacts ==
  ASSUME ExecInv, ReceiveIopub
  PROVE  /\ exec = "running" /\ Head(iopub) \in Messages /\ OnMessage(Head(iopub))
         /\ kernel' = kernel /\ produced' = produced /\ shell' = shell
         /\ iopub' \in Seq(Messages)
         /\ \A i \in 1..Len(iopub') : OursIdle(iopub'[i]) => kernel.state = "ended"
         /\ OursIdle(Head(iopub)) => kernel.state = "ended"
<1>1. exec = "running" /\ iopub # <<>> /\ iopub' = Tail(iopub) /\ OnMessage(Head(iopub))
      /\ UNCHANGED <<kernel, produced, shell>>
  BY DEF ReceiveIopub
<1>2. iopub \in Seq(Messages) /\ \A i \in 1..Len(iopub) : OursIdle(iopub[i]) => kernel.state = "ended"
  BY <1>1, RunningFacts
<1> PICK n \in Nat \ {0} : n = Len(iopub)
  BY <1>1, <1>2, Tails
<1>3. /\ iopub' \in Seq(Messages) /\ Len(iopub') = n - 1 /\ Head(iopub) \in Messages
      /\ Head(iopub) = iopub[1] /\ \A i \in 1..(n - 1) : iopub'[i] = iopub[i + 1]
  BY <1>1, <1>2, Tails
<1>4. \A i \in 1..Len(iopub') : OursIdle(iopub'[i]) => kernel.state = "ended"
  <2> TAKE i \in 1..Len(iopub')
  <2>1. i \in 1..(n - 1) /\ i + 1 \in 1..n
    BY <1>3
  <2> QED
    BY <2>1, <1>2, <1>3
<1>5. OursIdle(Head(iopub)) => kernel.state = "ended"
  <2>1. 1 \in 1..n
    OBVIOUS
  <2> QED
    BY <2>1, <1>2, <1>3
<1> QED
  BY <1>1, <1>3, <1>4, <1>5

\* What is left on the channel, and what of the produced messages it follows.
LEMMA NextDelivered ==
  ASSUME ExecInv, exec = "running", iopub # <<>>, NEW t \in 0..Len(produced), Delivers(t)
  PROVE  /\ OursEvent(Head(iopub)) =>
              /\ t + 1 \in 0..Len(produced) /\ ~idle /\ Head(iopub).event \in Events
              /\ Queued(Tail(iopub), produced, t + 1)
              /\ Follows(reduce(outputs, Head(iopub).event), First(produced, t + 1))
         /\ ~OursEvent(Head(iopub)) => Queued(Tail(iopub), produced, t)
         /\ OursIdle(Head(iopub)) => t = Len(produced)
<1> PICK p \in History : p = produced
  BY RunningFacts
<1> PICK q \in Seq(Messages) : q = iopub
  BY RunningFacts
<1>1. Numbered(p) /\ Len(p) \in Nat /\ Queued(q, p, t) /\ Follows(outputs, First(p, t))
      /\ (idle => t = Len(p))
  BY RunningFacts DEF Delivers
<1>2. /\ OursEvent(Head(q)) => /\ t + 1 \in 1..Len(p) /\ Head(q).event = p[t + 1]
                               /\ Queued(Tail(q), p, t + 1)
      /\ ~OursEvent(Head(q)) => Queued(Tail(q), p, t)
      /\ OursIdle(Head(q)) => t = Len(p)
  BY <1>1, QueuedTail
<1>3. ASSUME OursEvent(Head(q))
      PROVE  /\ t + 1 \in 0..Len(p) /\ ~idle /\ Head(q).event \in Events
             /\ Follows(reduce(outputs, Head(q).event), First(p, t + 1))
  <2>1. t + 1 \in 1..Len(p) /\ Head(q).event = p[t + 1] /\ t \in Nat
    BY <1>2, <1>3
  <2> PICK e : e = p[t + 1]
    OBVIOUS
  <2>2. e \in Events
    BY <2>1 DEF History
  <2>3. First(p, t) \in History /\ First(p, t + 1) = Append(First(p, t), e)
    BY <2>1, PrefixTyped, PrefixNext
  <2>4. Follows(reduce(outputs, e), Append(First(p, t), e))
    BY <2>2, <2>3, <1>1, FollowsStep
  <2>5. ~idle /\ t + 1 \in 0..Len(p)
    BY <2>1, <1>1
  <2> QED
    BY <2>1, <2>2, <2>3, <2>4, <2>5
<1> QED
  BY <1>2, <1>3

LEMMA IgnoredKeeps ==
  ASSUME ExecInv, ReceiveIopub, Ignored(Head(iopub))
  PROVE  ExecInv'
<1> PICK m : m = Head(iopub)
  OBVIOUS
<1>1. /\ exec = "running" /\ OnMessage(m) /\ iopub # <<>> /\ iopub' = Tail(iopub)
      /\ kernel' = kernel /\ produced' = produced /\ shell' = shell /\ iopub' \in Seq(Messages)
      /\ \A i \in 1..Len(iopub') : OursIdle(iopub'[i]) => kernel.state = "ended"
  BY ReceivedFacts DEF ReceiveIopub
<1>2. Running /\ UNCHANGED <<replied, idle, outputs, accepted, raw, file, room, faults>>
  BY <1>1 DEF OnMessage
<1>3. exec' = exec /\ interrupted' = interrupted
  BY <1>2 DEF Running
<1>4. PICK t \in 0..Len(produced) : Delivers(t)
  BY <1>1, RunningFacts
<1>5. /\ Len(accepted) <= t /\ Follows(outputs, First(produced, t)) /\ (idle => t = Len(produced))
      /\ t \in Nat /\ Len(accepted) \in Nat
  BY <1>1, <1>4, RunningFacts DEF Delivers
<1>6. PICK u \in 0..Len(produced) : /\ Len(accepted) <= u /\ Follows(outputs, First(produced, u))
                                    /\ Queued(iopub', produced, u) /\ (idle => u = Len(produced))
  <2>1. CASE ~OursEvent(m)
    <3>1. Queued(iopub', produced, t)
      BY <2>1, <1>1, <1>4, NextDelivered
    <3> QED
      BY <3>1, <1>5
  <2>2. CASE OursEvent(m)
    <3>1. /\ t + 1 \in 0..Len(produced) /\ ~idle /\ Queued(iopub', produced, t + 1)
          /\ Follows(reduce(outputs, m.event), First(produced, t + 1))
      BY <2>2, <1>1, <1>4, NextDelivered
    <3>2. ~Handled(m.event)
      BY <2>2 DEF Ignored, OursEvent
    <3>3. reduce(outputs, m.event) = outputs
      BY <3>2 DEF reduce, Handled, Shows
    <3>4. Len(accepted) <= t + 1
      BY <1>5
    <3> QED
      BY <3>1, <3>3, <3>4
  <2> QED
    BY <2>1, <2>2
<1>7. /\ shell' \in Seq(Replies) /\ replied' \in BOOLEAN /\ idle' \in BOOLEAN /\ interrupted' \in BOOLEAN
      /\ accepted' \in History /\ Follows(outputs', accepted') /\ Fits(outputs'.outputs)
      /\ raw' \in CellRec /\ raw'.outputs = Written(outputs'.outputs)
      /\ (replied' => raw'.count = "new") /\ (idle' => kernel.state = "ended")
  BY <1>1, <1>2, <1>3, RunningFacts
<1>8. /\ Len(accepted') <= u /\ Follows(outputs', First(produced, u))
      /\ (idle' => u = Len(produced) /\ kernel.state = "ended")
  BY <1>2, <1>6, <1>7
<1>9. exec' = "running" /\ file' = file /\ room' = room /\ outputs' = outputs
  BY <1>1, <1>2, <1>3
<1> QED
  BY <1>1, <1>6, <1>7, <1>8, <1>9, HandledKeeps

LEMMA AnnouncedKeeps ==
  ASSUME ExecInv, ReceiveIopub, ~Ignored(Head(iopub)), Head(iopub).kind = "execute_input"
  PROVE  ExecInv'
<1> PICK m : m = Head(iopub)
  OBVIOUS
<1>1. /\ exec = "running" /\ OnMessage(m) /\ iopub # <<>> /\ iopub' = Tail(iopub)
      /\ kernel' = kernel /\ produced' = produced /\ shell' = shell /\ iopub' \in Seq(Messages)
      /\ \A i \in 1..Len(iopub') : OursIdle(iopub'[i]) => kernel.state = "ended"
  BY ReceivedFacts DEF ReceiveIopub
<1>2. /\ raw' = [raw EXCEPT !.count = "new"] /\ UNCHANGED <<replied, idle, outputs, accepted>>
      /\ emit(raw', Running)
  BY <1>1 DEF OnMessage
<1>3. PICK t \in 0..Len(produced) : Delivers(t)
  BY <1>1, RunningFacts
<1>4. Queued(iopub', produced, t)
  <2>1. ~OursEvent(m)
    BY DEF OursEvent
  <2> QED
    BY <2>1, <1>1, <1>3, NextDelivered
<1>5. /\ Len(accepted') <= t /\ Follows(outputs', First(produced, t))
      /\ (idle' => t = Len(produced) /\ kernel.state = "ended")
  BY <1>1, <1>2, <1>3, RunningFacts DEF Delivers
<1>6. raw' \in CellRec /\ raw'.outputs = raw.outputs /\ raw'.count = "new"
  BY <1>1, <1>2, RunningFacts, Counted
<1>7. /\ shell' \in Seq(Replies) /\ replied' \in BOOLEAN /\ idle' \in BOOLEAN
      /\ accepted' \in History /\ Follows(outputs', accepted') /\ Fits(outputs'.outputs)
      /\ raw'.outputs = Written(outputs'.outputs)
  BY <1>1, <1>2, <1>6, RunningFacts
<1>8. /\ interrupted' \in BOOLEAN
      /\ \/ exec' = "running" /\ file' = raw' /\ room' = Cells(raw')
         \/ exec' = "failed" /\ file' \in {file, raw'} /\ room' \in {room, Cells(raw')}
  BY <1>1, <1>2, RunningFacts, EmitRunning
<1> QED
  BY <1>1, <1>4, <1>5, <1>6, <1>7, <1>8, HandledKeeps

LEMMA IdleKeeps ==
  ASSUME ExecInv, ReceiveIopub, ~Ignored(Head(iopub)), Head(iopub).kind = "idle"
  PROVE  ExecInv'
<1> PICK m : m = Head(iopub)
  OBVIOUS
<1>1. /\ exec = "running" /\ OnMessage(m) /\ iopub # <<>> /\ iopub' = Tail(iopub)
      /\ kernel' = kernel /\ produced' = produced /\ shell' = shell /\ iopub' \in Seq(Messages)
      /\ \A i \in 1..Len(iopub') : OursIdle(iopub'[i]) => kernel.state = "ended"
  BY ReceivedFacts DEF ReceiveIopub
<1>2. UNCHANGED <<outputs, accepted, raw>> /\ Noted(replied, TRUE)
  BY <1>1 DEF OnMessage
<1>3. PICK t \in 0..Len(produced) : Delivers(t)
  BY <1>1, RunningFacts
<1>4. ~OursEvent(m) /\ OursIdle(m)
  BY DEF OursEvent, OursIdle, Ignored
<1>5. Queued(iopub', produced, t) /\ t = Len(produced) /\ kernel.state = "ended"
  BY <1>1, <1>3, <1>4, NextDelivered, ReceivedFacts
<1>6. Len(accepted') <= t /\ Follows(outputs', First(produced, t))
  BY <1>2, <1>3 DEF Delivers
<1>7. /\ interrupted' \in BOOLEAN /\ replied' = replied /\ idle' = TRUE
      /\ \/ exec' = "running" /\ file' = file /\ room' = room
         \/ exec' = "done" /\ replied /\ file' = raw' /\ room' = Cells(raw')
         \/ exec' = "failed" /\ file' \in {file, raw'} /\ room' \in {room, Cells(raw')}
  <2>1. replied \in BOOLEAN /\ interrupted \in BOOLEAN /\ TRUE \in BOOLEAN
    BY <1>1, RunningFacts
  <2> QED
    BY <2>1, <1>1, <1>2, NotedOutcome
<1>8. /\ shell' \in Seq(Replies) /\ replied' \in BOOLEAN /\ idle' \in BOOLEAN
      /\ accepted' \in History /\ Follows(outputs', accepted') /\ Fits(outputs'.outputs)
      /\ raw' \in CellRec /\ raw'.outputs = Written(outputs'.outputs)
      /\ (replied' => raw'.count = "new")
  BY <1>1, <1>2, <1>7, RunningFacts
<1> QED
  BY <1>1, <1>2, <1>5, <1>6, <1>7, <1>8, HandledKeeps

LEMMA OutputKeeps ==
  ASSUME ExecInv, ReceiveIopub, ~Ignored(Head(iopub)), Head(iopub).kind = "event"
  PROVE  ExecInv'
<1> PICK m : m = Head(iopub)
  OBVIOUS
<1> PICK e : e = m.event
  OBVIOUS
<1>1. /\ exec = "running" /\ OnMessage(m) /\ iopub # <<>> /\ iopub' = Tail(iopub)
      /\ kernel' = kernel /\ produced' = produced /\ shell' = shell /\ iopub' \in Seq(Messages)
      /\ \A i \in 1..Len(iopub') : OursIdle(iopub'[i]) => kernel.state = "ended"
  BY ReceivedFacts DEF ReceiveIopub
<1>2. OnEvent(e)
  BY <1>1 DEF OnMessage
<1>3. OursEvent(m)
  BY DEF OursEvent, Ignored
<1>4. PICK t \in 0..Len(produced) : Delivers(t)
  BY <1>1, RunningFacts
<1>5. /\ t + 1 \in 0..Len(produced) /\ ~idle /\ e \in Events /\ Queued(iopub', produced, t + 1)
      /\ Follows(reduce(outputs, e), First(produced, t + 1))
  BY <1>1, <1>3, <1>4, NextDelivered
<1>6. CASE ~Accepts(outputs, e)
  <2>1. Fails /\ UNCHANGED <<replied, idle, outputs, accepted, raw, file, room>>
    BY <1>2, <1>6 DEF OnEvent, progressVars
  <2>2. exec' = "failed" /\ interrupted' \in BOOLEAN
    BY <2>1 DEF Fails
  <2>3. shell' \in Seq(Replies)
    BY <1>1, RunningFacts
  <2> QED
    BY <2>1, <2>2, <2>3, <1>1, FailedKeeps
<1>7. CASE Accepts(outputs, e)
  <2> PICK s : s = reduce(outputs, e)
    OBVIOUS
  <2>1. /\ replied' = replied /\ idle' = idle /\ outputs' = s /\ accepted' = Append(accepted, e)
        /\ raw' = [raw EXCEPT !.outputs = Written(s.outputs)] /\ emit(raw', Running)
    BY <1>2, <1>7 DEF OnEvent, progressVars, apply, Written
  <2>2. Fits(s.outputs)
    BY <1>7 DEF Accepts
  <2>3. accepted \in History /\ Follows(outputs, accepted) /\ Len(accepted) \in Nat
    BY <1>1, RunningFacts
  <2>4. accepted' \in History /\ Len(accepted') = Len(accepted) + 1
    BY <2>1, <2>3, <1>5, OneMore
  <2>5. Follows(s, Append(accepted, e))
    BY <2>3, <1>5, FollowsStep
  <2>6. Len(accepted') <= t + 1
    BY <2>3, <2>4, <1>4 DEF Delivers
  <2>7. raw' \in CellRec /\ raw'.outputs = Written(s.outputs) /\ raw'.count = raw.count
    <3>1. s.outputs \in Seq(OutputRec)
      BY <2>5 DEF Follows, States
    <3>2. Written(s.outputs) \in Seq(OutputRec)
      BY <3>1, WrittenTyped
    <3>3. raw \in CellRec
      BY <1>1, RunningFacts
    <3> PICK w \in Seq(OutputRec) : w = Written(s.outputs)
      BY <3>2
    <3>4. raw' = [raw EXCEPT !.outputs = w]
      BY <2>1
    <3> QED
      BY <3>3, <3>4 DEF CellRec
  <2>8. /\ interrupted' \in BOOLEAN
        /\ \/ exec' = "running" /\ file' = raw' /\ room' = Cells(raw')
           \/ exec' = "failed" /\ file' \in {file, raw'} /\ room' \in {room, Cells(raw')}
    BY <1>1, <2>1, RunningFacts, EmitRunning
  <2>9. /\ shell' \in Seq(Replies) /\ replied' \in BOOLEAN /\ idle' \in BOOLEAN /\ ~idle'
        /\ (replied' => raw'.count = "new")
    BY <1>1, <1>5, <2>1, <2>7, RunningFacts
  <2>10. Follows(outputs', First(produced, t + 1)) /\ Follows(outputs', accepted')
         /\ Fits(outputs'.outputs) /\ raw'.outputs = Written(outputs'.outputs)
    BY <1>5, <2>1, <2>2, <2>5, <2>7
  <2> PICK u \in 0..Len(produced) : u = t + 1
    BY <1>5
  <2> QED
    BY <1>1, <1>5, <2>4, <2>6, <2>7, <2>8, <2>9, <2>10, HandledKeeps
<1> QED
  BY <1>6, <1>7

LEMMA ReceiveIopubKeeps == ExecInv /\ ReceiveIopub => ExecInv'
<1> SUFFICES ASSUME ExecInv, ReceiveIopub PROVE ExecInv'
  OBVIOUS
<1>1. Head(iopub) \in Messages
  BY ReceivedFacts
<1>2. Head(iopub).kind \in {"execute_input", "event", "idle"}
  BY <1>1 DEF Messages
<1> QED
  BY <1>2, IgnoredKeeps, AnnouncedKeeps, IdleKeeps, OutputKeeps

LEMMA StartKeeps == ExecInv /\ Start => ExecInv'
<1> SUFFICES ASSUME ExecInv, Start PROVE ExecInv'
  OBVIOUS
<1>1. /\ exec = "ready" /\ raw' = Blank /\ produced' = produced /\ iopub' = iopub /\ shell' = shell
      /\ replied' = replied /\ idle' = idle /\ outputs' = outputs /\ accepted' = accepted
  BY DEF Start
<1>2. \/ exec' = "running" /\ file' = Blank /\ room' = Cells(Blank) /\ interrupted' = interrupted
           /\ kernel' = [kernel EXCEPT !.state = "sent"]
      \/ exec' = "failed" /\ file' \in {file, Blank} /\ room' \in {room, Cells(Blank)}
           /\ interrupted' \in BOOLEAN /\ kernel' = kernel
  BY DEF Start, emit, Fails
<1>3. /\ kernel.state = "ready" /\ produced = <<>> /\ outputs = Empty /\ ~replied /\ ~idle /\ file = Stale
  BY <1>1 DEF ExecInv, Untouched
<1>4. /\ Typed /\ Reduced /\ Idled /\ kernel \in Kernels /\ interrupted \in BOOLEAN /\ room.count \in Counts
  BY DEF ExecInv, Typed
<1>5. PICK t : Delivers(t)
  BY <1>1 DEF ExecInv, Delivered
<1>6. Writes(Blank, produced, 0)
  <2>1. First(produced, 0) = <<>>
    BY <1>3 DEF First
  <2>2. Follows(Empty, First(produced, 0))
    BY <2>1, FollowsEmpty
  <2> QED
    BY <2>2, BlankWritten DEF Writes
<1>7. Cells(Blank).count \in Counts /\ Cells(Blank).outputs = Empty.outputs
      /\ Blank.outputs = Written(Empty.outputs) /\ Blank \in CellRec
  BY BlankWritten, CellsOf
<1>8. Saved'
  <2>1. CASE file' = file
    BY <2>1, <1>3 DEF Saved
  <2>2. CASE file' = Blank
    <3>1. Writes(file', produced', 0)
      BY <2>2, <1>1, <1>6 DEF Writes
    <3>2. 0 \in 0..Len(produced')
      BY <1>1, <1>3
    <3> QED
      BY <3>1, <3>2 DEF Saved
  <2> QED
    BY <2>1, <2>2, <1>2
<1>9. kernel' \in Kernels /\ (kernel.state = "ended" => kernel'.state = "ended")
  BY <1>2, <1>3, <1>4 DEF Kernels
<1>10. Typed'
  <2>1. file' \in CellRec /\ room'.count \in Counts /\ interrupted' \in BOOLEAN
    BY <1>2, <1>4, <1>7 DEF Typed
  <2> QED
    BY <2>1, <1>1, <1>2, <1>4, <1>7, <1>9 DEF Typed
<1>11. Reduced' /\ Idled'
  BY <1>1, <1>4, <1>9 DEF Reduced, Idled
<1>12. Untouched'
  BY <1>2 DEF Untouched
<1>13. Delivers(t)'
  BY <1>1, <1>5 DEF Delivers
<1>14. Delivered'
  BY <1>13 DEF Delivered
<1>15. Kept'
  BY <1>1, <1>2, <1>3, <1>7 DEF Kept
<1> QED
  BY <1>8, <1>10, <1>11, <1>12, <1>14, <1>15 DEF ExecInv

LEMMA PublishedMessage ==
  ASSUME NEW parent \in {Ours, Foreign}, NEW kind \in {"execute_input", "event", "idle"}
  PROVE  /\ Message(parent, kind).parent = parent /\ Message(parent, kind).kind = kind
         /\ ~(parent = Ours /\ kind = "event") => Message(parent, kind) \in Messages
         /\ parent = Foreign => [Message(parent, kind) EXCEPT !.event = OtherText] \in Messages
                                  /\ [Message(parent, kind) EXCEPT !.event = OtherText].parent = Foreign
<1> PICK m : m = Message(parent, kind)
  OBVIOUS
<1> PICK x : x = Empty
  OBVIOUS
<1> PICK y : y = OtherText
  OBVIOUS
<1>1. m = [parent |-> parent, kind |-> kind, event |-> x]
  BY DEF Message
<1> PICK n : n = [m EXCEPT !.event = y]
  OBVIOUS
<1>2. n = [parent |-> parent, kind |-> kind, event |-> y]
  BY <1>1
<1>3. m.parent = parent /\ m.kind = kind /\ n.parent = parent
  BY <1>1, <1>2
<1>4. ASSUME ~(parent = Ours /\ kind = "event") PROVE m \in Messages
  BY <1>1, <1>4 DEF Messages, OursEvent
<1>5. ASSUME parent = Foreign PROVE n \in Messages
  BY <1>2, <1>5 DEF Messages, OursEvent, Ours, Foreign
<1> QED
  BY <1>3, <1>4, <1>5

LEMMA KernelKeeps == ExecInv /\ KernelSteps => ExecInv'
<1> SUFFICES ASSUME ExecInv, KernelSteps PROVE ExecInv'
  OBVIOUS
<1>1. kernel \in Kernels /\ shell \in Seq(Replies) /\ produced \in History
  BY DEF ExecInv, Typed, Numbered
<1>2. ASSUME kernel.state # "ready" PROVE exec # "ready"
  BY <1>2 DEF ExecInv, Untouched
<1>3. CASE KernelStarts
  <2> PICK m : m = Message(Ours, "execute_input")
    OBVIOUS
  <2>1. m \in Messages /\ m.kind = "execute_input"
    BY PublishedMessage
  <2>2. ~OursEvent(m) /\ ~OursIdle(m)
    BY <2>1 DEF OursEvent, OursIdle
  <2>3. /\ kernel.state = "sent" /\ kernel' \in Kernels
        /\ produced' = produced /\ shell' = shell /\ UnchangedGateway
        /\ IF exec = "failed" THEN UNCHANGED iopub ELSE iopub' \in {iopub, Append(iopub, m)}
    BY <1>1, <1>3 DEF KernelStarts, Kernels, Publishes
  <2> QED
    BY <1>1, <1>2, <2>1, <2>2, <2>3, PublishedKeeps
<1>4. CASE KernelReplies
  <2> PICK m : m = Message(Ours, "execute_input")
    OBVIOUS
  <2>1. m \in Messages /\ m.kind = "execute_input"
    BY PublishedMessage
  <2>2. ~OursEvent(m) /\ ~OursIdle(m)
    BY <2>1 DEF OursEvent, OursIdle
  <2>3. /\ kernel.state \in {"sent", "running"} /\ kernel' \in Kernels
        /\ produced' = produced /\ UnchangedGateway /\ iopub' = iopub
    BY <1>1, <1>4 DEF KernelReplies, Kernels
  <2>4. shell' \in Seq(Replies)
    <3> PICK r \in Replies : r = Message(Ours, "execute_reply")
      BY DEF Replies
    <3>1. shell' = Append(shell, r)
      BY <1>4 DEF KernelReplies
    <3> QED
      BY <3>1, <1>1, AppendProperties
  <2> QED
    BY <1>1, <1>2, <2>1, <2>2, <2>3, <2>4, PublishedKeeps
<1>5. CASE KernelIdles
  <2> PICK m : m = Message(Ours, "idle")
    OBVIOUS
  <2>1. m \in Messages /\ m.kind = "idle"
    BY PublishedMessage
  <2>2. ~OursEvent(m)
    BY <2>1 DEF OursEvent
  <2>3. /\ kernel.state = "replied" /\ kernel' \in Kernels /\ kernel'.state = "ended"
        /\ produced' = produced /\ shell' = shell /\ UnchangedGateway
        /\ IF exec = "failed" THEN UNCHANGED iopub ELSE iopub' \in {iopub, Append(iopub, m)}
    BY <1>1, <1>5 DEF KernelIdles, Kernels, Publishes
  <2> QED
    BY <1>1, <1>2, <2>1, <2>2, <2>3, PublishedKeeps
<1>6. ASSUME NEW e \in Event, KernelProduces(e) PROVE ExecInv'
  <2> PICK l \in Nat : l = Len(produced)
    BY <1>1 DEF History
  <2> PICK x : x = [e EXCEPT !.at = l + 1]
    OBVIOUS
  <2> PICK m : m = [parent |-> Ours, kind |-> "event", event |-> x]
    OBVIOUS
  <2>1. x \in Events /\ x.at = l + 1
    <3>1. e \in [kind : STRING, name : STRING, id : STRING, wait : BOOLEAN, ok : BOOLEAN,
                 size : Nat, at : {0}] /\ (e.kind \in {"stream", "error"} => e.id = NoId)
      BY ExecutionAssumption
    <3> QED
      BY <3>1 DEF Events
  <2>2. m \in Messages /\ OursEvent(m) /\ ~OursIdle(m) /\ m.event = x
    BY <2>1 DEF Messages, OursEvent, OursIdle
  <2>3. /\ kernel.state = "running" /\ kernel' = kernel /\ shell' = shell /\ UnchangedGateway
        /\ produced' = Append(produced, x)
        /\ IF exec = "failed" THEN UNCHANGED iopub ELSE iopub' = Append(iopub, m)
    BY <1>6 DEF KernelProduces, Publishes
  <2> QED
    BY <1>1, <1>2, <2>1, <2>2, <2>3, PublishedKeeps
<1>7. ASSUME NEW kind \in {"event", "idle"}, KernelServesOthers(kind) PROVE ExecInv'
  <2> PICK m : m = [Message(Foreign, kind) EXCEPT !.event = OtherText]
    OBVIOUS
  <2>1. m \in Messages /\ m.parent = Foreign
    BY PublishedMessage
  <2>2. ~OursEvent(m) /\ ~OursIdle(m)
    BY <2>1 DEF OursEvent, OursIdle, Ours, Foreign
  <2>3. /\ kernel.state \in {"sent", "ended"} /\ kernel' \in Kernels /\ kernel'.state = kernel.state
        /\ produced' = produced /\ shell' = shell /\ UnchangedGateway
        /\ IF exec = "failed" THEN UNCHANGED iopub ELSE iopub' \in {iopub, Append(iopub, m)}
    BY <1>1, <1>7 DEF KernelServesOthers, Kernels, Publishes
  <2> QED
    BY <1>1, <1>2, <2>1, <2>2, <2>3, PublishedKeeps
<1> QED
  BY <1>3, <1>4, <1>5, <1>6, <1>7 DEF KernelSteps

LEMMA ExecNext == ExecInv /\ [Next]_vars => ExecInv'
<1> SUFFICES ASSUME ExecInv, [Next]_vars PROVE ExecInv'
  OBVIOUS
<1>1. CASE UNCHANGED vars
  <2>1. UNCHANGED <<kernel, produced, iopub, shell, exec, replied, idle, outputs, accepted,
                    raw, file, room, interrupted>>
    BY <1>1 DEF vars
  <2>2. Typed' /\ Reduced'
    BY <2>1 DEF ExecInv, Typed, Reduced
  <2>3. Saved' /\ Untouched'
    BY <2>1 DEF ExecInv, Saved, Untouched
  <2>4. Delivered' /\ Idled'
    BY <2>1 DEF ExecInv, Delivered, Delivers, Idled
  <2>5. Kept'
    BY <2>1 DEF ExecInv, Kept, Cells
  <2> QED
    BY <2>2, <2>3, <2>4, <2>5 DEF ExecInv
<1> QED
  BY <1>1, KernelKeeps, StartKeeps, ReceiveIopubKeeps, ReceiveShellKeeps, AbandonKeeps DEF Next

LEMMA ExecInvHolds == Spec => []ExecInv
BY ExecInit, ExecNext, PTL DEF Spec

-----------------------------------------------------------------------------
(* What the invariant says of the properties. *)

\* The outputs are those of the applied messages since the last clear that took
\* effect, whatever clears, streams and updates the kernel mixes.
THEOREM OutputsFollowMessagesHolds == Spec => []OutputsFollowMessages
<1>1. ExecInv => OutputsFollowMessages
  <2> SUFFICES ASSUME ExecInv PROVE OutputsFollowMessages
    OBVIOUS
  <2>1. accepted \in History /\ Follows(outputs, accepted)
    BY DEF ExecInv, Reduced
  <2> QED
    BY <2>1, FollowsShow DEF OutputsFollowMessages
<1> QED
  BY <1>1, ExecInvHolds, PTL

\* What is read of a cell that was written from reduced outputs.
LEMMA ReadOfWritten ==
  ASSUME NEW cell \in CellRec, NEW s, NEW h \in History, Follows(s, h),
         cell.outputs = Written(s.outputs)
  PROVE  Cells(cell).outputs = s.outputs /\ Shown(Cells(cell).outputs) = Promised(h)
<1>1. s.outputs \in Seq(OutputRec) /\ Joined(s.outputs)
  BY DEF Follows, States
<1>2. Cells(cell).outputs = s.outputs
  BY <1>1, CellsOf, WrittenReadBack
<1>3. Shown(s.outputs) = Promised(h)
  BY FollowsShow
<1> QED
  BY <1>2, <1>3

\* The file is never ahead of itself, a finished execution shows everything, and
\* the room shows what a reader of the file would.
THEOREM OutputInvHolds == Spec => []OutputInv
<1>1. ExecInv => OutputInv
  <2> SUFFICES ASSUME ExecInv PROVE OutputInv
    OBVIOUS
  <2>1. /\ Typed /\ Reduced /\ Saved /\ Delivered /\ Idled /\ Kept
        /\ produced \in History /\ file \in CellRec
    BY DEF ExecInv, Typed, Numbered
  <2>2. outputs \in States
    BY <2>1 DEF Reduced, Follows
  <2>3. ExecTypeOK
    <3>1. kernel.state \in {"ready", "sent", "running", "replied", "ended"}
      BY <2>1 DEF Typed, Kernels
    <3>2. /\ outputs.clear_next \in BOOLEAN /\ Len(outputs.outputs) = Len(outputs.ids)
          /\ Fits(outputs.outputs) /\ Len(accepted) <= Len(produced)
      BY <2>1, <2>2 DEF States, Reduced
    <3>3. /\ exec \in {"ready", "running", "done", "failed"}
          /\ replied \in BOOLEAN /\ idle \in BOOLEAN /\ interrupted \in BOOLEAN
          /\ file.count \in Counts /\ room.count \in Counts
      BY <2>1 DEF Typed, CellRec
    <3> QED
      BY <3>1, <3>2, <3>3 DEF ExecTypeOK, Counts
  <2>4. FileIsPrefix
    <3> SUFFICES ASSUME file # Stale
                 PROVE  \E n \in 0..Len(produced) :
                          Shown(Cells(file).outputs) = Promised(SubSeq(produced, 1, n))
      BY DEF FileIsPrefix
    <3>1. PICK n \in 0..Len(produced) : Writes(file, produced, n)
      BY <2>1 DEF Saved
    <3>2. PICK s : Follows(s, First(produced, n)) /\ file.outputs = Written(s.outputs)
      BY <3>1 DEF Writes
    <3>3. First(produced, n) \in History
      BY <2>1, PrefixTyped
    <3>4. Shown(Cells(file).outputs) = Promised(First(produced, n))
      BY <2>1, <3>2, <3>3, ReadOfWritten
    <3> QED
      BY <3>4 DEF First
  <2>5. DoneShowsAll
    <3> SUFFICES ASSUME exec = "done"
                 PROVE  /\ kernel.state = "ended"
                        /\ Shown(Cells(file).outputs) = Promised(produced)
                        /\ file.count = "new" /\ room = Cells(file)
      BY DEF DoneShowsAll
    <3>1. /\ idle /\ file.outputs = Written(outputs.outputs)
          /\ file.count = "new" /\ room = Cells(file)
      BY <2>1 DEF Kept
    <3>2. PICK t : Delivers(t)
      BY <2>1 DEF Delivered
    <3>3. t = Len(produced) /\ Follows(outputs, First(produced, t)) /\ kernel.state = "ended"
      BY <2>1, <3>1, <3>2 DEF Delivers, Idled
    <3>4. First(produced, t) = produced
      <4>1. 0 \in 0..Len(produced)
        BY <2>1 DEF History
      <4> QED
        BY <4>1, <2>1, <3>3, PrefixTyped
    <3>5. Follows(outputs, produced)
      BY <3>3, <3>4
    <3>6. Shown(Cells(file).outputs) = Promised(produced)
      BY <2>1, <3>1, <3>5, ReadOfWritten
    <3> QED
      BY <3>1, <3>3, <3>6
  <2>6. RoomShowsExecution
    BY <2>1 DEF Kept, RoomShowsExecution
  <2> QED
    BY <2>3, <2>4, <2>5, <2>6 DEF OutputInv
<1> QED
  BY <1>1, ExecInvHolds, PTL

=============================================================================
