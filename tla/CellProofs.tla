----------------------------- MODULE CellProofs -----------------------------
(***************************************************************************)
(* Proofs about the batches of cell changes that an editor builds          *)
(* (CellChanges), for any notebooks and batches.                           *)
(*                                                                         *)
(* First what the operators of NotebookCells do.  They are folds over a    *)
(* batch; a fold is replaced by the chain of values it goes through, and   *)
(* the chains are compared by induction.  While no two cells have one id   *)
(* a change can be taken back and means the same beside a neighbour as at  *)
(* a position, and the editor builds its batches so that this goes on.     *)
(***************************************************************************)
EXTENDS CellChanges, FiniteSetTheorems, FunctionTheorems, TLAPS

-----------------------------------------------------------------------------
(* Induction and folds. *)

\* Induction over the natural numbers, of a set: its part up to a missing number
\* would be as large as that part without 0.
LEMMA Induction ==
  ASSUME NEW A, 0 \in A, \A n \in Nat : n \in A => n + 1 \in A
  PROVE  \A n \in Nat : n \in A
<1> SUFFICES ASSUME NEW n \in Nat, n \notin A PROVE FALSE
  OBVIOUS
<1> DEFINE T == (0..n) \cap A
           U == T \ {0}
<1>1. IsFiniteSet(0..n)
  BY FS_Interval
<1>2. IsFiniteSet(T) /\ 0 \in T
  BY <1>1, FS_Subset
<1>3. IsFiniteSet(U) /\ Cardinality(U) = Cardinality(T) - 1 /\ Cardinality(T) \in Nat
  BY <1>2, FS_RemoveElement, FS_CardinalityType
<1> DEFINE f == [k \in T |-> k + 1]
<1>4. f \in Injection(T, U)
  <2>1. \A k \in T : k + 1 \in U
    <3> TAKE k \in T
    <3>1. k \in Nat /\ k \in A /\ k <= n
      OBVIOUS
    <3>2. k + 1 \in A
      BY <3>1
    <3>3. k # n
      BY <3>1
    <3> QED
      BY <3>1, <3>2, <3>3
  <2> QED
    BY <2>1 DEF Injection, IsInjective
<1>5. Cardinality(T) <= Cardinality(U)
  BY <1>3, <1>4, FS_Injection
<1> QED
  BY <1>3, <1>5

\* The largest number up to k, which is what a fold takes last.
LEMMA LastIndex ==
  ASSUME NEW n \in Nat
  PROVE  /\ \A s \in SUBSET (1..n) : s # {} => Max(s) \in s
         /\ \A k \in 1..n : 1..k # {} /\ Max(1..k) = k /\ (1..k) \ {k} = 1..(k - 1)
<1>1. ASSUME NEW s \in SUBSET (1..n), s # {}
      PROVE  \E x \in s : \A y \in s : x >= y
  <2> SUFFICES ASSUME \A x \in s : \E y \in s : x < y PROVE FALSE
    BY SMT
  <2> DEFINE C == {k \in Nat : \E x \in s : x >= k}
  <2>1. 0 \in C
    <3>1. PICK x \in s : TRUE
      BY <1>1
    <3>2. x \in 1..n
      BY <1>1
    <3> QED
      BY <3>2
  <2>2. \A k \in Nat : k \in C => k + 1 \in C
    OBVIOUS
  <2> HIDE DEF C
  <2>3. n + 1 \in C
    BY <2>1, <2>2, Induction
  <2> QED
    BY <2>3 DEF C
<1>2. \A s \in SUBSET (1..n) : s # {} => Max(s) \in s /\ \A y \in s : Max(s) >= y
  BY <1>1 DEF Max
<1>3. \A k \in 1..n : 1..k # {} /\ 1..k \in SUBSET (1..n) /\ (1..k) \ {k} = 1..(k - 1)
  OBVIOUS
<1>4. \A k \in 1..n : Max(1..k) = k
  <2> TAKE k \in 1..n
  <2>1. Max(1..k) \in 1..k /\ \A y \in 1..k : Max(1..k) >= y
    BY <1>2, <1>3
  <2>2. k \in 1..k
    OBVIOUS
  <2> QED
    BY <2>1, <2>2
<1> QED
  BY <1>2, <1>3, <1>4

\* The function of the parts of 1..n that defines a fold from left to right, as
\* far as its values are in V, and the values such a fold takes on the way.
IsFold(h, n, V, start, step) ==
  \A s \in SUBSET (1..n) :
    /\ s = {} => h[s] = start
    /\ s # {} /\ h[s \ {Max(s)}] \in V => h[s] = step[Max(s)][h[s \ {Max(s)}]]
IsChain(chain, n, V, start, step, end) ==
  /\ chain \in [0..n -> V] /\ chain[0] = start /\ chain[n] = end
  /\ \A k \in 1..n : chain[k] = step[k][chain[k - 1]]

\* A fold exists when its steps stay in a set.
LEMMA FoldExists ==
  ASSUME NEW n \in Nat, NEW V, NEW start \in V, NEW step \in [1..n -> [V -> V]]
  PROVE  \E h : h \in [SUBSET (1..n) -> V] /\ IsFold(h, n, V, start, step)
<1> DEFINE Parts == SUBSET (1..n)
           Small(m) == {s \in Parts : Cardinality(s) <= m}
           Folds(m) == {h \in [Small(m) -> V] : \A s \in Small(m) :
                          h[s] = IF s = {} THEN start ELSE step[Max(s)][h[s \ {Max(s)}]]}
           A == {m \in Nat : Folds(m) # {}}
<1>1. \A s \in Parts : IsFiniteSet(s) /\ Cardinality(s) \in 0..n
  <2>1. IsFiniteSet(1..n) /\ Cardinality(1..n) = n
    BY FS_Interval
  <2> TAKE s \in Parts
  <2>2. s \in SUBSET (1..n)
    OBVIOUS
  <2>3. IsFiniteSet(s) /\ Cardinality(s) <= Cardinality(1..n)
    BY ONLY <2>1, <2>2, FS_Subset
  <2> QED
    BY <2>1, <2>3, FS_CardinalityType
<1>2. \A s \in Parts : s # {} =>
        Max(s) \in 1..n /\ s \ {Max(s)} \in Parts
          /\ Cardinality(s \ {Max(s)}) = Cardinality(s) - 1
  BY <1>1, LastIndex, FS_RemoveElement
<1>3. \A s \in Parts : Cardinality(s) = 0 <=> s = {}
  BY <1>1, FS_EmptySet
<1>4. 0 \in A
  <2>1. [s \in Small(0) |-> start] \in Folds(0)
    BY <1>1, <1>3
  <2> QED
    BY <2>1
<1>5. ASSUME NEW m \in Nat, m \in A PROVE m + 1 \in A
  <2>1. PICK h \in Folds(m) : TRUE
    BY <1>5
  <2> DEFINE g == [s \in Small(m + 1) |->
                     IF s = {} THEN start
                     ELSE IF Cardinality(s) <= m THEN h[s]
                     ELSE step[Max(s)][h[s \ {Max(s)}]]]
  <2>2. \A s \in Small(m) : s \in Small(m + 1)
    BY <1>1
  <2>3. \A s \in Small(m + 1) : s # {} => s \ {Max(s)} \in Small(m) /\ Max(s) \in 1..n
    <3> TAKE s \in Small(m + 1)
    <3> HAVE s # {}
    <3>1. s \in Parts /\ Cardinality(s) <= m + 1 /\ Cardinality(s) \in Nat
      BY <1>1
    <3>2. Max(s) \in 1..n /\ s \ {Max(s)} \in Parts
            /\ Cardinality(s \ {Max(s)}) = Cardinality(s) - 1
      BY <1>2, <3>1
    <3>3. Cardinality(s \ {Max(s)}) <= m
      BY <3>1, <3>2
    <3> QED
      BY <3>2, <3>3
  <2>4. h \in [Small(m) -> V] /\ \A s \in Small(m) :
          h[s] = IF s = {} THEN start ELSE step[Max(s)][h[s \ {Max(s)}]]
    BY <2>1
  <2> HIDE DEF Small, Folds
  <2>5. \A s \in Small(m + 1) : s # {} /\ ~(Cardinality(s) <= m) =>
          step[Max(s)][h[s \ {Max(s)}]] \in V
    BY <2>3, <2>4
  <2>6. \A s \in Small(m + 1) : Cardinality(s) <= m => s \in Small(m)
    BY DEF Small
  <2>7. g \in [Small(m + 1) -> V]
    BY <2>4, <2>5, <2>6
  <2>8. \A s \in Small(m) : g[s] = h[s]
    BY <2>2, <2>4 DEF Small
  <2>9. \A s \in Small(m + 1) :
          g[s] = IF s = {} THEN start ELSE step[Max(s)][g[s \ {Max(s)}]]
    BY <2>3, <2>4, <2>6, <2>8
  <2>10. g \in Folds(m + 1)
    BY <2>7, <2>9 DEF Folds
  <2> QED
    BY <2>10
<1> HIDE DEF A
<1>6. n \in A
  BY <1>4, <1>5, Induction
<1>7. Small(n) = Parts
  BY <1>1
<1>8. PICK h \in Folds(n) : TRUE
  BY <1>6 DEF A
<1>9. h \in [Parts -> V] /\ \A s \in Parts :
        h[s] = IF s = {} THEN start ELSE step[Max(s)][h[s \ {Max(s)}]]
  BY <1>7, <1>8
<1> QED
  BY <1>9 DEF IsFold

\* The values such a fold takes on the way.
LEMMA FoldChain ==
  ASSUME NEW n \in Nat, NEW V, NEW start \in V, NEW step \in [1..n -> [V -> V]], NEW iter,
         IsFold(iter, n, V, start, step)
  PROVE  \E chain : IsChain(chain, n, V, start, step, iter[1..n])
<1> DEFINE A == {k \in Nat : k <= n => iter[1..k] \in V}
<1>1. iter[1..0] = start
  <2>1. 1..0 = {} /\ 1..0 \in SUBSET (1..n)
    OBVIOUS
  <2> QED
    BY <2>1 DEF IsFold
<1>2. \A k \in 1..n : iter[1..(k - 1)] \in V => iter[1..k] = step[k][iter[1..(k - 1)]]
  <2> TAKE k \in 1..n
  <2>1. 1..k # {} /\ Max(1..k) = k /\ (1..k) \ {k} = 1..(k - 1) /\ 1..k \in SUBSET (1..n)
    BY LastIndex
  <2> QED
    BY <2>1 DEF IsFold
<1>3. 0 \in A
  BY <1>1
<1>4. ASSUME NEW k \in Nat, k \in A PROVE k + 1 \in A
  <2> SUFFICES ASSUME k + 1 <= n PROVE iter[1..(k + 1)] \in V
    OBVIOUS
  <2>1. k + 1 \in 1..n /\ (k + 1) - 1 = k /\ iter[1..k] \in V
    BY <1>4
  <2>2. iter[1..(k + 1)] = step[k + 1][iter[1..k]]
    BY <1>2, <2>1
  <2>3. step[k + 1] \in [V -> V]
    BY <2>1
  <2> QED
    BY <2>1, <2>2, <2>3
<1> HIDE DEF A
<1>5. \A k \in Nat : k \in A
  BY <1>3, <1>4, Induction
<1>6. \A k \in 0..n : iter[1..k] \in V
  BY <1>5 DEF A
<1> DEFINE chain == [k \in 0..n |-> iter[1..k]]
<1>7. chain \in [0..n -> V] /\ chain[0] = start /\ chain[n] = iter[1..n]
  BY <1>1, <1>6
<1>8. \A k \in 1..n : chain[k] = step[k][chain[k - 1]]
  <2> TAKE k \in 1..n
  <2>1. k \in 0..n /\ k - 1 \in 0..n
    OBVIOUS
  <2> QED
    BY <2>1, <1>2, <1>6
<1> HIDE DEF chain
<1> QED
  BY <1>7, <1>8 DEF IsChain

-----------------------------------------------------------------------------
(* The folds of the model: each is the last of a chain of values, if its steps *)
(* stay in a set.                                                              *)

Nothing == <<>>
\* What Only makes of one element of its list.
Sifted(kept, r, x) == IF x \in kept THEN Append(r, x) ELSE r

IsSifting(chain, list, kept, n) ==
  /\ chain[0] = Nothing
  /\ chain[n] = Only(list, kept)
  /\ \A k \in 1..n : chain[k] = Sifted(kept, chain[k - 1], list[k])

LEMMA OnlyChain ==
  ASSUME NEW kept, NEW list, NEW n \in Nat, DOMAIN list = 1..n, NEW V,
         Nothing \in V,
         \A k \in 1..n : \A r \in V : Sifted(kept, r, list[k]) \in V
  PROVE  \E chain \in [0..n -> V] : IsSifting(chain, list, kept, n)
<1> DEFINE start == Nothing
           Body(r, x) == Sifted(kept, r, x)
           step == [k \in 1..n |-> [r \in V |-> Body(r, list[k])]]
           Eq(g) == g = [s \in SUBSET DOMAIN list |->
                           IF s = {} THEN start
                           ELSE LET x == Max(s) IN Body(g[s \ {x}], list[x])]
           iter == CHOOSE g : Eq(g)
<1>1. step \in [1..n -> [V -> V]] /\ start \in V
  OBVIOUS
<1>2. \A k \in 1..n : \A r \in V : step[k][r] = Body(r, list[k])
  OBVIOUS
<1>3. \A s \in SUBSET (1..n) : s # {} => Max(s) \in 1..n /\ s \ {Max(s)} \in SUBSET (1..n)
  BY LastIndex
<1> HIDE DEF step, start, Body
<1>4. PICK h : h \in [SUBSET (1..n) -> V] /\ IsFold(h, n, V, start, step)
  BY <1>1, FoldExists
<1>5. \A s \in SUBSET (1..n) :
        h[s] = IF s = {} THEN start ELSE Body(h[s \ {Max(s)}], list[Max(s)])
  BY <1>2, <1>3, <1>4 DEF IsFold
<1>6. Eq(h)
  BY <1>4, <1>5
<1> HIDE DEF Eq
<1>7. Eq(iter)
  BY <1>6
<1> HIDE DEF iter
<1>8. \A s \in SUBSET (1..n) :
        iter[s] = IF s = {} THEN start ELSE Body(iter[s \ {Max(s)}], list[Max(s)])
  BY <1>7 DEF Eq
<1>9. IsFold(iter, n, V, start, step)
  BY <1>2, <1>3, <1>8 DEF IsFold
<1>10. PICK chain : IsChain(chain, n, V, start, step, iter[1..n])
  BY <1>1, <1>9, FoldChain
<1>11. iter[DOMAIN list] = Only(list, kept)
  BY DEF iter, Eq, Body, Sifted, start, Nothing, Only, FoldLeft, MapThenFoldSet
<1>12. chain \in [0..n -> V] /\ chain[0] = start /\ chain[n] = iter[1..n]
  BY <1>10 DEF IsChain
<1>13. \A k \in 1..n : chain[k] = Body(chain[k - 1], list[k])
  <2> TAKE k \in 1..n
  <2>1. chain[k - 1] \in V
    BY <1>12
  <2>2. chain[k] = step[k][chain[k - 1]]
    BY <1>10 DEF IsChain
  <2> QED
    BY <1>2, <2>1, <2>2
<1> QED
  BY <1>11, <1>12, <1>13 DEF Body, start, IsSifting

LEMMA ApplyChain ==
  ASSUME NEW cells, NEW changes, NEW n \in Nat, DOMAIN changes = 1..n, NEW V,
         [ok |-> TRUE, cells |-> cells] \in V,
         \A k \in 1..n : \A r \in V : ApplyOne(r, changes[k]) \in V
  PROVE  \E chain \in [0..n -> V] :
           /\ chain[0] = [ok |-> TRUE, cells |-> cells]
           /\ chain[n] = Apply(cells, changes)
           /\ \A k \in 1..n : chain[k] = ApplyOne(chain[k - 1], changes[k])
<1> DEFINE start == [ok |-> TRUE, cells |-> cells]
           Body(r, x) == ApplyOne(r, x)
           step == [k \in 1..n |-> [r \in V |-> Body(r, changes[k])]]
           Eq(g) == g = [s \in SUBSET DOMAIN changes |->
                           IF s = {} THEN start
                           ELSE LET x == Max(s) IN Body(g[s \ {x}], changes[x])]
           iter == CHOOSE g : Eq(g)
<1>1. step \in [1..n -> [V -> V]] /\ start \in V
  OBVIOUS
<1>2. \A k \in 1..n : \A r \in V : step[k][r] = Body(r, changes[k])
  OBVIOUS
<1>3. \A s \in SUBSET (1..n) : s # {} => Max(s) \in 1..n /\ s \ {Max(s)} \in SUBSET (1..n)
  BY LastIndex
<1> HIDE DEF step, start, Body
<1>4. PICK h : h \in [SUBSET (1..n) -> V] /\ IsFold(h, n, V, start, step)
  BY <1>1, FoldExists
<1>5. \A s \in SUBSET (1..n) :
        h[s] = IF s = {} THEN start ELSE Body(h[s \ {Max(s)}], changes[Max(s)])
  BY <1>2, <1>3, <1>4 DEF IsFold
<1>6. Eq(h)
  BY <1>4, <1>5
<1> HIDE DEF Eq
<1>7. Eq(iter)
  BY <1>6
<1> HIDE DEF iter
<1>8. \A s \in SUBSET (1..n) :
        iter[s] = IF s = {} THEN start ELSE Body(iter[s \ {Max(s)}], changes[Max(s)])
  BY <1>7 DEF Eq
<1>9. IsFold(iter, n, V, start, step)
  BY <1>2, <1>3, <1>8 DEF IsFold
<1>10. PICK chain : IsChain(chain, n, V, start, step, iter[1..n])
  BY <1>1, <1>9, FoldChain
<1>11. iter[DOMAIN changes] = Apply(cells, changes)
  BY DEF iter, Eq, Body, start, Apply, FoldLeft, MapThenFoldSet
<1>12. chain \in [0..n -> V] /\ chain[0] = start /\ chain[n] = iter[1..n]
  BY <1>10 DEF IsChain
<1>13. \A k \in 1..n : chain[k] = Body(chain[k - 1], changes[k])
  <2> TAKE k \in 1..n
  <2>1. chain[k - 1] \in V
    BY <1>12
  <2>2. chain[k] = step[k][chain[k - 1]]
    BY <1>10 DEF IsChain
  <2> QED
    BY <1>2, <2>1, <2>2
<1> QED
  BY <1>11, <1>12, <1>13 DEF Body, start

\* The steps of replacing positions by neighbours in n changes.
IsTracking(chain, cells, changes, n) ==
  /\ chain[0] = [ids |-> Listed(cells), out |-> <<>>]
  /\ chain[n].out = Anchored(cells, changes)
  /\ \A k \in 1..n : chain[k] = Track(chain[k - 1], changes[k])

LEMMA AnchoredChain ==
  ASSUME NEW cells, NEW changes, NEW n \in Nat, DOMAIN changes = 1..n, NEW V,
         [ids |-> Listed(cells), out |-> <<>>] \in V,
         \A k \in 1..n : \A r \in V : Track(r, changes[k]) \in V
  PROVE  \E chain \in [0..n -> V] : IsTracking(chain, cells, changes, n)
<1> DEFINE start == [ids |-> Listed(cells), out |-> <<>>]
           Body(r, x) == Track(r, x)
           step == [k \in 1..n |-> [r \in V |-> Body(r, changes[k])]]
           Eq(g) == g = [s \in SUBSET DOMAIN changes |->
                           IF s = {} THEN start
                           ELSE LET x == Max(s) IN Body(g[s \ {x}], changes[x])]
           iter == CHOOSE g : Eq(g)
<1>1. step \in [1..n -> [V -> V]] /\ start \in V
  OBVIOUS
<1>2. \A k \in 1..n : \A r \in V : step[k][r] = Body(r, changes[k])
  OBVIOUS
<1>3. \A s \in SUBSET (1..n) : s # {} => Max(s) \in 1..n /\ s \ {Max(s)} \in SUBSET (1..n)
  BY LastIndex
<1> HIDE DEF step, start, Body
<1>4. PICK h : h \in [SUBSET (1..n) -> V] /\ IsFold(h, n, V, start, step)
  BY <1>1, FoldExists
<1>5. \A s \in SUBSET (1..n) :
        h[s] = IF s = {} THEN start ELSE Body(h[s \ {Max(s)}], changes[Max(s)])
  BY <1>2, <1>3, <1>4 DEF IsFold
<1>6. Eq(h)
  BY <1>4, <1>5
<1> HIDE DEF Eq
<1>7. Eq(iter)
  BY <1>6
<1> HIDE DEF iter
<1>8. \A s \in SUBSET (1..n) :
        iter[s] = IF s = {} THEN start ELSE Body(iter[s \ {Max(s)}], changes[Max(s)])
  BY <1>7 DEF Eq
<1>9. IsFold(iter, n, V, start, step)
  BY <1>2, <1>3, <1>8 DEF IsFold
<1>10. PICK chain : IsChain(chain, n, V, start, step, iter[1..n])
  BY <1>1, <1>9, FoldChain
<1>11. iter[DOMAIN changes] = FoldLeft(Track, [ids |-> Listed(cells), out |-> <<>>], changes)
  BY DEF iter, Eq, Body, start, FoldLeft, MapThenFoldSet
<1>12. chain \in [0..n -> V] /\ chain[0] = start /\ chain[n] = iter[1..n]
  BY <1>10 DEF IsChain
<1>13. \A k \in 1..n : chain[k] = Body(chain[k - 1], changes[k])
  <2> TAKE k \in 1..n
  <2>1. chain[k - 1] \in V
    BY <1>12
  <2>2. chain[k] = step[k][chain[k - 1]]
    BY <1>10 DEF IsChain
  <2> QED
    BY <1>2, <2>1, <2>2
<1> QED
  BY <1>11, <1>12, <1>13 DEF Body, start, Anchored, IsTracking

\* The steps of collecting the inverse of n changes.
IsUndo(chain, cells, changes, n) ==
  /\ chain[0] = [ok |-> TRUE, cells |-> cells, inverse |-> <<>>]
  /\ Inverted(cells, changes) = [ok |-> chain[n].ok, changes |-> chain[n].inverse]
  /\ \A k \in 1..n : chain[k] = Collect(chain[k - 1], changes[k])

LEMMA InvertedChain ==
  ASSUME NEW cells, NEW changes, NEW n \in Nat, DOMAIN changes = 1..n, NEW V,
         [ok |-> TRUE, cells |-> cells, inverse |-> <<>>] \in V,
         \A k \in 1..n : \A r \in V : Collect(r, changes[k]) \in V
  PROVE  \E chain \in [0..n -> V] : IsUndo(chain, cells, changes, n)
<1> DEFINE start == [ok |-> TRUE, cells |-> cells, inverse |-> <<>>]
           Body(r, x) == Collect(r, x)
           step == [k \in 1..n |-> [r \in V |-> Body(r, changes[k])]]
           Eq(g) == g = [s \in SUBSET DOMAIN changes |->
                           IF s = {} THEN start
                           ELSE LET x == Max(s) IN Body(g[s \ {x}], changes[x])]
           iter == CHOOSE g : Eq(g)
<1>1. step \in [1..n -> [V -> V]] /\ start \in V
  OBVIOUS
<1>2. \A k \in 1..n : \A r \in V : step[k][r] = Body(r, changes[k])
  OBVIOUS
<1>3. \A s \in SUBSET (1..n) : s # {} => Max(s) \in 1..n /\ s \ {Max(s)} \in SUBSET (1..n)
  BY LastIndex
<1> HIDE DEF step, start, Body
<1>4. PICK h : h \in [SUBSET (1..n) -> V] /\ IsFold(h, n, V, start, step)
  BY <1>1, FoldExists
<1>5. \A s \in SUBSET (1..n) :
        h[s] = IF s = {} THEN start ELSE Body(h[s \ {Max(s)}], changes[Max(s)])
  BY <1>2, <1>3, <1>4 DEF IsFold
<1>6. Eq(h)
  BY <1>4, <1>5
<1> HIDE DEF Eq
<1>7. Eq(iter)
  BY <1>6
<1> HIDE DEF iter
<1>8. \A s \in SUBSET (1..n) :
        iter[s] = IF s = {} THEN start ELSE Body(iter[s \ {Max(s)}], changes[Max(s)])
  BY <1>7 DEF Eq
<1>9. IsFold(iter, n, V, start, step)
  BY <1>2, <1>3, <1>8 DEF IsFold
<1>10. PICK chain : IsChain(chain, n, V, start, step, iter[1..n])
  BY <1>1, <1>9, FoldChain
<1>11. iter[DOMAIN changes] = FoldLeft(Collect, [ok |-> TRUE, cells |-> cells, inverse |-> <<>>], changes)
  BY DEF iter, Eq, Body, start, FoldLeft, MapThenFoldSet
<1>12. chain \in [0..n -> V] /\ chain[0] = start /\ chain[n] = iter[1..n]
  BY <1>10 DEF IsChain
<1>13. \A k \in 1..n : chain[k] = Body(chain[k - 1], changes[k])
  <2> TAKE k \in 1..n
  <2>1. chain[k - 1] \in V
    BY <1>12
  <2>2. chain[k] = step[k][chain[k - 1]]
    BY <1>10 DEF IsChain
  <2> QED
    BY <1>2, <2>1, <2>2
<1> QED
  BY <1>11, <1>12, <1>13 DEF Body, start, Inverted, IsUndo

-----------------------------------------------------------------------------
(* Lists. *)

\* The first element with a property.
LEMMA FirstIndex ==
  ASSUME NEW n \in Nat, NEW I \in SUBSET (1..n), I # {}
  PROVE  Min(I) \in I /\ \A i \in I : Min(I) <= i
<1>1. \E x \in I : \A y \in I : x <= y
  <2> SUFFICES ASSUME \A x \in I : \E y \in I : y < x PROVE FALSE
    OBVIOUS
  <2> DEFINE A == {k \in Nat : \A x \in I : x > k}
  <2>1. 0 \in A
    OBVIOUS
  <2>2. \A k \in Nat : k \in A => k + 1 \in A
    OBVIOUS
  <2> HIDE DEF A
  <2>3. n \in A
    BY <2>1, <2>2, Induction
  <2>4. PICK x \in I : TRUE
    OBVIOUS
  <2> QED
    BY <2>3, <2>4 DEF A
<1> QED
  BY <1>1 DEF Min

LEMMA PositionFound ==
  ASSUME NEW S, NEW cells \in Seq(S), NEW id
  PROVE  /\ id \in Ids(cells) =>
              /\ PositionOf(cells, id) \in 1..Len(cells)
              /\ cells[PositionOf(cells, id)].id = id
              /\ \A i \in 1..Len(cells) : cells[i].id = id => PositionOf(cells, id) <= i
         /\ id \notin Ids(cells) => PositionOf(cells, id) = 0
<1> DEFINE I == {i \in 1..Len(cells) : cells[i].id = id}
<1>1. PositionOf(cells, id) = IF I # {} THEN Min(I) ELSE 0
  BY DEF PositionOf, SelectInSeq
<1>2. I # {} <=> id \in Ids(cells)
  BY DEF Ids
<1>3. I # {} => Min(I) \in I /\ \A i \in I : Min(I) <= i
  <2>1. Len(cells) \in Nat /\ I \in SUBSET (1..Len(cells))
    OBVIOUS
  <2> HIDE DEF I
  <2> QED
    BY <2>1, FirstIndex
<1> QED
  BY <1>1, <1>2, <1>3

LEMMA JoinedSeq ==
  ASSUME NEW S, NEW a \in Seq(S), NEW b \in Seq(S)
  PROVE  /\ a \o b \in Seq(S) /\ Len(a \o b) = Len(a) + Len(b)
         /\ \A j \in 1..(Len(a) + Len(b)) : (a \o b)[j] = IF j <= Len(a) THEN a[j] ELSE b[j - Len(a)]
<1>1. a \o b \in Seq(S)
  OBVIOUS
<1>2. Len(a \o b) = Len(a) + Len(b)
  OBVIOUS
<1>3. \A j \in 1..(Len(a) + Len(b)) : (a \o b)[j] = IF j <= Len(a) THEN a[j] ELSE b[j - Len(a)]
  OBVIOUS
<1> QED
  BY <1>1, <1>2, <1>3

\* d is s with e put in at i.
IsInsertion(d, s, e, i) ==
  /\ Len(d) = Len(s) + 1
  /\ \A j \in 1..(Len(s) + 1) : d[j] = IF j < i THEN s[j] ELSE IF j = i THEN e ELSE s[j - 1]

LEMMA InsertAtSeq ==
  ASSUME NEW S, NEW s \in Seq(S), NEW e \in S, NEW i \in 1..(Len(s) + 1)
  PROVE  InsertAt(s, i, e) \in Seq(S) /\ IsInsertion(InsertAt(s, i, e), s, e, i)
<1> DEFINE a == SubSeq(s, 1, i - 1)
           b == SubSeq(s, i, Len(s))
<1>1. a \in Seq(S) /\ Len(a) = i - 1 /\ \A j \in 1..(i - 1) : a[j] = s[j]
  OBVIOUS
<1>2. b \in Seq(S) /\ Len(b) = Len(s) + 1 - i /\ \A j \in 1..(Len(s) + 1 - i) : b[j] = s[i + j - 1]
  OBVIOUS
<1> HIDE DEF a, b
<1> DEFINE ae == a \o <<e>>
<1>3. ae \in Seq(S) /\ Len(ae) = i /\ ae[i] = e /\ \A j \in 1..(i - 1) : ae[j] = s[j]
  BY <1>1
<1> HIDE DEF ae
<1> DEFINE aeb == ae \o b
<1>0. Len(s) \in Nat /\ i \in Nat /\ i >= 1 /\ i <= Len(s) + 1
  OBVIOUS
<1>40. aeb \in Seq(S) /\ Len(aeb) = Len(ae) + Len(b)
  BY <1>2, <1>3, JoinedSeq
<1>4. aeb \in Seq(S) /\ Len(aeb) = Len(s) + 1
  BY <1>0, <1>2, <1>3, <1>40
<1>5. \A j \in 1..(Len(s) + 1) : aeb[j] = IF j <= i THEN ae[j] ELSE b[j - i]
  BY <1>2, <1>3
<1> HIDE DEF aeb
<1>6. \A j \in 1..(Len(s) + 1) : aeb[j] = IF j < i THEN s[j] ELSE IF j = i THEN e ELSE s[j - 1]
  <2> TAKE j \in 1..(Len(s) + 1)
  <2>0. j \in Nat
    BY <1>0
  <2>1. CASE j < i
    BY <2>1, <1>3, <1>5
  <2>2. CASE j = i
    BY <2>2, <1>3, <1>5
  <2>3. CASE j > i
    <3>1. j - i \in 1..(Len(s) + 1 - i) /\ i + (j - i) - 1 = j - 1 /\ ~(j <= i) /\ ~(j < i) /\ j # i
      BY <1>0, <2>3
    <3>2. b[j - i] = s[j - 1]
      BY <3>1, <1>2
    <3> QED
      BY <3>1, <3>2, <1>5
  <2> QED
    BY <1>0, <2>0, <2>1, <2>2, <2>3
<1>7. InsertAt(s, i, e) = aeb
  BY DEF InsertAt, a, b, ae, aeb
<1> QED
  BY <1>4, <1>6, <1>7 DEF IsInsertion

LEMMA RemoveAtSeq ==
  ASSUME NEW S, NEW s \in Seq(S), NEW i \in 1..Len(s)
  PROVE  /\ RemoveAt(s, i) \in Seq(S) /\ Len(RemoveAt(s, i)) = Len(s) - 1
         /\ \A j \in 1..(Len(s) - 1) : RemoveAt(s, i)[j] = IF j < i THEN s[j] ELSE s[j + 1]
<1> DEFINE a == SubSeq(s, 1, i - 1)
           b == SubSeq(s, i + 1, Len(s))
<1>1. a \in Seq(S) /\ Len(a) = i - 1 /\ \A j \in 1..(i - 1) : a[j] = s[j]
  OBVIOUS
<1>2. b \in Seq(S) /\ Len(b) = Len(s) - i /\ \A j \in 1..(Len(s) - i) : b[j] = s[i + j]
  OBVIOUS
<1> HIDE DEF a, b
<1> DEFINE ab == a \o b
<1>0. Len(s) \in Nat /\ i \in Nat /\ i >= 1 /\ i <= Len(s)
  OBVIOUS
<1>40. ab \in Seq(S) /\ Len(ab) = Len(a) + Len(b)
  BY <1>1, <1>2, JoinedSeq
<1>4. ab \in Seq(S) /\ Len(ab) = Len(s) - 1
  BY <1>0, <1>1, <1>2, <1>40
<1>5. \A j \in 1..(Len(s) - 1) : ab[j] = IF j <= i - 1 THEN a[j] ELSE b[j - (i - 1)]
  BY <1>1, <1>2
<1> HIDE DEF ab
<1>6. \A j \in 1..(Len(s) - 1) : ab[j] = IF j < i THEN s[j] ELSE s[j + 1]
  <2> TAKE j \in 1..(Len(s) - 1)
  <2>0. j \in Nat
    BY <1>0
  <2>1. CASE j < i
    BY <2>1, <1>1, <1>5
  <2>2. CASE j >= i
    <3>1. j - (i - 1) \in 1..(Len(s) - i) /\ i + (j - (i - 1)) = j + 1 /\ ~(j < i) /\ ~(j <= i - 1)
      BY <1>0, <2>2
    <3>2. b[j - (i - 1)] = s[j + 1]
      BY <3>1, <1>2
    <3> QED
      BY <3>1, <3>2, <1>5
  <2> QED
    BY <1>0, <2>0, <2>1, <2>2
<1>7. RemoveAt(s, i) = ab
  BY DEF RemoveAt, a, b, ab
<1> QED
  BY <1>4, <1>6, <1>7

-----------------------------------------------------------------------------
(* What cells and changes are made of. *)

Change ==
  [op : {"insert"}, index : Nat, cell : Cell]
  \cup [op : {"insertRelative"}, anchor : CellId, after : BOOLEAN, cell : Cell]
  \cup [op : {"update"}, id : CellId, src : Source \cup {Keep}, kind : Kind \cup {Keep},
        refs : (SUBSET Ref) \cup {Keep}]
  \cup [op : {"delete", "clearOutputs"}, id : CellId]
  \cup [op : {"move"}, id : CellId, index : Nat]
  \cup [op : {"moveRelative"}, id : CellId, anchor : CellId, after : BOOLEAN]
Cells == Seq(Cell)
Changes == Seq(Change)

LEMMA IdsTyped ==
  ASSUME NEW cells \in Cells
  PROVE  /\ Ids(cells) \subseteq CellId
         /\ \A id \in Ids(cells) : CellOf(cells, id) \in Cell /\ CellOf(cells, id).id = id
<1>1. \A i \in 1..Len(cells) : cells[i] \in Cell
  BY DEF Cells
<1>2. Ids(cells) \subseteq CellId
  BY <1>1 DEF Ids, Cells, Cell
<1>3. \A id \in Ids(cells) : PositionOf(cells, id) \in 1..Len(cells)
                               /\ cells[PositionOf(cells, id)].id = id
  BY PositionFound DEF Cells
<1> QED
  BY <1>1, <1>2, <1>3 DEF CellOf

LEMMA PutSeq ==
  ASSUME NEW S, NEW list \in Seq(S), NEW index \in Nat, NEW item \in S
  PROVE  /\ Lesser(index, Len(list)) + 1 \in 1..(Len(list) + 1)
         /\ Put(list, index, item) \in Seq(S)
<1>1. Lesser(index, Len(list)) + 1 \in 1..(Len(list) + 1)
  BY DEF Lesser
<1> QED
  BY <1>1, InsertAtSeq DEF Put

LEMMA WithoutSeq ==
  ASSUME NEW S, NEW cells \in Seq(S), NEW id \in Ids(cells)
  PROVE  /\ Without(cells, id) \in Seq(S) /\ Len(Without(cells, id)) = Len(cells) - 1
         /\ \A j \in 1..(Len(cells) - 1) :
              Without(cells, id)[j] = IF j < PositionOf(cells, id) THEN cells[j] ELSE cells[j + 1]
         /\ Ids(cells) \ {id} \subseteq Ids(Without(cells, id))
         /\ Ids(Without(cells, id)) \subseteq Ids(cells)
<1> DEFINE p == PositionOf(cells, id)
           w == Without(cells, id)
<1>1. p \in 1..Len(cells) /\ cells[p].id = id /\ Len(cells) \in Nat
  BY PositionFound
<1> HIDE DEF p
<1>2. /\ w \in Seq(S) /\ Len(w) = Len(cells) - 1
      /\ \A j \in 1..(Len(cells) - 1) : w[j] = IF j < p THEN cells[j] ELSE cells[j + 1]
  BY <1>1, RemoveAtSeq DEF Without, p
<1> HIDE DEF w
<1>3. ASSUME NEW x \in Ids(cells), x # id PROVE x \in Ids(w)
  <2>1. PICK i \in 1..Len(cells) : cells[i].id = x
    BY DEF Ids
  <2>2. CASE i < p
    BY <1>1, <1>2, <2>1, <2>2 DEF Ids
  <2>3. CASE i > p
    <3>1. i - 1 \in 1..(Len(cells) - 1) /\ ~(i - 1 < p) /\ (i - 1) + 1 = i
      BY <1>1, <2>3
    <3>2. w[i - 1] = cells[i] /\ i - 1 \in DOMAIN w
      BY <1>2, <3>1
    <3> QED
      BY <2>1, <3>2 DEF Ids
  <2> QED
    BY <1>1, <1>3, <2>1, <2>2, <2>3
<1>4. ASSUME NEW x \in Ids(w) PROVE x \in Ids(cells)
  <2>1. PICK j \in 1..(Len(cells) - 1) : w[j].id = x
    BY <1>2 DEF Ids
  <2>2. j \in DOMAIN cells /\ j + 1 \in DOMAIN cells /\ w[j] \in {cells[j], cells[j + 1]}
    BY <1>1, <1>2
  <2> QED
    BY <2>1, <2>2 DEF Ids
<1> QED
  BY <1>2, <1>3, <1>4 DEF p, w

LEMMA BesideSeq ==
  ASSUME NEW S, NEW cells \in Seq(S), NEW anchor \in Ids(cells), NEW after \in BOOLEAN,
         NEW cell \in S
  PROVE  /\ PositionOf(cells, anchor) + (IF after THEN 1 ELSE 0) \in 1..(Len(cells) + 1)
         /\ Beside(cells, anchor, after, cell) \in Seq(S)
<1>1. PositionOf(cells, anchor) \in 1..Len(cells) /\ Len(cells) \in Nat
  BY PositionFound
<1>2. PositionOf(cells, anchor) + (IF after THEN 1 ELSE 0) \in 1..(Len(cells) + 1)
  BY <1>1
<1> QED
  BY <1>2, InsertAtSeq DEF Beside

LEMMA RewrittenTyped ==
  ASSUME NEW cell \in Cell, NEW ch \in Change, ch.op = "update"
  PROVE  Rewritten(cell, ch) \in Cell
<1>1. /\ ch.src \in Source \cup {Keep} /\ ch.kind \in Kind \cup {Keep}
      /\ ch.refs \in (SUBSET Ref) \cup {Keep}
  BY DEF Change
<1>2. /\ cell.id \in CellId /\ cell.src \in Source /\ cell.kind \in Kind
      /\ cell.refs \in SUBSET Ref /\ cell.out \in Nat
  BY DEF Cell
<1>3. /\ Chosen(ch.src, cell.src) \in Source /\ Chosen(ch.kind, cell.kind) \in Kind
      /\ Chosen(ch.refs, cell.refs) \in SUBSET Ref
  BY <1>1, <1>2 DEF Chosen
<1> QED
  BY <1>2, <1>3 DEF Rewritten, Cell

\* A change of cells it knows leaves cells.
LEMMA EffectTyped ==
  ASSUME NEW cells \in Cells, NEW ch \in Change, Named(ch) \subseteq Ids(cells),
         ch.op = "moveRelative" => ch.id # ch.anchor
  PROVE  Effect(cells, ch) \in Cells
<1> DEFINE p == PositionOf(cells, ch.id)
<1>1. CASE ch.op = "insert"
  <2>1. ch.index \in Nat /\ ch.cell \in Cell
    BY <1>1 DEF Change
  <2> QED
    BY <1>1, <2>1, PutSeq DEF Effect, Cells
<1>2. CASE ch.op = "insertRelative"
  <2>1. ch.anchor \in Ids(cells) /\ ch.after \in BOOLEAN /\ ch.cell \in Cell
    BY <1>2 DEF Change, Named
  <2> QED
    BY <1>2, <2>1, BesideSeq DEF Effect, Cells
<1>3. ch.op \notin {"insert", "insertRelative"} =>
        /\ ch.id \in Ids(cells) /\ p \in 1..Len(cells) /\ cells[p] \in Cell
        /\ CellOf(cells, ch.id) \in Cell
  <2> HAVE ch.op \notin {"insert", "insertRelative"}
  <2>1. ch.id \in Ids(cells)
    BY DEF Change, Named
  <2> QED
    BY <2>1, IdsTyped, PositionFound DEF CellOf, Cells
<1>4. CASE ch.op = "update"
  <2>1. Rewritten(cells[p], ch) \in Cell
    BY <1>3, <1>4, RewrittenTyped
  <2>2. Effect(cells, ch) = [cells EXCEPT ![p] = Rewritten(cells[p], ch)]
    BY <1>4 DEF Effect
  <2> QED
    BY <1>3, <1>4, <2>1, <2>2 DEF Cells
<1>5. CASE ch.op = "clearOutputs"
  <2>1. [cells[p] EXCEPT !.out = NoOutput] \in Cell
    BY <1>3, <1>5 DEF Cell, NoOutput
  <2>2. Effect(cells, ch) = [cells EXCEPT ![p] = [cells[p] EXCEPT !.out = NoOutput]]
    BY <1>5 DEF Effect
  <2> QED
    BY <1>3, <1>5, <2>1, <2>2 DEF Cells
<1>6. CASE ch.op = "delete"
  BY <1>3, <1>6, WithoutSeq DEF Effect, Cells
<1>7. CASE ch.op = "move"
  <2>1. ch.index \in Nat /\ Without(cells, ch.id) \in Seq(Cell) /\ CellOf(cells, ch.id) \in Cell
    BY <1>3, <1>7, WithoutSeq DEF Change, Cells
  <2> QED
    BY <1>7, <2>1, PutSeq DEF Effect, Cells
<1>8. CASE ch.op = "moveRelative"
  <2>1. ch.anchor \in Ids(cells) /\ ch.anchor # ch.id /\ ch.after \in BOOLEAN
    BY <1>8 DEF Change, Named
  <2>2. Without(cells, ch.id) \in Seq(Cell) /\ ch.anchor \in Ids(Without(cells, ch.id))
    BY <1>3, <1>8, <2>1, WithoutSeq DEF Cells
  <2> QED
    BY <1>3, <1>8, <2>1, <2>2, BesideSeq DEF Effect, Cells
<1> QED
  BY <1>1, <1>2, <1>4, <1>5, <1>6, <1>7, <1>8 DEF Change

-----------------------------------------------------------------------------
(* What the folds return. *)

LEMMA OnlySeq ==
  ASSUME NEW S, NEW kept, NEW list \in Seq(S)
  PROVE  Only(list, kept) \in Seq(S)
<1> DEFINE n == Len(list)
           V == Seq(S)
<1>1. n \in Nat /\ DOMAIN list = 1..n
  OBVIOUS
<1>2. Nothing \in V
  BY DEF Nothing
<1>3. \A k \in 1..n : \A r \in V : Sifted(kept, r, list[k]) \in V
  BY DEF Sifted
<1> HIDE DEF n, V
<1>4. PICK chain \in [0..n -> V] : IsSifting(chain, list, kept, n)
  BY <1>1, <1>2, <1>3, OnlyChain
<1> QED
  BY <1>1, <1>4 DEF V, IsSifting

\* No change may name one cell twice: the protocol refuses it.
Apart(changes) ==
  \A k \in DOMAIN changes : changes[k].op = "moveRelative" => changes[k].id # changes[k].anchor

LEMMA ApplyTyped ==
  ASSUME NEW cells \in Cells, NEW changes \in Changes, Apart(changes)
  PROVE  Apply(cells, changes) \in [ok : BOOLEAN, cells : Cells]
<1> DEFINE n == Len(changes)
           V == [ok : BOOLEAN, cells : Cells]
<1>1. n \in Nat /\ DOMAIN changes = 1..n /\ \A k \in 1..n : changes[k] \in Change
  BY DEF Changes
<1>2. [ok |-> TRUE, cells |-> cells] \in V
  OBVIOUS
<1>3. ASSUME NEW k \in 1..n, NEW r \in V PROVE ApplyOne(r, changes[k]) \in V
  <2>1. CASE r.ok /\ Named(changes[k]) \subseteq Ids(r.cells)
    <3>1. changes[k].op = "moveRelative" => changes[k].id # changes[k].anchor
      BY <1>1 DEF Apart
    <3>2. Effect(r.cells, changes[k]) \in Cells
      BY <1>1, <2>1, <3>1, EffectTyped
    <3> QED
      BY <2>1, <3>2 DEF ApplyOne
  <2>2. CASE ~(r.ok /\ Named(changes[k]) \subseteq Ids(r.cells))
    BY <2>2 DEF ApplyOne
  <2> QED
    BY <2>1, <2>2
<1> HIDE DEF n, V
<1>4. PICK chain \in [0..n -> V] : chain[n] = Apply(cells, changes)
  BY <1>1, <1>2, <1>3, ApplyChain
<1> QED
  BY <1>1, <1>4 DEF V

LEMMA AnchorTyped ==
  ASSUME NEW ids \in Seq(CellId), ids # <<>>, NEW at \in 0..Len(ids)
  PROVE  /\ Anchor(ids, at)[1] \in CellId /\ Anchor(ids, at)[2] \in BOOLEAN
<1>1. Lesser(at + 1, Len(ids)) \in 1..Len(ids)
  BY DEF Lesser
<1> QED
  BY <1>1 DEF Anchor

LEMMA TrackTyped ==
  ASSUME NEW r \in [ids : Seq(CellId), out : Changes], NEW ch \in Change
  PROVE  Track(r, ch) \in [ids : Seq(CellId), out : Changes]
<1> DEFINE V == [ids : Seq(CellId), out : Changes]
<1>0. r.ids \in Seq(CellId) /\ r.out \in Changes
  OBVIOUS
<1>1. \A c \in Change : Append(r.out, c) \in Changes
  BY DEF Changes
<1>2. CASE ch.op = "insert"
  <2> DEFINE at == Lesser(ch.index, Len(r.ids))
             a == Anchor(r.ids, at)
  <2>1. ch.index \in Nat /\ ch.cell \in Cell /\ ch.cell.id \in CellId
    BY <1>2 DEF Change, Cell
  <2>2. at \in 0..Len(r.ids)
    BY <2>1 DEF Lesser
  <2>3. Put(r.ids, at, ch.cell.id) \in Seq(CellId)
    BY <2>1, <2>2, PutSeq
  <2>4. r.ids # <<>> => a[1] \in CellId /\ a[2] \in BOOLEAN
    BY <1>0, <2>2, AnchorTyped
  <2> HIDE DEF a, at
  <2>5. r.ids # <<>> => InsertBeside(a[1], a[2], ch.cell) \in Change
    BY <2>1, <2>4 DEF InsertBeside, Change
  <2>6. Track(r, ch) = [ids |-> Put(r.ids, at, ch.cell.id),
                        out |-> Append(r.out, IF r.ids = <<>> THEN ch
                                              ELSE InsertBeside(a[1], a[2], ch.cell))]
    BY <1>2 DEF Track, a, at
  <2> QED
    BY <1>1, <2>3, <2>5, <2>6
<1>3. CASE ch.op = "move" /\ Contains(r.ids, ch.id)
  <2> DEFINE rest == RemoveFirst(r.ids, ch.id)
             at == Lesser(ch.index, Len(rest))
             a == Anchor(rest, at)
  <2>1. ch.index \in Nat /\ ch.id \in CellId
    BY <1>3 DEF Change
  <2>2. rest \in Seq(CellId)
    <3> DEFINE I == {i \in 1..Len(r.ids) : r.ids[i] = ch.id}
    <3>1. I # {} /\ Len(r.ids) \in Nat
      BY <1>0, <1>3 DEF Contains
    <3>2. Min(I) \in I
      BY <3>1, FirstIndex
    <3>3. rest = RemoveAt(r.ids, Min(I))
      BY <3>1 DEF RemoveFirst, SelectInSeq
    <3> QED
      BY <1>0, <3>2, <3>3, RemoveAtSeq
  <2> HIDE DEF rest
  <2>3. at \in 0..Len(rest)
    BY <2>1, <2>2 DEF Lesser
  <2>4. Put(rest, at, ch.id) \in Seq(CellId)
    BY <2>1, <2>2, <2>3, PutSeq
  <2>5. rest # <<>> => a[1] \in CellId /\ a[2] \in BOOLEAN
    BY <2>2, <2>3, AnchorTyped
  <2> HIDE DEF a, at
  <2>6. rest # <<>> => MoveBeside(ch.id, a[1], a[2]) \in Change
    BY <2>1, <2>5 DEF MoveBeside, Change
  <2>7. Track(r, ch) = [ids |-> Put(rest, at, ch.id),
                        out |-> Append(r.out, IF rest = <<>> THEN ch
                                              ELSE MoveBeside(ch.id, a[1], a[2]))]
    BY <1>3 DEF Track, a, at, rest
  <2> QED
    BY <1>1, <2>4, <2>6, <2>7
<1>4. CASE ch.op = "delete"
  <2>1. Only(r.ids, ToSet(r.ids) \ {ch.id}) \in Seq(CellId)
    BY <1>0, OnlySeq
  <2>2. Track(r, ch) = [ids |-> Only(r.ids, ToSet(r.ids) \ {ch.id}), out |-> Append(r.out, ch)]
    BY <1>4 DEF Track
  <2> QED
    BY <1>1, <2>1, <2>2
<1>5. CASE ch.op \notin {"insert", "delete"} /\ ~(ch.op = "move" /\ Contains(r.ids, ch.id))
  <2>1. Track(r, ch) = [r EXCEPT !.out = Append(r.out, ch)]
    BY <1>5 DEF Track
  <2> QED
    BY <1>1, <2>1
<1> QED
  BY <1>2, <1>3, <1>4, <1>5

LEMMA AnchoredTyped ==
  ASSUME NEW cells \in Cells, NEW changes \in Changes
  PROVE  Anchored(cells, changes) \in Changes
<1> DEFINE n == Len(changes)
           V == [ids : Seq(CellId), out : Changes]
<1>1. n \in Nat /\ DOMAIN changes = 1..n /\ \A k \in 1..n : changes[k] \in Change
  BY DEF Changes
<1>2. [ids |-> Listed(cells), out |-> <<>>] \in V
  <2>1. Listed(cells) \in Seq(CellId)
    <3>1. Len(cells) \in Nat /\ DOMAIN cells = 1..Len(cells)
      BY DEF Cells
    <3>2. \A i \in 1..Len(cells) : cells[i].id \in CellId
      <4>1. \A i \in 1..Len(cells) : cells[i] \in Cell
        BY DEF Cells
      <4> QED
        BY <4>1 DEF Cell
    <3>3. Listed(cells) \in [1..Len(cells) -> CellId]
      BY <3>1, <3>2 DEF Listed
    <3> QED
      BY <3>1, <3>3
  <2> QED
    BY <2>1 DEF Changes
<1>3. \A k \in 1..n : \A r \in V : Track(r, changes[k]) \in V
  BY <1>1, TrackTyped
<1> HIDE DEF n, V
<1>4. PICK chain \in [0..n -> V] : IsTracking(chain, cells, changes, n)
  BY <1>1, <1>2, <1>3, AnchoredChain
<1> QED
  BY <1>1, <1>4 DEF V, IsTracking

LEMMA InverseTyped ==
  ASSUME NEW cells \in Cells, NEW ch \in Change, ch.op \in Invertible,
         Named(ch) \subseteq Ids(cells)
  PROVE  InverseOf(cells, ch) \in Change
<1>1. CASE ch.op = "insert"
  <2>1. ch.cell.id \in CellId
    BY <1>1 DEF Change, Cell
  <2> QED
    BY <1>1, <2>1 DEF InverseOf, DeleteChange, Change
<1>2. ch.op # "insert" =>
        /\ ch.id \in CellId /\ CellOf(cells, ch.id) \in Cell
        /\ PositionOf(cells, ch.id) - 1 \in Nat
  <2> HAVE ch.op # "insert"
  <2>1. ch.id \in Ids(cells)
    BY DEF Change, Named, Invertible
  <2> QED
    BY <2>1, IdsTyped, PositionFound DEF Cells
<1>3. CASE ch.op = "update"
  <2> DEFINE old == CellOf(cells, ch.id)
  <2>1. ch.src \in Source \cup {Keep} /\ ch.kind \in Kind \cup {Keep}
          /\ ch.refs \in (SUBSET Ref) \cup {Keep}
    BY <1>3 DEF Change
  <2>2. old.src \in Source /\ old.kind \in Kind /\ old.refs \in SUBSET Ref
    BY <1>2, <1>3 DEF Cell
  <2> HIDE DEF old
  <2>3. /\ Former(ch.src, old.src) \in Source \cup {Keep}
        /\ Former(ch.kind, old.kind) \in Kind \cup {Keep}
        /\ Former(ch.refs, old.refs) \in (SUBSET Ref) \cup {Keep}
    BY <2>1, <2>2 DEF Former
  <2>4. InverseOf(cells, ch) = UpdateChange(ch.id, Former(ch.src, old.src),
                                 Former(ch.kind, old.kind), Former(ch.refs, old.refs))
    BY <1>3 DEF InverseOf, old
  <2> QED
    BY <1>2, <1>3, <2>3, <2>4 DEF UpdateChange, Change
<1>4. CASE ch.op = "delete"
  <2>1. InverseOf(cells, ch) = InsertChange(PositionOf(cells, ch.id) - 1, CellOf(cells, ch.id))
    BY <1>4 DEF InverseOf
  <2> QED
    BY <1>2, <1>4, <2>1 DEF InsertChange, Change
<1>5. CASE ch.op = "move"
  <2>1. InverseOf(cells, ch) = MoveChange(ch.id, PositionOf(cells, ch.id) - 1)
    BY <1>5 DEF InverseOf
  <2> QED
    BY <1>2, <1>5, <2>1 DEF MoveChange, Change
<1> QED
  BY <1>1, <1>3, <1>4, <1>5 DEF Invertible

LEMMA InvertedTyped ==
  ASSUME NEW cells \in Cells, NEW changes \in Changes
  PROVE  Inverted(cells, changes) \in [ok : BOOLEAN, changes : Changes]
<1> DEFINE n == Len(changes)
           V == [ok : BOOLEAN, cells : Cells, inverse : Changes]
<1>1. n \in Nat /\ DOMAIN changes = 1..n /\ \A k \in 1..n : changes[k] \in Change
  BY DEF Changes
<1>2. [ok |-> TRUE, cells |-> cells, inverse |-> <<>>] \in V
  BY DEF Changes
<1>3. ASSUME NEW k \in 1..n, NEW r \in V PROVE Collect(r, changes[k]) \in V
  <2> DEFINE ch == changes[k]
             inv == InverseOf(r.cells, ch)
  <2>1. CASE r.ok /\ ch.op \in Invertible /\ Named(ch) \subseteq Ids(r.cells)
    <3>1. Effect(r.cells, ch) \in Cells
      BY <1>1, <2>1, EffectTyped DEF Invertible
    <3>2. inv \in Change
      BY <1>1, <2>1, InverseTyped
    <3> HIDE DEF inv
    <3>3. <<inv>> \in Seq(Change) /\ r.inverse \in Seq(Change)
      BY <3>2 DEF Changes
    <3>4. <<inv>> \o r.inverse \in Changes
      BY <3>3, JoinedSeq DEF Changes
    <3>5. Collect(r, ch) = [ok |-> TRUE, cells |-> Effect(r.cells, ch),
                            inverse |-> <<inv>> \o r.inverse]
      BY <2>1 DEF Collect, inv
    <3> QED
      BY <3>1, <3>4, <3>5
  <2>2. CASE ~(r.ok /\ ch.op \in Invertible /\ Named(ch) \subseteq Ids(r.cells))
    BY <2>2 DEF Collect
  <2> QED
    BY <2>1, <2>2
<1> HIDE DEF n, V
<1>4. PICK chain \in [0..n -> V] : IsUndo(chain, cells, changes, n)
  BY <1>1, <1>2, <1>3, InvertedChain
<1>5. chain[n] \in V
  BY <1>1, <1>4
<1>6. Inverted(cells, changes) = [ok |-> chain[n].ok, changes |-> chain[n].inverse]
  BY <1>4 DEF IsUndo
<1> QED
  BY <1>5, <1>6 DEF V

-----------------------------------------------------------------------------
(* Lists in which no two cells have one id. *)

LEMMA SameList ==
  ASSUME NEW S, NEW a \in Seq(S), NEW b \in Seq(S), Len(a) = Len(b), \A i \in 1..Len(a) : a[i] = b[i]
  PROVE  a = b
OBVIOUS

LEMMA Found ==
  ASSUME NEW S, NEW c \in Seq(S), UniqueIds(c), NEW i \in 1..Len(c), NEW id, c[i].id = id
  PROVE  id \in Ids(c) /\ PositionOf(c, id) = i /\ CellOf(c, id) = c[i]
<1>1. id \in Ids(c)
  BY DEF Ids
<1>2. PositionOf(c, id) \in 1..Len(c) /\ c[PositionOf(c, id)].id = id
  BY <1>1, PositionFound
<1>3. PositionOf(c, id) = i
  BY <1>2 DEF UniqueIds
<1> QED
  BY <1>1, <1>3 DEF CellOf

LEMMA Inserting ==
  ASSUME NEW S, NEW c \in Seq(S), UniqueIds(c), NEW x \in S, x.id \notin Ids(c),
         NEW i \in 1..(Len(c) + 1)
  PROVE  LET d == InsertAt(c, i, x)
         IN /\ d \in Seq(S) /\ Len(d) = Len(c) + 1 /\ UniqueIds(d) /\ Ids(d) = Ids(c) \cup {x.id}
            /\ PositionOf(d, x.id) = i /\ CellOf(d, x.id) = x /\ Without(d, x.id) = c
<1> PICK d : d = InsertAt(c, i, x)
  OBVIOUS
<1>0. d \in Seq(S) /\ IsInsertion(d, c, x, i)
  BY InsertAtSeq
<1>1. /\ d \in Seq(S) /\ Len(d) = Len(c) + 1 /\ Len(c) \in Nat
      /\ \A j \in 1..(Len(c) + 1) : d[j] = IF j < i THEN c[j] ELSE IF j = i THEN x ELSE c[j - 1]
  BY <1>0 DEF IsInsertion
<1>2. i \in 1..Len(d) /\ d[i] = x /\ DOMAIN d = 1..Len(d) /\ DOMAIN c = 1..Len(c)
  BY <1>1
<1>3. \A j \in 1..Len(c) : c[j].id # x.id /\ c[j].id \in Ids(c)
  BY <1>2 DEF Ids
<1>4. \A j \in 1..Len(d) : \/ j = i
                           \/ j < i /\ j \in 1..Len(c) /\ d[j] = c[j]
                           \/ j > i /\ j - 1 \in 1..Len(c) /\ d[j] = c[j - 1]
  BY <1>1
<1>5. UniqueIds(d)
  <2> SUFFICES ASSUME NEW j \in 1..Len(d), NEW k \in 1..Len(d), d[j].id = d[k].id PROVE j = k
    BY <1>2 DEF UniqueIds
  <2>1. \A m, n \in 1..Len(c) : c[m].id = c[n].id => m = n
    BY <1>2 DEF UniqueIds
  <2>2. CASE j = i
    BY <1>2, <1>3, <1>4, <2>2
  <2>3. CASE k = i
    BY <1>2, <1>3, <1>4, <2>3
  <2>4. CASE j # i /\ k # i
    <3>1. /\ j < i => j \in 1..Len(c) /\ d[j] = c[j]
          /\ j > i => j - 1 \in 1..Len(c) /\ d[j] = c[j - 1]
          /\ k < i => k \in 1..Len(c) /\ d[k] = c[k]
          /\ k > i => k - 1 \in 1..Len(c) /\ d[k] = c[k - 1]
      BY <1>1, <1>4
    <3>2. j \in Int /\ k \in Int /\ i \in Int
      BY <1>1
    <3>3. CASE j < i /\ k < i
      BY <2>1, <3>1, <3>3
    <3>4. CASE j > i /\ k > i
      <4>1. j - 1 = k - 1
        BY <2>1, <3>1, <3>4
      <4> QED
        BY <3>2, <4>1
    <3>5. CASE j < i /\ k > i
      <4>1. j = k - 1
        BY <2>1, <3>1, <3>5
      <4> QED
        BY <3>2, <3>5, <4>1
    <3>6. CASE j > i /\ k < i
      <4>1. j - 1 = k
        BY <2>1, <3>1, <3>6
      <4> QED
        BY <3>2, <3>6, <4>1
    <3> QED
      BY <2>4, <3>2, <3>3, <3>4, <3>5, <3>6
  <2> QED
    BY <2>2, <2>3, <2>4
<1>6. Ids(d) = Ids(c) \cup {x.id}
  <2>1. ASSUME NEW id \in Ids(d) PROVE id \in Ids(c) \cup {x.id}
    <3>1. PICK j \in 1..Len(d) : d[j].id = id
      BY <1>2, <2>1 DEF Ids
    <3> QED
      BY <1>2, <1>3, <1>4, <3>1
  <2>2. ASSUME NEW id \in Ids(c) PROVE id \in Ids(d)
    <3>1. PICK j \in 1..Len(c) : c[j].id = id
      BY <1>2, <2>2 DEF Ids
    <3>2. CASE j < i
      <4>1. j \in 1..Len(d) /\ d[j] = c[j]
        BY <1>1, <3>2
      <4> QED
        BY <1>2, <3>1, <4>1 DEF Ids
    <3>3. CASE ~(j < i)
      <4>1. j + 1 \in 1..Len(d) /\ d[j + 1] = c[j]
        <5>1. j + 1 \in 1..(Len(c) + 1) /\ ~(j + 1 < i) /\ j + 1 # i /\ (j + 1) - 1 = j
          BY <1>1, <3>3
        <5> QED
          BY <1>1, <5>1
      <4> QED
        BY <1>2, <3>1, <4>1 DEF Ids
    <3> QED
      BY <3>2, <3>3
  <2>3. x.id \in Ids(d)
    BY <1>2 DEF Ids
  <2> QED
    BY <2>1, <2>2, <2>3
<1>7. PositionOf(d, x.id) = i /\ CellOf(d, x.id) = x
  BY <1>1, <1>2, <1>5, Found, SMTT(20)
<1>8. Without(d, x.id) = c
  <2> PICK w : w = RemoveAt(d, i)
    OBVIOUS
  <2>1. /\ w \in Seq(S) /\ Len(w) = Len(d) - 1
        /\ \A j \in 1..(Len(d) - 1) : w[j] = IF j < i THEN d[j] ELSE d[j + 1]
    BY <1>1, <1>2, RemoveAtSeq
  <2>2. Len(w) = Len(c)
    BY <1>1, <2>1
  <2>3. ASSUME NEW j \in 1..Len(w) PROVE w[j] = c[j]
    <3>1. CASE j < i
      BY <1>1, <2>1, <2>2, <3>1
    <3>2. CASE ~(j < i)
      <4>1. j + 1 \in 1..(Len(c) + 1) /\ ~(j + 1 < i) /\ j + 1 # i /\ (j + 1) - 1 = j
        BY <1>1, <2>2, <3>2
      <4>2. w[j] = d[j + 1]
        BY <1>1, <2>1, <2>2, <3>2
      <4> QED
        BY <1>1, <4>1, <4>2
    <3> QED
      BY <3>1, <3>2
  <2>4. w = c
    BY <2>1, <2>2, <2>3, SameList
  <2> QED
    BY <1>7, <2>4 DEF Without
<1> QED
  BY <1>1, <1>5, <1>6, <1>7, <1>8

LEMMA PuttingBack ==
  ASSUME NEW S, NEW w \in Seq(S), NEW x \in S, NEW p \in 1..(Len(w) + 1)
  PROVE  \A c \in Seq(S) :
           (/\ Len(c) = Len(w) + 1 /\ c[p] = x
            /\ \A j \in 1..Len(w) : w[j] = IF j < p THEN c[j] ELSE c[j + 1])
           => InsertAt(w, p, x) = c
<1> PICK d : d = InsertAt(w, p, x)
  OBVIOUS
<1>0. d \in Seq(S) /\ IsInsertion(d, w, x, p)
  BY InsertAtSeq
<1>1. /\ d \in Seq(S) /\ Len(d) = Len(w) + 1 /\ Len(w) \in Nat
      /\ \A j \in 1..(Len(w) + 1) : d[j] = IF j < p THEN w[j] ELSE IF j = p THEN x ELSE w[j - 1]
  BY <1>0 DEF IsInsertion
<1> SUFFICES ASSUME NEW c \in Seq(S), Len(c) = Len(w) + 1, c[p] = x,
                    \A j \in 1..Len(w) : w[j] = IF j < p THEN c[j] ELSE c[j + 1]
             PROVE  d = c
  OBVIOUS
<1>2. ASSUME NEW j \in 1..Len(d) PROVE d[j] = c[j]
  <2>1. CASE j < p
    <3>1. j \in 1..Len(w) /\ j \in 1..(Len(w) + 1)
      BY <1>1, <2>1
    <3> QED
      BY <1>1, <2>1, <3>1
  <2>2. CASE j = p
    BY <1>1, <2>2
  <2>3. CASE j > p
    <3>1. j - 1 \in 1..Len(w) /\ ~(j - 1 < p) /\ (j - 1) + 1 = j /\ ~(j < p) /\ j # p
      BY <1>1, <2>3
    <3>2. d[j] = w[j - 1]
      BY <1>1, <3>1
    <3> QED
      BY <1>1, <3>1, <3>2
  <2> QED
    BY <1>1, <2>1, <2>2, <2>3
<1> QED
  BY <1>1, <1>2, SameList

LEMMA Removing ==
  ASSUME NEW S, NEW c \in Seq(S), UniqueIds(c), NEW id \in Ids(c)
  PROVE  LET w == Without(c, id)
             p == PositionOf(c, id)
         IN /\ w \in Seq(S) /\ Len(w) = Len(c) - 1 /\ UniqueIds(w) /\ Ids(w) = Ids(c) \ {id}
            /\ p \in 1..Len(c) /\ p \in 1..(Len(w) + 1) /\ CellOf(c, id) \in S /\ CellOf(c, id).id = id
            /\ InsertAt(w, p, CellOf(c, id)) = c
            /\ \A j \in 1..Len(w) : w[j] = IF j < p THEN c[j] ELSE c[j + 1]
<1> PICK w : w = Without(c, id)
  OBVIOUS
<1> PICK p : p = PositionOf(c, id)
  OBVIOUS
<1>1. /\ w \in Seq(S) /\ Len(w) = Len(c) - 1 /\ Len(c) \in Nat
      /\ \A j \in 1..(Len(c) - 1) : w[j] = IF j < p THEN c[j] ELSE c[j + 1]
      /\ Ids(c) \ {id} \subseteq Ids(w) /\ Ids(w) \subseteq Ids(c)
  BY WithoutSeq
<1>2. p \in 1..Len(c) /\ c[p].id = id /\ c[p] \in S /\ CellOf(c, id) = c[p]
  BY PositionFound DEF CellOf
<1>3. DOMAIN w = 1..(Len(c) - 1) /\ DOMAIN c = 1..Len(c)
  BY <1>1
<1>4. \A j \in 1..(Len(c) - 1) : \/ j < p /\ j \in 1..Len(c) /\ w[j] = c[j]
                                 \/ j >= p /\ j + 1 \in 1..Len(c) /\ w[j] = c[j + 1]
  BY <1>1, <1>2
<1>5. \A m, n \in 1..Len(c) : c[m].id = c[n].id => m = n
  BY <1>3 DEF UniqueIds
<1>6. UniqueIds(w)
  <2> SUFFICES ASSUME NEW j \in 1..(Len(c) - 1), NEW k \in 1..(Len(c) - 1), w[j].id = w[k].id
               PROVE  j = k
    BY <1>3 DEF UniqueIds
  <2>1. /\ j < p => j \in 1..Len(c) /\ w[j] = c[j]
        /\ j >= p => j + 1 \in 1..Len(c) /\ w[j] = c[j + 1]
        /\ k < p => k \in 1..Len(c) /\ w[k] = c[k]
        /\ k >= p => k + 1 \in 1..Len(c) /\ w[k] = c[k + 1]
    BY <1>2, <1>4
  <2>2. j \in Int /\ k \in Int /\ p \in Int
    BY <1>1, <1>2
  <2>3. CASE j < p /\ k < p
    BY <1>5, <2>1, <2>3
  <2>4. CASE j >= p /\ k >= p
    <3>1. j + 1 = k + 1
      BY <1>5, <2>1, <2>4
    <3> QED
      BY <2>2, <3>1
  <2>5. CASE j < p /\ k >= p
    <3>1. j = k + 1
      BY <1>5, <2>1, <2>5
    <3> QED
      BY <2>2, <2>5, <3>1
  <2>6. CASE j >= p /\ k < p
    <3>1. j + 1 = k
      BY <1>5, <2>1, <2>6
    <3> QED
      BY <2>2, <2>6, <3>1
  <2> QED
    BY <2>2, <2>3, <2>4, <2>5, <2>6
<1>7. id \notin Ids(w)
  <2> SUFFICES ASSUME NEW j \in 1..(Len(c) - 1), w[j].id = id PROVE FALSE
    BY <1>3 DEF Ids
  <2> QED
    BY <1>2, <1>4, <1>5
<1>8. InsertAt(w, p, c[p]) = c
  <2> PICK x \in S : x = c[p]
    BY <1>2
  <2>1. w \in Seq(S) /\ p \in 1..(Len(w) + 1) /\ Len(c) = Len(w) + 1 /\ c[p] = x
    BY <1>1, <1>2
  <2>2. \A j \in 1..Len(w) : w[j] = IF j < p THEN c[j] ELSE c[j + 1]
    BY <1>1
  <2> QED
    BY <2>1, <2>2, PuttingBack
<1>9. Ids(w) = Ids(c) \ {id}
  BY <1>1, <1>7
<1>10. p \in 1..(Len(w) + 1) /\ \A j \in 1..Len(w) : w[j] = IF j < p THEN c[j] ELSE c[j + 1]
  BY <1>1, <1>2
<1> QED
  BY <1>1, <1>2, <1>6, <1>8, <1>9, <1>10

\* A cell is replaced by one with its id.
ReplacedAt(c, p, x) == [c EXCEPT ![p] = x]
LEMMA ReplacingOne ==
  ASSUME NEW S, NEW c \in Seq(S), UniqueIds(c), NEW p \in 1..Len(c), NEW x \in S, x.id = c[p].id
  PROVE  /\ ReplacedAt(c, p, x) \in Seq(S) /\ UniqueIds(ReplacedAt(c, p, x))
         /\ Ids(ReplacedAt(c, p, x)) = Ids(c) /\ ReplacedAt(c, p, x)[p] = x
         /\ PositionOf(ReplacedAt(c, p, x), x.id) = p
         /\ ReplacedAt(ReplacedAt(c, p, x), p, c[p]) = c
<1> PICK d : d = ReplacedAt(c, p, x)
  OBVIOUS
<1>1. /\ d \in Seq(S) /\ Len(d) = Len(c) /\ d[p] = x /\ DOMAIN d = DOMAIN c
      /\ \A j \in 1..Len(c) : d[j] = IF j = p THEN x ELSE c[j]
  BY DEF ReplacedAt
<1>2. DOMAIN c = 1..Len(c) /\ \A j \in DOMAIN c : d[j].id = c[j].id
  BY <1>1
<1>3. UniqueIds(d) /\ Ids(d) = Ids(c)
  BY <1>1, <1>2 DEF UniqueIds, Ids
<1>4. PositionOf(d, x.id) = p
  <2>1. p \in 1..Len(d)
    BY <1>1
  <2> QED
    BY <1>1, <1>3, <2>1, Found
<1>5. ReplacedAt(d, p, c[p]) = c
  <2> PICK e : e = ReplacedAt(d, p, c[p])
    OBVIOUS
  <2>1. c[p] \in S
    OBVIOUS
  <2>2. e \in Seq(S) /\ Len(e) = Len(c)
    BY <1>1, <2>1 DEF ReplacedAt
  <2>3. \A j \in 1..Len(e) : e[j] = c[j]
    BY <1>1, <2>2 DEF ReplacedAt
  <2> QED
    BY <2>2, <2>3, SameList
<1> QED
  BY <1>1, <1>3, <1>4, <1>5

-----------------------------------------------------------------------------
(* One change of the editor's. *)

EditorOps == {"insert", "update", "delete", "move", "clearOutputs"}

Cleared(cell) == [cell EXCEPT !.out = NoOutput]

\* A change for a list: it names a cell that is there, or inserts one whose id
\* is not; the cells it makes are of S.
Fits(S, cells, ch) ==
  /\ ch \in Change /\ ch.op \in EditorOps
  /\ ch.op = "insert" => ch.cell \in S /\ ch.cell.id \notin Ids(cells)
  /\ ch.op # "insert" => ch.id \in Ids(cells)
  /\ ch.op = "update" => Rewritten(CellOf(cells, ch.id), ch) \in S
  /\ ch.op = "clearOutputs" => Cleared(CellOf(cells, ch.id)) \in S

IdsAfter(cells, ch) ==
  IF ch.op = "insert" THEN Ids(cells) \cup {ch.cell.id}
  ELSE IF ch.op = "delete" THEN Ids(cells) \ {ch.id} ELSE Ids(cells)

LEMMA FitsTyped ==
  ASSUME NEW S, NEW cells, NEW ch, Fits(S, cells, ch)
  PROVE  /\ ch.op \in {"insert", "move"} => ch.index \in Nat
         /\ ch.op = "insert" => ch.cell \in Cell
BY DEF Fits, EditorOps, Change

LEMMA PutUnique ==
  ASSUME NEW S, NEW c \in Seq(S), UniqueIds(c), NEW x \in S, x.id \notin Ids(c), NEW index \in Nat
  PROVE  LET d == Put(c, index, x)
         IN /\ d \in Seq(S) /\ UniqueIds(d) /\ Ids(d) = Ids(c) \cup {x.id}
            /\ PositionOf(d, x.id) = Lesser(index, Len(c)) + 1 /\ CellOf(d, x.id) = x
            /\ Without(d, x.id) = c
<1> PICK i : i = Lesser(index, Len(c)) + 1
  OBVIOUS
<1>1. i \in 1..(Len(c) + 1)
  BY DEF Lesser
<1> QED
  BY <1>1, Inserting DEF Put

LEMMA EffectUnique ==
  ASSUME NEW S \in SUBSET Cell, NEW cells \in Seq(S), UniqueIds(cells), NEW ch, Fits(S, cells, ch)
  PROVE  /\ Effect(cells, ch) \in Seq(S) /\ UniqueIds(Effect(cells, ch))
         /\ Ids(Effect(cells, ch)) = IdsAfter(cells, ch)
<1>1. CASE ch.op = "insert"
  <2>1. ch.cell \in S /\ ch.cell.id \notin Ids(cells) /\ ch.index \in Nat
    BY <1>1, FitsTyped DEF Fits
  <2> PICK x \in S : x = ch.cell
    BY <2>1
  <2> PICK index \in Nat : index = ch.index
    BY <2>1
  <2>2. /\ Put(cells, index, x) \in Seq(S) /\ UniqueIds(Put(cells, index, x))
        /\ Ids(Put(cells, index, x)) = Ids(cells) \cup {x.id}
    <3>1. x.id \notin Ids(cells)
      BY <2>1
    <3> QED
      BY ONLY <3>1, UniqueIds(cells), cells \in Seq(S), x \in S, index \in Nat, PutUnique
  <2> QED
    BY <1>1, <2>2 DEF Effect, IdsAfter
<1>2. ASSUME ch.op # "insert"
      PROVE  LET p == PositionOf(cells, ch.id)
             IN /\ ch.id \in Ids(cells) /\ p \in 1..Len(cells) /\ cells[p].id = ch.id /\ cells[p] \in S
                /\ CellOf(cells, ch.id) = cells[p] /\ cells[p] \in Cell
  <2>1. ch.id \in Ids(cells)
    BY <1>2 DEF Fits
  <2>2. PositionOf(cells, ch.id) \in 1..Len(cells) /\ cells[PositionOf(cells, ch.id)].id = ch.id
    BY <2>1, PositionFound
  <2> QED
    BY <2>1, <2>2 DEF CellOf
<1> PICK p : p = PositionOf(cells, ch.id)
  OBVIOUS
<1> PICK old : old = cells[p]
  OBVIOUS
<1>3. CASE ch.op = "update"
  <2> PICK x : x = Rewritten(old, ch)
    OBVIOUS
  <2>1. x \in S /\ x.id = cells[p].id /\ p \in 1..Len(cells)
    BY <1>2, <1>3 DEF Fits, Rewritten, Cell
  <2>2. Effect(cells, ch) = [cells EXCEPT ![p] = x]
    BY <1>3 DEF Effect
  <2> PICK y \in S : y = x
    BY <2>1
  <2> PICK d : d = ReplacedAt(cells, p, y)
    OBVIOUS
  <2>3. d \in Seq(S) /\ UniqueIds(d) /\ Ids(d) = Ids(cells)
    BY <2>1, ReplacingOne
  <2> QED
    BY <1>3, <2>2, <2>3 DEF IdsAfter, ReplacedAt
<1>4. CASE ch.op = "clearOutputs"
  <2>1. p \in 1..Len(cells) /\ old \in Cell /\ old.id = cells[p].id /\ Cleared(old) \in S
    BY <1>2, <1>4 DEF Fits
  <2>2. Cleared(old).id = old.id
    BY <2>1 DEF Cell, Cleared
  <2> PICK y \in S : y = Cleared(old)
    BY <2>1
  <2>3. y.id = cells[p].id
    BY <2>1, <2>2
  <2>4. Effect(cells, ch) = ReplacedAt(cells, p, y)
    BY <1>2, <1>4, <2>1 DEF Effect, ReplacedAt, Cleared
  <2> PICK d : d = ReplacedAt(cells, p, y)
    OBVIOUS
  <2>5. d \in Seq(S) /\ UniqueIds(d) /\ Ids(d) = Ids(cells)
    BY <2>1, <2>3, ReplacingOne
  <2> QED
    BY <1>4, <2>4, <2>5 DEF IdsAfter
<1>5. CASE ch.op = "delete"
  <2>1. ch.id \in Ids(cells)
    BY <1>2, <1>5
  <2>2. /\ Without(cells, ch.id) \in Seq(S) /\ UniqueIds(Without(cells, ch.id))
        /\ Ids(Without(cells, ch.id)) = Ids(cells) \ {ch.id}
    BY <2>1, Removing
  <2> QED
    BY <1>5, <2>2 DEF Effect, IdsAfter
<1>6. CASE ch.op = "move"
  <2>1. ch.id \in Ids(cells) /\ ch.index \in Nat
    BY <1>2, <1>6, FitsTyped
  <2> PICK w : w = Without(cells, ch.id)
    OBVIOUS
  <2> PICK x : x = CellOf(cells, ch.id)
    OBVIOUS
  <2> PICK index \in Nat : index = ch.index
    BY <2>1
  <2>2. w \in Seq(S) /\ UniqueIds(w) /\ Ids(w) = Ids(cells) \ {ch.id} /\ x \in S /\ x.id = ch.id
    BY <2>1, Removing
  <2> PICK y \in S : y = x
    BY <2>2
  <2> PICK u \in Seq(S) : u = w
    BY <2>2
  <2>4. UniqueIds(u) /\ y.id \notin Ids(u)
    BY <2>2
  <2>3. /\ Put(u, index, y) \in Seq(S) /\ UniqueIds(Put(u, index, y))
        /\ Ids(Put(u, index, y)) = Ids(u) \cup {y.id}
    BY ONLY <2>4, u \in Seq(S), y \in S, index \in Nat, PutUnique
  <2> QED
    BY <1>6, <2>1, <2>2, <2>3 DEF Effect, IdsAfter
<1> QED
  BY <1>1, <1>3, <1>4, <1>5, <1>6 DEF Fits, EditorOps

LEMMA SameCell ==
  ASSUME NEW x \in Cell, NEW y \in Cell, y.id = x.id, y.src = x.src, y.kind = x.kind,
         y.refs = x.refs, y.out = x.out
  PROVE  y = x
BY DEF Cell

LEMMA RewrittenFields ==
  ASSUME NEW x \in Cell, NEW ch, ch.src \in Source \cup {Keep}, ch.kind \in Kind \cup {Keep},
         ch.refs \in (SUBSET Ref) \cup {Keep}
  PROVE  /\ Rewritten(x, ch) \in Cell
         /\ Rewritten(x, ch).id = x.id /\ Rewritten(x, ch).src = Chosen(ch.src, x.src)
         /\ Rewritten(x, ch).kind = Chosen(ch.kind, x.kind)
         /\ Rewritten(x, ch).refs = Chosen(ch.refs, x.refs) /\ Rewritten(x, ch).out = x.out
<1>1. x.src \in Source /\ x.kind \in Kind /\ x.refs \in SUBSET Ref
  BY DEF Cell
<1>2. /\ Chosen(ch.src, x.src) \in Source /\ Chosen(ch.kind, x.kind) \in Kind
      /\ Chosen(ch.refs, x.refs) \in SUBSET Ref
  BY <1>1 DEF Chosen
<1> PICK a \in Source : a = Chosen(ch.src, x.src)
  BY <1>2
<1> PICK b \in Kind : b = Chosen(ch.kind, x.kind)
  BY <1>2
<1> PICK c \in SUBSET Ref : c = Chosen(ch.refs, x.refs)
  BY <1>2
<1> PICK y : y = [x EXCEPT !.src = a, !.kind = b, !.refs = c]
  OBVIOUS
<1>3. y \in Cell /\ y.id = x.id /\ y.src = a /\ y.kind = b /\ y.refs = c /\ y.out = x.out
  BY DEF Cell
<1>4. Rewritten(x, ch) = y
  BY DEF Rewritten
<1> QED
  BY <1>3, <1>4

\* What an update rewrote, its inverse rewrites back.
LEMMA RewrittenBack ==
  ASSUME NEW x \in Cell, NEW ch \in Change, ch.op = "update"
  PROVE  Rewritten(Rewritten(x, ch), UpdateChange(ch.id, Former(ch.src, x.src), Former(ch.kind, x.kind),
                                                   Former(ch.refs, x.refs))) = x
<1> USE CellsAssumption
<1>1. /\ ch.src \in Source \cup {Keep} /\ ch.kind \in Kind \cup {Keep}
      /\ ch.refs \in (SUBSET Ref) \cup {Keep}
  BY DEF Change
<1>2. /\ x.src \in Source /\ x.kind \in Kind /\ x.refs \in SUBSET Ref
      /\ x.src # Keep /\ x.kind # Keep /\ x.refs # Keep
  BY DEF Cell
<1>3. /\ Chosen(Former(ch.src, x.src), Chosen(ch.src, x.src)) = x.src
      /\ Chosen(Former(ch.kind, x.kind), Chosen(ch.kind, x.kind)) = x.kind
      /\ Chosen(Former(ch.refs, x.refs), Chosen(ch.refs, x.refs)) = x.refs
  BY <1>2 DEF Chosen, Former
<1>4. /\ Former(ch.src, x.src) \in Source \cup {Keep} /\ Former(ch.kind, x.kind) \in Kind \cup {Keep}
      /\ Former(ch.refs, x.refs) \in (SUBSET Ref) \cup {Keep}
  BY <1>2 DEF Former
<1> PICK back : back = UpdateChange(ch.id, Former(ch.src, x.src), Former(ch.kind, x.kind),
                                    Former(ch.refs, x.refs))
  OBVIOUS
<1>5. /\ back.src = Former(ch.src, x.src) /\ back.kind = Former(ch.kind, x.kind)
      /\ back.refs = Former(ch.refs, x.refs)
  BY DEF UpdateChange
<1> PICK y : y = Rewritten(x, ch)
  OBVIOUS
<1>6. /\ y \in Cell /\ y.id = x.id /\ y.src = Chosen(ch.src, x.src) /\ y.kind = Chosen(ch.kind, x.kind)
      /\ y.refs = Chosen(ch.refs, x.refs) /\ y.out = x.out
  BY <1>1, RewrittenFields
<1> PICK z : z = Rewritten(y, back)
  OBVIOUS
<1>7. /\ back.src \in Source \cup {Keep} /\ back.kind \in Kind \cup {Keep}
      /\ back.refs \in (SUBSET Ref) \cup {Keep}
  BY <1>4, <1>5
<1>8. /\ z \in Cell /\ z.id = y.id /\ z.src = Chosen(back.src, y.src) /\ z.kind = Chosen(back.kind, y.kind)
      /\ z.refs = Chosen(back.refs, y.refs) /\ z.out = y.out
  BY <1>6, <1>7, RewrittenFields
<1>9. z = x
  BY <1>3, <1>5, <1>6, <1>8, SameCell
<1> QED
  BY <1>9

\* The inverse of a change can be made after it, and takes it back.
LEMMA InverseRestoresOne ==
  ASSUME NEW cells \in Cells, UniqueIds(cells), NEW ch, Fits(Cell, cells, ch), ch.op \in Invertible
  PROVE  /\ Named(InverseOf(cells, ch)) \subseteq Ids(Effect(cells, ch))
         /\ Effect(Effect(cells, ch), InverseOf(cells, ch)) = cells
<1>0. cells \in Seq(Cell)
  BY DEF Cells
<1>1. CASE ch.op = "insert"
  <2>1. ch.cell \in Cell /\ ch.cell.id \notin Ids(cells) /\ ch.index \in Nat
    BY <1>1, FitsTyped DEF Fits
  <2> PICK x \in Cell : x = ch.cell
    BY <2>1
  <2> PICK index \in Nat : index = ch.index
    BY <2>1
  <2> PICK d : d = Put(cells, index, x)
    OBVIOUS
  <2>2. Without(d, x.id) = cells /\ x.id \in Ids(d)
    BY <1>0, <2>1, PutUnique
  <2>3. Effect(cells, ch) = d /\ InverseOf(cells, ch) = DeleteChange(x.id)
    BY <1>1 DEF Effect, InverseOf
  <2>4. Effect(d, DeleteChange(x.id)) = Without(d, x.id)
    BY DEF Effect, DeleteChange
  <2>5. Named(DeleteChange(x.id)) = {x.id}
    BY DEF Named, DeleteChange
  <2> QED
    BY <2>2, <2>3, <2>4, <2>5
<1>2. ASSUME ch.op # "insert"
      PROVE  LET p == PositionOf(cells, ch.id)
             IN /\ ch.id \in Ids(cells) /\ p \in 1..Len(cells) /\ cells[p].id = ch.id
                /\ CellOf(cells, ch.id) = cells[p] /\ cells[p] \in Cell
  <2>1. ch.id \in Ids(cells)
    BY <1>2 DEF Fits
  <2>2. PositionOf(cells, ch.id) \in 1..Len(cells) /\ cells[PositionOf(cells, ch.id)].id = ch.id
    BY <1>0, <2>1, PositionFound
  <2> QED
    BY <1>0, <2>1, <2>2 DEF CellOf
<1> PICK p : p = PositionOf(cells, ch.id)
  OBVIOUS
<1> PICK old : old = cells[p]
  OBVIOUS
<1>3. CASE ch.op = "update"
  <2> PICK x : x = Rewritten(old, ch)
    OBVIOUS
  <2> PICK back : back = UpdateChange(ch.id, Former(ch.src, old.src), Former(ch.kind, old.kind),
                                      Former(ch.refs, old.refs))
    OBVIOUS
  <2>1. x \in Cell /\ x.id = cells[p].id /\ p \in 1..Len(cells) /\ ch \in Change /\ old.id = ch.id
        /\ old \in Cell
    BY <1>2, <1>3 DEF Fits, Rewritten, Cell
  <2> PICK y \in Cell : y = x
    BY <2>1
  <2> PICK d : d = ReplacedAt(cells, p, y)
    OBVIOUS
  <2>2. /\ Ids(d) = Ids(cells) /\ PositionOf(d, x.id) = p /\ d[p] = x
        /\ ReplacedAt(d, p, old) = cells
    BY <1>0, <2>1, ReplacingOne
  <2>3. Effect(cells, ch) = d /\ InverseOf(cells, ch) = back
    BY <1>2, <1>3 DEF Effect, InverseOf, ReplacedAt
  <2>4. Rewritten(x, back) = old
    BY <1>3, <2>1, RewrittenBack
  <2>5. back.op = "update" /\ back.id = ch.id /\ Named(back) = {ch.id}
    BY DEF UpdateChange, Named
  <2>6. Effect(d, back) = ReplacedAt(d, p, old)
    <3>1. PositionOf(d, back.id) = p /\ Rewritten(d[p], back) = old
      BY <1>2, <1>3, <2>1, <2>2, <2>4, <2>5
    <3>2. Effect(d, back) = [d EXCEPT ![PositionOf(d, back.id)] = Rewritten(d[PositionOf(d, back.id)], back)]
      BY <2>5 DEF Effect
    <3> QED
      BY <3>1, <3>2, ZenonT(40) DEF ReplacedAt
  <2> QED
    BY <1>2, <1>3, <2>2, <2>3, <2>5, <2>6
<1>5. CASE ch.op = "delete"
  <2> PICK w : w = Without(cells, ch.id)
    OBVIOUS
  <2>1. ch.id \in Ids(cells) /\ p \in 1..Len(cells) /\ CellOf(cells, ch.id) = old
    BY <1>2, <1>5
  <2>2. w \in Seq(Cell) /\ p \in 1..(Len(w) + 1) /\ InsertAt(w, p, CellOf(cells, ch.id)) = cells
    BY <1>0, <2>1, Removing
  <2>3. Effect(cells, ch) = w /\ InverseOf(cells, ch) = InsertChange(p - 1, old)
    BY <1>5, <2>1 DEF Effect, InverseOf
  <2>4. Lesser(p - 1, Len(w)) + 1 = p
    BY <2>2 DEF Lesser
  <2>5. Effect(w, InsertChange(p - 1, old)) = InsertAt(w, p, old) /\ Named(InsertChange(p - 1, old)) = {}
    BY <2>4 DEF Effect, InsertChange, Put, Named
  <2> QED
    BY <2>1, <2>2, <2>3, <2>5
<1>6. CASE ch.op = "move"
  <2> PICK w : w = Without(cells, ch.id)
    OBVIOUS
  <2>1. ch.id \in Ids(cells) /\ ch.index \in Nat /\ p \in 1..Len(cells) /\ CellOf(cells, ch.id) = old
        /\ old.id = ch.id /\ old \in Cell
    BY <1>2, <1>6, FitsTyped
  <2>2. w \in Seq(Cell) /\ p \in 1..(Len(w) + 1) /\ InsertAt(w, p, CellOf(cells, ch.id)) = cells
        /\ UniqueIds(w) /\ Ids(w) = Ids(cells) \ {ch.id}
    BY <1>0, <2>1, Removing
  <2> PICK index \in Nat : index = ch.index
    BY <2>1
  <2> PICK x \in Cell : x = old
    BY <2>1
  <2> PICK u \in Seq(Cell) : u = w
    BY <2>2
  <2> PICK d : d = Put(u, index, x)
    OBVIOUS
  <2>7. UniqueIds(u) /\ x.id \notin Ids(u)
    BY <2>1, <2>2
  <2>8. Without(d, x.id) = u /\ x.id \in Ids(d) /\ CellOf(d, x.id) = x
    BY <2>7, PutUnique
  <2>3. Without(d, old.id) = w /\ old.id \in Ids(d) /\ CellOf(d, old.id) = old
    BY <2>8
  <2>4. Effect(cells, ch) = d /\ InverseOf(cells, ch) = MoveChange(ch.id, p - 1)
    BY <1>6, <2>1 DEF Effect, InverseOf
  <2>5. Lesser(p - 1, Len(w)) + 1 = p
    BY <2>2 DEF Lesser
  <2>6. Effect(d, MoveChange(ch.id, p - 1)) = InsertAt(w, p, old) /\ Named(MoveChange(ch.id, p - 1)) = {ch.id}
    BY <2>1, <2>3, <2>5 DEF Effect, MoveChange, Put, Named
  <2> QED
    BY <2>1, <2>2, <2>3, <2>4, <2>6
<1> QED
  BY <1>1, <1>3, <1>5, <1>6 DEF Invertible

-----------------------------------------------------------------------------
(* The batches of the editor. *)

\* The lists that applying the changes goes through.
IsRun(chain, cells, changes) ==
  /\ chain \in [0..Len(changes) -> [ok : BOOLEAN, cells : Cells]]
  /\ chain[0] = [ok |-> TRUE, cells |-> cells]
  /\ chain[Len(changes)] = Apply(cells, changes)
  /\ \A k \in 1..Len(changes) : chain[k] = ApplyOne(chain[k - 1], changes[k])

LEMMA ApplyRun ==
  ASSUME NEW cells \in Cells, NEW changes \in Changes, Apart(changes)
  PROVE  \E chain : IsRun(chain, cells, changes)
<1> DEFINE V == [ok : BOOLEAN, cells : Cells]
<1> PICK n : n = Len(changes)
  OBVIOUS
<1>1. n \in Nat /\ DOMAIN changes = 1..n /\ \A k \in 1..n : changes[k] \in Change
  BY DEF Changes
<1>2. [ok |-> TRUE, cells |-> cells] \in V
  OBVIOUS
<1>3. ASSUME NEW k \in 1..n, NEW r \in V PROVE ApplyOne(r, changes[k]) \in V
  <2>1. CASE r.ok /\ Named(changes[k]) \subseteq Ids(r.cells)
    <3>1. changes[k].op = "moveRelative" => changes[k].id # changes[k].anchor
      BY <1>1 DEF Apart
    <3>2. Effect(r.cells, changes[k]) \in Cells
      BY <1>1, <2>1, <3>1, EffectTyped
    <3> QED
      BY <2>1, <3>2 DEF ApplyOne
  <2>2. CASE ~(r.ok /\ Named(changes[k]) \subseteq Ids(r.cells))
    BY <2>2 DEF ApplyOne
  <2> QED
    BY <2>1, <2>2
<1> HIDE DEF V
<1>4. \E chain \in [0..n -> V] :
         /\ chain[0] = [ok |-> TRUE, cells |-> cells]
         /\ chain[n] = Apply(cells, changes)
         /\ \A k \in 1..n : chain[k] = ApplyOne(chain[k - 1], changes[k])
  BY <1>1, <1>2, <1>3, ApplyChain
<1> QED
  BY <1>4 DEF IsRun, V

\* One step of it: a change that can be made is made, any other refuses all.
IsMade(r, ch, q) ==
  /\ q.ok <=> r.ok /\ Named(ch) \subseteq Ids(r.cells)
  /\ q.ok => q.cells = Effect(r.cells, ch)

LEMMA RunStep ==
  ASSUME NEW cells, NEW changes, Len(changes) \in Nat, NEW chain, IsRun(chain, cells, changes),
         NEW k \in 0..(Len(changes) - 1)
  PROVE  LET r == chain[k]
             q == chain[k + 1]
             ch == changes[k + 1]
         IN /\ k + 1 \in 1..Len(changes) /\ r.ok \in BOOLEAN /\ q.ok \in BOOLEAN
            /\ r.cells \in Cells /\ q.cells \in Cells
            /\ IsMade(r, ch, q)
<1>1. k + 1 \in 1..Len(changes) /\ k \in 0..Len(changes) /\ k + 1 \in 0..Len(changes) /\ (k + 1) - 1 = k
  OBVIOUS
<1>2. chain[k] \in [ok : BOOLEAN, cells : Cells] /\ chain[k + 1] \in [ok : BOOLEAN, cells : Cells]
  BY <1>1 DEF IsRun
<1>3. chain[k + 1] = ApplyOne(chain[k], changes[k + 1])
  BY <1>1 DEF IsRun
<1> PICK r \in [ok : BOOLEAN, cells : Cells] : r = chain[k]
  BY <1>2
<1> PICK q : q = chain[k + 1]
  OBVIOUS
<1> PICK ch : ch = changes[k + 1]
  OBVIOUS
<1>4. CASE r.ok /\ Named(ch) \subseteq Ids(r.cells)
  <2>1. q = [r EXCEPT !.cells = Effect(r.cells, ch)]
    BY <1>3, <1>4 DEF ApplyOne
  <2>2. q.ok = r.ok /\ q.cells = Effect(r.cells, ch)
    BY <2>1
  <2> QED
    BY <1>1, <1>2, <1>4, <2>2 DEF IsMade
<1>5. CASE ~(r.ok /\ Named(ch) \subseteq Ids(r.cells))
  <2>1. q = [r EXCEPT !.ok = FALSE]
    BY <1>3, <1>5 DEF ApplyOne
  <2>2. q.ok = FALSE /\ q.cells = r.cells
    BY <2>1
  <2> QED
    BY <1>1, <1>2, <1>5, <2>2 DEF IsMade
<1> QED
  BY <1>4, <1>5

\* The ids that the notebook and the first k changes have brought.
KnownTo(cells, changes, k) ==
  Ids(cells) \cup {changes[i].cell.id : i \in {j \in 1..k : changes[j].op = "insert"}}

\* A batch as the editor's commands build it, for a notebook as the gateway
\* serves it: a new cell has a fresh id and nothing else, and an update lists no
\* more microscopes than a cell may have.
BuiltBatch(cells, changes) ==
  /\ cells \in Cells /\ UniqueIds(cells)
  /\ \A i \in DOMAIN cells : Cardinality(cells[i].refs) <= MaxRefs
  /\ changes \in Changes
  /\ \A k \in 1..Len(changes) :
       /\ changes[k].op \in EditorOps
       /\ changes[k].op = "insert" =>
            /\ changes[k].cell = NewCell(changes[k].cell.id)
            /\ changes[k].cell.id \notin KnownTo(cells, changes, k - 1)
       /\ changes[k].op = "update" /\ changes[k].refs # Keep => Cardinality(changes[k].refs) <= MaxRefs
       /\ changes[k].op = "clearOutputs" => changes[k] = ClearChange(changes[k].id)

\* What every cell is after the first k changes.
MarkedCell(cells, changes, k) ==
  {c \in Cell : /\ Cardinality(c.refs) <= MaxRefs
                /\ c.id \notin Ids(cells) => c.out = NoOutput
                /\ \A i \in 1..k : changes[i] = ClearChange(c.id) => c.out = NoOutput}

\* What the list is after the first k changes.
Along(cells, changes, chain, k) ==
  chain[k].ok =>
    /\ chain[k].cells \in Seq(MarkedCell(cells, changes, k)) /\ UniqueIds(chain[k].cells)
    /\ Ids(chain[k].cells) \subseteq KnownTo(cells, changes, k)

LEMMA EditorApart ==
  ASSUME NEW cells, NEW changes, BuiltBatch(cells, changes)
  PROVE  Apart(changes)
BY DEF BuiltBatch, Apart, EditorOps, Changes

LEMMA NewCellTyped ==
  ASSUME NEW id \in CellId
  PROVE  NewCell(id) \in Cell /\ Cardinality(NewCell(id).refs) <= MaxRefs /\ NewCell(id).out = NoOutput
         /\ NewCell(id).id = id
<1> USE CellsAssumption
<1>1. Start \in Source
  BY DEF Start
<1>2. Cardinality({}) = 0
  BY FS_EmptySet
<1> QED
  BY <1>1, <1>2 DEF NewCell, Cell, NoOutput

\* The next change of a batch fits the list it comes to.
LEMMA BuiltFits ==
  ASSUME NEW cells, NEW changes, BuiltBatch(cells, changes), NEW k \in 0..(Len(changes) - 1),
         NEW now \in Seq(MarkedCell(cells, changes, k)), UniqueIds(now),
         Ids(now) \subseteq KnownTo(cells, changes, k), Named(changes[k + 1]) \subseteq Ids(now)
  PROVE  Fits(MarkedCell(cells, changes, k), now, changes[k + 1])
<1> USE CellsAssumption
<1> PICK ch : ch = changes[k + 1]
  OBVIOUS
<1> PICK S : S = MarkedCell(cells, changes, k)
  OBVIOUS
<1>1. k + 1 \in 1..Len(changes) /\ (k + 1) - 1 = k /\ changes \in Seq(Change)
  BY DEF BuiltBatch, Changes
<1>2. /\ ch \in Change /\ ch.op \in EditorOps
      /\ ch.op = "insert" => ch.cell = NewCell(ch.cell.id) /\ ch.cell.id \notin KnownTo(cells, changes, k)
      /\ ch.op = "update" /\ ch.refs # Keep => Cardinality(ch.refs) <= MaxRefs
  BY <1>1 DEF BuiltBatch
<1>3. S \subseteq Cell
  BY DEF MarkedCell
<1>4. ASSUME ch.op = "insert" PROVE ch.cell \in S /\ ch.cell.id \notin Ids(now)
  <2>1. ch.cell \in Cell /\ ch.cell.id \in CellId
    BY <1>2, <1>4 DEF Change, Cell
  <2>2. NewCell(ch.cell.id) \in S
    BY <2>1, NewCellTyped DEF MarkedCell
  <2> QED
    BY <1>2, <1>4, <2>2
<1>5. ASSUME ch.op # "insert" PROVE ch.id \in Ids(now) /\ CellOf(now, ch.id) \in S
  <2>1. ch.id \in Ids(now)
    BY <1>2, <1>5 DEF Named, EditorOps
  <2>2. PositionOf(now, ch.id) \in 1..Len(now)
    BY <2>1, PositionFound
  <2> QED
    BY <2>1, <2>2 DEF CellOf
<1>6. ASSUME ch.op = "update" PROVE Rewritten(CellOf(now, ch.id), ch) \in S
  <2> PICK x \in S : x = CellOf(now, ch.id)
    BY <1>5, <1>6
  <2> PICK y : y = Rewritten(x, ch)
    OBVIOUS
  <2>1. ch.src \in Source \cup {Keep} /\ ch.kind \in Kind \cup {Keep} /\ ch.refs \in (SUBSET Ref) \cup {Keep}
    BY <1>2, <1>6 DEF Change
  <2>2. y \in Cell /\ y.id = x.id /\ y.refs = Chosen(ch.refs, x.refs) /\ y.out = x.out
    BY <1>3, <2>1, RewrittenFields
  <2>3. Cardinality(y.refs) <= MaxRefs
    BY <1>2, <1>6, <2>2 DEF Chosen, MarkedCell
  <2> QED
    BY <2>2, <2>3 DEF MarkedCell
<1>7. ASSUME ch.op = "clearOutputs" PROVE Cleared(CellOf(now, ch.id)) \in S
  <2> PICK x \in S : x = CellOf(now, ch.id)
    BY <1>5, <1>7
  <2> PICK y : y = Cleared(x)
    OBVIOUS
  <2>1. y \in Cell /\ y.id = x.id /\ y.refs = x.refs /\ y.out = NoOutput
    BY <1>3 DEF Cleared, Cell, NoOutput
  <2> QED
    BY <2>1 DEF MarkedCell
<1> QED
  BY <1>2, <1>4, <1>5, <1>6, <1>7 DEF Fits

\* A list of the editor's goes from one change to the next.
LEMMA AlongStep ==
  ASSUME NEW cells, NEW changes, BuiltBatch(cells, changes), NEW k \in 0..(Len(changes) - 1),
         NEW now \in Seq(MarkedCell(cells, changes, k)), UniqueIds(now),
         Ids(now) \subseteq KnownTo(cells, changes, k), Named(changes[k + 1]) \subseteq Ids(now)
  PROVE  LET d == Effect(now, changes[k + 1])
         IN /\ d \in Seq(MarkedCell(cells, changes, k + 1)) /\ UniqueIds(d)
            /\ Ids(d) \subseteq KnownTo(cells, changes, k + 1)
<1> PICK ch : ch = changes[k + 1]
  OBVIOUS
<1> PICK S : S = MarkedCell(cells, changes, k)
  OBVIOUS
<1> PICK d : d = Effect(now, ch)
  OBVIOUS
<1>1. /\ k + 1 \in 1..Len(changes) /\ (k + 1) - 1 = k /\ 1..(k + 1) = (1..k) \cup {k + 1}
      /\ Len(changes) \in Nat
  BY DEF BuiltBatch, Changes
<1>2. S \in SUBSET Cell /\ Fits(S, now, ch)
  BY BuiltFits DEF MarkedCell
<1>3. d \in Seq(S) /\ UniqueIds(d) /\ Ids(d) = IdsAfter(now, ch)
  BY <1>2, EffectUnique
<1>4. Ids(d) \subseteq KnownTo(cells, changes, k + 1)
  <2>1. KnownTo(cells, changes, k) \subseteq KnownTo(cells, changes, k + 1)
    BY <1>1 DEF KnownTo
  <2>2. ch.op = "insert" => ch.cell.id \in KnownTo(cells, changes, k + 1)
    BY <1>1 DEF KnownTo
  <2> QED
    BY <1>3, <2>1, <2>2 DEF IdsAfter
<1>5. d \in Seq(MarkedCell(cells, changes, k + 1))
  <2> PICK T : T = MarkedCell(cells, changes, k + 1)
    OBVIOUS
  <2>1. \A c \in S : c \in T <=> (ch = ClearChange(c.id) => c.out = NoOutput)
    BY <1>1 DEF MarkedCell
  <2>2. CASE ch.op # "clearOutputs"
    <3>1. ASSUME NEW c \in S PROVE c \in T
      <4>1. ClearChange(c.id).op = "clearOutputs"
        BY DEF ClearChange
      <4>2. ch # ClearChange(c.id)
        BY <2>2, <4>1
      <4> QED
        BY <2>1, <4>2
    <3> QED
      BY <1>3, <3>1
  <2>3. CASE ch.op = "clearOutputs"
    <3> PICK p : p = PositionOf(now, ch.id)
      OBVIOUS
    <3>1. ch.id \in Ids(now)
      BY <1>2, <2>3 DEF Fits
    <3>2. p \in 1..Len(now) /\ now[p].id = ch.id /\ now[p] \in Cell
      BY <1>2, <3>1, PositionFound
    <3>3. d = [now EXCEPT ![p] = Cleared(now[p])]
      BY <2>3 DEF Effect, Cleared
    <3>4. Len(d) = Len(now) /\ \A i \in 1..Len(now) : d[i] = IF i = p THEN Cleared(now[p]) ELSE now[i]
      BY <3>2, <3>3
    <3>5. Cleared(now[p]).out = NoOutput
      BY <3>2 DEF Cleared, Cell
    <3>6. ASSUME NEW i \in 1..Len(d) PROVE d[i] \in T
      <4>1. d[i] \in S
        BY <1>3
      <4>2. CASE i = p
        BY <2>1, <3>2, <3>4, <3>5, <4>1, <4>2
      <4>3. CASE i # p
        <5>1. d[i] = now[i] /\ now[i].id # ch.id
          BY <3>2, <3>4, <4>3 DEF UniqueIds
        <5>2. ch # ClearChange(d[i].id)
          BY <5>1 DEF ClearChange
        <5> QED
          BY <2>1, <4>1, <5>2
      <4> QED
        BY <4>2, <4>3
    <3> QED
      BY <1>3, <3>6
  <2> QED
    BY <2>2, <2>3
<1> QED
  BY <1>3, <1>4, <1>5

LEMMA AlongRun ==
  ASSUME NEW cells, NEW changes, BuiltBatch(cells, changes), NEW chain, IsRun(chain, cells, changes)
  PROVE  \A k \in 0..Len(changes) : Along(cells, changes, chain, k)
<1> PICK n : n = Len(changes)
  OBVIOUS
<1>0. n \in Nat /\ changes \in Seq(Change) /\ cells \in Seq(Cell) /\ UniqueIds(cells)
  BY DEF BuiltBatch, Changes, Cells
<1> DEFINE A == {k \in Nat : k <= n => Along(cells, changes, chain, k)}
<1>1. 0 \in A
  <2>1. chain[0].cells = cells
    BY DEF IsRun
  <2>2. \A i \in 1..Len(cells) : cells[i].id \in Ids(cells)
    BY <1>0 DEF Ids
  <2>3. \A i \in 1..Len(cells) : cells[i] \in MarkedCell(cells, changes, 0)
    <3>1. \A i \in 1..Len(cells) : cells[i] \in Cell /\ Cardinality(cells[i].refs) <= MaxRefs
      BY <1>0 DEF BuiltBatch
    <3>2. 1..0 = {}
      OBVIOUS
    <3> QED
      BY <2>2, <3>1, <3>2 DEF MarkedCell
  <2>4. cells \in Seq(MarkedCell(cells, changes, 0))
    BY <1>0, <2>3
  <2>5. Ids(cells) \subseteq KnownTo(cells, changes, 0)
    BY DEF KnownTo
  <2> QED
    BY <1>0, <2>1, <2>4, <2>5 DEF Along
<1>2. ASSUME NEW k \in Nat, k \in A PROVE k + 1 \in A
  <2> SUFFICES ASSUME k + 1 <= n, chain[k + 1].ok PROVE Along(cells, changes, chain, k + 1)
    BY DEF Along
  <2>1. k \in 0..(n - 1) /\ Along(cells, changes, chain, k)
    BY <1>0, <1>2
  <2> PICK r : r = chain[k]
    OBVIOUS
  <2> PICK q : q = chain[k + 1]
    OBVIOUS
  <2>2. r.ok /\ Named(changes[k + 1]) \subseteq Ids(r.cells) /\ q.cells = Effect(r.cells, changes[k + 1])
    <3>1. IsMade(r, changes[k + 1], q)
      BY <1>0, <2>1, RunStep
    <3> QED
      BY <3>1 DEF IsMade
  <2>3. /\ r.cells \in Seq(MarkedCell(cells, changes, k)) /\ UniqueIds(r.cells)
        /\ Ids(r.cells) \subseteq KnownTo(cells, changes, k)
    BY <2>1, <2>2 DEF Along
  <2> PICK now \in Seq(MarkedCell(cells, changes, k)) : now = r.cells
    BY <2>3
  <2> PICK d : d = Effect(now, changes[k + 1])
    OBVIOUS
  <2>4. /\ d \in Seq(MarkedCell(cells, changes, k + 1)) /\ UniqueIds(d)
        /\ Ids(d) \subseteq KnownTo(cells, changes, k + 1)
    BY <2>1, <2>2, <2>3, AlongStep
  <2> QED
    BY <2>2, <2>4 DEF Along
<1> HIDE DEF A
<1>3. \A k \in Nat : k \in A
  BY <1>1, <1>2, Induction
<1>4. \A k \in 0..n : k \in Nat /\ k <= n
  BY <1>0
<1> QED
  BY <1>3, <1>4 DEF A

\* What a batch that applies makes of the notebook.
LEMMA BuiltResult ==
  ASSUME NEW cells, NEW changes, BuiltBatch(cells, changes), Apply(cells, changes).ok
  PROVE  LET d == Apply(cells, changes).cells
         IN /\ d \in Cells /\ UniqueIds(d) /\ d \in Seq(MarkedCell(cells, changes, Len(changes)))
<1>1. cells \in Cells /\ changes \in Changes /\ Apart(changes)
  BY EditorApart DEF BuiltBatch
<1> PICK chain : IsRun(chain, cells, changes)
  BY <1>1, ApplyRun
<1> PICK n : n = Len(changes)
  OBVIOUS
<1>2. n \in Nat /\ n \in 0..n
  BY <1>1 DEF Changes
<1>3. Along(cells, changes, chain, n)
  BY <1>2, AlongRun
<1>4. chain[n] = Apply(cells, changes)
  BY DEF IsRun
<1>5. chain[n] \in [ok : BOOLEAN, cells : Cells]
  BY <1>2 DEF IsRun
<1> QED
  BY <1>3, <1>4, <1>5 DEF Along

-----------------------------------------------------------------------------
(* The invariant of CellChanges. *)

BatchBuilt ==
  /\ base \in Notebooks /\ Len(batch) <= MaxBatch
  /\ BuiltBatch(base, batch)
  /\ other # <<>> =>
       /\ Len(batch) = 1 /\ Apply(base, other).ok
       /\ \E ch \in AtPositions \cup {DeleteChange(id) : id \in Known} : other = <<ch>>

LEMMA NotebooksTyped ==
  ASSUME NEW nb \in Notebooks
  PROVE  nb \in Cells /\ UniqueIds(nb) /\ \A i \in DOMAIN nb : Cardinality(nb[i].refs) <= MaxRefs
<1> USE CellsAssumption, ChangesAssumption
<1> DEFINE A == [id : CellId, src : {Start}, kind : {Code}, refs : {{}}, out : {1}]
           B == [id : CellId, src : Source, kind : {Code}, refs : {{}}, out : {NoOutput}]
           C == [id : CellId, src : {Start}, kind : Kind, refs : Refs, out : {NoOutput}]
           S == {x \in Cell : Cardinality(x.refs) <= MaxRefs}
<1>1. Cardinality({}) = 0 /\ Start \in Source
  BY FS_EmptySet DEF Start
<1>2. A \subseteq S /\ B \subseteq S /\ C \subseteq S
  <2>1. A \subseteq S
    BY <1>1 DEF Cell
  <2>2. B \subseteq S
    BY <1>1 DEF Cell, NoOutput
  <2>3. C \subseteq S
    BY <1>1 DEF Cell, NoOutput, Refs
  <2> QED
    BY <2>1, <2>2, <2>3
<1>7. nb \in RunNotebooks \/ nb \in VariedNotebooks
  BY DEF Notebooks
<1>3. \/ \E n \in 0..(MaxBase - 1) : nb \in [1..n -> A]
      \/ \E s \in [1..(MaxBase - 1) -> B], last \in C : nb = Append(s, last)
  <2>1. nb \in RunNotebooks => \E n \in 0..(MaxBase - 1) : nb \in [1..n -> A]
    BY DEF RunNotebooks
  <2>2. nb \in VariedNotebooks => \E s \in [1..(MaxBase - 1) -> B], last \in C : nb = Append(s, last)
    BY DEF VariedNotebooks
  <2> QED
    BY <1>7, <2>1, <2>2
<1>4. UniqueIds(nb)
  BY <1>7 DEF RunNotebooks, VariedNotebooks
<1> HIDE DEF A, B, C
<1>5. nb \in Seq(S)
  <2> HIDE DEF S
  <2>1. CASE \E n \in 0..(MaxBase - 1) : nb \in [1..n -> A]
    <3> PICK n \in 0..(MaxBase - 1) : nb \in [1..n -> A]
      BY <2>1
    <3>1. n \in Nat /\ nb \in [1..n -> S]
      BY <1>2
    <3> QED
      BY <3>1
  <2>2. CASE \E s \in [1..(MaxBase - 1) -> B], last \in C : nb = Append(s, last)
    <3> PICK s \in [1..(MaxBase - 1) -> B], last \in C : nb = Append(s, last)
      BY <2>2
    <3>1. MaxBase - 1 \in Nat /\ s \in [1..(MaxBase - 1) -> S] /\ last \in S
      BY <1>2
    <3>2. s \in Seq(S)
      BY <3>1
    <3> QED
      BY <3>1, <3>2
  <2> QED
    BY <1>3, <2>1, <2>2
<1>6. \A i \in 1..Len(nb) : nb[i] \in S
  BY <1>5
<1>8. nb \in Seq(Cell) /\ DOMAIN nb = 1..Len(nb)
  BY <1>5, <1>6
<1> QED
  BY <1>4, <1>6, <1>8 DEF Cells

\* A change the editor may add next.
Buildable(ch) ==
  /\ ch \in Change /\ ch.op \in EditorOps
  /\ ch.op = "insert" => ch.cell = NewCell(ch.cell.id) /\ ch.cell.id \notin Known
  /\ ch.op = "update" /\ ch.refs # Keep => Cardinality(ch.refs) <= MaxRefs
  /\ ch.op = "clearOutputs" => ch = ClearChange(ch.id)

LEMMA EditorBuilds ==
  ASSUME BatchBuilt, NEW ch \in AtPositions \cup InPlace
  PROVE  Buildable(ch)
<1> USE CellsAssumption, ChangesAssumption
<1>0. Len(base) \in Nat /\ Known \subseteq CellId
  <2>1. base \in Cells /\ Ids(base) \subseteq CellId /\ Len(base) \in Nat
    BY IdsTyped DEF BatchBuilt, BuiltBatch, Cells
  <2>2. ASSUME NEW i \in DOMAIN batch, batch[i].op = "insert" PROVE batch[i].cell.id \in CellId
    <3>1. batch[i] \in Change
      BY DEF BatchBuilt, BuiltBatch, Changes
    <3> QED
      BY <2>2, <3>1 DEF Change, Cell
  <2> QED
    BY <2>1, <2>2 DEF Known, Inserted
<1>1. CASE ch \in {InsertChange(i, NewCell(id)) : i \in 0..(Len(base) + 1), id \in CellId \ Known}
  <2> PICK i \in 0..(Len(base) + 1), id \in CellId \ Known : ch = InsertChange(i, NewCell(id))
    BY <1>1
  <2>1. NewCell(id) \in Cell /\ NewCell(id).id = id /\ i \in Nat
    BY <1>0, NewCellTyped
  <2>2. ch.op = "insert" /\ ch.cell = NewCell(id)
    BY DEF InsertChange
  <2>3. ch \in Change
    BY <2>1 DEF InsertChange, Change
  <2> QED
    BY <2>1, <2>2, <2>3 DEF Buildable, EditorOps
<1>2. CASE ch \in {MoveChange(id, i) : i \in 0..Len(base), id \in Known}
  <2> PICK i \in 0..Len(base), id \in Known : ch = MoveChange(id, i)
    BY <1>2
  <2>1. i \in Nat /\ id \in CellId
    BY <1>0
  <2>2. ch.op = "move"
    BY DEF MoveChange
  <2>3. ch \in Change
    BY <2>1 DEF MoveChange, Change
  <2> QED
    BY <2>2, <2>3 DEF Buildable, EditorOps
<1>3. CASE \E id \in Known, s \in Source \cup {Keep}, k \in Kind \cup {Keep} :
              ch = UpdateChange(id, s, k, Keep)
  <2> PICK id \in Known, s \in Source \cup {Keep}, k \in Kind \cup {Keep} : ch = UpdateChange(id, s, k, Keep)
    BY <1>3
  <2>1. id \in CellId
    BY <1>0
  <2>2. ch.op = "update" /\ ch.refs = Keep
    BY DEF UpdateChange
  <2>3. ch \in Change
    BY <2>1 DEF UpdateChange, Change
  <2> QED
    BY <2>2, <2>3 DEF Buildable, EditorOps
<1>4. CASE \E id \in Known, r \in Refs : ch = UpdateChange(id, Keep, Keep, r)
  <2> PICK id \in Known, r \in Refs : ch = UpdateChange(id, Keep, Keep, r)
    BY <1>4
  <2>1. id \in CellId /\ r \in SUBSET Ref /\ Cardinality(r) <= MaxRefs
    BY <1>0 DEF Refs
  <2>2. ch.op = "update" /\ ch.refs = r
    BY DEF UpdateChange
  <2>3. ch \in Change
    BY <2>1 DEF UpdateChange, Change
  <2> QED
    BY <2>1, <2>2, <2>3 DEF Buildable, EditorOps
<1>5. CASE \E id \in Known : ch = DeleteChange(id)
  <2> PICK id \in Known : ch = DeleteChange(id)
    BY <1>5
  <2>1. id \in CellId
    BY <1>0
  <2>2. ch.op = "delete"
    BY DEF DeleteChange
  <2>3. ch \in Change
    BY <2>1 DEF DeleteChange, Change
  <2> QED
    BY <2>2, <2>3 DEF Buildable, EditorOps
<1>6. CASE \E id \in Known : ch = ClearChange(id)
  <2> PICK id \in Known : ch = ClearChange(id)
    BY <1>6
  <2>1. id \in CellId
    BY <1>0
  <2>2. ch.op = "clearOutputs" /\ ch.id = id
    BY DEF ClearChange
  <2>3. ch \in Change
    BY <2>1 DEF ClearChange, Change
  <2> QED
    BY <2>2, <2>3 DEF Buildable, EditorOps
<1> QED
  BY <1>1, <1>2, <1>3, <1>4, <1>5, <1>6 DEF AtPositions, InPlace

\* A batch grows by what the editor may add.
LEMMA BuiltGrows ==
  ASSUME NEW cells, NEW changes, BuiltBatch(cells, changes), NEW ch \in Change, ch.op \in EditorOps,
         ch.op = "insert" => /\ ch.cell = NewCell(ch.cell.id)
                             /\ ch.cell.id \notin KnownTo(cells, changes, Len(changes)),
         ch.op = "update" /\ ch.refs # Keep => Cardinality(ch.refs) <= MaxRefs,
         ch.op = "clearOutputs" => ch = ClearChange(ch.id)
  PROVE  BuiltBatch(cells, Append(changes, ch))
<1> PICK n : n = Len(changes)
  OBVIOUS
<1> PICK more : more = Append(changes, ch)
  OBVIOUS
<1>1. changes \in Seq(Change) /\ n \in Nat
  BY DEF BuiltBatch, Changes
<1>2. more \in Seq(Change) /\ Len(more) = n + 1 /\ more[n + 1] = ch /\ \A i \in 1..n : more[i] = changes[i]
  BY <1>1
<1>3. ASSUME NEW k \in 1..(n + 1) PROVE KnownTo(cells, more, k - 1) = KnownTo(cells, changes, k - 1)
  <2>1. \A j \in 1..(k - 1) : j \in 1..n
    BY <1>1
  <2>2. \A j \in 1..(k - 1) : more[j] = changes[j]
    BY <1>2, <2>1
  <2> QED
    BY <2>2 DEF KnownTo
<1>4. ASSUME NEW k \in 1..Len(more)
      PROVE  /\ more[k].op \in EditorOps
             /\ more[k].op = "insert" =>
                  /\ more[k].cell = NewCell(more[k].cell.id)
                  /\ more[k].cell.id \notin KnownTo(cells, more, k - 1)
             /\ more[k].op = "update" /\ more[k].refs # Keep => Cardinality(more[k].refs) <= MaxRefs
             /\ more[k].op = "clearOutputs" => more[k] = ClearChange(more[k].id)
  <2>1. CASE k \in 1..n
    BY <1>2, <1>3, <2>1 DEF BuiltBatch
  <2>2. CASE k = n + 1
    <3>1. (n + 1) - 1 = n /\ n + 1 \in 1..(n + 1)
      BY <1>1
    <3> QED
      BY <1>2, <1>3, <2>2, <3>1
  <2> QED
    BY <1>1, <1>2, <2>1, <2>2
<1> QED
  BY <1>2, <1>4 DEF BuiltBatch, Changes

LEMMA KnownIsKnown ==
  ASSUME batch \in Changes
  PROVE  Known = KnownTo(base, batch, Len(batch))
BY DEF Known, Inserted, KnownTo, Changes

\* Every reachable input is a notebook with a batch that the editor's commands
\* build for it.
THEOREM BatchBuiltHolds == ChangesSpec => []BatchBuilt
<1> USE CellsAssumption, ChangesAssumption
<1>1. ChangesInit => BatchBuilt
  <2> SUFFICES ASSUME ChangesInit PROVE BatchBuilt
    OBVIOUS
  <2>1. base \in Notebooks /\ batch = <<>> /\ other = <<>>
    BY DEF ChangesInit
  <2>2. Len(batch) = 0 /\ batch \in Changes
    BY <2>1 DEF Changes
  <2> QED
    BY <2>1, <2>2, NotebooksTyped DEF BatchBuilt, BuiltBatch
<1>2. BatchBuilt /\ [ChangesNext]_changeVars => BatchBuilt'
  <2> SUFFICES ASSUME BatchBuilt, [ChangesNext]_changeVars PROVE BatchBuilt'
    OBVIOUS
  <2>0. batch \in Changes /\ Len(batch) \in Nat
    BY DEF BatchBuilt, BuiltBatch, Changes
  <2>1. CASE Extend
    <3>1. Len(batch) < MaxBatch /\ other = <<>> /\ base' = base /\ other' = other
      BY <2>1 DEF Extend
    <3> PICK ch \in AtPositions \cup InPlace : batch' = Append(batch, ch)
      BY <2>1 DEF Extend
    <3>2. Buildable(ch)
      BY EditorBuilds
    <3>3. BuiltBatch(base, Append(batch, ch))
      <4>1. ch \in Change /\ ch.op \in EditorOps
        BY <3>2 DEF Buildable
      <4>2. ch.op = "insert" => /\ ch.cell = NewCell(ch.cell.id)
                                /\ ch.cell.id \notin KnownTo(base, batch, Len(batch))
        BY <2>0, <3>2, KnownIsKnown DEF Buildable
      <4>3. ch.op = "update" /\ ch.refs # Keep => Cardinality(ch.refs) <= MaxRefs
        BY <3>2 DEF Buildable
      <4>4. ch.op = "clearOutputs" => ch = ClearChange(ch.id)
        BY <3>2 DEF Buildable
      <4>5. BuiltBatch(base, batch)
        BY DEF BatchBuilt
      <4> QED
        BY <4>1, <4>2, <4>3, <4>4, <4>5, BuiltGrows
    <3>4. Len(batch') <= MaxBatch
      BY <2>0, <3>1 DEF Changes
    <3>5. BuiltBatch(base', batch') /\ base' \in Notebooks
      BY <3>1, <3>3 DEF BatchBuilt
    <3> QED
      BY <3>1, <3>4, <3>5 DEF BatchBuilt
  <2>2. CASE Overtake
    <3>1. Len(batch) = 1 /\ base' = base /\ batch' = batch
      BY <2>2 DEF Overtake
    <3> PICK ch \in AtPositions \cup {DeleteChange(id) : id \in Known} :
          Apply(base, <<ch>>).ok /\ other' = <<ch>>
      BY <2>2 DEF Overtake
    <3>2. (AtPositions \cup {DeleteChange(id) : id \in Known})'
            = AtPositions \cup {DeleteChange(id) : id \in Known}
      BY <3>1 DEF AtPositions, Known, Inserted
    <3>3. Apply(base', other').ok
      BY <3>1
    <3>4. Len(batch') = 1 /\ Len(batch') <= MaxBatch /\ base' \in Notebooks /\ BuiltBatch(base', batch')
      BY <3>1 DEF BatchBuilt
    <3> QED
      BY <3>2, <3>3, <3>4 DEF BatchBuilt
  <2>3. CASE UNCHANGED changeVars
    <3>1. base' = base /\ batch' = batch /\ other' = other
      BY <2>3 DEF changeVars
    <3>2. (AtPositions \cup {DeleteChange(id) : id \in Known})'
            = AtPositions \cup {DeleteChange(id) : id \in Known}
      BY <3>1 DEF AtPositions, Known, Inserted
    <3> QED
      BY <3>1, <3>2 DEF BatchBuilt
  <2> QED
    BY <2>1, <2>2, <2>3 DEF ChangesNext
<1> QED
  BY <1>1, <1>2, PTL DEF ChangesSpec

LEMMA OwnersKept ==
  ASSUME NEW old \in Cells, NEW new \in Cells, UniqueIds(old), UniqueIds(new),
         PreservesReferences(old, new)
  PROVE  Owners(old) = Owners(new)
<1>0. old \in Seq(Cell) /\ new \in Seq(Cell) /\ DOMAIN old = 1..Len(old) /\ DOMAIN new = 1..Len(new)
  BY DEF Cells
<1>1. ASSUME NEW i \in DOMAIN old, NEW r \in old[i].refs
      PROVE  \E j \in DOMAIN new : r \in new[j].refs /\ new[j].id = old[i].id
  <2> PICK id : id = old[i].id
    OBVIOUS
  <2>1. id \in Ids(new) /\ r \in CellOf(new, id).refs
    BY <1>1 DEF PreservesReferences
  <2>2. PositionOf(new, id) \in 1..Len(new) /\ new[PositionOf(new, id)].id = id
    BY <1>0, <2>1, PositionFound
  <2> QED
    BY <1>0, <2>1, <2>2 DEF CellOf
<1>2. ASSUME NEW j \in DOMAIN new, NEW r \in new[j].refs
      PROVE  \E i \in DOMAIN old : r \in old[i].refs /\ old[i].id = new[j].id
  <2> PICK id : id = new[j].id
    OBVIOUS
  <2>1. id \in Ids(old)
    BY <1>2 DEF PreservesReferences
  <2> PICK i \in DOMAIN old : old[i].id = id
    BY <2>1 DEF Ids
  <2>2. id \in Ids(new) /\ CellOf(new, id) = new[j]
    <3>1. j \in 1..Len(new) /\ new[j].id = id
      BY <1>0
    <3> QED
      BY <1>0, <3>1, Found
  <2>3. old[i].refs = CellOf(new, id).refs
    BY <2>2 DEF PreservesReferences
  <2> QED
    BY <2>2, <2>3
<1> QED
  BY <1>1, <1>2 DEF Owners

\* Whatever a batch does, an accepted one leaves each microscope with its cell.
THEOREM MicroscopesStayPutHolds == ChangesSpec => []MicroscopesStayPut
<1>1. BatchBuilt => MicroscopesStayPut
  <2> SUFFICES ASSUME BatchBuilt, Proposal(base, batch).ok
               PROVE  Owners(Proposal(base, batch).cells) = Owners(base)
    BY DEF MicroscopesStayPut
  <2> PICK d : d = Apply(base, batch).cells
    OBVIOUS
  <2>1. Apply(base, batch).ok /\ PreservesReferences(base, d) /\ Proposal(base, batch).cells = d
    BY DEF Proposal
  <2>2. BuiltBatch(base, batch) /\ base \in Cells /\ UniqueIds(base)
    BY DEF BatchBuilt, BuiltBatch
  <2>3. d \in Cells /\ UniqueIds(d)
    BY <2>1, <2>2, BuiltResult
  <2> QED
    BY <2>1, <2>2, <2>3, OwnersKept
<1> QED
  BY <1>1, BatchBuiltHolds, PTL

\* A proposal loses the outputs of cells that are not code, keeps cleared outputs
\* cleared and takes outputs from the file alone.
THEOREM MergeKeepsOutputsHolds == ChangesSpec => []MergeKeepsOutputs
<1>1. BatchBuilt => MergeKeepsOutputs
  <2> SUFFICES ASSUME BatchBuilt, Proposal(base, batch).ok,
                      NEW i \in DOMAIN Merged(base, Proposal(base, batch).cells)
               PROVE  LET result == Proposal(base, batch)
                          merged == Merged(base, result.cells)
                      IN /\ merged[i].kind # Code => merged[i].out = NoOutput
                         /\ ClearChange(merged[i].id) \in ToSet(batch) => merged[i].out = NoOutput
                         /\ merged[i].out # result.cells[i].out => merged[i].id \in Ids(base)
    BY DEF MergeKeepsOutputs
  <2> PICK d : d = Apply(base, batch).cells
    OBVIOUS
  <2>1. Apply(base, batch).ok /\ Proposal(base, batch).cells = d
    BY DEF Proposal
  <2>2. BuiltBatch(base, batch) /\ Len(batch) \in Nat /\ DOMAIN batch = 1..Len(batch)
    BY DEF BatchBuilt, BuiltBatch, Changes
  <2>3. d \in Seq(MarkedCell(base, batch, Len(batch)))
    BY <2>1, <2>2, BuiltResult
  <2> PICK f : f = Merged(base, d)
    OBVIOUS
  <2>4. i \in DOMAIN d
    BY <2>1 DEF Merged
  <2> PICK x : x = d[i]
    OBVIOUS
  <2>5. /\ x \in Cell
        /\ x.id \notin Ids(base) => x.out = NoOutput
        /\ \A j \in 1..Len(batch) : batch[j] = ClearChange(x.id) => x.out = NoOutput
    BY <2>3, <2>4 DEF MarkedCell
  <2> PICK out : out = IF x.kind # Code \/ x.out = NoOutput THEN NoOutput
                       ELSE IF x.id \in Ids(base) /\ CellOf(base, x.id).kind = Code
                            THEN CellOf(base, x.id).out ELSE x.out
    OBVIOUS
  <2>6. f[i] = [x EXCEPT !.out = out]
    BY <2>4 DEF Merged
  <2>7. f[i].id = x.id /\ f[i].kind = x.kind /\ f[i].out = out
    BY <2>5, <2>6 DEF Cell
  <2>8. f[i].kind # Code => f[i].out = NoOutput
    BY <2>7
  <2>9. ClearChange(f[i].id) \in ToSet(batch) => f[i].out = NoOutput
    <3>1. ClearChange(x.id) \in ToSet(batch) => x.out = NoOutput
      BY <2>2, <2>5 DEF ToSet
    <3> QED
      BY <2>7, <3>1
  <2>10. f[i].out # x.out => f[i].id \in Ids(base)
    BY <2>5, <2>7
  <2> QED
    BY <2>1, <2>8, <2>9, <2>10
<1> QED
  BY <1>1, BatchBuiltHolds, PTL

-----------------------------------------------------------------------------
(* Undoing a batch. *)

\* What collecting a batch's inverse goes through.
Undoings(n) == [0..n -> [ok : BOOLEAN, cells : Cells, inverse : Changes]]

LEMMA UndoRun ==
  ASSUME NEW cells \in Cells, NEW changes \in Changes
  PROVE  \E chain \in Undoings(Len(changes)) : IsUndo(chain, cells, changes, Len(changes))
<1> DEFINE V == [ok : BOOLEAN, cells : Cells, inverse : Changes]
<1> PICK n : n = Len(changes)
  OBVIOUS
<1>1. n \in Nat /\ DOMAIN changes = 1..n /\ \A k \in 1..n : changes[k] \in Change
  BY DEF Changes
<1>2. [ok |-> TRUE, cells |-> cells, inverse |-> <<>>] \in V
  BY DEF Changes
<1>3. ASSUME NEW k \in 1..n, NEW r \in V PROVE Collect(r, changes[k]) \in V
  <2> PICK ch \in Change : ch = changes[k]
    BY <1>1
  <2> PICK inv : inv = InverseOf(r.cells, ch)
    OBVIOUS
  <2>1. CASE r.ok /\ ch.op \in Invertible /\ Named(ch) \subseteq Ids(r.cells)
    <3>1. Effect(r.cells, ch) \in Cells
      BY <1>1, <2>1, EffectTyped DEF Invertible
    <3>2. inv \in Change
      BY <1>1, <2>1, InverseTyped
    <3>3. <<inv>> \in Seq(Change) /\ r.inverse \in Seq(Change)
      BY <3>2 DEF Changes
    <3>4. <<inv>> \o r.inverse \in Changes
      BY <3>3, JoinedSeq DEF Changes
    <3>5. Collect(r, ch) = [ok |-> TRUE, cells |-> Effect(r.cells, ch), inverse |-> <<inv>> \o r.inverse]
      BY <2>1 DEF Collect
    <3> QED
      BY <3>1, <3>4, <3>5
  <2>2. CASE ~(r.ok /\ ch.op \in Invertible /\ Named(ch) \subseteq Ids(r.cells))
    BY <2>2 DEF Collect
  <2> QED
    BY <2>1, <2>2
<1> HIDE DEF V
<1>4. \E chain \in [0..n -> V] : IsUndo(chain, cells, changes, n)
  BY <1>1, <1>2, <1>3, InvertedChain
<1> QED
  BY <1>4 DEF Undoings, V

LEMMA UndoStep ==
  ASSUME NEW cells, NEW changes, Len(changes) \in Nat, NEW chain \in Undoings(Len(changes)),
         IsUndo(chain, cells, changes, Len(changes)), NEW k \in 0..(Len(changes) - 1)
  PROVE  LET r == chain[k]
             q == chain[k + 1]
             ch == changes[k + 1]
         IN /\ r.cells \in Cells /\ q.cells \in Cells /\ r.inverse \in Changes /\ q.inverse \in Changes
            /\ q.ok <=> r.ok /\ ch.op \in Invertible /\ Named(ch) \subseteq Ids(r.cells)
            /\ q.ok => /\ q.cells = Effect(r.cells, ch)
                       /\ q.inverse = <<InverseOf(r.cells, ch)>> \o r.inverse
<1>1. k + 1 \in 1..Len(changes) /\ k \in 0..Len(changes) /\ k + 1 \in 0..Len(changes) /\ (k + 1) - 1 = k
  OBVIOUS
<1> DEFINE V == [ok : BOOLEAN, cells : Cells, inverse : Changes]
<1>2. chain[k] \in V /\ chain[k + 1] \in V
  BY <1>1 DEF Undoings
<1>3. chain[k + 1] = Collect(chain[k], changes[k + 1])
  BY <1>1 DEF IsUndo
<1> PICK r \in V : r = chain[k]
  BY <1>2
<1> PICK q \in V : q = chain[k + 1]
  BY <1>2
<1> PICK ch : ch = changes[k + 1]
  OBVIOUS
<1>4. CASE r.ok /\ ch.op \in Invertible /\ Named(ch) \subseteq Ids(r.cells)
  <2>1. q = [ok |-> TRUE, cells |-> Effect(r.cells, ch), inverse |-> <<InverseOf(r.cells, ch)>> \o r.inverse]
    BY <1>3, <1>4 DEF Collect
  <2>2. q.ok = TRUE /\ q.cells = Effect(r.cells, ch) /\ q.inverse = <<InverseOf(r.cells, ch)>> \o r.inverse
    BY <2>1
  <2> QED
    BY <1>4, <2>2
<1>5. CASE ~(r.ok /\ ch.op \in Invertible /\ Named(ch) \subseteq Ids(r.cells))
  <2>1. q = [r EXCEPT !.ok = FALSE]
    BY <1>3, <1>5 DEF Collect
  <2>2. q.ok = FALSE
    BY <2>1
  <2> QED
    BY <1>5, <2>2
<1> QED
  BY <1>4, <1>5

\* The editor's list is the one the changes lead to.
LEMMA UndoFollows ==
  ASSUME NEW cells, NEW changes, BuiltBatch(cells, changes),
         NEW run, IsRun(run, cells, changes),
         NEW undo \in Undoings(Len(changes)), IsUndo(undo, cells, changes, Len(changes))
  PROVE  /\ \A k \in 0..Len(changes) : undo[k].ok => run[k].ok /\ run[k].cells = undo[k].cells
         /\ (\A i \in 1..Len(changes) : changes[i].op # "clearOutputs")
            => \A k \in 0..Len(changes) : run[k].ok => undo[k].ok
<1> PICK n : n = Len(changes)
  OBVIOUS
<1>0. n \in Nat /\ changes \in Seq(Change)
  BY DEF BuiltBatch, Changes
<1> DEFINE A == {k \in Nat : k <= n => (undo[k].ok => run[k].ok /\ run[k].cells = undo[k].cells)}
           Whole == \A i \in 1..n : changes[i].op # "clearOutputs"
           B == {k \in Nat : Whole /\ k <= n => (run[k].ok => undo[k].ok)}
<1>1. 0 \in A /\ 0 \in B
  <2>1. run[0] = [ok |-> TRUE, cells |-> cells] /\ undo[0] = [ok |-> TRUE, cells |-> cells, inverse |-> <<>>]
    BY DEF IsRun, IsUndo
  <2>2. run[0].ok = TRUE /\ run[0].cells = cells /\ undo[0].ok = TRUE /\ undo[0].cells = cells
    BY <2>1
  <2> QED
    BY <2>2
<1>2. ASSUME NEW k \in Nat, k \in A, k + 1 <= n
      PROVE  LET r == run[k]
                 q == run[k + 1]
                 u == undo[k]
                 w == undo[k + 1]
                 ch == changes[k + 1]
             IN /\ q.ok <=> r.ok /\ Named(ch) \subseteq Ids(r.cells)
                /\ q.ok => q.cells = Effect(r.cells, ch)
                /\ w.ok <=> u.ok /\ ch.op \in Invertible /\ Named(ch) \subseteq Ids(u.cells)
                /\ w.ok => w.cells = Effect(u.cells, ch)
                /\ u.ok => r.ok /\ r.cells = u.cells
                /\ ch.op \in EditorOps /\ k + 1 \in 1..n
  <2>1. k \in 0..(n - 1) /\ k + 1 \in 1..n
    BY <1>0, <1>2
  <2>2. IsMade(run[k], changes[k + 1], run[k + 1])
    BY <1>0, <2>1, RunStep
  <2>3. /\ undo[k + 1].ok <=> undo[k].ok /\ changes[k + 1].op \in Invertible
                              /\ Named(changes[k + 1]) \subseteq Ids(undo[k].cells)
        /\ undo[k + 1].ok => undo[k + 1].cells = Effect(undo[k].cells, changes[k + 1])
    BY <1>0, <2>1, UndoStep
  <2>4. changes[k + 1].op \in EditorOps
    BY <2>1 DEF BuiltBatch
  <2>5. undo[k].ok => run[k].ok /\ run[k].cells = undo[k].cells
    BY <1>0, <1>2, <2>1
  <2> QED
    BY <2>1, <2>2, <2>3, <2>4, <2>5 DEF IsMade
<1>3. ASSUME NEW k \in Nat, k \in A PROVE k + 1 \in A
  <2> SUFFICES ASSUME k + 1 <= n, undo[k + 1].ok
               PROVE  run[k + 1].ok /\ run[k + 1].cells = undo[k + 1].cells
    OBVIOUS
  <2>1. undo[k].ok /\ run[k].ok /\ run[k].cells = undo[k].cells
        /\ Named(changes[k + 1]) \subseteq Ids(undo[k].cells)
    BY <1>2, <1>3
  <2> QED
    BY <1>2, <1>3, <2>1
<1> HIDE DEF A
<1>4. \A k \in Nat : k \in A
  BY <1>1, <1>3, Induction
<1>5. ASSUME NEW k \in Nat, k \in B PROVE k + 1 \in B
  <2> SUFFICES ASSUME Whole, k + 1 <= n, run[k + 1].ok PROVE undo[k + 1].ok
    OBVIOUS
  <2>1. k \in A /\ k <= n
    BY <1>0, <1>4
  <2>2. run[k].ok /\ Named(changes[k + 1]) \subseteq Ids(run[k].cells) /\ changes[k + 1].op \in Invertible
    BY <1>2, <2>1 DEF EditorOps, Invertible
  <2>3. undo[k].ok
    BY <1>5, <2>1, <2>2
  <2> QED
    BY <1>2, <2>1, <2>2, <2>3
<1> HIDE DEF B
<1>6. \A k \in Nat : k \in B
  BY <1>1, <1>5, Induction
<1>7. \A k \in 0..n : k \in Nat /\ k <= n /\ k \in A /\ k \in B
  BY <1>0, <1>4, <1>6
<1> QED
  BY <1>7 DEF A, B

LEMMA ApplyNone ==
  ASSUME NEW cells \in Cells
  PROVE  Apply(cells, <<>>) = [ok |-> TRUE, cells |-> cells]
<1>1. <<>> \in Changes /\ Len(<<>>) = 0 /\ Apart(<<>>)
  BY DEF Changes, Apart
<1> PICK chain : IsRun(chain, cells, <<>>)
  BY <1>1, ApplyRun
<1> QED
  BY <1>1 DEF IsRun

\* The changes after the first are applied to what the first makes.
LEMMA ApplyCons ==
  ASSUME NEW cells \in Cells, NEW x \in Change, NEW rest \in Changes, Apart(rest),
         x.op # "moveRelative", Named(x) \subseteq Ids(cells)
  PROVE  Apply(cells, <<x>> \o rest) = Apply(Effect(cells, x), rest)
<1> PICK n : n = Len(rest)
  OBVIOUS
<1> PICK all : all = <<x>> \o rest
  OBVIOUS
<1> PICK next : next = Effect(cells, x)
  OBVIOUS
<1>1. n \in Nat /\ rest \in Seq(Change) /\ <<x>> \in Seq(Change) /\ Len(<<x>>) = 1 /\ <<x>>[1] = x
  BY DEF Changes
<1>2. /\ all \in Seq(Change) /\ Len(all) = 1 + n
      /\ \A j \in 1..(1 + n) : all[j] = IF j <= 1 THEN <<x>>[j] ELSE rest[j - 1]
  BY <1>1, JoinedSeq
<1>3. all[1] = x /\ \A j \in 1..n : all[j + 1] = rest[j]
  <2>1. \A j \in 1..n : j + 1 \in 1..(1 + n) /\ ~(j + 1 <= 1) /\ (j + 1) - 1 = j
    BY <1>1
  <2> QED
    BY <1>1, <1>2, <2>1
<1>4. all \in Changes /\ Apart(all)
  <2> SUFFICES ASSUME NEW j \in 1..(1 + n), all[j].op = "moveRelative" PROVE all[j].id # all[j].anchor
    BY <1>2 DEF Apart, Changes
  <2>1. j # 1
    BY <1>3
  <2>2. j - 1 \in 1..n /\ (j - 1) + 1 = j
    BY <1>1, <2>1
  <2>3. all[j] = rest[j - 1]
    BY <1>3, <2>2
  <2> QED
    BY <1>1, <2>2, <2>3 DEF Apart
<1>5. next \in Cells
  BY EffectTyped
<1> PICK a : IsRun(a, cells, all)
  BY <1>4, ApplyRun
<1> PICK b : IsRun(b, next, rest)
  BY <1>5, ApplyRun
<1>6. a[1] = b[0]
  <2>1. a[0] = [ok |-> TRUE, cells |-> cells] /\ b[0] = [ok |-> TRUE, cells |-> next]
    BY DEF IsRun
  <2>2. a[1] = ApplyOne(a[0], x)
    <3>1. 1 \in 1..Len(all) /\ 1 - 1 = 0
      BY <1>1, <1>2
    <3> QED
      BY <1>3, <3>1 DEF IsRun
  <2>3. a[1] = [a[0] EXCEPT !.cells = next]
    BY <2>1, <2>2 DEF ApplyOne
  <2>4. a[1] \in [ok : BOOLEAN, cells : Cells] /\ b[0] \in [ok : BOOLEAN, cells : Cells]
    <3>1. 1 \in 0..Len(all) /\ 0 \in 0..Len(rest)
      BY <1>1, <1>2
    <3> QED
      BY <3>1 DEF IsRun
  <2>5. a[0].ok = TRUE /\ b[0].ok = TRUE /\ b[0].cells = next
    BY <2>1
  <2>6. a[1].ok = a[0].ok /\ a[1].cells = next
    BY <2>1, <2>3
  <2> QED
    BY <2>4, <2>5, <2>6
<1> DEFINE A == {k \in Nat : k <= n => a[k + 1] = b[k]}
<1>7. 0 \in A
  BY <1>6
<1>8. ASSUME NEW k \in Nat, k \in A PROVE k + 1 \in A
  <2> SUFFICES ASSUME k + 1 <= n PROVE a[(k + 1) + 1] = b[k + 1]
    OBVIOUS
  <2>1. k + 1 \in 1..n /\ (k + 1) + 1 \in 1..Len(all) /\ ((k + 1) + 1) - 1 = k + 1 /\ (k + 1) - 1 = k
    BY <1>1, <1>2
  <2>2. a[(k + 1) + 1] = ApplyOne(a[k + 1], all[(k + 1) + 1])
    BY <2>1 DEF IsRun
  <2>3. b[k + 1] = ApplyOne(b[k], rest[k + 1])
    BY <2>1 DEF IsRun
  <2>4. all[(k + 1) + 1] = rest[k + 1] /\ a[k + 1] = b[k]
    BY <1>3, <1>8, <2>1
  <2> QED
    BY <2>2, <2>3, <2>4
<1> HIDE DEF A
<1>9. n \in A
  BY <1>1, <1>7, <1>8, Induction
<1>10. a[1 + n] = b[n] /\ a[1 + n] = Apply(cells, all) /\ b[n] = Apply(next, rest)
  <2>1. a[n + 1] = b[n] /\ n + 1 = 1 + n
    BY <1>1, <1>9 DEF A
  <2> QED
    BY <1>2, <2>1 DEF IsRun
<1> QED
  BY <1>10

\* The inverse of one change is one the protocol takes.
Returning(ch) ==
  /\ ch \in Change /\ ch.op # "moveRelative"
  /\ ch.op \in {"insert", "insertRelative"} => Cardinality(ch.cell.refs) <= MaxRefs

LEMMA InverseReturns ==
  ASSUME NEW cells \in Cells, \A i \in DOMAIN cells : Cardinality(cells[i].refs) <= MaxRefs,
         NEW ch \in Change, ch.op \in Invertible, Named(ch) \subseteq Ids(cells)
  PROVE  Returning(InverseOf(cells, ch))
<1>1. InverseOf(cells, ch) \in Change
  BY InverseTyped
<1>2. CASE ch.op = "insert"
  <2>1. InverseOf(cells, ch).op = "delete"
    BY <1>2 DEF InverseOf, DeleteChange
  <2> QED
    BY <1>1, <2>1 DEF Returning
<1>3. CASE ch.op = "update"
  <2>1. InverseOf(cells, ch).op = "update"
    BY <1>3 DEF InverseOf, UpdateChange
  <2> QED
    BY <1>1, <2>1 DEF Returning
<1>4. CASE ch.op = "delete"
  <2>1. InverseOf(cells, ch) = InsertChange(PositionOf(cells, ch.id) - 1, CellOf(cells, ch.id))
    BY <1>4 DEF InverseOf
  <2>2. InverseOf(cells, ch).op = "insert" /\ InverseOf(cells, ch).cell = CellOf(cells, ch.id)
    BY <2>1 DEF InsertChange
  <2>3. ch.id \in Ids(cells)
    BY <1>4 DEF Named
  <2>4. PositionOf(cells, ch.id) \in DOMAIN cells
    BY <2>3, PositionFound DEF Cells
  <2>5. Cardinality(CellOf(cells, ch.id).refs) <= MaxRefs
    BY <2>4 DEF CellOf
  <2> QED
    BY <1>1, <2>2, <2>5 DEF Returning
<1>5. CASE ch.op = "move"
  <2>1. InverseOf(cells, ch).op = "move"
    BY <1>5 DEF InverseOf, MoveChange
  <2> QED
    BY <1>1, <2>1 DEF Returning
<1> QED
  BY <1>2, <1>3, <1>4, <1>5 DEF Invertible

LEMMA FitsAll ==
  ASSUME NEW S \in SUBSET Cell, NEW cells, NEW ch, Fits(S, cells, ch)
  PROVE  Fits(Cell, cells, ch)
BY DEF Fits

\* The inverse of the first k changes, and what it makes of the list after them.
Undone(cells, chain, k) ==
  chain[k].ok =>
    /\ Len(chain[k].inverse) = k
    /\ \A i \in 1..k : Returning(chain[k].inverse[i])
    /\ Apply(chain[k].cells, chain[k].inverse) = [ok |-> TRUE, cells |-> cells]

\* One more change, undone first.
UndoesOne(now, ch, inverse, k) ==
  LET all == <<InverseOf(now, ch)>> \o inverse
  IN /\ Len(all) = k + 1
     /\ \A i \in 1..(k + 1) : Returning(all[i])
     /\ Apply(Effect(now, ch), all) = Apply(now, inverse)

LEMMA UndoneStep ==
  ASSUME NEW cells, NEW changes, BuiltBatch(cells, changes), NEW k \in 0..(Len(changes) - 1),
         NEW run, IsRun(run, cells, changes), run[k].ok,
         NEW inverse \in Changes, Len(inverse) = k, \A i \in 1..k : Returning(inverse[i]),
         changes[k + 1].op \in Invertible, Named(changes[k + 1]) \subseteq Ids(run[k].cells)
  PROVE  UndoesOne(run[k].cells, changes[k + 1], inverse, k)
<1> PICK n : n = Len(changes)
  OBVIOUS
<1> PICK ch : ch = changes[k + 1]
  OBVIOUS
<1> PICK now : now = run[k].cells
  OBVIOUS
<1> PICK d : d = Effect(now, ch)
  OBVIOUS
<1> PICK x : x = InverseOf(now, ch)
  OBVIOUS
<1>0. n \in Nat /\ changes \in Seq(Change) /\ k \in 0..n /\ k \in Nat /\ k + 1 \in 1..n
  BY DEF BuiltBatch, Changes
<1>1. ch \in Change /\ ch.op \in Invertible /\ Named(ch) \subseteq Ids(now)
  BY <1>0
<1>2. /\ now \in Seq(MarkedCell(cells, changes, k)) /\ UniqueIds(now)
      /\ Ids(now) \subseteq KnownTo(cells, changes, k)
  BY <1>0, AlongRun DEF Along
<1>3. now \in Cells /\ \A i \in DOMAIN now : Cardinality(now[i].refs) <= MaxRefs
  <2>1. MarkedCell(cells, changes, k) \subseteq Cell
    BY DEF MarkedCell
  <2>2. now \in Seq(Cell)
    BY <1>2, <2>1
  <2>3. \A i \in DOMAIN now : now[i] \in MarkedCell(cells, changes, k)
    BY <1>2
  <2> QED
    BY <2>2, <2>3 DEF Cells, MarkedCell
<1>4. Fits(Cell, now, ch)
  <2>1. Fits(MarkedCell(cells, changes, k), now, ch)
    BY <1>1, <1>2, BuiltFits
  <2>2. MarkedCell(cells, changes, k) \in SUBSET Cell
    BY DEF MarkedCell
  <2> QED
    BY <2>1, <2>2, FitsAll
<1>5. Returning(x)
  BY <1>1, <1>3, InverseReturns
<1>6. Named(x) \subseteq Ids(d) /\ Effect(d, x) = now
  BY <1>1, <1>2, <1>3, <1>4, InverseRestoresOne
<1>7. d \in Cells
  BY <1>1, <1>3, EffectTyped DEF Invertible
<1>8. Apart(inverse)
  BY DEF Apart, Returning, Changes
<1>9. x \in Change /\ x.op # "moveRelative"
  BY <1>5 DEF Returning
<1>10. Apply(d, <<x>> \o inverse) = Apply(now, inverse)
  BY <1>6, <1>7, <1>8, <1>9, ApplyCons
<1>11. <<x>> \in Seq(Change) /\ inverse \in Seq(Change) /\ Len(<<x>>) = 1 /\ <<x>>[1] = x
  BY <1>9 DEF Changes
<1> PICK all : all = <<x>> \o inverse
  OBVIOUS
<1>12. Len(all) = 1 + k /\ \A j \in 1..(1 + k) : all[j] = IF j <= 1 THEN <<x>>[j] ELSE inverse[j - 1]
  BY <1>11, JoinedSeq
<1>13. ASSUME NEW j \in 1..(k + 1) PROVE Returning(all[j])
  <2>1. CASE j = 1
    <3>1. all[j] = x
      BY <1>0, <1>11, <1>12, <2>1
    <3> QED
      BY <1>5, <3>1
  <2>2. CASE j # 1
    <3>1. j - 1 \in 1..k /\ ~(j <= 1) /\ j \in 1..(1 + k)
      BY <1>0, <2>2
    <3>2. all[j] = inverse[j - 1]
      BY <1>12, <3>1
    <3> QED
      BY <3>1, <3>2
  <2> QED
    BY <2>1, <2>2
<1>14. Len(all) = k + 1
  BY <1>0, <1>12
<1> QED
  BY <1>10, <1>13, <1>14 DEF UndoesOne

LEMMA UndoneRun ==
  ASSUME NEW cells, NEW changes, BuiltBatch(cells, changes), NEW undo \in Undoings(Len(changes)),
         IsUndo(undo, cells, changes, Len(changes))
  PROVE  Undone(cells, undo, Len(changes))
<1> PICK n : n = Len(changes)
  OBVIOUS
<1>0. n \in Nat /\ changes \in Seq(Change) /\ cells \in Cells /\ changes \in Changes /\ Apart(changes)
  BY EditorApart DEF BuiltBatch, Changes
<1> PICK run : IsRun(run, cells, changes)
  BY <1>0, ApplyRun
<1> DEFINE A == {k \in Nat : k <= n => Undone(cells, undo, k)}
<1>1. 0 \in A
  <2>1. undo[0] = [ok |-> TRUE, cells |-> cells, inverse |-> <<>>]
    BY DEF IsUndo
  <2>2. undo[0].cells = cells /\ undo[0].inverse = <<>> /\ Len(<<>>) = 0 /\ 1..0 = {}
    BY <2>1
  <2>3. Apply(cells, <<>>) = [ok |-> TRUE, cells |-> cells]
    BY <1>0, ApplyNone
  <2> QED
    BY <2>2, <2>3 DEF Undone
<1>2. ASSUME NEW k \in Nat, k \in A PROVE k + 1 \in A
  <2> SUFFICES ASSUME k + 1 <= n, undo[k + 1].ok PROVE Undone(cells, undo, k + 1)
    BY DEF Undone
  <2> PICK u : u = undo[k]
    OBVIOUS
  <2> PICK w : w = undo[k + 1]
    OBVIOUS
  <2>1. k \in 0..(n - 1) /\ k \in 0..n /\ Undone(cells, undo, k)
    BY <1>0, <1>2
  <2>2. u.ok /\ changes[k + 1].op \in Invertible /\ Named(changes[k + 1]) \subseteq Ids(u.cells)
    BY <1>0, <2>1, UndoStep
  <2>3. /\ w.cells = Effect(u.cells, changes[k + 1])
        /\ w.inverse = <<InverseOf(u.cells, changes[k + 1])>> \o u.inverse
        /\ u.inverse \in Changes
    <3>1. u.inverse \in Changes
      BY <1>0, <2>1, UndoStep
    <3>2. w.cells = Effect(u.cells, changes[k + 1])
      BY <1>0, <2>1, UndoStep
    <3>3. w.inverse = <<InverseOf(u.cells, changes[k + 1])>> \o u.inverse
      BY <1>0, <2>1, UndoStep
    <3> QED
      BY <3>1, <3>2, <3>3
  <2>4. run[k].ok /\ run[k].cells = u.cells
    BY <2>1, <2>2, UndoFollows
  <2>5. /\ Len(u.inverse) = k /\ \A i \in 1..k : Returning(u.inverse[i])
        /\ Apply(u.cells, u.inverse) = [ok |-> TRUE, cells |-> cells]
    BY <2>1, <2>2 DEF Undone
  <2> PICK inverse \in Changes : inverse = u.inverse
    BY <2>3
  <2>6. /\ Len(inverse) = k /\ \A i \in 1..k : Returning(inverse[i])
        /\ changes[k + 1].op \in Invertible /\ Named(changes[k + 1]) \subseteq Ids(run[k].cells)
        /\ run[k].ok
    BY <2>2, <2>4, <2>5
  <2> PICK now : now = run[k].cells
    OBVIOUS
  <2> PICK all : all = <<InverseOf(now, changes[k + 1])>> \o inverse
    OBVIOUS
  <2>8. UndoesOne(run[k].cells, changes[k + 1], inverse, k)
    BY <2>1, <2>6, UndoneStep
  <2>7. /\ Len(all) = k + 1
        /\ \A i \in 1..(k + 1) : Returning(all[i])
        /\ Apply(Effect(now, changes[k + 1]), all) = Apply(now, inverse)
    BY <2>8 DEF UndoesOne
  <2> QED
    BY <2>3, <2>4, <2>5, <2>7 DEF Undone
<1> HIDE DEF A
<1>3. n \in A
  BY <1>0, <1>1, <1>2, Induction
<1> QED
  BY <1>0, <1>3 DEF A

LEMMA ReferencesBothWays ==
  ASSUME NEW old \in Cells, NEW new \in Cells, UniqueIds(old), UniqueIds(new),
         PreservesReferences(old, new)
  PROVE  PreservesReferences(new, old)
<1>0. old \in Seq(Cell) /\ new \in Seq(Cell) /\ DOMAIN old = 1..Len(old) /\ DOMAIN new = 1..Len(new)
  BY DEF Cells
<1>1. ASSUME NEW j \in DOMAIN new
      PROVE  new[j].refs = IF new[j].id \in Ids(old) THEN CellOf(old, new[j].id).refs ELSE {}
  <2> PICK id : id = new[j].id
    OBVIOUS
  <2>1. CASE id \notin Ids(old)
    BY <2>1 DEF PreservesReferences
  <2>2. CASE id \in Ids(old)
    <3> PICK i \in DOMAIN old : old[i].id = id
      BY <2>2 DEF Ids
    <3>1. CellOf(old, id) = old[i]
      <4>1. i \in 1..Len(old) /\ old[i].id = id
        BY <1>0
      <4> QED
        BY <1>0, <4>1, Found
    <3>2. id \in Ids(new) /\ CellOf(new, id) = new[j]
      <4>1. j \in 1..Len(new) /\ new[j].id = id
        BY <1>0
      <4> QED
        BY <1>0, <4>1, Found
    <3>3. old[i].refs = CellOf(new, id).refs
      BY <3>2 DEF PreservesReferences
    <3> QED
      BY <2>2, <3>1, <3>2, <3>3
  <2> QED
    BY <2>1, <2>2
<1>2. ASSUME NEW i \in DOMAIN old, old[i].id \notin Ids(new) PROVE old[i].refs = {}
  BY <1>2 DEF PreservesReferences
<1> QED
  BY <1>1, <1>2 DEF PreservesReferences

\* Whenever the editor keeps an inverse the batch applies, and the inverse takes
\* it back; the inverse of an accepted batch is accepted.
LEMMA InverseRestoresBatch ==
  ASSUME BatchBuilt
  PROVE  InverseRestores /\ AcceptedIsInvertible
<1>0. BuiltBatch(base, batch) /\ base \in Cells /\ batch \in Changes /\ Apart(batch) /\ UniqueIds(base)
  BY EditorApart DEF BatchBuilt, BuiltBatch
<1> PICK n : n = Len(batch)
  OBVIOUS
<1>1. n \in Nat /\ n \in 0..n /\ DOMAIN batch = 1..n
  BY <1>0 DEF Changes
<1> PICK run : IsRun(run, base, batch)
  BY <1>0, ApplyRun
<1> PICK undo \in Undoings(Len(batch)) : IsUndo(undo, base, batch, Len(batch))
  BY <1>0, UndoRun
<1> PICK after : after = Apply(base, batch)
  OBVIOUS
<1> PICK inverse : inverse = Inverted(base, batch)
  OBVIOUS
<1>2. after = run[n] /\ inverse.ok = undo[n].ok /\ inverse.changes = undo[n].inverse
  BY DEF IsRun, IsUndo
<1>3. inverse.ok => after.ok /\ after.cells = undo[n].cells
  <2>1. \A k \in 0..Len(batch) : undo[k].ok => run[k].ok /\ run[k].cells = undo[k].cells
    BY <1>0, UndoFollows
  <2> QED
    BY <1>1, <1>2, <2>1
<1>4. Undone(base, undo, n)
  BY <1>0, UndoneRun
<1>5. AcceptedIsInvertible
  <2> SUFFICES ASSUME after.ok, \A i \in 1..n : batch[i].op # "clearOutputs" PROVE inverse.ok
    BY <1>1 DEF AcceptedIsInvertible
  <2> QED
    BY <1>0, <1>1, <1>2, UndoFollows
<1>6. ASSUME inverse.ok
      PROVE  after.ok /\ Apply(after.cells, inverse.changes) = [ok |-> TRUE, cells |-> base]
  BY <1>2, <1>3, <1>4, <1>6 DEF Undone
<1>7. ASSUME inverse.ok, batch # <<>>, Proposal(base, batch).ok
      PROVE  Proposal(after.cells, inverse.changes).ok
  <2>1. after.ok /\ PreservesReferences(base, after.cells) /\ ValidChanges(batch)
    BY <1>7 DEF Proposal
  <2>2. after.cells \in Cells /\ UniqueIds(after.cells)
    BY <1>0, <2>1, BuiltResult
  <2>3. PreservesReferences(after.cells, base)
    BY <1>0, <2>1, <2>2, ReferencesBothWays
  <2>4. Len(inverse.changes) = n /\ \A i \in 1..n : Returning(inverse.changes[i])
    BY <1>2, <1>4, <1>7 DEF Undone
  <2>5. inverse.changes \in Changes
    <3>1. undo[n] \in [ok : BOOLEAN, cells : Cells, inverse : Changes]
      BY <1>1 DEF Undoings
    <3> QED
      BY <1>2, <3>1
  <2>6. DOMAIN inverse.changes = 1..n
    BY <2>4, <2>5 DEF Changes
  <2>7. ValidChanges(inverse.changes)
    <3>1. n \in 1..MaxChanges
      BY <2>1 DEF ValidChanges
    <3>2. \A i \in 1..n : WellFormed(inverse.changes[i])
      BY <2>4 DEF Returning, WellFormed
    <3> QED
      BY <2>4, <2>6, <3>1, <3>2 DEF ValidChanges
  <2>8. Apply(after.cells, inverse.changes).ok = TRUE /\ Apply(after.cells, inverse.changes).cells = base
    BY <1>6, <1>7
  <2> QED
    BY <2>3, <2>7, <2>8 DEF Proposal
<1>8. InverseRestores
  BY <1>6, <1>7 DEF InverseRestores
<1> QED
  BY <1>5, <1>8

-----------------------------------------------------------------------------
(* Neighbours in place of positions. *)

LEMMA ListedSeq ==
  ASSUME NEW cells \in Cells
  PROVE  /\ Listed(cells) \in Seq(CellId) /\ Len(Listed(cells)) = Len(cells)
         /\ \A i \in 1..Len(cells) : Listed(cells)[i] = cells[i].id
         /\ ToSet(Listed(cells)) = Ids(cells)
<1>1. Len(cells) \in Nat /\ DOMAIN cells = 1..Len(cells) /\ \A i \in 1..Len(cells) : cells[i] \in Cell
  BY DEF Cells
<1>2. \A i \in 1..Len(cells) : cells[i].id \in CellId
  BY <1>1 DEF Cell
<1>3. Listed(cells) \in [1..Len(cells) -> CellId]
  BY <1>1, <1>2 DEF Listed
<1>4. Listed(cells) \in Seq(CellId) /\ Len(Listed(cells)) = Len(cells) /\ DOMAIN Listed(cells) = 1..Len(cells)
  BY <1>1, <1>3
<1>5. \A i \in 1..Len(cells) : Listed(cells)[i] = cells[i].id
  BY <1>1 DEF Listed
<1>6. ToSet(Listed(cells)) = Ids(cells)
  BY <1>1, <1>4, <1>5 DEF ToSet, Ids
<1> QED
  BY <1>4, <1>5, <1>6

LEMMA ListedInserted ==
  ASSUME NEW cells \in Cells, NEW i \in 1..(Len(cells) + 1), NEW x \in Cell
  PROVE  Listed(InsertAt(cells, i, x)) = InsertAt(Listed(cells), i, x.id)
<1>0. Len(cells) \in Nat /\ cells \in Seq(Cell) /\ x.id \in CellId
  BY DEF Cells, Cell
<1>7. ASSUME NEW ids \in Seq(CellId), Len(ids) = Len(cells), NEW id \in CellId
      PROVE  InsertAt(ids, i, id) \in Seq(CellId) /\ IsInsertion(InsertAt(ids, i, id), ids, id, i)
  <2>1. i \in 1..(Len(ids) + 1)
    BY <1>7
  <2> QED
    BY <2>1, InsertAtSeq
<1>2. InsertAt(cells, i, x) \in Seq(Cell) /\ IsInsertion(InsertAt(cells, i, x), cells, x, i)
  BY InsertAtSeq DEF Cells
<1> PICK ids \in Seq(CellId) : ids = Listed(cells)
  BY ListedSeq
<1>1. Len(ids) = Len(cells) /\ \A j \in 1..Len(cells) : ids[j] = cells[j].id
  BY ListedSeq
<1>3. /\ InsertAt(ids, i, x.id) \in Seq(CellId) /\ Len(InsertAt(ids, i, x.id)) = Len(cells) + 1
      /\ \A j \in 1..(Len(cells) + 1) :
           InsertAt(ids, i, x.id)[j] = IF j < i THEN ids[j] ELSE IF j = i THEN x.id ELSE ids[j - 1]
  BY <1>0, <1>1, <1>7 DEF IsInsertion
<1> PICK d : d = InsertAt(cells, i, x)
  OBVIOUS
<1> PICK e : e = InsertAt(ids, i, x.id)
  OBVIOUS
<1>8. /\ Len(d) = Len(cells) + 1
      /\ \A j \in 1..(Len(cells) + 1) :
           d[j] = IF j < i THEN cells[j] ELSE IF j = i THEN x ELSE cells[j - 1]
  BY <1>2 DEF IsInsertion
<1>4. d \in Cells
  BY <1>2 DEF Cells
<1>5. /\ Listed(d) \in Seq(CellId) /\ Len(Listed(d)) = Len(cells) + 1
      /\ \A j \in 1..(Len(cells) + 1) : Listed(d)[j] = d[j].id
  BY <1>4, <1>8, ListedSeq
<1>6. ASSUME NEW j \in 1..Len(e) PROVE Listed(d)[j] = e[j]
  <2>1. Listed(d)[j] = d[j].id
    BY <1>3, <1>5
  <2>2. CASE j < i
    <3>1. j \in 1..Len(cells)
      BY <1>0, <1>1, <2>2
    <3> QED
      BY <1>1, <1>3, <1>8, <2>1, <2>2, <3>1
  <2>3. CASE j = i
    BY <1>3, <1>8, <2>1, <2>3
  <2>4. CASE j > i
    <3>1. j - 1 \in 1..Len(cells) /\ ~(j < i) /\ j # i
      BY <1>0, <1>1, <1>3, <2>4
    <3>2. d[j] = cells[j - 1] /\ e[j] = ids[j - 1]
      BY <1>3, <1>8, <3>1
    <3> QED
      BY <1>1, <2>1, <3>1, <3>2
  <2> QED
    BY <1>0, <1>1, <2>2, <2>3, <2>4
<1> QED
  BY <1>3, <1>5, <1>6, SameList

LEMMA ListedRemoved ==
  ASSUME NEW cells \in Cells, NEW p \in 1..Len(cells)
  PROVE  Listed(RemoveAt(cells, p)) = RemoveAt(Listed(cells), p)
<1> PICK ids \in Seq(CellId) : ids = Listed(cells)
  BY ListedSeq
<1> PICK d : d = RemoveAt(cells, p)
  OBVIOUS
<1> PICK e : e = RemoveAt(ids, p)
  OBVIOUS
<1>1. Len(ids) = Len(cells) /\ Len(cells) \in Nat /\ \A j \in 1..Len(cells) : ids[j] = cells[j].id
  BY ListedSeq DEF Cells
<1>2. /\ d \in Seq(Cell) /\ Len(d) = Len(cells) - 1
      /\ \A j \in 1..(Len(cells) - 1) : d[j] = IF j < p THEN cells[j] ELSE cells[j + 1]
  BY RemoveAtSeq DEF Cells
<1>3. /\ e \in Seq(CellId) /\ Len(e) = Len(cells) - 1
      /\ \A j \in 1..(Len(cells) - 1) : e[j] = IF j < p THEN ids[j] ELSE ids[j + 1]
  <2>1. p \in 1..Len(ids)
    BY <1>1
  <2> QED
    BY <1>1, <2>1, RemoveAtSeq
<1>4. d \in Cells
  BY <1>2 DEF Cells
<1>5. /\ Listed(d) \in Seq(CellId) /\ Len(Listed(d)) = Len(cells) - 1
      /\ \A j \in 1..(Len(cells) - 1) : Listed(d)[j] = d[j].id
  BY <1>2, <1>4, ListedSeq
<1>6. ASSUME NEW j \in 1..Len(e) PROVE Listed(d)[j] = e[j]
  <2>1. Listed(d)[j] = d[j].id /\ j \in 1..(Len(cells) - 1)
    BY <1>3, <1>5
  <2>2. CASE j < p
    <3>1. j \in 1..Len(cells)
      BY <1>1, <2>1
    <3> QED
      BY <1>1, <1>2, <1>3, <2>1, <2>2, <3>1
  <2>3. CASE ~(j < p)
    <3>1. j + 1 \in 1..Len(cells)
      BY <1>1, <2>1
    <3>2. d[j] = cells[j + 1] /\ e[j] = ids[j + 1]
      BY <1>2, <1>3, <2>1, <2>3
    <3> QED
      BY <1>1, <2>1, <3>1, <3>2
  <2> QED
    BY <2>2, <2>3
<1> QED
  BY <1>3, <1>5, <1>6, SameList

\* Dropping one element, or none: the element at p, which may be one past the end.
Dropped(r, list, p, k) ==
  /\ Len(r) = IF k < p THEN k ELSE k - 1
  /\ \A j \in 1..Len(r) : r[j] = IF j < p THEN list[j] ELSE list[j + 1]

LEMMA OnlyDrops ==
  ASSUME NEW S, NEW list \in Seq(S), NEW kept, NEW p \in 1..(Len(list) + 1),
         \A j \in 1..Len(list) : list[j] \in kept <=> j # p
  PROVE  Only(list, kept) \in Seq(S) /\ Dropped(Only(list, kept), list, p, Len(list))
<1> PICK n : n = Len(list)
  OBVIOUS
<1> DEFINE V == Seq(S)
<1>1. n \in Nat /\ DOMAIN list = 1..n
  OBVIOUS
<1>2. Nothing \in V
  BY DEF Nothing
<1>3. \A k \in 1..n : \A r \in V : Sifted(kept, r, list[k]) \in V
  BY <1>1 DEF Sifted
<1> HIDE DEF V
<1> PICK chain \in [0..n -> V] : IsSifting(chain, list, kept, n)
  BY <1>1, <1>2, <1>3, OnlyChain
<1>4. /\ chain[0] = Nothing
      /\ chain[n] = Only(list, kept)
      /\ \A k \in 1..n : chain[k] = Sifted(kept, chain[k - 1], list[k])
  BY DEF IsSifting
<1> DEFINE A == {k \in Nat : k <= n => Dropped(chain[k], list, p, k)}
<1>5. 0 \in A
  <2>1. Len(chain[0]) = 0
    BY <1>4 DEF Nothing
  <2>2. Dropped(chain[0], list, p, 0)
    BY <1>1, <2>1 DEF Dropped
  <2> QED
    BY <2>2
<1>6. ASSUME NEW k \in Nat, k \in A PROVE k + 1 \in A
  <2> SUFFICES ASSUME k + 1 <= n PROVE Dropped(chain[k + 1], list, p, k + 1)
    OBVIOUS
  <2> PICK r : r = chain[k]
    OBVIOUS
  <2> PICK q : q = chain[k + 1]
    OBVIOUS
  <2>1. k + 1 \in 1..n /\ (k + 1) - 1 = k /\ k \in 0..n /\ k <= n
    BY <1>1
  <2>2. Dropped(r, list, p, k) /\ r \in Seq(S)
    BY <1>4, <1>6, <2>1 DEF V
  <2>3. q = Sifted(kept, r, list[k + 1])
    BY <1>4, <2>1
  <2>4. CASE k + 1 = p
    <3>1. q = r
      BY <2>1, <2>3, <2>4 DEF Sifted
    <3> QED
      BY <2>1, <2>2, <2>4, <3>1 DEF Dropped
  <2>5. CASE k + 1 # p
    <3>1. q = Append(r, list[k + 1]) /\ list[k + 1] \in S
      BY <2>1, <2>3, <2>5 DEF Sifted
    <3>2. Len(q) = Len(r) + 1 /\ \A j \in 1..Len(r) : q[j] = r[j]
      BY <2>2, <3>1
    <3>3. q[Len(r) + 1] = list[k + 1]
      BY <2>2, <3>1
    <3>4. CASE k + 1 < p
      <4>1. Len(r) = k /\ \A j \in 1..k : r[j] = list[j]
        <5>1. k < p /\ \A j \in 1..k : j < p
          BY <1>1, <3>4
        <5> QED
          BY <2>2, <5>1 DEF Dropped
      <4>2. \A j \in 1..(k + 1) : q[j] = list[j] /\ j < p
        <5> SUFFICES ASSUME NEW j \in 1..(k + 1) PROVE q[j] = list[j] /\ j < p
          OBVIOUS
        <5>1. CASE j = k + 1
          BY <3>3, <3>4, <4>1, <5>1
        <5>2. CASE j # k + 1
          <6>1. j \in 1..k /\ j < p
            BY <3>4, <5>2
          <6> QED
            BY <3>2, <4>1, <6>1
        <5> QED
          BY <5>1, <5>2
      <4> QED
        BY <3>2, <3>4, <4>1, <4>2 DEF Dropped
    <3>5. CASE k + 1 > p
      <4>1. Len(r) = k - 1 /\ ~(k < p) /\ k \in 1..n
        BY <2>1, <2>2, <3>5 DEF Dropped
      <4>2. Len(q) = k
        BY <3>2, <4>1
      <4>3. ASSUME NEW j \in 1..k PROVE q[j] = IF j < p THEN list[j] ELSE list[j + 1]
        <5>1. CASE j = k
          BY <3>3, <4>1, <5>1
        <5>2. CASE j # k
          <6>1. j \in 1..Len(r)
            BY <4>1, <5>2
          <6> QED
            BY <2>2, <3>2, <6>1 DEF Dropped
        <5> QED
          BY <5>1, <5>2
      <4>4. ~(k + 1 < p) /\ (k + 1) - 1 = k
        BY <3>5
      <4> QED
        BY <4>2, <4>3, <4>4 DEF Dropped
    <3> QED
      BY <2>1, <2>5, <3>4, <3>5
  <2> QED
    BY <2>4, <2>5
<1> HIDE DEF A
<1>7. n \in A
  BY <1>1, <1>5, <1>6, Induction
<1>8. Dropped(chain[n], list, p, n)
  BY <1>1, <1>7 DEF A
<1>9. chain[n] \in Seq(S)
  BY <1>1, <1>4 DEF V
<1> QED
  BY <1>4, <1>8, <1>9

LEMMA LesserTwice ==
  ASSUME NEW m \in Nat, NEW n \in Nat
  PROVE  Lesser(m, n) \in 0..n /\ Lesser(Lesser(m, n), n) = Lesser(m, n)
BY DEF Lesser

\* An index names a neighbour, beside which is where it puts a cell.
LEMMA AnchorPlaces ==
  ASSUME NEW cells \in Cells, UniqueIds(cells), cells # <<>>, NEW at \in 0..Len(cells), NEW x \in Cell
  PROVE  LET a == Anchor(Listed(cells), at)
         IN /\ a[1] \in Ids(cells) /\ a[2] \in BOOLEAN
            /\ Beside(cells, a[1], a[2], x) = InsertAt(cells, at + 1, x)
<1> PICK ids : ids = Listed(cells)
  OBVIOUS
<1> PICK a : a = Anchor(ids, at)
  OBVIOUS
<1> PICK n : n = Len(cells)
  OBVIOUS
<1>1. /\ cells \in Seq(Cell) /\ Len(ids) = n /\ n \in Nat /\ DOMAIN cells = 1..n
      /\ \A i \in 1..n : ids[i] = cells[i].id
  BY ListedSeq DEF Cells
<1>2. n # 0
  BY <1>1
<1> PICK p : p = Lesser(at + 1, n)
  OBVIOUS
<1>3. p \in 1..n /\ p + (IF at = n THEN 1 ELSE 0) = at + 1
  <2>1. CASE at = n
    BY <1>1, <1>2, <2>1 DEF Lesser
  <2>2. CASE at # n
    <3>1. at + 1 \in 1..n /\ ~(n < at + 1)
      BY <1>1, <2>2
    <3>2. p = at + 1
      BY <1>1, <3>1 DEF Lesser
    <3> QED
      BY <2>2, <3>1, <3>2
  <2> QED
    BY <2>1, <2>2
<1>4. a[1] = cells[p].id /\ a[2] = (at = n)
  BY <1>1, <1>3 DEF Anchor
<1>5. cells[p].id \in Ids(cells) /\ PositionOf(cells, cells[p].id) = p
  BY <1>1, <1>3, Found
<1>6. a[2] \in BOOLEAN /\ (IF a[2] THEN 1 ELSE 0) = (IF at = n THEN 1 ELSE 0)
  BY <1>4
<1>7. PositionOf(cells, a[1]) + (IF a[2] THEN 1 ELSE 0) = at + 1
  BY <1>3, <1>4, <1>5, <1>6
<1>8. Beside(cells, a[1], a[2], x) = InsertAt(cells, at + 1, x)
  BY <1>7 DEF Beside
<1> QED
  BY <1>4, <1>5, <1>6, <1>8

LEMMA RemoveFirstListed ==
  ASSUME NEW cells \in Cells, UniqueIds(cells), NEW id
  PROVE  /\ Contains(Listed(cells), id) <=> id \in Ids(cells)
         /\ id \in Ids(cells) => RemoveFirst(Listed(cells), id) = Listed(Without(cells, id))
<1> PICK ids : ids = Listed(cells)
  OBVIOUS
<1>1. /\ cells \in Seq(Cell) /\ Len(ids) = Len(cells) /\ DOMAIN cells = 1..Len(cells)
      /\ \A i \in 1..Len(cells) : ids[i] = cells[i].id
  BY ListedSeq DEF Cells
<1>2. Contains(ids, id) <=> id \in Ids(cells)
  BY <1>1 DEF Contains, Ids
<1>3. ASSUME id \in Ids(cells) PROVE RemoveFirst(ids, id) = Listed(Without(cells, id))
  <2> PICK p : p = PositionOf(cells, id)
    OBVIOUS
  <2> DEFINE I == {i \in 1..Len(cells) : cells[i].id = id}
             J == {i \in 1..Len(ids) : ids[i] = id}
  <2>1. p \in 1..Len(cells) /\ I # {} /\ I = J
    BY <1>1, <1>3, PositionFound
  <2>2. p = Min(I)
    BY <2>1 DEF PositionOf, SelectInSeq
  <2>3. RemoveFirst(ids, id) = RemoveAt(ids, Min(J))
    BY <2>1 DEF RemoveFirst, SelectInSeq
  <2> HIDE DEF I, J
  <2>4. RemoveFirst(ids, id) = RemoveAt(ids, p)
    BY <2>1, <2>2, <2>3
  <2>5. Listed(RemoveAt(cells, p)) = RemoveAt(ids, p)
    BY <2>1, ListedRemoved
  <2> QED
    BY <2>4, <2>5 DEF Without
<1> QED
  BY <1>2, <1>3

LEMMA OnlyListed ==
  ASSUME NEW cells \in Cells, UniqueIds(cells), NEW id
  PROVE  Only(Listed(cells), ToSet(Listed(cells)) \ {id})
           = IF id \in Ids(cells) THEN Listed(Without(cells, id)) ELSE Listed(cells)
<1> PICK ids \in Seq(CellId) : ids = Listed(cells)
  BY ListedSeq
<1> PICK n : n = Len(cells)
  OBVIOUS
<1>1. /\ cells \in Seq(Cell) /\ Len(ids) = n /\ n \in Nat /\ DOMAIN cells = 1..n
      /\ \A i \in 1..n : ids[i] = cells[i].id /\ ids[i] \in ToSet(ids)
      /\ ToSet(ids) = Ids(cells)
  <2>1. \A i \in 1..Len(cells) : cells[i].id \in Ids(cells)
    BY DEF Ids, Cells
  <2> QED
    BY <2>1, ListedSeq DEF Cells
<1> PICK kept : kept = ToSet(ids) \ {id}
  OBVIOUS
<1> PICK left : left = Only(ids, kept)
  OBVIOUS
<1>2. CASE id \in Ids(cells)
  <2> PICK p : p = PositionOf(cells, id)
    OBVIOUS
  <2>1. p \in 1..n /\ cells[p].id = id
    BY <1>1, <1>2, PositionFound
  <2>2. \A j \in 1..Len(ids) : ids[j] \in kept <=> j # p
    BY <1>1, <2>1 DEF UniqueIds
  <2>3. p \in 1..(Len(ids) + 1)
    BY <1>1, <2>1
  <2>4. left \in Seq(CellId) /\ Dropped(left, ids, p, Len(ids))
    BY <2>2, <2>3, OnlyDrops
  <2>9. ~(Len(ids) < p) /\ Len(ids) = n
    BY <1>1, <2>1
  <2>5. Len(left) = n - 1 /\ \A j \in 1..Len(left) : left[j] = IF j < p THEN ids[j] ELSE ids[j + 1]
    <3>1. Dropped(left, ids, p, Len(ids))
      BY <2>4
    <3> QED
      BY <2>9, <3>1 DEF Dropped
  <2> PICK d : d = RemoveAt(ids, p)
    OBVIOUS
  <2>6. /\ d \in Seq(CellId) /\ Len(d) = n - 1
        /\ \A j \in 1..(n - 1) : d[j] = IF j < p THEN ids[j] ELSE ids[j + 1]
    <3>1. p \in 1..Len(ids)
      BY <1>1, <2>1
    <3>2. /\ d \in Seq(CellId) /\ Len(d) = Len(ids) - 1
          /\ \A j \in 1..(Len(ids) - 1) : d[j] = IF j < p THEN ids[j] ELSE ids[j + 1]
      BY <3>1, RemoveAtSeq
    <3> QED
      BY <1>1, <3>2
  <2>7. left = d
    <3>1. \A j \in 1..Len(left) : left[j] = d[j]
      BY <2>5, <2>6
    <3>2. left \in Seq(CellId) /\ d \in Seq(CellId) /\ Len(left) = Len(d)
      BY <2>4, <2>5, <2>6
    <3> QED
      BY <3>1, <3>2, SameList
  <2>8. Listed(RemoveAt(cells, p)) = RemoveAt(ids, p)
    BY <2>1, ListedRemoved
  <2> QED
    BY <1>2, <2>7, <2>8 DEF Without
<1>3. CASE id \notin Ids(cells)
  <2>1. \A j \in 1..Len(ids) : ids[j] \in kept <=> j # n + 1
    BY <1>1, <1>3
  <2>2. n + 1 \in 1..(Len(ids) + 1)
    BY <1>1
  <2>3. left \in Seq(CellId) /\ Dropped(left, ids, n + 1, Len(ids))
    BY <2>1, <2>2, OnlyDrops
  <2>6. Len(ids) < n + 1 /\ Len(ids) = n /\ \A j \in 1..n : j < n + 1
    BY <1>1
  <2>4. Len(left) = n /\ \A j \in 1..Len(left) : left[j] = ids[j]
    <3>1. Dropped(left, ids, n + 1, Len(ids))
      BY <2>3
    <3> QED
      BY <2>6, <3>1 DEF Dropped
  <2>5. left = ids
    BY <1>1, <2>3, <2>4, SameList
  <2> QED
    BY <1>3, <2>5
<1> QED
  BY <1>2, <1>3

\* The change that is sent for one the editor made of cells with these ids.
SentOf(ids, ch) ==
  LET rest == IF ch.op = "move" THEN RemoveFirst(ids, ch.id) ELSE ids
      a == Anchor(rest, Lesser(ch.index, Len(rest)))
  IN IF rest = <<>> THEN ch
     ELSE IF ch.op = "insert" THEN InsertBeside(a[1], a[2], ch.cell)
     ELSE IF ch.op = "move" /\ Contains(ids, ch.id) THEN MoveBeside(ch.id, a[1], a[2])
     ELSE ch

\* What is sent does on the editor's own cells what the editor did.
MeansTheSame(cells, ch, sent) ==
  /\ Named(ch) \subseteq Ids(cells) <=> Named(sent) \subseteq Ids(cells)
  /\ Named(ch) \subseteq Ids(cells) => Effect(cells, sent) = Effect(cells, ch)
  /\ sent \in Change
  /\ sent.op = "moveRelative" => sent.id # sent.anchor
After(cells, ch) == IF Named(ch) \subseteq Ids(cells) THEN Effect(cells, ch) ELSE cells

\* An insertion.
LEMMA TrackInsert ==
  ASSUME NEW cells \in Cells, UniqueIds(cells), NEW ch \in Change, ch.op = "insert",
         NEW r, r.ids = Listed(cells)
  PROVE  /\ Track(r, ch).ids = Listed(Effect(cells, ch))
         /\ Track(r, ch).out = Append(r.out, SentOf(Listed(cells), ch))
         /\ MeansTheSame(cells, ch, SentOf(Listed(cells), ch))
<1> PICK ids \in Seq(CellId) : ids = Listed(cells)
  BY ListedSeq
<1>1. cells \in Seq(Cell) /\ Len(ids) = Len(cells) /\ Len(cells) \in Nat /\ Ids(cells) \subseteq CellId
  BY ListedSeq, IdsTyped DEF Cells
<1> PICK x \in Cell : x = ch.cell
  BY DEF Change
<1> PICK index \in Nat : index = ch.index
  BY DEF Change
<1> PICK at : at = Lesser(index, Len(cells))
  OBVIOUS
<1> PICK a : a = Anchor(ids, at)
  OBVIOUS
<1>2. at \in 0..Len(cells) /\ Lesser(at, Len(cells)) = at /\ at + 1 \in 1..(Len(cells) + 1)
  <2>1. at \in 0..Len(cells) /\ Lesser(at, Len(cells)) = at
    BY <1>1, LesserTwice
  <2> QED
    BY <1>1, <2>1
<1>3. Effect(cells, ch) = InsertAt(cells, at + 1, x) /\ Named(ch) = {}
  BY DEF Effect, Put, Named
<1>4. Put(ids, at, x.id) = InsertAt(ids, at + 1, x.id)
  BY <1>1, <1>2 DEF Put
<1>5. Listed(InsertAt(cells, at + 1, x)) = InsertAt(ids, at + 1, x.id)
  BY <1>2, ListedInserted
<1>6. Track(r, ch) = [ids |-> Put(ids, at, x.id),
                      out |-> Append(r.out, IF ids = <<>> THEN ch ELSE InsertBeside(a[1], a[2], x))]
  BY <1>1 DEF Track
<1>7. SentOf(ids, ch) = IF ids = <<>> THEN ch ELSE InsertBeside(a[1], a[2], x)
  BY <1>1 DEF SentOf
<1> PICK sent : sent = SentOf(ids, ch)
  OBVIOUS
<1>8. MeansTheSame(cells, ch, sent)
  <2>1. CASE ids = <<>>
    BY <1>3, <1>7, <2>1 DEF MeansTheSame
  <2>2. CASE ids # <<>>
    <3>1. cells # <<>>
      BY <1>1, <2>2
    <3>2. a[1] \in Ids(cells) /\ a[2] \in BOOLEAN /\ Beside(cells, a[1], a[2], x) = InsertAt(cells, at + 1, x)
      BY <1>2, <3>1, AnchorPlaces
    <3>3. sent = InsertBeside(a[1], a[2], x)
      BY <1>7, <2>2
    <3>4. Named(sent) = {a[1]} /\ Effect(cells, sent) = Beside(cells, a[1], a[2], x)
      BY <3>3 DEF InsertBeside, Named, Effect
    <3>5. sent \in Change /\ sent.op = "insertRelative"
      BY <1>1, <3>2, <3>3 DEF InsertBeside, Change
    <3> QED
      BY <1>3, <3>2, <3>4, <3>5 DEF MeansTheSame
  <2> QED
    BY <2>1, <2>2
<1> QED
  BY <1>3, <1>4, <1>5, <1>6, <1>7, <1>8

\* A move.
LEMMA TrackMove ==
  ASSUME NEW cells \in Cells, UniqueIds(cells), NEW ch \in Change, ch.op = "move", ch.id \in Ids(cells),
         NEW r, r.ids = Listed(cells)
  PROVE  /\ Track(r, ch).ids = Listed(Effect(cells, ch))
         /\ Track(r, ch).out = Append(r.out, SentOf(Listed(cells), ch))
         /\ MeansTheSame(cells, ch, SentOf(Listed(cells), ch))
<1> PICK ids \in Seq(CellId) : ids = Listed(cells)
  BY ListedSeq
<1> PICK rest : rest = RemoveFirst(ids, ch.id)
  OBVIOUS
<1>1. /\ Without(cells, ch.id) \in Seq(Cell) /\ UniqueIds(Without(cells, ch.id))
      /\ Ids(Without(cells, ch.id)) = Ids(cells) \ {ch.id}
      /\ CellOf(cells, ch.id) \in Cell /\ CellOf(cells, ch.id).id = ch.id
  BY Removing DEF Cells
<1> PICK w \in Cells : w = Without(cells, ch.id)
  BY <1>1 DEF Cells
<1> PICK x \in Cell : x = CellOf(cells, ch.id)
  BY <1>1
<1>2. /\ UniqueIds(w) /\ Ids(w) = Ids(cells) \ {ch.id} /\ x.id = ch.id /\ Len(w) \in Nat
      /\ Ids(cells) \subseteq CellId /\ ch.index \in Nat /\ ch.id \in CellId
  BY <1>1, IdsTyped DEF Cells, Change
<1> PICK index \in Nat : index = ch.index
  BY <1>2
<1>3. rest = Listed(w) /\ Contains(ids, ch.id)
  BY RemoveFirstListed
<1>4. Len(rest) = Len(w) /\ (rest = <<>> => w = <<>>) /\ (w = <<>> => rest = <<>>) /\ rest \in Seq(CellId)
  <2>1. rest \in Seq(CellId) /\ Len(rest) = Len(w)
    BY <1>3, ListedSeq
  <2>2. w \in Seq(Cell)
    BY DEF Cells
  <2> QED
    BY <2>1, <2>2
<1> PICK at : at = Lesser(index, Len(w))
  OBVIOUS
<1> PICK a : a = Anchor(rest, at)
  OBVIOUS
<1>5. at \in 0..Len(w) /\ Lesser(at, Len(w)) = at
  BY <1>2, LesserTwice
<1>6. at + 1 \in 1..(Len(w) + 1)
  BY <1>2, <1>5
<1>7. Effect(cells, ch) = InsertAt(w, at + 1, x) /\ Named(ch) = {ch.id}
  BY DEF Effect, Put, Named
<1>8. Put(rest, at, ch.id) = InsertAt(rest, at + 1, ch.id)
  BY <1>4, <1>5 DEF Put
<1>9. Listed(InsertAt(w, at + 1, x)) = InsertAt(rest, at + 1, ch.id)
  BY <1>2, <1>3, <1>6, ListedInserted
<1>10. Track(r, ch) = [ids |-> Put(rest, at, ch.id),
                       out |-> Append(r.out, IF rest = <<>> THEN ch ELSE MoveBeside(ch.id, a[1], a[2]))]
  BY <1>3, <1>4 DEF Track
<1>11. SentOf(ids, ch) = IF rest = <<>> THEN ch ELSE MoveBeside(ch.id, a[1], a[2])
  BY <1>3, <1>4 DEF SentOf
<1> PICK sent : sent = SentOf(ids, ch)
  OBVIOUS
<1>12. MeansTheSame(cells, ch, sent)
  <2>1. CASE rest = <<>>
    BY <1>7, <1>11, <2>1 DEF MeansTheSame
  <2>2. CASE rest # <<>>
    <3>1. w # <<>>
      BY <1>4, <2>2
    <3>2. a[1] \in Ids(w) /\ a[2] \in BOOLEAN /\ Beside(w, a[1], a[2], x) = InsertAt(w, at + 1, x)
      BY <1>2, <1>3, <1>5, <3>1, AnchorPlaces
    <3>3. sent = MoveBeside(ch.id, a[1], a[2])
      BY <1>11, <2>2
    <3>4. Named(sent) = {ch.id, a[1]} /\ Effect(cells, sent) = Beside(w, a[1], a[2], x)
      BY <3>3 DEF MoveBeside, Named, Effect
    <3>5. sent \in Change /\ sent.id = ch.id /\ sent.anchor = a[1]
      BY <1>2, <3>2, <3>3 DEF MoveBeside, Change
    <3>6. a[1] \in Ids(cells) /\ a[1] # ch.id
      BY <1>2, <3>2
    <3> QED
      BY <1>7, <3>2, <3>4, <3>5, <3>6 DEF MeansTheSame
  <2> QED
    BY <2>1, <2>2
<1> QED
  BY <1>7, <1>8, <1>9, <1>10, <1>11, <1>12

\* Whatever the change, known or not: the ids followed are those of the list, and
\* what is sent means the same for it.
LEMMA TrackFollows ==
  ASSUME NEW cells \in Cells, UniqueIds(cells), NEW ch \in Change, ch.op \in EditorOps,
         NEW r \in [ids : Seq(CellId), out : Changes], r.ids = Listed(cells)
  PROVE  /\ Track(r, ch).ids = Listed(After(cells, ch))
         /\ Track(r, ch).out = Append(r.out, SentOf(Listed(cells), ch))
         /\ MeansTheSame(cells, ch, SentOf(Listed(cells), ch))
<1> PICK ids \in Seq(CellId) : ids = Listed(cells)
  BY ListedSeq
<1>0. cells \in Seq(Cell) /\ DOMAIN cells = 1..Len(cells)
  BY DEF Cells
<1>1. CASE ch.op = "insert"
  <2>1. Named(ch) = {}
    BY <1>1 DEF Named
  <2> QED
    BY <1>1, <2>1, TrackInsert DEF After
<1>2. ch.op # "insert" => Named(ch) = {ch.id}
  BY DEF Named, EditorOps
<1>3. CASE ch.op = "move" /\ ch.id \in Ids(cells)
  BY <1>2, <1>3, TrackMove DEF After
<1>4. ASSUME ch.op # "insert", ch.op = "move" => ch.id \notin Ids(cells)
      PROVE  SentOf(ids, ch) = ch
  <2>1. ~(ch.op = "move" /\ Contains(ids, ch.id))
    BY <1>4, RemoveFirstListed
  <2> QED
    BY <1>4, <2>1 DEF SentOf
<1>8. MeansTheSame(cells, ch, ch)
  BY DEF MeansTheSame, EditorOps
<1>5. CASE ch.op = "delete"
  <2>1. Track(r, ch) = [ids |-> Only(ids, ToSet(ids) \ {ch.id}), out |-> Append(r.out, ch)]
    BY <1>5 DEF Track
  <2>2. Only(ids, ToSet(ids) \ {ch.id}) = IF ch.id \in Ids(cells) THEN Listed(Without(cells, ch.id)) ELSE ids
    BY OnlyListed
  <2>3. Effect(cells, ch) = Without(cells, ch.id)
    BY <1>5 DEF Effect
  <2>4. Track(r, ch).ids = Listed(After(cells, ch))
    BY <1>2, <1>5, <2>1, <2>2, <2>3 DEF After
  <2>5. Track(r, ch).out = Append(r.out, ch)
    BY <2>1
  <2> PICK sent : sent = SentOf(ids, ch)
    OBVIOUS
  <2>6. sent = ch
    BY <1>4, <1>5
  <2> QED
    BY <1>8, <2>4, <2>5, <2>6
<1>6. CASE ch.op = "move" /\ ch.id \notin Ids(cells)
  <2>1. ~Contains(ids, ch.id)
    BY <1>6, RemoveFirstListed
  <2>2. Track(r, ch) = [r EXCEPT !.out = Append(r.out, ch)]
    BY <1>6, <2>1 DEF Track
  <2>3. Track(r, ch).ids = ids /\ Track(r, ch).out = Append(r.out, ch)
    BY <2>2
  <2>4. After(cells, ch) = cells
    BY <1>2, <1>6 DEF After
  <2> QED
    BY <1>4, <1>6, <1>8, <2>3, <2>4
<1>7. CASE ch.op \in {"update", "clearOutputs"}
  <2>1. Track(r, ch) = [r EXCEPT !.out = Append(r.out, ch)]
    BY <1>7 DEF Track
  <2>2. Track(r, ch).ids = ids /\ Track(r, ch).out = Append(r.out, ch)
    BY <2>1
  <2>3. Listed(After(cells, ch)) = ids
    <3>1. CASE ch.id \notin Ids(cells)
      BY <1>2, <1>7, <3>1 DEF After
    <3>2. CASE ch.id \in Ids(cells)
      <4> PICK p : p = PositionOf(cells, ch.id)
        OBVIOUS
      <4>1. p \in 1..Len(cells) /\ cells[p] \in Cell /\ After(cells, ch) = Effect(cells, ch)
        BY <1>0, <1>2, <1>7, <3>2, PositionFound DEF After
      <4> PICK old \in Cell : old = cells[p]
        BY <4>1
      <4>2. \E y : y.id = old.id /\ Effect(cells, ch) = ReplacedAt(cells, p, y)
        <5>1. CASE ch.op = "update"
          <6>1. Rewritten(old, ch).id = old.id
            BY DEF Rewritten, Cell
          <6>2. Effect(cells, ch) = ReplacedAt(cells, p, Rewritten(old, ch))
            BY <4>1, <5>1 DEF Effect, ReplacedAt
          <6> QED
            BY <6>1, <6>2
        <5>2. CASE ch.op = "clearOutputs"
          <6>1. Cleared(old).id = old.id
            BY DEF Cleared, Cell
          <6>2. Effect(cells, ch) = ReplacedAt(cells, p, Cleared(old))
            BY <4>1, <5>2 DEF Effect, ReplacedAt, Cleared
          <6> QED
            BY <6>1, <6>2
        <5> QED
          BY <1>7, <5>1, <5>2
      <4> PICK y : y.id = old.id /\ Effect(cells, ch) = ReplacedAt(cells, p, y)
        BY <4>2
      <4> PICK d : d = ReplacedAt(cells, p, y)
        OBVIOUS
      <4>3. DOMAIN d = DOMAIN cells /\ \A j \in DOMAIN cells : d[j].id = cells[j].id
        BY <1>0, <4>1 DEF ReplacedAt
      <4>4. Listed(d) = Listed(cells)
        BY <4>3 DEF Listed
      <4> QED
        BY <4>1, <4>4
    <3> QED
      BY <3>1, <3>2
  <2> PICK sent : sent = SentOf(ids, ch)
    OBVIOUS
  <2>6. sent = ch
    BY <1>4, <1>7
  <2> QED
    BY <1>8, <2>2, <2>3, <2>6
<1> QED
  BY <1>1, <1>3, <1>5, <1>6, <1>7 DEF EditorOps

Trackings(n) == [0..n -> [ids : Seq(CellId), out : Changes]]

LEMMA TrackRun ==
  ASSUME NEW cells \in Cells, NEW changes \in Changes
  PROVE  \E chain \in Trackings(Len(changes)) : IsTracking(chain, cells, changes, Len(changes))
<1> DEFINE V == [ids : Seq(CellId), out : Changes]
<1> PICK n : n = Len(changes)
  OBVIOUS
<1>1. n \in Nat /\ DOMAIN changes = 1..n /\ \A k \in 1..n : changes[k] \in Change
  BY DEF Changes
<1>2. [ids |-> Listed(cells), out |-> <<>>] \in V
  BY ListedSeq DEF Changes
<1>3. \A k \in 1..n : \A r \in V : Track(r, changes[k]) \in V
  BY <1>1, TrackTyped
<1> HIDE DEF V
<1>4. \E chain \in [0..n -> V] : IsTracking(chain, cells, changes, n)
  BY <1>1, <1>2, <1>3, AnchoredChain
<1> QED
  BY <1>4 DEF Trackings, V

LEMMA BuiltFitsAny ==
  ASSUME NEW cells, NEW changes, BuiltBatch(cells, changes), NEW k \in 0..(Len(changes) - 1),
         NEW now \in Cells, Ids(now) \subseteq KnownTo(cells, changes, k),
         Named(changes[k + 1]) \subseteq Ids(now)
  PROVE  Fits(Cell, now, changes[k + 1])
<1> PICK ch : ch = changes[k + 1]
  OBVIOUS
<1>1. k + 1 \in 1..Len(changes) /\ (k + 1) - 1 = k /\ changes \in Seq(Change)
  BY DEF BuiltBatch, Changes
<1>2. /\ ch \in Change /\ ch.op \in EditorOps
      /\ ch.op = "insert" => ch.cell.id \notin KnownTo(cells, changes, k)
  BY <1>1 DEF BuiltBatch
<1>3. ch.op = "insert" => ch.cell \in Cell /\ ch.cell.id \notin Ids(now)
  BY <1>2 DEF Change
<1>4. ASSUME ch.op # "insert" PROVE ch.id \in Ids(now) /\ CellOf(now, ch.id) \in Cell
  <2>1. ch.id \in Ids(now)
    BY <1>2, <1>4 DEF Named, EditorOps
  <2> QED
    BY <2>1, IdsTyped
<1>5. ASSUME ch.op = "update" PROVE Rewritten(CellOf(now, ch.id), ch) \in Cell
  <2>1. CellOf(now, ch.id) \in Cell
    BY <1>4, <1>5
  <2> QED
    BY <1>2, <1>5, <2>1, RewrittenTyped
<1>6. ASSUME ch.op = "clearOutputs" PROVE Cleared(CellOf(now, ch.id)) \in Cell
  <2> PICK x \in Cell : x = CellOf(now, ch.id)
    BY <1>4, <1>6
  <2> QED
    BY DEF Cleared, Cell, NoOutput
<1> QED
  BY <1>2, <1>3, <1>4, <1>5, <1>6 DEF Fits

\* The list whose ids the editor follows after k changes, also when one of them
\* has failed: the list itself as long as none has.
IsShadow(c, cells, changes, run, track, k) ==
  /\ c \in Cells /\ UniqueIds(c) /\ Listed(c) = track[k].ids
  /\ Ids(c) \subseteq KnownTo(cells, changes, k)
  /\ run[k].ok => c = run[k].cells
Shadowed(cells, changes, run, track, k) == \E c : IsShadow(c, cells, changes, run, track, k)

LEMMA ShadowStep ==
  ASSUME NEW cells, NEW changes, BuiltBatch(cells, changes), NEW k \in 0..(Len(changes) - 1),
         NEW run, IsRun(run, cells, changes), NEW track \in Trackings(Len(changes)),
         IsTracking(track, cells, changes, Len(changes)),
         NEW c, IsShadow(c, cells, changes, run, track, k)
  PROVE  /\ IsShadow(After(c, changes[k + 1]), cells, changes, run, track, k + 1)
         /\ track[k + 1].out = Append(track[k].out, SentOf(track[k].ids, changes[k + 1]))
         /\ MeansTheSame(c, changes[k + 1], SentOf(track[k].ids, changes[k + 1]))
<1> PICK n : n = Len(changes)
  OBVIOUS
<1> PICK ch : ch = changes[k + 1]
  OBVIOUS
<1> PICK d : d = After(c, ch)
  OBVIOUS
<1>1. /\ n \in Nat /\ changes \in Seq(Change) /\ k \in 0..n /\ k + 1 \in 1..n /\ (k + 1) - 1 = k
      /\ 1..(k + 1) = (1..k) \cup {k + 1}
  BY DEF BuiltBatch, Changes
<1>2. ch \in Change /\ ch.op \in EditorOps
  BY <1>1 DEF BuiltBatch
<1>3. /\ c \in Cells /\ UniqueIds(c) /\ Listed(c) = track[k].ids
      /\ Ids(c) \subseteq KnownTo(cells, changes, k)
  BY DEF IsShadow
<1>4. run[k].ok => c = run[k].cells
  BY DEF IsShadow
<1>5. track[k + 1] = Track(track[k], ch)
  BY <1>1 DEF IsTracking
<1> PICK r \in [ids : Seq(CellId), out : Changes] : r = track[k]
  BY <1>1 DEF Trackings
<1>6. r.ids = Listed(c)
  BY <1>3
<1>7. /\ Track(r, ch).ids = Listed(After(c, ch))
      /\ Track(r, ch).out = Append(r.out, SentOf(Listed(c), ch))
      /\ MeansTheSame(c, ch, SentOf(Listed(c), ch))
  BY <1>2, <1>3, <1>6, TrackFollows
<1>8. d \in Cells /\ UniqueIds(d) /\ Ids(d) \subseteq KnownTo(cells, changes, k + 1)
  <2>1. KnownTo(cells, changes, k) \subseteq KnownTo(cells, changes, k + 1)
    BY <1>1 DEF KnownTo
  <2>2. CASE Named(ch) \subseteq Ids(c)
    <3>1. Fits(Cell, c, ch)
      BY <1>3, <2>2, BuiltFitsAny
    <3>2. c \in Seq(Cell) /\ Cell \in SUBSET Cell
      BY <1>3 DEF Cells
    <3>3. Effect(c, ch) \in Seq(Cell) /\ UniqueIds(Effect(c, ch)) /\ Ids(Effect(c, ch)) = IdsAfter(c, ch)
      BY <1>3, <3>1, <3>2, EffectUnique
    <3>4. d = Effect(c, ch)
      BY <2>2 DEF After
    <3>5. ch.op = "insert" => ch.cell.id \in KnownTo(cells, changes, k + 1)
      BY <1>1 DEF KnownTo
    <3>6. IdsAfter(c, ch) \subseteq KnownTo(cells, changes, k + 1)
      BY <1>3, <2>1, <3>5 DEF IdsAfter
    <3> QED
      BY <3>3, <3>4, <3>6 DEF Cells
  <2>3. CASE ~(Named(ch) \subseteq Ids(c))
    <3>1. d = c
      BY <2>3 DEF After
    <3> QED
      BY <1>3, <2>1, <3>1
  <2> QED
    BY <2>2, <2>3
<1>9. run[k + 1].ok => d = run[k + 1].cells
  <2> SUFFICES ASSUME run[k + 1].ok PROVE d = run[k + 1].cells
    OBVIOUS
  <2>3. Len(changes) \in Nat
    BY <1>1
  <2>1. IsMade(run[k], changes[k + 1], run[k + 1])
    BY <2>3, RunStep
  <2>2. run[k].ok /\ Named(ch) \subseteq Ids(run[k].cells)
        /\ run[k + 1].cells = Effect(run[k].cells, ch)
    BY <2>1 DEF IsMade
  <2> QED
    BY <1>4, <2>2 DEF After
<1>10. Listed(d) = track[k + 1].ids
  BY <1>5, <1>7
<1>11. IsShadow(d, cells, changes, run, track, k + 1)
  BY <1>8, <1>9, <1>10 DEF IsShadow
<1> QED
  BY <1>3, <1>5, <1>7, <1>11

LEMMA ShadowRun ==
  ASSUME NEW cells, NEW changes, BuiltBatch(cells, changes), NEW run, IsRun(run, cells, changes),
         NEW track \in Trackings(Len(changes)), IsTracking(track, cells, changes, Len(changes))
  PROVE  \A k \in 0..Len(changes) : Shadowed(cells, changes, run, track, k)
<1> PICK n : n = Len(changes)
  OBVIOUS
<1>0. n \in Nat /\ cells \in Cells /\ UniqueIds(cells)
  BY DEF BuiltBatch, Changes
<1> DEFINE A == {k \in Nat : k <= n => Shadowed(cells, changes, run, track, k)}
<1>1. 0 \in A
  <2>1. run[0].cells = cells /\ track[0].ids = Listed(cells)
    BY DEF IsRun, IsTracking
  <2>2. Ids(cells) \subseteq KnownTo(cells, changes, 0)
    BY DEF KnownTo
  <2>3. IsShadow(cells, cells, changes, run, track, 0)
    BY <1>0, <2>1, <2>2 DEF IsShadow
  <2> QED
    BY <2>3 DEF Shadowed
<1>2. ASSUME NEW k \in Nat, k \in A PROVE k + 1 \in A
  <2> SUFFICES ASSUME k + 1 <= n PROVE Shadowed(cells, changes, run, track, k + 1)
    OBVIOUS
  <2>1. k \in 0..(n - 1) /\ Shadowed(cells, changes, run, track, k)
    BY <1>0, <1>2
  <2> PICK c : IsShadow(c, cells, changes, run, track, k)
    BY <2>1 DEF Shadowed
  <2>2. IsShadow(After(c, changes[k + 1]), cells, changes, run, track, k + 1)
    BY <2>1, ShadowStep
  <2> QED
    BY <2>2 DEF Shadowed
<1> HIDE DEF A
<1>3. \A k \in Nat : k \in A
  BY <1>1, <1>2, Induction
<1>4. \A k \in 0..n : k \in Nat /\ k <= n
  BY <1>0
<1> QED
  BY <1>3, <1>4 DEF A

\* Every change that is sent stands for the one it was made of.
SentFor(cells, changes, run, sent, k) ==
  \E c : MeansTheSame(c, changes[k + 1], sent[k + 1]) /\ (run[k].ok => c = run[k].cells)

LEMMA SentRun ==
  ASSUME NEW cells, NEW changes, BuiltBatch(cells, changes), NEW run, IsRun(run, cells, changes)
  PROVE  LET sent == Anchored(cells, changes)
         IN /\ sent \in Changes /\ Len(sent) = Len(changes)
            /\ \A k \in 0..(Len(changes) - 1) : SentFor(cells, changes, run, sent, k)
<1> PICK n : n = Len(changes)
  OBVIOUS
<1>0. n \in Nat /\ cells \in Cells /\ changes \in Changes
  BY DEF BuiltBatch, Changes
<1> PICK track \in Trackings(Len(changes)) : IsTracking(track, cells, changes, Len(changes))
  BY <1>0, TrackRun
<1> PICK sent : sent = Anchored(cells, changes)
  OBVIOUS
<1>1. sent = track[n].out /\ sent \in Changes
  <2>1. track[n].out = Anchored(cells, changes)
    BY DEF IsTracking
  <2> QED
    BY <1>0, <2>1, AnchoredTyped
<1> DEFINE Holds(k) == /\ Len(track[k].out) = k
                       /\ \A j \in 1..k : track[k].out[j] = SentOf(track[j - 1].ids, changes[j])
           A == {k \in Nat : k <= n => Holds(k)}
<1>2. 0 \in A
  <2>1. track[0].out = <<>>
    BY DEF IsTracking
  <2> QED
    BY <2>1
<1>3. ASSUME NEW k \in 0..(n - 1)
      PROVE  /\ track[k + 1].out = Append(track[k].out, SentOf(track[k].ids, changes[k + 1]))
             /\ \E c : MeansTheSame(c, changes[k + 1], SentOf(track[k].ids, changes[k + 1]))
                       /\ (run[k].ok => c = run[k].cells)
  <2>1. k \in 0..Len(changes)
    BY <1>0
  <2>2. Shadowed(cells, changes, run, track, k)
    BY <2>1, ShadowRun
  <2> PICK c : IsShadow(c, cells, changes, run, track, k)
    BY <2>2 DEF Shadowed
  <2>3. track[k + 1].out = Append(track[k].out, SentOf(track[k].ids, changes[k + 1]))
    BY ShadowStep
  <2>4. MeansTheSame(c, changes[k + 1], SentOf(track[k].ids, changes[k + 1]))
    BY ShadowStep
  <2>5. run[k].ok => c = run[k].cells
    BY DEF IsShadow
  <2> QED
    BY <2>3, <2>4, <2>5
<1>4. ASSUME NEW k \in Nat, k \in A PROVE k + 1 \in A
  <2> SUFFICES ASSUME k + 1 <= n PROVE Holds(k + 1)
    OBVIOUS
  <2> PICK s : s = SentOf(track[k].ids, changes[k + 1])
    OBVIOUS
  <2> PICK old : old = track[k].out
    OBVIOUS
  <2> PICK new : new = track[k + 1].out
    OBVIOUS
  <2>1. k \in 0..(n - 1) /\ k \in 0..n /\ (k + 1) - 1 = k
    BY <1>0
  <2>2. Holds(k)
    BY <1>0, <1>4
  <2>3. new = Append(old, s)
    BY <1>3, <2>1
  <2>4. old \in Seq(Change)
    <3>1. track[k] \in [ids : Seq(CellId), out : Changes]
      BY <2>1 DEF Trackings
    <3> QED
      BY <3>1 DEF Changes
  <2>5. Len(new) = k + 1 /\ new[k + 1] = s /\ \A j \in 1..k : new[j] = old[j]
    BY <2>2, <2>3, <2>4
  <2>6. ASSUME NEW j \in 1..(k + 1) PROVE new[j] = SentOf(track[j - 1].ids, changes[j])
    <3>1. CASE j = k + 1
      BY <2>1, <2>5, <3>1
    <3>2. CASE j # k + 1
      <4>1. j \in 1..k
        BY <3>2
      <4> QED
        BY <2>2, <2>5, <4>1
    <3> QED
      BY <3>1, <3>2
  <2> QED
    BY <2>5, <2>6
<1> HIDE DEF Holds
<1>5. Holds(n)
  <2> HIDE DEF A
  <2>1. n \in A
    BY <1>0, <1>2, <1>4, Induction
  <2> QED
    BY <1>0, <2>1 DEF A
<1>6. ASSUME NEW k \in 0..(n - 1) PROVE SentFor(cells, changes, run, sent, k)
  <2>1. k + 1 \in 1..n /\ (k + 1) - 1 = k
    BY <1>0
  <2>2. sent[k + 1] = SentOf(track[k].ids, changes[k + 1])
    BY <1>1, <1>5, <2>1 DEF Holds
  <2> QED
    BY <1>3, <2>2 DEF SentFor
<1> QED
  BY <1>1, <1>5, <1>6 DEF Holds

\* Sending neighbours in place of positions changes nothing for the cells the
\* batch was made for.
LEMMA AnchoredAgrees ==
  ASSUME NEW cells, NEW changes, BuiltBatch(cells, changes)
  PROVE  Apply(cells, Anchored(cells, changes)) = Apply(cells, changes)
<1>0. cells \in Cells /\ changes \in Changes /\ Apart(changes)
  BY EditorApart DEF BuiltBatch
<1> PICK run : IsRun(run, cells, changes)
  BY <1>0, ApplyRun
<1> PICK n : n = Len(changes)
  OBVIOUS
<1> PICK sent : sent = Anchored(cells, changes)
  OBVIOUS
<1>1. /\ sent \in Changes /\ Len(sent) = n /\ n \in Nat /\ DOMAIN sent = 1..n
      /\ \A k \in 0..(n - 1) : SentFor(cells, changes, run, sent, k)
  BY <1>0, SentRun DEF Changes
<1>2. Apart(sent)
  <2> SUFFICES ASSUME NEW j \in 1..n, sent[j].op = "moveRelative" PROVE sent[j].id # sent[j].anchor
    BY <1>1 DEF Apart
  <2>1. j - 1 \in 0..(n - 1) /\ (j - 1) + 1 = j
    BY <1>1
  <2>2. SentFor(cells, changes, run, sent, j - 1)
    BY <1>1, <2>1
  <2>3. PICK c : MeansTheSame(c, changes[j], sent[j])
    BY <2>1, <2>2 DEF SentFor
  <2> QED
    BY <2>3 DEF MeansTheSame
<1> PICK again : IsRun(again, cells, sent)
  BY <1>0, <1>1, <1>2, ApplyRun
<1> DEFINE A == {k \in Nat : k <= n => again[k] = run[k]}
<1>3. 0 \in A
  BY DEF IsRun
<1>4. ASSUME NEW k \in Nat, k \in A PROVE k + 1 \in A
  <2> SUFFICES ASSUME k + 1 <= n PROVE again[k + 1] = run[k + 1]
    OBVIOUS
  <2>1. k \in 0..(n - 1) /\ k + 1 \in 1..n /\ (k + 1) - 1 = k /\ again[k] = run[k] /\ k \in 0..n
    BY <1>1, <1>4
  <2> PICK r : r = run[k]
    OBVIOUS
  <2> PICK ch : ch = changes[k + 1]
    OBVIOUS
  <2> PICK s : s = sent[k + 1]
    OBVIOUS
  <2>2. run[k + 1] = ApplyOne(r, ch)
    BY <2>1 DEF IsRun
  <2>3. again[k + 1] = ApplyOne(r, s)
    BY <1>1, <2>1 DEF IsRun
  <2>4. PICK c : MeansTheSame(c, ch, s) /\ (r.ok => c = r.cells)
    BY <1>1, <2>1 DEF SentFor
  <2>5. CASE r.ok
    <3>1. /\ Named(ch) \subseteq Ids(r.cells) <=> Named(s) \subseteq Ids(r.cells)
          /\ Named(ch) \subseteq Ids(r.cells) => Effect(r.cells, s) = Effect(r.cells, ch)
      BY <2>4, <2>5 DEF MeansTheSame
    <3> QED
      BY <2>2, <2>3, <3>1 DEF ApplyOne
  <2>6. CASE ~r.ok
    BY <2>2, <2>3, <2>6 DEF ApplyOne
  <2> QED
    BY <2>5, <2>6
<1> HIDE DEF A
<1>5. n \in A
  BY <1>1, <1>3, <1>4, Induction
<1>6. again[n] = run[n]
  BY <1>1, <1>5 DEF A
<1>7. again[n] = Apply(cells, sent) /\ run[n] = Apply(cells, changes)
  BY <1>1 DEF IsRun
<1> QED
  BY <1>6, <1>7

-----------------------------------------------------------------------------
(* Dropping a cell. *)

\* InsertAtSeq and PutUnique for a list of cells.
LEMMA InsertedCell ==
  ASSUME NEW c \in Seq(Cell), NEW at \in 1..(Len(c) + 1), NEW y \in Cell
  PROVE  /\ Len(InsertAt(c, at, y)) = Len(c) + 1
         /\ \A j \in 1..(Len(c) + 1) :
              InsertAt(c, at, y)[j] = IF j < at THEN c[j] ELSE IF j = at THEN y ELSE c[j - 1]
<1>1. IsInsertion(InsertAt(c, at, y), c, y, at)
  BY InsertAtSeq
<1> QED
  BY <1>1 DEF IsInsertion

LEMMA PutCell ==
  ASSUME NEW c \in Seq(Cell), UniqueIds(c), NEW y \in Cell, y.id \notin Ids(c), NEW i \in Nat
  PROVE  /\ Put(c, i, y) \in Seq(Cell) /\ UniqueIds(Put(c, i, y))
         /\ PositionOf(Put(c, i, y), y.id) = Lesser(i, Len(c)) + 1
BY PutUnique

\* A cell that is taken out and put back beside another.
LEMMA DropPlaces ==
  ASSUME NEW cells \in Cells, UniqueIds(cells), NEW s \in 0..(Len(cells) - 1), NEW h \in 0..(Len(cells) - 1),
         NEW above \in BOOLEAN, s # h
  PROVE  LET moved == Effect(cells, MoveChange(cells[s + 1].id, DropIndex(s, h, above)))
         IN PositionOf(moved, cells[s + 1].id)
              = PositionOf(moved, cells[h + 1].id) + (IF above THEN -1 ELSE 1)
<1> PICK n : n = Len(cells)
  OBVIOUS
<1> PICK id : id = cells[s + 1].id
  OBVIOUS
<1> PICK to : to = DropIndex(s, h, above)
  OBVIOUS
<1>1. n \in Nat /\ s + 1 \in 1..n /\ h + 1 \in 1..n /\ cells \in Seq(Cell) /\ s \in Int /\ h \in Int
  BY DEF Cells
<1>2. id \in Ids(cells) /\ PositionOf(cells, id) = s + 1 /\ CellOf(cells, id) = cells[s + 1]
  <2>1. cells[s + 1].id = id /\ s + 1 \in 1..Len(cells)
    BY <1>1
  <2> QED
    BY <1>1, <2>1, Found
<1>3. /\ Without(cells, id) \in Seq(Cell) /\ Len(Without(cells, id)) = Len(cells) - 1
      /\ UniqueIds(Without(cells, id)) /\ Ids(Without(cells, id)) = Ids(cells) \ {id}
      /\ CellOf(cells, id) \in Cell /\ CellOf(cells, id).id = id
      /\ \A j \in 1..Len(Without(cells, id)) :
           Without(cells, id)[j] = IF j < PositionOf(cells, id) THEN cells[j] ELSE cells[j + 1]
  BY <1>1, <1>2, Removing
<1> PICK w \in Seq(Cell) : w = Without(cells, id)
  BY <1>3
<1> PICK x \in Cell : x = CellOf(cells, id)
  BY <1>3
<1>4. /\ UniqueIds(w) /\ x.id = id /\ x.id \notin Ids(w) /\ Len(w) = n - 1
      /\ \A j \in 1..(n - 1) : w[j] = IF j < s + 1 THEN cells[j] ELSE cells[j + 1]
  BY <1>2, <1>3
<1>5. /\ above /\ h < s => to = h
      /\ above /\ h > s => to = h - 1
      /\ ~above /\ h < s => to = h + 1
      /\ ~above /\ h > s => to = h
      /\ h < s \/ h > s
  <2>1. h < s \/ h > s
    BY <1>1
  <2>2. ASSUME above PROVE to = IF s < h THEN h - 1 ELSE h
    BY <2>2 DEF DropIndex
  <2>3. ASSUME ~above PROVE to = IF s < h + 1 THEN (h + 1) - 1 ELSE h + 1
    BY <2>3 DEF DropIndex
  <2>4. above /\ h < s => to = h
    <3>1. h < s => ~(s < h)
      BY <1>1
    <3> QED
      BY <2>2, <3>1
  <2>5. above /\ h > s => to = h - 1
    BY <1>1, <2>2
  <2>6. ~above /\ h < s => to = h + 1
    BY <1>1, <2>3
  <2>7. ~above /\ h > s => to = h
    BY <1>1, <2>3
  <2> QED
    BY <2>1, <2>4, <2>5, <2>6, <2>7
<1>6. to \in 0..(n - 1)
  BY <1>1, <1>5
<1> PICK index \in Nat : index = to
  BY <1>6
<1> PICK d : d = Put(w, index, x)
  OBVIOUS
<1>7. /\ d \in Seq(Cell) /\ UniqueIds(d) /\ PositionOf(d, x.id) = Lesser(index, Len(w)) + 1
  BY <1>4, PutCell
<1>8. Lesser(index, Len(w)) = to
  BY <1>1, <1>4, <1>6, SMTT(20) DEF Lesser
<1>9. d = InsertAt(w, to + 1, x)
  BY <1>8 DEF Put
<1> PICK at \in 1..(Len(w) + 1) : at = to + 1
  BY <1>1, <1>4, <1>6
<1>10. /\ Len(d) = n
       /\ \A j \in 1..n : d[j] = IF j < to + 1 THEN w[j] ELSE IF j = to + 1 THEN x ELSE w[j - 1]
  <2>1. /\ Len(InsertAt(w, at, x)) = Len(w) + 1
        /\ \A j \in 1..(Len(w) + 1) :
             InsertAt(w, at, x)[j] = IF j < at THEN w[j] ELSE IF j = at THEN x ELSE w[j - 1]
    BY InsertedCell
  <2>2. Len(w) + 1 = n
    BY <1>1, <1>4
  <2> QED
    BY <1>9, <2>1, <2>2
<1>11. PositionOf(d, id) = to + 1
  BY <1>4, <1>7, <1>8
<1>12. ASSUME NEW p \in 1..n, d[p] = cells[h + 1] PROVE PositionOf(d, cells[h + 1].id) = p
  <2>1. p \in 1..Len(d) /\ d[p].id = cells[h + 1].id
    BY <1>10, <1>12
  <2> QED
    BY <1>7, <2>1, Found, SMTT(20)
<1>13. CASE above /\ h < s
  <2>1. h + 1 \in 1..(n - 1) /\ h + 1 < s + 1 /\ h + 2 \in 1..n /\ (h + 2) - 1 = h + 1 /\ to = h
    <3>1. to = h
      BY <1>5, <1>13
    <3>2. h < s
      BY <1>13
    <3> QED
      BY <1>1, <3>1, <3>2
  <2>2. w[h + 1] = cells[h + 1]
    BY <1>4, <2>1
  <2>3. d[h + 2] = w[h + 1]
    BY <1>1, <1>10, <2>1
  <2>4. PositionOf(d, cells[h + 1].id) = h + 2
    BY <1>12, <2>1, <2>2, <2>3
  <2>5. PositionOf(d, id) = PositionOf(d, cells[h + 1].id) + (-1)
    BY <1>1, <1>11, <2>1, <2>4
  <2> QED
    BY <1>2, <1>13, <2>5 DEF Effect, MoveChange
<1>14. CASE above /\ h > s
  <2>1. h \in 1..(n - 1) /\ ~(h < s + 1) /\ h + 1 \in 1..n /\ (h + 1) - 1 = h /\ to = h - 1
    <3>1. to = h - 1
      BY <1>5, <1>14
    <3>2. s < h
      BY <1>1, <1>14
    <3> QED
      BY <1>1, <3>1, <3>2
  <2>2. w[h] = cells[h + 1]
    BY <1>4, <2>1
  <2>3. d[h + 1] = w[h]
    BY <1>1, <1>10, <2>1
  <2>4. PositionOf(d, cells[h + 1].id) = h + 1
    BY <1>12, <2>1, <2>2, <2>3
  <2>5. PositionOf(d, id) = PositionOf(d, cells[h + 1].id) + (-1)
    BY <1>1, <1>11, <2>1, <2>4
  <2> QED
    BY <1>2, <1>14, <2>5 DEF Effect, MoveChange
<1>15. CASE ~above /\ h < s
  <2>1. h + 1 \in 1..(n - 1) /\ h + 1 < s + 1 /\ h + 1 \in 1..n /\ to = h + 1
    BY <1>1, <1>5, <1>15
  <2>2. w[h + 1] = cells[h + 1]
    BY <1>4, <2>1
  <2>3. d[h + 1] = w[h + 1]
    BY <1>1, <1>10, <2>1
  <2>4. PositionOf(d, cells[h + 1].id) = h + 1
    BY <1>12, <2>1, <2>2, <2>3
  <2>5. PositionOf(d, id) = PositionOf(d, cells[h + 1].id) + 1
    BY <1>1, <1>11, <2>1, <2>4
  <2> QED
    BY <1>2, <1>15, <2>5 DEF Effect, MoveChange
<1>16. CASE ~above /\ h > s
  <2>1. h \in 1..(n - 1) /\ ~(h < s + 1) /\ h \in 1..n /\ to = h
    BY <1>1, <1>5, <1>16
  <2>2. w[h] = cells[h + 1]
    BY <1>4, <2>1
  <2>3. d[h] = w[h]
    BY <1>1, <1>10, <2>1
  <2>4. PositionOf(d, cells[h + 1].id) = h
    BY <1>12, <2>1, <2>2, <2>3
  <2>5. PositionOf(d, id) = PositionOf(d, cells[h + 1].id) + 1
    BY <1>1, <1>11, <2>1, <2>4
  <2> QED
    BY <1>2, <1>16, <2>5 DEF Effect, MoveChange
<1> QED
  BY <1>5, <1>13, <1>14, <1>15, <1>16

-----------------------------------------------------------------------------
(* What the batches promise. *)

\* For every notebook and every batch the editor's commands build for it: what
\* the editor, the replica and the gateway make of it is the same, and undoing
\* takes it back.
THEOREM BatchInvHolds == ChangesSpec => []BatchInv
<1>1. BatchBuilt => BatchInv
  <2> SUFFICES ASSUME BatchBuilt PROVE BatchInv
    OBVIOUS
  <2>0. BuiltBatch(base, batch)
    BY DEF BatchBuilt
  <2> PICK r : r = Apply(base, batch)
    OBVIOUS
  <2>1. r.ok => r.cells \in Cells /\ UniqueIds(r.cells)
    BY <2>0, BuiltResult
  <2>2. ChangesTypeOK
    <3>1. r.ok => \A i \in DOMAIN r.cells : r.cells[i] \in Cell
      BY <2>1 DEF Cells
    <3> QED
      BY <3>1 DEF ChangesTypeOK, BatchBuilt
  <2>3. InverseRestores /\ AcceptedIsInvertible
    BY InverseRestoresBatch
  <2>4. AnchoringAgrees
    BY <2>0, AnchoredAgrees DEF AnchoringAgrees
  <2>5. BatchKeepsIdsUnique
    <3>1. Apply(base, Anchored(base, batch)) = r
      BY <2>4 DEF AnchoringAgrees
    <3> QED
      BY <2>1, <3>1 DEF BatchKeepsIdsUnique
  <2>6. DropLandsBeside
    <3> PICK cells : cells = r.cells
      OBVIOUS
    <3> SUFFICES ASSUME r.ok, NEW s \in 0..(Len(cells) - 1), NEW h \in 0..(Len(cells) - 1),
                        NEW above \in BOOLEAN, s # h
                 PROVE  LET moved == Effect(cells, MoveChange(cells[s + 1].id, DropIndex(s, h, above)))
                        IN PositionOf(moved, cells[s + 1].id)
                             = PositionOf(moved, cells[h + 1].id) + (IF above THEN -1 ELSE 1)
      BY DEF DropLandsBeside
    <3>1. cells \in Cells /\ UniqueIds(cells)
      BY <2>1
    <3> QED
      BY <3>1, DropPlaces
  <2> QED
    BY <2>2, <2>3, <2>4, <2>5, <2>6 DEF BatchInv
<1> QED
  BY <1>1, BatchBuiltHolds, PTL

-----------------------------------------------------------------------------
(* A single change, sent while another client's is committed. *)

LEMMA FirstChange ==
  ASSUME NEW changes \in Changes, Len(changes) = 1
  PROVE  changes[1] \in Change
BY DEF Changes

LEMMA ApplySingle ==
  ASSUME NEW cells \in Cells, NEW changes \in Changes, Len(changes) = 1, Apart(changes)
  PROVE  /\ Apply(cells, changes).ok <=> Named(changes[1]) \subseteq Ids(cells)
         /\ Apply(cells, changes).ok => Apply(cells, changes).cells = Effect(cells, changes[1])
<1> PICK chain : IsRun(chain, cells, changes)
  BY ApplyRun
<1>0. ASSUME NEW k \in 0..(Len(changes) - 1) PROVE IsMade(chain[k], changes[k + 1], chain[k + 1])
  <2>1. Len(changes) \in Nat
    OBVIOUS
  <2> QED
    BY <2>1, RunStep
<1> PICK k : k = 0
  OBVIOUS
<1>1. k \in 0..(Len(changes) - 1) /\ k + 1 = 1 /\ Len(changes) \in Nat
  OBVIOUS
<1>2. chain[k] = [ok |-> TRUE, cells |-> cells] /\ chain[k + 1] = Apply(cells, changes)
  BY <1>1 DEF IsRun
<1>3. /\ chain[k + 1].ok <=> chain[k].ok /\ Named(changes[k + 1]) \subseteq Ids(chain[k].cells)
      /\ chain[k + 1].ok => chain[k + 1].cells = Effect(chain[k].cells, changes[k + 1])
  BY <1>0, <1>1 DEF IsMade
<1> QED
  BY <1>1, <1>2, <1>3

LEMMA AnchoredSingle ==
  ASSUME NEW cells \in Cells, UniqueIds(cells), NEW changes \in Changes, Len(changes) = 1,
         changes[1].op \in EditorOps
  PROVE  Anchored(cells, changes) = <<SentOf(Listed(cells), changes[1])>>
<1> PICK n : n = Len(changes)
  OBVIOUS
<1> PICK track \in Trackings(n) : IsTracking(track, cells, changes, n)
  BY TrackRun
<1> PICK ch \in Change : ch = changes[1]
  BY SMTT(20) DEF Changes
<1>1. track[0] \in [ids : Seq(CellId), out : Changes]
  BY DEF Trackings
<1> PICK r \in [ids : Seq(CellId), out : Changes] : r = track[0]
  BY <1>1
<1>2. r.ids = Listed(cells) /\ r.out = <<>>
  BY DEF IsTracking
<1>3. track[1] = Track(r, ch)
  BY DEF IsTracking
<1>4. Track(r, ch).out = Append(r.out, SentOf(Listed(cells), ch))
  BY <1>2, TrackFollows
<1>5. Anchored(cells, changes) = track[1].out
  BY DEF IsTracking
<1> QED
  BY <1>2, <1>3, <1>4, <1>5

PlacedBeside(cells, ch, anchor, after) ==
  /\ anchor \in Ids(cells)
  /\ SentOf(Listed(cells), ch) = InsertBeside(anchor, after, ch.cell)
  /\ Effect(cells, ch) = Beside(cells, anchor, after, ch.cell)
MovedBeside(cells, ch, anchor, after) ==
  /\ anchor \in Ids(cells) \ {ch.id}
  /\ SentOf(Listed(cells), ch) = MoveBeside(ch.id, anchor, after)
  /\ Effect(cells, ch) = Beside(Without(cells, ch.id), anchor, after, CellOf(cells, ch.id))

LEMMA InsertionSent ==
  ASSUME NEW cells \in Cells, UniqueIds(cells), Len(cells) > 0, NEW ch \in Change, ch.op = "insert"
  PROVE  \E anchor, after : after \in BOOLEAN /\ PlacedBeside(cells, ch, anchor, after)
<1> PICK ids : ids = Listed(cells)
  OBVIOUS
<1>1. cells \in Seq(Cell) /\ Len(cells) \in Nat /\ Len(ids) = Len(cells) /\ ids \in Seq(CellId)
  BY ListedSeq DEF Cells
<1> PICK x \in Cell : x = ch.cell
  BY DEF Change
<1> PICK index \in Nat : index = ch.index
  BY DEF Change
<1> PICK at : at = Lesser(index, Len(cells))
  OBVIOUS
<1>2. at \in 0..Len(cells) /\ cells # <<>> /\ ids # <<>>
  <2>1. at \in 0..Len(cells)
    BY <1>1, LesserTwice
  <2> QED
    BY <1>1, <2>1
<1> PICK a : a = Anchor(ids, at)
  OBVIOUS
<1>3. a[1] \in Ids(cells) /\ a[2] \in BOOLEAN /\ Beside(cells, a[1], a[2], x) = InsertAt(cells, at + 1, x)
  BY <1>2, AnchorPlaces
<1>4. SentOf(ids, ch) = InsertBeside(a[1], a[2], x)
  BY <1>1, <1>2 DEF SentOf
<1>5. Effect(cells, ch) = InsertAt(cells, at + 1, x)
  BY DEF Effect, Put
<1>6. PlacedBeside(cells, ch, a[1], a[2])
  BY <1>3, <1>4, <1>5 DEF PlacedBeside
<1> QED
  BY <1>3, <1>6

LEMMA MoveSent ==
  ASSUME NEW cells \in Cells, UniqueIds(cells), Len(cells) > 1, NEW ch \in Change, ch.op = "move",
         ch.id \in Ids(cells)
  PROVE  \E anchor, after : after \in BOOLEAN /\ MovedBeside(cells, ch, anchor, after)
<1> PICK ids : ids = Listed(cells)
  OBVIOUS
<1> PICK rest : rest = RemoveFirst(ids, ch.id)
  OBVIOUS
<1>1. /\ Without(cells, ch.id) \in Seq(Cell) /\ UniqueIds(Without(cells, ch.id))
      /\ Ids(Without(cells, ch.id)) = Ids(cells) \ {ch.id}
      /\ Len(Without(cells, ch.id)) = Len(cells) - 1
      /\ CellOf(cells, ch.id) \in Cell
  BY Removing DEF Cells
<1> PICK w \in Cells : w = Without(cells, ch.id)
  BY <1>1 DEF Cells
<1> PICK x \in Cell : x = CellOf(cells, ch.id)
  BY <1>1
<1>2. UniqueIds(w) /\ Ids(w) = Ids(cells) \ {ch.id} /\ Len(w) \in Nat /\ Len(w) > 0
  <2>1. Len(cells) \in Nat /\ w \in Seq(Cell)
    BY DEF Cells
  <2> QED
    BY <1>1, <2>1
<1> PICK index \in Nat : index = ch.index
  BY DEF Change
<1>3. rest = Listed(w) /\ Contains(ids, ch.id)
  BY RemoveFirstListed
<1>4. Len(rest) = Len(w) /\ rest # <<>> /\ w # <<>>
  <2>1. rest \in Seq(CellId) /\ Len(rest) = Len(w)
    BY <1>3, ListedSeq
  <2>2. w \in Seq(Cell)
    BY DEF Cells
  <2> QED
    BY <1>2, <2>1, <2>2
<1> PICK at : at = Lesser(index, Len(w))
  OBVIOUS
<1> PICK a : a = Anchor(rest, at)
  OBVIOUS
<1>5. at \in 0..Len(w)
  BY <1>2, LesserTwice
<1>6. a[1] \in Ids(w) /\ a[2] \in BOOLEAN /\ Beside(w, a[1], a[2], x) = InsertAt(w, at + 1, x)
  BY <1>2, <1>3, <1>4, <1>5, AnchorPlaces
<1>7. SentOf(ids, ch) = MoveBeside(ch.id, a[1], a[2])
  BY <1>3, <1>4 DEF SentOf
<1>8. Effect(cells, ch) = InsertAt(w, at + 1, x)
  BY DEF Effect, Put
<1>9. MovedBeside(cells, ch, a[1], a[2])
  BY <1>2, <1>6, <1>7, <1>8 DEF MovedBeside
<1> QED
  BY <1>6, <1>9

\* A cell put beside another one is next to it.
LEMMA BesideNeighbours ==
  ASSUME NEW c \in Seq(Cell), UniqueIds(c), NEW x \in Cell, x.id \notin Ids(c), NEW anchor \in Ids(c),
         NEW after \in BOOLEAN
  PROVE  anchor \in Neighbours(Beside(c, anchor, after, x), x.id)
<1> PICK p : p = PositionOf(c, anchor)
  OBVIOUS
<1> PICK i : i = p + (IF after THEN 1 ELSE 0)
  OBVIOUS
<1> PICK d : d = InsertAt(c, i, x)
  OBVIOUS
<1>1. p \in 1..Len(c) /\ c[p].id = anchor /\ Len(c) \in Nat
  BY PositionFound
<1>2. i \in 1..(Len(c) + 1) /\ (after => i = p + 1) /\ (~after => i = p)
  BY <1>1
<1>3. PositionOf(d, x.id) = i /\ d \in Seq(Cell) /\ Len(d) = Len(c) + 1
  BY <1>2, Inserting
<1>4. \A j \in 1..(Len(c) + 1) : d[j] = IF j < i THEN c[j] ELSE IF j = i THEN x ELSE c[j - 1]
  BY <1>2, InsertedCell
<1>5. d = Beside(c, anchor, after, x) /\ DOMAIN d = 1..(Len(c) + 1)
  BY <1>3 DEF Beside
<1>6. CASE after
  <2>1. p = i - 1 /\ p \in 1..(Len(c) + 1) /\ p < i
    BY <1>1, <1>2, <1>6
  <2>2. d[p] = c[p]
    BY <1>4, <2>1
  <2>3. p \in {PositionOf(d, x.id) - 1, PositionOf(d, x.id) + 1} \cap DOMAIN d
    BY <1>3, <1>5, <2>1
  <2>4. d[p].id \in Neighbours(d, x.id)
    BY <2>3 DEF Neighbours
  <2> QED
    BY <1>1, <1>5, <2>2, <2>4
<1>7. CASE ~after
  <2> PICK q : q = p + 1
    OBVIOUS
  <2>1. q = i + 1 /\ q \in 1..(Len(c) + 1) /\ ~(q < i) /\ q # i /\ q - 1 = p
    BY <1>1, <1>2, <1>7
  <2>2. d[q] = c[p]
    BY <1>4, <2>1
  <2>3. q \in {PositionOf(d, x.id) - 1, PositionOf(d, x.id) + 1} \cap DOMAIN d
    BY <1>3, <1>5, <2>1
  <2>4. d[q].id \in Neighbours(d, x.id)
    BY <2>3 DEF Neighbours
  <2> QED
    BY <1>1, <1>5, <2>2, <2>4
<1> QED
  BY <1>6, <1>7

\* A step of the argument: what the other client's change leaves of the cells.
LEMMA OvertakenCells ==
  ASSUME BatchBuilt, other # <<>>
  PROVE  LET now == Apply(base, other).cells
         IN /\ now \in Seq(Cell) /\ UniqueIds(now)
            /\ Ids(now) \subseteq Ids(base) \cup Inserted(other)
<1>1. /\ base \in Cells /\ UniqueIds(base) /\ Apply(base, other).ok
      /\ \E ch \in AtPositions \cup {DeleteChange(id) : id \in Known} : other = <<ch>>
  BY DEF BatchBuilt, BuiltBatch
<1> PICK o \in AtPositions \cup {DeleteChange(id) : id \in Known} : other = <<o>>
  BY <1>1
<1>2. o \in AtPositions \cup InPlace
  BY DEF InPlace
<1>3. Buildable(o)
  BY <1>2, EditorBuilds
<1>4. /\ o \in Change /\ o.op \in EditorOps
      /\ o.op = "insert" => o.cell.id \notin Known
      /\ o.op \in {"insert", "move", "delete"}
  <2>1. o.op \in {"insert", "move", "delete"}
    BY DEF AtPositions, InsertChange, MoveChange, DeleteChange
  <2> QED
    BY <1>3, <2>1 DEF Buildable
<1>5. other \in Changes /\ Len(other) = 1 /\ other[1] = o /\ Apart(other)
  BY <1>4 DEF Changes, Apart, EditorOps
<1>6. Named(o) \subseteq Ids(base) /\ Apply(base, other).cells = Effect(base, o)
  <2>1. Apply(base, other).ok <=> Named(other[1]) \subseteq Ids(base)
    BY <1>1, <1>5, ApplySingle
  <2>2. Apply(base, other).ok => Apply(base, other).cells = Effect(base, other[1])
    BY <1>1, <1>5, ApplySingle
  <2> QED
    BY <1>1, <1>5, <2>1, <2>2
<1>7. Fits(Cell, base, o)
  <2>1. o.op = "insert" => o.cell \in Cell /\ o.cell.id \notin Ids(base)
    BY <1>4 DEF Change, Known
  <2>2. o.op # "insert" => o.id \in Ids(base)
    BY <1>4, <1>6 DEF Named
  <2>3. o.op \notin {"update", "clearOutputs"}
    BY <1>4
  <2> QED
    BY <1>4, <2>1, <2>2, <2>3 DEF Fits
<1>8. base \in Seq(Cell) /\ Cell \in SUBSET Cell
  BY <1>1 DEF Cells
<1>9. Effect(base, o) \in Seq(Cell) /\ UniqueIds(Effect(base, o)) /\ Ids(Effect(base, o)) = IdsAfter(base, o)
  BY <1>1, <1>7, <1>8, EffectUnique
<1>10. IdsAfter(base, o) \subseteq Ids(base) \cup Inserted(other)
  <2>1. o.op = "insert" => o.cell.id \in Inserted(other)
    BY <1>5 DEF Inserted
  <2> QED
    BY <2>1 DEF IdsAfter
<1> QED
  BY <1>6, <1>9, <1>10

\* A cell put next to a neighbour stays next to it whatever another client's
\* change, committed first, has made of the list.
THEOREM IntentSurvivesHolds == ChangesSpec => []IntentSurvives
<1>1. BatchBuilt => IntentSurvives
  <2> PICK ch : ch = batch[1]
    OBVIOUS
  <2> PICK now : now = Apply(base, other).cells
    OBVIOUS
  <2> PICK shown : shown = Apply(base, batch)
    OBVIOUS
  <2> PICK sent : sent = Anchored(base, batch)
    OBVIOUS
  <2> PICK result : result = Apply(now, sent)
    OBVIOUS
  <2> PICK placed : placed = IF ch.op = "insert" THEN ch.cell.id ELSE ch.id
    OBVIOUS
  <2> SUFFICES ASSUME BatchBuilt, other # <<>>, ch.op \in {"insert", "move"}, Len(base) > 1,
                      shown.ok, result.ok, placed \notin Inserted(other)
               PROVE  Neighbours(result.cells, placed) \cap Neighbours(shown.cells, placed) # {}
    BY DEF IntentSurvives
  <2>1. /\ base \in Cells /\ UniqueIds(base) /\ batch \in Changes /\ Len(batch) = 1
        /\ ch \in Change /\ Len(base) \in Nat /\ ch.op \in EditorOps
        /\ ch.op = "insert" => ch.cell.id \notin Ids(base)
    <3>1. BuiltBatch(base, batch) /\ Len(batch) = 1
      BY DEF BatchBuilt
    <3>2. ch.op = "insert" => ch.cell.id \notin KnownTo(base, batch, 0)
      BY <3>1 DEF BuiltBatch
    <3>3. base \in Cells /\ UniqueIds(base) /\ batch \in Changes
      BY <3>1 DEF BuiltBatch
    <3>4. Len(base) \in Nat /\ batch[1] \in Change
      BY <3>1, <3>3, FirstChange DEF Cells
    <3>5. ch.op \in EditorOps
      BY DEF EditorOps
    <3>6. ch.op = "insert" => ch.cell.id \notin Ids(base)
      BY <3>2 DEF KnownTo
    <3> QED
      BY <3>1, <3>3, <3>4, <3>5, <3>6
  <2>2. now \in Seq(Cell) /\ UniqueIds(now) /\ Ids(now) \subseteq Ids(base) \cup Inserted(other)
    BY OvertakenCells
  <2> PICK here \in Cells : here = now
    BY <2>2 DEF Cells
  <2>3. Named(ch) \subseteq Ids(base) /\ shown.cells = Effect(base, ch)
    <3>1. Apart(batch)
      BY <2>1 DEF Apart, EditorOps, Changes
    <3>2. Apply(base, batch).ok <=> Named(batch[1]) \subseteq Ids(base)
      BY <2>1, <3>1, ApplySingle
    <3>3. Apply(base, batch).ok => Apply(base, batch).cells = Effect(base, batch[1])
      BY <2>1, <3>1, ApplySingle
    <3> QED
      BY <3>2, <3>3
  <2>4. sent = <<SentOf(Listed(base), ch)>>
    BY <2>1, AnchoredSingle
  <2>5. ASSUME NEW s \in Change, s = SentOf(Listed(base), ch), s.op = "moveRelative" => s.id # s.anchor
        PROVE  Named(s) \subseteq Ids(now) /\ result.cells = Effect(now, s)
    <3>1. sent \in Changes /\ Len(sent) = 1 /\ sent[1] = s /\ Apart(sent)
      BY <2>4, <2>5 DEF Changes, Apart
    <3>2. Apply(here, sent).ok <=> Named(sent[1]) \subseteq Ids(here)
      BY <3>1, ApplySingle
    <3>3. Apply(here, sent).ok => Apply(here, sent).cells = Effect(here, sent[1])
      BY <3>1, ApplySingle
    <3> QED
      BY <3>1, <3>2, <3>3
  <2>6. CASE ch.op = "insert"
    <3> PICK anchor, after : after \in BOOLEAN /\ PlacedBeside(base, ch, anchor, after)
      BY <2>1, <2>6, InsertionSent
    <3> PICK x \in Cell : x = ch.cell
      BY <2>1, <2>6 DEF Change
    <3> PICK s : s = InsertBeside(anchor, after, x)
      OBVIOUS
    <3>1. anchor \in Ids(base) /\ s = SentOf(Listed(base), ch) /\ shown.cells = Beside(base, anchor, after, x)
      BY <2>3 DEF PlacedBeside
    <3>2. s \in Change /\ s.op = "insertRelative"
      BY <2>1, <3>1, IdsTyped DEF InsertBeside, Change
    <3>3. Named(s) \subseteq Ids(now) /\ result.cells = Effect(now, s)
      BY <2>5, <3>1, <3>2
    <3>4. anchor \in Ids(now) /\ result.cells = Beside(now, anchor, after, x)
      BY <3>3 DEF InsertBeside, Named, Effect
    <3>5. placed = x.id /\ x.id \notin Ids(base) /\ x.id \notin Ids(now)
      BY <2>1, <2>2, <2>6
    <3>6. anchor \in Neighbours(Beside(base, anchor, after, x), x.id)
      BY <2>1, <3>1, <3>5, BesideNeighbours DEF Cells
    <3>7. anchor \in Neighbours(Beside(now, anchor, after, x), x.id)
      BY <2>2, <3>4, <3>5, BesideNeighbours
    <3> QED
      BY <3>1, <3>4, <3>5, <3>6, <3>7
  <2>7. CASE ch.op = "move"
    <3>0. ch.id \in Ids(base)
      BY <2>3, <2>7 DEF Named
    <3> PICK anchor, after : after \in BOOLEAN /\ MovedBeside(base, ch, anchor, after)
      BY <2>1, <2>7, <3>0, MoveSent
    <3> PICK s : s = MoveBeside(ch.id, anchor, after)
      OBVIOUS
    <3>1. /\ anchor \in Ids(base) /\ anchor # ch.id /\ s = SentOf(Listed(base), ch) /\ placed = ch.id
          /\ shown.cells = Beside(Without(base, ch.id), anchor, after, CellOf(base, ch.id))
      BY <2>3, <2>7 DEF MovedBeside
    <3>2. s \in Change /\ s.op = "moveRelative" /\ s.id # s.anchor
      <4>1. ch.id \in CellId /\ anchor \in CellId
        BY <2>1, <3>0, <3>1, IdsTyped
      <4> QED
        BY <3>1, <4>1 DEF MoveBeside, Change
    <3>3. Named(s) \subseteq Ids(now) /\ result.cells = Effect(now, s)
      BY <2>5, <3>1, <3>2
    <3>4. /\ ch.id \in Ids(now) /\ anchor \in Ids(now)
          /\ result.cells = Beside(Without(now, ch.id), anchor, after, CellOf(now, ch.id))
      BY <3>3 DEF MoveBeside, Named, Effect
    <3>5. ASSUME NEW c \in Seq(Cell), UniqueIds(c), ch.id \in Ids(c), anchor \in Ids(c)
          PROVE  anchor \in Neighbours(Beside(Without(c, ch.id), anchor, after, CellOf(c, ch.id)), ch.id)
      <4>1. /\ Without(c, ch.id) \in Seq(Cell) /\ UniqueIds(Without(c, ch.id))
            /\ Ids(Without(c, ch.id)) = Ids(c) \ {ch.id}
            /\ CellOf(c, ch.id) \in Cell /\ CellOf(c, ch.id).id = ch.id
        BY <3>5, Removing
      <4>2. anchor \in Ids(Without(c, ch.id)) /\ CellOf(c, ch.id).id \notin Ids(Without(c, ch.id))
        BY <3>1, <3>5, <4>1
      <4> PICK w \in Seq(Cell) : w = Without(c, ch.id)
        BY <4>1
      <4> PICK y \in Cell : y = CellOf(c, ch.id)
        BY <4>1
      <4>3. anchor \in Neighbours(Beside(w, anchor, after, y), y.id)
        BY <4>1, <4>2, BesideNeighbours
      <4> QED
        BY <4>1, <4>3
    <3>6. base \in Seq(Cell)
      BY <2>1 DEF Cells
    <3>7. anchor \in Neighbours(shown.cells, placed)
      BY <2>1, <3>0, <3>1, <3>5, <3>6
    <3>8. anchor \in Neighbours(result.cells, placed)
      BY <2>2, <3>1, <3>4, <3>5
    <3> QED
      BY <3>7, <3>8
  <2> QED
    BY <2>6, <2>7
<1> QED
  BY <1>1, BatchBuiltHolds, PTL
=============================================================================
