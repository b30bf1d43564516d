------------------------- MODULE RunQueuePlannerProof -------------------------
(***************************************************************************)
(* The planner does what the graph asks for, for every acyclic workflow    *)
(* whose only source is the trigger, on the in-memory repository.          *)
(*                                                                         *)
(* What is recursive in RunQueuePlanner is iteration over edges, over      *)
(* skipped entries, or recursion along the graph.  Each recursive function *)
(* first gets its equations (...Is, ...Are), then its types; then comes    *)
(* the invariant, what the firing of one edge does to it, a walk over all  *)
(* edges, the skipping of pinned entries, and a planning step.             *)
(***************************************************************************)
EXTENDS RunQueuePlanner, WellFoundedInduction, FiniteSetTheorems, SequenceTheorems, TLAPS

-----------------------------------------------------------------------------
(* Induction over the natural numbers, as a statement about sets, and what *)
(* a function that is defined by iteration is.                             *)

\* Some relation on the numbers is well-founded and holds the less-than relation.
LEMMA LessIsWellFounded ==
  \E R : IsWellFoundedOn(R, Nat) /\ \A x, y \in Nat : y < x => <<y, x>> \in R
<1>1. \A x, y \in Nat : y < x => <<y, x>> \in OpToRel(<, Nat)
  BY DEF OpToRel
<1> QED
  BY <1>1, NatLessThanWellFounded, Zenon

\* A set of numbers that holds 0, and with a number the next one, holds them all.
LEMMA Induction ==
  ASSUME NEW S, 0 \in S, \A n \in Nat : n \in S => n + 1 \in S
  PROVE  Nat \subseteq S
<1> SUFFICES ASSUME Nat \ S # {} PROVE FALSE
  OBVIOUS
<1>1. PICK R : IsWellFoundedOn(R, Nat) /\ \A x, y \in Nat : y < x => <<y, x>> \in R
  BY LessIsWellFounded
<1>2. PICK n \in Nat \ S : \A m \in Nat \ S : <<m, n>> \notin R
  BY <1>1, WFMin
<1>3. n # 0 /\ n - 1 \in Nat /\ n - 1 < n /\ (n - 1) + 1 = n
  BY <1>2
<1>4. n - 1 \in S
  BY <1>1, <1>2, <1>3
<1> QED
  BY <1>2, <1>3, <1>4

\* Iterating a function from a first value gives a sequence of values.
Iterates(g, X, x, F) ==
  g \in [Nat -> X] /\ g[0] = x /\ \A k \in Nat : g[k + 1] = F[<<k, g[k]>>]

LEMMA Iteration ==
  ASSUME NEW X, NEW x \in X, NEW F \in [Nat \X X -> X]
  PROVE  \E g : Iterates(g, X, x, F)
<1> DEFINE Upto(n) == {h \in [0..n -> X] : h[0] = x /\ \A k \in 0..(n - 1) : h[k + 1] = F[<<k, h[k]>>]}
<1>1. \A n \in Nat : Upto(n) # {}
  <2> DEFINE S == {n \in Nat : Upto(n) # {}}
  <2>1. 0 \in S
    <3>1. [k \in 0..0 |-> x] \in Upto(0)
      OBVIOUS
    <3> QED
      BY <3>1
  <2>2. ASSUME NEW n \in Nat, n \in S PROVE n + 1 \in S
    <3>1. PICK h : h \in Upto(n)
      BY <2>2
    <3>2. h[n] \in X /\ <<n, h[n]>> \in Nat \X X
      BY <3>1
    <3> DEFINE more == [k \in 0..(n + 1) |-> IF k = n + 1 THEN F[<<n, h[n]>>] ELSE h[k]]
    <3>3. more \in [0..(n + 1) -> X]
      BY <3>1, <3>2
    <3>4. more[0] = x
      BY <3>1
    <3>5. ASSUME NEW k \in 0..n PROVE more[k + 1] = F[<<k, more[k]>>]
      <4>1. CASE k = n
        <5>1. more[n + 1] = F[<<n, h[n]>>] /\ more[n] = h[n]
          OBVIOUS
        <5> QED
          BY <4>1, <5>1
      <4>2. CASE k # n
        BY <3>1, <4>2
      <4> QED
        BY <4>1, <4>2
    <3>6. (n + 1) - 1 = n
      OBVIOUS
    <3>7. more \in Upto(n + 1)
      BY <3>3, <3>4, <3>5, <3>6
    <3> QED
      BY <3>7
  <2> QED
    BY <2>1, <2>2, Induction
<1>2. \A k \in Nat : \A m, n \in Nat : \A h \in Upto(m), i \in Upto(n) : k <= m /\ k <= n => h[k] = i[k]
  <2> DEFINE S == {k \in Nat : \A m, n \in Nat : \A h \in Upto(m), i \in Upto(n) : k <= m /\ k <= n => h[k] = i[k]}
  <2>1. 0 \in S
    OBVIOUS
  <2>2. ASSUME NEW k \in Nat, k \in S PROVE k + 1 \in S
    <3> SUFFICES ASSUME NEW m \in Nat, NEW n \in Nat, NEW h \in Upto(m), NEW i \in Upto(n),
                        k + 1 <= m, k + 1 <= n
                 PROVE  h[k + 1] = i[k + 1]
      OBVIOUS
    <3>1. k <= m /\ k <= n /\ k \in 0..(m - 1) /\ k \in 0..(n - 1)
      OBVIOUS
    <3>2. h[k] = i[k]
      BY <2>2, <3>1
    <3> QED
      BY <3>1, <3>2
  <2> QED
    BY <2>1, <2>2, Induction
<1> DEFINE g == [n \in Nat |-> (CHOOSE h : h \in Upto(n))[n]]
<1>3. \A n \in Nat : (CHOOSE h : h \in Upto(n)) \in Upto(n)
  BY <1>1
<1> HIDE DEF Upto
<1>4. \A n \in Nat : \A h \in Upto(n) : h[n] = g[n]
  BY <1>2, <1>3
<1>5. \A n \in Nat : \A h \in Upto(n) : h[n] \in X
  BY DEF Upto
<1>6. g \in [Nat -> X]
  BY <1>3, <1>5
<1>7. g[0] = x
  BY <1>3 DEF Upto
<1>8. ASSUME NEW k \in Nat PROVE g[k + 1] = F[<<k, g[k]>>]
  <2> DEFINE h == CHOOSE h : h \in Upto(k + 1)
  <2>1. h \in Upto(k + 1)
    BY <1>3
  <2> HIDE DEF h
  <2>2. h[k + 1] = F[<<k, h[k]>>]
    BY <2>1 DEF Upto
  <2>3. PICK i : i \in Upto(k)
    BY <1>1
  <2>4. h[k] = g[k]
    BY <1>2, <1>4, <2>1, <2>3
  <2>5. h[k + 1] = g[k + 1]
    BY <1>4, <2>1
  <2> QED
    BY <2>2, <2>4, <2>5
<1> HIDE DEF g
<1> QED
  BY <1>6, <1>7, <1>8 DEF Iterates

-----------------------------------------------------------------------------
(* Sequences: what they list, and what removing an element leaves.         *)

\* The sequence lists the elements of the set, each once.
Lists(s, A) ==
  /\ s \in Seq(A)
  /\ \A a \in A : \E k \in 1..Len(s) : s[k] = a
  /\ \A k, l \in 1..Len(s) : s[k] = s[l] => k = l

LEMMA ListsAppend ==
  ASSUME NEW A, NEW s, Lists(s, A), NEW a, a \notin A
  PROVE  Lists(Append(s, a), A \cup {a})
<1>1. s \in Seq(A \cup {a}) /\ Append(s, a) \in Seq(A \cup {a}) /\ Len(Append(s, a)) = Len(s) + 1 /\ Len(s) \in Nat
  BY DEF Lists
<1>2. \A k \in 1..Len(s) : Append(s, a)[k] = s[k] /\ s[k] \in A
  BY DEF Lists
<1>3. Append(s, a)[Len(s) + 1] = a
  BY <1>1
<1>4. ASSUME NEW k \in 1..(Len(s) + 1), NEW l \in 1..(Len(s) + 1), Append(s, a)[k] = Append(s, a)[l]
      PROVE  k = l
  <2>1. (k \in 1..Len(s) \/ k = Len(s) + 1) /\ (l \in 1..Len(s) \/ l = Len(s) + 1)
    BY <1>1
  <2>2. CASE k \in 1..Len(s) /\ l \in 1..Len(s)
    BY <1>2, <1>4, <2>2 DEF Lists
  <2>3. CASE k = Len(s) + 1 \/ l = Len(s) + 1
    BY <1>2, <1>3, <1>4, <2>1, <2>3
  <2> QED
    BY <2>1, <2>2, <2>3
<1>5. ASSUME NEW b \in A \cup {a} PROVE \E k \in 1..(Len(s) + 1) : Append(s, a)[k] = b
  <2>1. CASE b = a
    BY <1>1, <1>3, <2>1
  <2>2. CASE b \in A
    <3>1. PICK k \in 1..Len(s) : s[k] = b
      BY <2>2 DEF Lists
    <3>2. k \in 1..(Len(s) + 1)
      BY <1>1
    <3> QED
      BY <1>2, <3>1, <3>2
  <2> QED
    BY <2>1, <2>2
<1> QED
  BY <1>1, <1>4, <1>5 DEF Lists

LEMMA ListsTail ==
  ASSUME NEW A, NEW s, Lists(s, A), s # <<>>
  PROVE  Head(s) \in A /\ Lists(Tail(s), A \ {Head(s)})
<1>1. s \in Seq(A) /\ Len(s) \in Nat /\ Len(s) >= 1 /\ Head(s) = s[1] /\ s[1] \in A
  BY DEF Lists
<1>2. Tail(s) \in Seq(A) /\ Len(Tail(s)) = Len(s) - 1 /\ \A k \in 1..(Len(s) - 1) : Tail(s)[k] = s[k + 1]
  BY <1>1
<1>3. \A k \in 1..(Len(s) - 1) : k + 1 \in 1..Len(s) /\ k + 1 # 1 /\ s[k + 1] # s[1]
  BY <1>1 DEF Lists
<1>4. \A k \in 1..Len(Tail(s)) : Tail(s)[k] \in A \ {Head(s)}
  BY <1>1, <1>2, <1>3, ElementOfSeq
<1>5. Tail(s) \in Seq(A \ {Head(s)})
  <2> DEFINE n == Len(s)  B == A \ {Head(s)}
  <2>1. n \in Int /\ \A k \in 2..n : s[k] \in B
    <3>1. \A k \in 2..n : k - 1 \in 1..(Len(s) - 1) /\ (k - 1) + 1 = k
      BY <1>1
    <3> QED
      BY <1>1, <1>2, <1>3, <1>4, <3>1
  <2>2. Tail(s) = SubSeq(s, 2, n)
    BY <1>1, TailIsSubSeq
  <2> HIDE DEF n, B
  <2>3. SubSeq(s, 2, n) \in Seq(B)
    BY <2>1, SubSeqProperties, 2 \in Int
  <2> QED
    BY <2>2, <2>3 DEF B
<1>6. ASSUME NEW a \in A \ {Head(s)} PROVE \E k \in 1..Len(Tail(s)) : Tail(s)[k] = a
  <2>1. PICK k \in 1..Len(s) : s[k] = a
    BY DEF Lists
  <2>2. k - 1 \in 1..(Len(s) - 1) /\ (k - 1) + 1 = k
    BY <1>1, <2>1
  <2> QED
    BY <1>2, <2>1, <2>2
<1>7. ASSUME NEW k \in 1..Len(Tail(s)), NEW l \in 1..Len(Tail(s)), Tail(s)[k] = Tail(s)[l] PROVE k = l
  <2>1. s[k + 1] = s[l + 1] /\ k + 1 \in 1..Len(s) /\ l + 1 \in 1..Len(s)
    BY <1>2, <1>3, <1>7
  <2>2. k + 1 = l + 1
    BY <2>1 DEF Lists
  <2> QED
    BY <1>1, <1>2, <2>2
<1> QED
  BY <1>1, <1>5, <1>6, <1>7 DEF Lists

LEMMA ListsConcat ==
  ASSUME NEW A, NEW B, NEW s, NEW t, Lists(s, A), Lists(t, B), A \cap B = {}
  PROVE  Lists(s \o t, A \cup B)
<1>1. s \in Seq(A \cup B) /\ t \in Seq(A \cup B) /\ Len(s) \in Nat /\ Len(t) \in Nat
  BY DEF Lists
<1>2. s \o t \in Seq(A \cup B) /\ Len(s \o t) = Len(s) + Len(t)
  BY <1>1, ConcatProperties
<1>3. \A k \in 1..Len(s) : (s \o t)[k] = s[k] /\ s[k] \in A /\ k \in 1..(Len(s) + Len(t))
  BY <1>1, ConcatProperties, ElementOfSeq DEF Lists
<1>4. \A k \in 1..Len(t) : (s \o t)[Len(s) + k] = t[k] /\ t[k] \in B /\ Len(s) + k \in 1..(Len(s) + Len(t))
  BY <1>1, ConcatProperties, ElementOfSeq DEF Lists
<1>5. \A k \in 1..(Len(s) + Len(t)) : k \in 1..Len(s) \/ \E l \in 1..Len(t) : k = Len(s) + l
  <2> TAKE k \in 1..(Len(s) + Len(t))
  <2>1. CASE k <= Len(s)
    BY <1>1, <2>1
  <2>2. CASE k > Len(s)
    <3>1. k - Len(s) \in 1..Len(t) /\ k = Len(s) + (k - Len(s))
      BY <1>1, <2>2
    <3> QED
      BY <3>1
  <2> QED
    BY <1>1, <2>1, <2>2
<1>6. ASSUME NEW a \in A \cup B PROVE \E k \in 1..(Len(s) + Len(t)) : (s \o t)[k] = a
  <2>1. CASE a \in A
    BY <1>3, <2>1 DEF Lists
  <2>2. CASE a \in B
    <3>1. PICK l \in 1..Len(t) : t[l] = a
      BY <2>2 DEF Lists
    <3> QED
      BY <1>4, <3>1
  <2> QED
    BY <2>1, <2>2
<1>7. ASSUME NEW k \in 1..(Len(s) + Len(t)), NEW l \in 1..(Len(s) + Len(t)), (s \o t)[k] = (s \o t)[l]
      PROVE  k = l
  <2>1. CASE k \in 1..Len(s) /\ l \in 1..Len(s)
    BY <1>3, <1>7, <2>1 DEF Lists
  <2>2. CASE k \notin 1..Len(s) /\ l \notin 1..Len(s)
    <3>1. PICK i \in 1..Len(t) : k = Len(s) + i
      BY <1>5, <2>2
    <3>2. PICK j \in 1..Len(t) : l = Len(s) + j
      BY <1>5, <2>2
    <3>3. i = j
      BY <1>4, <1>7, <3>1, <3>2 DEF Lists
    <3> QED
      BY <3>1, <3>2, <3>3
  <2>3. CASE ~(k \in 1..Len(s) <=> l \in 1..Len(s))
    BY <1>3, <1>4, <1>5, <1>7, <2>3
  <2> QED
    BY <2>1, <2>2, <2>3
<1> QED
  BY <1>2, <1>6, <1>7 DEF Lists

\* The elements of the sequence that is left are the others, in their order.
LEMMA Removed ==
  ASSUME NEW S, NEW s \in Seq(S), NEW i \in 1..Len(s)
  PROVE  /\ RemoveAt(s, i) \in Seq(S) /\ Len(RemoveAt(s, i)) = Len(s) - 1
         /\ \A k \in 1..(Len(s) - 1) : RemoveAt(s, i)[k] = IF k < i THEN s[k] ELSE s[k + 1]
<1> DEFINE a == SubSeq(s, 1, i - 1)  b == SubSeq(s, i + 1, Len(s))
<1>1. Len(s) \in Nat /\ i \in Nat /\ i >= 1 /\ i <= Len(s)
  OBVIOUS
<1>2. a \in Seq(S) /\ Len(a) = i - 1 /\ \A k \in 1..(i - 1) : a[k] = s[k]
  BY <1>1, SubSeqProperties
<1>3. b \in Seq(S) /\ Len(b) = Len(s) - i /\ \A k \in 1..(Len(s) - i) : b[k] = s[i + k]
  <2> DEFINE m == i + 1  n == Len(s)
  <2>1. m \in Int /\ n \in Int /\ \A k \in m..n : s[k] \in S
    BY <1>1, ElementOfSeq
  <2>2. n - m + 1 = Len(s) - i /\ \A k \in 1..(Len(s) - i) : m + k - 1 = i + k
    BY <1>1
  <2>3. IF m <= n THEN n - m + 1 = Len(s) - i ELSE Len(s) - i = 0
    BY <1>1
  <2> HIDE DEF m, n, b
  <2>4. /\ SubSeq(s, m, n) \in Seq(S) /\ Len(SubSeq(s, m, n)) = IF m <= n THEN n - m + 1 ELSE 0
        /\ \A k \in 1..(n - m + 1) : SubSeq(s, m, n)[k] = s[m + k - 1]
    BY <2>1, SubSeqProperties
  <2>5. b = SubSeq(s, m, n)
    BY DEF b, m, n
  <2> QED
    BY <2>2, <2>3, <2>4, <2>5
<1>4. RemoveAt(s, i) = a \o b
  BY DEF RemoveAt
<1> HIDE DEF a, b
<1>5. a \o b \in Seq(S) /\ Len(a \o b) = Len(s) - 1
  <2>1. a \o b \in Seq(S) /\ Len(a \o b) = Len(a) + Len(b)
    BY <1>2, <1>3, ConcatProperties
  <2>2. (i - 1) + (Len(s) - i) = Len(s) - 1
    BY <1>1
  <2> QED
    BY <1>2, <1>3, <2>1, <2>2
<1>6. ASSUME NEW k \in 1..(Len(s) - 1) PROVE (a \o b)[k] = IF k < i THEN s[k] ELSE s[k + 1]
  <2>1. CASE k < i
    <3>1. k \in 1..Len(a)
      BY <1>1, <1>2, <2>1
    <3> QED
      BY <1>1, <1>2, <1>3, <2>1, <3>1, ConcatProperties
  <2>2. CASE ~(k < i)
    <3>1. k - Len(a) \in 1..Len(b) /\ k - Len(a) = (k + 1) - i /\ i + (k - Len(a)) = k + 1 /\ k > Len(a) /\ k <= Len(a) + Len(b)
      BY <1>1, <1>2, <1>3, <2>2
    <3> QED
      BY <1>1, <1>2, <1>3, <2>2, <3>1, ConcatProperties
  <2> QED
    BY <2>1, <2>2
<1> QED
  BY <1>4, <1>5, <1>6

-----------------------------------------------------------------------------
(* The topology. *)

Edge == DOMAIN workflow.edges
From(i) == workflow.edges[i].from
To(i) == workflow.edges[i].to
Key(i) == CollectKey(workflow.edges[i])
Leaving(nodes) == {i \in Edge : From(i) \in nodes}

LEMMA EdgesAre ==
  ASSUME workflow \in Workflows
  PROVE  /\ Len(workflow.edges) \in Nat /\ Edge = 1..Len(workflow.edges)
         /\ \A i \in Edge : From(i) \in Nodes /\ To(i) \in Nodes
         /\ IsFiniteSet(Edge) /\ Cardinality(Edge) = Len(workflow.edges)
<1>1. /\ Len(workflow.edges) \in Nat /\ Edge = 1..Len(workflow.edges)
      /\ \A i \in Edge : From(i) \in Nodes /\ To(i) \in Nodes
  BY PlannerAssumption DEF Edge, From, To
<1>2. IsFiniteSet(Edge) /\ Cardinality(Edge) = Len(workflow.edges)
  BY <1>1, FS_Interval
<1> QED
  BY <1>1, <1>2

LEMMA OutgoingOfFirstIs ==
  /\ OutgoingOfFirst[0] = [n \in Nodes |-> <<>>]
  /\ \A k \in Nat : OutgoingOfFirst[k + 1] =
                      [OutgoingOfFirst[k] EXCEPT ![From(k + 1)] = Append(@, k + 1)]
<1> DEFINE X == [Nodes -> Seq(Nat)]
           x == [n \in Nodes |-> <<>>]
           F == [p \in Nat \X X |-> [p[2] EXCEPT ![From(p[1] + 1)] = Append(@, p[1] + 1)]]
           Is(g) == g = [k \in Nat |->
                      IF k = 0 THEN [n \in Nodes |-> <<>>]
                      ELSE [g[k - 1] EXCEPT ![workflow.edges[k].from] = Append(@, k)]]
<1>1. x \in X
  OBVIOUS
<1>2. F \in [Nat \X X -> X]
  <2> SUFFICES ASSUME NEW k \in Nat, NEW f \in X
               PROVE  [f EXCEPT ![From(k + 1)] = Append(@, k + 1)] \in X
    OBVIOUS
  <2>1. k + 1 \in Nat
    OBVIOUS
  <2>2. \A n \in Nodes : Append(f[n], k + 1) \in Seq(Nat)
    BY <2>1
  <2> QED
    BY <2>2
<1>3. \A k \in Nat, f \in X : F[<<k, f>>] = [f EXCEPT ![From(k + 1)] = Append(@, k + 1)]
  OBVIOUS
<1> HIDE DEF X, F, x
<1>4a. PICK g : Iterates(g, X, x, F)
  BY <1>1, <1>2, Iteration
<1>4. g \in [Nat -> X] /\ g[0] = x /\ \A k \in Nat : g[k + 1] = F[<<k, g[k]>>]
  BY <1>4a DEF Iterates
<1>5. \A k \in Nat : g[k + 1] = [g[k] EXCEPT ![From(k + 1)] = Append(@, k + 1)]
  BY <1>3, <1>4
<1> USE DEF x
<1>6. Is(g)
  <2>1. ASSUME NEW k \in Nat, k # 0
        PROVE  g[k] = [g[k - 1] EXCEPT ![workflow.edges[k].from] = Append(@, k)]
    <3>1. k - 1 \in Nat /\ (k - 1) + 1 = k
      BY <2>1
    <3> QED
      BY <1>5, <3>1 DEF From
  <2> QED
    BY <1>4, <2>1
<1>7. OutgoingOfFirst = CHOOSE h : Is(h)
  BY DEF OutgoingOfFirst
<1> HIDE DEF Is
<1>8. Is(OutgoingOfFirst)
  BY <1>6, <1>7
<1>9. OutgoingOfFirst[0] = x
  BY <1>8 DEF Is
<1>10. ASSUME NEW k \in Nat
       PROVE  OutgoingOfFirst[k + 1] = [OutgoingOfFirst[k] EXCEPT ![From(k + 1)] = Append(@, k + 1)]
  <2>1. k + 1 \in Nat /\ k + 1 # 0 /\ (k + 1) - 1 = k
    OBVIOUS
  <2> QED
    BY <1>8, <2>1 DEF Is, From
<1> QED
  BY <1>9, <1>10

\* Outgoing lists the edges that leave a node.
LEMMA OutgoingLists ==
  ASSUME workflow \in Workflows, NEW n \in Nodes
  PROVE  Lists(Outgoing(n), Leaving({n}))
<1> DEFINE L == Len(workflow.edges)
           Few(k, m) == {i \in 1..k : From(i) = m}
           S == {k \in Nat : k <= L => /\ DOMAIN OutgoingOfFirst[k] = Nodes
                                       /\ \A m \in Nodes : Lists(OutgoingOfFirst[k][m], Few(k, m))}
<1>1. L \in Nat /\ Edge = 1..L /\ \A i \in Edge : From(i) \in Nodes
  BY EdgesAre
<1>2. 0 \in S
  <2>1. \A m \in Nodes : OutgoingOfFirst[0][m] = <<>> /\ Few(0, m) = {}
    BY OutgoingOfFirstIs
  <2>2. Lists(<<>>, {})
    BY DEF Lists
  <2> QED
    BY <2>1, <2>2, OutgoingOfFirstIs
<1>3. ASSUME NEW k \in Nat, k \in S PROVE k + 1 \in S
  <2> SUFFICES ASSUME k + 1 <= L
               PROVE  /\ DOMAIN OutgoingOfFirst[k + 1] = Nodes
                      /\ \A m \in Nodes : Lists(OutgoingOfFirst[k + 1][m], Few(k + 1, m))
    <3>1. k + 1 \in Nat
      OBVIOUS
    <3> HIDE DEF L, Few
    <3> QED
      BY <3>1
  <2>1. k <= L /\ k + 1 \in Edge /\ k + 1 \in Nat /\ 1..(k + 1) = 1..k \cup {k + 1} /\ k + 1 \notin 1..k
    BY <1>1
  <2> DEFINE now == OutgoingOfFirst[k]
  <2>2. DOMAIN now = Nodes /\ \A m \in Nodes : Lists(now[m], Few(k, m))
    BY <1>3, <2>1
  <2>3. OutgoingOfFirst[k + 1] = [now EXCEPT ![From(k + 1)] = Append(@, k + 1)]
    BY OutgoingOfFirstIs
  <2> HIDE DEF now
  <2>4. ASSUME NEW m \in Nodes, m = From(k + 1)
        PROVE  Lists(OutgoingOfFirst[k + 1][m], Few(k + 1, m))
    <3>1. OutgoingOfFirst[k + 1][m] = Append(now[m], k + 1)
      BY <2>2, <2>3, <2>4
    <3>2. Few(k + 1, m) = Few(k, m) \cup {k + 1} /\ k + 1 \notin Few(k, m)
      BY <2>1, <2>4
    <3> HIDE DEF Few
    <3> QED
      BY <2>2, <3>1, <3>2, ListsAppend
  <2>5. ASSUME NEW m \in Nodes, m # From(k + 1)
        PROVE  Lists(OutgoingOfFirst[k + 1][m], Few(k + 1, m))
    <3>1. OutgoingOfFirst[k + 1][m] = now[m]
      BY <2>2, <2>3, <2>5
    <3>2. Few(k + 1, m) = Few(k, m)
      BY <2>1, <2>5
    <3> QED
      BY <2>2, <3>1, <3>2
  <2> QED
    BY <2>2, <2>3, <2>4, <2>5
<1>4. L \in S
  <2> HIDE DEF S
  <2> QED
    BY <1>1, <1>2, <1>3, Induction
<1>5. Few(L, n) = Leaving({n})
  BY <1>1 DEF Leaving
<1> HIDE DEF Few
<1>6. Lists(OutgoingOfFirst[L][n], Few(L, n))
  <2>1. L <= L
    BY <1>1
  <2> HIDE DEF L
  <2> QED
    BY <1>4, <2>1
<1> QED
  BY <1>5, <1>6 DEF Outgoing

-----------------------------------------------------------------------------
(* The types of the planner's data, whatever the workflow. *)

Keys == {Key(i) : i \in Edge}
Received == UNION {[D -> BOOLEAN] : D \in (SUBSET Keys) \ {{}}}
Entry == [node : Nodes, collect : BOOLEAN, expected : SUBSET Keys, received : Received]
WalkState == [queue : Seq(Entry), agenda : Seq(Edge)]

LEMMA FirstOfIs ==
  ASSUME NEW S, S \subseteq Nat \ {0}
  PROVE  /\ FirstOf(S) = 0 <=> S = {}
         /\ S # {} => FirstOf(S) \in S
<1>1. CASE S = {}
  BY <1>1 DEF FirstOf
<1>2. CASE S # {}
  <2>1. PICK R : IsWellFoundedOn(R, Nat) /\ \A x, y \in Nat : y < x => <<y, x>> \in R
    BY LessIsWellFounded
  <2>2. PICK x \in S : \A y \in S : <<y, x>> \notin R
    BY <1>2, <2>1, WFMin
  <2>3. ASSUME NEW y \in S PROVE x <= y
    <3>1. x \in Nat /\ y \in Nat /\ ~(y < x)
      BY <2>1, <2>2
    <3> QED
      BY <3>1
  <2>4. Min(S) \in S
    BY <2>2, <2>3 DEF Min
  <2> QED
    BY <1>2, <2>4 DEF FirstOf
<1> QED
  BY <1>1, <1>2

LEMMA CollectOfIs ==
  ASSUME NEW q \in Seq(Entry), NEW n
  PROVE  LET i == CollectOf(q, n)
         IN  /\ i = 0 => \A k \in 1..Len(q) : q[k].node = n => ~q[k].collect
             /\ i # 0 => i \in 1..Len(q) /\ q[i].collect /\ q[i].node = n
<1> DEFINE S == {i \in DOMAIN q : q[i].collect /\ q[i].node = n}
<1>1. DOMAIN q = 1..Len(q) /\ Len(q) \in Nat
  BY LenProperties
<1>2. S \subseteq Nat \ {0}
  BY <1>1
<1>3. CollectOf(q, n) = FirstOf(S)
  BY DEF CollectOf
<1>4. (FirstOf(S) = 0 <=> S = {}) /\ (S # {} => FirstOf(S) \in S)
  <2> HIDE DEF S
  <2> QED
    BY <1>2, FirstOfIs
<1> QED
  BY <1>1, <1>3, <1>4

LEMMA PinnedAtIs ==
  ASSUME NEW q \in Seq(Entry)
  PROVE  /\ PinnedAt(q) = 0 => \A k \in 1..Len(q) : q[k].node \notin DOMAIN workflow.pinned
         /\ PinnedAt(q) # 0 => /\ PinnedAt(q) \in 1..Len(q)
                               /\ q[PinnedAt(q)].node \in DOMAIN workflow.pinned
<1> DEFINE S == {i \in DOMAIN q : q[i].node \in DOMAIN workflow.pinned}
<1>1. DOMAIN q = 1..Len(q) /\ Len(q) \in Nat
  BY LenProperties
<1>2. S \subseteq Nat \ {0}
  BY <1>1
<1>3. PinnedAt(q) = FirstOf(S)
  BY DEF PinnedAt
<1>4. (FirstOf(S) = 0 <=> S = {}) /\ (S # {} => FirstOf(S) \in S)
  <2> HIDE DEF S
  <2> QED
    BY <1>2, FirstOfIs
<1> QED
  BY <1>1, <1>3, <1>4

LEMMA OneReceived ==
  ASSUME NEW key \in Keys, NEW some \in BOOLEAN
  PROVE  Only(key, some) \in Received
<1>1. Only(key, some) = [k \in {key} |-> some]
  BY DEF Only
<1>2. {key} \in (SUBSET Keys) \ {{}}
  OBVIOUS
<1>3. [k \in {key} |-> some] \in [{key} -> BOOLEAN]
  OBVIOUS
<1> QED
  BY <1>1, <1>2, <1>3 DEF Received

LEMMA MoreReceived ==
  ASSUME NEW r \in Received, NEW key \in Keys, NEW some \in BOOLEAN
  PROVE  /\ With(r, key, some) \in Received
         /\ DOMAIN With(r, key, some) = DOMAIN r \cup {key}
         /\ \A k \in DOMAIN r \cup {key} : With(r, key, some)[k] = IF k = key THEN some ELSE r[k]
<1>1. With(r, key, some) = [k \in {key} \cup DOMAIN r |-> IF k = key THEN some ELSE r[k]]
  BY DEF With
<1>2. PICK D \in (SUBSET Keys) \ {{}} : r \in [D -> BOOLEAN]
  BY DEF Received
<1>3. D \cup {key} \in (SUBSET Keys) \ {{}} /\ DOMAIN r = D
  BY <1>2
<1>4. [k \in {key} \cup D |-> IF k = key THEN some ELSE r[k]] \in [D \cup {key} -> BOOLEAN]
  BY <1>2
<1> QED
  BY <1>1, <1>3, <1>4 DEF Received

LEMMA EntriesAreTyped ==
  ASSUME NEW n \in Nodes, NEW key \in Keys, NEW some \in BOOLEAN
  PROVE  Job(n, key, some) \in Entry /\ Collect(n, Only(key, some)) \in Entry
<1>1. Only(key, some) \in Received
  BY OneReceived
<1>2. ExpectedInputs(n) \in SUBSET Keys
  BY DEF ExpectedInputs, Keys, Key, Incoming, Edge
<1> QED
  BY <1>1, <1>2 DEF Job, Collect, Entry

LEMMA ReceiveTyped ==
  ASSUME workflow \in Workflows, NEW q \in Seq(Entry), NEW i \in Edge, NEW some \in BOOLEAN
  PROVE  Receive(q, workflow.edges[i], some) \in Seq(Entry)
<1> DEFINE e == workflow.edges[i]  k == CollectOf(q, e.to)
<1>1. e.to \in Nodes /\ CollectKey(e) \in Keys
  BY EdgesAre DEF To, Key, Keys
<1>2. CASE k = 0
  <2>1. Collect(e.to, Only(CollectKey(e), some)) \in Entry
    BY <1>1, EntriesAreTyped
  <2> QED
    BY <1>2, <2>1 DEF Receive
<1>3. CASE k # 0
  <2>1. k \in 1..Len(q) /\ q[k] \in Entry
    BY <1>3, CollectOfIs, ElementOfSeq
  <2>2. With(q[k].received, CollectKey(e), some) \in Received
    <3> DEFINE r == q[k].received  key == CollectKey(e)
    <3>1. r \in Received /\ key \in Keys
      BY <1>1, <2>1 DEF Entry
    <3> HIDE DEF r, key
    <3>2. With(r, key, some) \in Received
      BY <3>1, MoreReceived
    <3> QED
      BY <3>2 DEF r, key
  <2>3. [q[k] EXCEPT !.received = With(@, CollectKey(e), some)] \in Entry
    BY <2>1, <2>2 DEF Entry
  <2>4. Receive(q, e, some) = [q EXCEPT ![k] = [q[k] EXCEPT !.received = With(@, CollectKey(e), some)]]
    BY <1>3, <2>1 DEF Receive
  <2> QED
    BY <2>1, <2>3, <2>4, ExceptSeq
<1> QED
  BY <1>2, <1>3

LEMMA EnqueueEdgeTyped ==
  ASSUME workflow \in Workflows, NEW walk \in WalkState, walk.agenda # <<>>, NEW n, NEW full
  PROVE  EnqueueEdge(walk, n, full) \in WalkState
<1> DEFINE i    == Head(walk.agenda)
           e    == workflow.edges[i]
           some == e.from = n /\ e.out \in full
<1>1. walk.queue \in Seq(Entry) /\ walk.agenda \in Seq(Edge)
  BY DEF WalkState
<1>2. i \in Edge /\ Tail(walk.agenda) \in Seq(Edge)
  BY <1>1, HeadTailProperties
<1>3. e.to \in Nodes /\ CollectKey(e) \in Keys /\ some \in BOOLEAN
  BY <1>2, EdgesAre DEF To, Key, Keys
<1>4. Receive(walk.queue, e, some) \in Seq(Entry)
  BY <1>1, <1>2, <1>3, ReceiveTyped
<1>5. Append(walk.queue, Job(e.to, CollectKey(e), some)) \in Seq(Entry)
  <2>1. Job(e.to, CollectKey(e), some) \in Entry
    BY <1>3, EntriesAreTyped
  <2> QED
    BY <1>1, <2>1
<1>6. Outgoing(e.to) \o Tail(walk.agenda) \in Seq(Edge)
  <2>1. Outgoing(e.to) \in Seq(Leaving({e.to}))
    BY <1>3, OutgoingLists DEF Lists
  <2>2. Leaving({e.to}) \subseteq Edge
    BY DEF Leaving
  <2>3. Outgoing(e.to) \in Seq(Edge)
    BY <2>1, <2>2, SeqMonotonic
  <2> QED
    BY <1>2, <2>3, ConcatProperties
<1>7. \/ EnqueueEdge(walk, n, full) =
           [queue |-> Receive(walk.queue, e, some), agenda |-> Tail(walk.agenda)]
      \/ EnqueueEdge(walk, n, full) =
           [queue |-> Append(walk.queue, Job(e.to, CollectKey(e), some)), agenda |-> Tail(walk.agenda)]
      \/ EnqueueEdge(walk, n, full) =
           [queue |-> walk.queue, agenda |-> Outgoing(e.to) \o Tail(walk.agenda)]
  BY DEF EnqueueEdge
<1>8. \A q \in Seq(Entry), a \in Seq(Edge) : [queue |-> q, agenda |-> a] \in WalkState
  BY DEF WalkState
<1> HIDE DEF i, e, some
<1> QED
  BY <1>1, <1>2, <1>4, <1>5, <1>6, <1>7, <1>8

LEMMA WalkIs ==
  ASSUME workflow \in Workflows, NEW q \in Seq(Entry), NEW n \in Nodes, NEW full
  PROVE  LET walk == Walk(q, n, full)
         IN  /\ walk \in [Nat -> WalkState]
             /\ walk[0] = [queue |-> q, agenda |-> Outgoing(n)]
             /\ \A k \in Nat : walk[k + 1] = IF walk[k].agenda = <<>> THEN walk[k]
                                             ELSE EnqueueEdge(walk[k], n, full)
<1> DEFINE x == [queue |-> q, agenda |-> Outgoing(n)]
           F == [p \in Nat \X WalkState |->
                   IF p[2].agenda = <<>> THEN p[2] ELSE EnqueueEdge(p[2], n, full)]
           Is(g) == g = [k \in Nat |->
                      IF k = 0 THEN [queue |-> q, agenda |-> Outgoing(n)]
                      ELSE LET before == g[k - 1]
                           IN  IF before.agenda = <<>> THEN before ELSE EnqueueEdge(before, n, full)]
<1>1. x \in WalkState
  <2>1. Outgoing(n) \in Seq(Leaving({n})) /\ Leaving({n}) \subseteq Edge
    BY OutgoingLists DEF Lists, Leaving
  <2>2. Outgoing(n) \in Seq(Edge)
    BY <2>1, SeqMonotonic
  <2> QED
    BY <2>2 DEF WalkState
<1>2. F \in [Nat \X WalkState -> WalkState]
  BY EnqueueEdgeTyped
<1>3. \A k \in Nat, w \in WalkState :
         F[<<k, w>>] = IF w.agenda = <<>> THEN w ELSE EnqueueEdge(w, n, full)
  OBVIOUS
<1> HIDE DEF F, x
<1>4. PICK g : Iterates(g, WalkState, x, F)
  BY <1>1, <1>2, Iteration
<1>5. Is(g)
  <2>1. g \in [Nat -> WalkState] /\ g[0] = x
    BY <1>4 DEF Iterates
  <2>2. ASSUME NEW k \in Nat, k # 0
        PROVE  g[k] = IF g[k - 1].agenda = <<>> THEN g[k - 1] ELSE EnqueueEdge(g[k - 1], n, full)
    <3>1. k - 1 \in Nat /\ (k - 1) + 1 = k
      BY <2>2
    <3> QED
      BY <1>3, <1>4, <2>1, <3>1 DEF Iterates
  <2> QED
    BY <2>1, <2>2 DEF x
<1>6. Walk(q, n, full) = CHOOSE h : Is(h)
  BY DEF Walk
<1> HIDE DEF Is
<1>7. Is(Walk(q, n, full))
  BY <1>5, <1>6
<1> DEFINE walk == Walk(q, n, full)
<1>8. DOMAIN walk = Nat /\ walk[0] = x
  BY <1>7 DEF Is, x
<1>9. ASSUME NEW k \in Nat
      PROVE  walk[k + 1] = IF walk[k].agenda = <<>> THEN walk[k] ELSE EnqueueEdge(walk[k], n, full)
  <2>1. k + 1 \in Nat /\ k + 1 # 0 /\ (k + 1) - 1 = k
    OBVIOUS
  <2> QED
    BY <1>7, <2>1 DEF Is
<1>10. walk \in [Nat -> WalkState]
  <2> DEFINE S == {k \in Nat : walk[k] \in WalkState}
  <2> HIDE DEF walk
  <2>1. 0 \in S
    BY <1>1, <1>8
  <2>2. ASSUME NEW k \in Nat, k \in S PROVE k + 1 \in S
    BY <1>9, <2>2, EnqueueEdgeTyped
  <2>3. Nat \subseteq S
    <3> HIDE DEF S
    <3> QED
      BY <2>1, <2>2, Induction
  <2>4. walk = [k \in Nat |-> walk[k]]
    <3>1. Is(walk)
      BY <1>7 DEF walk
    <3> QED
      BY <3>1 DEF Is
  <2> QED
    BY <2>3, <2>4
<1> QED
  BY <1>8, <1>9, <1>10 DEF x

LEMMA ApplyOutputsTyped ==
  ASSUME workflow \in Workflows, NEW q \in Seq(Entry), NEW n \in Nodes, NEW full
  PROVE  ApplyOutputs(q, n, full) \in Seq(Entry)
<1>1. Len(workflow.edges) \in Nat
  BY EdgesAre
<1>2. Walk(q, n, full)[Len(workflow.edges)] \in WalkState
  BY <1>1, WalkIs
<1> QED
  BY <1>2 DEF ApplyOutputs, WalkState

\* One turn of applyPinnedQueueSkips.
Skip(q) ==
  LET i == PinnedAt(q)
  IN  IF i = 0 THEN q
      ELSE ApplyOutputs(RemoveAt(q, i), q[i].node, workflow.pinned[q[i].node])

LEMMA SkipTyped ==
  ASSUME workflow \in Workflows, NEW q \in Seq(Entry)
  PROVE  Skip(q) \in Seq(Entry)
<1> DEFINE i == PinnedAt(q)
<1>1. CASE i = 0
  BY <1>1 DEF Skip
<1>2. CASE i # 0
  <2>1. i \in 1..Len(q) /\ q[i] \in Entry
    BY <1>2, PinnedAtIs, ElementOfSeq
  <2>2. RemoveAt(q, i) \in Seq(Entry) /\ q[i].node \in Nodes
    BY <2>1, Removed DEF Entry
  <2>3. ApplyOutputs(RemoveAt(q, i), q[i].node, workflow.pinned[q[i].node]) \in Seq(Entry)
    BY <2>2, ApplyOutputsTyped
  <2> QED
    BY <1>2, <2>3 DEF Skip
<1> QED
  BY <1>1, <1>2

LEMMA SkipsAre ==
  ASSUME workflow \in Workflows, NEW q \in Seq(Entry)
  PROVE  /\ Skips(q) \in [Nat -> Seq(Entry)] /\ Skips(q)[0] = q
         /\ \A k \in Nat : Skips(q)[k + 1] = Skip(Skips(q)[k])
<1> DEFINE X == Seq(Entry)
           F == [p \in Nat \X X |-> Skip(p[2])]
           Is(g) == g = [k \in Nat |->
                      IF k = 0 THEN q
                      ELSE LET before == g[k - 1]
                               i == PinnedAt(before)
                           IN  IF i = 0 THEN before
                               ELSE ApplyOutputs(RemoveAt(before, i), before[i].node,
                                                 workflow.pinned[before[i].node])]
<1>1. F \in [Nat \X X -> X] /\ q \in X
  BY SkipTyped
<1>2. \A k \in Nat, s \in X : F[<<k, s>>] = Skip(s)
  OBVIOUS
<1> HIDE DEF F, X
<1>3. PICK g : Iterates(g, X, q, F)
  BY <1>1, Iteration
<1>4. Is(g)
  <2>1. g \in [Nat -> X] /\ g[0] = q
    BY <1>3 DEF Iterates
  <2>2. ASSUME NEW k \in Nat, k # 0 PROVE g[k] = Skip(g[k - 1])
    <3>1. k - 1 \in Nat /\ (k - 1) + 1 = k
      BY <2>2
    <3> QED
      BY <1>2, <1>3, <2>1, <3>1 DEF Iterates
  <2> QED
    BY <2>1, <2>2 DEF Skip
<1>5. Skips(q) = CHOOSE h : Is(h)
  BY DEF Skips
<1> HIDE DEF Is
<1>6. Is(Skips(q))
  BY <1>4, <1>5
<1> DEFINE skips == Skips(q)
<1>7. skips[0] = q /\ skips = [k \in Nat |-> skips[k]]
  BY <1>6 DEF Is
<1>8. ASSUME NEW k \in Nat PROVE skips[k + 1] = Skip(skips[k])
  <2>1. k + 1 \in Nat /\ k + 1 # 0 /\ (k + 1) - 1 = k
    OBVIOUS
  <2> QED
    BY <1>6, <2>1 DEF Is, Skip
<1>9. skips \in [Nat -> X]
  <2> DEFINE S == {k \in Nat : skips[k] \in X}
  <2> HIDE DEF skips
  <2>1. 0 \in S
    BY <1>1, <1>7
  <2>2. ASSUME NEW k \in Nat, k \in S PROVE k + 1 \in S
    <3>1. skips[k] \in Seq(Entry) /\ k + 1 \in Nat
      BY <2>2 DEF X
    <3>2. Skip(skips[k]) \in X
      BY <3>1, SkipTyped DEF X
    <3> QED
      BY <1>8, <3>1, <3>2
  <2>3. Nat \subseteq S
    <3> HIDE DEF S
    <3> QED
      BY <2>1, <2>2, Induction
  <2>4. \A k \in Nat : skips[k] \in X
    BY <2>3
  <2>5. skips = [k \in Nat |-> skips[k]]
    BY <1>7 DEF skips
  <2> QED
    BY <2>4, <2>5
<1> QED
  BY <1>7, <1>8, <1>9 DEF X

LEMMA MostSkipsIs ==
  ASSUME workflow \in Workflows, NEW q \in Seq(Entry)
  PROVE  MostSkips(q) \in Nat
<1>1. IsFiniteSet(DOMAIN workflow.edges) /\ Len(q) \in Nat
  BY EdgesAre, LenProperties DEF Edge
<1>2. Cardinality(SUBSET DOMAIN workflow.edges) \in Nat
  BY <1>1, FS_SUBSET, FS_CardinalityType
<1> QED
  BY <1>1, <1>2 DEF MostSkips

\* The queue after the skips is the one after some number of them, enough or the most there are.
LEMMA SkipPinnedIs ==
  ASSUME workflow \in Workflows, NEW q \in Seq(Entry)
  PROVE  \E k \in Nat : /\ SkipPinned(q) = Skips(q)[k]
                        /\ PinnedAt(Skips(q)[k]) = 0 \/ k = MostSkips(q)
<1> DEFINE Enough(k) == PinnedAt(Skips(q)[k]) = 0 \/ k = MostSkips(q)
           c == CHOOSE k \in 0..MostSkips(q) : Enough(k)
<1>1. MostSkips(q) \in 0..MostSkips(q) /\ Enough(MostSkips(q))
  BY MostSkipsIs
<1> HIDE DEF Enough
<1>2. c \in 0..MostSkips(q) /\ Enough(c)
  BY <1>1
<1>3. SkipPinned(q) = Skips(q)[c]
  BY DEF SkipPinned, Enough
<1> HIDE DEF c
<1>4. c \in Nat
  BY <1>2, MostSkipsIs
<1> QED
  BY <1>2, <1>3, <1>4 DEF Enough

LEMMA SkipPinnedTyped ==
  ASSUME workflow \in Workflows, NEW q \in Seq(Entry)
  PROVE  SkipPinned(q) \in Seq(Entry)
<1>1. PICK k \in Nat : SkipPinned(q) = Skips(q)[k]
  BY SkipPinnedIs
<1>2. Skips(q) \in [Nat -> Seq(Entry)]
  BY SkipsAre
<1> QED
  BY <1>1, <1>2

LEMMA NextIndexIs ==
  ASSUME NEW q \in Seq(Entry)
  PROVE  LET i == NextIndex(q)
         IN  /\ i = 0 <=> q = <<>>
             /\ i # 0 => /\ i \in 1..Len(q)
                         /\ \/ q[i].collect /\ q[i].expected \subseteq DOMAIN q[i].received
                            \/ ~q[i].collect
                            \/ \A k \in 1..Len(q) :
                                 q[k].collect /\ ~(q[k].expected \subseteq DOMAIN q[k].received)
<1> DEFINE R == {i \in DOMAIN q : q[i].collect /\ q[i].expected \subseteq DOMAIN q[i].received}
           J == {i \in DOMAIN q : ~q[i].collect}
<1>1. DOMAIN q = 1..Len(q) /\ Len(q) \in Nat
  BY LenProperties
<1>2. R \subseteq Nat \ {0} /\ J \subseteq Nat \ {0}
  BY <1>1
<1>3. Ready(q) = FirstOf(R) /\ (FirstOf(R) = 0 <=> R = {}) /\ (R # {} => FirstOf(R) \in R)
  <2>1. Ready(q) = FirstOf(R)
    BY DEF Ready
  <2> HIDE DEF R
  <2> QED
    BY <1>2, <2>1, FirstOfIs
<1>4. (FirstOf(J) = 0 <=> J = {}) /\ (J # {} => FirstOf(J) \in J)
  <2> HIDE DEF J
  <2> QED
    BY <1>2, FirstOfIs
<1>5. NextIndex(q) = CASE Ready(q) # 0 -> Ready(q)
                       [] Ready(q) = 0 /\ FirstOf(J) # 0 -> FirstOf(J)
                       [] OTHER -> IF q = <<>> THEN 0 ELSE 1
  BY DEF NextIndex
<1>6. q = <<>> <=> Len(q) = 0
  BY EmptySeq
<1>7. CASE Ready(q) # 0
  <2>1. NextIndex(q) = FirstOf(R) /\ FirstOf(R) \in R
    BY <1>3, <1>5, <1>7
  <2> QED
    BY <1>1, <1>6, <2>1
<1>8. CASE Ready(q) = 0 /\ FirstOf(J) # 0
  <2>1. NextIndex(q) = FirstOf(J) /\ FirstOf(J) \in J
    BY <1>4, <1>5, <1>8
  <2> QED
    BY <1>1, <1>6, <2>1
<1>9. CASE Ready(q) = 0 /\ FirstOf(J) = 0
  <2>1. NextIndex(q) = IF q = <<>> THEN 0 ELSE 1
    BY <1>5, <1>9
  <2>2. R = {} /\ J = {}
    BY <1>3, <1>4, <1>9
  <2>3. \A k \in 1..Len(q) : q[k].collect /\ ~(q[k].expected \subseteq DOMAIN q[k].received)
    BY <1>1, <2>2
  <2> HIDE DEF R, J
  <2> QED
    BY <1>1, <1>6, <2>1, <2>3
<1> QED
  BY <1>7, <1>8, <1>9

LEMMA StoredTyped ==
  ASSUME NEW q \in Seq(Entry)
  PROVE  Stored(q) \in Seq(Entry)
<1>1. DOMAIN q = 1..Len(q) /\ Len(q) \in Nat
  BY LenProperties
<1>2. ASSUME NEW e \in Entry PROVE Reloaded(e) \in Entry
  <2>1. PICK D \in (SUBSET Keys) \ {{}} : e.received \in [D -> BOOLEAN]
    BY DEF Entry, Received
  <2>2. DOMAIN e.received \in SUBSET Keys
    BY <2>1
  <2>3. /\ [e EXCEPT !.collect = FALSE, !.expected = {}] \in Entry
        /\ [e EXCEPT !.collect = TRUE, !.expected = DOMAIN e.received] \in Entry
    BY <2>2 DEF Entry
  <2> QED
    BY <2>3 DEF Reloaded
<1>3. [i \in 1..Len(q) |-> Reloaded(q[i])] \in [1..Len(q) -> Entry]
  BY <1>2, ElementOfSeq
<1>4. [i \in 1..Len(q) |-> Reloaded(q[i])] \in Seq(Entry)
  BY <1>1, <1>3, SeqDef
<1> QED
  BY <1>1, <1>4 DEF Stored

-----------------------------------------------------------------------------
(* Types. *)

\* The graph is the same after a step.
LEMMA SameGraph ==
  ASSUME workflow' = workflow
  PROVE  /\ Edge' = Edge /\ Keys' = Keys /\ Entry' = Entry
         /\ \A n : Incoming(n)' = Incoming(n) /\ ExpectedInputs(n)' = ExpectedInputs(n)
                   /\ (UsesCollect(n)' <=> UsesCollect(n))
         /\ \A i : From(i)' = From(i) /\ To(i)' = To(i) /\ Key(i)' = Key(i)
         /\ \A S : Leaving(S)' = Leaving(S)
<1>1. Edge' = Edge /\ Keys' = Keys
  BY DEF Edge, Keys, Key, CollectKey, Incoming
<1>2. Entry' = Entry
  BY <1>1 DEF Entry, Received
<1>3. \A n : Incoming(n)' = Incoming(n) /\ ExpectedInputs(n)' = ExpectedInputs(n)
             /\ (UsesCollect(n)' <=> UsesCollect(n))
  BY DEF Incoming, ExpectedInputs, CollectKey, UsesCollect
<1>4. /\ \A i : From(i)' = From(i) /\ To(i)' = To(i) /\ Key(i)' = Key(i)
      /\ \A S : Leaving(S)' = Leaving(S)
  BY DEF From, To, Key, Leaving, CollectKey, Incoming, Edge
<1> QED
  BY <1>1, <1>2, <1>3, <1>4

Typed ==
  /\ workflow \in Workflows /\ store \in Stores
  /\ pending = {} \/ \E a : pending = {a} /\ a.node \in Nodes
  /\ queue \in Seq(Entry)
  /\ ran \in [Nodes -> Nat]
  /\ emitted \subseteq Nodes \X {"main", "alt"}

LEMMA TypedIsTypeOK == Typed => TypeOK
<1> SUFFICES ASSUME Typed PROVE TypeOK
  OBVIOUS
<1>1. Cardinality(pending) <= 1 /\ \A a \in pending : a.node \in Nodes
  <2>1. CASE pending = {}
    BY <2>1, FS_EmptySet
  <2>2. CASE \E a : pending = {a} /\ a.node \in Nodes
    BY <2>2, FS_Singleton
  <2> QED
    BY <2>1, <2>2 DEF Typed
<1>2. ASSUME NEW i \in DOMAIN queue PROVE queue[i].node \in Nodes /\ DOMAIN queue[i].received # {}
  <2>1. queue[i] \in Entry
    BY LenProperties, ElementOfSeq DEF Typed
  <2> QED
    BY <2>1 DEF Entry, Received
<1> QED
  BY <1>1, <1>2 DEF Typed, TypeOK

LEMMA TypedInit == Init => Typed
<1> SUFFICES ASSUME Init PROVE Typed
  OBVIOUS
<1>1. pending = {Activation(Root, <<>>)} /\ Activation(Root, <<>>).node \in Nodes
  BY PlannerAssumption DEF Init, Activation
<1> QED
  BY <1>1 DEF Init, Typed

LEMMA TypedNext == Typed /\ [Next]_vars => Typed'
<1> SUFFICES ASSUME Typed, [Next]_vars PROVE Typed'
  OBVIOUS
<1>1. ASSUME NEW full \in SUBSET {"main", "alt"}, Complete(full) PROVE Typed'
  <2> DEFINE Planned(n) == SkipPinned(ApplyOutputs(queue, n, full))
  <2>1. workflow' = workflow /\ store' = store /\ workflow \in Workflows /\ queue \in Seq(Entry)
    BY <1>1 DEF Complete, Typed
  <2>2. PICK activation \in pending :
          LET n == activation.node
              q == Planned(n)
              i == NextIndex(q)
          IN  /\ emitted' = emitted \cup ({n} \X full)
              /\ IF i = 0
                 THEN pending' = {} /\ queue' = <<>> /\ UNCHANGED ran
                 ELSE /\ pending' = {Activation(q[i].node, q[i].received)}
                      /\ queue' = Stored(RemoveAt(q, i))
                      /\ ran' = [ran EXCEPT ![q[i].node] = @ + 1]
    BY <1>1 DEF Complete
  <2> DEFINE n == activation.node
             q == Planned(n)
             i == NextIndex(q)
  <2>3. n \in Nodes
    BY <2>2 DEF Typed
  <2>4. q \in Seq(Entry)
    BY <2>1, <2>3, ApplyOutputsTyped, SkipPinnedTyped
  <2>5. emitted' \subseteq Nodes \X {"main", "alt"}
    BY <2>2, <2>3 DEF Typed
  <2>6. CASE i = 0
    <3>1. pending' = {} /\ queue' = <<>> /\ ran' = ran
      BY <2>2, <2>6
    <3> HIDE DEF q
    <3> QED
      BY <2>1, <2>5, <3>1, SameGraph DEF Typed
  <2>7. CASE i # 0
    <3>1. /\ pending' = {Activation(q[i].node, q[i].received)}
          /\ queue' = Stored(RemoveAt(q, i))
          /\ ran' = [ran EXCEPT ![q[i].node] = @ + 1]
      BY <2>2, <2>7
    <3> HIDE DEF q
    <3>2. i \in 1..Len(q) /\ q[i] \in Entry
      BY <2>4, <2>7, NextIndexIs, ElementOfSeq
    <3>3. queue' \in Seq(Entry)
      BY <2>4, <3>1, <3>2, Removed, StoredTyped
    <3> HIDE DEF i
    <3>4. q[i].node \in Nodes
      BY <3>2 DEF Entry
    <3>5. \E a : pending' = {a} /\ a.node \in Nodes
      <4>1. Activation(q[i].node, q[i].received).node = q[i].node
        BY DEF Activation
      <4> QED
        BY <3>1, <3>4, <4>1
    <3>6. ran' \in [Nodes -> Nat]
      BY <3>1, <3>4 DEF Typed
    <3> QED
      BY <2>1, <2>5, <3>3, <3>5, <3>6, SameGraph DEF Typed
  <2> QED
    BY <2>6, <2>7
<1>2. CASE UNCHANGED vars
  BY <1>2, SameGraph DEF Typed, vars
<1> QED
  BY <1>1, <1>2 DEF Next

\* Whatever the workflow, the repository and the pins, the planner's data has its types: every
\* entry of the queue is for a node and has received an input, and at most one activation is
\* pending.
THEOREM PlannerTypes == Spec => []TypeOK
<1>1. Spec => []Typed
  BY TypedInit, TypedNext, PTL DEF Spec
<1> QED
  BY <1>1, TypedIsTypeOK, PTL

-----------------------------------------------------------------------------
(* The invariant. *)

Pinned == DOMAIN workflow.pinned

OnlySource == \A n \in Nodes : Incoming(n) = {} <=> n = Root

NoPinnedJoin == \A n \in Pinned : ~UsesCollect(n)

\* On the in-memory repository, in a workflow whose only node without inbound edges is the
\* trigger, and without a pinned join.
Regular == store = "memory" /\ OnlySource /\ NoPinnedJoin

\* Edge i carries items, when those of em were emitted.
Gives(i, em) ==
  IF From(i) \in Pinned THEN workflow.edges[i].out \in workflow.pinned[From(i)]
  ELSE <<From(i), workflow.edges[i].out>> \in em

\* An entry has the inputs of the edges that have fired, and no others.
EntryFits(e, done, fired, em) ==
  /\ e.collect <=> UsesCollect(e.node)
  /\ e.collect => e.expected = ExpectedInputs(e.node)
  /\ fired \cap Incoming(e.node) # {}
  /\ DOMAIN e.received = {Key(i) : i \in fired \cap Incoming(e.node)}
  /\ \A i \in fired \cap Incoming(e.node) :
       e.received[Key(i)] <=> Gives(i, em) /\ From(i) \in done

\* A node is done, passed over because its only inbound edge is empty, busy (activated, and
\* its outputs are still to come), queued, or none of these.  Only the edges that leave the
\* done and the passed nodes fire.
Apart(q, busy, done, passed) ==
  /\ done \cap passed = {} /\ done \cap busy = {} /\ passed \cap busy = {}
  /\ \A k \in 1..Len(q) : q[k].node \notin done \cup passed \cup busy
  /\ \A k, l \in 1..Len(q) : q[k].node = q[l].node => k = l

Entered(q, busy, done, passed, fired) ==
  /\ \A n \in done \cup passed \cup busy : Incoming(n) \subseteq fired
  /\ \A i \in fired : \/ To(i) \in done \cup passed \cup busy
                      \/ \E k \in 1..Len(q) : q[k].node = To(i)

PassedOver(done, passed, fired, em) ==
  /\ \A n \in passed : ~UsesCollect(n)
  /\ \A i \in fired : ~UsesCollect(To(i)) =>
       (To(i) \in passed <=>
          ~(From(i) \in done /\ (Gives(i, em) \/ From(i) \in workflow.continues)))

Sound(q, busy, done, passed, fired, em) ==
  /\ busy \subseteq Nodes /\ done \subseteq Nodes /\ passed \subseteq Nodes
  /\ fired \subseteq Leaving(done \cup passed) /\ Root \in done \cup busy
  /\ Apart(q, busy, done, passed)
  /\ \A k \in 1..Len(q) : EntryFits(q[k], done, fired, em)
  /\ Entered(q, busy, done, passed, fired)
  /\ PassedOver(done, passed, fired, em)

\* Between two activations every edge that may fire has.
Busy == {a.node : a \in pending}

Accounts(done, passed) ==
  /\ Sound(queue, Busy, done, passed, Leaving(done \cup passed), emitted)
  /\ \A a \in pending : a.inputs = {Key(i) : i \in {j \in Incoming(a.node) :
                                                      Gives(j, emitted) /\ From(j) \in done}}
  /\ \A n \in Nodes : ran[n] = IF n \in (done \ Pinned) \cup Busy THEN 1 ELSE 0
  /\ Busy \cap Pinned = {}
  /\ \A pair \in emitted : pair[1] \in done

PlannerInv ==
  /\ Typed /\ Regular
  /\ pending = {} => queue = <<>>
  /\ \E done, passed \in SUBSET Nodes : Accounts(done, passed)

-----------------------------------------------------------------------------
(* Edges, keys and ports. *)

\* A node that does not collect its inputs has exactly one inbound edge.
LEMMA OneInput ==
  ASSUME workflow \in Workflows, NEW n \in Nodes, ~UsesCollect(n)
  PROVE  /\ Incoming(n) # {}
         /\ \A i, j \in Incoming(n) : i = j
<1>1. ExpectedInputs(n) = {<<"in">>} /\ ~(Cardinality(Incoming(n)) > 1)
  BY DEF UsesCollect
<1>2. Incoming(n) # {}
  BY <1>1 DEF ExpectedInputs
<1>3. ASSUME NEW i \in Incoming(n), NEW j \in Incoming(n), i # j PROVE FALSE
  <2>1. IsFiniteSet(Incoming(n))
    <3>1. Incoming(n) \subseteq Edge
      BY DEF Incoming, Edge
    <3> QED
      BY <3>1, EdgesAre, FS_Subset
  <2>2. Cardinality({i}) = 1 /\ IsFiniteSet({i})
    BY FS_Singleton
  <2>3. Cardinality({i} \cup {j}) = 2 /\ IsFiniteSet({i} \cup {j})
    BY <1>3, <2>2, FS_AddElement
  <2>4. Cardinality({i} \cup {j}) <= Cardinality(Incoming(n))
    BY <2>1, FS_Subset
  <2>5. Cardinality(Incoming(n)) \in Nat
    BY <2>1, FS_CardinalityType
  <2> QED
    BY <1>1, <2>3, <2>4, <2>5
<1> QED
  BY <1>2, <1>3

\* Two edges into a node have one key only when they leave one output.
LEMMA KeyTellsSource ==
  ASSUME NEW i \in Edge, NEW j \in Edge, i # j, To(i) = To(j), Key(i) = Key(j)
  PROVE  From(i) = From(j) /\ workflow.edges[i].out = workflow.edges[j].out
<1> DEFINE Shared(e) == \E k, l \in Incoming(e.to) : /\ k # l /\ workflow.edges[k].input = e.input
                                                     /\ workflow.edges[l].input = e.input
           a == workflow.edges[i]
           b == workflow.edges[j]
<1>1. /\ Key(i) = IF Shared(a) THEN <<a.from, a.out>> ELSE <<a.input>>
      /\ Key(j) = IF Shared(b) THEN <<b.from, b.out>> ELSE <<b.input>>
  BY DEF Key, CollectKey
<1>2. i \in Incoming(a.to) /\ j \in Incoming(a.to) /\ a.to = b.to
  BY DEF Incoming, Edge, To
<1>3. CASE Shared(a) /\ Shared(b)
  <2>1. <<a.from, a.out>> = <<b.from, b.out>>
    BY <1>1, <1>3
  <2> QED
    BY <2>1 DEF From
<1>4. CASE ~Shared(a) /\ ~Shared(b)
  <2>1. <<a.input>> = <<b.input>>
    BY <1>1, <1>4
  <2>2. a.input = b.input
    BY <2>1
  <2>3. Shared(a)
    BY <1>2, <2>2
  <2> QED
    BY <1>4, <2>3
<1>5. CASE ~(Shared(a) <=> Shared(b))
  <2>1. \A x, y, z : <<x, y>> # <<z>>
    <3> TAKE x, y, z
    <3>1. Len(<<x, y>>) = 2 /\ Len(<<z>>) = 1
      OBVIOUS
    <3> QED
      BY <3>1
  <2> HIDE DEF Shared
  <2> QED
    BY <1>1, <1>5, <2>1
<1> QED
  BY <1>3, <1>4, <1>5

LEMMA GivesTells ==
  ASSUME NEW i, NEW j, NEW em, From(i) = From(j), workflow.edges[i].out = workflow.edges[j].out
  PROVE  Gives(i, em) <=> Gives(j, em)
BY DEF Gives

\* An edge into another node changes nothing for an entry.
LEMMA EntryStays ==
  ASSUME NEW e, NEW done, NEW fired, NEW em, NEW i \in Edge,
         EntryFits(e, done, fired, em), To(i) # e.node
  PROVE  EntryFits(e, done, fired \cup {i}, em)
<1>1. (fired \cup {i}) \cap Incoming(e.node) = fired \cap Incoming(e.node)
  BY DEF Incoming, To, Edge
<1> QED
  BY <1>1 DEF EntryFits

-----------------------------------------------------------------------------
(* One edge fires. *)

\* Edge i may fire next: it leaves a done or passed node, and its target is neither.
MayFire(i, q, done, passed, fired) ==
  /\ i \in Leaving(done \cup passed) \ fired
  /\ To(i) \notin done \cup passed

\* A queue gets a first entry for the target.
LEMMA FireAppends ==
  ASSUME workflow \in Workflows,
         NEW q \in Seq(Entry), NEW done, NEW passed, NEW fired, NEW em, NEW i, NEW e \in Entry,
         Sound(q, {}, done, passed, fired, em), MayFire(i, q, done, passed, fired),
         \A k \in 1..Len(q) : q[k].node # To(i),
         e.node = To(i), EntryFits(e, done, fired \cup {i}, em),
         ~UsesCollect(To(i)) => From(i) \in done /\ (Gives(i, em) \/ From(i) \in workflow.continues)
  PROVE  Sound(Append(q, e), {}, done, passed, fired \cup {i}, em)
<1> DEFINE x == To(i)  r == Append(q, e)  now == fired \cup {i}
<1>1. i \in Edge /\ i \notin fired /\ i \in Leaving(done \cup passed) /\ x \notin done \cup passed
      /\ x \in Nodes
  BY EdgesAre DEF MayFire, Leaving
<1>2. Len(r) = Len(q) + 1 /\ Len(q) \in Nat /\ r[Len(q) + 1] = e /\ \A k \in 1..Len(q) : r[k] = q[k]
  OBVIOUS
<1>3. \A k \in 1..Len(r) : k \in 1..Len(q) \/ k = Len(q) + 1
  BY <1>2
<1> HIDE DEF r
<1>4. Apart(r, {}, done, passed)
  <2>1. ASSUME NEW k \in 1..Len(r) PROVE r[k].node \notin done \cup passed \cup {}
    BY <1>1, <1>2, <1>3 DEF Sound, Apart
  <2>2. ASSUME NEW k \in 1..Len(r), NEW l \in 1..Len(r), r[k].node = r[l].node PROVE k = l
    <3>1. CASE k \in 1..Len(q) /\ l \in 1..Len(q)
      BY <1>2, <2>2, <3>1 DEF Sound, Apart
    <3>2. CASE ~(k \in 1..Len(q) /\ l \in 1..Len(q))
      BY <1>2, <1>3, <2>2, <3>2
    <3> QED
      BY <3>1, <3>2
  <2> QED
    BY <2>1, <2>2 DEF Sound, Apart
<1>5. ASSUME NEW k \in 1..Len(r) PROVE EntryFits(r[k], done, now, em)
  <2>1. CASE k \in 1..Len(q)
    BY <1>1, <1>2, <2>1, EntryStays DEF Sound
  <2>2. CASE k = Len(q) + 1
    BY <1>2, <2>2
  <2> QED
    BY <1>3, <2>1, <2>2
<1>6. Entered(r, {}, done, passed, now)
  <2>1. ASSUME NEW j \in now
        PROVE  \/ To(j) \in done \cup passed \cup {}
               \/ \E k \in 1..Len(r) : r[k].node = To(j)
    <3>1. CASE j = i
      <4>1. Len(q) + 1 \in 1..Len(r)
        BY <1>2
      <4> QED
        BY <1>2, <3>1, <4>1
    <3>2. CASE j \in fired
      <4>1. \A k \in 1..Len(q) : k \in 1..Len(r)
        BY <1>2
      <4> QED
        BY <1>2, <3>2, <4>1 DEF Sound, Entered
    <3> QED
      BY <3>1, <3>2
  <2> QED
    BY <2>1 DEF Sound, Entered
<1>7. PassedOver(done, passed, now, em)
  BY <1>1 DEF Sound, PassedOver
<1> QED
  BY <1>1, <1>4, <1>5, <1>6, <1>7 DEF Sound, r

\* The collect of the target receives the input.
LEMMA FireUpdates ==
  ASSUME workflow \in Workflows,
         NEW q \in Seq(Entry), NEW done, NEW passed, NEW fired, NEW em, NEW i,
         NEW k \in 1..Len(q), NEW e \in Entry,
         Sound(q, {}, done, passed, fired, em), MayFire(i, q, done, passed, fired),
         q[k].node = To(i), UsesCollect(To(i)),
         e.node = To(i), EntryFits(e, done, fired \cup {i}, em)
  PROVE  Sound([q EXCEPT ![k] = e], {}, done, passed, fired \cup {i}, em)
<1> DEFINE x == To(i)  r == [q EXCEPT ![k] = e]  now == fired \cup {i}
<1>1. i \in Edge /\ i \notin fired /\ i \in Leaving(done \cup passed) /\ x \notin done \cup passed
  BY EdgesAre DEF MayFire, Leaving
<1>2. Len(r) = Len(q) /\ r[k] = e /\ \A l \in 1..Len(q) : l # k => r[l] = q[l]
  BY ExceptSeq
<1>3. \A l \in 1..Len(q) : r[l].node = q[l].node
  BY <1>2
<1> HIDE DEF r
<1>4. Apart(r, {}, done, passed)
  BY <1>2, <1>3 DEF Sound, Apart
<1>5. ASSUME NEW l \in 1..Len(r) PROVE EntryFits(r[l], done, now, em)
  <2>1. CASE l = k
    BY <1>2, <2>1
  <2>2. CASE l # k
    <3>1. q[l].node # x
      BY <1>2, <2>2 DEF Sound, Apart
    <3>2. EntryFits(q[l], done, fired, em)
      BY <1>2 DEF Sound
    <3>3. EntryFits(q[l], done, now, em)
      BY <1>1, <3>1, <3>2, EntryStays
    <3> QED
      BY <1>2, <2>2, <3>3
  <2> QED
    BY <2>1, <2>2
<1>6. Entered(r, {}, done, passed, now)
  <2>1. ASSUME NEW j \in now
        PROVE  \/ To(j) \in done \cup passed \cup {}
               \/ \E l \in 1..Len(r) : r[l].node = To(j)
    BY <1>2, <1>3 DEF Sound, Entered
  <2> QED
    BY <2>1 DEF Sound, Entered
<1>7. PassedOver(done, passed, now, em)
  BY <1>1 DEF Sound, PassedOver
<1> QED
  BY <1>1, <1>2, <1>4, <1>5, <1>6, <1>7 DEF Sound, r

\* The target is passed over.
LEMMA FirePasses ==
  ASSUME workflow \in Workflows,
         NEW q \in Seq(Entry), NEW done, NEW passed, NEW fired, NEW em, NEW i,
         Sound(q, {}, done, passed, fired, em), MayFire(i, q, done, passed, fired),
         ~UsesCollect(To(i)),
         ~(From(i) \in done /\ (Gives(i, em) \/ From(i) \in workflow.continues))
  PROVE  Sound(q, {}, done, passed \cup {To(i)}, fired \cup {i}, em)
<1> DEFINE x == To(i)  now == fired \cup {i}  more == passed \cup {x}
<1>1. i \in Edge /\ i \notin fired /\ i \in Leaving(done \cup passed) /\ x \notin done \cup passed
      /\ x \in Nodes /\ i \in Incoming(x)
  BY EdgesAre DEF MayFire, Leaving, Incoming, Edge, To
<1>2. Incoming(x) = {i}
  BY <1>1, OneInput
<1>3. ASSUME NEW j \in fired, To(j) = x PROVE FALSE
  <2>1. j \in Incoming(x)
    BY <1>3 DEF Sound, Leaving, Incoming, Edge, To
  <2> QED
    BY <1>1, <1>2, <2>1
<1>4. \A k \in 1..Len(q) : q[k].node # x
  <2> SUFFICES ASSUME NEW k \in 1..Len(q), q[k].node = x PROVE FALSE
    OBVIOUS
  <2>1. fired \cap Incoming(x) # {}
    BY DEF Sound, EntryFits
  <2> QED
    BY <1>1, <1>2, <2>1
<1>5. Apart(q, {}, done, more)
  BY <1>1, <1>4 DEF Sound, Apart
<1>6. ASSUME NEW k \in 1..Len(q) PROVE EntryFits(q[k], done, now, em)
  BY <1>1, <1>4, EntryStays DEF Sound
<1>7. Entered(q, {}, done, more, now)
  BY <1>1, <1>2 DEF Sound, Entered
<1>8. PassedOver(done, more, now, em)
  <2>1. ASSUME NEW j \in now, ~UsesCollect(To(j))
        PROVE  To(j) \in more <=>
                 ~(From(j) \in done /\ (Gives(j, em) \/ From(j) \in workflow.continues))
    BY <1>1, <1>3, <2>1 DEF Sound, PassedOver
  <2> QED
    BY <2>1 DEF Sound, PassedOver
<1>9. now \subseteq Leaving(done \cup more)
  BY <1>1 DEF Sound, Leaving
<1> QED
  BY <1>1, <1>5, <1>6, <1>7, <1>8, <1>9 DEF Sound

\* While the outputs of node n are applied, the agenda lists the edges that may fire.  Those of
\* done nodes are edges of n.
Open(done, passed, fired) == Leaving(done \cup passed) \ fired

WalkSound(walk, n, full, done, passed, fired, em) ==
  /\ walk \in WalkState
  /\ Sound(walk.queue, {}, done, passed, fired, em)
  /\ Lists(walk.agenda, Open(done, passed, fired))
  /\ n \in done
  /\ \A i \in Open(done, passed, fired) : From(i) \in done \/ n \in workflow.continues => From(i) = n
  /\ \A i \in Leaving({n}) : Gives(i, em) <=> workflow.edges[i].out \in full

\* The target of the first edge of the agenda is neither done nor passed, and the edge carries
\* items just when the walk says so.
LEMMA AgendaHead ==
  ASSUME workflow \in Workflows, NEW walk, NEW n, NEW full, NEW done, NEW passed, NEW fired, NEW em,
         WalkSound(walk, n, full, done, passed, fired, em), walk.agenda # <<>>
  PROVE  LET i == Head(walk.agenda)
             e == workflow.edges[i]
         IN  /\ MayFire(i, walk.queue, done, passed, fired) /\ i \in Edge /\ To(i) \in Nodes
             /\ Lists(Tail(walk.agenda), Open(done, passed, fired) \ {i})
             /\ (e.from = n /\ e.out \in full) <=> (Gives(i, em) /\ From(i) \in done)
             /\ n \in workflow.continues => From(i) = n
<1> DEFINE i == Head(walk.agenda)  e == workflow.edges[i]
<1>1. i \in Open(done, passed, fired) /\ Lists(Tail(walk.agenda), Open(done, passed, fired) \ {i})
  BY ListsTail DEF WalkSound
<1>2. i \in Edge /\ i \notin fired /\ i \in Leaving(done \cup passed) /\ To(i) \in Nodes
  BY <1>1, EdgesAre DEF Open, Leaving
<1>3. To(i) \notin done \cup passed
  <2>1. i \in Incoming(To(i))
    BY <1>2 DEF Incoming, Edge, To
  <2> QED
    BY <1>2, <2>1 DEF WalkSound, Sound, Entered
<1>4. (e.from = n /\ e.out \in full) <=> (Gives(i, em) /\ From(i) \in done)
  <2>1. CASE From(i) = n
    <3>1. i \in Leaving({n})
      BY <1>2, <2>1 DEF Leaving
    <3> QED
      BY <2>1, <3>1 DEF WalkSound, From
  <2>2. CASE From(i) # n
    BY <1>1, <2>2 DEF WalkSound, From
  <2> QED
    BY <2>1, <2>2
<1> QED
  BY <1>1, <1>2, <1>3, <1>4 DEF MayFire, WalkSound

\* What the collect or the job of the target has received fits, with the new edge.
LEMMA NewEntryFits ==
  ASSUME workflow \in Workflows, NEW q \in Seq(Entry), NEW done, NEW passed, NEW fired, NEW em, NEW i,
         Sound(q, {}, done, passed, fired, em), MayFire(i, q, done, passed, fired),
         \A k \in 1..Len(q) : q[k].node # To(i),
         NEW some \in BOOLEAN, some <=> (Gives(i, em) /\ From(i) \in done),
         NEW e, e.node = To(i), e.received = Only(Key(i), some), e.collect <=> UsesCollect(To(i)),
         e.collect => e.expected = ExpectedInputs(To(i))
  PROVE  EntryFits(e, done, fired \cup {i}, em)
<1> DEFINE x == To(i)
<1>1. i \in Edge /\ i \in Incoming(x) /\ x \notin done \cup passed
  BY EdgesAre DEF MayFire, Leaving, Incoming, Edge, To
<1>2. (fired \cup {i}) \cap Incoming(x) = {i}
  <2>1. \A j \in fired : To(j) # x
    BY <1>1 DEF Sound, Entered
  <2>2. \A j \in Incoming(x) : To(j) = x
    BY DEF Incoming, To
  <2> QED
    BY <1>1, <2>1, <2>2
<1>3. DOMAIN e.received = {Key(i)} /\ e.received[Key(i)] = some
  BY DEF Only
<1>4. \A k \in (fired \cup {i}) \cap Incoming(x) : e.received[Key(k)] <=> Gives(k, em) /\ From(k) \in done
  BY <1>2, <1>3
<1>5. DOMAIN e.received = {Key(k) : k \in (fired \cup {i}) \cap Incoming(x)}
  BY <1>2, <1>3
<1> QED
  BY <1>2, <1>4, <1>5 DEF EntryFits

\* The collect keeps what it had received: two edges with one key leave one output.
LEMMA OldEntryFits ==
  ASSUME workflow \in Workflows, NEW done, NEW passed, NEW fired, NEW em, NEW i \in Edge,
         fired \subseteq Edge,
         NEW e \in Entry, EntryFits(e, done, fired, em), e.node = To(i),
         NEW some \in BOOLEAN, some <=> (Gives(i, em) /\ From(i) \in done)
  PROVE  LET f == [e EXCEPT !.received = With(@, Key(i), some)]
         IN  f \in Entry /\ f.node = To(i) /\ EntryFits(f, done, fired \cup {i}, em)
<1> DEFINE x == To(i)  r == e.received  s == With(r, Key(i), some)
           f == [e EXCEPT !.received = s]  now == fired \cup {i}
<1>1. r \in Received /\ Key(i) \in Keys /\ i \in Incoming(x)
  BY DEF Entry, Keys, Incoming, To, Edge
<1>2. /\ s \in Received /\ DOMAIN s = DOMAIN r \cup {Key(i)}
      /\ \A k \in DOMAIN r \cup {Key(i)} : s[k] = IF k = Key(i) THEN some ELSE r[k]
  <2> DEFINE key == Key(i)
  <2>1. r \in Received /\ key \in Keys
    BY <1>1
  <2> HIDE DEF r, key
  <2>2. /\ With(r, key, some) \in Received
        /\ DOMAIN With(r, key, some) = DOMAIN r \cup {key}
        /\ \A k \in DOMAIN r \cup {key} : With(r, key, some)[k] = IF k = key THEN some ELSE r[k]
    BY <2>1, MoreReceived
  <2> QED
    BY <2>2 DEF key
<1>3. f \in Entry /\ f.node = e.node /\ f.collect = e.collect /\ f.expected = e.expected /\ f.received = s
  BY <1>2 DEF Entry
<1> HIDE DEF s, r, f
<1>4. now \cap Incoming(x) = (fired \cap Incoming(x)) \cup {i}
  BY <1>1
<1>5. DOMAIN s = {Key(j) : j \in now \cap Incoming(x)}
  BY <1>2, <1>4 DEF EntryFits, r
<1>6. ASSUME NEW j \in now \cap Incoming(x) PROVE s[Key(j)] <=> Gives(j, em) /\ From(j) \in done
  <2>1. CASE Key(j) = Key(i)
    <3>1. s[Key(j)] = some
      BY <1>2, <2>1
    <3>2. CASE j = i
      BY <3>1, <3>2
    <3>3. CASE j # i
      <4>1. j \in Edge /\ To(j) = To(i)
        BY <1>6 DEF Incoming, To, Edge
      <4>2. From(j) = From(i) /\ (Gives(j, em) <=> Gives(i, em))
        BY <2>1, <3>3, <4>1, KeyTellsSource, GivesTells
      <4> QED
        BY <3>1, <4>2
    <3> QED
      BY <3>2, <3>3
  <2>2. CASE Key(j) # Key(i)
    <3>1. j \in fired \cap Incoming(x)
      BY <1>4, <1>6, <2>2
    <3>2. Key(j) \in DOMAIN r /\ (r[Key(j)] <=> Gives(j, em) /\ From(j) \in done)
      BY <3>1 DEF EntryFits, r
    <3>3. s[Key(j)] = r[Key(j)]
      BY <1>2, <2>2, <3>2
    <3> QED
      BY <3>2, <3>3
  <2> QED
    BY <2>1, <2>2
<1>7. EntryFits(f, done, now, em)
  BY <1>3, <1>4, <1>5, <1>6 DEF EntryFits
<1> QED
  BY <1>3, <1>7 DEF f, s, r

LEMMA EnqueueEdgeKeeps ==
  ASSUME workflow \in Workflows, NEW walk, NEW n, NEW full, NEW done, NEW passed, NEW fired, NEW em,
         WalkSound(walk, n, full, done, passed, fired, em), walk.agenda # <<>>
  PROVE  \E more, i : /\ i \in Edge \ fired
                      /\ WalkSound(EnqueueEdge(walk, n, full), n, full, done, more, fired \cup {i}, em)
<1> DEFINE i    == Head(walk.agenda)
           e    == workflow.edges[i]
           x    == To(i)
           q    == walk.queue
           rest == Tail(walk.agenda)
           some == e.from = n /\ e.out \in full
           now  == fired \cup {i}
           next == EnqueueEdge(walk, n, full)
<1>1. /\ MayFire(i, q, done, passed, fired) /\ i \in Edge /\ x \in Nodes
      /\ Lists(rest, Open(done, passed, fired) \ {i})
      /\ some <=> (Gives(i, em) /\ From(i) \in done)
      /\ n \in workflow.continues => From(i) = n
  BY AgendaHead DEF From
<1>2. /\ some \in BOOLEAN /\ e.to = x /\ CollectKey(e) = Key(i) /\ e.from = From(i)
      /\ i \notin fired /\ i \in Leaving(done \cup passed)
  BY <1>1 DEF To, Key, From, MayFire
<1>3. /\ walk \in WalkState /\ q \in Seq(Entry) /\ next \in WalkState
      /\ Sound(q, {}, done, passed, fired, em) /\ n \in done /\ fired \subseteq Edge
  BY EnqueueEdgeTyped DEF WalkSound, WalkState, Sound, Leaving
<1>4. Open(done, passed, now) = Open(done, passed, fired) \ {i}
  BY DEF Open
<1>5. ASSUME NEW r, Sound(r, {}, done, passed, now, em), next = [queue |-> r, agenda |-> rest]
      PROVE  WalkSound(next, n, full, done, passed, now, em)
  <2>1. next.queue = r /\ next.agenda = rest
    BY <1>5
  <2> HIDE DEF next, rest, i
  <2> QED
    BY <1>1, <1>3, <1>4, <1>5, <2>1 DEF WalkSound
<1>8. ASSUME NEW p, WalkSound(next, n, full, done, p, now, em)
      PROVE  \E m, j : /\ j \in Edge \ fired
                       /\ WalkSound(next, n, full, done, m, fired \cup {j}, em)
  <2> HIDE DEF i, next
  <2> QED
    BY <1>1, <1>2, <1>8
<1>6. CASE UsesCollect(x)
  <2> DEFINE k == CollectOf(q, x)  r == Receive(q, e, some)
  <2>1. next = [queue |-> r, agenda |-> rest]
    BY <1>2, <1>6 DEF EnqueueEdge
  <2>2. CASE k = 0
    <3> DEFINE new == Collect(x, Only(Key(i), some))
    <3>1. ASSUME NEW l \in 1..Len(q) PROVE q[l].node # x
      <4>1. q[l].node = x => ~q[l].collect
        BY <1>3, <2>2, CollectOfIs
      <4>2. q[l].collect <=> UsesCollect(q[l].node)
        BY <1>3 DEF Sound, EntryFits
      <4> QED
        BY <1>6, <4>1, <4>2
    <3>2. new \in Entry /\ new.node = x /\ EntryFits(new, done, now, em)
      <4>1. /\ new.node = x /\ new.received = Only(Key(i), some) /\ new.collect = TRUE
            /\ new.expected = ExpectedInputs(x)
        BY DEF Collect
      <4>2. new \in Entry
        BY <1>1, <1>2, EntriesAreTyped DEF Keys
      <4> HIDE DEF i, some, q, new
      <4> QED
        BY <1>1, <1>2, <1>3, <1>6, <3>1, <4>1, <4>2, NewEntryFits
    <3>3. r = Append(q, new)
      BY <1>2, <2>2 DEF Receive
    <3> HIDE DEF new, i
    <3>4. Sound(Append(q, new), {}, done, passed, now, em)
      BY <1>1, <1>3, <1>6, <3>1, <3>2, FireAppends
    <3> QED
      BY <1>1, <1>2, <1>5, <2>1, <3>3, <3>4
  <2>3. CASE k # 0
    <3> DEFINE new == [q[k] EXCEPT !.received = With(@, Key(i), some)]
    <3>1. k \in 1..Len(q) /\ q[k].node = x /\ q[k] \in Entry
      BY <1>3, <2>3, CollectOfIs, ElementOfSeq
    <3>2. EntryFits(q[k], done, fired, em)
      BY <1>3, <3>1 DEF Sound
    <3>3. new \in Entry /\ new.node = x /\ EntryFits(new, done, now, em)
      <4> DEFINE old == q[k]
      <4>1. /\ fired \subseteq Edge /\ i \in Edge /\ old \in Entry /\ EntryFits(old, done, fired, em)
            /\ old.node = To(i)
            /\ some \in BOOLEAN /\ (some <=> (Gives(i, em) /\ From(i) \in done))
        BY <1>1, <1>2, <1>3, <3>1, <3>2
      <4> HIDE DEF i, some, old
      <4>2. /\ [old EXCEPT !.received = With(@, Key(i), some)] \in Entry
            /\ [old EXCEPT !.received = With(@, Key(i), some)].node = To(i)
            /\ EntryFits([old EXCEPT !.received = With(@, Key(i), some)], done, fired \cup {i}, em)
        BY <4>1, OldEntryFits
      <4> QED
        BY <4>2 DEF old
    <3>4. r = [q EXCEPT ![k] = new]
      BY <1>2, <1>3, <2>3, <3>1 DEF Receive
    <3> HIDE DEF new, i, k
    <3>5. Sound([q EXCEPT ![k] = new], {}, done, passed, now, em)
      BY <1>1, <1>3, <1>6, <3>1, <3>3, FireUpdates
    <3> QED
      BY <1>1, <1>2, <1>5, <2>1, <3>4, <3>5
  <2> QED
    BY <2>2, <2>3
<1>7. CASE ~UsesCollect(x)
  <2>1. Incoming(x) = {i}
    <3>1. i \in Incoming(x)
      BY <1>1 DEF Incoming, Edge, To
    <3> QED
      BY <1>1, <1>7, <3>1, OneInput
  <2>2. CASE some \/ n \in workflow.continues
    <3> DEFINE new == Job(x, Key(i), some)
    <3>1. next = [queue |-> Append(q, new), agenda |-> rest]
      BY <1>2, <1>7, <2>2 DEF EnqueueEdge
    <3>2. ASSUME NEW l \in 1..Len(q) PROVE q[l].node # x
      <4>1. fired \cap Incoming(q[l].node) # {}
        BY <1>3 DEF Sound, EntryFits
      <4> QED
        BY <1>2, <2>1, <4>1
    <3>3. new \in Entry /\ new.node = x /\ EntryFits(new, done, now, em)
      <4>1. new.node = x /\ new.received = Only(Key(i), some) /\ new.collect = FALSE
        BY DEF Job
      <4>2. new \in Entry
        BY <1>1, <1>2, EntriesAreTyped DEF Keys
      <4> HIDE DEF i, some, q, new
      <4> QED
        BY <1>1, <1>2, <1>3, <1>7, <3>2, <4>1, <4>2, NewEntryFits
    <3>4. From(i) \in done /\ (Gives(i, em) \/ From(i) \in workflow.continues)
      BY <1>1, <1>3, <2>2
    <3> HIDE DEF new, i
    <3>5. Sound(Append(q, new), {}, done, passed, now, em)
      BY <1>1, <1>3, <3>2, <3>3, <3>4, FireAppends
    <3> QED
      BY <1>1, <1>2, <1>5, <3>1, <3>5
  <2>3. CASE ~some /\ n \notin workflow.continues
    <3> DEFINE more == passed \cup {x}
    <3>1. next = [queue |-> q, agenda |-> Outgoing(x) \o rest]
      BY <1>2, <1>7, <2>3 DEF EnqueueEdge
    <3>2. ~(From(i) \in done /\ (Gives(i, em) \/ From(i) \in workflow.continues))
      <4>1. From(i) \in done => From(i) = n
        BY <1>1 DEF WalkSound, MayFire, Open
      <4> QED
        BY <1>1, <2>3, <4>1
    <3>3. Sound(q, {}, done, more, now, em)
      BY <1>1, <1>3, <1>7, <3>2, FirePasses
    <3>4. /\ Open(done, more, now) = Leaving({x}) \cup (Open(done, passed, fired) \ {i})
          /\ Leaving({x}) \cap (Open(done, passed, fired) \ {i}) = {}
      <4>1. x \notin done \cup passed /\ fired \subseteq Leaving(done \cup passed)
        BY <1>1, <1>3 DEF MayFire, Sound
      <4> QED
        BY <1>2, <4>1 DEF Open, Leaving
    <3>5. Lists(Outgoing(x) \o rest, Open(done, more, now))
      <4>1. Lists(Outgoing(x), Leaving({x}))
        BY <1>1, OutgoingLists
      <4> DEFINE A == Leaving({x})  B == Open(done, passed, fired) \ {i}
      <4>2. Lists(Outgoing(x), A) /\ Lists(rest, B) /\ A \cap B = {}
        BY <1>1, <3>4, <4>1
      <4> HIDE DEF A, B, rest, i
      <4>3. Lists(Outgoing(x) \o rest, A \cup B)
        BY <4>2, ListsConcat
      <4> QED
        BY <3>4, <4>3 DEF A, B
    <3>6. \A j \in Open(done, more, now) : From(j) \in done \/ n \in workflow.continues => From(j) = n
      <4> SUFFICES ASSUME NEW j \in Leaving({x}), From(j) \in done PROVE FALSE
        BY <2>3, <3>4 DEF WalkSound
      <4> QED
        BY <1>1 DEF Leaving, MayFire
    <3>7. WalkSound(next, n, full, done, more, now, em)
      <4> HIDE DEF next, rest, i, q, more
      <4>1. next.queue = q /\ next.agenda = Outgoing(x) \o rest
        BY <3>1
      <4> QED
        BY <1>3, <3>3, <3>5, <3>6, <4>1 DEF WalkSound
    <3> QED
      BY <1>8, <3>7
  <2> QED
    BY <2>2, <2>3
<1> QED
  BY <1>6, <1>7

-----------------------------------------------------------------------------
(* The outputs of a node, and the skips. *)

\* Every edge fires at most once, so the walk is over after as many edges as there are.
LEMMA ApplyOutputsKeeps ==
  ASSUME workflow \in Workflows, NEW q \in Seq(Entry), NEW n \in Nodes, NEW full,
         NEW done, NEW passed, NEW fired, NEW em,
         Sound(q, {}, done, passed, fired, em), n \in done,
         Open(done, passed, fired) = Leaving({n}),
         \A i \in Leaving({n}) : Gives(i, em) <=> workflow.edges[i].out \in full
  PROVE  \E more : Sound(ApplyOutputs(q, n, full), {}, done, more, Leaving(done \cup more), em)
<1> DEFINE L == Len(workflow.edges)
           walk == Walk(q, n, full)
           Far(k, p, f) == /\ WalkSound(walk[k], n, full, done, p, f, em)
                           /\ walk[k].agenda = <<>> \/ Cardinality(f) >= k
           S == {k \in Nat : \E p, f : Far(k, p, f)}
<1>1. L \in Nat /\ IsFiniteSet(Edge) /\ Cardinality(Edge) = L
  BY EdgesAre
<1>2. /\ walk \in [Nat -> WalkState] /\ walk[0] = [queue |-> q, agenda |-> Outgoing(n)]
      /\ \A k \in Nat : walk[k + 1] = IF walk[k].agenda = <<>> THEN walk[k]
                                      ELSE EnqueueEdge(walk[k], n, full)
  BY WalkIs
<1> HIDE DEF walk
<1>3. 0 \in S
  <2>1. Lists(Outgoing(n), Open(done, passed, fired))
    BY OutgoingLists
  <2>2. walk[0].queue = q /\ walk[0].agenda = Outgoing(n) /\ walk[0] \in WalkState
    BY <1>2
  <2>3. \A i \in Open(done, passed, fired) : From(i) = n
    BY DEF Leaving
  <2>4. WalkSound(walk[0], n, full, done, passed, fired, em)
    BY <2>1, <2>2, <2>3 DEF WalkSound
  <2>5. Cardinality(fired) >= 0
    <3>1. fired \subseteq Edge
      BY DEF Sound, Leaving
    <3>2. Cardinality(fired) \in Nat
      BY <1>1, <3>1, FS_Subset, FS_CardinalityType
    <3> QED
      BY <3>2
  <2> QED
    BY <2>4, <2>5
<1>4. ASSUME NEW k \in Nat, k \in S PROVE k + 1 \in S
  <2>1. PICK p, f : Far(k, p, f)
    BY <1>4
  <2>2. CASE walk[k].agenda = <<>>
    <3>1. walk[k + 1] = walk[k]
      BY <1>2, <2>2
    <3>2. Far(k + 1, p, f)
      BY <2>1, <2>2, <3>1
    <3> QED
      BY <3>2
  <2>3. CASE walk[k].agenda # <<>>
    <3>1. walk[k + 1] = EnqueueEdge(walk[k], n, full)
      BY <1>2, <2>3
    <3>2. PICK m, i : /\ i \in Edge \ f
                      /\ WalkSound(walk[k + 1], n, full, done, m, f \cup {i}, em)
      <4> DEFINE w == walk[k]
      <4>1. WalkSound(w, n, full, done, p, f, em) /\ w.agenda # <<>>
        BY <2>1, <2>3
      <4> HIDE DEF w
      <4>2. \E m, i : /\ i \in Edge \ f
                      /\ WalkSound(EnqueueEdge(w, n, full), n, full, done, m, f \cup {i}, em)
        BY <4>1, EnqueueEdgeKeeps
      <4> QED
        BY <3>1, <4>2 DEF w
    <3>3. f \subseteq Edge
      BY <2>1 DEF WalkSound, Sound, Leaving
    <3>4. IsFiniteSet(f) /\ Cardinality(f) \in Nat
      BY <1>1, <3>3, FS_Subset, FS_CardinalityType
    <3>5. Cardinality(f \cup {i}) = Cardinality(f) + 1
      BY <3>2, <3>4, FS_AddElement
    <3>6. Cardinality(f) >= k
      BY <2>1, <2>3
    <3>7. Far(k + 1, m, f \cup {i})
      BY <3>2, <3>4, <3>5, <3>6
    <3> QED
      BY <3>7
  <2> QED
    BY <2>2, <2>3
<1>5. L \in S
  <2> HIDE DEF S, L
  <2> QED
    BY <1>1, <1>3, <1>4, Induction
<1>6. PICK p, f : Far(L, p, f)
  BY <1>5
<1>7. walk[L].agenda = <<>>
  <2> SUFFICES ASSUME walk[L].agenda # <<>> PROVE FALSE
    OBVIOUS
  <2>1. f \subseteq Edge
    BY <1>6 DEF WalkSound, Sound, Leaving
  <2>2. Cardinality(f) <= L /\ (Cardinality(Edge) = Cardinality(f) => Edge = f)
    BY <1>1, <2>1, FS_Subset
  <2>3. Cardinality(f) \in Nat /\ Cardinality(f) >= L
    BY <1>1, <1>6, <2>1, FS_Subset, FS_CardinalityType
  <2>4. f = Edge
    BY <1>1, <2>2, <2>3
  <2>5. Head(walk[L].agenda) \in Open(done, p, f)
    BY <1>6, ListsTail DEF WalkSound
  <2> QED
    BY <2>4, <2>5 DEF Open, Leaving
<1>8. Open(done, p, f) = {}
  <2>1. Lists(<<>>, Open(done, p, f))
    BY <1>6, <1>7 DEF WalkSound
  <2> QED
    BY <2>1 DEF Lists
<1>9. f = Leaving(done \cup p)
  BY <1>6, <1>8 DEF WalkSound, Sound, Open
<1>10. Sound(walk[L].queue, {}, done, p, Leaving(done \cup p), em)
  BY <1>6, <1>9 DEF WalkSound
<1>11. ApplyOutputs(q, n, full) = walk[L].queue
  BY DEF ApplyOutputs, walk
<1> QED
  BY <1>10, <1>11

\* What is said of the items of the fired edges is all that Sound says of the items.
LEMMA SoundSameItems ==
  ASSUME NEW q, NEW busy, NEW done, NEW passed, NEW fired, NEW em, NEW now,
         Sound(q, busy, done, passed, fired, em), \A i \in fired : Gives(i, now) <=> Gives(i, em)
  PROVE  Sound(q, busy, done, passed, fired, now)
<1>1. \A k \in 1..Len(q) : EntryFits(q[k], done, fired, now)
  BY DEF Sound, EntryFits
<1>2. PassedOver(done, passed, fired, now)
  BY DEF Sound, PassedOver
<1> QED
  BY <1>1, <1>2 DEF Sound

\* The node of an entry whose edges have all fired becomes busy.
LEMMA Taken ==
  ASSUME NEW q \in Seq(Entry), NEW done, NEW passed, NEW fired, NEW em, NEW k \in 1..Len(q),
         Sound(q, {}, done, passed, fired, em), Incoming(q[k].node) \subseteq fired
  PROVE  Sound(RemoveAt(q, k), {q[k].node}, done, passed, fired, em)
<1> DEFINE r == RemoveAt(q, k)  m == q[k].node  at(l) == IF l < k THEN l ELSE l + 1
<1>1. /\ r \in Seq(Entry) /\ Len(r) = Len(q) - 1 /\ Len(q) \in Nat
      /\ \A l \in 1..(Len(q) - 1) : r[l] = IF l < k THEN q[l] ELSE q[l + 1]
  BY Removed
<1> HIDE DEF r
<1>2. ASSUME NEW l \in 1..Len(r) PROVE r[l] = q[at(l)] /\ at(l) \in 1..Len(q) /\ at(l) # k
  BY <1>1
<1>3. ASSUME NEW l \in 1..Len(q), l # k PROVE \E j \in 1..Len(r) : at(j) = l
  <2>1. CASE l < k
    <3>1. l \in 1..Len(r) /\ at(l) = l
      BY <1>1, <2>1
    <3> QED
      BY <3>1
  <2>2. CASE l > k
    <3>1. l - 1 \in 1..Len(r) /\ at(l - 1) = l
      BY <1>1, <2>2
    <3> QED
      BY <3>1
  <2> QED
    BY <1>3, <2>1, <2>2
<1>4. \A l, j \in 1..Len(r) : at(l) = at(j) => l = j
  BY <1>1
<1> HIDE DEF at
<1>5. m \in Nodes
  <2>1. q[k] \in Entry
    BY ElementOfSeq
  <2> QED
    BY <2>1 DEF Entry
<1>6. m \notin done \cup passed
  BY DEF Sound, Apart
<1>7. Apart(r, {m}, done, passed)
  <2>1. ASSUME NEW l \in 1..Len(r) PROVE r[l].node \notin done \cup passed \cup {m}
    BY <1>2 DEF Sound, Apart
  <2>2. ASSUME NEW l \in 1..Len(r), NEW j \in 1..Len(r), r[l].node = r[j].node PROVE l = j
    <3>1. at(l) = at(j)
      BY <1>2, <2>2 DEF Sound, Apart
    <3> QED
      BY <1>4, <3>1
  <2> QED
    BY <1>6, <2>1, <2>2 DEF Sound, Apart
<1>8. \A l \in 1..Len(r) : EntryFits(r[l], done, fired, em)
  BY <1>2 DEF Sound
<1>9. Entered(r, {m}, done, passed, fired)
  <2>1. ASSUME NEW i \in fired
        PROVE  \/ To(i) \in done \cup passed \cup {m}
               \/ \E l \in 1..Len(r) : r[l].node = To(i)
    <3>1. CASE To(i) \in done \cup passed
      BY <3>1
    <3>2. CASE \E l \in 1..Len(q) : q[l].node = To(i)
      <4>1. PICK l \in 1..Len(q) : q[l].node = To(i)
        BY <3>2
      <4>2. CASE l = k
        BY <4>1, <4>2
      <4>3. CASE l # k
        BY <1>2, <1>3, <4>1, <4>3
      <4> QED
        BY <4>2, <4>3
    <3> QED
      BY <3>1, <3>2 DEF Sound, Entered
  <2> QED
    BY <2>1 DEF Sound, Entered
<1> QED
  BY <1>5, <1>7, <1>8, <1>9 DEF Sound, r

\* A busy node is done.
LEMMA BusyIsDone ==
  ASSUME NEW q, NEW done, NEW passed, NEW em, NEW m,
         Sound(q, {m}, done, passed, Leaving(done \cup passed), em)
  PROVE  Sound(q, {}, done \cup {m}, passed, Leaving(done \cup passed), em)
<1> DEFINE fired == Leaving(done \cup passed)  now == done \cup {m}
<1>1. m \notin done \cup passed
  BY DEF Sound, Apart
<1>2. \A i \in fired : From(i) # m /\ (From(i) \in now <=> From(i) \in done)
  BY <1>1 DEF Leaving
<1>3. \A k \in 1..Len(q) : EntryFits(q[k], now, fired, em)
  BY <1>2 DEF Sound, EntryFits
<1>4. PassedOver(now, passed, fired, em)
  BY <1>2 DEF Sound, PassedOver
<1>5. Apart(q, {}, now, passed) /\ Entered(q, {}, now, passed, fired)
  BY DEF Sound, Apart, Entered
<1>6. fired \subseteq Leaving(now \cup passed)
  BY DEF Leaving
<1> QED
  BY <1>3, <1>4, <1>5, <1>6 DEF Sound

\* No edge may fire, and no node is busy.
AtRest(q, done, passed, em) == Sound(q, {}, done, passed, Leaving(done \cup passed), em)

LEMMA SkipKeeps ==
  ASSUME workflow \in Workflows, NoPinnedJoin, NEW q \in Seq(Entry), NEW done, NEW passed, NEW em,
         AtRest(q, done, passed, em), PinnedAt(q) # 0
  PROVE  \E m, more : /\ m \in Pinned \ done /\ Incoming(m) # {}
                      /\ AtRest(Skip(q), done \cup {m}, more, em)
<1> DEFINE k == PinnedAt(q)  m == q[k].node  r == RemoveAt(q, k)
           fired == Leaving(done \cup passed)  now == done \cup {m}
<1>1. k \in 1..Len(q) /\ q[k] \in Entry /\ m \in Nodes /\ m \in Pinned /\ r \in Seq(Entry)
  <2>1. k \in 1..Len(q) /\ m \in Pinned
    BY PinnedAtIs DEF Pinned
  <2> HIDE DEF k
  <2>2. q[k] \in Entry /\ r \in Seq(Entry)
    BY <2>1, ElementOfSeq, Removed
  <2> QED
    BY <2>1, <2>2 DEF Entry
<1>2. Incoming(m) # {} /\ Incoming(m) \subseteq fired /\ m \notin done
  <2>1. fired \cap Incoming(m) # {}
    BY <1>1 DEF AtRest, Sound, EntryFits
  <2>2. \A i, j \in Incoming(m) : i = j
    BY <1>1, OneInput DEF NoPinnedJoin
  <2>3. m \notin done
    BY <1>1 DEF AtRest, Sound, Apart
  <2> QED
    BY <2>1, <2>2, <2>3
<1>3. Sound(r, {m}, done, passed, fired, em)
  <2> HIDE DEF k
  <2> QED
    BY <1>1, <1>2, Taken DEF AtRest
<1> HIDE DEF m, r, k
<1>4. Sound(r, {}, now, passed, fired, em) /\ Open(now, passed, fired) = Leaving({m})
  <2>1. Sound(r, {}, now, passed, fired, em)
    BY <1>3, BusyIsDone
  <2>2. m \notin done \cup passed
    BY <1>3 DEF Sound, Apart
  <2>3. Open(now, passed, fired) = Leaving({m})
    BY <2>2 DEF Open, Leaving
  <2> QED
    BY <2>1, <2>3
<1>5. \A i \in Leaving({m}) : Gives(i, em) <=> workflow.edges[i].out \in workflow.pinned[m]
  BY <1>1 DEF Gives, Leaving
<1> DEFINE full == workflow.pinned[m]
<1>6. PICK more : Sound(ApplyOutputs(r, m, full), {}, now, more, Leaving(now \cup more), em)
  <2> HIDE DEF full, fired
  <2>1. m \in now
    OBVIOUS
  <2>2. \A i \in Leaving({m}) : Gives(i, em) <=> workflow.edges[i].out \in full
    BY <1>5 DEF full
  <2> HIDE DEF now
  <2> QED
    BY <1>1, <1>4, <2>1, <2>2, ApplyOutputsKeeps
<1>7. Skip(q) = ApplyOutputs(r, m, full)
  BY DEF Skip, r, m, k
<1>8. AtRest(Skip(q), done \cup {m}, more, em)
  BY <1>6, <1>7 DEF AtRest
<1> QED
  BY <1>1, <1>2, <1>8

\* A set has as many subsets as elements, or more.
LEMMA ManySubsets ==
  ASSUME NEW S, IsFiniteSet(S)
  PROVE  Cardinality(S) <= Cardinality(SUBSET S)
<1> DEFINE f == [x \in S |-> {x}]
<1>1. f \in Injection(S, SUBSET S)
  BY DEF Injection, IsInjective
<1>2. IsFiniteSet(SUBSET S)
  BY FS_SUBSET
<1> HIDE DEF f
<1> QED
  BY <1>1, <1>2, FS_Injection

\* Every skip completes another node, and an entry's node has an inbound edge.
LEMMA SkipPinnedKeeps ==
  ASSUME workflow \in Workflows, NoPinnedJoin, NEW q \in Seq(Entry), NEW done, NEW passed, NEW em,
         AtRest(q, done, passed, em)
  PROVE  \E d, p : /\ AtRest(SkipPinned(q), d, p, em)
                   /\ done \subseteq d /\ d \ done \subseteq Pinned
                   /\ PinnedAt(SkipPinned(q)) = 0
<1> DEFINE skips == Skips(q)
           Into(d) == {i \in Edge : To(i) \in d}
           Far(k, d, p) == /\ AtRest(skips[k], d, p, em) /\ done \subseteq d /\ d \ done \subseteq Pinned
                           /\ PinnedAt(skips[k]) = 0 \/ Cardinality(Into(d)) >= k
           S == {k \in Nat : \E d, p : Far(k, d, p)}
<1>1. IsFiniteSet(Edge)
  BY EdgesAre
<1>2. ASSUME NEW d PROVE IsFiniteSet(Into(d)) /\ Cardinality(Into(d)) \in Nat
  <2>1. Into(d) \subseteq Edge
    OBVIOUS
  <2> HIDE DEF Into
  <2> QED
    BY <1>1, <2>1, FS_Subset, FS_CardinalityType
<1>3. skips \in [Nat -> Seq(Entry)] /\ skips[0] = q /\ \A k \in Nat : skips[k + 1] = Skip(skips[k])
  BY SkipsAre
<1> HIDE DEF skips
<1>4. 0 \in S
  <2>1. Far(0, done, passed)
    <3> HIDE DEF Into
    <3> QED
      BY <1>2, <1>3
  <2> QED
    BY <2>1
<1>5. ASSUME NEW k \in Nat, k \in S PROVE k + 1 \in S
  <2>1. PICK d, p : Far(k, d, p)
    BY <1>5
  <2>2. skips[k] \in Seq(Entry) /\ k + 1 \in Nat
    BY <1>3
  <2>3. CASE PinnedAt(skips[k]) = 0
    <3>1. skips[k + 1] = skips[k]
      BY <1>3, <2>3 DEF Skip
    <3>2. Far(k + 1, d, p)
      BY <2>1, <2>3, <3>1
    <3> QED
      BY <2>2, <3>2
  <2>4. CASE PinnedAt(skips[k]) # 0
    <3> DEFINE r == skips[k]
    <3>1. AtRest(r, d, p, em) /\ PinnedAt(r) # 0 /\ r \in Seq(Entry)
      BY <2>1, <2>2, <2>4
    <3>2. PICK m, more : /\ m \in Pinned \ d /\ Incoming(m) # {}
                         /\ AtRest(Skip(r), d \cup {m}, more, em)
      <4> HIDE DEF r
      <4> QED
        BY <3>1, SkipKeeps
    <3> DEFINE now == d \cup {m}
    <3>3. PICK j \in Edge : To(j) = m
      BY <3>2 DEF Incoming, Edge, To
    <3>4. Cardinality(Into(now)) >= k + 1
      <4>1. Into(d) \cup {j} \subseteq Into(now) /\ j \notin Into(d)
        BY <3>2, <3>3
      <4>2. Cardinality(Into(d)) >= k
        BY <2>1, <2>4
      <4> HIDE DEF Into, now
      <4>3. Cardinality(Into(d) \cup {j}) = Cardinality(Into(d)) + 1
        BY <1>2, <4>1, FS_AddElement
      <4>4. Cardinality(Into(d) \cup {j}) <= Cardinality(Into(now))
        BY <1>2, <4>1, FS_Subset
      <4> QED
        BY <1>2, <4>2, <4>3, <4>4
    <3>5. AtRest(skips[k + 1], now, more, em)
      BY <1>3, <3>2
    <3>6. done \subseteq now /\ now \ done \subseteq Pinned
      BY <2>1, <3>2
    <3>7. Far(k + 1, now, more)
      <4> HIDE DEF Into, now
      <4> QED
        BY <3>4, <3>5, <3>6
    <3> QED
      BY <2>2, <3>7
  <2> QED
    BY <2>3, <2>4
<1>6. Nat \subseteq S
  <2> HIDE DEF S
  <2> QED
    BY <1>4, <1>5, Induction
<1>7. PICK c \in Nat : SkipPinned(q) = skips[c] /\ (PinnedAt(skips[c]) = 0 \/ c = MostSkips(q))
  BY SkipPinnedIs DEF skips
<1>8. PICK d, p : Far(c, d, p)
  BY <1>6
<1>9. PinnedAt(skips[c]) = 0
  <2> SUFFICES ASSUME PinnedAt(skips[c]) # 0 PROVE FALSE
    OBVIOUS
  <2> DEFINE r == skips[c]  k == PinnedAt(r)  m == r[k].node
  <2>1. r \in Seq(Entry) /\ PinnedAt(r) # 0
    BY <1>3
  <2>2. k \in 1..Len(r)
    <3> HIDE DEF r
    <3> QED
      BY <2>1, PinnedAtIs
  <2>3. Len(q) >= 1
    <3> SUFFICES ASSUME Len(q) = 0 PROVE FALSE
      BY LenProperties
    <3>1. c = 0
      <4>1. Cardinality(SUBSET DOMAIN workflow.edges) \in Nat
        BY <1>1, FS_SUBSET, FS_CardinalityType DEF Edge
      <4> QED
        BY <1>7, <4>1 DEF MostSkips
    <3> QED
      BY <1>3, <2>2, <3>1
  <2>4. c >= Cardinality(Edge)
    <3> DEFINE many == Cardinality(SUBSET DOMAIN workflow.edges)
    <3>1. many \in Nat /\ Cardinality(Edge) <= many /\ Cardinality(Edge) \in Nat /\ Len(q) \in Nat
      BY <1>1, FS_SUBSET, FS_CardinalityType, ManySubsets, LenProperties DEF Edge
    <3>2. c = Len(q) * many
      BY <1>7 DEF MostSkips
    <3> HIDE DEF many
    <3>3. \A a, b \in Nat : a >= 1 => a * b >= b
      OBVIOUS
    <3> QED
      BY <2>3, <3>1, <3>2, <3>3
  <2>5. Into(d) = Edge
    <3>1. Into(d) \subseteq Edge /\ Cardinality(Into(d)) >= c
      BY <1>8
    <3> HIDE DEF Into
    <3>2. Cardinality(Into(d)) <= Cardinality(Edge) /\ (Cardinality(Edge) = Cardinality(Into(d)) => Edge = Into(d))
      BY <1>1, <3>1, FS_Subset
    <3>3. Cardinality(Edge) \in Nat
      BY <1>1, FS_CardinalityType
    <3> QED
      BY <1>2, <2>4, <3>1, <3>2, <3>3
  <2> HIDE DEF k, r
  <2>6. Incoming(m) # {} /\ m \notin d
    BY <1>8, <2>2 DEF AtRest, Sound, Apart, EntryFits, r
  <2>7. PICK j \in Edge : To(j) = m
    BY <2>6 DEF Incoming, Edge, To
  <2> QED
    BY <2>5, <2>6, <2>7
<1> QED
  BY <1>7, <1>8, <1>9

-----------------------------------------------------------------------------
(* Recursion along the edges. *)

LEMMA AncestorsAre ==
  ASSUME workflow \in Workflows, NEW n \in Nodes
  PROVE  Ancestors[n] = UNION {{From(i)} \cup Ancestors[From(i)] : i \in Incoming(n)}
<1> DEFINE Behind(g, m) == UNION {{From(i)} \cup g[From(i)] : i \in Incoming(m)}
           Closed == {R \in SUBSET (Nodes \X Nodes) :
                        \A m \in Nodes : \A i \in Incoming(m) :
                          /\ <<m, From(i)>> \in R
                          /\ \A x \in Nodes : <<From(i), x>> \in R => <<m, x>> \in R}
           g == [m \in Nodes |-> {x \in Nodes : \A R \in Closed : <<m, x>> \in R}]
           Is(h) == h = [m \in Nodes |->
                      UNION {{workflow.edges[i].from} \cup h[workflow.edges[i].from] : i \in Incoming(m)}]
<1>1. \A m \in Nodes : \A i \in Incoming(m) : From(i) \in Nodes
  BY EdgesAre DEF Incoming, Edge
<1>2. ASSUME NEW m \in Nodes PROVE Behind(g, m) \subseteq g[m]
  <2> SUFFICES ASSUME NEW i \in Incoming(m), NEW x \in {From(i)} \cup g[From(i)] PROVE x \in g[m]
    <3> HIDE DEF g
    <3> QED
      OBVIOUS
  <2>1. x \in Nodes
    BY <1>1
  <2>2. ASSUME NEW R \in Closed PROVE <<m, x>> \in R
    <3>1. x = From(i) \/ <<From(i), x>> \in R
      BY <1>1
    <3> QED
      BY <2>1, <3>1
  <2> QED
    BY <2>1, <2>2
<1>3. ASSUME NEW m \in Nodes PROVE g[m] \subseteq Behind(g, m)
  <2> DEFINE R == {p \in Nodes \X Nodes : p[2] \in Behind(g, p[1])}
  <2>1. ASSUME NEW k \in Nodes, NEW x \in Nodes PROVE <<k, x>> \in R <=> x \in Behind(g, k)
    OBVIOUS
  <2>2. R \in Closed
    <3> SUFFICES ASSUME NEW k \in Nodes, NEW i \in Incoming(k)
                 PROVE  /\ <<k, From(i)>> \in R
                        /\ \A x \in Nodes : <<From(i), x>> \in R => <<k, x>> \in R
      <4>1. R \in SUBSET (Nodes \X Nodes)
        <5> HIDE DEF Behind
        <5> QED
          OBVIOUS
      <4> HIDE DEF R
      <4> QED
        BY <4>1
    <3>1. From(i) \in Nodes
      BY <1>1
    <3>2. From(i) \in Behind(g, k) /\ g[From(i)] \subseteq Behind(g, k)
      <4> HIDE DEF g
      <4> QED
        OBVIOUS
    <3>3. Behind(g, From(i)) \subseteq g[From(i)]
      BY <1>2, <3>1
    <3> HIDE DEF R, Behind, g
    <3> QED
      BY <2>1, <3>1, <3>2, <3>3
  <2>3. ASSUME NEW x \in g[m] PROVE x \in Behind(g, m)
    <3>1. x \in Nodes /\ <<m, x>> \in R
      BY <2>2
    <3> HIDE DEF R, Behind
    <3> QED
      BY <2>1, <3>1
  <2> QED
    BY <2>3
<1>4. Is(g)
  <2>1. \A m \in Nodes : g[m] = Behind(g, m)
    BY <1>2, <1>3
  <2>2. g = [m \in Nodes |-> g[m]]
    OBVIOUS
  <2> HIDE DEF g
  <2> QED
    BY <2>1, <2>2 DEF From
<1>5. Ancestors = CHOOSE h : Is(h)
  BY DEF Ancestors
<1> HIDE DEF Is
<1>6. Is(Ancestors)
  BY <1>4, <1>5
<1> QED
  BY <1>6 DEF Is, From

LEMMA CompletesAre ==
  ASSUME workflow \in Workflows, NEW n \in Nodes
  PROVE  Completes[n] <=>
           \/ n = Root
           \/ UsesCollect(n) /\ Root \in Ancestors[n]
           \/ /\ ~UsesCollect(n)
              /\ \E i \in Incoming(n) : /\ Completes[From(i)]
                                        /\ Gives(i, emitted) \/ From(i) \in workflow.continues
<1> DEFINE Start(m) == m = Root \/ (UsesCollect(m) /\ Root \in Ancestors[m])
           Open1(i) == Carries(workflow.edges[i]) \/ From(i) \in workflow.continues
           Led(D, m) == Start(m) \/ (~UsesCollect(m) /\ \E i \in Incoming(m) : From(i) \in D /\ Open1(i))
           Closed == {D \in SUBSET Nodes : \A m \in Nodes : Led(D, m) => m \in D}
           C == {m \in Nodes : \A D \in Closed : m \in D}
           g == [m \in Nodes |-> m \in C]
           Body(h, m) == \/ m = Root
                         \/ UsesCollect(m) /\ Root \in Ancestors[m]
                         \/ /\ ~UsesCollect(m)
                            /\ \E i \in Incoming(m) :
                                 LET e == workflow.edges[i]
                                 IN  h[e.from] /\ (Carries(e) \/ e.from \in workflow.continues)
           Is(h) == h = [m \in Nodes |-> Body(h, m)]
<1>1. \A m \in Nodes : \A i \in Incoming(m) : From(i) \in Nodes
  BY EdgesAre DEF Incoming, Edge
<1> HIDE DEF Start, Open1
<1>2. ASSUME NEW m \in Nodes, Led(C, m) PROVE m \in C
  <2> SUFFICES ASSUME NEW D \in Closed PROVE m \in D
    OBVIOUS
  <2>1. C \subseteq D
    OBVIOUS
  <2>2. Led(D, m)
    <3> HIDE DEF C, Closed
    <3> QED
      BY <1>2, <2>1
  <2> QED
    BY <2>2
<1>3. ASSUME NEW m \in C PROVE Led(C, m)
  <2> DEFINE D == {k \in Nodes : Led(C, k)}
  <2>1. D \subseteq C
    BY <1>2
  <2>2. \A k \in Nodes : Led(D, k) => Led(C, k)
    <3> HIDE DEF C, D
    <3> QED
      BY <2>1
  <2>3. D \in Closed
    BY <2>2
  <2> QED
    BY <2>3
<1>4. \A m \in Nodes : m \in C <=> Led(C, m)
  BY <1>2, <1>3
<1>5. Is(g)
  <2>1. \A m \in Nodes : g[m] <=> m \in C
    OBVIOUS
  <2> HIDE DEF C
  <2>2. ASSUME NEW m \in Nodes PROVE m \in C <=> Body(g, m)
    BY <1>1, <1>4, <2>1 DEF Start, Open1, From
  <2>5. \A h, m : Body(h, m) \in BOOLEAN
    OBVIOUS
  <2> HIDE DEF Body
  <2>3. ASSUME NEW h, \A m \in Nodes : m \in C <=> Body(h, m)
        PROVE  [m \in Nodes |-> m \in C] = [m \in Nodes |-> Body(h, m)]
    <3>1. \A m \in Nodes : (m \in C) = Body(h, m)
      BY <2>3, <2>5
    <3> QED
      BY <3>1
  <2>4. g = [m \in Nodes |-> m \in C]
    OBVIOUS
  <2> HIDE DEF g
  <2> QED
    BY <2>2, <2>3, <2>4
<1>6. Completes = CHOOSE h : Is(h)
  BY DEF Completes
<1> HIDE DEF Is
<1>7. Is(Completes)
  BY <1>5, <1>6
<1>8. \A i : Gives(i, emitted) <=> Carries(workflow.edges[i])
  BY DEF Gives, Carries, From, Pinned
<1> QED
  BY <1>7, <1>8 DEF Is, From

-----------------------------------------------------------------------------
(* A graph without cycles whose only source is the trigger. *)

LEMMA FirstNode ==
  ASSUME workflow \in Workflows, NEW S \in SUBSET Nodes, S # {}
  PROVE  \E n \in S : \A i \in Incoming(n) : From(i) \notin S
<1>1. PICK n \in S : \A i \in DOMAIN workflow.edges : workflow.edges[i].to = n => workflow.edges[i].from \notin S
  BY AcyclicAssumption
<1> QED
  BY <1>1 DEF Incoming, From

LEMMA RootBehindAll ==
  ASSUME workflow \in Workflows, OnlySource, NEW n \in Nodes, n # Root
  PROVE  Root \in Ancestors[n]
<1> DEFINE S == {m \in Nodes \ {Root} : Root \notin Ancestors[m]}
<1> SUFFICES ASSUME S # {} PROVE FALSE
  OBVIOUS
<1>1. PICK m \in S : \A i \in Incoming(m) : From(i) \notin S
  <2>1. S \in SUBSET Nodes
    OBVIOUS
  <2> HIDE DEF S
  <2> QED
    BY <2>1, FirstNode
<1>2. PICK i : i \in Incoming(m)
  BY <1>1 DEF OnlySource
<1>3. From(i) \in Nodes
  BY <1>2, EdgesAre DEF Incoming, Edge
<1>4. From(i) = Root \/ Root \in Ancestors[From(i)]
  BY <1>1, <1>2, <1>3
<1>5. Root \in Ancestors[m]
  BY <1>1, <1>2, <1>4, AncestorsAre
<1> QED
  BY <1>1, <1>5

\* What lies behind a done, passed or busy node is done or passed.
LEMMA BehindIsSettled ==
  ASSUME workflow \in Workflows, NEW q, NEW busy, NEW done, NEW passed, NEW em,
         Sound(q, busy, done, passed, Leaving(done \cup passed), em),
         NEW n \in done \cup passed \cup busy
  PROVE  Ancestors[n] \subseteq done \cup passed
<1> DEFINE S == {m \in done \cup passed \cup busy : ~(Ancestors[m] \subseteq done \cup passed)}
<1> SUFFICES ASSUME S # {} PROVE FALSE
  OBVIOUS
<1>1. S \in SUBSET Nodes
  BY DEF Sound
<1>2. PICK m \in S : \A i \in Incoming(m) : From(i) \notin S
  <2> HIDE DEF S
  <2> QED
    BY <1>1, FirstNode
<1>3. ASSUME NEW i \in Incoming(m) PROVE From(i) \in done \cup passed /\ Ancestors[From(i)] \subseteq done \cup passed
  <2>1. From(i) \in done \cup passed
    BY <1>2, <1>3 DEF Sound, Entered, Leaving
  <2> QED
    BY <1>2, <2>1
<1>4. m \in Nodes /\ Ancestors[m] = UNION {{From(i)} \cup Ancestors[From(i)] : i \in Incoming(m)}
  BY <1>1, <1>2, AncestorsAre
<1>5. Ancestors[m] \subseteq done \cup passed
  BY <1>3, <1>4
<1> QED
  BY <1>2, <1>5

\* A node that is done or passed is done when the graph and the items ask for it.
LEMMA SettledRight ==
  ASSUME workflow \in Workflows, OnlySource, NEW q, NEW busy, NEW done, NEW passed,
         Sound(q, busy, done, passed, Leaving(done \cup passed), emitted),
         NEW n \in done \cup passed
  PROVE  n \in done <=> Completes[n]
<1> DEFINE S == {m \in done \cup passed : ~(m \in done <=> Completes[m])}
           Led(i) == Gives(i, emitted) \/ From(i) \in workflow.continues
<1> SUFFICES ASSUME S # {} PROVE FALSE
  OBVIOUS
<1>1. S \in SUBSET Nodes
  BY DEF Sound
<1>2. PICK m \in S : \A i \in Incoming(m) : From(i) \notin S
  <2> HIDE DEF S
  <2> QED
    BY <1>1, FirstNode
<1>3. m \in Nodes /\ m \in done \cup passed
  BY <1>1, <1>2
<1>4. Completes[m] <=> \/ m = Root
                       \/ UsesCollect(m) /\ Root \in Ancestors[m]
                       \/ ~UsesCollect(m) /\ \E i \in Incoming(m) : Completes[From(i)] /\ Led(i)
  BY <1>3, CompletesAre
<1>5. CASE UsesCollect(m)
  <2>1. m \in done
    BY <1>3, <1>5 DEF Sound, PassedOver
  <2>2. Completes[m]
    BY <1>3, <1>4, <1>5, RootBehindAll
  <2> QED
    BY <1>2, <2>1, <2>2
<1>6. CASE ~UsesCollect(m)
  <2>1. PICK i : Incoming(m) = {i}
    BY <1>3, <1>6, OneInput
  <2>2. m # Root
    BY <1>3, <2>1 DEF OnlySource
  <2>3. From(i) \in done \cup passed /\ i \in Leaving(done \cup passed) /\ To(i) = m
    BY <1>3, <2>1 DEF Sound, Entered, Leaving, Incoming, To
  <2>4. From(i) \in done <=> Completes[From(i)]
    BY <1>2, <2>1, <2>3
  <2>5. m \in passed <=> ~(From(i) \in done /\ Led(i))
    BY <1>6, <2>3 DEF Sound, PassedOver
  <2>6. m \in done <=> m \notin passed
    BY <1>3 DEF Sound, Apart
  <2> HIDE DEF Led
  <2>7. Completes[m] <=> Completes[From(i)] /\ Led(i)
    BY <1>4, <1>6, <2>1, <2>2
  <2>8. m \in done <=> Completes[m]
    BY <2>4, <2>5, <2>6, <2>7
  <2> QED
    BY <1>2, <2>8
<1> QED
  BY <1>5, <1>6

\* Unless every node is done or passed, some entry has all its inputs.
LEMMA NeverStuck ==
  ASSUME workflow \in Workflows, OnlySource, NEW q, NEW done, NEW passed, NEW em,
         AtRest(q, done, passed, em), Nodes \ (done \cup passed) # {}
  PROVE  \E k \in 1..Len(q) : Incoming(q[k].node) \subseteq Leaving(done \cup passed)
<1> DEFINE S == Nodes \ (done \cup passed)
<1>1. PICK n \in S : \A i \in Incoming(n) : From(i) \notin S
  <2>1. S \in SUBSET Nodes /\ S # {}
    OBVIOUS
  <2> HIDE DEF S
  <2> QED
    BY <2>1, FirstNode
<1>2. n # Root
  BY <1>1 DEF AtRest, Sound
<1>3. Incoming(n) \subseteq Leaving(done \cup passed)
  <2> SUFFICES ASSUME NEW i \in Incoming(n) PROVE i \in Leaving(done \cup passed)
    OBVIOUS
  <2>1. i \in Edge /\ From(i) \in Nodes
    BY EdgesAre DEF Incoming, Edge
  <2> QED
    BY <1>1, <2>1 DEF Leaving
<1>4. PICK i : i \in Incoming(n)
  BY <1>1, <1>2 DEF OnlySource
<1>5. i \in Leaving(done \cup passed) /\ To(i) = n
  BY <1>3, <1>4 DEF Incoming, To
<1>6. PICK k \in 1..Len(q) : q[k].node = n
  BY <1>1, <1>5 DEF AtRest, Sound, Entered
<1> QED
  BY <1>3, <1>6

\* The queue is never sealed while an input is on its way: the entry that is taken has them all.
LEMMA NextHasAll ==
  ASSUME workflow \in Workflows, OnlySource, NEW q \in Seq(Entry), NEW done, NEW passed, NEW em,
         AtRest(q, done, passed, em), NextIndex(q) # 0
  PROVE  Incoming(q[NextIndex(q)].node) \subseteq Leaving(done \cup passed)
<1> DEFINE fired == Leaving(done \cup passed)
<1>1. ASSUME NEW k \in 1..Len(q), ~q[k].collect PROVE Incoming(q[k].node) \subseteq fired
  <2>1. q[k].node \in Nodes
    <3>1. q[k] \in Entry
      BY ElementOfSeq
    <3> QED
      BY <3>1 DEF Entry
  <2>2. ~UsesCollect(q[k].node) /\ fired \cap Incoming(q[k].node) # {}
    BY <1>1 DEF AtRest, Sound, EntryFits
  <2>3. \A i, j \in Incoming(q[k].node) : i = j
    BY <2>1, <2>2, OneInput
  <2> QED
    BY <2>2, <2>3
<1>2. ASSUME NEW k \in 1..Len(q), q[k].collect
      PROVE  q[k].expected \subseteq DOMAIN q[k].received <=> Incoming(q[k].node) \subseteq fired
  <2> DEFINE m == q[k].node
  <2>1. /\ q[k].expected = ExpectedInputs(m)
        /\ DOMAIN q[k].received = {Key(i) : i \in fired \cap Incoming(m)}
    BY <1>2 DEF AtRest, Sound, EntryFits
  <2>2. ExpectedInputs(m) = {Key(i) : i \in Incoming(m)}
    BY DEF ExpectedInputs, Key
  <2>3. ASSUME q[k].expected \subseteq DOMAIN q[k].received, NEW j \in Incoming(m) PROVE j \in fired
    <3>1. PICK i \in fired \cap Incoming(m) : Key(i) = Key(j)
      <4>1. Key(j) \in DOMAIN q[k].received
        BY <2>1, <2>2, <2>3
      <4> HIDE DEF fired, m
      <4> QED
        BY <2>1, <4>1
    <3>2. i \in Edge /\ j \in Edge /\ To(i) = To(j)
      BY <2>3, <3>1 DEF Incoming, Edge, To
    <3>3. i = j \/ From(i) = From(j)
      BY <3>1, <3>2, KeyTellsSource
    <3> QED
      BY <3>1, <3>2, <3>3 DEF Leaving
  <2>4. ASSUME Incoming(m) \subseteq fired PROVE q[k].expected \subseteq DOMAIN q[k].received
    <3>1. fired \cap Incoming(m) = Incoming(m)
      BY <2>4
    <3> QED
      BY <2>1, <2>2, <3>1
  <2> QED
    BY <2>3, <2>4
<1> DEFINE next == NextIndex(q)
<1>3. /\ next \in 1..Len(q)
      /\ \/ q[next].collect /\ q[next].expected \subseteq DOMAIN q[next].received
         \/ ~q[next].collect
         \/ \A l \in 1..Len(q) : q[l].collect /\ ~(q[l].expected \subseteq DOMAIN q[l].received)
  BY NextIndexIs
<1>8. \A l \in 1..Len(q) : ~q[l].collect => Incoming(q[l].node) \subseteq fired
  BY <1>1
<1>9. \A l \in 1..Len(q) : q[l].collect =>
        (q[l].expected \subseteq DOMAIN q[l].received <=> Incoming(q[l].node) \subseteq fired)
  BY <1>2
<1> SUFFICES Incoming(q[next].node) \subseteq fired
  OBVIOUS
<1> HIDE DEF next, fired
<1>4. CASE \A l \in 1..Len(q) : q[l].collect /\ ~(q[l].expected \subseteq DOMAIN q[l].received)
  <2>1. q[next].node \in Nodes \ (done \cup passed)
    <3>1. q[next] \in Entry
      BY <1>3, ElementOfSeq
    <3> QED
      BY <1>3, <3>1 DEF Entry, AtRest, Sound, Apart
  <2>2. PICK l \in 1..Len(q) : Incoming(q[l].node) \subseteq fired
    BY <2>1, NeverStuck DEF fired
  <2> QED
    BY <1>2, <1>4, <2>2
<1>5. CASE q[next].collect /\ q[next].expected \subseteq DOMAIN q[next].received
  BY <1>9, <1>3, <1>5
<1>6. CASE ~q[next].collect
  BY <1>8, <1>3, <1>6
<1> QED
  BY <1>3, <1>4, <1>5, <1>6
-----------------------------------------------------------------------------
(* A planning step. *)

\* What a step leaves: the node that was busy is done, with pinned nodes behind it, and the
\* node that is activated now is neither done nor passed.
Planned(done, d, p) ==
  /\ d \in SUBSET Nodes /\ p \in SUBSET Nodes
  /\ Sound(queue', Busy', d, p, Leaving(d \cup p), emitted')
  /\ done \cup Busy \subseteq d /\ d \ (done \cup Busy) \subseteq Pinned
  /\ \A a \in pending' : a.inputs = {Key(i) : i \in {j \in Incoming(a.node) :
                                                       Gives(j, emitted') /\ From(j) \in d}}
  /\ \A m \in Nodes : ran'[m] = IF m \in Busy' THEN ran[m] + 1 ELSE ran[m]
  /\ Busy' \cap Pinned = {}
  /\ \A pair \in emitted' : pair[1] \in d
  /\ pending' = {} => queue' = <<>>

LEMMA StepKeeps ==
  ASSUME Typed, Regular, NEW done, NEW passed, Accounts(done, passed),
         NEW full \in SUBSET {"main", "alt"}, Complete(full)
  PROVE  \E d, p : Planned(done, d, p)
<1> DEFINE PlannedAt(n) == SkipPinned(ApplyOutputs(queue, n, full))
<1>1. workflow \in Workflows /\ queue \in Seq(Entry) /\ OnlySource /\ NoPinnedJoin
  BY DEF Typed, Regular
<1>2. PICK activation \in pending :
        LET n == activation.node
            q == PlannedAt(n)
            i == NextIndex(q)
        IN  /\ emitted' = emitted \cup ({n} \X full)
            /\ IF i = 0
               THEN pending' = {} /\ queue' = <<>> /\ UNCHANGED ran
               ELSE /\ pending' = {Activation(q[i].node, q[i].received)}
                    /\ queue' = Stored(RemoveAt(q, i))
                    /\ ran' = [ran EXCEPT ![q[i].node] = @ + 1]
  BY DEF Complete
<1> DEFINE n == activation.node
           q == PlannedAt(n)
           i == NextIndex(q)
           fired == Leaving(done \cup passed)
<1>3. n \in Nodes /\ Busy = {n}
  BY <1>2 DEF Typed, Busy
<1>4. Sound(queue, {n}, done, passed, fired, emitted) /\ n \notin Pinned
      /\ (\A pair \in emitted : pair[1] \in done)
  BY <1>3 DEF Accounts
<1>5. n \notin done /\ n \notin passed
  BY <1>4 DEF Sound, Apart
<1>6. emitted' = emitted \cup ({n} \X full)
  BY <1>2
<1>7. /\ pending' = {} /\ queue' = <<>> /\ UNCHANGED ran /\ i = 0
      \/ /\ pending' = {Activation(q[i].node, q[i].received)}
         /\ queue' = Stored(RemoveAt(q, i))
         /\ ran' = [ran EXCEPT ![q[i].node] = @ + 1]
         /\ i # 0
  BY <1>2
<1> HIDE DEF n, PlannedAt
<1>8. \A j : From(j) # n => (Gives(j, emitted') <=> Gives(j, emitted))
  BY <1>6 DEF Gives
<1>9. \A j \in Leaving({n}) : Gives(j, emitted') <=> workflow.edges[j].out \in full
  <2> TAKE j \in Leaving({n})
  <2> DEFINE o == workflow.edges[j].out
  <2>1. From(j) = n
    BY DEF Leaving
  <2>2. <<n, o>> \notin emitted
    <3>1. <<n, o>>[1] = n
      OBVIOUS
    <3> QED
      BY <1>4, <1>5, <3>1
  <2> QED
    BY <1>4, <1>6, <2>1, <2>2 DEF Gives
<1>10. Sound(queue, {n}, done, passed, fired, emitted')
  <2>1. \A j \in fired : Gives(j, emitted') <=> Gives(j, emitted)
    BY <1>5, <1>8 DEF Leaving
  <2> QED
    BY <1>4, <2>1, SoundSameItems
<1>11. Sound(queue, {}, done \cup {n}, passed, fired, emitted')
  BY <1>10, BusyIsDone
<1>12. Open(done \cup {n}, passed, fired) = Leaving({n})
  BY <1>5 DEF Open, Leaving
<1>13. PICK more : AtRest(ApplyOutputs(queue, n, full), done \cup {n}, more, emitted')
  <2>1. n \in done \cup {n}
    OBVIOUS
  <2> HIDE DEF fired
  <2>2. \E r : Sound(ApplyOutputs(queue, n, full), {}, done \cup {n}, r,
                     Leaving((done \cup {n}) \cup r), emitted')
    BY <1>1, <1>3, <1>9, <1>11, <1>12, <2>1, ApplyOutputsKeeps
  <2> QED
    BY <2>2 DEF AtRest
<1>14. ApplyOutputs(queue, n, full) \in Seq(Entry)
  BY <1>1, <1>3, ApplyOutputsTyped
<1>15. PICK d, p : /\ AtRest(q, d, p, emitted') /\ PinnedAt(q) = 0
                   /\ done \cup {n} \subseteq d /\ d \ (done \cup {n}) \subseteq Pinned
  BY <1>1, <1>13, <1>14, SkipPinnedKeeps DEF PlannedAt
<1>16. q \in Seq(Entry)
  BY <1>1, <1>14, SkipPinnedTyped DEF PlannedAt
<1> HIDE DEF q
<1>17. d \in SUBSET Nodes /\ p \in SUBSET Nodes
  BY <1>15 DEF AtRest, Sound
<1>18. \A pair \in emitted' : pair[1] \in d
  BY <1>4, <1>6, <1>15
<1>19. CASE i = 0
  <2>1. q = <<>> /\ pending' = {} /\ queue' = <<>> /\ ran' = ran
    BY <1>7, <1>16, <1>19, NextIndexIs
  <2>2. Busy' = {}
    BY <2>1 DEF Busy
  <2>3. Sound(queue', Busy', d, p, Leaving(d \cup p), emitted')
    BY <1>15, <2>1, <2>2 DEF AtRest
  <2> QED
    BY <1>3, <1>15, <1>17, <1>18, <2>1, <2>2, <2>3 DEF Planned
<1>20. CASE i # 0
  <2> DEFINE m == q[i].node
  <2>1. /\ pending' = {Activation(m, q[i].received)}
        /\ queue' = Stored(RemoveAt(q, i))
        /\ ran' = [ran EXCEPT ![m] = @ + 1]
    BY <1>7, <1>20
  <2>2. i \in 1..Len(q) /\ q[i] \in Entry
    BY <1>16, <1>20, NextIndexIs, ElementOfSeq
  <2>3. queue' = RemoveAt(q, i)
    BY <2>1 DEF Stored, Regular
  <2>4. Incoming(m) \subseteq Leaving(d \cup p)
    BY <1>1, <1>15, <1>16, <1>20, NextHasAll
  <2> HIDE DEF i
  <2>5. m \in Nodes
    BY <2>2 DEF Entry
  <2>6. Busy' = {m}
    <3>1. Activation(m, q[i].received).node = m
      BY DEF Activation
    <3> QED
      BY <2>1, <3>1 DEF Busy
  <2>7. Sound(queue', Busy', d, p, Leaving(d \cup p), emitted')
    <3>1. Sound(RemoveAt(q, i), {m}, d, p, Leaving(d \cup p), emitted')
      BY <1>15, <1>16, <2>2, <2>4, Taken DEF AtRest
    <3> QED
      BY <2>3, <2>6, <3>1
  <2>8. Busy' \cap Pinned = {}
    BY <1>15, <1>16, <2>2, <2>6, PinnedAtIs DEF Pinned
  <2>9. \A k \in Nodes : ran'[k] = IF k \in Busy' THEN ran[k] + 1 ELSE ran[k]
    BY <2>1, <2>5, <2>6 DEF Typed
  <2>10. ASSUME NEW a \in pending'
         PROVE  a.inputs = {Key(j) : j \in {l \in Incoming(a.node) : Gives(l, emitted') /\ From(l) \in d}}
    <3> DEFINE got == q[i].received
    <3>1. a.node = m /\ a.inputs = {k \in DOMAIN got : got[k]}
      BY <2>1 DEF Activation
    <3>2. EntryFits(q[i], d, Leaving(d \cup p), emitted')
      BY <1>15, <2>2 DEF AtRest, Sound
    <3>3. Leaving(d \cup p) \cap Incoming(m) = Incoming(m)
      BY <2>4
    <3>4. /\ DOMAIN got = {Key(j) : j \in Incoming(m)}
          /\ \A j \in Incoming(m) : got[Key(j)] <=> Gives(j, emitted') /\ From(j) \in d
      BY <3>2, <3>3 DEF EntryFits
    <3> HIDE DEF got, m
    <3> QED
      BY <3>1, <3>4
  <2> QED
    BY <1>3, <1>15, <1>17, <1>18, <2>1, <2>7, <2>8, <2>9, <2>10 DEF Planned
<1> QED
  BY <1>19, <1>20
\* The workflow does not change, and what is said of it stays true.
LEMMA SameSound ==
  ASSUME workflow' = workflow, NEW d, NEW p
  PROVE  Sound(queue', Busy', d, p, Leaving(d \cup p), emitted')
           <=> Sound(queue, Busy, d, p, Leaving(d \cup p), emitted)'
<1>1. /\ \A n : Incoming(n)' = Incoming(n) /\ ExpectedInputs(n)' = ExpectedInputs(n)
              /\ (UsesCollect(n)' <=> UsesCollect(n))
      /\ \A j : From(j)' = From(j) /\ To(j)' = To(j) /\ Key(j)' = Key(j)
      /\ Leaving(d \cup p)' = Leaving(d \cup p) /\ Pinned' = Pinned
  BY SameGraph DEF Pinned
<1>2. \A j : Gives(j, emitted)' <=> Gives(j, emitted')
  BY <1>1 DEF Gives
<1> DEFINE fired == Leaving(d \cup p)
<1>3. \A e : EntryFits(e, d, fired, emitted') <=> EntryFits(e, d, fired, emitted)'
  BY <1>1, <1>2 DEF EntryFits
<1>4. Apart(queue', Busy', d, p) <=> Apart(queue, Busy, d, p)'
  BY DEF Apart
<1>5. Entered(queue', Busy', d, p, fired) <=> Entered(queue, Busy, d, p, fired)'
  BY <1>1 DEF Entered
<1>6. PassedOver(d, p, fired, emitted') <=> PassedOver(d, p, fired, emitted)'
  BY <1>1, <1>2 DEF PassedOver
<1> QED
  BY <1>1, <1>3, <1>4, <1>5, <1>6 DEF Sound

LEMMA PlannedAccounts ==
  ASSUME Typed, workflow' = workflow, NEW done, NEW passed, Accounts(done, passed),
         NEW d, NEW p, Planned(done, d, p)
  PROVE  Accounts(d, p)'
<1>1. Sound(queue, Busy, d, p, Leaving(d \cup p), emitted)'
  BY SameSound DEF Planned
<1>2. Pinned' = Pinned
  BY DEF Pinned
<1>3. \A j : Gives(j, emitted)' <=> Gives(j, emitted')
  BY <1>2, SameGraph DEF Gives
<1>4. (\A a \in pending : a.inputs = {Key(i) : i \in {j \in Incoming(a.node) :
                                                     Gives(j, emitted) /\ From(j) \in d}})'
  BY <1>3, SameGraph DEF Planned
<1>5. (\A n \in Nodes : ran[n] = IF n \in (d \ Pinned) \cup Busy THEN 1 ELSE 0)'
  <2> SUFFICES ASSUME NEW n \in Nodes PROVE ran'[n] = IF n \in (d \ Pinned) \cup Busy' THEN 1 ELSE 0
    BY <1>2
  <2>1. ran[n] = IF n \in (done \ Pinned) \cup Busy THEN 1 ELSE 0
    BY DEF Accounts
  <2>2. ran'[n] = IF n \in Busy' THEN ran[n] + 1 ELSE ran[n]
    BY DEF Planned
  <2>3. Busy \cap Pinned = {}
    BY DEF Accounts
  <2>4. done \cup Busy \subseteq d /\ d \ (done \cup Busy) \subseteq Pinned /\ d \cap Busy' = {}
        /\ Busy' \cap Pinned = {}
    BY DEF Planned, Sound, Apart
  <2>5. CASE n \in Busy'
    BY <2>1, <2>2, <2>4, <2>5
  <2>6. CASE n \notin Busy'
    BY <2>1, <2>2, <2>3, <2>4, <2>6
  <2> QED
    BY <2>5, <2>6
<1>6. (Busy \cap Pinned = {})'
  BY <1>2 DEF Planned
<1>7. (\A pair \in emitted : pair[1] \in d)'
  BY DEF Planned
<1> QED
  BY <1>1, <1>4, <1>5, <1>6, <1>7 DEF Accounts

LEMMA PlannerInvInit == Init /\ Regular => PlannerInv
<1> SUFFICES ASSUME Init, Regular PROVE PlannerInv
  OBVIOUS
<1>1. Typed
  BY TypedInit
<1>2. workflow \in Workflows /\ Root \in Nodes /\ Root \notin Pinned
  BY PlannerAssumption DEF Init, Pinned
<1>3. Incoming(Root) = {}
  BY <1>2 DEF Regular, OnlySource
<1>4. pending = {Activation(Root, <<>>)} /\ Activation(Root, <<>>).node = Root /\ Busy = {Root}
  BY DEF Init, Activation, Busy
<1> DEFINE fired == Leaving({} \cup {})
<1>5. fired = {}
  BY DEF Leaving
<1>6. queue = <<>> /\ Len(queue) = 0
  BY DEF Init
<1>7. Sound(queue, Busy, {}, {}, fired, emitted)
  <2> HIDE DEF fired
  <2>1. Apart(queue, Busy, {}, {})
    BY <1>6 DEF Apart
  <2>2. Entered(queue, Busy, {}, {}, fired)
    BY <1>3, <1>4, <1>5 DEF Entered
  <2>3. PassedOver({}, {}, fired, emitted)
    BY <1>5 DEF PassedOver
  <2>4. fired \subseteq Leaving({} \cup {}) /\ Busy \subseteq Nodes /\ Root \in {} \cup Busy
    BY <1>2, <1>4, <1>5
  <2>5. \A k \in 1..Len(queue) : EntryFits(queue[k], {}, fired, emitted)
    BY <1>6
  <2> QED
    BY <2>1, <2>2, <2>3, <2>4, <2>5 DEF Sound
<1>8. \A a \in pending : a.inputs = {Key(i) : i \in {j \in Incoming(a.node) :
                                                    Gives(j, emitted) /\ From(j) \in {}}}
  <2>1. Activation(Root, <<>>).inputs = {}
    <3>1. DOMAIN <<>> = {}
      OBVIOUS
    <3> QED
      BY <3>1 DEF Activation
  <2> QED
    BY <1>3, <1>4, <2>1
<1>9. \A n \in Nodes : ran[n] = IF n \in ({} \ Pinned) \cup Busy THEN 1 ELSE 0
  BY <1>4 DEF Init
<1>10. Busy \cap Pinned = {} /\ \A pair \in emitted : pair[1] \in {}
  BY <1>2, <1>4 DEF Init
<1>11. Accounts({}, {})
  BY <1>7, <1>8, <1>9, <1>10 DEF Accounts
<1>12. {} \in SUBSET Nodes
  OBVIOUS
<1> QED
  BY <1>1, <1>4, <1>11, <1>12 DEF PlannerInv

LEMMA PlannerInvNext == PlannerInv /\ [Next]_vars => PlannerInv'
<1> SUFFICES ASSUME PlannerInv, [Next]_vars PROVE PlannerInv'
  OBVIOUS
<1>1. Typed'
  BY TypedNext DEF PlannerInv
<1>2. workflow' = workflow /\ store' = store
  BY DEF Next, Complete, vars
<1>3. Regular'
  BY <1>2, SameGraph DEF PlannerInv, Regular, OnlySource, NoPinnedJoin, Pinned
<1>4. PICK done, passed \in SUBSET Nodes : Accounts(done, passed)
  BY DEF PlannerInv
<1>5. ASSUME NEW full \in SUBSET {"main", "alt"}, Complete(full) PROVE PlannerInv'
  <2>1. PICK d, p : Planned(done, d, p)
    BY <1>4, <1>5, StepKeeps DEF PlannerInv
  <2>2. Accounts(d, p)'
    BY <1>2, <1>4, <2>1, PlannedAccounts DEF PlannerInv
  <2>3. d \in SUBSET Nodes /\ p \in SUBSET Nodes /\ (pending' = {} => queue' = <<>>)
    BY <2>1 DEF Planned
  <2> QED
    BY <1>1, <1>3, <2>2, <2>3 DEF PlannerInv
<1>6. CASE UNCHANGED vars
  <2>1. Accounts(done, passed)'
    <3>1. Pinned' = Pinned /\ Busy' = Busy
      BY <1>6 DEF Pinned, Busy, vars
    <3>2. \A j : Gives(j, emitted)' <=> Gives(j, emitted)
      BY <1>2, <1>6, <3>1, SameGraph DEF Gives, vars
    <3>3. Sound(queue, Busy, done, passed, Leaving(done \cup passed), emitted)'
      BY <1>2, <1>4, <1>6, <3>1, SameSound DEF Accounts, vars
    <3> QED
      BY <1>2, <1>4, <1>6, <3>1, <3>2, <3>3, SameGraph DEF Accounts, vars
  <2>2. pending' = pending /\ queue' = queue
    BY <1>6 DEF vars
  <2>3. (pending = {} => queue = <<>>)'
    BY <2>2 DEF PlannerInv
  <2> QED
    BY <1>1, <1>3, <1>4, <2>1, <2>3 DEF PlannerInv
<1> QED
  BY <1>5, <1>6 DEF Next
-----------------------------------------------------------------------------
(* What follows from the invariant. *)

LEMMA InvActivatedOnce == PlannerInv => ActivatedOnce
BY DEF PlannerInv, Accounts, ActivatedOnce

LEMMA InvInputsArrive == PlannerInv => InputsArrive
<1> SUFFICES ASSUME PlannerInv, NEW a \in pending
             PROVE  a.inputs = {Key(i) : i \in {j \in Incoming(a.node) :
                                                  /\ Carries(workflow.edges[j])
                                                  /\ Completes[workflow.edges[j].from]}}
  BY DEF InputsArrive, Key
<1>1. PICK done, passed \in SUBSET Nodes : Accounts(done, passed)
  BY DEF PlannerInv
<1>2. workflow \in Workflows /\ OnlySource
  BY DEF PlannerInv, Typed, Regular
<1>3. Sound(queue, Busy, done, passed, Leaving(done \cup passed), emitted)
  BY <1>1 DEF Accounts
<1>4. a.node \in Busy
  BY DEF Busy
<1>5. ASSUME NEW j \in Incoming(a.node)
      PROVE  Gives(j, emitted) /\ From(j) \in done
               <=> Carries(workflow.edges[j]) /\ Completes[workflow.edges[j].from]
  <2>1. From(j) \in done \cup passed
    BY <1>3, <1>4 DEF Sound, Entered, Leaving
  <2>2. From(j) \in done <=> Completes[From(j)]
    BY <1>2, <1>3, <2>1, SettledRight
  <2> QED
    BY <2>2 DEF Gives, Carries, From, Pinned
<1>6. a.inputs = {Key(i) : i \in {j \in Incoming(a.node) : Gives(j, emitted) /\ From(j) \in done}}
  BY <1>1 DEF Accounts
<1>7. {j \in Incoming(a.node) : Gives(j, emitted) /\ From(j) \in done}
        = {j \in Incoming(a.node) : Carries(workflow.edges[j]) /\ Completes[workflow.edges[j].from]}
  BY <1>5
<1> QED
  BY <1>6, <1>7

LEMMA InvRanWhatItShould == PlannerInv => RanWhatItShould
<1> SUFFICES ASSUME PlannerInv, pending = {}
             PROVE  {n \in Nodes : ran[n] > 0} = {n \in Nodes : Completes[n]} \ Pinned
  BY DEF RanWhatItShould, Pinned
<1>1. PICK done, passed \in SUBSET Nodes : Accounts(done, passed)
  BY DEF PlannerInv
<1>2. workflow \in Workflows /\ OnlySource /\ queue = <<>> /\ Busy = {}
  BY DEF PlannerInv, Typed, Regular, Busy
<1>3. Sound(queue, {}, done, passed, Leaving(done \cup passed), emitted)
  BY <1>1, <1>2 DEF Accounts
<1>4. Nodes \ (done \cup passed) = {}
  <2> SUFFICES ASSUME Nodes \ (done \cup passed) # {} PROVE FALSE
    OBVIOUS
  <2>1. AtRest(queue, done, passed, emitted)
    BY <1>3 DEF AtRest
  <2>2. PICK k \in 1..Len(queue) : Incoming(queue[k].node) \subseteq Leaving(done \cup passed)
    BY <1>2, <2>1, NeverStuck
  <2>3. Len(queue) = 0
    BY <1>2
  <2> QED
    BY <2>2, <2>3
<1>5. ASSUME NEW n \in Nodes PROVE n \in done <=> Completes[n]
  <2>1. n \in done \cup passed
    BY <1>4
  <2> QED
    BY <1>2, <1>3, <2>1, SettledRight
<1>6. ASSUME NEW n \in Nodes PROVE ran[n] > 0 <=> n \in done \ Pinned
  <2>1. ran[n] = IF n \in (done \ Pinned) \cup Busy THEN 1 ELSE 0
    BY <1>1 DEF Accounts
  <2>2. CASE n \in done \ Pinned
    BY <2>1, <2>2
  <2>3. CASE n \notin done \ Pinned
    BY <1>2, <2>1, <2>3
  <2> QED
    BY <2>2, <2>3
<1> QED
  BY <1>5, <1>6

\* A step activates no node behind which one has been activated.
LEMMA StepInOrder ==
  ASSUME PlannerInv, [Next]_vars, NEW n \in Nodes, ran'[n] > ran[n],
         NEW m \in Nodes, n \in Ancestors[m]
  PROVE  ran[m] = 0
<1>1. PICK done, passed \in SUBSET Nodes : Accounts(done, passed)
  BY DEF PlannerInv
<1>2. Typed /\ Regular /\ workflow \in Workflows
  BY DEF PlannerInv, Typed
<1>3. PICK full \in SUBSET {"main", "alt"} : Complete(full)
  <2>1. ran[n] \in Nat
    BY <1>2 DEF Typed
  <2>2. ran' # ran
    BY <2>1
  <2> QED
    BY <2>2 DEF Next, vars
<1>4. PICK d, p : Planned(done, d, p)
  BY <1>1, <1>2, <1>3, StepKeeps
<1>5. Sound(queue', Busy', d, p, Leaving(d \cup p), emitted')
  BY <1>4 DEF Planned
<1>6. n \in Busy'
  <2>1. ran'[n] = IF n \in Busy' THEN ran[n] + 1 ELSE ran[n]
    BY <1>4 DEF Planned
  <2>2. ran[n] \in Nat
    BY <1>2 DEF Typed
  <2> QED
    BY <2>1, <2>2
<1>7. n \notin d \cup p
  BY <1>5, <1>6 DEF Sound, Apart
<1> SUFFICES ASSUME ran[m] # 0 PROVE FALSE
  OBVIOUS
<1>8. m \in (done \ Pinned) \cup Busy
  BY <1>1 DEF Accounts
<1>9. m \in d
  BY <1>4, <1>8 DEF Planned
<1>10. m \in d \cup p \cup Busy'
  BY <1>9
<1>11. Ancestors[m] \subseteq d \cup p
  BY <1>2, <1>5, <1>10, BehindIsSettled
<1> QED
  BY <1>7, <1>11

-----------------------------------------------------------------------------
(* The theorems. *)

LEMMA PlannerKeepsInv == Spec /\ Regular => []PlannerInv
BY PlannerInvInit, PlannerInvNext, PTL DEF Spec

\* On the in-memory repository, in a workflow whose only node without inbound edges is the
\* trigger and that has no pinned join, every node is activated at most once: the planner
\* merges the branches that meet in a collect and never queues a node that has run.
THEOREM PlannerActivatesOnce == Spec /\ Regular => []ActivatedOnce
BY PlannerKeepsInv, InvActivatedOnce, PTL

\* In the same workflows, an activation gets the items of exactly the inbound edges that
\* carried some: nextActivation never seals a collect while an input can still arrive.
THEOREM PlannerLosesNoInput == Spec /\ Regular => []InputsArrive
BY PlannerKeepsInv, InvInputsArrive, PTL

\* In the same workflows, when the run completes the nodes that ran are those the graph and the
\* emitted items ask for: the queue neither forgets a branch nor wakes one whose path is empty.
THEOREM PlannerRunsWhatItShould == Spec /\ Regular => []RanWhatItShould
BY PlannerKeepsInv, InvRanWhatItShould, PTL

\* In the same workflows, no node is activated after one of its descendants: the order in which
\* entries are taken off the queue respects the graph.
THEOREM PlannerKeepsGraphOrder == Spec /\ Regular => GraphOrder
<1>1. PlannerInv /\ [Next]_vars =>
        [\A n \in Nodes : ran'[n] > ran[n] => \A m \in Nodes : n \in Ancestors[m] => ran[m] = 0]_vars
  BY StepInOrder
<1> QED
  BY <1>1, PlannerKeepsInv, PTL DEF Spec, GraphOrder
=============================================================================
