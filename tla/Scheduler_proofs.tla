--------------------------- MODULE Scheduler_proofs ---------------------------
(***************************************************************************)
(* An order that is in use is that of its group as it is now, and keeps    *)
(* every constraint if they can all be kept.  Every command that a handler *)
(* queues is applied before control is back in the main loop, whatever     *)
(* handlers do meanwhile, unless its system flushes by hand.               *)
(*                                                                         *)
(* The loops of recompute_order() are recursive functions, and an          *)
(* induction over their rounds is one over a set of numbers: the library's *)
(* induction theorems have a predicate for a parameter.                    *)
(***************************************************************************)
EXTENDS Scheduler, SequenceTheorems, FiniteSetTheorems, WellFoundedInduction, TLAPS

(***************************************************************************)
(* Induction over natural numbers, with a set for the predicate.           *)
(***************************************************************************)

\* A set with 0 that has the successor of each number it has has all of them.
LEMMA Induction ==
  ASSUME NEW P, 0 \in P, \A n \in Nat : n \in P => n + 1 \in P
  PROVE  \A n \in Nat : n \in P
<1> DEFINE T == Nat \ P
<1> SUFFICES ASSUME T # {} PROVE FALSE
  OBVIOUS
<1>1. PICK x \in T : \A y \in T : <<y, x>> \notin OpToRel(<, Nat)
  BY NatLessThanWellFounded, WFMin, Zenon
<1>2. x # 0 /\ x - 1 \in Nat /\ x = (x - 1) + 1
  OBVIOUS
<1>3. x - 1 \in T
  BY <1>2
<1>4. <<x - 1, x>> \in OpToRel(<, Nat)
  <2>1. x - 1 < x /\ x - 1 \in Nat
    BY <1>2
  <2> QED BY <2>1, Zenon DEF OpToRel
<1> QED BY <1>1, <1>3, <1>4, Zenon

\* f starts at x, and goes on with step.
Recurs(f, N, K, x, step) ==
  f \in [0..N -> K] /\ f[0] = x /\ \A n \in 1..N : f[n] = step[n][f[n - 1]]

\* A recursive function with values in a set exists.
LEMMA Recursion ==
  \A K, x, N, step :
    N \in Nat /\ x \in K /\ step \in [1..N -> [K -> K]] => \E f : Recurs(f, N, K, x, step)
<1> SUFFICES ASSUME NEW K, NEW x \in K, NEW N \in Nat, NEW step \in [1..N -> [K -> K]]
             PROVE  \E f \in [0..N -> K] :
                       f[0] = x /\ \A n \in 1..N : f[n] = step[n][f[n - 1]]
  BY DEF Recurs
<1> DEFINE Part(n, f) == f[0] = x /\ \A m \in 1..n : f[m] = step[m][f[m - 1]]
           P == {n \in Nat : n <= N => \E f \in [0..n -> K] : Part(n, f)}
<1>1. 0 \in P
  <2> DEFINE f == [n \in 0..0 |-> x]
  <2>1. f \in [0..0 -> K] /\ Part(0, f)
    OBVIOUS
  <2> QED BY <2>1
<1>2. ASSUME NEW n \in Nat, n \in P
      PROVE  n + 1 \in P
  <2> SUFFICES ASSUME n + 1 <= N
               PROVE  \E f \in [0..(n + 1) -> K] : Part(n + 1, f)
    OBVIOUS
  <2>1. PICK f \in [0..n -> K] : Part(n, f)
    BY <1>2
  <2> DEFINE g == [m \in 0..(n + 1) |-> IF m = n + 1 THEN step[n + 1][f[n]] ELSE f[m]]
  <2>2. f[n] \in K /\ n + 1 \in 1..N
    OBVIOUS
  <2>3. step[n + 1][f[n]] \in K
    BY <2>2
  <2>4. g \in [0..(n + 1) -> K]
    BY <2>3
  <2>5. g[0] = x
    BY <2>1
  <2>6. ASSUME NEW m \in 1..(n + 1)
        PROVE  g[m] = step[m][g[m - 1]]
    <3>1. CASE m = n + 1
      <4>1. g[m] = step[n + 1][f[n]] /\ g[m - 1] = f[n]
        BY <3>1
      <4> QED BY <3>1, <4>1
    <3>2. CASE m # n + 1
      <4>1. m \in 1..n /\ g[m] = f[m] /\ g[m - 1] = f[m - 1]
        BY <3>2
      <4> QED BY <2>1, <4>1
    <3> QED BY <3>1, <3>2
  <2> QED BY <2>4, <2>5, <2>6
<1>3. N \in P
  <2> HIDE DEF P
  <2> QED BY <1>1, <1>2, Induction
<1> QED BY <1>3

(***************************************************************************)
(* Sequences.                                                              *)
(***************************************************************************)

\* A sequence that is extended by an element, or not.
LEMMA AppendFacts ==
  ASSUME NEW X, NEW q \in Seq(X), NEW x \in X
  PROVE  /\ Append(q, x) \in Seq(X)
         /\ ToSet(Append(q, x)) = ToSet(q) \cup {x}
         /\ IsInjective(q) /\ x \notin ToSet(q) => IsInjective(Append(q, x))
<1> DEFINE r == Append(q, x)
<1>1. /\ r \in Seq(X) /\ DOMAIN r = DOMAIN q \cup {Len(q) + 1}
      /\ r[Len(q) + 1] = x /\ \A i \in DOMAIN q : r[i] = q[i]
      /\ Len(q) + 1 \notin DOMAIN q
  OBVIOUS
<1> HIDE DEF r
<1>2. ToSet(r) = ToSet(q) \cup {x}
  BY <1>1 DEF ToSet
<1>3. IsInjective(q) /\ x \notin ToSet(q) => IsInjective(r)
  BY <1>1 DEF ToSet, IsInjective
<1> QED BY <1>1, <1>2, <1>3 DEF r

\* What At() picks: the elements at the positions, and each once if they differ.
LEMMA AtFacts ==
  ASSUME NEW X, NEW seq \in Seq(X), NEW I
  PROVE  /\ At(seq, I) \in Seq(X)
         /\ ToSet(At(seq, I)) = {seq[i] : i \in I \cap DOMAIN seq}
         /\ Len(At(seq, I)) <= Len(seq)
         /\ (\A i, j \in I \cap DOMAIN seq : seq[i] = seq[j] => i = j)
              => IsInjective(At(seq, I))
<1> DEFINE N == Len(seq)
           E(g) == [n \in 0..N |->
                      IF n = 0 THEN <<>>
                      ELSE IF n \in I THEN Append(g[n - 1], seq[n]) ELSE g[n - 1]]
           f == CHOOSE g : g = E(g)
           Apart == \A i, j \in I \cap DOMAIN seq : seq[i] = seq[j] => i = j
           Good(n) == /\ f[n] \in Seq(X)
                      /\ ToSet(f[n]) = {seq[i] : i \in I \cap (1..n)}
                      /\ Len(f[n]) <= n
                      /\ Apart => IsInjective(f[n])
<1>1. N \in Nat /\ DOMAIN seq = 1..N
  OBVIOUS
<1>2. \E g : g = E(g)
  <2> DEFINE step == [n \in 1..N |-> [q \in Seq(X) |->
                        IF n \in I THEN Append(q, seq[n]) ELSE q]]
  <2>1. step \in [1..N -> [Seq(X) -> Seq(X)]]
    OBVIOUS
  <2>2. PICK g : Recurs(g, N, Seq(X), <<>>, step)
    <3> HIDE DEF step, N
    <3>1. <<>> \in Seq(X)
      OBVIOUS
    <3> QED BY <1>1, <2>1, <3>1, Recursion, Zenon
  <2>3. ASSUME NEW n \in 1..N
        PROVE  g[n] = IF n \in I THEN Append(g[n - 1], seq[n]) ELSE g[n - 1]
    <3>1. g[n - 1] \in Seq(X) /\ g[n] = step[n][g[n - 1]]
      <4> HIDE DEF step, N
      <4>1. n - 1 \in 0..N
        BY <1>1
      <4> QED BY <2>2, <4>1, Zenon DEF Recurs
    <3> QED BY <3>1
  <2>4. g = E(g)
    <3> HIDE DEF N
    <3>1. \A n \in 0..N : n # 0 => n \in 1..N
      BY <1>1
    <3> QED BY <2>2, <2>3, <3>1, Zenon DEF Recurs
  <2> QED BY <2>4
<1>3. f = E(f)
  BY <1>2
<1>4. At(seq, I) = f[N]
  BY DEF At
<1> HIDE DEF f
<1>5. f[0] = <<>> /\ \A n \in 1..N : f[n] = IF n \in I THEN Append(f[n - 1], seq[n]) ELSE f[n - 1]
  <2> HIDE DEF N
  <2>1. \A n \in 0..N : f[n] = IF n = 0 THEN <<>>
                              ELSE IF n \in I THEN Append(f[n - 1], seq[n]) ELSE f[n - 1]
    BY <1>3, Zenon
  <2>2. 0 \in 0..N /\ \A n \in 1..N : n \in 0..N /\ n # 0
    BY <1>1
  <2> QED BY <2>1, <2>2, Zenon
<1>6. Good(0)
  BY <1>5 DEF ToSet, IsInjective
<1>7. ASSUME NEW n \in Nat, n + 1 <= N, Good(n)
      PROVE  Good(n + 1)
  <2>1. n + 1 \in 1..N /\ (n + 1) - 1 = n /\ seq[n + 1] \in X /\ 1..(n + 1) = (1..n) \cup {n + 1}
    BY <1>1, <1>7
  <2>2. CASE n + 1 \notin I
    <3>1. f[n + 1] = f[n] /\ I \cap (1..(n + 1)) = I \cap (1..n)
      BY <1>5, <2>1, <2>2
    <3>2. Len(f[n + 1]) <= n + 1
      BY <1>7, <3>1
    <3> QED BY <1>7, <3>1, <3>2
  <2>3. CASE n + 1 \in I
    <3>1. f[n + 1] = Append(f[n], seq[n + 1])
      BY <1>5, <2>1, <2>3
    <3>2. I \cap (1..(n + 1)) = (I \cap (1..n)) \cup {n + 1}
      BY <2>1, <2>3
    <3>3. ToSet(f[n + 1]) = {seq[i] : i \in I \cap (1..(n + 1))}
      BY <1>7, <2>1, <3>1, <3>2, AppendFacts
    <3>4. Apart => seq[n + 1] \notin ToSet(f[n])
      BY <1>1, <1>7, <2>1, <2>3
    <3>5. Len(f[n + 1]) <= n + 1
      BY <1>7, <2>1, <3>1
    <3> QED BY <1>7, <2>1, <3>1, <3>3, <3>4, <3>5, AppendFacts
  <2> QED BY <2>2, <2>3
<1>8. Good(N)
  <2> DEFINE P == {n \in Nat : n <= N => Good(n)}
  <2>1. 0 \in P
    BY <1>6
  <2>2. \A n \in Nat : n \in P => n + 1 \in P
    <3> HIDE DEF Good
    <3> QED BY <1>1, <1>7
  <2> HIDE DEF P
  <2>3. N \in P
    BY <1>1, <2>1, <2>2, Induction
  <2> QED BY <1>1, <2>3 DEF P
<1> QED BY <1>1, <1>4, <1>8

\* One sequence behind another.
LEMMA ConcatFacts ==
  ASSUME NEW X, NEW q \in Seq(X), NEW r \in Seq(X)
  PROVE  /\ q \o r \in Seq(X) /\ Len(q \o r) = Len(q) + Len(r)
         /\ \A i \in DOMAIN q : i \in DOMAIN (q \o r) /\ (q \o r)[i] = q[i]
         /\ \A i \in DOMAIN (q \o r) : i \notin DOMAIN q =>
              i - Len(q) \in DOMAIN r /\ (q \o r)[i] = r[i - Len(q)]
         /\ ToSet(q \o r) = ToSet(q) \cup ToSet(r)
         /\ IsInjective(q) /\ IsInjective(r) /\ ToSet(q) \cap ToSet(r) = {}
              => IsInjective(q \o r)
<1> DEFINE s == q \o r
<1>1. /\ s \in Seq(X) /\ Len(s) = Len(q) + Len(r) /\ Len(q) \in Nat /\ Len(r) \in Nat
      /\ DOMAIN q = 1..Len(q) /\ DOMAIN r = 1..Len(r) /\ DOMAIN s = 1..Len(s)
  OBVIOUS
<1>2. \A i \in DOMAIN q : s[i] = q[i]
  OBVIOUS
<1>3. \A i \in DOMAIN s : i \notin DOMAIN q => i - Len(q) \in DOMAIN r /\ s[i] = r[i - Len(q)]
  OBVIOUS
<1>4. \A i \in DOMAIN r : i + Len(q) \in DOMAIN s /\ s[i + Len(q)] = r[i]
  OBVIOUS
<1> HIDE DEF s
<1>5. ToSet(s) = ToSet(q) \cup ToSet(r)
  <2>1. \A i \in DOMAIN q : i \in DOMAIN s
    BY <1>1
  <2> QED BY <2>1, <1>2, <1>3, <1>4 DEF ToSet
<1>6. IsInjective(q) /\ IsInjective(r) /\ ToSet(q) \cap ToSet(r) = {} => IsInjective(s)
  <2> SUFFICES ASSUME IsInjective(q), IsInjective(r), ToSet(q) \cap ToSet(r) = {},
                      NEW i \in DOMAIN s, NEW j \in DOMAIN s, s[i] = s[j]
               PROVE  i = j
    BY DEF IsInjective
  <2>1. CASE i \in DOMAIN q /\ j \in DOMAIN q
    BY <2>1, <1>2 DEF IsInjective
  <2>2. CASE i \notin DOMAIN q /\ j \notin DOMAIN q
    <3>1. i - Len(q) = j - Len(q)
      BY <2>2, <1>3 DEF IsInjective
    <3> QED BY <1>1, <3>1
  <2>3. ASSUME NEW a \in DOMAIN q, NEW b \in DOMAIN s, b \notin DOMAIN q, s[a] = s[b]
        PROVE  FALSE
    <3>1. s[a] \in ToSet(q) /\ s[b] \in ToSet(r)
      BY <2>3, <1>2, <1>3 DEF ToSet
    <3> QED BY <2>3, <3>1
  <2> QED BY <2>1, <2>2, <2>3
<1>7. \A i \in DOMAIN q : i \in DOMAIN s
  BY <1>1
<1> QED BY <1>1, <1>2, <1>3, <1>5, <1>6, <1>7 DEF s

\* What FlattenSeq() returns has the elements of all the sequences.
LEMMA FlattenFacts ==
  ASSUME NEW X, NEW seqs \in Seq(Seq(X))
  PROVE  /\ FlattenSeq(seqs) \in Seq(X)
         /\ ToSet(FlattenSeq(seqs)) = UNION {ToSet(seqs[i]) : i \in DOMAIN seqs}
<1> DEFINE N == Len(seqs)
           E(g) == [i \in 1..N |-> IF i = 1 THEN seqs[i] ELSE g[i - 1] \o seqs[i]]
           f == CHOOSE g : g = E(g)
           Good(n) == /\ f[n] \in Seq(X)
                      /\ ToSet(f[n]) = UNION {ToSet(seqs[i]) : i \in 1..n}
<1>1. N \in Nat /\ DOMAIN seqs = 1..N /\ \A i \in 1..N : seqs[i] \in Seq(X)
  OBVIOUS
<1>2. CASE N = 0
  <2>1. seqs = <<>>
    BY <1>2
  <2>2. FlattenSeq(seqs) = <<>>
    BY <2>1 DEF FlattenSeq
  <2>3. DOMAIN seqs = {} /\ <<>> \in Seq(X)
    BY <2>1
  <2>4. ToSet(<<>>) = {}
    BY DEF ToSet
  <2> QED BY <2>2, <2>3, <2>4
<1>3. CASE N # 0
  <2>1. \E g : g = E(g)
    <3> DEFINE step == [n \in 1..N |-> [q \in Seq(X) |-> q \o seqs[n]]]
    <3>1. step \in [1..N -> [Seq(X) -> Seq(X)]]
      BY <1>1
    <3>2. PICK h : Recurs(h, N, Seq(X), <<>>, step)
      <4> HIDE DEF step, N
      <4>1. <<>> \in Seq(X)
        OBVIOUS
      <4> QED BY <1>1, <3>1, <4>1, Recursion, Zenon
    <3>3. ASSUME NEW n \in 1..N
          PROVE  h[n] = h[n - 1] \o seqs[n]
      <4>1. h[n - 1] \in Seq(X) /\ h[n] = step[n][h[n - 1]]
        <5> HIDE DEF step, N
        <5>1. n - 1 \in 0..N
          BY <1>1
        <5> QED BY <3>2, <5>1, Zenon DEF Recurs
      <4> QED BY <4>1
    <3>4. h[0] = <<>>
      BY <3>2 DEF Recurs
    <3> DEFINE g == [i \in 1..N |-> h[i]]
    <3> HIDE DEF step
    <3>5. ASSUME NEW i \in 1..N
          PROVE  g[i] = IF i = 1 THEN seqs[i] ELSE g[i - 1] \o seqs[i]
      <4>1. CASE i = 1
        <5>1. h[1] = <<>> \o seqs[1]
          <6>1. 1 \in 1..N /\ 1 - 1 = 0
            BY <1>1, <1>3
          <6> HIDE DEF N
          <6> QED BY <3>3, <3>4, <6>1
        <5>2. <<>> \o seqs[1] = seqs[1]
          BY <1>1, <4>1
        <5> QED BY <4>1, <5>1, <5>2
      <4>2. CASE i # 1
        <5>1. i - 1 \in 1..N
          BY <1>1, <4>2
        <5> QED BY <3>3, <4>2, <5>1
      <4> QED BY <4>1, <4>2
    <3>6. g = E(g)
      <4>1. E(g) = [i \in 1..N |-> g[i]]
        <5> HIDE DEF g, N
        <5> QED BY <3>5, Zenon
      <4> QED BY <4>1
    <3> QED BY <3>6
  <2>2. f = E(f)
    BY <2>1
  <2>3. FlattenSeq(seqs) = f[N]
    BY <1>3 DEF FlattenSeq
  <2> HIDE DEF f
  <2>4. \A i \in 1..N : f[i] = IF i = 1 THEN seqs[i] ELSE f[i - 1] \o seqs[i]
    <3> HIDE DEF N
    <3> QED BY <2>2, Zenon
  <2>5. Good(1)
    <3>1. f[1] = seqs[1] /\ 1..1 = {1} /\ 1 \in 1..N
      BY <1>1, <1>3, <2>4
    <3> QED BY <1>1, <3>1
  <2>6. ASSUME NEW n \in Nat, n # 0, n + 1 <= N, Good(n)
        PROVE  Good(n + 1)
    <3>0. n + 1 \in 1..N /\ n + 1 # 1 /\ (n + 1) - 1 = n /\ 1..(n + 1) = (1..n) \cup {n + 1}
      <4> HIDE DEF N
      <4> QED BY <1>1, <2>6
    <3>1. seqs[n + 1] \in Seq(X)
      BY <1>1, <3>0
    <3>2. f[n + 1] = f[n] \o seqs[n + 1]
      BY <2>4, <3>0
    <3>3. f[n + 1] \in Seq(X) /\ ToSet(f[n + 1]) = ToSet(f[n]) \cup ToSet(seqs[n + 1])
      BY <2>6, <3>1, <3>2, ConcatFacts
    <3> QED BY <2>6, <3>0, <3>3
  <2>7. Good(N)
    <3> DEFINE P == {n \in Nat : n # 0 /\ n <= N => Good(n)}
    <3>1. 0 \in P
      OBVIOUS
    <3>2. \A n \in Nat : n \in P => n + 1 \in P
      <4> HIDE DEF Good
      <4> SUFFICES ASSUME NEW n \in Nat, n \in P, n + 1 <= N
                   PROVE  Good(n + 1)
        OBVIOUS
      <4>1. CASE n = 0
        BY <2>5, <4>1
      <4>2. CASE n # 0
        BY <1>1, <2>6, <4>2
      <4> QED BY <4>1, <4>2
    <3> HIDE DEF P
    <3>3. N \in P
      BY <1>1, <3>1, <3>2, Induction
    <3> QED BY <1>1, <1>3, <3>3 DEF P
  <2> QED BY <1>1, <2>3, <2>7
<1> QED BY <1>2, <1>3

\* The last of the numbers in a set, if there is an upper bound.
LEMMA LastOne ==
  ASSUME NEW N \in Nat, NEW S \in SUBSET (1..N), S # {}
  PROVE  \E m \in S : \A j \in S : j <= m
<1> DEFINE P == {n \in Nat : \A m \in S : m + n >= N => \E k \in S : \A j \in S : j <= k}
<1>1. 0 \in P
  OBVIOUS
<1>2. ASSUME NEW n \in Nat, n \in P
      PROVE  n + 1 \in P
  <2> SUFFICES ASSUME NEW m \in S, m + (n + 1) >= N
               PROVE  \E k \in S : \A j \in S : j <= k
    OBVIOUS
  <2>1. CASE \A j \in S : j <= m
    BY <2>1
  <2>2. ASSUME NEW j \in S, ~(j <= m)
        PROVE  \E k \in S : \A i \in S : i <= k
    <3>1. j \in Nat /\ m \in Nat /\ j + n >= N
      BY <2>2
    <3> QED BY <1>2, <3>1
  <2> QED BY <2>1, <2>2
<1>3. N \in P
  <2> HIDE DEF P
  <2> QED BY <1>1, <1>2, Induction
<1>4. PICK m \in S : TRUE
  OBVIOUS
<1>5. m \in Nat /\ m + N >= N
  OBVIOUS
<1> QED BY <1>3, <1>4, <1>5

\* A sequence is over any set that has its elements.
LEMMA SeqOver ==
  ASSUME NEW X, NEW q \in Seq(X), NEW T, ToSet(q) \subseteq T
  PROVE  q \in Seq(T)
<1>1. \A i \in 1..Len(q) : q[i] \in T
  BY DEF ToSet
<1>2. q = [i \in 1..Len(q) |-> q[i]] /\ Len(q) \in Nat
  OBVIOUS
<1> QED BY <1>1, <1>2

(***************************************************************************)
(* The order of a group.                                                   *)
(***************************************************************************)

Targets(edges) == [i \in DOMAIN edges |-> edges[i][2]]

PushedBy(edges, seq, P, s) == At(Targets(edges), Pushed(edges, seq, P, s))

\* What a round pushes: the entries that come to 0 and have an edge from the one
\* that is placed, each once however many edges there are.
LEMMA PushFacts ==
  ASSUME NEW V, NEW edges \in Seq(V \X V), NEW seq \in Seq(Nat), NEW P, NEW s
  PROVE  /\ PushedBy(edges, seq, P, s) \in Seq(Nat)
         /\ \A x : x \in ToSet(PushedBy(edges, seq, P, s)) <=>
                   x \in Ready(edges, seq, P \cup {s}) /\ <<s, x>> \in ToSet(edges)
         /\ IsInjective(PushedBy(edges, seq, P, s))
<1> DEFINE I == Pushed(edges, seq, P, s)
           R == Ready(edges, seq, P \cup {s})
           new == At(Targets(edges), I)
<1>1. /\ Targets(edges) \in Seq(V) /\ DOMAIN Targets(edges) = DOMAIN edges
      /\ \A i \in DOMAIN edges : Targets(edges)[i] = edges[i][2]
      /\ \A i \in DOMAIN edges : edges[i] = <<edges[i][1], edges[i][2]>>
  <2>1. \A i \in DOMAIN edges : edges[i] \in V \X V
    OBVIOUS
  <2>2. \A i \in DOMAIN edges : edges[i] = <<edges[i][1], edges[i][2]>> /\ edges[i][2] \in V
    BY <2>1
  <2>3. DOMAIN edges = 1..Len(edges) /\ Len(edges) \in Nat
    OBVIOUS
  <2> QED BY <2>2, <2>3 DEF Targets
<1>2. I \subseteq DOMAIN edges /\ R \subseteq ToSet(seq) /\ ToSet(seq) \subseteq Nat
  BY DEF Pushed, Ready, ToSet
<1>3. /\ new \in Seq(V)
      /\ ToSet(new) = {edges[i][2] : i \in I}
      /\ (\A i, j \in I : edges[i][2] = edges[j][2] => i = j) => IsInjective(new)
  <2> HIDE DEF I
  <2>1. I \cap DOMAIN Targets(edges) = I
    BY <1>1, <1>2
  <2>2. /\ new \in Seq(V)
        /\ ToSet(new) = {Targets(edges)[i] : i \in I}
        /\ (\A i, j \in I : Targets(edges)[i] = Targets(edges)[j] => i = j) => IsInjective(new)
    BY <1>1, <2>1, AtFacts
  <2> QED BY <1>1, <1>2, <2>2
<1>4. ASSUME NEW i \in I, NEW j \in I, edges[i][2] = edges[j][2]
      PROVE  i = j
  <2>1. edges[i] = edges[j] /\ i \in DOMAIN edges /\ j \in DOMAIN edges
    BY <1>1, <1>2, <1>4 DEF Pushed
  <2>2. i \in Nat /\ j \in Nat
    BY <2>1
  <2> QED BY <2>1, <2>2 DEF Pushed
<1>5. ASSUME NEW x \in R, <<s, x>> \in ToSet(edges)
      PROVE  \E i \in I : edges[i][2] = x
  <2> DEFINE S == {i \in DOMAIN edges : edges[i] = <<s, x>>}
  <2>1. S \in SUBSET (1..Len(edges)) /\ Len(edges) \in Nat
    OBVIOUS
  <2>2. S # {}
    <3>1. PICK i \in DOMAIN edges : edges[i] = <<s, x>>
      BY <1>5 DEF ToSet
    <3> QED BY <3>1
  <2>3. PICK m \in S : \A j \in S : j <= m
    <3> HIDE DEF S
    <3> QED BY <2>1, <2>2, LastOne
  <2>4. m \in DOMAIN edges /\ edges[m] = <<s, x>>
    OBVIOUS
  <2>5. ASSUME NEW j \in DOMAIN edges, j > m
        PROVE  edges[j] # edges[m]
    <3>1. m \in Nat /\ j \in Nat
      BY <2>4
    <3>2. j \notin S
      <4> HIDE DEF S
      <4> QED BY <2>3, <2>5, <3>1
    <3> QED BY <2>4, <3>2
  <2> QED BY <1>5, <2>4, <2>5 DEF Pushed
<1>6. ToSet(new) = {x \in R : <<s, x>> \in ToSet(edges)}
  <2>1. ASSUME NEW i \in I
        PROVE  edges[i][2] \in R /\ <<s, edges[i][2]>> \in ToSet(edges)
    BY <1>1 DEF Pushed, ToSet
  <2> HIDE DEF I, R
  <2> QED BY <1>3, <1>5, <2>1
<1>7. new \in Seq(Nat)
  <2> HIDE DEF new, R
  <2> QED BY <1>2, <1>3, <1>6, SeqOver
<1> QED BY <1>3, <1>4, <1>6, <1>7 DEF PushedBy

\* What is placed after n rounds, and what Kahn's algorithm keeps: what has been
\* pushed are the entries at 0, each once, and none is there before an entry that
\* must come before it.
Placed(q, n) == {q[m] : m \in (1..n) \cap DOMAIN q}

KahnInv(edges, seq, n, q) ==
  /\ q \in Seq(Nat) /\ IsInjective(q)
  /\ ToSet(q) = Ready(edges, seq, Placed(q, n))
  /\ \A k \in DOMAIN q : \A e \in ToSet(edges) :
       e[2] = q[k] /\ e[1] \in ToSet(seq) => \E m \in DOMAIN q : m < k /\ q[m] = e[1]

RoundOf(edges, seq, n, q) ==
  IF n > Len(q) THEN q
  ELSE q \o PushedBy(edges, seq, {q[m] : m \in 1..(n - 1)}, q[n])

\* The entries at 0 from the start.
LEMMA KahnStarts ==
  ASSUME NEW edges, NEW seq \in Seq(Nat), IsInjective(seq)
  PROVE  KahnInv(edges, seq, 0, At(seq, {i \in DOMAIN seq : seq[i] \in Ready(edges, seq, {})}))
<1> DEFINE I == {i \in DOMAIN seq : seq[i] \in Ready(edges, seq, {})}
           q == At(seq, I)
<1>1. q \in Seq(Nat) /\ ToSet(q) = {seq[i] : i \in I} /\ IsInjective(q)
  <2>1. I \cap DOMAIN seq = I
    OBVIOUS
  <2> HIDE DEF I
  <2> QED BY <2>1, AtFacts DEF IsInjective
<1>2. ToSet(q) = Ready(edges, seq, {})
  <2>1. Ready(edges, seq, {}) \subseteq ToSet(seq)
    BY DEF Ready
  <2> HIDE DEF q
  <2> QED BY <1>1, <2>1 DEF ToSet
<1>3. Placed(q, 0) = {}
  BY DEF Placed
<1> HIDE DEF q
<1>4. ASSUME NEW k \in DOMAIN q, NEW e \in ToSet(edges), e[2] = q[k]
      PROVE  e[1] \notin ToSet(seq)
  <2>1. q[k] \in Ready(edges, seq, {})
    BY <1>2 DEF ToSet
  <2> QED BY <1>4, <2>1 DEF Ready
<1>5. KahnInv(edges, seq, 0, q)
  BY <1>1, <1>2, <1>3, <1>4 DEF KahnInv
<1> QED BY <1>5 DEF q

\* A round keeps it.
LEMMA KahnRound ==
  ASSUME NEW V, NEW edges \in Seq(V \X V), NEW seq \in Seq(Nat), NEW n \in Nat,
         NEW q, KahnInv(edges, seq, n, q)
  PROVE  KahnInv(edges, seq, n + 1, RoundOf(edges, seq, n + 1, q))
<1>1. q \in Seq(Nat) /\ IsInjective(q) /\ Len(q) \in Nat /\ DOMAIN q = 1..Len(q)
  BY DEF KahnInv
<1>2. CASE n + 1 > Len(q)
  <2>1. (1..(n + 1)) \cap DOMAIN q = (1..n) \cap DOMAIN q
    BY <1>1, <1>2
  <2>2. RoundOf(edges, seq, n + 1, q) = q
    BY <1>2 DEF RoundOf
  <2>3. Placed(q, n + 1) = Placed(q, n)
    BY <2>1 DEF Placed
  <2>4. KahnInv(edges, seq, n + 1, q)
    BY <2>3 DEF KahnInv
  <2> QED BY <2>2, <2>4
<1>3. CASE ~(n + 1 > Len(q))
  <2> DEFINE P == Placed(q, n)
             s == q[n + 1]
             new == PushedBy(edges, seq, P, s)
             r == q \o new
  <2>1. /\ (1..n) \cap DOMAIN q = 1..n /\ n + 1 \in DOMAIN q
        /\ 1..(n + 1) = (1..n) \cup {n + 1} /\ (n + 1) - 1 = n
    BY <1>1, <1>3
  <2>2. P = {q[m] : m \in 1..((n + 1) - 1)}
    BY <2>1 DEF Placed
  <2>3. RoundOf(edges, seq, n + 1, q) = r
    BY <1>3, <2>2 DEF RoundOf
  <2>4. /\ new \in Seq(Nat) /\ IsInjective(new)
        /\ \A x : x \in ToSet(new) <=>
                  x \in Ready(edges, seq, P \cup {s}) /\ <<s, x>> \in ToSet(edges)
    <3> HIDE DEF P, s
    <3>1. new \in Seq(Nat)
      BY PushFacts
    <3>2. IsInjective(new)
      BY PushFacts
    <3>3. \A x : x \in ToSet(new) <=>
                x \in Ready(edges, seq, P \cup {s}) /\ <<s, x>> \in ToSet(edges)
      BY PushFacts
    <3> QED BY <3>1, <3>2, <3>3
  <2>5. s \notin P
    <3>1. \A m \in 1..n : m \in DOMAIN q /\ m # n + 1
      BY <2>1
    <3>2. \A m \in 1..n : q[m] # q[n + 1]
      BY <1>1, <2>1, <3>1 DEF IsInjective
    <3> QED BY <2>1, <3>2 DEF Placed
  <2> HIDE DEF P, s, new
  <2>6. ToSet(q) = Ready(edges, seq, P)
    BY DEF KahnInv, P
  <2>7. s \in ToSet(seq)
    <3>1. s \in ToSet(q)
      BY <2>1 DEF s, ToSet
    <3> QED BY <2>6, <3>1 DEF Ready
  <2>8. ToSet(q) \cap ToSet(new) = {}
    <3> SUFFICES ASSUME NEW x \in ToSet(q), x \in ToSet(new)
                 PROVE  FALSE
      OBVIOUS
    <3>1. <<s, x>> \in ToSet(edges) /\ x \in Ready(edges, seq, P)
      BY <2>4, <2>6
    <3> QED BY <2>5, <2>7, <3>1 DEF Ready
  <2>9. ToSet(q) \cup ToSet(new) = Ready(edges, seq, P \cup {s})
    <3>1. ToSet(q) \subseteq Ready(edges, seq, P \cup {s})
      BY <2>6 DEF Ready
    <3>2. ASSUME NEW x \in Ready(edges, seq, P \cup {s}), x \notin ToSet(q)
          PROVE  <<s, x>> \in ToSet(edges)
      <4>1. PICK e \in ToSet(edges) : e[2] = x /\ e[1] \in ToSet(seq) /\ e[1] \notin P
        BY <2>6, <3>2 DEF Ready
      <4>2. e[1] = s
        BY <3>2, <4>1 DEF Ready
      <4>3. e = <<e[1], e[2]>>
        BY DEF ToSet
      <4> QED BY <4>1, <4>2, <4>3
    <3> QED BY <2>4, <3>1, <3>2
  <2>10. /\ r \in Seq(Nat) /\ IsInjective(r)
         /\ ToSet(r) = ToSet(q) \cup ToSet(new)
         /\ \A i \in DOMAIN q : i \in DOMAIN r /\ r[i] = q[i]
         /\ \A i \in DOMAIN r : i \notin DOMAIN q => r[i] \in ToSet(new)
    <3>1. /\ r \in Seq(Nat) /\ IsInjective(r)
          /\ ToSet(r) = ToSet(q) \cup ToSet(new)
      <4>1. r \in Seq(Nat)
        BY <1>1, <2>4
      <4>2. ToSet(r) = ToSet(q) \cup ToSet(new)
        <5>1. q \in Seq(Nat) /\ new \in Seq(Nat)
          BY <1>1, <2>4
        <5> QED BY ONLY <5>1, ConcatFacts
      <4>3. IsInjective(r)
        BY <1>1, <2>4, <2>8, ConcatFacts
      <4> QED BY <4>1, <4>2, <4>3
    <3>2. \A i \in DOMAIN q : i \in DOMAIN r /\ r[i] = q[i]
      BY <1>1, <2>4, ConcatFacts
    <3>3. \A i \in DOMAIN r : i \notin DOMAIN q => i - Len(q) \in DOMAIN new /\ r[i] = new[i - Len(q)]
      BY <1>1, <2>4, ConcatFacts
    <3> HIDE DEF r
    <3> QED BY <3>1, <3>2, <3>3 DEF ToSet
  <2> HIDE DEF r
  <2>11. Placed(r, n + 1) = P \cup {s}
    <3>0. \A m \in 1..(n + 1) : m \in DOMAIN q
      BY ONLY <1>1, <1>3, n \in Nat
    <3>1. (1..(n + 1)) \cap DOMAIN r = 1..(n + 1) /\ \A m \in 1..(n + 1) : r[m] = q[m]
      BY <2>10, <3>0, Zenon
    <3>2. Placed(r, n + 1) = {q[m] : m \in 1..(n + 1)}
      BY <3>1 DEF Placed
    <3> QED BY <2>1, <2>2, <3>2 DEF s
  <2>12. ASSUME NEW k \in DOMAIN r, NEW e \in ToSet(edges), e[2] = r[k], e[1] \in ToSet(seq)
         PROVE  \E m \in DOMAIN r : m < k /\ r[m] = e[1]
    <3>1. CASE k \in DOMAIN q
      <4>1. PICK m \in DOMAIN q : m < k /\ q[m] = e[1]
        BY <2>10, <2>12, <3>1 DEF KahnInv
      <4> QED BY <2>10, <4>1
    <3>2. CASE k \notin DOMAIN q
      <4>1. e[1] \in P \cup {s}
        BY <2>4, <2>10, <2>12, <3>2 DEF Ready
      <4>2. PICK m \in 1..(n + 1) : q[m] = e[1]
        BY <2>1, <2>2, <4>1 DEF s
      <4>3. m \in DOMAIN q /\ k \in Nat /\ k > Len(q) /\ m \in Nat
        BY <1>1, <1>3, <2>10, <3>2
      <4>4. m < k
        BY <1>1, <4>3
      <4> QED BY <2>10, <4>2, <4>3, <4>4
    <3> QED BY <3>1, <3>2
  <2>13. KahnInv(edges, seq, n + 1, r)
    BY <2>9, <2>10, <2>11, <2>12 DEF KahnInv
  <2> QED BY <2>3, <2>13
<1> QED BY <1>2, <1>3

\* All rounds.
LEMMA KahnRuns ==
  ASSUME NEW V, NEW edges \in Seq(V \X V), NEW seq \in Seq(Nat), IsInjective(seq)
  PROVE  KahnInv(edges, seq, Len(seq), Kahn(edges, seq))
<1> DEFINE N == Len(seq)
           start == At(seq, {i \in DOMAIN seq : seq[i] \in Ready(edges, seq, {})})
           targets == [i \in DOMAIN edges |-> edges[i][2]]
           round(n) == [q \in Seq(Nat) |->
             IF n > Len(q) THEN q
             ELSE q \o At(targets, Pushed(edges, seq, {q[m] : m \in 1..(n - 1)}, q[n]))]
           E(g) == [n \in 0..N |-> IF n = 0 THEN start ELSE round(n)[g[n - 1]]]
           f == CHOOSE g : g = E(g)
<1>1. N \in Nat
  OBVIOUS
<1>2. KahnInv(edges, seq, 0, start) /\ start \in Seq(Nat)
  BY KahnStarts DEF KahnInv
<1>3. Kahn(edges, seq) = f[N]
  BY DEF Kahn
<1>4. \A n \in Nat : \A q \in Seq(Nat) : round(n)[q] = RoundOf(edges, seq, n, q)
  BY DEF RoundOf, PushedBy, Targets
<1>5. ASSUME NEW n \in 1..N, NEW q \in Seq(Nat)
      PROVE  RoundOf(edges, seq, n, q) \in Seq(Nat)
  <2>1. CASE n > Len(q)
    BY <2>1 DEF RoundOf
  <2>2. CASE ~(n > Len(q))
    <3> DEFINE new == PushedBy(edges, seq, {q[m] : m \in 1..(n - 1)}, q[n])
    <3>1. new \in Seq(Nat)
      BY PushFacts
    <3>2. RoundOf(edges, seq, n, q) = q \o new
      BY <2>2 DEF RoundOf
    <3> HIDE DEF new
    <3> QED BY <3>1, <3>2
  <2> QED BY <2>1, <2>2
<1> HIDE DEF start, round, N
<1>6. \E g : g = E(g)
  <2> DEFINE step == [n \in 1..N |-> [q \in Seq(Nat) |-> RoundOf(edges, seq, n, q)]]
  <2>1. step \in [1..N -> [Seq(Nat) -> Seq(Nat)]]
    BY <1>5
  <2>2. PICK g : Recurs(g, N, Seq(Nat), start, step)
    <3> HIDE DEF step
    <3> QED BY <1>1, <1>2, <2>1, Recursion, Zenon
  <2>3. ASSUME NEW n \in 1..N
        PROVE  g[n] = round(n)[g[n - 1]]
    <3>1. g[n - 1] \in Seq(Nat) /\ g[n] = step[n][g[n - 1]]
      <4> HIDE DEF step
      <4>1. n - 1 \in 0..N
        BY <1>1
      <4> QED BY <2>2, <4>1, Zenon DEF Recurs
    <3>2. step[n][g[n - 1]] = RoundOf(edges, seq, n, g[n - 1])
      BY <3>1
    <3>3. n \in Nat
      BY <1>1
    <3> QED BY <1>4, <3>1, <3>2, <3>3
  <2>4. g = E(g)
    <3>1. \A n \in 0..N : n # 0 => n \in 1..N
      BY <1>1
    <3> QED BY <2>2, <2>3, <3>1, Zenon DEF Recurs
  <2> QED BY <2>4
<1>7. f = E(f)
  BY <1>6
<1> HIDE DEF f
<1>8. f[0] = start /\ \A n \in 1..N : f[n] = round(n)[f[n - 1]]
  <2>1. \A n \in 0..N : f[n] = IF n = 0 THEN start ELSE round(n)[f[n - 1]]
    BY <1>7, Zenon
  <2>2. 0 \in 0..N /\ \A n \in 1..N : n \in 0..N /\ n # 0
    BY <1>1
  <2> QED BY <2>1, <2>2, Zenon
<1>9. ASSUME NEW n \in Nat, n + 1 <= N, KahnInv(edges, seq, n, f[n])
      PROVE  KahnInv(edges, seq, n + 1, f[n + 1])
  <2>1. n + 1 \in 1..N /\ (n + 1) - 1 = n
    BY <1>1, <1>9
  <2>2. f[n + 1] = RoundOf(edges, seq, n + 1, f[n])
    BY <1>4, <1>8, <1>9, <2>1 DEF KahnInv
  <2> QED BY <1>9, <2>2, KahnRound
<1>10. KahnInv(edges, seq, N, f[N])
  <2> DEFINE P == {n \in Nat : n <= N => KahnInv(edges, seq, n, f[n])}
  <2>1. 0 \in P
    BY <1>2, <1>8
  <2>2. \A n \in Nat : n \in P => n + 1 \in P
    BY <1>1, <1>9
  <2> HIDE DEF P
  <2>3. N \in P
    BY <1>1, <2>1, <2>2, Induction
  <2> QED BY <1>1, <2>3 DEF P
<1> QED BY <1>3, <1>10 DEF N

\* There are no more entries in an order than there are in the group.
LEMMA NoLonger ==
  ASSUME NEW seq \in Seq(Nat), NEW q \in Seq(Nat), IsInjective(q),
         ToSet(q) \subseteq ToSet(seq)
  PROVE  Len(q) <= Len(seq)
<1> DEFINE A == 1..Len(q)
           B == 1..Len(seq)
           h == [k \in A |-> CHOOSE i \in B : seq[i] = q[k]]
<1>1. Len(q) \in Nat /\ Len(seq) \in Nat /\ DOMAIN q = A /\ DOMAIN seq = B
  OBVIOUS
<1>2. ASSUME NEW k \in A
      PROVE  h[k] \in B /\ seq[h[k]] = q[k]
  <2>1. \E i \in B : seq[i] = q[k]
    BY <1>1 DEF ToSet
  <2> QED BY <2>1
<1>3. h \in Injection(A, B)
  <2>1. h \in [A -> B]
    BY <1>2
  <2>2. ASSUME NEW k \in A, NEW l \in A, h[k] = h[l]
        PROVE  k = l
    <3>1. q[k] = q[l]
      <4> HIDE DEF h
      <4> QED BY <1>2, <2>2, Zenon
    <3> QED BY <1>1, <3>1, Zenon DEF IsInjective
  <2> HIDE DEF h
  <2> QED BY <2>1, <2>2 DEF Injection, IsInjective
<1>4. IsFiniteSet(B) /\ Cardinality(B) = Len(seq) /\ Cardinality(A) = Len(q)
  <2>1. ASSUME NEW n \in Nat
        PROVE  IsFiniteSet(1..n) /\ Cardinality(1..n) = n
    <3>1. IsFiniteSet(1..n) /\ Cardinality(1..n) = IF 1 > n THEN 0 ELSE n - 1 + 1
      BY FS_Interval
    <3> QED BY <3>1
  <2> QED BY <1>1, <2>1
<1> HIDE DEF h, A, B
<1> QED BY <1>3, <1>4, FS_Injection

Deps == [System -> Seq([order : Orders, target : Target])]

\* The entry a name stands for is the last that has it.
LEMMA EntryNamedFacts ==
  ASSUME NEW group \in Seq(System), NEW t
  PROVE  /\ EntryNamed(group, t) \in Nat
         /\ \A i \in DOMAIN group :
              EntryNamed(group, t) = i <=> Name[group[i]] = t /\ LastOfName(group, i)
<1> DEFINE N == Len(group)
           S == {i \in DOMAIN group : Name[group[i]] = t}
           m == EntryNamed(group, t)
<1>1. N \in Nat /\ DOMAIN group = 1..N /\ S \in SUBSET (1..N)
  OBVIOUS
<1>2. m = Max(S \cup {0})
  BY DEF EntryNamed
<1> HIDE DEF m, S
<1>3. \E x \in S \cup {0} : \A y \in S \cup {0} : x >= y
  <2>1. CASE S = {}
    BY <2>1
  <2>2. CASE S # {}
    <3>1. PICK x \in S : \A y \in S : y <= x
      BY <1>1, <2>2, LastOne
    <3> QED BY <1>1, <3>1
  <2> QED BY <2>1, <2>2
<1>4. m \in S \cup {0} /\ \A y \in S \cup {0} : m >= y
  BY <1>2, <1>3, Zenon DEF Max
<1>5. m \in Nat
  BY <1>1, <1>4
<1>6. ASSUME NEW i \in DOMAIN group, m = i
      PROVE  Name[group[i]] = t /\ LastOfName(group, i)
  <2>1. i # 0 /\ i \in S
    BY <1>1, <1>4, <1>6
  <2>2. ASSUME NEW j \in DOMAIN group, Name[group[j]] = Name[group[i]]
        PROVE  j <= i
    <3>1. j \in S
      BY <2>1, <2>2 DEF S
    <3> QED BY <1>1, <1>4, <1>6, <3>1
  <2> QED BY <2>1, <2>2 DEF S, LastOfName
<1>7. ASSUME NEW i \in DOMAIN group, Name[group[i]] = t, LastOfName(group, i)
      PROVE  m = i
  <2>1. i \in S /\ m >= i /\ i \in Nat /\ i > 0
    BY <1>1, <1>4, <1>7 DEF S
  <2>2. m \in S
    BY <1>4, <1>5, <2>1
  <2>3. m \in DOMAIN group /\ Name[group[m]] = Name[group[i]]
    BY <1>7, <2>2 DEF S
  <2>4. m <= i
    BY <1>7, <2>3 DEF LastOfName
  <2> QED BY <1>5, <2>1, <2>4
<1> QED BY <1>5, <1>6, <1>7 DEF m

\* The edges are what the systems' constraints say.
LEMMA EdgesFacts ==
  ASSUME NEW d \in Deps, NEW group \in Seq(System)
  PROVE  /\ Edges(d, group) \in Seq(Nat \X Nat)
         /\ \A e : e \in ToSet(Edges(d, group)) <=>
              \E i \in DOMAIN group : \E k \in DOMAIN d[group[i]] : e = EdgesOf(d, group, i)[k]
<1> DEFINE of == [i \in DOMAIN group |-> EdgesOf(d, group, i)]
<1>0. DOMAIN group = 1..Len(group) /\ Len(group) \in Nat
  OBVIOUS
<1>1. ASSUME NEW i \in DOMAIN group
      PROVE  /\ EdgesOf(d, group, i) \in Seq(Nat \X Nat)
             /\ DOMAIN EdgesOf(d, group, i) = DOMAIN d[group[i]]
  <2>1. d[group[i]] \in Seq([order : Orders, target : Target])
    <3>1. group[i] \in System
      OBVIOUS
    <3> QED BY <3>1, Zenon DEF Deps
  <2>2. DOMAIN d[group[i]] = 1..Len(d[group[i]]) /\ Len(d[group[i]]) \in Nat
    BY <2>1
  <2>3. ASSUME NEW k \in DOMAIN d[group[i]]
        PROVE  EntryNamed(group, d[group[i]][k].target) \in Nat
    BY EntryNamedFacts
  <2>4. i \in Nat
    BY <1>0
  <2> QED BY <2>2, <2>3, <2>4 DEF EdgesOf
<1>2. of \in Seq(Seq(Nat \X Nat)) /\ DOMAIN of = DOMAIN group
  BY <1>0, <1>1
<1>3. Edges(d, group) = FlattenSeq(of)
  BY DEF Edges
<1>4. /\ FlattenSeq(of) \in Seq(Nat \X Nat)
      /\ ToSet(FlattenSeq(of)) = UNION {ToSet(of[i]) : i \in DOMAIN of}
  <2> HIDE DEF of
  <2> QED BY <1>2, FlattenFacts
<1>5. ASSUME NEW e
      PROVE  e \in ToSet(Edges(d, group)) <=>
               \E i \in DOMAIN group : \E k \in DOMAIN d[group[i]] : e = EdgesOf(d, group, i)[k]
  <2>1. e \in ToSet(Edges(d, group)) <=> \E i \in DOMAIN group : e \in ToSet(of[i])
    <3> HIDE DEF of
    <3> QED BY <1>2, <1>3, <1>4
  <2>2. ASSUME NEW i \in DOMAIN group
        PROVE  e \in ToSet(of[i]) <=>
                 \E k \in DOMAIN d[group[i]] : e = EdgesOf(d, group, i)[k]
    <3>1. of[i] = EdgesOf(d, group, i) /\ DOMAIN EdgesOf(d, group, i) = DOMAIN d[group[i]]
      BY <1>1
    <3> HIDE DEF of
    <3> QED BY <3>1 DEF ToSet
  <2> QED BY <2>1, <2>2
<1> QED BY <1>3, <1>4, <1>5

\* The constraints between the entries of a group are the edges between them.
LEMMA ConstraintEdges ==
  ASSUME deps \in Deps, NEW group \in Seq(System), NEW i \in DOMAIN group, NEW j \in DOMAIN group
  PROVE  <<i, j>> \in Constraint(group) <=>
           \E e \in ToSet(Edges(deps, group)) : e[1] = i /\ e[2] = j
<1> DEFINE Before(x, k, y) == deps[group[x]][k] = [order |-> "Before", target |-> Name[group[y]]]
           After(x, k, y) == deps[group[x]][k] = [order |-> "After", target |-> Name[group[y]]]
<1>1. <<i, j>> \in Constraint(group) <=>
        \/ LastOfName(group, i) /\ \E k \in DOMAIN deps[group[j]] : After(j, k, i)
        \/ LastOfName(group, j) /\ \E k \in DOMAIN deps[group[i]] : Before(i, k, j)
  BY DEF Constraint
<1>2. ASSUME NEW x \in DOMAIN group, NEW k \in DOMAIN deps[group[x]], NEW y \in DOMAIN group
      PROVE  /\ LastOfName(group, y) /\ After(x, k, y) <=>
                  /\ deps[group[x]][k].order = "After"
                  /\ EntryNamed(group, deps[group[x]][k].target) = y
             /\ LastOfName(group, y) /\ Before(x, k, y) <=>
                  /\ deps[group[x]][k].order # "After"
                  /\ EntryNamed(group, deps[group[x]][k].target) = y
  <2> DEFINE D == [order : Orders, target : Target]
             c == deps[group[x]][k]
  <2>1. c \in D
    <3> HIDE DEF D
    <3>0. group[x] \in System
      OBVIOUS
    <3>1. deps[group[x]] \in Seq(D)
      BY <3>0, Zenon DEF Deps, D
    <3> QED BY <3>1
  <2>2. /\ c = [order |-> c.order, target |-> c.target]
        /\ c.order # "After" => c.order = "Before"
    BY <2>1 DEF Orders
  <2>3. EntryNamed(group, c.target) = y <=> Name[group[y]] = c.target /\ LastOfName(group, y)
    BY EntryNamedFacts
  <2>4. /\ After(x, k, y) <=> c.order = "After" /\ c.target = Name[group[y]]
        /\ Before(x, k, y) <=> c.order # "After" /\ c.target = Name[group[y]]
    <3> HIDE DEF D
    <3> QED BY <2>2
  <2> HIDE DEF c
  <2> QED BY <2>3, <2>4 DEF c
<1>3. ASSUME NEW x \in DOMAIN group, NEW k \in DOMAIN deps[group[x]]
      PROVE  EdgesOf(deps, group, x)[k] =
               IF deps[group[x]][k].order = "After"
               THEN <<EntryNamed(group, deps[group[x]][k].target), x>>
               ELSE <<x, EntryNamed(group, deps[group[x]][k].target)>>
  BY DEF EdgesOf
<1>4. ASSUME NEW k \in DOMAIN deps[group[j]], LastOfName(group, i), After(j, k, i)
      PROVE  <<i, j>> \in ToSet(Edges(deps, group))
  <2>1. EdgesOf(deps, group, j)[k] = <<i, j>>
    <3>1. /\ deps[group[j]][k].order = "After"
          /\ EntryNamed(group, deps[group[j]][k].target) = i
      BY <1>2, <1>4
    <3> QED BY <1>3, <3>1
  <2> QED BY <2>1, EdgesFacts
<1>5. ASSUME NEW k \in DOMAIN deps[group[i]], LastOfName(group, j), Before(i, k, j)
      PROVE  <<i, j>> \in ToSet(Edges(deps, group))
  <2>1. EdgesOf(deps, group, i)[k] = <<i, j>>
    <3>1. /\ deps[group[i]][k].order # "After"
          /\ EntryNamed(group, deps[group[i]][k].target) = j
      BY <1>2, <1>5
    <3> QED BY <1>3, <3>1
  <2> QED BY <2>1, EdgesFacts
<1>6. ASSUME NEW e \in ToSet(Edges(deps, group)), e[1] = i, e[2] = j
      PROVE  <<i, j>> \in Constraint(group)
  <2>0. PICK x \in DOMAIN group : \E k \in DOMAIN deps[group[x]] : e = EdgesOf(deps, group, x)[k]
    BY EdgesFacts
  <2>1. PICK k \in DOMAIN deps[group[x]] : e = EdgesOf(deps, group, x)[k]
    BY <2>0
  <2>2. CASE deps[group[x]][k].order = "After"
    <3>1. e = <<EntryNamed(group, deps[group[x]][k].target), x>>
      BY <1>3, <2>1, <2>2
    <3>2. EntryNamed(group, deps[group[x]][k].target) = i /\ x = j
      BY <1>6, <3>1
    <3>3. LastOfName(group, i) /\ After(x, k, i)
      BY <1>2, <2>2, <3>2
    <3> QED BY <1>1, <3>2, <3>3
  <2>3. CASE deps[group[x]][k].order # "After"
    <3>1. e = <<x, EntryNamed(group, deps[group[x]][k].target)>>
      BY <1>3, <2>1, <2>3
    <3>2. EntryNamed(group, deps[group[x]][k].target) = j /\ x = i
      BY <1>6, <3>1
    <3>3. LastOfName(group, j) /\ Before(x, k, j)
      BY <1>2, <2>3, <3>2
    <3> QED BY <1>1, <3>2, <3>3
  <2> QED BY <2>2, <2>3
<1>7. ASSUME <<i, j>> \in ToSet(Edges(deps, group))
      PROVE  \E e \in ToSet(Edges(deps, group)) : e[1] = i /\ e[2] = j
  BY <1>7
<1> HIDE DEF Before, After
<1> QED BY <1>1, <1>4, <1>5, <1>6, <1>7

LEMMA EntriesFacts ==
  ASSUME NEW group \in Seq(System)
  PROVE  /\ Entries(group) \in Seq(Nat) /\ IsInjective(Entries(group))
         /\ ToSet(Entries(group)) = DOMAIN group /\ Len(Entries(group)) = Len(group)
<1>1. DOMAIN group = 1..Len(group) /\ Len(group) \in Nat
  OBVIOUS
<1>2. Entries(group) \in Seq(Nat) /\ Len(Entries(group)) = Len(group)
  BY <1>1 DEF Entries
<1> QED BY <1>1, <1>2 DEF Entries, IsInjective, ToSet

\* What recompute_order() computes: each entry of the group once, and none before
\* one that must come before it, unless it is on a cycle or behind one.
LEMMA OrderFacts ==
  ASSUME NEW d \in Deps, NEW group \in Seq(System)
  PROVE  LET edges == Edges(d, group)
             q == Kahn(edges, Entries(group))
             r == EntryOrder(d, group)
         IN /\ r \in Seq(Nat) /\ IsInjective(r) /\ ToSet(r) = DOMAIN group
            /\ DOMAIN r = DOMAIN group
            /\ q \in Seq(Nat) /\ \A k \in DOMAIN q : k \in DOMAIN r /\ r[k] = q[k]
            /\ ToSet(q) = Ready(edges, Entries(group), ToSet(q))
            /\ \A k \in DOMAIN q : \A e \in ToSet(edges) :
                 e[2] = q[k] /\ e[1] \in DOMAIN group => \E m \in DOMAIN q : m < k /\ q[m] = e[1]
<1> DEFINE seq == Entries(group)
           edges == Edges(d, group)
           q == Kahn(edges, seq)
           r == EntryOrder(d, group)
           I(f, o) == {i \in DOMAIN seq : seq[i] \notin Ready(f, seq, ToSet(o))}
           rest == At(seq, I(edges, q))
           withRest(f) == [o \in Seq(Nat) |-> o \o At(seq, I(f, o))]
<1>0. seq \in Seq(Nat) /\ IsInjective(seq) /\ ToSet(seq) = DOMAIN group /\ Len(seq) = Len(group)
  BY EntriesFacts
<1>a. edges \in Seq(Nat \X Nat)
  BY EdgesFacts
<1>b. r = [f \in Seq(Nat \X Nat) |-> withRest(f)[Kahn(f, seq)]][edges]
  BY DEF EntryOrder
<1> HIDE DEF seq, edges
<1>1. KahnInv(edges, seq, Len(seq), q)
  BY <1>0, <1>a, KahnRuns
<1>2. q \in Seq(Nat) /\ IsInjective(q) /\ ToSet(q) \subseteq ToSet(seq)
  BY <1>1 DEF KahnInv, Ready
<1>3. ToSet(q) = Ready(edges, seq, ToSet(q))
  <2> HIDE DEF q
  <2>1. Len(q) <= Len(seq)
    BY <1>0, <1>2, NoLonger
  <2>2. (1..Len(seq)) \cap DOMAIN q = DOMAIN q
    <3>1. DOMAIN q = 1..Len(q) /\ Len(q) \in Nat /\ Len(seq) \in Nat
      BY <1>0, <1>2
    <3> QED BY <2>1, <3>1
  <2>3. Placed(q, Len(seq)) = ToSet(q)
    BY <2>2 DEF Placed, ToSet
  <2> QED BY <1>1, <2>3 DEF KahnInv
<1>4. r = q \o rest
  <2>1. r = withRest(edges)[q]
    <3> HIDE DEF withRest, r
    <3> QED BY <1>a, <1>b
  <2> HIDE DEF q, r
  <2> QED BY <1>2, <2>1
<1>5. rest \in Seq(Nat) /\ IsInjective(rest) /\ ToSet(rest) = ToSet(seq) \ ToSet(q)
  <2> DEFINE J == I(edges, q)
  <2>1. J \subseteq DOMAIN seq /\ J \cap DOMAIN seq = J
    OBVIOUS
  <2>2. {seq[i] : i \in J} = ToSet(seq) \ ToSet(q)
    <3> HIDE DEF q
    <3> QED BY <1>3 DEF ToSet
  <2> HIDE DEF J
  <2>3. At(seq, J) \in Seq(Nat) /\ IsInjective(At(seq, J)) /\ ToSet(At(seq, J)) = {seq[i] : i \in J}
    BY <1>0, <2>1, AtFacts DEF IsInjective
  <2> QED BY <2>2, <2>3 DEF J
<1> HIDE DEF r, rest, q
<1>6. r \in Seq(Nat)
  BY <1>2, <1>4, <1>5
<1>7. IsInjective(r)
  BY <1>2, <1>4, <1>5, ConcatFacts
<1>8. ToSet(r) = ToSet(seq)
  <2>1. ToSet(r) = ToSet(q) \cup ToSet(rest)
    <3>1. q \in Seq(Nat) /\ rest \in Seq(Nat) /\ r = q \o rest
      BY <1>2, <1>4, <1>5
    <3> QED BY ONLY <3>1, ConcatFacts
  <2> QED BY <1>2, <1>5, <2>1
<1>9. \A k \in DOMAIN q : k \in DOMAIN r /\ r[k] = q[k]
  BY <1>2, <1>4, <1>5, ConcatFacts
<1>10. \A k \in DOMAIN q : \A e \in ToSet(edges) :
         e[2] = q[k] /\ e[1] \in DOMAIN group => \E m \in DOMAIN q : m < k /\ q[m] = e[1]
  BY <1>0, <1>1 DEF KahnInv
<1>11. DOMAIN r = DOMAIN group
  <2>1. Len(r) <= Len(seq)
    BY <1>0, <1>6, <1>7, <1>8, NoLonger
  <2>2. Len(seq) <= Len(r)
    BY <1>0, <1>6, <1>8, NoLonger
  <2>3. Len(r) \in Nat /\ Len(seq) \in Nat /\ DOMAIN r = 1..Len(r) /\ DOMAIN group = 1..Len(group)
    BY <1>0, <1>6
  <2> QED BY <1>0, <2>1, <2>2, <2>3
<1> QED BY <1>0, <1>2, <1>3, <1>6, <1>7, <1>8, <1>9, <1>10, <1>11 DEF q, r, seq, edges

\* The order of a group is one of its systems.
LEMMA TopologicalFacts ==
  ASSUME NEW d \in Deps, NEW group \in Seq(System)
  PROVE  /\ TopologicalOrder(d, group) \in Seq(System)
         /\ DOMAIN TopologicalOrder(d, group) = DOMAIN group
         /\ ToSet(TopologicalOrder(d, group)) = ToSet(group)
         /\ \A k \in DOMAIN group : TopologicalOrder(d, group)[k] = group[EntryOrder(d, group)[k]]
<1> DEFINE r == EntryOrder(d, group)
           t == TopologicalOrder(d, group)
<1>1. r \in Seq(Nat) /\ ToSet(r) = DOMAIN group /\ DOMAIN r = DOMAIN group
  BY OrderFacts
<1>2. t = [k \in DOMAIN r |-> group[r[k]]]
  <2>1. t = [order \in Seq(Nat) |-> [k \in DOMAIN order |-> group[order[k]]]][r]
    BY DEF TopologicalOrder, InOrder
  <2> HIDE DEF r, t
  <2> QED BY <1>1, <2>1
<1> HIDE DEF r, t
<1>3. \A k \in DOMAIN group : r[k] \in DOMAIN group
  BY <1>1 DEF ToSet
<1>4. DOMAIN group = 1..Len(group) /\ Len(group) \in Nat
  OBVIOUS
<1>5. t \in Seq(System) /\ DOMAIN t = DOMAIN group
  BY <1>1, <1>2, <1>3, <1>4
<1>6. ToSet(t) = ToSet(group)
  <2>1. \A i \in DOMAIN group : \E k \in DOMAIN group : r[k] = i
    BY <1>1 DEF ToSet
  <2> QED BY <1>1, <1>2, <1>3, <2>1 DEF ToSet
<1> QED BY <1>1, <1>2, <1>5, <1>6 DEF r, t

\* The order of a group keeps all constraints if they can all be kept.
LEMMA OrderIsRight ==
  ASSUME deps \in Deps, NEW group \in Seq(System),
         Acyclic(Constraint(group), DOMAIN group), NEW p \in Constraint(group),
         NEW x \in DOMAIN group, NEW y \in DOMAIN group,
         EntryOrder(deps, group)[x] = p[1], EntryOrder(deps, group)[y] = p[2]
  PROVE  x < y
<1> DEFINE S == DOMAIN group
           edges == Edges(deps, group)
           q == Kahn(edges, Entries(group))
           r == EntryOrder(deps, group)
<1>1. /\ r \in Seq(Nat) /\ IsInjective(r) /\ ToSet(r) = S /\ DOMAIN r = S
      /\ q \in Seq(Nat) /\ \A k \in DOMAIN q : k \in DOMAIN r /\ r[k] = q[k]
      /\ ToSet(q) = Ready(edges, Entries(group), ToSet(q))
      /\ \A k \in DOMAIN q : \A e \in ToSet(edges) :
           e[2] = q[k] /\ e[1] \in S => \E m \in DOMAIN q : m < k /\ q[m] = e[1]
  BY OrderFacts
<1>2. p[1] \in S /\ p[2] \in S /\ p = <<p[1], p[2]>>
  BY DEF Constraint
<1>3. PICK e \in ToSet(edges) : e[1] = p[1] /\ e[2] = p[2]
  BY <1>2, ConstraintEdges
<1> HIDE DEF q, r
\* What is not placed waits, each for another that is not: there is none.
<1>4. S \subseteq ToSet(q)
  <2> DEFINE T == S \ ToSet(q)
  <2> SUFFICES ASSUME T # {} PROVE FALSE
    OBVIOUS
  <2>1. PICK t \in T : \A s \in T : <<s, t>> \notin Constraint(group)
    BY DEF Acyclic
  <2>2. PICK f \in ToSet(edges) : f[2] = t /\ f[1] \in S /\ f[1] \notin ToSet(q)
    <3>1. ToSet(Entries(group)) = S
      BY EntriesFacts
    <3>2. t \notin Ready(edges, Entries(group), ToSet(q)) /\ t \in S
      <4>1. ToSet(q) = Ready(edges, Entries(group), ToSet(q))
        BY <1>1, Zenon
      <4> HIDE DEF edges
      <4> QED BY <2>1, <4>1, Zenon
    <3> HIDE DEF edges
    <3> QED BY <3>1, <3>2, Zenon DEF Ready
  <2>3. <<f[1], t>> \in Constraint(group)
    BY <2>1, <2>2, ConstraintEdges
  <2> QED BY <2>1, <2>2, <2>3
<1>5. PICK k \in DOMAIN q : q[k] = p[2]
  BY <1>2, <1>4 DEF ToSet
<1>6. PICK m \in DOMAIN q : m < k /\ q[m] = p[1]
  BY <1>1, <1>2, <1>3, <1>5
<1>7. x = m /\ y = k
  <2>1. /\ x \in DOMAIN r /\ m \in DOMAIN r /\ r[x] = r[m]
        /\ y \in DOMAIN r /\ k \in DOMAIN r /\ r[y] = r[k]
    BY <1>1, <1>5, <1>6 DEF r
  <2> QED BY <1>1, <2>1 DEF IsInjective
<1> QED BY <1>6, <1>7

(***************************************************************************)
(* The calls under way.                                                    *)
(***************************************************************************)

Frame == [group : Group, next : Nat, handling : BOOLEAN]

\* The calls under way walk orders that are there, and a handler that runs is
\* the handler of a system in one of them.
Frames ==
  /\ stack \in Seq(Frame)
  /\ \A i \in DOMAIN stack :
       /\ stack[i].group \in DOMAIN cache
       /\ stack[i].handling => stack[i].next \in DOMAIN cache[stack[i].group]

\* Commands that are waiting belong to a system whose handler still runs, or to
\* a system of a group that is still walked and will be flushed at its end.
Awaited ==
  \A s \in pending :
    /\ FlushMode[s] = "PER_SYSTEM" => Handling(s)
    /\ FlushMode[s] = "PER_GROUP" =>
         \E i \in DOMAIN stack : s \in ToSet(cache[stack[i].group])

SchedulerInv == Frames /\ Awaited

(***************************************************************************)
(* The orders that are walked.                                             *)
(***************************************************************************)

\* An order is not touched while a call of process() walks it.
OrdersStay ==
  \A i \in DOMAIN stack :
    /\ stack[i].group \in DOMAIN cache'
    /\ cache'[stack[i].group] = cache[stack[i].group]

\* Forgetting the order of a group leaves the others alone.
LEMMA ForgetOther ==
  ASSUME NEW g, NEW h \in DOMAIN cache, h # g
  PROVE  h \in DOMAIN Forget(g) /\ Forget(g)[h] = cache[h]
BY DEF Forget, Restrict

\* What the program does between or inside calls of process() keeps the orders
\* that are walked: add_system() and remove_system() change another group, and
\* process() computes an order only where there is none.
LEMMA StepKeepsOrders ==
  ASSUME Frames, [Next]_vars
  PROVE  OrdersStay
<1>1. CASE cache' = cache
  BY <1>1 DEF Frames, OrdersStay
<1>2. ASSUME NEW g, ~Walked(g), cache' = Forget(g)
      PROVE  OrdersStay
  <2> SUFFICES ASSUME NEW i \in DOMAIN stack
               PROVE  /\ stack[i].group \in DOMAIN cache'
                      /\ cache'[stack[i].group] = cache[stack[i].group]
    BY DEF OrdersStay
  <2>1. stack[i].group \in DOMAIN cache /\ stack[i].group # g
    BY <1>2 DEF Frames, Walked
  <2> QED BY <1>2, <2>1, ForgetOther
<1>3. ASSUME NEW s \in System, AddSystem(s) \/ RemoveSystem(s)
      PROVE  OrdersStay
  BY <1>2, <1>3 DEF AddSystem, RemoveSystem
<1>4. CASE Clear
  BY <1>4 DEF Clear, OrdersStay
<1>5. ASSUME NEW g \in Group, Process(g)
      PROVE  OrdersStay
  <2>1. CASE members[g] = <<>>
    BY <1>1, <1>5, <2>1 DEF Process
  <2>2. CASE members[g] # <<>> /\ g \in DOMAIN cache
    BY <1>1, <1>5, <2>2 DEF Process
  <2>3. CASE members[g] # <<>> /\ g \notin DOMAIN cache
    <3>1. cache' = With(cache, g, TopologicalOrder(deps, members[g]))
      BY <1>5, <2>3 DEF Process
    <3> QED BY <2>3, <3>1 DEF Frames, OrdersStay, With
  <2> QED BY <2>1, <2>2, <2>3
<1>6. ASSUME NEW s \in System, Enable(s)
      PROVE  OrdersStay
  BY <1>1, <1>6 DEF Enable, registry
<1>7. CASE QueueCommand
  BY <1>1, <1>7 DEF QueueCommand, registry
<1>8. CASE ProcessStep
  BY <1>1, <1>8 DEF ProcessStep, SkipSystem, RunSystem, HandlerReturns, EndGroup, registry
<1>9. CASE UNCHANGED vars
  BY <1>1, <1>9 DEF vars, registry
<1> QED BY <1>3, <1>4, <1>5, <1>6, <1>7, <1>8, <1>9 DEF Next

(***************************************************************************)
(* Steps that keep the calls under way.                                    *)
(***************************************************************************)

\* A step that changes neither the calls nor the orders they walk, and queues
\* nothing, keeps the invariant.
LEMMA SameCalls ==
  ASSUME SchedulerInv, OrdersStay, stack' = stack, pending' \subseteq pending
  PROVE  SchedulerInv'
<1>1. Frames'
  BY DEF SchedulerInv, Frames, OrdersStay
<1>2. ASSUME NEW s \in pending'
      PROVE  /\ FlushMode[s] = "PER_SYSTEM" => Handling(s)'
             /\ FlushMode[s] = "PER_GROUP" =>
                  \E i \in DOMAIN stack' : s \in ToSet(cache'[stack'[i].group])
  BY <1>2 DEF SchedulerInv, Awaited, OrdersStay, Handling
<1> QED BY <1>1, <1>2 DEF SchedulerInv, Awaited

\* The handler of the innermost call queues a command: its system is the one
\* that is handled, and in the group that is walked.
LEMMA QueueStep ==
  ASSUME SchedulerInv, OrdersStay, QueueCommand
  PROVE  SchedulerInv'
<1> USE DEF QueueCommand, registry
<1>1. Frames'
  BY DEF SchedulerInv, Frames
<1>2. Len(stack) \in DOMAIN stack /\ Top.handling
  BY DEF SchedulerInv, Frames
<1>3. Top.next \in DOMAIN Order
  BY <1>2 DEF SchedulerInv, Frames, Top, Order
<1>4. Handling(Current)
  BY <1>2 DEF Handling, Top, Current, Order
<1>5. Current \in ToSet(cache[stack[Len(stack)].group])
  BY <1>3 DEF Top, Current, Order, ToSet
<1>6. ASSUME NEW s \in pending'
      PROVE  /\ FlushMode[s] = "PER_SYSTEM" => Handling(s)
             /\ FlushMode[s] = "PER_GROUP" =>
                  \E i \in DOMAIN stack : s \in ToSet(cache[stack[i].group])
  BY <1>2, <1>4, <1>5, <1>6 DEF SchedulerInv, Awaited
<1> QED BY <1>1, <1>6 DEF SchedulerInv, Awaited, Handling

(***************************************************************************)
(* Steps of process().                                                     *)
(***************************************************************************)

\* A call of process() starts: the calls around it are as they were.
LEMMA ProcessCalls ==
  ASSUME SchedulerInv, OrdersStay, NEW g \in Group, Process(g)
  PROVE  SchedulerInv'
<1>1. CASE members[g] = <<>>
  BY <1>1, SameCalls DEF Process
<1>2. CASE members[g] # <<>>
  <2> DEFINE f == [group |-> g, next |-> 1, handling |-> FALSE]
  <2>1. stack' = Append(stack, f) /\ pending' = pending /\ g \in DOMAIN cache'
    BY <1>2 DEF Process, With
  <2>2. stack \in Seq(Frame) /\ f \in Frame
    BY DEF SchedulerInv, Frames, Frame
  <2>3. /\ stack' \in Seq(Frame)
        /\ DOMAIN stack' = DOMAIN stack \cup {Len(stack) + 1}
        /\ \A i \in DOMAIN stack : stack'[i] = stack[i]
        /\ stack'[Len(stack) + 1] = f
    <3> HIDE DEF f
    <3> QED BY <2>1, <2>2
  <2>4. Frames'
    BY <2>1, <2>3 DEF SchedulerInv, Frames, OrdersStay
  <2>5. ASSUME NEW s \in pending'
        PROVE  /\ FlushMode[s] = "PER_SYSTEM" => Handling(s)'
               /\ FlushMode[s] = "PER_GROUP" =>
                    \E i \in DOMAIN stack' : s \in ToSet(cache'[stack'[i].group])
    <3> HIDE DEF f
    <3>1. s \in pending
      BY <2>1
    <3> QED BY <2>3, <3>1 DEF SchedulerInv, Awaited, OrdersStay, Handling
  <2> QED BY <2>4, <2>5 DEF SchedulerInv, Awaited
<1> QED BY <1>1, <1>2

\* What process() makes of a call under way is a call of the same group.
LEMMA CallStaysFrame ==
  ASSUME NEW e \in Frame
  PROVE  /\ [e EXCEPT !.next = @ + 1] \in Frame
         /\ [e EXCEPT !.next = @ + 1].group = e.group
         /\ [e EXCEPT !.next = @ + 1].handling <=> e.handling
         /\ [e EXCEPT !.handling = TRUE] \in Frame
         /\ [e EXCEPT !.handling = TRUE].group = e.group
         /\ [e EXCEPT !.handling = TRUE].next = e.next
         /\ [e EXCEPT !.next = @ + 1, !.handling = FALSE] \in Frame
         /\ [e EXCEPT !.next = @ + 1, !.handling = FALSE].group = e.group
         /\ ~[e EXCEPT !.next = @ + 1, !.handling = FALSE].handling
<1>1. /\ [e EXCEPT !.next = @ + 1] \in Frame
      /\ [e EXCEPT !.next = @ + 1].group = e.group
  BY DEF Frame
<1>2. [e EXCEPT !.next = @ + 1].handling <=> e.handling
  BY DEF Frame
<1>3. [e EXCEPT !.handling = TRUE] \in Frame
  BY DEF Frame
<1>4. /\ [e EXCEPT !.handling = TRUE].group = e.group
      /\ [e EXCEPT !.handling = TRUE].next = e.next
  BY DEF Frame
<1>5. [e EXCEPT !.next = @ + 1, !.handling = FALSE] \in Frame
  <2> DEFINE d == [e EXCEPT !.next = @ + 1]
  <2>1. [d EXCEPT !.handling = FALSE] \in Frame
    <3> HIDE DEF d
    <3>1. d \in Frame
      BY <1>1 DEF d
    <3> QED BY <3>1 DEF Frame
  <2>2. [e EXCEPT !.next = @ + 1, !.handling = FALSE] = [d EXCEPT !.handling = FALSE]
    OBVIOUS
  <2> QED BY <2>1, <2>2
<1>6. /\ [e EXCEPT !.next = @ + 1, !.handling = FALSE].group = e.group
      /\ ~[e EXCEPT !.next = @ + 1, !.handling = FALSE].handling
  BY DEF Frame
<1> QED BY <1>1, <1>2, <1>3, <1>4, <1>5, <1>6

\* A call that moves on to the next system, or starts the handler of the one it
\* is at: no handler ends, and the order is the same.
LEMMA CallMoves ==
  ASSUME SchedulerInv, SkipSystem \/ RunSystem
  PROVE  SchedulerInv'
<1> DEFINE n == Len(stack)
           f == stack'[n]
<1>1. /\ stack \in Seq(Frame) /\ n \in DOMAIN stack /\ ~stack[n].handling
      /\ stack[n].next \in DOMAIN cache[stack[n].group]
      /\ cache' = cache /\ pending' = pending
  BY DEF SchedulerInv, Frames, SkipSystem, RunSystem, AtSystem, Top, Order, registry
<1>2. /\ stack' = [stack EXCEPT ![n] = f]
      /\ f \in Frame /\ f.group = stack[n].group
      /\ f.handling => f.next = stack[n].next
  <2>0. stack[n] \in Frame
    BY <1>1
  <2>1. CASE SkipSystem
    <3>1. stack' = [stack EXCEPT ![n] = [stack[n] EXCEPT !.next = @ + 1]]
      BY <2>1 DEF SkipSystem, SetTop, Top
    <3> QED BY <1>1, <2>0, <3>1, CallStaysFrame
  <2>2. CASE RunSystem
    <3>1. stack' = [stack EXCEPT ![n] = [stack[n] EXCEPT !.handling = TRUE]]
      BY <2>2 DEF RunSystem, SetTop, Top
    <3> QED BY <1>1, <2>0, <3>1, CallStaysFrame
  <2> QED BY <2>1, <2>2
<1> HIDE DEF f, n
<1>3. /\ stack' \in Seq(Frame) /\ DOMAIN stack' = DOMAIN stack
      /\ \A i \in DOMAIN stack : i # n => stack'[i] = stack[i]
      /\ stack'[n] = f
  BY <1>1, <1>2
<1>4. Frames'
  BY <1>1, <1>2, <1>3 DEF SchedulerInv, Frames
<1>5. ASSUME NEW s \in pending'
      PROVE  /\ FlushMode[s] = "PER_SYSTEM" => Handling(s)'
             /\ FlushMode[s] = "PER_GROUP" =>
                  \E i \in DOMAIN stack' : s \in ToSet(cache'[stack'[i].group])
  BY <1>1, <1>2, <1>3, <1>5 DEF SchedulerInv, Awaited, Handling
<1> QED BY <1>4, <1>5 DEF SchedulerInv, Awaited

\* A handler returns: the commands of its system are applied, and everything
\* else that waits, if it asks for that; otherwise what waits is awaited by a
\* call further out or at the end of a group.
LEMMA HandlerEnds ==
  ASSUME SchedulerInv, HandlerReturns
  PROVE  SchedulerInv'
<1> DEFINE n == Len(stack)
           f == [stack[n] EXCEPT !.next = @ + 1, !.handling = FALSE]
<1>1. /\ stack \in Seq(Frame) /\ n \in DOMAIN stack
      /\ stack' = [stack EXCEPT ![n] = f]
      /\ cache' = cache
  BY DEF SchedulerInv, Frames, HandlerReturns, SetTop, Top, registry
<1>2. f \in Frame /\ f.group = stack[n].group /\ ~f.handling
  <2>1. stack[n] \in Frame
    BY <1>1
  <2> QED BY <2>1, CallStaysFrame
<1> HIDE DEF f
<1>3. /\ stack' \in Seq(Frame) /\ DOMAIN stack' = DOMAIN stack
      /\ \A i \in DOMAIN stack : i # n => stack'[i] = stack[i]
      /\ stack'[n] = f
  BY <1>1, <1>2
<1>4. Frames'
  BY <1>1, <1>2, <1>3 DEF SchedulerInv, Frames
<1>5. ASSUME NEW s \in pending'
      PROVE  /\ FlushMode[s] = "PER_SYSTEM" => Handling(s)'
             /\ FlushMode[s] = "PER_GROUP" =>
                  \E i \in DOMAIN stack' : s \in ToSet(cache'[stack'[i].group])
  <2>1. s \in pending /\ FlushMode[Current] # "PER_SYSTEM"
    BY <1>5 DEF HandlerReturns
  <2>2. ASSUME FlushMode[s] = "PER_SYSTEM"
        PROVE  Handling(s)'
    <3>1. PICK i \in DOMAIN stack : stack[i].handling /\ cache[stack[i].group][stack[i].next] = s
      BY <2>1, <2>2 DEF SchedulerInv, Awaited, Handling
    <3>2. i # n
      BY <2>1, <2>2, <3>1 DEF Current, Order, Top
    <3> QED BY <1>1, <1>3, <3>1, <3>2 DEF Handling
  <2>3. FlushMode[s] = "PER_GROUP" =>
          \E i \in DOMAIN stack' : s \in ToSet(cache'[stack'[i].group])
    BY <1>1, <1>2, <1>3, <2>1 DEF SchedulerInv, Awaited
  <2> QED BY <2>2, <2>3
<1> QED BY <1>4, <1>5 DEF SchedulerInv, Awaited

\* A group ends: if a system in it asks for that the commands are applied, and
\* otherwise none of those that wait was awaited here.
LEMMA GroupEnds ==
  ASSUME SchedulerInv, EndGroup
  PROVE  SchedulerInv'
<1> DEFINE n == Len(stack)
<1>1. /\ stack \in Seq(Frame) /\ stack # <<>> /\ n \in DOMAIN stack
      /\ stack' = Front(stack) /\ cache' = cache
      /\ ~stack[n].handling
  BY DEF SchedulerInv, Frames, EndGroup, Top, registry
<1>2. /\ stack' \in Seq(Frame)
      /\ DOMAIN stack' = DOMAIN stack \ {n}
      /\ \A i \in DOMAIN stack' : stack'[i] = stack[i]
  BY <1>1 DEF Front
<1> HIDE DEF n
<1>3. Frames'
  BY <1>1, <1>2 DEF SchedulerInv, Frames
<1>4. ASSUME NEW s \in pending'
      PROVE  /\ FlushMode[s] = "PER_SYSTEM" => Handling(s)'
             /\ FlushMode[s] = "PER_GROUP" =>
                  \E i \in DOMAIN stack' : s \in ToSet(cache'[stack'[i].group])
  <2>1. s \in pending /\ ~FlushesGroup(Order)
    BY <1>4 DEF EndGroup
  <2>2. FlushMode[s] = "PER_SYSTEM" => Handling(s)'
    BY <1>1, <1>2, <2>1 DEF SchedulerInv, Awaited, Handling
  <2>3. ASSUME FlushMode[s] = "PER_GROUP"
        PROVE  \E i \in DOMAIN stack' : s \in ToSet(cache'[stack'[i].group])
    <3>1. PICK i \in DOMAIN stack : s \in ToSet(cache[stack[i].group])
      BY <2>1, <2>3 DEF SchedulerInv, Awaited
    <3>2. i # n
      BY <2>1, <2>3, <3>1 DEF FlushesGroup, Order, Top, n
    <3> QED BY <1>1, <1>2, <3>1, <3>2
  <2> QED BY <2>2, <2>3
<1> QED BY <1>3, <1>4 DEF SchedulerInv, Awaited

(***************************************************************************)
(* The groups and their orders.                                            *)
(***************************************************************************)

\* A group has systems that name it.  An order that is there is that
\* of the group as it is now.
Groups ==
  /\ deps \in Deps /\ groupOf \in [System -> Group]
  /\ [deps |-> deps, group |-> groupOf] \in Setups
  /\ members \in [Group -> Seq(System)]
  /\ \A g \in Group : /\ Len(members[g]) <= MaxEntries[g]
                     /\ \A s \in ToSet(members[g]) : groupOf[s] = g
  /\ DOMAIN cache \subseteq Group
  /\ \A g \in DOMAIN cache : cache[g] = TopologicalOrder(deps, members[g])

\* A group that is changed has no order; the others are as they were.
LEMMA ChangeGroup ==
  ASSUME Groups, NEW g \in Group, NEW q \in Seq(System), Len(q) <= MaxEntries[g],
         \A s \in ToSet(q) : groupOf[s] = g,
         members' = [members EXCEPT ![g] = q], cache' = Forget(g),
         deps' = deps, groupOf' = groupOf
  PROVE  Groups'
<1>1. /\ members' \in [Group -> Seq(System)] /\ members'[g] = q
      /\ \A h \in Group : h # g => members'[h] = members[h]
  BY DEF Groups
<1>2. /\ DOMAIN cache' = DOMAIN cache \ {g}
      /\ \A h \in DOMAIN cache' : cache'[h] = cache[h]
  BY DEF Forget, Restrict
<1>3. \A h \in DOMAIN cache' : cache'[h] = TopologicalOrder(deps', members'[h])
  <2> SUFFICES ASSUME NEW h \in DOMAIN cache'
               PROVE  cache'[h] = TopologicalOrder(deps', members'[h])
    OBVIOUS
  <2>1. members'[h] = members[h] /\ h \in DOMAIN cache
    BY <1>1, <1>2 DEF Groups
  <2> QED BY <1>2, <2>1 DEF Groups
<1>4. \A h \in Group : /\ Len(members'[h]) <= MaxEntries[h]
                       /\ \A s \in ToSet(members'[h]) : groupOf'[s] = h
  <2> SUFFICES ASSUME NEW h \in Group
               PROVE  /\ Len(members'[h]) <= MaxEntries[h]
                      /\ \A s \in ToSet(members'[h]) : groupOf'[s] = h
    OBVIOUS
  <2>1. CASE h = g
    BY <1>1, <2>1
  <2>2. CASE h # g
    BY <1>1, <2>2 DEF Groups
  <2> QED BY <2>1, <2>2
<1> QED BY <1>1, <1>2, <1>3, <1>4 DEF Groups

LEMMA GroupsStep ==
  ASSUME Groups, [Next]_vars
  PROVE  Groups'
<1>1. CASE UNCHANGED registry
  BY <1>1 DEF Groups, registry
<1>2. ASSUME NEW s \in System, AddSystem(s)
      PROVE  Groups'
  <2> DEFINE g == groupOf[s]
             q == Append(members[g], s)
  <2>1. g \in Group /\ members[g] \in Seq(System)
        /\ \A t \in ToSet(members[g]) : groupOf[t] = g
    BY DEF Groups
  <2>2. Len(members[g]) < MaxEntries[g] /\ MaxEntries[g] \in Nat
    BY <1>2, <2>1, SchedulerAssumption DEF AddSystem
  <2>3. q \in Seq(System) /\ Len(q) <= MaxEntries[g] /\ ToSet(q) = ToSet(members[g]) \cup {s}
    <3>1. q \in Seq(System) /\ ToSet(q) = ToSet(members[g]) \cup {s}
      BY <2>1, AppendFacts
    <3>2. Len(q) = Len(members[g]) + 1 /\ Len(members[g]) \in Nat
      BY <2>1
    <3> QED BY <2>2, <3>1, <3>2
  <2>4. members' = [members EXCEPT ![g] = q] /\ cache' = Forget(g) /\ deps' = deps /\ groupOf' = groupOf
    BY <1>2 DEF AddSystem
  <2>5. \A t \in ToSet(q) : groupOf[t] = g
    BY <2>1, <2>3
  <2> HIDE DEF g, q
  <2> QED BY <2>1, <2>3, <2>4, <2>5, ChangeGroup
<1>3. ASSUME NEW s \in System, RemoveSystem(s)
      PROVE  Groups'
  <2> DEFINE g == groupOf[s]
             m == members[g]
             I == {i \in DOMAIN m : m[i] # s}
             q == At(m, I)
  <2>1. g \in Group /\ m \in Seq(System) /\ Len(m) <= MaxEntries[g]
        /\ \A t \in ToSet(m) : groupOf[t] = g
    BY DEF Groups
  <2>2. q \in Seq(System) /\ Len(q) <= Len(m) /\ ToSet(q) \subseteq ToSet(m)
    <3>1. I \cap DOMAIN m = I /\ I \subseteq DOMAIN m
      OBVIOUS
    <3> HIDE DEF I, m
    <3>2. q \in Seq(System) /\ ToSet(q) = {m[i] : i \in I} /\ Len(q) <= Len(m)
      BY <2>1, <3>1, AtFacts
    <3> QED BY <3>1, <3>2 DEF ToSet
  <2>3. members' = [members EXCEPT ![g] = q] /\ cache' = Forget(g) /\ deps' = deps /\ groupOf' = groupOf
    BY <1>3 DEF RemoveSystem
  <2>4. \A t \in ToSet(q) : groupOf[t] = g
    BY <2>1, <2>2
  <2>5. Len(q) <= MaxEntries[g]
    <3> HIDE DEF q
    <3>1. Len(m) \in Nat /\ MaxEntries[g] \in Nat /\ Len(q) \in Nat
      BY <2>1, <2>2, SchedulerAssumption
    <3> QED BY <2>1, <2>2, <3>1
  <2> HIDE DEF g, q
  <2> QED BY <2>1, <2>2, <2>3, <2>4, <2>5, ChangeGroup
<1>4. CASE Clear
  <2>1. members' = [g \in Group |-> <<>>] /\ cache' = <<>> /\ deps' = deps /\ groupOf' = groupOf
    BY <1>4 DEF Clear
  <2>2. /\ \A g \in Group : members'[g] = <<>> /\ 0 <= MaxEntries[g]
        /\ Len(<<>>) = 0 /\ ToSet(<<>>) = {} /\ <<>> \in Seq(System)
    BY <2>1, SchedulerAssumption DEF ToSet
  <2>3. members' \in [Group -> Seq(System)] /\ DOMAIN cache' = {}
    BY <2>1, <2>2
  <2> QED BY <2>1, <2>2, <2>3 DEF Groups
<1>5. ASSUME NEW g \in Group, Process(g)
      PROVE  Groups'
  <2>1. members' = members /\ deps' = deps /\ groupOf' = groupOf
    BY <1>5 DEF Process
  <2>2. CASE cache' = cache
    BY <2>1, <2>2, <1>1 DEF registry
  <2>3. CASE cache' = With(cache, g, TopologicalOrder(deps, members[g]))
    <3>1. /\ DOMAIN cache' = DOMAIN cache \cup {g}
          /\ cache'[g] = TopologicalOrder(deps, members[g])
          /\ \A h \in DOMAIN cache : h # g => cache'[h] = cache[h]
      BY <2>3 DEF With
    <3>2. \A h \in DOMAIN cache' : cache'[h] = TopologicalOrder(deps', members'[h])
      BY <2>1, <3>1 DEF Groups
    <3> QED BY <2>1, <3>1, <3>2 DEF Groups
  <2> QED BY <1>5, <2>2, <2>3 DEF Process
<1>6. ASSUME NEW s \in System, Enable(s)
      PROVE  Groups'
  BY <1>1, <1>6 DEF Enable
<1>7. CASE QueueCommand
  BY <1>1, <1>7 DEF QueueCommand
<1>8. CASE ProcessStep
  BY <1>1, <1>8 DEF ProcessStep, SkipSystem, RunSystem, HandlerReturns, EndGroup
<1>9. CASE UNCHANGED vars
  BY <1>1, <1>9 DEF vars
<1> QED BY <1>2, <1>3, <1>4, <1>5, <1>6, <1>7, <1>8, <1>9 DEF Next

LEMMA GroupsStart == Init => Groups
<1> SUFFICES ASSUME Init PROVE Groups
  OBVIOUS
<1>1. PICK u \in Setups : deps = u.deps /\ groupOf = u.group
  BY DEF Init
<1>2. u \in [deps : Deps, group : [System -> Group]]
  BY SchedulerAssumption DEF Deps
<1>3. deps \in Deps /\ groupOf \in [System -> Group] /\ u = [deps |-> deps, group |-> groupOf]
  BY <1>1, <1>2
<1>4. /\ members \in [Group -> Seq(System)] /\ cache = <<>>
      /\ \A g \in Group : members[g] = <<>> /\ 0 <= MaxEntries[g]
      /\ Len(<<>>) = 0 /\ ToSet(<<>>) = {}
  <2>1. members = [g \in Group |-> <<>>] /\ cache = <<>>
    BY DEF Init
  <2> QED BY <2>1, SchedulerAssumption DEF ToSet
<1>5. DOMAIN cache = {}
  BY <1>4
<1> QED BY <1>3, <1>4, <1>5 DEF Groups

(***************************************************************************)
(* The clocks.                                                             *)
(***************************************************************************)

\* The intervals of the systems have a bound.
LEMMA IntervalsBounded == \E b \in Nat : \A s \in System : Interval[s] <= b
<1>1. /\ IsFiniteSet(System) /\ \A s \in System : Interval[s] \in Nat
  BY SchedulerAssumption
<1>2. PICK f \in Bijection(1..Cardinality(System), System) : TRUE
  BY <1>1, FS_CardinalityType DEF ExistsBijection
<1> DEFINE N == Cardinality(System)
<1>3. N \in Nat /\ f \in [1..N -> System] /\ \A s \in System : \E i \in 1..N : f[i] = s
  BY <1>1, <1>2, FS_CardinalityType DEF Bijection, Injection, Surjection
<1> HIDE DEF N
<1> DEFINE P == {n \in Nat : n <= N => \E b \in Nat : \A i \in 1..n : Interval[f[i]] <= b}
<1>4. 0 \in P
  <2>1. 0 \in Nat /\ \A i \in 1..0 : Interval[f[i]] <= 0
    OBVIOUS
  <2> QED BY <2>1
<1>5. ASSUME NEW n \in Nat, n \in P
      PROVE  n + 1 \in P
  <2> SUFFICES ASSUME n + 1 <= N
               PROVE  \E b \in Nat : \A i \in 1..(n + 1) : Interval[f[i]] <= b
    OBVIOUS
  <2>1. PICK b \in Nat : \A i \in 1..n : Interval[f[i]] <= b
    BY <1>3, <1>5
  <2>2. n + 1 \in 1..N /\ Interval[f[n + 1]] \in Nat
    BY <1>1, <1>3
  <2> DEFINE c == b + Interval[f[n + 1]]
  <2>3. c \in Nat /\ c >= b /\ c >= Interval[f[n + 1]]
    BY <2>2
  <2>4. ASSUME NEW i \in 1..(n + 1)
        PROVE  Interval[f[i]] <= c
    <3>1. CASE i = n + 1
      BY <2>3, <3>1
    <3>2. CASE i # n + 1
      <4>1. i \in 1..n /\ i \in 1..N
        BY <1>3, <3>2
      <4>2. Interval[f[i]] <= b /\ Interval[f[i]] \in Nat
        BY <1>1, <1>3, <2>1, <4>1
      <4> HIDE DEF c
      <4> QED BY <2>3, <4>2
    <3> QED BY <3>1, <3>2
  <2> HIDE DEF c
  <2> QED BY <2>3, <2>4
<1>6. N \in P
  <2> HIDE DEF P
  <2> QED BY <1>3, <1>4, <1>5, Induction
<1>7. PICK b \in Nat : \A i \in 1..N : Interval[f[i]] <= b
  BY <1>3, <1>6
<1> QED BY <1>3, <1>7

\* The longest interval of a group is a number, and time does not go beyond it.
LEMMA LongestFacts ==
  ASSUME NEW g
  PROVE  /\ LongestInterval(g) \in Nat
         /\ \A t \in Nat : Later(g, t) \in 0..LongestInterval(g)
<1> DEFINE S == {Interval[s] : s \in {x \in System : groupOf[x] = g}} \cup {0}
<1>1. S \subseteq Nat /\ 0 \in S
  BY SchedulerAssumption
<1>2. PICK b \in Nat : \A n \in S : n <= b
  <2>1. PICK b \in Nat : \A s \in System : Interval[s] <= b
    BY IntervalsBounded
  <2> QED BY <2>1
<1>3. LongestInterval(g) = Max(S)
  BY DEF LongestInterval
<1> HIDE DEF S
<1>4. \E m \in S : \A n \in S : n <= m
  <2>1. CASE S = {0}
    BY <2>1
  <2>2. CASE S # {0}
    <3>1. S \ {0} \in SUBSET (1..b) /\ S \ {0} # {}
      BY <1>1, <1>2, <2>2
    <3>2. PICK m \in S \ {0} : \A n \in S \ {0} : n <= m
      BY <3>1, LastOne
    <3> QED BY <1>1, <3>2
  <2> QED BY <2>1, <2>2
<1>5. Max(S) \in S
  <2>1. \E m \in S : \A n \in S : m >= n
    BY <1>1, <1>4
  <2> QED BY <2>1 DEF Max
<1>6. LongestInterval(g) \in Nat
  BY <1>1, <1>3, <1>5
<1>7. ASSUME NEW t \in Nat
      PROVE  Later(g, t) \in 0..LongestInterval(g)
  <2> DEFINE l == LongestInterval(g)
             U == {t + 1, l}
  <2>1. Later(g, t) = Min(U)
    BY DEF Later
  <2> HIDE DEF l
  <2>2. \E m \in U : \A n \in U : m <= n
    BY <1>6 DEF l
  <2>3. Min(U) \in U /\ \A n \in U : Min(U) <= n
    <3> HIDE DEF U
    <3> QED BY <2>2 DEF Min
  <2>4. l \in Nat
    BY <1>6 DEF l
  <2>5. Later(g, t) \in 0..l
    BY <2>1, <2>3, <2>4
  <2> QED BY <2>5 DEF l
<1> QED BY <1>6, <1>7

\* A system with a time of its last run is in its group, and no time goes beyond
\* the longest interval.
Clocks ==
  /\ elapsed \in [Group -> Nat]
  /\ \A g \in Group : elapsed[g] \in 0..LongestInterval(g)
  /\ \A s \in DOMAIN since :
       /\ s \in System /\ s \in ToSet(members[groupOf[s]])
       /\ since[s] \in 0..LongestInterval(groupOf[s])

\* The groups of the systems do not change.
LEMMA SameIntervals ==
  ASSUME [Next]_vars
  PROVE  groupOf' = groupOf /\ \A g : LongestInterval(g)' = LongestInterval(g)
<1>1. groupOf' = groupOf
  <2>1. ASSUME NEW s \in System, AddSystem(s) \/ RemoveSystem(s) \/ Enable(s)
        PROVE  groupOf' = groupOf
    BY <2>1 DEF AddSystem, RemoveSystem, Enable, registry
  <2>2. CASE QueueCommand \/ Clear
    BY <2>2 DEF QueueCommand, Clear, registry
  <2>3. ASSUME NEW g \in Group, Process(g)
        PROVE  groupOf' = groupOf
    BY <2>3 DEF Process
  <2>4. CASE ProcessStep
    BY <2>4 DEF ProcessStep, SkipSystem, RunSystem, HandlerReturns, EndGroup, registry
  <2>5. CASE UNCHANGED vars
    BY <2>5 DEF vars, registry
  <2> QED BY <2>1, <2>2, <2>3, <2>4, <2>5 DEF Next
<1>2. ASSUME NEW g
      PROVE  LongestInterval(g)' = LongestInterval(g)
  BY <1>1 DEF LongestInterval
<1> QED BY <1>1, <1>2

\* The systems of an order are those of its group.
LEMMA OrderedMembers ==
  ASSUME Groups, NEW g \in DOMAIN cache
  PROVE  /\ cache[g] \in Seq(System) /\ ToSet(cache[g]) = ToSet(members[g])
         /\ \A i \in DOMAIN cache[g] : cache[g][i] \in ToSet(members[g]) /\ groupOf[cache[g][i]] = g
<1>1. members[g] \in Seq(System) /\ g \in Group /\ deps \in Deps
  BY DEF Groups
<1>2. cache[g] = TopologicalOrder(deps, members[g])
  BY DEF Groups
<1>3. cache[g] \in Seq(System) /\ ToSet(cache[g]) = ToSet(members[g])
  BY <1>1, <1>2, TopologicalFacts
<1>4. \A i \in DOMAIN cache[g] : cache[g][i] \in ToSet(members[g])
  BY <1>3 DEF ToSet
<1> QED BY <1>1, <1>3, <1>4 DEF Groups

LEMMA ClocksStep ==
  ASSUME Groups, Frames, Clocks, [Next]_vars
  PROVE  Clocks'
<1>0. groupOf' = groupOf /\ \A g : LongestInterval(g)' = LongestInterval(g)
  BY SameIntervals
<1>1. CASE UNCHANGED <<members, clocks>>
  BY <1>0, <1>1 DEF Clocks, clocks
<1>2. ASSUME NEW s \in System, AddSystem(s)
      PROVE  Clocks'
  <2> DEFINE g == groupOf[s]
  <2>1. members' = [members EXCEPT ![g] = Append(members[g], s)] /\ elapsed' = elapsed /\ since' = since
    BY <1>2 DEF AddSystem, clocks
  <2>2. g \in Group /\ members \in [Group -> Seq(System)] /\ groupOf \in [System -> Group]
    BY DEF Groups
  <2>3. \A t \in System : ToSet(members[groupOf[t]]) \subseteq ToSet(members'[groupOf[t]])
    <3> SUFFICES ASSUME NEW t \in System
                 PROVE  ToSet(members[groupOf[t]]) \subseteq ToSet(members'[groupOf[t]])
      OBVIOUS
    <3>1. ToSet(members[g]) \subseteq ToSet(Append(members[g], s))
      BY <2>2, AppendFacts
    <3>2. CASE groupOf[t] = g
      BY <2>1, <2>2, <3>1, <3>2
    <3>3. CASE groupOf[t] # g
      BY <2>1, <2>2, <3>3
    <3> QED BY <3>2, <3>3
  <2> QED BY <1>0, <2>1, <2>3 DEF Clocks
<1>3. ASSUME NEW s \in System, RemoveSystem(s)
      PROVE  Clocks'
  <2> DEFINE g == groupOf[s]
             m == members[g]
             I == {i \in DOMAIN m : m[i] # s}
  <2>1. /\ members' = [members EXCEPT ![g] = At(m, I)] /\ elapsed' = elapsed
        /\ since' = Restrict(since, DOMAIN since \ {s})
    BY <1>3 DEF RemoveSystem, RunsWithout
  <2>2. /\ DOMAIN since' = DOMAIN since \ {s}
        /\ \A t \in DOMAIN since' : since'[t] = since[t]
    BY <2>1 DEF Restrict
  <2>3. g \in Group /\ members \in [Group -> Seq(System)] /\ groupOf \in [System -> Group]
    BY DEF Groups
  <2>4. ASSUME NEW t \in System, t # s, t \in ToSet(members[groupOf[t]])
        PROVE  t \in ToSet(members'[groupOf[t]])
    <3>1. CASE groupOf[t] = g
      <4>1. t \in {m[i] : i \in I}
        BY <2>4, <3>1 DEF ToSet
      <4>2. m \in Seq(System) /\ I \cap DOMAIN m = I
        BY <2>3
      <4> HIDE DEF I, m
      <4>3. ToSet(At(m, I)) = {m[i] : i \in I}
        BY <4>2, AtFacts
      <4> QED BY <2>1, <2>3, <3>1, <4>1, <4>3
    <3>2. CASE groupOf[t] # g
      BY <2>1, <2>3, <2>4, <3>2
    <3> QED BY <3>1, <3>2
  <2> QED BY <1>0, <2>1, <2>2, <2>4 DEF Clocks
<1>4. CASE Clear
  <2>1. elapsed' = [g \in Group |-> 0] /\ DOMAIN since' = {}
    BY <1>4 DEF Clear
  <2>2. \A g \in Group : 0 \in 0..LongestInterval(g)
    BY LongestFacts
  <2> QED BY <1>0, <2>1, <2>2 DEF Clocks
<1>5. ASSUME NEW g \in Group, Process(g)
      PROVE  Clocks'
  <2>1. /\ elapsed' = [elapsed EXCEPT ![g] = Later(g, elapsed[g])]
        /\ members' = members /\ DOMAIN since' = DOMAIN since
        /\ \A s \in DOMAIN since :
             since'[s] = IF s \in ToSet(members[g]) THEN Later(g, since[s]) ELSE since[s]
    BY <1>5 DEF Process
  <2>2. ASSUME NEW s \in DOMAIN since
        PROVE  since'[s] \in 0..LongestInterval(groupOf[s])
    <3>1. since[s] \in 0..LongestInterval(groupOf[s]) /\ since[s] \in Nat
      BY LongestFacts DEF Clocks
    <3>2. CASE s \in ToSet(members[g])
      <4>1. groupOf[s] = g
        BY <3>2 DEF Groups
      <4> QED BY <2>1, <3>1, <3>2, <4>1, LongestFacts
    <3>3. CASE s \notin ToSet(members[g])
      BY <2>1, <3>1, <3>3
    <3> QED BY <3>2, <3>3
  <2>3. Later(g, elapsed[g]) \in 0..LongestInterval(g) /\ Later(g, elapsed[g]) \in Nat
    <3>1. elapsed[g] \in Nat /\ LongestInterval(g) \in Nat
      BY LongestFacts DEF Clocks
    <3> QED BY <3>1, LongestFacts
  <2>4. elapsed' \in [Group -> Nat] /\ \A h \in Group : elapsed'[h] \in 0..LongestInterval(h)
    BY <2>1, <2>3 DEF Clocks
  <2> QED BY <1>0, <2>1, <2>2, <2>4 DEF Clocks
<1>6. ASSUME NEW s \in System, Enable(s)
      PROVE  Clocks'
  BY <1>1, <1>6 DEF Enable, registry
<1>7. CASE QueueCommand
  BY <1>1, <1>7 DEF QueueCommand, registry
<1>8. CASE SkipSystem \/ HandlerReturns \/ EndGroup
  BY <1>1, <1>8 DEF SkipSystem, HandlerReturns, EndGroup, registry
<1>9. CASE RunSystem
  <2>1. members' = members /\ elapsed' = elapsed /\ (since' = since \/ since' = With(since, Current, 0))
    BY <1>9 DEF RunSystem, registry
  <2>2. CASE since' = since
    BY <1>1, <2>1, <2>2 DEF clocks
  <2>3. CASE since' = With(since, Current, 0)
    <3>1. stack # <<>> /\ Top.next \in DOMAIN Order
      BY <1>9 DEF RunSystem, AtSystem
    <3>2. Top.group \in DOMAIN cache
      BY <3>1 DEF Frames, Top
    <3>3. Current \in ToSet(members[Top.group]) /\ groupOf[Current] = Top.group
      BY <3>1, <3>2, OrderedMembers DEF Order, Current
    <3>4. Current \in System
      BY <3>1, <3>2, OrderedMembers DEF Order, Current
    <3>5. /\ DOMAIN since' = DOMAIN since \cup {Current}
          /\ \A s \in DOMAIN since' : since'[s] = IF s = Current THEN 0 ELSE since[s]
      BY <2>3 DEF With
    <3>6. 0 \in 0..LongestInterval(groupOf[Current])
      BY LongestFacts
    <3> HIDE DEF Current
    <3> QED BY <1>0, <2>1, <3>3, <3>4, <3>5, <3>6 DEF Clocks
  <2> QED BY <2>1, <2>2, <2>3
<1>10. CASE UNCHANGED vars
  BY <1>1, <1>10 DEF vars, registry
<1> QED BY <1>2, <1>3, <1>4, <1>5, <1>6, <1>7, <1>8, <1>9, <1>10 DEF Next, ProcessStep

(***************************************************************************)
(* Where the calls under way are.                                          *)
(***************************************************************************)

\* A call is at a system of the order it walks, or past the last.
Positions ==
  /\ enabled \subseteq System /\ pending \subseteq System
  /\ \A i \in DOMAIN stack : stack[i].next \in 1..Len(cache[stack[i].group]) + 1

LEMMA PositionsStep ==
  ASSUME Groups, Groups', Frames, OrdersStay, Positions, [Next]_vars
  PROVE  Positions'
<1>1. ASSUME enabled' \subseteq System, pending' \subseteq System, stack' = stack
      PROVE  Positions'
  BY <1>1 DEF Positions, OrdersStay
<1>2. ASSUME NEW s \in System, AddSystem(s) \/ RemoveSystem(s) \/ Enable(s)
      PROVE  Positions'
  BY <1>1, <1>2 DEF AddSystem, RemoveSystem, Enable, Positions
<1>3. CASE Clear
  BY <1>1, <1>3 DEF Clear, Positions
<1>4. CASE QueueCommand
  <2>1. Top.handling /\ Len(stack) \in DOMAIN stack
    BY <1>4 DEF QueueCommand, Frames
  <2>2. Top.group \in DOMAIN cache /\ Top.next \in DOMAIN Order
    BY <2>1 DEF Frames, Top, Order
  <2>3. Current \in System
    BY <2>2, OrderedMembers DEF Order, Current
  <2> QED BY <1>1, <1>4, <2>3 DEF QueueCommand, Positions
<1>5. ASSUME NEW g \in Group, Process(g)
      PROVE  Positions'
  <2>1. CASE members[g] = <<>>
    BY <1>1, <1>5, <2>1 DEF Process, Positions
  <2>2. CASE members[g] # <<>>
    <3> DEFINE f == [group |-> g, next |-> 1, handling |-> FALSE]
    <3>1. /\ stack' = Append(stack, f) /\ enabled' = enabled /\ pending' = pending
          /\ g \in DOMAIN cache'
      BY <1>5, <2>2 DEF Process, With
    <3>2. cache'[g] \in Seq(System)
      <4>1. members'[g] \in Seq(System) /\ deps' \in Deps
        BY DEF Groups
      <4>2. cache'[g] = TopologicalOrder(deps', members'[g])
        BY <3>1 DEF Groups
      <4> QED BY <4>1, <4>2, TopologicalFacts
    <3>3. f.group = g /\ f.next \in 1..Len(cache'[g]) + 1
      BY <3>2
    <3> HIDE DEF f
    <3>4. /\ DOMAIN stack' = DOMAIN stack \cup {Len(stack) + 1}
          /\ stack'[Len(stack) + 1] = f /\ \A i \in DOMAIN stack : stack'[i] = stack[i]
      BY <3>1 DEF Frames
    <3>5. ASSUME NEW i \in DOMAIN stack'
          PROVE  stack'[i].next \in 1..Len(cache'[stack'[i].group]) + 1
      <4>1. CASE i \in DOMAIN stack
        BY <3>4, <4>1 DEF Positions, OrdersStay
      <4>2. CASE i = Len(stack) + 1
        BY <3>3, <3>4, <4>2
      <4> QED BY <3>4, <4>1, <4>2
    <3> QED BY <3>1, <3>5 DEF Positions
  <2> QED BY <2>1, <2>2
<1>6. ASSUME stack # <<>>, enabled' = enabled, pending' \subseteq pending, cache' = cache,
             NEW f, f.group = Top.group, f.next \in 1..Len(Order) + 1, SetTop(f)
      PROVE  Positions'
  <2> DEFINE n == Len(stack)
  <2>1. /\ n \in DOMAIN stack /\ DOMAIN stack' = DOMAIN stack
        /\ \A i \in DOMAIN stack : stack'[i] = IF i = n THEN f ELSE stack[i]
    BY <1>6 DEF SetTop, Frames
  <2>2. ASSUME NEW i \in DOMAIN stack'
        PROVE  stack'[i].next \in 1..Len(cache'[stack'[i].group]) + 1
    BY <1>6, <2>1 DEF Positions, Top, Order
  <2> QED BY <1>6, <2>2 DEF Positions
<1>7. ASSUME stack # <<>>, Top.next \in DOMAIN Order
      PROVE  /\ Top \in Frame
             /\ Top.next \in 1..Len(Order) + 1 /\ Top.next + 1 \in 1..Len(Order) + 1
  <2>1. Top \in Frame /\ Top.group \in DOMAIN cache
    BY <1>7 DEF Frames, Top
  <2>2. Order \in Seq(System)
    BY <2>1, OrderedMembers DEF Order
  <2> QED BY <1>7, <2>1, <2>2
<1>8. CASE SkipSystem
  <2>1. stack # <<>> /\ Top.next \in DOMAIN Order
    BY <1>8 DEF SkipSystem, AtSystem
  <2> DEFINE f == [Top EXCEPT !.next = @ + 1]
  <2>2. f.group = Top.group /\ f.next = Top.next + 1
    BY <1>7, <2>1 DEF Frame
  <2>3. SetTop(f) /\ enabled' = enabled /\ pending' = pending /\ cache' = cache
    BY <1>8 DEF SkipSystem, registry
  <2> HIDE DEF f
  <2> QED BY <1>6, <1>7, <2>1, <2>2, <2>3
<1>9. CASE RunSystem
  <2>1. stack # <<>> /\ Top.next \in DOMAIN Order
    BY <1>9 DEF RunSystem, AtSystem
  <2> DEFINE f == [Top EXCEPT !.handling = TRUE]
  <2>2. f.group = Top.group /\ f.next = Top.next
    BY <1>7, <2>1 DEF Frame
  <2>3. SetTop(f) /\ enabled' = enabled /\ pending' = pending /\ cache' = cache
    BY <1>9 DEF RunSystem, registry
  <2> HIDE DEF f
  <2> QED BY <1>6, <1>7, <2>1, <2>2, <2>3
<1>10. CASE HandlerReturns
  <2>1. stack # <<>> /\ Top.next \in DOMAIN Order
    <3>1. stack # <<>> /\ Top.handling /\ Len(stack) \in DOMAIN stack
      BY <1>10 DEF HandlerReturns, Frames
    <3> QED BY <3>1 DEF Frames, Top, Order
  <2> DEFINE f == [Top EXCEPT !.next = @ + 1, !.handling = FALSE]
  <2>2. f.group = Top.group /\ f.next = Top.next + 1
    BY <1>7, <2>1 DEF Frame
  <2>3. SetTop(f) /\ enabled' = enabled /\ pending' \subseteq pending /\ cache' = cache
    BY <1>10 DEF HandlerReturns, registry
  <2> HIDE DEF f
  <2> QED BY <1>6, <1>7, <2>1, <2>2, <2>3
<1>11. CASE EndGroup
  <2>1. /\ stack # <<>> /\ stack' = Front(stack) /\ enabled' = enabled
        /\ pending' \subseteq pending /\ cache' = cache
    BY <1>11 DEF EndGroup, registry
  <2>2. \A i \in DOMAIN stack' : i \in DOMAIN stack /\ stack'[i] = stack[i]
    BY <2>1 DEF Front, Frames
  <2> QED BY <2>1, <2>2 DEF Positions
<1>12. CASE UNCHANGED vars
  BY <1>1, <1>12 DEF vars, Positions
<1> QED BY <1>2, <1>3, <1>4, <1>5, <1>8, <1>9, <1>10, <1>11, <1>12 DEF Next, ProcessStep

(***************************************************************************)
(* The theorems.                                                           *)
(***************************************************************************)

\* Nothing waits before the first call.
LEMMA SchedulerStarts == Init => SchedulerInv
BY DEF Init, SchedulerInv, Frames, Awaited

\* Every step keeps the invariant.
LEMMA SchedulerStep == SchedulerInv /\ [Next]_vars => SchedulerInv'
<1> SUFFICES ASSUME SchedulerInv, [Next]_vars
             PROVE  SchedulerInv'
  OBVIOUS
<1>1. OrdersStay
  BY StepKeepsOrders DEF SchedulerInv
<1>2. ASSUME NEW s \in System, AddSystem(s) \/ RemoveSystem(s) \/ Enable(s)
      PROVE  SchedulerInv'
  BY <1>1, <1>2, SameCalls DEF AddSystem, RemoveSystem, Enable
<1>3. CASE QueueCommand
  BY <1>1, <1>3, QueueStep
<1>4. CASE Clear
  BY <1>1, <1>4, SameCalls DEF Clear
<1>5. ASSUME NEW g \in Group, Process(g)
      PROVE  SchedulerInv'
  BY <1>1, <1>5, ProcessCalls
<1>6. CASE ProcessStep
  BY <1>6, CallMoves, HandlerEnds, GroupEnds DEF ProcessStep
<1>7. CASE UNCHANGED vars
  BY <1>1, <1>7, SameCalls DEF vars
<1> QED BY <1>2, <1>3, <1>4, <1>5, <1>6, <1>7 DEF Next

\* The calls of process() walk orders that are there, and what waits is awaited
\* by one of them.
THEOREM SchedulerInvariant == Spec => []SchedulerInv
BY SchedulerStarts, SchedulerStep, PTL DEF Spec

\* When the calls of process() have returned, the only commands left are those
\* of systems that flush themselves, whatever handlers did meanwhile: ran other
\* groups, switched systems off, changed other groups.
THEOREM QueuedCommandsApplied == Spec => []CommandsApplied
<1>1. SchedulerInv => CommandsApplied
  BY DEF SchedulerInv, Awaited, CommandsApplied, Handling
<1> QED BY <1>1, SchedulerInvariant, PTL

\* What TypeOK and the order of a group need, besides SchedulerInv.
RegistryInv == Groups /\ Clocks /\ Positions

\* Before the first call there are no systems, and nothing has run.
LEMMA RegistryStarts == Init => RegistryInv
<1> SUFFICES ASSUME Init PROVE RegistryInv
  OBVIOUS
<1>1. Clocks
  <2>1. elapsed = [g \in Group |-> 0] /\ DOMAIN since = {}
    BY DEF Init
  <2>2. \A g \in Group : 0 \in 0..LongestInterval(g)
    BY LongestFacts
  <2> QED BY <2>1, <2>2 DEF Clocks
<1>2. Positions
  BY DEF Init, Positions
<1> QED BY <1>1, <1>2, GroupsStart DEF RegistryInv

\* Every step keeps it, with the calls under way.
LEMMA RegistryStep == SchedulerInv /\ RegistryInv /\ [Next]_vars => RegistryInv'
<1> SUFFICES ASSUME SchedulerInv, RegistryInv, [Next]_vars
             PROVE  RegistryInv'
  OBVIOUS
<1>1. Frames /\ OrdersStay
  BY StepKeepsOrders DEF SchedulerInv
<1>2. Groups'
  BY GroupsStep DEF RegistryInv
<1>3. Clocks'
  BY <1>1, ClocksStep DEF RegistryInv
<1>4. Positions'
  BY <1>1, <1>2, PositionsStep DEF RegistryInv
<1> QED BY <1>2, <1>3, <1>4 DEF RegistryInv

\* An order that is in use is what recompute_order() would return now, for the
\* systems that have been added to the group, also those added again; a time of a
\* last run is that of a system that is there.
THEOREM RegistryInvariant == Spec => []RegistryInv
BY SchedulerInvariant, RegistryStarts, RegistryStep, PTL DEF Spec

\* The registry, the clocks and the calls under way are well formed, whatever
\* handlers add, remove and run.
THEOREM SchedulerTypeOK == Spec => []TypeOK
<1>1. SchedulerInv /\ RegistryInv => TypeOK
  <2> SUFFICES ASSUME SchedulerInv, RegistryInv
               PROVE  TypeOK
    OBVIOUS
  <2>1. \A s \in DOMAIN since : Registered(s)
    BY DEF RegistryInv, Clocks, Groups, Registered
  <2> QED BY <2>1 DEF SchedulerInv, Frames, RegistryInv, Groups, Clocks, Positions, TypeOK
<1> QED BY <1>1, SchedulerInvariant, RegistryInvariant, PTL

\* An order that is in use has each entry of its group once, a system as often
\* as it was added, and keeps every constraint between entries if they can all be
\* kept, for any systems, any names and constraints and any history of the group
\* (recompute_order).
THEOREM OrdersKeepConstraints == Spec => []OrderKeepsConstraints
<1>1. RegistryInv => OrderKeepsConstraints
  <2> SUFFICES ASSUME RegistryInv, NEW g \in DOMAIN cache
               PROVE  LET group == members[g]
                          before == Constraint(group)
                          kept == IF Acyclic(before, DOMAIN group) THEN before ELSE {}
                      IN /\ DOMAIN cache[g] = DOMAIN group
                         /\ \E position \in Bijections(DOMAIN group) :
                              /\ \A i \in DOMAIN group : cache[g][position[i]] = group[i]
                              /\ \A p \in kept : position[p[1]] < position[p[2]]
    BY DEF OrderKeepsConstraints
  <2> DEFINE group == members[g]
             r == EntryOrder(deps, group)
             position == [i \in DOMAIN group |-> CHOOSE k \in DOMAIN group : r[k] = i]
  <2>1. /\ deps \in Deps /\ group \in Seq(System)
        /\ cache[g] = TopologicalOrder(deps, group)
    BY DEF RegistryInv, Groups
  <2> HIDE DEF group
  <2>2. /\ r \in Seq(Nat) /\ IsInjective(r) /\ ToSet(r) = DOMAIN group
        /\ DOMAIN r = DOMAIN group
    BY <2>1, OrderFacts
  <2>3. /\ DOMAIN cache[g] = DOMAIN group
        /\ \A k \in DOMAIN group : cache[g][k] = group[r[k]]
    BY <2>1, TopologicalFacts
  <2> HIDE DEF r
  <2>4. ASSUME NEW i \in DOMAIN group
        PROVE  position[i] \in DOMAIN group /\ r[position[i]] = i
    <3>1. \E k \in DOMAIN group : r[k] = i
      BY <2>2 DEF ToSet
    <3> QED BY <3>1
  <2>5. ASSUME NEW k \in DOMAIN group
        PROVE  r[k] \in DOMAIN group /\ position[r[k]] = k
    <3>1. r[k] \in DOMAIN group
      BY <2>2 DEF ToSet
    <3>2. position[r[k]] \in DOMAIN group /\ r[position[r[k]]] = r[k]
      BY <2>4, <3>1
    <3> HIDE DEF position
    <3> QED BY <2>2, <3>1, <3>2 DEF IsInjective
  <2>6. position \in [DOMAIN group -> DOMAIN group]
    BY <2>4
  <2> HIDE DEF position
  <2>7. position \in Bijections(DOMAIN group)
    BY <2>5, <2>6 DEF Bijections
  <2>8. \A i \in DOMAIN group : cache[g][position[i]] = group[i]
    BY <2>3, <2>4
  <2>9. ASSUME Acyclic(Constraint(group), DOMAIN group), NEW p \in Constraint(group)
        PROVE  position[p[1]] < position[p[2]]
    <3>1. p[1] \in DOMAIN group /\ p[2] \in DOMAIN group
      BY DEF Constraint
    <3>2. /\ position[p[1]] \in DOMAIN group /\ r[position[p[1]]] = p[1]
          /\ position[p[2]] \in DOMAIN group /\ r[position[p[2]]] = p[2]
      BY <2>4, <3>1
    <3> QED BY <2>1, <2>9, <3>2, OrderIsRight DEF r
  <2> QED BY <2>3, <2>7, <2>8, <2>9 DEF group
<1> QED BY <1>1, RegistryInvariant, PTL
=============================================================================
