-------------------------- MODULE RedundantShareProofs --------------------------
(***************************************************************************)
(* RedundantShare and FastRedundantShare are fair: the chances they draw   *)
(* copies with give every disk its share of the aligned capacity, for      *)
(* every list of disks and number of copies, as long as setDisks corrects  *)
(* one disk at most.  Both walk along the disks in order, so the proof     *)
(* follows one walk.                                                       *)
(***************************************************************************)
EXTENDS FastRedundantShare, NumberFacts

--------------------------------------------------------------------------------
(* Walks along disks: before disk i, u[i][m] of b[0] * ... * b[i - 1] go   *)
(* on with m copies left, and v[i][m] are there just after a copy.  Of     *)
(* b[i], h[i][m] of the first take the copy and g[i][m] of the others.     *)

\* Those that take copy m at disk i
Took(u, v, h, g, i, m) == u[i][m] * h[i][m] + v[i][m] * g[i][m]

\* No more take a copy than there are.
WalkChances(b, h, g, n, c) ==
  /\ n \in Nat /\ c \in Nat \ {0}
  /\ \A i \in 0 .. n - 1 : b[i] \in Nat \ {0}
  /\ \A i \in 0 .. n - 1 : \A m \in 1 .. c : h[i][m] \in 0 .. b[i] /\ g[i][m] \in 0 .. b[i]

\* Those who do not take copy m go on with m left, those who do come with m - 1.
Walk(u, v, b, h, g, n, c) ==
  /\ \A i \in 0 .. n : \A m \in 1 .. c : u[i][m] \in Nat /\ v[i][m] \in Nat
  /\ \A m \in 1 .. c : u[0][m] = 0 /\ v[0][m] = IF m = c THEN 1 ELSE 0
  /\ \A i \in 0 .. n - 1 : \A m \in 1 .. c :
       /\ u[i + 1][m] = u[i][m] * (b[i] - h[i][m]) + v[i][m] * (b[i] - g[i][m])
       /\ v[i + 1][m] = IF m = c THEN 0 ELSE Took(u, v, h, g, i, m + 1)

\* There is a walk for all chances.
LEMMA WalkExists ==
  ASSUME NEW n, NEW c, NEW b, NEW h, NEW g, WalkChances(b, h, g, n, c)
  PROVE  \E u, v : Walk(u, v, b, h, g, n, c)
<1> DEFINE C == 1 .. c
           Q == [C -> Nat]
           S == Q \X Q
           on(i, x) == [m \in C |-> x[1][m] * (b[i] - h[i][m]) + x[2][m] * (b[i] - g[i][m])]
           took(i, x, m) == x[1][m] * h[i][m] + x[2][m] * g[i][m]
           first(i, x) == [m \in C |-> IF m = c THEN 0 ELSE took(i, x, m + 1)]
           G == [i \in 0 .. n - 1 |-> [x \in S |-> <<on(i, x), first(i, x)>>]]
           a == <<[m \in C |-> 0], [m \in C |-> IF m = c THEN 1 ELSE 0]>>
<1>1. n \in Nat /\ c \in Nat \ {0} /\ a \in S
  BY DEF WalkChances
<1>2. G \in [0 .. n - 1 -> [S -> S]]
  <2>1. ASSUME NEW i \in 0 .. n - 1, NEW x \in S PROVE <<on(i, x), first(i, x)>> \in S
    <3>1. ASSUME NEW m \in C
          PROVE  /\ x[1][m] * (b[i] - h[i][m]) + x[2][m] * (b[i] - g[i][m]) \in Nat
                 /\ took(i, x, m) \in Nat
      <4> DEFINE p == x[1][m]
                 q == x[2][m]
                 B == b[i]
                 H == h[i][m]
                 K == g[i][m]
      <4>1. p \in Nat /\ q \in Nat /\ B \in Nat /\ H \in 0 .. B /\ K \in 0 .. B
        BY DEF WalkChances
      <4> HIDE DEF p, q, B, H, K
      <4>2. B - H \in Nat /\ B - K \in Nat /\ H \in Nat /\ K \in Nat
        BY <4>1
      <4>3. p * (B - H) + q * (B - K) \in Nat /\ p * H + q * K \in Nat
        BY <4>1, <4>2
      <4> QED
        BY <4>3 DEF p, q, B, H, K
    <3>2. \A m \in C : m # c => m + 1 \in C
      BY <1>1
    <3> HIDE DEF took
    <3>3. on(i, x) \in Q /\ first(i, x) \in Q
      BY <3>1, <3>2
    <3> QED
      BY <3>3
  <2> HIDE DEF on, first, S
  <2> QED
    BY <2>1
<1>3. PICK f \in [0 .. n -> S] : f[0] = a /\ \A i \in 0 .. n - 1 : f[i + 1] = G[i][f[i]]
  <2> HIDE DEF S, G, a
  <2>1. UpSequences(n, S, a, G) # {}
    BY <1>1, <1>2, UpSequence
  <2> QED
    BY <2>1 DEF UpSequences
<1> DEFINE u == [i \in 0 .. n |-> f[i][1]]
           v == [i \in 0 .. n |-> f[i][2]]
<1>4. ASSUME NEW i \in 0 .. n - 1, NEW m \in C
      PROVE  /\ u[i + 1][m] = u[i][m] * (b[i] - h[i][m]) + v[i][m] * (b[i] - g[i][m])
             /\ v[i + 1][m] = IF m = c THEN 0 ELSE Took(u, v, h, g, i, m + 1)
  <2> DEFINE x == f[i]
  <2>1. i \in 0 .. n /\ i + 1 \in 0 .. n
    BY <1>1
  <2>2. x \in S /\ f[i + 1] = G[i][x]
    BY <1>3, <2>1
  <2>3. f[i + 1] = <<on(i, x), first(i, x)>>
    <3> HIDE DEF x, S, on, first
    <3> QED
      BY <2>2
  <2>4. u[i + 1] = on(i, x) /\ v[i + 1] = first(i, x) /\ u[i] = x[1] /\ v[i] = x[2]
    BY <2>1, <2>3
  <2> HIDE DEF u, v, x
  <2>5. u[i + 1][m] = u[i][m] * (b[i] - h[i][m]) + v[i][m] * (b[i] - g[i][m])
    BY <2>4
  <2>6. v[i + 1][m] = IF m = c THEN 0 ELSE Took(u, v, h, g, i, m + 1)
    BY <2>4 DEF Took
  <2> QED
    BY <2>5, <2>6
<1>5. ASSUME NEW i \in 0 .. n, NEW m \in C PROVE u[i][m] \in Nat /\ v[i][m] \in Nat
  BY <1>3
<1>6. ASSUME NEW m \in C PROVE u[0][m] = 0 /\ v[0][m] = IF m = c THEN 1 ELSE 0
  BY <1>1, <1>3
<1> HIDE DEF u, v
<1>7. Walk(u, v, b, h, g, n, c)
  BY <1>4, <1>5, <1>6, Zenon DEF Walk
<1> QED
  BY <1>7

\* Numbers of a walk are natural numbers, and so are the rests.
LEMMA WalkTypes ==
  ASSUME NEW n, NEW c, NEW b, NEW h, NEW g, WalkChances(b, h, g, n, c),
         NEW u, NEW v, Walk(u, v, b, h, g, n, c), NEW i \in 0 .. n - 1, NEW m \in 1 .. c
  PROVE  /\ u[i][m] \in Nat /\ v[i][m] \in Nat /\ b[i] \in Nat \ {0}
         /\ h[i][m] \in 0 .. b[i] /\ g[i][m] \in 0 .. b[i]
         /\ Took(u, v, h, g, i, m) \in Nat
         /\ u[i + 1][m] = (u[i][m] + v[i][m]) * b[i] - Took(u, v, h, g, i, m)
<1> DEFINE p == u[i][m]
           q == v[i][m]
           B == b[i]
           H == h[i][m]
           K == g[i][m]
<1>1. p \in Nat /\ q \in Nat /\ B \in Nat \ {0} /\ H \in 0 .. B /\ K \in 0 .. B
  <2>1. i \in 0 .. n
    BY DEF WalkChances
  <2> QED
    BY <2>1 DEF WalkChances, Walk
<1>2. Took(u, v, h, g, i, m) = p * H + q * K /\ u[i + 1][m] = p * (B - H) + q * (B - K)
  BY DEF Took, Walk
<1> HIDE DEF p, q, B, H, K
<1>3. H \in Nat /\ K \in Nat
  BY <1>1
<1>4. p * H + q * K \in Nat /\ p * (B - H) + q * (B - K) = (p + q) * B - (p * H + q * K)
  BY <1>1, <1>3
<1> QED
  BY <1>1, <1>2, <1>4 DEF p, q, B, H, K

\* A sum of zeros
LEMMA SumZero ==
  ASSUME NEW S, IsFiniteSet(S), NEW f, \A s \in S : f[s] = 0
  PROVE  SumFunctionOnSet(f, S) = 0
<1>1. \A s \in S : f[s] \in Int /\ f[s] <= 0 /\ 0 <= f[s]
  OBVIOUS
<1>2. SumFunctionOnSet(f, S) \in Int
  BY <1>1, SumIs
<1>3. SumFunctionOnSet(f, S) = 0 * SumFunctionOnSet(f, S)
  <2>1. 0 \in Int /\ \A s \in S : f[s] \in Int /\ f[s] = 0 * f[s]
    OBVIOUS
  <2> QED
    BY <2>1, SumScaled
<1> QED
  BY <1>2, <1>3

\* A sum with one element that is not zero
LEMMA SumOnly ==
  ASSUME NEW S, IsFiniteSet(S), NEW f, NEW x \in S, f[x] \in Int,
         \A s \in S : s # x => f[s] = 0
  PROVE  SumFunctionOnSet(f, S) = f[x]
<1> DEFINE r == S \ {x}
<1>1. IsFiniteSet(r) /\ \A s \in r : f[s] = 0
  BY FS_RemoveElement
<1>2. \A s \in S : f[s] \in Int
  <2> TAKE s \in S
  <2>1. s = x \/ f[s] = 0
    OBVIOUS
  <2> QED
    BY <2>1
<1>3. SumFunctionOnSet(f, S) = f[x] + SumFunctionOnSet(f, r)
  BY <1>2, SumIs
<1> HIDE DEF r
<1>4. SumFunctionOnSet(f, r) = 0
  BY <1>1, SumZero
<1> QED
  BY <1>3, <1>4

\* What a sum weighted by k adds: after disk i, before it, and what disk i changes
Weighting(u, v, h, g, c, i, k, X, Y, Z) ==
  /\ k[0] = 0 /\ \A m \in 0 .. c : k[m] \in Int
  /\ \A m \in 1 .. c :
       /\ X[m] = (u[i + 1][m] + v[i + 1][m]) * k[m]
       /\ Y[m] = (u[i][m] + v[i][m]) * k[m]
       /\ Z[m] = Took(u, v, h, g, i, m) * (k[m] - k[m - 1])

(* A sum over the copies left, weighted by k, after one disk more: a copy  *)
(* taken changes the weight from k[m] to k[m - 1].                         *)
LEMMA StepSum ==
  ASSUME NEW n, NEW c, NEW b, NEW h, NEW g, WalkChances(b, h, g, n, c),
         NEW u, NEW v, Walk(u, v, b, h, g, n, c), NEW i \in 0 .. n - 1,
         NEW k, NEW X, NEW Y, NEW Z, Weighting(u, v, h, g, c, i, k, X, Y, Z)
  PROVE  /\ SumFunctionOnSet(Y, 1 .. c) \in Int /\ SumFunctionOnSet(Z, 1 .. c) \in Int
         /\ SumFunctionOnSet(X, 1 .. c)
              = b[i] * SumFunctionOnSet(Y, 1 .. c) - SumFunctionOnSet(Z, 1 .. c)
<1> DEFINE C == 1 .. c
           T(m) == Took(u, v, h, g, i, m)
           F == [m \in 1 .. c + 1 |-> IF m = c + 1 THEN 0 ELSE T(m) * k[m - 1]]
           N == [m \in C |-> F[m] - F[m + 1]]
           V == [m \in C |-> b[i] * Y[m]]
           W == [m \in C |-> X[m] + Z[m]]
           sum(f) == SumFunctionOnSet(f, C)
<1>1. c \in Nat \ {0} /\ n \in Nat /\ b[i] \in Int
  BY DEF WalkChances
<1>0. /\ k[0] = 0 /\ \A m \in 0 .. c : k[m] \in Int
      /\ \A m \in C : /\ X[m] = (u[i + 1][m] + v[i + 1][m]) * k[m]
                      /\ Y[m] = (u[i][m] + v[i][m]) * k[m]
                      /\ Z[m] = T(m) * (k[m] - k[m - 1])
  BY DEF Weighting
<1>2. ASSUME NEW m \in C
      PROVE  /\ u[i][m] \in Nat /\ v[i][m] \in Nat /\ T(m) \in Nat
             /\ k[m] \in Int /\ k[m - 1] \in Int
             /\ u[i + 1][m] = (u[i][m] + v[i][m]) * b[i] - T(m)
             /\ v[i + 1][m] = IF m = c THEN 0 ELSE T(m + 1)
  <2>1. m \in 0 .. c /\ m - 1 \in 0 .. c
    BY <1>1
  <2>2. v[i + 1][m] = IF m = c THEN 0 ELSE T(m + 1)
    BY DEF Walk
  <2>3. /\ u[i][m] \in Nat /\ v[i][m] \in Nat /\ T(m) \in Nat
        /\ u[i + 1][m] = (u[i][m] + v[i][m]) * b[i] - T(m)
    BY WalkTypes
  <2> HIDE DEF T
  <2> QED
    BY <1>0, <2>1, <2>2, <2>3
<1> HIDE DEF T
<1>3. ASSUME NEW m \in 1 .. c + 1 PROVE F[m] \in Int
  <2>1. CASE m = c + 1
    BY <2>1
  <2>2. CASE m # c + 1
    <3>1. m \in C
      BY <1>1, <2>2
    <3>2. T(m) * k[m - 1] \in Int
      BY <1>2, <3>1
    <3> QED
      BY <2>2, <3>2
  <2> QED
    BY <2>1, <2>2
<1>4. sum(N) = 0
  <2>1. \A m \in 1 .. (c + 1) - 1 : N[m] = F[m] - F[m + 1]
    BY <1>1
  <2>2. 1 \in Nat /\ c + 1 \in Nat /\ 1 <= c + 1 /\ (c + 1) - 1 = c
    BY <1>1
  <2>3. F[1] = 0 /\ F[c + 1] = 0
    <3>1. 1 \in C /\ 1 \in 1 .. c + 1 /\ 1 - 1 = 0 /\ c + 1 \in 1 .. c + 1
      BY <1>1
    <3>2. T(1) \in Nat
      BY <1>2, <3>1
    <3>3. T(1) * k[1 - 1] = 0
      BY <1>0, <3>1, <3>2
    <3> QED
      BY <1>1, <3>1, <3>3
  <2> HIDE DEF F, N
  <2>4. SumFunctionOnSet(N, 1 .. (c + 1) - 1) = F[1] - F[c + 1]
    BY <1>3, <2>1, <2>2, SumOfDrops
  <2> QED
    BY <2>2, <2>3, <2>4
<1>5. ASSUME NEW m \in C
      PROVE  /\ X[m] \in Int /\ Y[m] \in Int /\ Z[m] \in Int /\ N[m] \in Int
             /\ X[m] = b[i] * Y[m] - Z[m] - N[m]
  <2> DEFINE w == u[i][m] + v[i][m]
             x == k[m]
             y == k[m - 1]
             t == T(m)
             s == F[m + 1]
             B == b[i]
  <2>1. /\ w \in Int /\ x \in Int /\ y \in Int /\ t \in Int /\ B \in Int
        /\ X[m] = (u[i + 1][m] + v[i + 1][m]) * x /\ Y[m] = w * x /\ Z[m] = t * (x - y)
        /\ u[i + 1][m] = w * B - t
    <3>1. w \in Int /\ x \in Int /\ y \in Int /\ t \in Int /\ B \in Int
      BY <1>1, <1>2
    <3>2. X[m] = (u[i + 1][m] + v[i + 1][m]) * x /\ Y[m] = w * x
      BY <1>0
    <3>3. Z[m] = t * (x - y)
      BY <1>0
    <3>4. u[i + 1][m] = w * B - t
      BY <1>2
    <3> QED
      BY <3>1, <3>2, <3>3, <3>4
  <2>2. v[i + 1][m] \in Int /\ s = v[i + 1][m] * x
    <3>1. m + 1 \in 1 .. c + 1 /\ (m + 1) - 1 = m
      BY <1>1
    <3>2. CASE m = c
      BY <1>1, <1>2, <2>1, <3>1, <3>2
    <3>3. CASE m # c
      <4>1. m + 1 \in C /\ m + 1 # c + 1
        BY <1>1, <3>3
      <4>2. T(m + 1) \in Nat /\ v[i + 1][m] = T(m + 1)
        BY <1>2, <3>3, <4>1
      <4> QED
        BY <3>1, <4>1, <4>2
    <3> QED
      BY <3>2, <3>3
  <2>3. N[m] = t * y - s
    <3>1. m \in 1 .. c + 1 /\ m # c + 1
      BY <1>1
    <3> QED
      BY <3>1
  <2> HIDE DEF w, x, y, t, s, B, N
  <2> DEFINE q == v[i + 1][m]
  <2>4. X[m] = ((w * B - t) + q) * x /\ s = q * x /\ q \in Int
    BY <2>1, <2>2
  <2> HIDE DEF q
  <2>5. ((w * B - t) + q) * x = B * (w * x) - t * (x - y) - (t * y - q * x)
    BY <2>1, <2>4
  <2>6. ((w * B - t) + q) * x \in Int /\ w * x \in Int /\ t * (x - y) \in Int
        /\ t * y - q * x \in Int
    BY <2>1, <2>4
  <2> QED
    BY <2>1, <2>3, <2>4, <2>5, <2>6 DEF B
<1> HIDE DEF N, F
<1>6. IsFiniteSet(C)
  BY <1>1, FS_Interval
<1>7. \A m \in C : V[m] = b[i] * Y[m] /\ W[m] = X[m] + Z[m] /\ W[m] \in Int
  BY <1>5
<1>8. \A m \in C : V[m] = W[m] + N[m]
  <2> TAKE m \in C
  <2> DEFINE p == b[i] * Y[m]
  <2>1. V[m] = p /\ p \in Int /\ X[m] = p - Z[m] - N[m] /\ W[m] = X[m] + Z[m]
    BY <1>1, <1>5, <1>7
  <2> HIDE DEF p, V, W
  <2> QED
    BY <1>5, <2>1
<1> HIDE DEF V, W, C
<1>9. sum(X) \in Int /\ sum(Y) \in Int /\ sum(Z) \in Int
  BY <1>5, <1>6, SumIs
<1>10. sum(V) = b[i] * sum(Y)
  BY <1>1, <1>5, <1>6, <1>7, SumScaled
<1>11. sum(W) = sum(X) + sum(Z)
  BY <1>5, <1>6, <1>7, SumPlus
<1>12. sum(V) = sum(W) + sum(N)
  BY <1>5, <1>6, <1>7, <1>8, SumPlus
<1> DEFINE p == b[i] * sum(Y)
<1>13. sum(X) = p - sum(Z)
  <2>1. p = (sum(X) + sum(Z)) + 0
    BY <1>4, <1>10, <1>11, <1>12
  <2> HIDE DEF p
  <2> QED
    BY <1>9, <2>1
<1> QED
  BY <1>9, <1>13 DEF C

\* No more copies are left than left says, if disks that lower it are certain to take one.
LEMMA LeftBounds ==
  ASSUME NEW n, NEW c, NEW b, NEW h, NEW g, WalkChances(b, h, g, n, c),
         NEW u, NEW v, Walk(u, v, b, h, g, n, c),
         NEW left, left[0] = c, \A i \in 0 .. n : left[i] \in Int,
         \A i \in 0 .. n - 1 : left[i + 1] = left[i] \/ left[i + 1] = left[i] - 1,
         \A i \in 0 .. n - 1 : left[i + 1] # left[i] =>
           \A m \in 1 .. c : m = left[i] => h[i][m] = b[i] /\ g[i][m] = b[i],
         NEW j \in 0 .. n, NEW m \in 1 .. c, left[j] < m
  PROVE  u[j][m] = 0 /\ v[j][m] = 0
<1> DEFINE Good == {i \in Nat : i <= n => \A a \in 1 .. c :
                      left[i] < a => u[i][a] = 0 /\ v[i][a] = 0}
<1>1. n \in Nat /\ c \in Nat \ {0}
  BY DEF WalkChances
<1>2. 0 \in Good
  <2>1. \A a \in 1 .. c : ~(c < a)
    BY <1>1
  <2> QED
    BY <2>1
<1>3. ASSUME NEW i \in Good PROVE i + 1 \in Good
  <2> SUFFICES ASSUME i + 1 <= n, NEW a \in 1 .. c, left[i + 1] < a
               PROVE  u[i + 1][a] = 0 /\ v[i + 1][a] = 0
    OBVIOUS
  <2>1. /\ i \in Nat /\ i \in 0 .. n - 1 /\ i \in 0 .. n /\ i + 1 \in 0 .. n
        /\ \A e \in 1 .. c : left[i] < e => u[i][e] = 0 /\ v[i][e] = 0
    BY <1>1
  <2> HIDE DEF Good
  <2>2. left[i] \in Int /\ left[i + 1] \in Int
        /\ (left[i + 1] = left[i] \/ left[i + 1] = left[i] - 1)
    BY <2>1
  <2> DEFINE p == u[i][a]
             q == v[i][a]
             B == b[i]
             H == h[i][a]
             K == g[i][a]
  <2>3. p \in Nat /\ q \in Nat /\ B \in Nat \ {0} /\ H \in 0 .. B /\ K \in 0 .. B
    BY <2>1, WalkTypes
  <2>4. u[i + 1][a] = p * (B - H) + q * (B - K)
    BY <2>1 DEF Walk
  <2>5. p * (B - H) = 0 /\ q * (B - K) = 0
    <3>1. CASE left[i] < a
      <4>1. p = 0 /\ q = 0
        BY <2>1, <3>1
      <4> HIDE DEF p, q, B, H, K
      <4> QED
        BY <2>3, <4>1
    <3>2. CASE ~(left[i] < a)
      <4>1. a = left[i] /\ left[i + 1] # left[i]
        BY <2>2, <3>2
      <4>2. H = B /\ K = B
        BY <2>1, <4>1
      <4> HIDE DEF p, q, B, H, K
      <4> QED
        BY <2>3, <4>2
    <3> QED
      BY <3>1, <3>2
  <2>6. v[i + 1][a] = 0
    <3>1. v[i + 1][a] = IF a = c THEN 0 ELSE Took(u, v, h, g, i, a + 1)
      BY <2>1 DEF Walk
    <3>2. ASSUME a # c PROVE Took(u, v, h, g, i, a + 1) = 0
      <4> DEFINE e == a + 1
      <4>1. e \in 1 .. c /\ left[i] < e
        BY <1>1, <2>2, <3>2
      <4> HIDE DEF e
      <4>2. u[i][e] = 0 /\ v[i][e] = 0
        BY <2>1, <4>1
      <4>3. h[i][e] \in Int /\ g[i][e] \in Int
        BY <2>1, <4>1, WalkTypes
      <4>4. Took(u, v, h, g, i, e) = 0
        BY <4>2, <4>3 DEF Took
      <4> QED
        BY <4>4 DEF e
    <3> QED
      BY <3>1, <3>2
  <2> HIDE DEF p, q, B, H, K
  <2> QED
    BY <2>4, <2>5, <2>6
<1>4. Good = Nat
  <2>1. Good \in SUBSET Nat
    OBVIOUS
  <2> HIDE DEF Good
  <2> QED
    BY <1>2, <1>3, <2>1, InductionSet
<1>5. j \in Good /\ j <= n
  BY <1>1, <1>4
<1> QED
  BY <1>5

\* At most one copy per disk is placed before disk j.
LEMMA PassedBounds ==
  ASSUME NEW n, NEW c, NEW b, NEW h, NEW g, WalkChances(b, h, g, n, c),
         NEW u, NEW v, Walk(u, v, b, h, g, n, c), NEW j \in 0 .. n, NEW m \in 1 .. c
  PROVE  (m <= c - j => u[j][m] = 0) /\ (m < c - j => v[j][m] = 0)
<1> DEFINE Good == {i \in Nat : i <= n => \A a \in 1 .. c :
                      (a <= c - i => u[i][a] = 0) /\ (a < c - i => v[i][a] = 0)}
<1>1. n \in Nat /\ c \in Nat \ {0}
  BY DEF WalkChances
<1>2. 0 \in Good
  <2> SUFFICES ASSUME NEW a \in 1 .. c
               PROVE  (a <= c - 0 => u[0][a] = 0) /\ (a < c - 0 => v[0][a] = 0)
    OBVIOUS
  <2>1. u[0][a] = 0 /\ v[0][a] = IF a = c THEN 1 ELSE 0
    BY DEF Walk
  <2> QED
    BY <1>1, <2>1
<1>3. ASSUME NEW i \in Good PROVE i + 1 \in Good
  <2> SUFFICES ASSUME i + 1 <= n, NEW a \in 1 .. c
               PROVE  /\ a <= c - (i + 1) => u[i + 1][a] = 0
                      /\ a < c - (i + 1) => v[i + 1][a] = 0
    OBVIOUS
  <2>1. /\ i \in Nat /\ i \in 0 .. n - 1
        /\ \A e \in 1 .. c : (e <= c - i => u[i][e] = 0) /\ (e < c - i => v[i][e] = 0)
    BY <1>1
  <2> HIDE DEF Good
  <2>2. ASSUME a <= c - (i + 1) PROVE u[i + 1][a] = 0
    <3>1. u[i][a] = 0 /\ v[i][a] = 0
      BY <1>1, <2>1, <2>2
    <3>2. u[i + 1][a] = u[i][a] * (b[i] - h[i][a]) + v[i][a] * (b[i] - g[i][a])
      BY <2>1 DEF Walk
    <3>3. b[i] - h[i][a] \in Int /\ b[i] - g[i][a] \in Int
      <4> DEFINE B == b[i]
                 H == h[i][a]
                 K == g[i][a]
      <4>1. B \in Nat \ {0} /\ H \in 0 .. B /\ K \in 0 .. B
        BY <2>1, WalkTypes
      <4> HIDE DEF B, H, K
      <4>2. B - H \in Int /\ B - K \in Int
        BY <4>1
      <4> QED
        BY <4>2 DEF B, H, K
    <3> QED
      BY <3>1, <3>2, <3>3
  <2>3. ASSUME a < c - (i + 1) PROVE v[i + 1][a] = 0
    <3> DEFINE e == a + 1
    <3>1. e \in 1 .. c /\ e <= c - i /\ e < c - i /\ a # c
      BY <1>1, <2>1, <2>3
    <3>2. v[i + 1][a] = Took(u, v, h, g, i, e)
      BY <2>1, <3>1 DEF Walk
    <3> HIDE DEF e
    <3>3. u[i][e] = 0 /\ v[i][e] = 0
      BY <2>1, <3>1
    <3>4. h[i][e] \in Int /\ g[i][e] \in Int
      BY <2>1, <3>1, WalkTypes
    <3> QED
      BY <3>2, <3>3, <3>4 DEF Took
  <2> QED
    BY <2>2, <2>3
<1>4. Good = Nat
  <2>1. Good \in SUBSET Nat
    OBVIOUS
  <2> HIDE DEF Good
  <2> QED
    BY <1>2, <1>3, <2>1, InductionSet
<1>5. j \in Good /\ j <= n
  BY <1>1, <1>4
<1> QED
  BY <1>5

\* The copies left, weighted by their numbers, and those taken at disk i
Weighted(u, v, c, i) == SumFunctionOnSet([m \in 1 .. c |-> (u[i][m] + v[i][m]) * m], 1 .. c)
TakenAt(u, v, h, g, c, i) ==
  SumFunctionOnSet([m \in 1 .. c |-> Took(u, v, h, g, i, m)], 1 .. c)

\* Each copy taken makes one less: the weight falls by what is taken.
LEMMA WeightedStep ==
  ASSUME NEW n, NEW c, NEW b, NEW h, NEW g, WalkChances(b, h, g, n, c),
         NEW u, NEW v, Walk(u, v, b, h, g, n, c), NEW i \in 0 .. n - 1
  PROVE  /\ Weighted(u, v, c, i) \in Int /\ TakenAt(u, v, h, g, c, i) \in Int
         /\ Weighted(u, v, c, i + 1) = b[i] * Weighted(u, v, c, i) - TakenAt(u, v, h, g, c, i)
<1> DEFINE k == [m \in 0 .. c |-> m]
           X == [m \in 1 .. c |-> (u[i + 1][m] + v[i + 1][m]) * m]
           Y == [m \in 1 .. c |-> (u[i][m] + v[i][m]) * m]
           Z == [m \in 1 .. c |-> Took(u, v, h, g, i, m)]
<1>1. c \in Nat \ {0}
  BY DEF WalkChances
<1>2. k[0] = 0 /\ \A m \in 0 .. c : k[m] \in Int
  BY <1>1
<1>3. ASSUME NEW m \in 1 .. c
      PROVE  /\ X[m] = (u[i + 1][m] + v[i + 1][m]) * k[m]
             /\ Y[m] = (u[i][m] + v[i][m]) * k[m]
             /\ Z[m] = Took(u, v, h, g, i, m) * (k[m] - k[m - 1])
  <2>1. k[m] = m /\ k[m - 1] = m - 1 /\ k[m] - k[m - 1] = 1
    BY <1>1
  <2>2. Took(u, v, h, g, i, m) \in Nat
    BY WalkTypes
  <2>3. Took(u, v, h, g, i, m) * 1 = Took(u, v, h, g, i, m)
    BY <2>2
  <2> HIDE DEF k
  <2> QED
    BY <2>1, <2>3
<1>4. Weighting(u, v, h, g, c, i, k, X, Y, Z)
  <2> HIDE DEF k, X, Y, Z
  <2> QED
    BY <1>2, <1>3 DEF Weighting
<1> HIDE DEF k, X, Y, Z
<1>5. /\ SumFunctionOnSet(Y, 1 .. c) \in Int /\ SumFunctionOnSet(Z, 1 .. c) \in Int
      /\ SumFunctionOnSet(X, 1 .. c)
           = b[i] * SumFunctionOnSet(Y, 1 .. c) - SumFunctionOnSet(Z, 1 .. c)
  BY <1>4, StepSum
<1> QED
  BY <1>5 DEF Weighted, TakenAt, X, Y, Z

\* The walk begins with c copies left.
LEMMA WeightedFirst ==
  ASSUME NEW n, NEW c, NEW b, NEW h, NEW g, WalkChances(b, h, g, n, c),
         NEW u, NEW v, Walk(u, v, b, h, g, n, c)
  PROVE  Weighted(u, v, c, 0) = c
<1> DEFINE C == 1 .. c
           f == [m \in C |-> (u[0][m] + v[0][m]) * m]
<1>1. c \in Nat \ {0} /\ IsFiniteSet(C) /\ c \in C
  <2>1. c \in Nat \ {0}
    BY DEF WalkChances
  <2> QED
    BY <2>1, FS_Interval
<1>2. ASSUME NEW m \in C PROVE f[m] = IF m = c THEN c ELSE 0
  <2>1. u[0][m] = 0 /\ v[0][m] = IF m = c THEN 1 ELSE 0
    BY DEF Walk
  <2> QED
    BY <1>1, <2>1
<1> HIDE DEF f, C
<1>3. f[c] \in Int /\ \A m \in C : m # c => f[m] = 0
  BY <1>1, <1>2
<1>4. SumFunctionOnSet(f, C) = f[c]
  BY <1>1, <1>3, SumOnly
<1> QED
  BY <1>1, <1>2, <1>4 DEF Weighted, f, C

\* The products of the numbers b
Products(B, b, n) ==
  /\ B \in [0 .. n -> Nat \ {0}] /\ B[0] = 1
  /\ \A i \in 0 .. n - 1 : B[i + 1] = B[i] * b[i]

\* Products of positive numbers exist.
LEMMA ProductsExist ==
  ASSUME NEW n \in Nat, NEW b, \A i \in 0 .. n - 1 : b[i] \in Nat \ {0}
  PROVE  \E B : Products(B, b, n)
<1> DEFINE S == Nat \ {0}
           G == [i \in 0 .. n - 1 |-> [x \in S |-> x * b[i]]]
<1>1. G \in [0 .. n - 1 -> [S -> S]]
  <2>1. ASSUME NEW i \in 0 .. n - 1, NEW x \in S PROVE x * b[i] \in S
    OBVIOUS
  <2> QED
    BY <2>1
<1>2. \A i \in 0 .. n - 1 : \A x \in S : G[i][x] = x * b[i]
  OBVIOUS
<1>3. 1 \in S
  OBVIOUS
<1> HIDE DEF S, G
<1>4. PICK f \in [0 .. n -> S] : f[0] = 1 /\ \A i \in 0 .. n - 1 : f[i + 1] = G[i][f[i]]
  <2>1. UpSequences(n, S, 1, G) # {}
    BY <1>1, <1>3, UpSequence
  <2> QED
    BY <2>1 DEF UpSequences
<1>5. ASSUME NEW i \in 0 .. n - 1 PROVE f[i + 1] = f[i] * b[i]
  <2>1. i \in 0 .. n
    OBVIOUS
  <2> QED
    BY <1>2, <1>4, <2>1
<1>6. Products(f, b, n)
  BY <1>4, <1>5 DEF Products, S
<1> QED
  BY <1>6

(* Where every disk i takes its part d[i] of the weight, which is d[i] of  *)
(* pos[i], the weight stays that of the disks from the next one on.        *)
LEMMA WeightStays ==
  ASSUME NEW n, NEW c, NEW b, NEW h, NEW g, WalkChances(b, h, g, n, c),
         NEW u, NEW v, Walk(u, v, b, h, g, n, c), NEW B, Products(B, b, n),
         NEW pos, \A i \in 0 .. n : pos[i] \in Nat, NEW j \in 0 .. n,
         \A i \in 0 .. j - 1 : \E s \in Int :
           /\ b[i] = pos[i] * s
           /\ TakenAt(u, v, h, g, c, i) = s * (pos[i] - pos[i + 1]) * Weighted(u, v, c, i)
  PROVE  pos[0] * Weighted(u, v, c, j) = c * pos[j] * B[j]
<1> DEFINE W(i) == Weighted(u, v, c, i)
           T(i) == TakenAt(u, v, h, g, c, i)
           Good == {i \in Nat : i <= j => pos[0] * W(i) = c * pos[i] * B[i]}
<1>1. n \in Nat /\ c \in Nat \ {0}
  BY DEF WalkChances
<1>2. 0 \in Good
  <2>1. W(0) = c /\ B[0] = 1
    BY WeightedFirst DEF Products
  <2>2. pos[0] \in Nat
    BY <1>1
  <2> HIDE DEF W
  <2>3. pos[0] * W(0) = c * pos[0] * B[0]
    BY <1>1, <2>1, <2>2
  <2> QED
    BY <2>3
<1>3. ASSUME NEW i \in Good PROVE i + 1 \in Good
  <2> SUFFICES ASSUME i + 1 <= j PROVE pos[0] * W(i + 1) = c * pos[i + 1] * B[i + 1]
    OBVIOUS
  <2>1. i \in 0 .. n - 1 /\ i \in 0 .. j - 1 /\ i \in 0 .. n /\ i + 1 \in 0 .. n /\ 0 \in 0 .. n
        /\ pos[0] * W(i) = c * pos[i] * B[i]
    BY <1>1
  <2>2. PICK s \in Int : b[i] = pos[i] * s /\ T(i) = s * (pos[i] - pos[i + 1]) * W(i)
    BY <2>1
  <2>3. W(i) \in Int /\ T(i) \in Int /\ W(i + 1) = b[i] * W(i) - T(i)
    BY <2>1, WeightedStep
  <2> HIDE DEF W, T, Good
  <2> DEFINE p == pos[0]
             q == pos[i]
             r == pos[i + 1]
             w == W(i)
             D == B[i]
  <2>4. /\ p \in Int /\ q \in Int /\ r \in Int /\ w \in Int /\ D \in Int
        /\ B[i + 1] = D * (q * s) /\ p * w = c * q * D
        /\ W(i + 1) = (q * s) * w - s * (q - r) * w
    <3>1. p \in Int /\ q \in Int /\ r \in Int /\ w \in Int /\ D \in Int
      <4>1. p \in Int /\ q \in Int /\ r \in Int /\ w \in Int
        BY <2>1, <2>3
      <4>2. D \in Int
        <5>1. B \in [0 .. n -> Nat \ {0}]
          BY ONLY Products(B, b, n) DEF Products
        <5>2. i \in 0 .. n
          BY ONLY <2>1
        <5> QED
          BY ONLY <5>1, <5>2 DEF D
      <4> QED
        BY <4>1, <4>2
    <3>2. B[i + 1] = D * b[i]
      BY <2>1 DEF Products
    <3>3. W(i + 1) = b[i] * W(i) - T(i) /\ b[i] = q * s /\ T(i) = s * (q - r) * w
      BY <2>2, <2>3
    <3>4. p * w = c * q * D
      BY <2>1
    <3> HIDE DEF p, q, r, D
    <3>5. W(i + 1) = b[i] * w - T(i)
      BY <3>3
    <3> HIDE DEF w
    <3> QED
      BY <3>1, <3>2, <3>3, <3>4, <3>5
  <2> HIDE DEF p, q, r, w, D
  <2>5. (q * s) * w - s * (q - r) * w = (s * r) * w
    BY <2>4
  <2>6. p * ((s * r) * w) = (s * r) * (p * w)
    BY <2>4
  <2>7. (s * r) * (c * q * D) = c * r * (D * (q * s))
    BY <1>1, <2>4
  <2>8. p * W(i + 1) = c * r * B[i + 1]
    BY <2>4, <2>5, <2>6, <2>7
  <2> QED
    BY <2>8 DEF p, r
<1>4. Good = Nat
  <2>1. Good \in SUBSET Nat
    OBVIOUS
  <2> HIDE DEF Good
  <2> QED
    BY <1>2, <1>3, <2>1, InductionSet
<1>5. j \in Good
  BY <1>4
<1> QED
  BY <1>5

\* So disk i takes c * d[i] of pos[0].
LEMMA FairlyTaken ==
  ASSUME NEW p \in Int, NEW w \in Int, NEW c \in Int, NEW q \in Int, NEW D \in Int,
         NEW s \in Int, NEW d \in Int, p * w = c * q * D
  PROVE  p * (s * d * w) = c * d * (D * (q * s))
<1>1. p * (s * d * w) = (s * d) * (p * w)
  OBVIOUS
<1>2. (s * d) * (c * q * D) = c * d * (D * (q * s))
  OBVIOUS
<1> QED
  BY <1>1, <1>2

\* Two sums that differ in two elements
DifferInTwo(f, g, S, x, y) ==
  /\ IsFiniteSet(S) /\ x \in S /\ y \in S /\ x # y
  /\ \A s \in S : f[s] \in Int /\ g[s] \in Int
  /\ \A s \in S : s # x /\ s # y => f[s] = g[s]

\* Their sums differ by what those two values do.
LEMMA SumChangeTwo ==
  ASSUME NEW S, NEW f, NEW g, NEW x, NEW y, DifferInTwo(f, g, S, x, y)
  PROVE  /\ SumFunctionOnSet(f, S) \in Int /\ SumFunctionOnSet(g, S) \in Int
         /\ SumFunctionOnSet(f, S) - f[x] - f[y] = SumFunctionOnSet(g, S) - g[x] - g[y]
<1>0. /\ IsFiniteSet(S) /\ x \in S /\ y \in S /\ x # y
      /\ \A s \in S : f[s] \in Int /\ g[s] \in Int
      /\ \A s \in S : s # x /\ s # y => f[s] = g[s]
  BY DEF DifferInTwo
<1> DEFINE T == S \ {x}
           r == T \ {y}
<1>1. IsFiniteSet(T) /\ IsFiniteSet(r) /\ y \in T /\ r \in SUBSET S /\ T \in SUBSET S
  BY <1>0, FS_RemoveElement
<1>2. \A s \in r : f[s] \in Int /\ f[s] = g[s]
  BY <1>0
<1>3. \A s \in T : f[s] \in Int /\ g[s] \in Int
  BY <1>0, <1>1
<1> HIDE DEF r
<1>4. /\ SumFunctionOnSet(f, T) = f[y] + SumFunctionOnSet(f, T \ {y})
      /\ SumFunctionOnSet(g, T) = g[y] + SumFunctionOnSet(g, T \ {y})
  <2> HIDE DEF T
  <2> QED
    BY <1>1, <1>3, SumIs
<1>5. /\ SumFunctionOnSet(f, S) = f[x] + SumFunctionOnSet(f, T)
      /\ SumFunctionOnSet(g, S) = g[x] + SumFunctionOnSet(g, T)
      /\ SumFunctionOnSet(f, S) \in Int /\ SumFunctionOnSet(g, S) \in Int
  BY <1>0, SumIs
<1>6. SumFunctionOnSet(f, r) = SumFunctionOnSet(g, r) /\ SumFunctionOnSet(f, r) \in Int
  BY <1>1, <1>2, SumSame, SumIs
<1>7. f[x] \in Int /\ g[x] \in Int /\ f[y] \in Int /\ g[y] \in Int
  BY <1>0
<1> DEFINE a == SumFunctionOnSet(f, r)
<1>8. /\ SumFunctionOnSet(f, S) = f[x] + (f[y] + a)
      /\ SumFunctionOnSet(g, S) = g[x] + (g[y] + a) /\ a \in Int
  BY <1>4, <1>5, <1>6 DEF r
<1> HIDE DEF a
<1> QED
  BY <1>5, <1>7, <1>8

\* Parts d and z of numbers for each disk, for each copy in the second
AreParts(d, z, E, c) ==
  \A j \in 0 .. E - 1 : d[j] \in Nat /\ \A m \in 1 .. c : z[j][m] \in Nat

\* A walk of which m times d takes copy m, and z does not
WalkParts(u, v, h, g, d, z, E, c) ==
  \A j \in 0 .. E - 1 : \A m \in 1 .. c :
    /\ Took(u, v, h, g, j, m) = (u[j][m] + v[j][m]) * (m * d[j])
    /\ u[j + 1][m] = (u[j][m] + v[j][m]) * z[j][m]

(* What a walk may still come to: J[j][m] of those before disk j with m    *)
(* copies left come to disk E with o copies left, where each counts k.     *)
Backward(J, z, d, E, c, o, k) ==
  /\ \A j \in 0 .. E : \A m \in 0 .. c : J[j][m] \in Nat
  /\ \A m \in 0 .. c : J[E][m] = IF m = o THEN k ELSE 0
  /\ \A j \in 0 .. E - 1 :
       /\ J[j][0] = 0
       /\ \A m \in 1 .. c : J[j][m] = (m * d[j]) * J[j + 1][m - 1] + z[j][m] * J[j + 1][m]

\* There are such numbers.
LEMMA BackwardExists ==
  ASSUME NEW E \in Nat, NEW c \in Nat \ {0}, NEW o \in 1 .. c, NEW k \in Nat, NEW d, NEW z,
         AreParts(d, z, E, c)
  PROVE  \E J : Backward(J, z, d, E, c, o, k)
<1>01. \A j \in 0 .. E - 1 : d[j] \in Nat /\ \A m \in 1 .. c : z[j][m] \in Nat
  BY DEF AreParts
<1> DEFINE C == 0 .. c
           S == [C -> Nat]
           next(j, x, m) == (m * d[j]) * x[m - 1] + z[j][m] * x[m]
           G == [j \in 0 .. E - 1 |->
                   [x \in S |-> [m \in C |-> IF m = 0 THEN 0 ELSE next(j, x, m)]]]
           a == [m \in C |-> IF m = o THEN k ELSE 0]
<1>1. a \in S
  OBVIOUS
<1>2. G \in [0 .. E - 1 -> [S -> S]]
  <2>1. ASSUME NEW j \in 0 .. E - 1, NEW x \in S
        PROVE  [m \in C |-> IF m = 0 THEN 0 ELSE next(j, x, m)] \in S
    <3>1. ASSUME NEW m \in C, m # 0 PROVE next(j, x, m) \in Nat
      <4> DEFINE p == d[j]
                 q == z[j][m]
                 s == x[m - 1]
                 t == x[m]
      <4>1. m \in 1 .. c /\ m - 1 \in C /\ m \in Nat
        BY <3>1
      <4>2. p \in Nat /\ q \in Nat /\ s \in Nat /\ t \in Nat
        BY <1>01, <4>1
      <4> HIDE DEF p, q, s, t
      <4>3. (m * p) * s + q * t \in Nat
        BY <4>1, <4>2
      <4> QED
        BY <4>3 DEF p, q, s, t
    <3> HIDE DEF next
    <3> QED
      BY <3>1
  <2> HIDE DEF S, next
  <2> QED
    BY <2>1
<1>3. PICK f \in [0 .. E -> S] : f[E] = a /\ \A j \in 0 .. E - 1 : f[j] = G[j][f[j + 1]]
  <2> HIDE DEF S, G, a
  <2>1. DownSequences(E, S, a, G) # {}
    BY <1>1, <1>2, DownSequence
  <2> QED
    BY <2>1 DEF DownSequences
<1>4. ASSUME NEW j \in 0 .. E - 1
      PROVE  /\ f[j][0] = 0
             /\ \A m \in 1 .. c : f[j][m] = next(j, f[j + 1], m)
  <2> DEFINE x == f[j + 1]
  <2>1. j + 1 \in 0 .. E
    OBVIOUS
  <2>2. x \in S /\ f[j] = G[j][x]
    BY <1>3, <2>1
  <2>3. f[j] = [m \in C |-> IF m = 0 THEN 0 ELSE next(j, x, m)]
    <3> HIDE DEF x, S, next, C
    <3> QED
      BY <2>2
  <2>4. 0 \in C /\ \A m \in 1 .. c : m \in C /\ m # 0
    OBVIOUS
  <2> HIDE DEF x, next, C
  <2> QED
    BY <2>3, <2>4 DEF x
<1>5. ASSUME NEW j \in 0 .. E, NEW m \in 0 .. c PROVE f[j][m] \in Nat
  BY <1>3
<1>6. ASSUME NEW m \in 0 .. c PROVE f[E][m] = IF m = o THEN k ELSE 0
  BY <1>3
<1> HIDE DEF G, a, S, C
<1>7. Backward(f, z, d, E, c, o, k)
  BY <1>4, <1>5, <1>6, Zenon DEF Backward
<1> QED
  BY <1>7

\* At most one copy is taken on each disk.
LEMMA BackwardZero ==
  ASSUME NEW E \in Nat, NEW c \in Nat \ {0}, NEW o \in 1 .. c, NEW k \in Nat, NEW d, NEW z,
         AreParts(d, z, E, c),
         NEW J, Backward(J, z, d, E, c, o, k), NEW j \in 0 .. E, NEW m \in 0 .. c,
         m < o \/ j > E - (m - o)
  PROVE  J[j][m] = 0
<1>01. \A s \in 0 .. E - 1 : d[s] \in Nat /\ \A t \in 1 .. c : z[s][t] \in Nat
  BY DEF AreParts
<1> USE <1>01
<1> DEFINE Good == {i \in Nat : i <= E => \A a \in 0 .. c : a < o \/ a - o > i => J[E - i][a] = 0}
<1>1. 0 \in Good
  <2> SUFFICES ASSUME NEW a \in 0 .. c, a < o \/ a - o > 0 PROVE J[E - 0][a] = 0
    OBVIOUS
  <2>1. a # o
    OBVIOUS
  <2> QED
    BY <2>1 DEF Backward
<1>2. ASSUME NEW i \in Good PROVE i + 1 \in Good
  <2> SUFFICES ASSUME i + 1 <= E, NEW a \in 0 .. c, a < o \/ a - o > i + 1
               PROVE  J[E - (i + 1)][a] = 0
    OBVIOUS
  <2> DEFINE e == E - (i + 1)
  <2>1. /\ i \in Nat /\ e \in 0 .. E - 1 /\ e + 1 = E - i
        /\ \A x \in 0 .. c : x < o \/ x - o > i => J[e + 1][x] = 0
    OBVIOUS
  <2> HIDE DEF e, Good
  <2>2. CASE a = 0
    BY <2>1, <2>2 DEF Backward, e
  <2>3. CASE a # 0
    <3>1. a \in 1 .. c /\ a - 1 \in 0 .. c
      BY <2>3
    <3>2. J[e + 1][a - 1] = 0 /\ J[e + 1][a] = 0
      BY <2>1, <3>1
    <3>3. J[e][a] = (a * d[e]) * J[e + 1][a - 1] + z[e][a] * J[e + 1][a]
      BY <2>1, <3>1 DEF Backward
    <3>4. d[e] \in Nat /\ z[e][a] \in Nat
      BY <2>1, <3>1
    <3>5. (a * d[e]) * 0 + z[e][a] * 0 = 0
      BY <3>4
    <3> QED
      BY <3>2, <3>3, <3>5 DEF e
  <2> QED
    BY <2>2, <2>3
<1>3. Good = Nat
  <2>1. Good \in SUBSET Nat
    OBVIOUS
  <2> HIDE DEF Good
  <2> QED
    BY <1>1, <1>2, <2>1, InductionSet
<1> DEFINE i == E - j
<1>4. i \in Nat /\ i <= E /\ E - i = j /\ (m < o \/ m - o > i)
  OBVIOUS
<1>5. i \in Good
  BY <1>3, <1>4
<1> HIDE DEF i
<1> QED
  BY <1>4, <1>5

(* A walk's chances for coming back to weights: those to come to disk E    *)
(* and those of going on from there meet.                                  *)
LEMMA BackwardMeets ==
  ASSUME NEW n, NEW c, NEW b, NEW h, NEW g, WalkChances(b, h, g, n, c),
         NEW u, NEW v, Walk(u, v, b, h, g, n, c),
         NEW E \in 0 .. n, NEW o \in 1 .. c, NEW k \in Nat, NEW d, NEW z,
         AreParts(d, z, E, c),
         WalkParts(u, v, h, g, d, z, E, c),
         NEW J, Backward(J, z, d, E, c, o, k)
  PROVE  J[0][c] = (u[E][o] + v[E][o]) * k
<1>01. \A j \in 0 .. E - 1 : d[j] \in Nat /\ \A m \in 1 .. c : z[j][m] \in Nat
  BY DEF AreParts
<1> USE <1>01
<1>02. \A j \in 0 .. E - 1 : \A m \in 1 .. c :
         /\ Took(u, v, h, g, j, m) = (u[j][m] + v[j][m]) * (m * d[j])
         /\ u[j + 1][m] = (u[j][m] + v[j][m]) * z[j][m]
  BY DEF WalkParts
<1> USE <1>02
<1> DEFINE C == 1 .. c
           F(j) == [m \in C |-> (u[j][m] + v[j][m]) * J[j][m]]
           sum(f) == SumFunctionOnSet(f, C)
           Good == {j \in Nat : j <= E => sum(F(j)) = J[0][c]}
<1>1. n \in Nat /\ c \in Nat \ {0} /\ IsFiniteSet(C) /\ E \in Nat /\ E <= n
  <2>1. n \in Nat /\ c \in Nat \ {0}
    BY DEF WalkChances
  <2>2. E \in Nat /\ E <= n
    BY <2>1
  <2>3. IsFiniteSet(C)
    BY <2>1, FS_Interval
  <2> QED
    BY <2>1, <2>2, <2>3
<1>2. 0 \in Good
  <2> DEFINE f == F(0)
  <2>1. ASSUME NEW m \in C PROVE f[m] = IF m = c THEN J[0][c] ELSE 0
    <3>1. u[0][m] = 0 /\ v[0][m] = IF m = c THEN 1 ELSE 0
      BY DEF Walk
    <3>2. J[0][m] \in Nat
      <4>1. 0 \in 0 .. E /\ m \in 0 .. c
        BY <1>1
      <4> QED
        BY <4>1 DEF Backward
    <3> QED
      BY <3>1, <3>2
  <2>2. c \in C /\ J[0][c] \in Int
    <3>1. 0 \in 0 .. E /\ c \in 0 .. c /\ c \in C
      BY <1>1
    <3> QED
      BY <3>1 DEF Backward
  <2> HIDE DEF f, C
  <2>3. f[c] \in Int /\ f[c] = J[0][c] /\ \A m \in C : m # c => f[m] = 0
    BY <2>1, <2>2
  <2>4. SumFunctionOnSet(f, C) = f[c]
    <3>1. IsFiniteSet(C) /\ c \in C /\ f[c] \in Int
      BY ONLY <1>1, <2>2, <2>3
    <3>2. \A m \in C : m # c => f[m] = 0
      BY ONLY <2>3
    <3> QED
      BY ONLY <3>1, <3>2, SumOnly
  <2> QED
    BY <2>3, <2>4 DEF f, Good
<1>3. ASSUME NEW j \in 0 .. E - 1 PROVE sum(F(j + 1)) = sum(F(j))
  <2> DEFINE w == J[j + 1]
             X == F(j + 1)
             Y == [m \in C |-> (u[j][m] + v[j][m]) * w[m]]
             Z == [m \in C |-> Took(u, v, h, g, j, m) * (w[m] - w[m - 1])]
             V == [m \in C |-> b[j] * Y[m]]
             U == F(j)
  <2>1. /\ j \in 0 .. n - 1 /\ j \in 0 .. E /\ j + 1 \in 0 .. E /\ b[j] \in Int
        /\ \A m \in C : m \in 0 .. c /\ m - 1 \in 0 .. c
    <3>1. j \in 0 .. n - 1 /\ j \in 0 .. E /\ j + 1 \in 0 .. E
      BY <1>1
    <3>2. b[j] \in Int
      BY <3>1 DEF WalkChances
    <3>3. \A m \in C : m \in 0 .. c /\ m - 1 \in 0 .. c
      BY <1>1
    <3> QED
      BY <3>1, <3>2, <3>3
  <2>2. w[0] = 0 /\ \A m \in 0 .. c : w[m] \in Nat
    <3>1. \A m \in 0 .. c : w[m] \in Nat
      BY <2>1 DEF Backward
    <3>2. w[0] = 0
      <4>1. CASE j + 1 = E
        <5>1. 0 \in 0 .. c /\ 0 # o
          BY <1>1
        <5> QED
          BY <4>1, <5>1 DEF Backward
      <4>2. CASE j + 1 # E
        <5>1. j + 1 \in 0 .. E - 1
          BY <1>1, <4>2
        <5> QED
          BY <5>1 DEF Backward
      <4> QED
        BY <4>1, <4>2
    <3> QED
      BY <3>1, <3>2
  <2>3. Weighting(u, v, h, g, c, j, w, X, Y, Z)
    <3>1. \A m \in C : X[m] = (u[j + 1][m] + v[j + 1][m]) * w[m]
      OBVIOUS
    <3>2. \A m \in C : Y[m] = (u[j][m] + v[j][m]) * w[m]
      OBVIOUS
    <3>3. \A m \in C : Z[m] = Took(u, v, h, g, j, m) * (w[m] - w[m - 1])
      OBVIOUS
    <3>4. \A m \in 0 .. c : w[m] \in Int
      BY <2>2
    <3> HIDE DEF w, X, Y, Z
    <3> QED
      BY <2>2, <3>1, <3>2, <3>3, <3>4 DEF Weighting
  <2>4. ASSUME NEW m \in C
        PROVE  /\ Y[m] \in Int /\ Z[m] \in Int /\ U[m] \in Int /\ V[m] = b[j] * Y[m]
               /\ V[m] = U[m] + Z[m]
    <3> DEFINE p == u[j][m] + v[j][m]
               T == Took(u, v, h, g, j, m)
               B == b[j]
               D == m * d[j]
               q == z[j][m]
               x == w[m]
               y == w[m - 1]
    <3>1. p \in Int /\ T \in Int /\ B \in Int
      BY <2>1, WalkTypes
    <3>2. D \in Int /\ q \in Int
      BY <1>1
    <3>3. x \in Int /\ y \in Int
      BY <2>1, <2>2
    <3>4. T = p * D
      OBVIOUS
    <3>5. p * q = p * B - T
      <4>1. u[j + 1][m] = p * B - T
        BY <2>1, WalkTypes
      <4>2. u[j + 1][m] = p * q
        OBVIOUS
      <4> QED
        BY <4>1, <4>2
    <3>6. U[m] = p * J[j][m] /\ J[j][m] = D * y + q * x
      BY <2>1 DEF Backward
    <3>7. Y[m] = p * x /\ Z[m] = T * (x - y) /\ V[m] = B * Y[m]
      OBVIOUS
    <3> HIDE DEF p, T, B, D, q, x, y, U, V, Y, Z
    <3>8. p * (D * y + q * x) = (p * D) * y + (p * q) * x
      BY <3>1, <3>2, <3>3
    <3>9. U[m] = T * y + (p * B - T) * x
      BY <3>4, <3>5, <3>6, <3>8
    <3>10. B * (p * x) = (T * y + (p * B - T) * x) + T * (x - y)
      BY <3>1, <3>3
    <3>11. V[m] = U[m] + Z[m] /\ Y[m] \in Int /\ Z[m] \in Int /\ U[m] \in Int
      BY <3>1, <3>3, <3>7, <3>9, <3>10
    <3> QED
      BY <3>7, <3>11 DEF B
  <2>5. sum(X) = b[j] * sum(Y) - sum(Z) /\ sum(Y) \in Int /\ sum(Z) \in Int
    <3> HIDE DEF w, X, Y, Z
    <3> QED
      BY <2>1, <2>3, StepSum
  <2> HIDE DEF U, V, X, Y, Z, C
  <2>6. sum(V) = b[j] * sum(Y)
    BY <1>1, <2>1, <2>4, SumScaled
  <2>7. sum(V) = sum(U) + sum(Z) /\ sum(U) \in Int
    BY <1>1, <2>4, SumPlus, SumIs
  <2>8. sum(X) = sum(U)
    BY <2>5, <2>6, <2>7
  <2> QED
    BY <2>8 DEF X, U
<1>4. Good = Nat
  <2>1. ASSUME NEW j \in Good PROVE j + 1 \in Good
    <3> SUFFICES ASSUME j + 1 <= E PROVE sum(F(j + 1)) = J[0][c]
      OBVIOUS
    <3>1. j \in 0 .. E - 1 /\ sum(F(j)) = J[0][c]
      BY <1>1
    <3> HIDE DEF F, C
    <3> QED
      BY <1>3, <3>1
  <2>2. Good \in SUBSET Nat
    OBVIOUS
  <2> HIDE DEF Good
  <2> QED
    BY <1>2, <2>1, <2>2, InductionSet
<1>5. sum(F(E)) = (u[E][o] + v[E][o]) * k
  <2> DEFINE f == F(E)
  <2>1. ASSUME NEW m \in C PROVE f[m] = IF m = o THEN (u[E][o] + v[E][o]) * k ELSE 0
    <3>1. u[E][m] \in Nat /\ v[E][m] \in Nat
      BY DEF Walk
    <3>2. J[E][m] = IF m = o THEN k ELSE 0
      <4>1. m \in 0 .. c
        BY <1>1
      <4> QED
        BY <4>1 DEF Backward
    <3> QED
      BY <3>1, <3>2
  <2>2. o \in C /\ (u[E][o] + v[E][o]) * k \in Int
    <3>1. u[E][o] \in Nat /\ v[E][o] \in Nat
      BY DEF Walk
    <3> QED
      BY <3>1
  <2> HIDE DEF f, C
  <2>3. f[o] \in Int /\ f[o] = (u[E][o] + v[E][o]) * k /\ \A m \in C : m # o => f[m] = 0
    BY <2>1, <2>2
  <2>4. SumFunctionOnSet(f, C) = f[o]
    <3>1. IsFiniteSet(C)
      BY <1>1
    <3> QED
      BY <2>2, <2>3, <3>1, SumOnly
  <2> QED
    BY <2>3, <2>4 DEF f
<1>6. sum(F(E)) = J[0][c]
  <2>1. E \in Good /\ E <= E
    <3> HIDE DEF Good
    <3> QED
      BY <1>1, <1>4
  <2> HIDE DEF F, C
  <2> QED
    BY <2>1
<1> QED
  BY <1>5, <1>6

\* The copies taken, where every number of copies left takes its part of the weight
LEMMA TakenIs ==
  ASSUME NEW n, NEW c, NEW b, NEW h, NEW g, WalkChances(b, h, g, n, c),
         NEW u, NEW v, Walk(u, v, b, h, g, n, c), NEW i \in 0 .. n - 1, NEW q \in Int,
         \A m \in 1 .. c : Took(u, v, h, g, i, m) = q * ((u[i][m] + v[i][m]) * m)
  PROVE  TakenAt(u, v, h, g, c, i) = q * Weighted(u, v, c, i)
<1> DEFINE C == 1 .. c
           f == [m \in C |-> (u[i][m] + v[i][m]) * m]
           k == [m \in C |-> Took(u, v, h, g, i, m)]
<1>1. IsFiniteSet(C)
  <2>1. c \in Nat
    BY DEF WalkChances
  <2> QED
    BY <2>1, FS_Interval
<1>2. \A m \in C : f[m] \in Int /\ k[m] = q * f[m]
  <2> TAKE m \in C
  <2>1. u[i][m] \in Nat /\ v[i][m] \in Nat /\ m \in Nat
    BY WalkTypes
  <2>2. (u[i][m] + v[i][m]) * m \in Int
    BY <2>1
  <2> QED
    BY <2>2
<1> HIDE DEF f, k, C
<1>3. SumFunctionOnSet(k, C) = q * SumFunctionOnSet(f, C)
  BY <1>1, <1>2, SumScaled
<1> QED
  BY <1>3 DEF f, k, C, TakenAt, Weighted

\* Each takes its part, two of them together.
TakenTogether(u, v, h, g, c, i, q, x, y) ==
  /\ \A m \in 1 .. c : m # x /\ m # y =>
       Took(u, v, h, g, i, m) = q * ((u[i][m] + v[i][m]) * m)
  /\ Took(u, v, h, g, i, x) + Took(u, v, h, g, i, y)
       = q * ((u[i][x] + v[i][x]) * x) + q * ((u[i][y] + v[i][y]) * y)

LEMMA TakenIsSo ==
  ASSUME NEW n, NEW c, NEW b, NEW h, NEW g, WalkChances(b, h, g, n, c),
         NEW u, NEW v, Walk(u, v, b, h, g, n, c), NEW i \in 0 .. n - 1, NEW q \in Int,
         NEW x \in 1 .. c, NEW y \in 1 .. c, x # y, TakenTogether(u, v, h, g, c, i, q, x, y)
  PROVE  TakenAt(u, v, h, g, c, i) = q * Weighted(u, v, c, i)
<1> DEFINE C == 1 .. c
           f == [m \in C |-> (u[i][m] + v[i][m]) * m]
           e == [m \in C |-> q * f[m]]
           k == [m \in C |-> Took(u, v, h, g, i, m)]
<1>1. IsFiniteSet(C)
  <2>1. c \in Nat
    BY DEF WalkChances
  <2> QED
    BY <2>1, FS_Interval
<1>2. \A m \in C : /\ f[m] \in Int /\ e[m] = q * f[m] /\ e[m] \in Int /\ k[m] \in Int
                   /\ (m # x /\ m # y => k[m] = e[m])
  <2> TAKE m \in C
  <2> DEFINE w == (u[i][m] + v[i][m]) * m
  <2>1. u[i][m] \in Nat /\ v[i][m] \in Nat /\ m \in Nat /\ Took(u, v, h, g, i, m) \in Nat
    BY WalkTypes
  <2>2. w \in Int
    BY <2>1
  <2>3. m # x /\ m # y => Took(u, v, h, g, i, m) = q * w
    BY DEF TakenTogether
  <2>4. f[m] = w /\ e[m] = q * w /\ k[m] = Took(u, v, h, g, i, m)
    OBVIOUS
  <2> HIDE DEF w, f, e, k
  <2>5. q * w \in Int
    BY <2>2
  <2> QED
    BY <2>1, <2>2, <2>3, <2>4, <2>5
<1>3. k[x] + k[y] = e[x] + e[y]
  BY DEF TakenTogether
<1> HIDE DEF f, k, e, C
<1>4. SumFunctionOnSet(e, C) = q * SumFunctionOnSet(f, C)
  BY <1>1, <1>2, SumScaled
<1>5. x \in C /\ y \in C
  BY DEF C
<1>6. /\ SumFunctionOnSet(k, C) \in Int /\ SumFunctionOnSet(e, C) \in Int
      /\ SumFunctionOnSet(k, C) - k[x] - k[y] = SumFunctionOnSet(e, C) - e[x] - e[y]
  <2>1. DifferInTwo(k, e, C, x, y)
    BY <1>1, <1>2, <1>5 DEF DifferInTwo
  <2> QED
    BY <2>1, SumChangeTwo
<1>7. k[x] \in Int /\ k[y] \in Int /\ e[x] \in Int /\ e[y] \in Int
  BY <1>2, <1>5
<1>8. SumFunctionOnSet(k, C) = SumFunctionOnSet(e, C)
  <2>1. ASSUME NEW s \in Int, NEW t \in Int, NEW a \in Int, NEW d \in Int,
               NEW r \in Int, NEW p \in Int, a + d = r + p, s - a - d = t - r - p
        PROVE  s = t
    BY <2>1
  <2> QED
    BY ONLY <1>3, <1>6, <1>7, <2>1
<1> QED
  BY <1>4, <1>8 DEF f, k, C, TakenAt, Weighted

\* N[m] of those that come with m copies left take one: p of each with x, none just after y.
PartlyTaken(u, v, c, i, d, p, x, y, N) ==
  /\ \A m \in 1 .. c : m # x /\ m # y => N[m] = (u[i][m] + v[i][m]) * (m * d)
  /\ N[x] = (u[i][x] + v[i][x]) * p /\ N[y] = u[i][y] * (y * d)

\* What they miss of d for every copy left
Misses(u, v, c, i, d, p, x, y, N) ==
  d * Weighted(u, v, c, i) - SumFunctionOnSet(N, 1 .. c)
    = (u[i][x] + v[i][x]) * (x * d - p) + v[i][y] * (y * d)

\* What a disk misses that takes only part of x and none just after a copy with y left
LEMMA MissedIs ==
  ASSUME NEW n, NEW c, NEW b, NEW h, NEW g, WalkChances(b, h, g, n, c),
         NEW u, NEW v, Walk(u, v, b, h, g, n, c), NEW i \in 0 .. n - 1, NEW d \in Nat,
         NEW p \in Nat, NEW x \in 1 .. c, NEW y \in 1 .. c, x # y, NEW N,
         PartlyTaken(u, v, c, i, d, p, x, y, N)
  PROVE  Misses(u, v, c, i, d, p, x, y, N)
<1>a. /\ \A m \in 1 .. c : m # x /\ m # y => N[m] = (u[i][m] + v[i][m]) * (m * d)
      /\ N[x] = (u[i][x] + v[i][x]) * p /\ N[y] = u[i][y] * (y * d)
  BY DEF PartlyTaken
<1> USE <1>a
<1> DEFINE C == 1 .. c
           f == [m \in C |-> (u[i][m] + v[i][m]) * m]
           e == [m \in C |-> d * f[m]]
<1>1. IsFiniteSet(C) /\ c \in Nat
  <2>1. c \in Nat
    BY DEF WalkChances
  <2>2. IsFiniteSet(C)
    BY <2>1, FS_Interval
  <2> QED
    BY <2>1, <2>2
<1>2. ASSUME NEW m \in C
      PROVE  /\ m \in Nat /\ u[i][m] \in Nat /\ v[i][m] \in Nat
             /\ f[m] \in Int /\ e[m] = d * f[m] /\ e[m] \in Int
             /\ e[m] = (u[i][m] + v[i][m]) * (m * d) /\ e[m] \in Nat
  <2> DEFINE w == u[i][m] + v[i][m]
  <2>1. u[i][m] \in Nat /\ v[i][m] \in Nat /\ m \in Nat
    BY <1>1, WalkTypes
  <2>2. w \in Nat
    BY <2>1
  <2>3. f[m] = w * m /\ e[m] = d * f[m]
    OBVIOUS
  <2> HIDE DEF w, f, e
  <2>4. w * m \in Nat /\ d * (w * m) \in Nat /\ d * (w * m) = w * (m * d)
    BY <2>1, <2>2
  <2> QED
    BY <2>1, <2>3, <2>4 DEF w
<1>3. ASSUME NEW m \in C PROVE N[m] \in Nat /\ (m # x /\ m # y => N[m] = e[m])
  <2>1. CASE m = x
    <3>1. (u[i][x] + v[i][x]) * p \in Nat
      BY <1>2
    <3> QED
      BY <2>1, <3>1
  <2>2. CASE m = y
    <3>1. u[i][y] \in Nat /\ y * d \in Nat
      BY <1>2
    <3>2. u[i][y] * (y * d) \in Nat
      BY <3>1
    <3> QED
      BY <2>2, <3>2
  <2>3. CASE m # x /\ m # y
    <3>1. N[m] = (u[i][m] + v[i][m]) * (m * d)
      BY <2>3
    <3> HIDE DEF e, f
    <3> QED
      BY <1>2, <2>3, <3>1
  <2> QED
    BY <2>1, <2>2, <2>3
<1>4. \A m \in C : f[m] \in Int /\ e[m] = d * f[m] /\ e[m] \in Int /\ N[m] \in Int
                   /\ (m # x /\ m # y => N[m] = e[m])
  <2> HIDE DEF f, e
  <2> QED
    BY <1>2, <1>3
<1>5. x \in C /\ y \in C /\ d \in Int
  OBVIOUS
<1>6. /\ e[x] = (u[i][x] + v[i][x]) * (x * d) /\ e[y] = (u[i][y] + v[i][y]) * (y * d)
      /\ x \in Nat /\ y \in Nat /\ u[i][x] \in Nat /\ v[i][x] \in Nat
      /\ u[i][y] \in Nat /\ v[i][y] \in Nat
  <2> HIDE DEF e, f
  <2> QED
    BY <1>2, <1>5
<1> HIDE DEF f, e, C
<1>7. SumFunctionOnSet(e, C) = d * SumFunctionOnSet(f, C) /\ SumFunctionOnSet(f, C) \in Int
  BY <1>1, <1>4, <1>5, SumScaled, SumIs
<1>8. /\ SumFunctionOnSet(N, C) \in Int /\ SumFunctionOnSet(e, C) \in Int
      /\ SumFunctionOnSet(N, C) - N[x] - N[y] = SumFunctionOnSet(e, C) - e[x] - e[y]
  <2>1. DifferInTwo(N, e, C, x, y)
    BY <1>1, <1>4, <1>5 DEF DifferInTwo
  <2> QED
    BY <2>1, SumChangeTwo
<1> DEFINE X == SumFunctionOnSet(e, C)
           Y == SumFunctionOnSet(N, C)
           r == (u[i][x] + v[i][x]) * (x * d - p) + v[i][y] * (y * d)
<1>9. (e[x] - N[x]) + (e[y] - N[y]) = r
  <2> DEFINE w == u[i][x] + v[i][x]
             s == u[i][y]
             t == v[i][y]
             xd == x * d
             yd == y * d
  <2>1. /\ w \in Int /\ s \in Int /\ t \in Int /\ xd \in Int /\ yd \in Int
        /\ e[x] = w * xd /\ N[x] = w * p /\ e[y] = (s + t) * yd /\ N[y] = s * yd
        /\ r = w * (xd - p) + t * yd
    BY <1>6
  <2> HIDE DEF w, s, t, xd, yd, r
  <2>2. (w * xd - w * p) + ((s + t) * yd - s * yd) = w * (xd - p) + t * yd
    BY <2>1
  <2> QED
    BY <2>1, <2>2
<1>10. e[x] \in Int /\ e[y] \in Int /\ N[x] \in Int /\ N[y] \in Int
  BY <1>4, <1>5
<1>11. X - Y = r
  <2> HIDE DEF X, Y, r
  <2> QED
    BY <1>8, <1>9, <1>10 DEF X, Y
<1> QED
  BY <1>7, <1>11 DEF f, C, X, Y, r, Weighted, Misses

\* The part of q that m parts of d make, at most all of it, and what it leaves
PartOf(m, d, q) == IF m * d < q THEN m * d ELSE q
RestOf(m, d, q) == IF m * d < q THEN q - m * d ELSE 0

\* The part and the rest are together q.
LEMMA PartIs ==
  ASSUME NEW m \in Nat, NEW d \in Nat, NEW q \in Nat \ {0}
  PROVE  /\ PartOf(m, d, q) \in 0 .. q /\ RestOf(m, d, q) \in Nat
         /\ RestOf(m, d, q) = q - PartOf(m, d, q)
<1> DEFINE x == m * d
<1>1. x \in Nat /\ PartOf(m, d, q) = (IF x < q THEN x ELSE q)
      /\ RestOf(m, d, q) = IF x < q THEN q - x ELSE 0
  BY DEF PartOf, RestOf
<1> HIDE DEF x
<1> QED
  BY <1>1

\* A chance is at most 1.
LEMMA LeastOfChance ==
  ASSUME NEW x \in Fractions, NEW d \in Nat, NEW q \in Nat \ {0}, IsFraction(x, d, q),
         NEW m \in Nat
  PROVE  /\ Least(One, Scaled(m, x)) \in Fractions
         /\ IsFraction(Least(One, Scaled(m, x)), PartOf(m, d, q), q)
         /\ Less(One, Scaled(m, x)) <=> q < m * d
<1> DEFINE y == Scaled(m, x)
           a == y[1]
           b == y[2]
           w == m * d
<1>1. y \in Fractions /\ IsFraction(y, w, q) /\ w \in Nat
  BY ScaledValue
<1>2. a \in Nat /\ b \in Nat \ {0} /\ a * q = w * b
  BY <1>1 DEF Fractions, IsFraction
<1>3. Less(One, y) <=> 1 * b < a * 1
  BY DEF Less, One
<1>4. PartOf(m, d, q) = IF w < q THEN w ELSE q
  BY DEF PartOf
<1>5. Least(One, y) = IF Less(One, y) THEN One ELSE y
  BY DEF Least
<1> HIDE DEF a, b, w, y
<1>6. b < a <=> q < w
  <2>1. a * q = q * a /\ w * b = b * w
    BY <1>1, <1>2
  <2>2. b < a => q < w
    <3> SUFFICES ASSUME b < a, w <= q PROVE FALSE
      BY <1>1
    <3> DEFINE X == q * a
               Y == q * b
               Z == b * w
               V == b * q
    <3>1. Y < X
      BY <1>2, ProductOrder
    <3>2. Z <= V
      BY <1>1, <1>2, ProductOrder
    <3>3. X = Z /\ Y = V /\ X \in Int /\ Y \in Int
      BY <1>1, <1>2, <2>1
    <3> HIDE DEF X, Y, Z, V
    <3> QED
      BY <3>1, <3>2, <3>3
  <2>3. q < w => b < a
    <3> SUFFICES ASSUME q < w, a <= b PROVE FALSE
      BY <1>2
    <3> DEFINE X == q * a
               Y == q * b
               Z == b * w
               V == b * q
    <3>1. X <= Y
      BY <1>2, ProductOrder
    <3>2. V < Z
      BY <1>1, <1>2, ProductOrder
    <3>3. X = Z /\ Y = V /\ X \in Int /\ Y \in Int
      BY <1>1, <1>2, <2>1
    <3> HIDE DEF X, Y, Z, V
    <3> QED
      BY <3>1, <3>2, <3>3
  <2> QED
    BY <2>2, <2>3
<1>7. Less(One, y) <=> q < w
  BY <1>2, <1>3, <1>6
<1>8. Least(One, y) \in Fractions /\ IsFraction(Least(One, y), PartOf(m, d, q), q)
  <2>1. CASE q < w
    <3>1. Least(One, y) = One /\ PartOf(m, d, q) = q
      BY <1>1, <1>4, <1>5, <1>7, <2>1
    <3>2. One \in Fractions /\ IsFraction(One, q, q)
      BY DEF One, Fractions, IsFraction
    <3> QED
      BY <3>1, <3>2
  <2>2. CASE ~(q < w)
    <3>1. Least(One, y) = y
      BY <1>5, <1>7, <2>2
    <3>2. PartOf(m, d, q) = w
      BY <1>1, <1>4, <2>2
    <3> QED
      BY <1>1, <3>1, <3>2
  <2> QED
    BY <2>1, <2>2
<1> QED
  BY <1>7, <1>8 DEF y, w

\* What a chance leaves, or 0 if it is more than 1: the factors of P
LEMMA RestOfChance ==
  ASSUME NEW x \in Fractions, NEW d \in Nat, NEW q \in Nat \ {0}, IsFraction(x, d, q),
         NEW m \in Nat
  PROVE  LET f == Minus(One, Scaled(m, x))
             r == IF f[1] < 0 THEN Zero ELSE f
         IN  r \in Fractions /\ IsFraction(r, RestOf(m, d, q), q)
<1> DEFINE y == Scaled(m, x)
           w == m * d
           f == Minus(One, y)
           r == IF f[1] < 0 THEN Zero ELSE f
<1>1. y \in Fractions /\ IsFraction(y, w, q) /\ w \in Nat
  BY ScaledValue
<1>2. Less(One, y) <=> q < w
  BY LeastOfChance
<1>3. RestOf(m, d, q) = IF w < q THEN q - w ELSE 0
  BY DEF RestOf
<1>4. Zero \in Fractions /\ IsFraction(Zero, 0, q)
  BY DEF Zero, Fractions, IsFraction
<1> HIDE DEF y, w
<1>5. CASE w <= q
  <2>1. q - w \in Nat /\ q - (q - w) = w /\ RestOf(m, d, q) = q - w
    BY <1>1, <1>3, <1>5
  <2>2. f \in Fractions /\ IsFraction(f, q - w, q)
    BY <1>1, <2>1, RestValue
  <2> HIDE DEF f
  <2>3. ~(f[1] < 0)
    BY <2>2 DEF Fractions
  <2> QED
    BY <2>1, <2>2, <2>3 DEF f, y
<1>6. CASE q < w
  <2>1. f[1] < 0
    <3> DEFINE a == y[1]
               b == y[2]
    <3>1. a \in Nat /\ b \in Nat \ {0} /\ b < a
      BY <1>1, <1>2, <1>6 DEF Less, One, Fractions
    <3> HIDE DEF a, b
    <3> DEFINE e == b - a
    <3>2. f = Ratio(e, b)
      <4>1. f = Ratio(1 * b - a * 1, 1 * b)
        BY DEF Minus, One, a, b
      <4>2. 1 * b - a * 1 = e /\ 1 * b = b
        BY <3>1
      <4> HIDE DEF e
      <4> QED
        BY <4>1, <4>2
    <3>3. e < 0 /\ e \in Int
      BY <3>1
    <3> HIDE DEF e, f
    <3> DEFINE p == f[1]
               t == f[2]
    <3>4. p \in Int /\ t \in Nat \ {0} /\ p * b = e * t
      BY <3>1, <3>2, <3>3, RatioIs
    <3> HIDE DEF p, t
    <3>5. SUFFICES ASSUME p >= 0 PROVE FALSE
      BY <3>4 DEF p
    <3>6. b * 0 <= b * p /\ t * e < t * 0
      BY <3>1, <3>3, <3>4, <3>5, ProductOrder
    <3> DEFINE U == p * b
               V == e * t
    <3>7. U = V /\ 0 <= U /\ V < 0 /\ U \in Int
      BY <3>1, <3>3, <3>4, <3>6
    <3> HIDE DEF U, V
    <3> QED
      BY <3>7
  <2>2. r = Zero /\ RestOf(m, d, q) = 0
    BY <1>1, <1>3, <1>6, <2>1
  <2> QED
    BY <1>4, <2>2 DEF f, y
<1> QED
  BY <1>1, <1>5, <1>6

\* Z[j][v] is the product of the numbers z from j to v - 1.
Spans(Z, z, E) ==
  /\ \A j \in 0 .. E : Z[j][j] = 1 /\ \A v \in j .. E : Z[j][v] \in Nat
  /\ \A j \in 0 .. E : \A v \in j .. E - 1 : Z[j][v + 1] = Z[j][v] * z[v]
  /\ \A j \in 0 .. E - 1 : \A v \in j + 1 .. E : Z[j][v] = z[j] * Z[j + 1][v]

\* The products from j on
SpanFrom(f, z, j, E) ==
  /\ f[j] = 1 /\ \A v \in j .. E : f[v] \in Nat
  /\ \A v \in j .. E - 1 : f[v + 1] = f[v] * z[v]

\* There are such products for one number,
LEMMA SpanExists ==
  ASSUME NEW E \in Nat, NEW z, \A v \in 0 .. E - 1 : z[v] \in Nat, NEW j \in 0 .. E
  PROVE  \E f : SpanFrom(f, z, j, E)
<1> DEFINE N == E - j
           S == Nat
           G == [i \in 0 .. N - 1 |-> [x \in S |-> x * z[j + i]]]
<1>1. N \in Nat /\ 1 \in S /\ \A i \in 0 .. N - 1 : j + i \in 0 .. E - 1
  OBVIOUS
<1>2. G \in [0 .. N - 1 -> [S -> S]]
  <2>1. ASSUME NEW i \in 0 .. N - 1, NEW x \in S PROVE x * z[j + i] \in S
    BY <1>1
  <2> HIDE DEF N
  <2> QED
    BY <2>1
<1>3. \A i \in 0 .. N - 1 : \A x \in S : G[i][x] = x * z[j + i]
  OBVIOUS
<1>4. PICK h \in [0 .. N -> S] : h[0] = 1 /\ \A i \in 0 .. N - 1 : h[i + 1] = G[i][h[i]]
  <2> HIDE DEF S, G, N
  <2>1. UpSequences(N, S, 1, G) # {}
    BY <1>1, <1>2, UpSequence
  <2> QED
    BY <2>1 DEF UpSequences
<1> DEFINE f == [v \in j .. E |-> h[v - j]]
<1>5. \A v \in j .. E : f[v] \in Nat
  BY <1>4
<1>6. f[j] = 1
  BY <1>4
<1>7. ASSUME NEW v \in j .. E - 1 PROVE f[v + 1] = f[v] * z[v]
  <2> DEFINE i == v - j
  <2>1. i \in 0 .. N - 1 /\ i \in 0 .. N /\ j + i = v /\ (v + 1) - j = i + 1
        /\ v \in j .. E /\ v + 1 \in j .. E
    OBVIOUS
  <2>2. f[v] = h[i] /\ f[v + 1] = h[i + 1]
    BY <2>1
  <2> HIDE DEF i, f, G, N
  <2>3. h[i + 1] = h[i] * z[j + i]
    BY <1>3, <1>4, <2>1
  <2> QED
    BY <2>1, <2>2, <2>3
<1> HIDE DEF f
<1> QED
  BY <1>5, <1>6, <1>7 DEF SpanFrom

\* and for all.
LEMMA SpansExist ==
  ASSUME NEW E \in Nat, NEW z, \A v \in 0 .. E - 1 : z[v] \in Nat
  PROVE  \E Z : Spans(Z, z, E)
<1> DEFINE Z == [j \in 0 .. E |-> CHOOSE f : SpanFrom(f, z, j, E)]
<1>1. ASSUME NEW j \in 0 .. E
      PROVE  /\ Z[j][j] = 1 /\ \A v \in j .. E : Z[j][v] \in Nat
             /\ \A v \in j .. E - 1 : Z[j][v + 1] = Z[j][v] * z[v]
  <2>1. SpanFrom(CHOOSE f : SpanFrom(f, z, j, E), z, j, E)
    BY SpanExists
  <2>2. SpanFrom(Z[j], z, j, E)
    BY <2>1
  <2> HIDE DEF Z
  <2> QED
    BY <2>2 DEF SpanFrom
<1> HIDE DEF Z
<1>2. ASSUME NEW j \in 0 .. E - 1 PROVE \A v \in j + 1 .. E : Z[j][v] = z[j] * Z[j + 1][v]
  <2> DEFINE Good == {i \in Nat : j + 1 + i <= E => Z[j][j + 1 + i] = z[j] * Z[j + 1][j + 1 + i]}
  <2>1. j \in 0 .. E /\ j + 1 \in 0 .. E /\ z[j] \in Nat
    OBVIOUS
  <2>2. 0 \in Good
    <3>1. Z[j][j + 1] = Z[j][j] * z[j]
      <4>1. j \in j .. E - 1
        OBVIOUS
      <4> QED
        BY <1>1, <2>1, <4>1
    <3>2. Z[j][j] = 1 /\ Z[j + 1][j + 1] = 1
      BY <1>1, <2>1
    <3>3. j + 1 + 0 = j + 1
      OBVIOUS
    <3>4. Z[j][j + 1] = z[j] * 1
      BY <2>1, <3>1, <3>2
    <3> QED
      BY <3>2, <3>3, <3>4
  <2>3. ASSUME NEW i \in Good PROVE i + 1 \in Good
    <3> SUFFICES ASSUME j + 1 + (i + 1) <= E
                 PROVE  Z[j][j + 1 + (i + 1)] = z[j] * Z[j + 1][j + 1 + (i + 1)]
      OBVIOUS
    <3> DEFINE v == j + 1 + i
    <3>1. /\ i \in Nat /\ v + 1 = j + 1 + (i + 1) /\ v \in j .. E - 1 /\ v \in j + 1 .. E - 1
          /\ v \in j .. E /\ v \in j + 1 .. E /\ v \in 0 .. E - 1
          /\ Z[j][v] = z[j] * Z[j + 1][v]
      OBVIOUS
    <3> HIDE DEF v, Good
    <3>2. Z[j][v + 1] = Z[j][v] * z[v] /\ Z[j + 1][v + 1] = Z[j + 1][v] * z[v]
      BY <1>1, <2>1, <3>1
    <3>3. z[v] \in Nat /\ Z[j + 1][v] \in Nat
      BY <1>1, <2>1, <3>1
    <3>4. (z[j] * Z[j + 1][v]) * z[v] = z[j] * (Z[j + 1][v] * z[v])
      BY <2>1, <3>3
    <3> QED
      BY <3>1, <3>2, <3>4
  <2>4. Good = Nat
    <3>1. Good \in SUBSET Nat
      OBVIOUS
    <3> HIDE DEF Good
    <3> QED
      BY <2>2, <2>3, <3>1, InductionSet
  <2> TAKE v \in j + 1 .. E
  <2> DEFINE i == v - (j + 1)
  <2>5. i \in Nat /\ j + 1 + i = v /\ v <= E
    OBVIOUS
  <2>6. i \in Good
    BY <2>4, <2>5
  <2> HIDE DEF i
  <2> QED
    BY <2>5, <2>6
<1>3. Spans(Z, z, E)
  BY <1>1, <1>2 DEF Spans
<1> QED
  BY <1>3

\* All disks before E let z pass.
PassesAll(u, v, z, l, E) ==
  \A j \in 0 .. E - 1 : z[j] \in Nat /\ u[j + 1][l] = (u[j][l] + v[j][l]) * z[j]

(* Those who come to disk i with l copies left: from every disk behind a   *)
(* copy, those who take none from there on.                                *)
Arriving(v, Z, l, i) == [s \in 0 .. i |-> v[s][l] * Z[s][i]]

\* They are all who come there with l copies left.
LEMMA ArrivalsMeet ==
  ASSUME NEW n, NEW c, NEW b, NEW h, NEW g, WalkChances(b, h, g, n, c),
         NEW u, NEW v, Walk(u, v, b, h, g, n, c), NEW l \in 1 .. c, NEW E \in 0 .. n, NEW z,
         PassesAll(u, v, z, l, E), NEW Z, Spans(Z, z, E), NEW i \in 0 .. E
  PROVE  SumFunctionOnSet(Arriving(v, Z, l, i), 0 .. i) = u[i][l] + v[i][l]
<1> DEFINE N == Arriving(v, Z, l, i)
           F == [s \in 0 .. i |-> -(u[s][l] * Z[s][i])]
           D == 0 .. i - 1
           A == 0 .. i
<1>0. /\ \A s \in 0 .. i : N[s] = v[s][l] * Z[s][i]
      /\ \A j \in 0 .. E - 1 : z[j] \in Nat /\ u[j + 1][l] = (u[j][l] + v[j][l]) * z[j]
  BY DEF Arriving, PassesAll
<1> HIDE DEF N
<1>1. n \in Nat /\ E \in Nat /\ E <= n /\ i \in Nat
  <2>1. n \in Nat
    BY DEF WalkChances
  <2> QED
    BY <2>1
<1>2. ASSUME NEW s \in A
      PROVE  /\ u[s][l] \in Nat /\ v[s][l] \in Nat /\ Z[s][i] \in Nat
             /\ F[s] = -(u[s][l] * Z[s][i]) /\ F[s] \in Int /\ N[s] \in Int
  <2>1. s \in 0 .. n /\ s \in 0 .. E /\ i \in s .. E
    BY <1>1
  <2>2. u[s][l] \in Nat /\ v[s][l] \in Nat
    BY <2>1 DEF Walk
  <2>3. Z[s][i] \in Nat
    BY <2>1 DEF Spans
  <2>4. u[s][l] * Z[s][i] \in Nat /\ v[s][l] * Z[s][i] \in Nat
    BY <2>2, <2>3
  <2> QED
    BY <1>0, <2>2, <2>3, <2>4
<1>3. ASSUME NEW s \in D PROVE N[s] = F[s] - F[s + 1]
  <2>1. s \in A /\ s + 1 \in A /\ s \in 0 .. E - 1 /\ i \in s + 1 .. E
    BY <1>1
  <2> DEFINE p == u[s][l]
             q == v[s][l]
             y == z[s]
             x == Z[s + 1][i]
  <2>2. u[s + 1][l] = (p + q) * y /\ y \in Nat
    BY <1>0, <2>1
  <2>3. Z[s][i] = y * x
    BY <2>1 DEF Spans
  <2>4. p \in Nat /\ q \in Nat /\ x \in Nat
    BY <1>2, <2>1
  <2>5. N[s] = q * (y * x)
    BY <1>0, <2>1, <2>3
  <2>6. F[s] = -(p * (y * x)) /\ F[s + 1] = -(((p + q) * y) * x)
    BY <1>2, <2>1, <2>2, <2>3
  <2> HIDE DEF p, q, y, x, F
  <2>7. q * (y * x) = -(p * (y * x)) - (-(((p + q) * y) * x))
    BY <2>2, <2>4
  <2> QED
    BY <2>5, <2>6, <2>7
<1> HIDE DEF F
<1>4. SumFunctionOnSet(N, D) = F[0] - F[i]
  <2>1. 0 \in Nat /\ i \in Nat /\ 0 <= i /\ \A s \in 0 .. i : F[s] \in Int
    BY <1>1, <1>2
  <2>2. \A s \in 0 .. i - 1 : N[s] = F[s] - F[s + 1]
    BY <1>3
  <2> QED
    BY <2>1, <2>2, SumOfDrops
<1>5. F[0] = 0
  <2>1. u[0][l] = 0 /\ 0 \in A
    BY <1>1 DEF Walk
  <2>2. -(0 * Z[0][i]) = 0
    BY <1>2, <2>1
  <2> QED
    BY <1>2, <2>1, <2>2
<1>6. Z[i][i] = 1 /\ i \in A
  BY <1>1 DEF Spans
<1>7. F[i] = -u[i][l] /\ N[i] = v[i][l] /\ u[i][l] \in Nat /\ v[i][l] \in Nat
  BY <1>0, <1>2, <1>6
<1>8. SumFunctionOnSet(N, A) = N[i] + SumFunctionOnSet(N, D)
  <2>1. IsFiniteSet(A) /\ A \ {i} = D
    <3>1. IsFiniteSet(A)
      BY <1>1, FS_Interval
    <3>2. A \ {i} = D
      BY <1>1
    <3> QED
      BY <3>1, <3>2
  <2>2. \A s \in A : N[s] \in Int
    BY <1>2
  <2> HIDE DEF A, D
  <2> QED
    BY <1>6, <2>1, <2>2, SumIs
<1>9. SumFunctionOnSet(N, A) = u[i][l] + v[i][l]
  BY <1>4, <1>5, <1>7, <1>8
<1> QED
  BY <1>9 DEF N

\* The sum of the drops of F is the drop from its first to its last value.
LEMMA SumOfDropsTo ==
  ASSUME NEW j \in Nat, NEW e \in Nat, j <= e, NEW F, \A v \in j .. e + 1 : F[v] \in Int,
         NEW M, \A v \in j .. e : M[v] = F[v] - F[v + 1]
  PROVE  SumFunctionOnSet(M, j .. e) = F[j] - F[e + 1]
<1> DEFINE x == e + 1
<1>1. /\ x \in Nat /\ j <= x /\ x - 1 = e /\ \A v \in j .. x : F[v] \in Int
      /\ \A v \in j .. x - 1 : M[v] = F[v] - F[v + 1]
  OBVIOUS
<1> HIDE DEF x
<1>2. SumFunctionOnSet(M, j .. x - 1) = F[j] - F[x]
  BY <1>1, SumOfDrops
<1> QED
  BY <1>1, <1>2 DEF x

\* The numbers N of those who take copy m at a disk from j to e and come on
RowParts(N, Z, y, J, d, z, m, j, e, E, o) ==
  /\ e \in Int /\ e = E - (m - o)
  /\ Spans(Z, y, E) /\ \A v \in 0 .. E - 1 : y[v] = z[v][m]
  /\ \A v \in j .. e : N[v] = d[v] * Z[j][v] * J[v + 1][m - 1]

\* m times their sum is the number that comes to the end.
AddUpTo(N, J, m, j, e) ==
  SumFunctionOnSet(N, j .. e) \in Nat /\ m * SumFunctionOnSet(N, j .. e) = J[j][m]

(* What a walk comes to with one copy more: the sum over the disks v that  *)
(* take the copy, of those that pass all disks before v.                   *)
LEMMA RowSum ==
  ASSUME NEW E \in Nat, NEW c \in Nat \ {0}, NEW o \in 1 .. c, NEW k \in Nat, NEW d, NEW z,
         AreParts(d, z, E, c),
         NEW J, Backward(J, z, d, E, c, o, k), NEW m \in o + 1 .. c,
         NEW y, NEW Z, NEW j \in 0 .. E, NEW e, NEW N, RowParts(N, Z, y, J, d, z, m, j, e, E, o)
  PROVE  AddUpTo(N, J, m, j, e)
<1>a. /\ e \in Int /\ e = E - (m - o)
      /\ Spans(Z, y, E) /\ \A v \in 0 .. E - 1 : y[v] = z[v][m]
      /\ \A v \in j .. e : N[v] = d[v] * Z[j][v] * J[v + 1][m - 1]
  BY DEF RowParts
<1> USE <1>a
<1>1. /\ e < E /\ m \in 1 .. c /\ m \in 0 .. c /\ m - 1 \in 0 .. c /\ m \in Nat /\ j \in Nat
      /\ m \in Int /\ j \in Int
  OBVIOUS
<1>0. IsFiniteSet(j .. e)
  BY <1>1, FS_Interval
<1>2. ASSUME NEW v \in j .. e
      PROVE  /\ Z[j][v] \in Nat /\ Z[j][v + 1] \in Nat /\ d[v] \in Nat
             /\ J[v + 1][m - 1] \in Nat /\ J[v + 1][m] \in Nat /\ J[v][m] \in Nat
             /\ y[v] \in Nat /\ Z[j][v + 1] = Z[j][v] * y[v]
             /\ J[v][m] = (m * d[v]) * J[v + 1][m - 1] + y[v] * J[v + 1][m]
  <2>1. v \in 0 .. E - 1 /\ v \in 0 .. E /\ v + 1 \in 0 .. E /\ v \in j .. E
        /\ v + 1 \in j .. E /\ v \in j .. E - 1
    BY <1>1
  <2>2. Z[j][v] \in Nat /\ Z[j][v + 1] \in Nat /\ Z[j][v + 1] = Z[j][v] * y[v]
    BY <2>1 DEF Spans
  <2>3. J[v + 1][m - 1] \in Nat /\ J[v + 1][m] \in Nat /\ J[v][m] \in Nat
    BY <1>1, <2>1 DEF Backward
  <2>4. J[v][m] = (m * d[v]) * J[v + 1][m - 1] + z[v][m] * J[v + 1][m]
    BY <1>1, <2>1 DEF Backward
  <2>5. y[v] = z[v][m] /\ z[v][m] \in Nat /\ d[v] \in Nat
    BY <1>1, <2>1 DEF AreParts
  <2> QED
    BY <2>2, <2>3, <2>4, <2>5
<1> DEFINE F == [v \in j .. e + 1 |-> Z[j][v] * J[v][m]]
           M == [v \in j .. e |-> m * N[v]]
<1>3. ASSUME NEW v \in j .. e
      PROVE  N[v] \in Nat /\ M[v] = m * N[v] /\ M[v] \in Int /\ M[v] = F[v] - F[v + 1]
  <2> DEFINE a == Z[j][v]
             D == d[v]
             p == J[v + 1][m - 1]
             q == J[v + 1][m]
             r == J[v][m]
             w == y[v]
             A == Z[j][v + 1]
  <2>1. /\ a \in Nat /\ D \in Nat /\ p \in Nat /\ q \in Nat /\ r \in Nat /\ w \in Nat
        /\ A = a * w /\ r = (m * D) * p + w * q /\ N[v] = D * a * p
    BY <1>2
  <2>2. v \in j .. e + 1 /\ v + 1 \in j .. e + 1
    BY <1>1
  <2>3. F[v] = a * r /\ F[v + 1] = A * q
    BY <2>2
  <2>4. M[v] = m * N[v]
    OBVIOUS
  <2> HIDE DEF a, D, p, q, r, w, A, F, M
  <2>5. N[v] \in Nat /\ m * N[v] \in Int
    BY <1>1, <2>1
  <2>6. a * r = m * (D * a * p) + (a * w) * q
    BY <1>1, <2>1
  <2> DEFINE x == m * (D * a * p)
             t == (a * w) * q
  <2>7. x \in Int /\ t \in Int /\ F[v] = x + t /\ F[v + 1] = t /\ M[v] = x
    BY <1>1, <2>1, <2>3, <2>4, <2>6
  <2> HIDE DEF x, t
  <2> QED
    BY <2>4, <2>5, <2>7
<1> HIDE DEF F, M
<1>4. \A v \in j .. e : N[v] \in Int /\ M[v] = m * N[v]
  BY <1>3
<1> DEFINE sum == SumFunctionOnSet(N, j .. e)
<1>5. sum \in Nat
  <2>1. \A v \in j .. e : N[v] \in Nat
    BY <1>3
  <2> QED
    BY <1>0, <2>1, SumOfNaturals
<1>6. SumFunctionOnSet(M, j .. e) = m * sum
  BY <1>0, <1>1, <1>4, SumScaled
<1>7. ASSUME j <= e PROVE m * sum = J[j][m]
  <2>1. \A v \in j .. e + 1 : F[v] \in Int
    <3> SUFFICES ASSUME NEW v \in j .. e + 1 PROVE F[v] \in Int
      OBVIOUS
    <3> USE DEF F
    <3>1. v \in j .. E /\ v \in 0 .. E
      BY <1>1
    <3>2. Z[j][v] \in Nat /\ J[v][m] \in Nat
      BY <1>1, <3>1 DEF Spans, Backward
    <3> QED
      BY <3>2
  <2>2. F[j] = J[j][m]
    <3>1. j \in j .. e + 1 /\ Z[j][j] = 1 /\ J[j][m] \in Nat
      BY <1>1, <1>7 DEF Spans, Backward
    <3> QED
      BY <3>1 DEF F
  <2>3. F[e + 1] = 0
    <3>1. e + 1 \in j .. e + 1 /\ e + 1 \in 0 .. E /\ e + 1 > E - (m - o) /\ e + 1 \in j .. E
      BY <1>1, <1>7
    <3>2. J[e + 1][m] = 0
      <4>1. m < o \/ e + 1 > E - (m - o)
        BY <3>1
      <4> QED
        BY ONLY <1>1, <3>1, <4>1, BackwardZero, Backward(J, z, d, E, c, o, k),
                AreParts(d, z, E, c), E \in Nat, c \in Nat \ {0}, o \in 1 .. c, k \in Nat
    <3>3. Z[j][e + 1] \in Nat
      BY <3>1 DEF Spans
    <3> QED
      BY <3>1, <3>2, <3>3 DEF F
  <2>4. j \in Nat /\ e + 1 \in Nat /\ j <= e + 1 /\ (e + 1) - 1 = e
    BY <1>1, <1>7
  <2>6. SumFunctionOnSet(M, j .. e) = F[j] - F[e + 1]
    <3>1. e \in Nat
      BY <1>1, <1>7
    <3>2. \A v \in j .. e : M[v] = F[v] - F[v + 1]
      BY <1>3
    <3> QED
      <4>1. j \in Nat /\ j <= e
        BY ONLY <1>1, <1>7
      <4> QED
        BY ONLY <2>1, <3>1, <3>2, <4>1, SumOfDropsTo
  <2>7. J[j][m] \in Nat
    BY <1>1 DEF Backward
  <2>8. m * sum = J[j][m]
    BY <1>6, <2>2, <2>3, <2>4, <2>6, <2>7
  <2> QED
    BY <1>3, <1>5, <2>8
<1>8. ASSUME j > e PROVE m * sum = J[j][m]
  <2>1. j .. e = {}
    BY <1>8
  <2>2. sum = 0
    BY <2>1, SumIs, FS_EmptySet
  <2>3. J[j][m] = 0
    <3>1. m < o \/ j > E - (m - o)
      BY <1>8
    <3> QED
      BY <1>1, <3>1, BackwardZero
  <2> QED
    BY <1>1, <1>5, <2>2, <2>3
<1> QED
  BY <1>5, <1>7, <1>8 DEF AddUpTo

\* A sum needs no zeros.
LEMMA SumWithZeros ==
  ASSUME NEW S, IsFiniteSet(S), NEW T \in SUBSET S, NEW f, \A s \in S : f[s] \in Int,
         \A s \in S \ T : f[s] = 0
  PROVE  SumFunctionOnSet(f, S) = SumFunctionOnSet(f, T)
<1>1. IsFiniteSet(T) /\ IsFiniteSet(S \ T)
  BY FS_Subset
<1>2. SumFunctionOnSet(f, S) = SumFunctionOnSet(f, T) + SumFunctionOnSet(f, S \ T)
  BY SumSplit
<1>3. SumFunctionOnSet(f, S \ T) = 0
  BY <1>1, SumZero
<1>4. SumFunctionOnSet(f, T) \in Int
  BY <1>1, SumIs
<1> QED
  BY <1>2, <1>3, <1>4

\* A span is one of fewer numbers, too.
LEMMA ShorterSpans ==
  ASSUME NEW y, NEW E \in Nat, NEW F \in 0 .. E, NEW Z, Spans(Z, y, E)
  PROVE  Spans(Z, y, F)
<1>1. \A j \in 0 .. F : Z[j][j] = 1 /\ \A v \in j .. F : Z[j][v] \in Nat
  <2> TAKE j \in 0 .. F
  <2>1. j \in 0 .. E /\ \A v \in j .. F : v \in j .. E
    OBVIOUS
  <2> QED
    BY <2>1 DEF Spans
<1>2. \A j \in 0 .. F : \A v \in j .. F - 1 : Z[j][v + 1] = Z[j][v] * y[v]
  <2> TAKE j \in 0 .. F
  <2>1. j \in 0 .. E /\ \A v \in j .. F - 1 : v \in j .. E - 1
    OBVIOUS
  <2> QED
    BY <2>1 DEF Spans
<1>3. \A j \in 0 .. F - 1 : \A v \in j + 1 .. F : Z[j][v] = y[j] * Z[j + 1][v]
  <2> TAKE j \in 0 .. F - 1
  <2>1. j \in 0 .. E - 1 /\ \A v \in j + 1 .. F : v \in j + 1 .. E
    OBVIOUS
  <2> QED
    BY <2>1 DEF Spans
<1> QED
  BY <1>1, <1>2, <1>3 DEF Spans

\* With o copies left, a walk comes to disk E with as many if it passes all between.
LEMMA BackwardFirst ==
  ASSUME NEW E \in Nat, NEW c \in Nat \ {0}, NEW o \in 1 .. c, NEW k \in Nat, NEW d, NEW z,
         AreParts(d, z, E, c), NEW J, Backward(J, z, d, E, c, o, k),
         NEW y, \A v \in 0 .. E - 1 : y[v] = z[v][o], NEW Z, Spans(Z, y, E), NEW j \in 0 .. E
  PROVE  J[j][o] = Z[j][E] * k
<1>0. ASSUME NEW x \in 0 .. E, NEW m \in 0 .. c, m < o \/ x > E - (m - o)
      PROVE  J[x][m] = 0
  BY <1>0, BackwardZero
<1> DEFINE Good == {a \in Nat : a <= E => J[E - a][o] = Z[E - a][E] * k}
<1>1. o \in 0 .. c /\ o - 1 \in 0 .. c
  OBVIOUS
<1>2. 0 \in Good
  <2>1. E \in 0 .. E /\ E - 0 = E
    OBVIOUS
  <2>2. J[E][o] = k /\ Z[E][E] = 1
    BY <1>1, <2>1 DEF Backward, Spans
  <2> QED
    BY <2>1, <2>2
<1>3. ASSUME NEW a \in Good PROVE a + 1 \in Good
  <2> SUFFICES ASSUME a + 1 <= E PROVE J[E - (a + 1)][o] = Z[E - (a + 1)][E] * k
    OBVIOUS
  <2> DEFINE v == E - (a + 1)
  <2>1. /\ a \in Nat /\ v \in 0 .. E - 1 /\ v + 1 = E - a /\ v + 1 \in 0 .. E
        /\ E \in v + 1 .. E /\ v \in 0 .. E
    OBVIOUS
  <2>2. J[v + 1][o] = Z[v + 1][E] * k
    BY <2>1
  <2> HIDE DEF v, Good
  <2>3. J[v][o] = (o * d[v]) * J[v + 1][o - 1] + z[v][o] * J[v + 1][o]
    BY <2>1 DEF Backward
  <2>4. J[v + 1][o - 1] = 0
    <3> DEFINE x == v + 1
               m == o - 1
    <3>1. x \in 0 .. E /\ m \in 0 .. c /\ (m < o \/ x > E - (m - o))
      BY <1>1, <2>1
    <3> HIDE DEF x, m
    <3>2. J[x][m] = 0
      BY <1>0, <3>1
    <3> QED
      BY <3>2 DEF x, m
  <2>5. Z[v][E] = y[v] * Z[v + 1][E] /\ Z[v + 1][E] \in Nat
    BY <2>1 DEF Spans
  <2>6. y[v] = z[v][o] /\ z[v][o] \in Nat /\ d[v] \in Nat
    BY <2>1 DEF AreParts
  <2> DEFINE p == z[v][o]
             q == Z[v + 1][E]
             D == d[v]
  <2>7. p \in Nat /\ q \in Nat /\ D \in Nat /\ J[v][o] = (o * D) * 0 + p * (q * k)
        /\ Z[v][E] = p * q
    BY <2>2, <2>3, <2>4, <2>5, <2>6
  <2> HIDE DEF p, q, D
  <2>8. (o * D) * 0 = 0 /\ p * (q * k) = (p * q) * k /\ (p * q) * k \in Nat
    BY <2>7
  <2>9. J[v][o] = Z[v][E] * k
    BY <2>7, <2>8
  <2> QED
    BY <2>9 DEF v
<1>4. Good = Nat
  <2>1. Good \in SUBSET Nat
    OBVIOUS
  <2> HIDE DEF Good
  <2> QED
    BY <1>2, <1>3, <2>1, InductionSet
<1>5. E - j \in Nat /\ E - (E - j) = j /\ E - j <= E
  OBVIOUS
<1>6. E - j \in Good
  BY <1>4, <1>5
<1> QED
  BY <1>5, <1>6

(* A corrected threshold: K of b * p should stay for those that come just  *)
(* after a copy, V of b, and no more of the next q.                        *)
LEMMA CorrectedValue ==
  ASSUME NEW l \in Nat, l >= 2, NEW p \in Nat \ {0}, NEW b \in Nat \ {0}, NEW q \in Nat \ {0},
         NEW K \in Nat, NEW V \in Nat \ {0}, K < p * V,
         NEW k \in Fractions, IsFraction(k, K, b * p), NEW r \in Fractions, IsFraction(r, V, b)
  PROVE  LET tmp == Over(Times(Ratio(1, l - 1), k), r)
             cNew == Over(Scaled(q, tmp), Minus(One, tmp))
             star == Scaled(l - 1, Over(cNew, Plus(cNew, <<q, 1>>)))
         IN  tmp # One /\ star \in Fractions /\ IsFraction(star, K, p * V)
<1> DEFINE tmp == Over(Times(Ratio(1, l - 1), k), r)
           cNew == Over(Scaled(q, tmp), Minus(One, tmp))
           all == Plus(cNew, <<q, 1>>)
           star == Scaled(l - 1, Over(cNew, all))
           m == l - 1
           D == m * (b * p)
           M == m * (p * V)
           W == p * V
           L == M - K
<1>1. /\ m \in Nat \ {0} /\ b * p \in Nat \ {0} /\ W \in Nat \ {0} /\ D \in Nat \ {0}
      /\ M \in Nat \ {0} /\ K < W
  <2>1. m \in Nat \ {0} /\ b * p \in Nat \ {0} /\ W \in Nat \ {0}
    OBVIOUS
  <2>2. D \in Nat \ {0}
    <3> DEFINE x == b * p
    <3>1. x \in Nat \ {0} /\ m \in Nat \ {0}
      BY <2>1
    <3> HIDE DEF x, m
    <3>2. m * x \in Nat \ {0}
      BY <3>1
    <3> QED
      BY <3>2 DEF x
  <2>3. M \in Nat \ {0}
    <3>1. W \in Nat \ {0} /\ m \in Nat \ {0}
      BY <2>1
    <3> HIDE DEF W, m
    <3>2. m * W \in Nat \ {0}
      BY <3>1
    <3> QED
      BY <3>2 DEF W
  <2> QED
    BY <2>1, <2>2, <2>3
<1>2. W <= M
  <2> HIDE DEF W, m
  <2>1. W * 1 <= W * m
    <3>1. 1 \in Int /\ m \in Int /\ 1 <= m
      BY <1>1
    <3> QED
      BY <1>1, <3>1, ProductOrder
  <2>2. W * m = M /\ W * 1 = W
    BY <1>1 DEF W
  <2> QED
    BY <2>1, <2>2
<1>3. K < M /\ L \in Nat \ {0}
  <2> HIDE DEF W, M
  <2> QED
    BY <1>1, <1>2
<1>4. Ratio(1, m) \in Fractions /\ IsFraction(Ratio(1, m), 1, m)
  <2> HIDE DEF m
  <2>1. 1 \in Nat
    OBVIOUS
  <2> QED
    BY <1>1, <2>1, RatioValue
<1> DEFINE t == Times(Ratio(1, m), k)
<1>5. t \in Fractions /\ IsFraction(t, K, D)
  <2> DEFINE x == b * p
             a == Ratio(1, m)
  <2>1. /\ x \in Nat \ {0} /\ IsFraction(k, K, x) /\ a \in Fractions
        /\ IsFraction(a, 1, m) /\ 1 \in Nat
    BY <1>1, <1>4
  <2> HIDE DEF x, a, m
  <2>2. Times(a, k) \in Fractions /\ IsFraction(Times(a, k), 1 * K, m * x)
    BY <1>1, <2>1, TimesValue
  <2>3. 1 * K = K
    OBVIOUS
  <2> QED
    BY <2>2, <2>3 DEF a, x
<1>6. IsFraction(r, M, D)
  <2>1. M \in Int /\ V \in Int /\ D \in Nat \ {0} /\ V * D = M * b
    <3> HIDE DEF m
    <3>1. V * (m * (b * p)) = (m * (p * V)) * b
      BY <1>1
    <3> QED
      BY <1>1, <3>1
  <2> HIDE DEF M, D
  <2> QED
    BY <2>1, ValueIs
<1>7. tmp \in Fractions /\ IsFraction(tmp, K, M)
  <2> HIDE DEF t, M, D
  <2>1. Over(t, r) \in Fractions /\ IsFraction(Over(t, r), K, M)
    BY <1>1, <1>5, <1>6, OverValue
  <2> QED
    BY <2>1 DEF t
<1>8. tmp # One
  <2> SUFFICES ASSUME tmp = One PROVE FALSE
    OBVIOUS
  <2> HIDE DEF tmp, M
  <2>1. 1 * M = K * 1
    BY <1>7 DEF IsFraction, One
  <2> QED
    BY <1>1, <1>3, <2>1
<1> DEFINE one == Minus(One, tmp)
           s == Scaled(q, tmp)
<1>9. one \in Fractions /\ IsFraction(one, L, M)
  <2> HIDE DEF tmp, M
  <2>1. One \in Fractions /\ IsFraction(One, M, M)
    BY <1>1 DEF One, Fractions, IsFraction
  <2> QED
    BY <1>1, <1>3, <1>7, <2>1, MinusValue
<1>10. s \in Fractions /\ IsFraction(s, q * K, M)
  <2> HIDE DEF tmp, M
  <2> QED
    BY <1>1, <1>7, ScaledValue
<1>11. cNew \in Fractions /\ IsFraction(cNew, q * K, L)
  <2>1. q * K \in Nat
    OBVIOUS
  <2> DEFINE x == q * K
  <2> HIDE DEF one, s, L, M, x
  <2>2. Over(s, one) \in Fractions /\ IsFraction(Over(s, one), x, L)
    BY <1>1, <1>3, <1>9, <1>10, <2>1, OverValue DEF x
  <2> QED
    BY <2>2 DEF s, one, x
<1>12. all \in Fractions /\ IsFraction(all, q * M, L)
  <2> DEFINE z == <<q, 1>>
             x == q * K
             y == q * L
  <2>1. z \in Fractions /\ IsFraction(z, y, L) /\ x \in Nat /\ y \in Nat
    <3> HIDE DEF L
    <3>1. z \in Fractions
      BY DEF Fractions
    <3>2. q * L = (q * L) * 1
      BY <1>3
    <3>3. IsFraction(z, y, L)
      BY <3>2 DEF IsFraction
    <3> QED
      BY <1>3, <3>1, <3>3
  <2>2. x + y = q * M
    <3> HIDE DEF M
    <3> QED
      BY <1>1
  <2> HIDE DEF x, y, L, cNew, z, M
  <2>3. Plus(cNew, z) \in Fractions
    BY <1>11, <2>1, PlusIs
  <2>4. IsFraction(Plus(cNew, z), x + y, L)
    <3>1. x \in Int /\ y \in Int /\ IsFraction(cNew, x, L)
      BY <1>11, <2>1 DEF x
    <3> QED
      BY <1>3, <1>11, <2>1, <3>1, SumOfTwoValues
  <2> QED
    BY <2>2, <2>3, <2>4 DEF z
<1> DEFINE o == Over(cNew, all)
<1>13. o \in Fractions /\ IsFraction(o, q * K, q * M)
  <2> DEFINE x == q * K
             y == q * M
  <2>1. x \in Nat /\ y \in Nat \ {0}
    <3> HIDE DEF M
    <3> QED
      BY <1>1
  <2> HIDE DEF x, y, L, cNew, all
  <2>2. Over(cNew, all) \in Fractions /\ IsFraction(Over(cNew, all), x, y)
    BY <1>3, <1>11, <1>12, <2>1, OverValue DEF x, y
  <2> QED
    BY <2>2 DEF x, y
<1>14. star \in Fractions /\ IsFraction(star, K, W)
  <2> DEFINE x == q * K
             y == q * M
             z == m * x
  <2>1. x \in Nat /\ y \in Nat \ {0} /\ z \in Nat /\ z * W = K * y
    <3> HIDE DEF m
    <3>1. q * K \in Nat
      OBVIOUS
    <3>2. m * (q * K) \in Nat
      BY <1>1, <3>1
    <3>3. (m * (q * K)) * (p * V) = K * (q * (m * (p * V)))
      BY <1>1
    <3>4. q * M \in Nat \ {0}
      <4> HIDE DEF M
      <4> QED
        BY <1>1
    <3> QED
      BY <3>1, <3>2, <3>3, <3>4
  <2>2. o \in Fractions /\ IsFraction(o, x, y)
    BY <1>13
  <2> HIDE DEF x, y, o, W, m
  <2>3. Scaled(m, o) \in Fractions /\ IsFraction(Scaled(m, o), z, y)
    BY <1>1, <2>1, <2>2, ScaledValue
  <2> HIDE DEF z
  <2>4. IsFraction(Scaled(m, o), K, W)
    BY <1>1, <2>1, <2>3, ValueIs
  <2> QED
    BY <2>3, <2>4 DEF o, m
<1> QED
  BY <1>8, <1>14

(* Disk i takes its part d[i] of the weight that is left.                  *)
TakesPart(b, h, g, u, v, c, pos, i) ==
  \E s \in Int :
    /\ b[i] = pos[i] * s
    /\ TakenAt(u, v, h, g, c, i) = s * (pos[i] - pos[i + 1]) * Weighted(u, v, c, i)

(* The weight that is left at disk j is that of the disks from j on.       *)
WeightIsFair(B, u, v, c, pos, j) == pos[0] * Weighted(u, v, c, j) = c * pos[j] * B[j]

(* The weight stays fair where each disk before takes its part.            *)
LEMMA PartsStay ==
  ASSUME NEW n, NEW c, NEW b, NEW h, NEW g, WalkChances(b, h, g, n, c),
         NEW u, NEW v, Walk(u, v, b, h, g, n, c), NEW B, Products(B, b, n),
         NEW pos, \A i \in 0 .. n : pos[i] \in Nat, NEW j \in 0 .. n,
         \A i \in 0 .. j - 1 : TakesPart(b, h, g, u, v, c, pos, i)
  PROVE  WeightIsFair(B, u, v, c, pos, j)
<1>1. \A i \in 0 .. j - 1 : \E s \in Int :
        /\ b[i] = pos[i] * s
        /\ TakenAt(u, v, h, g, c, i) = s * (pos[i] - pos[i + 1]) * Weighted(u, v, c, i)
  BY DEF TakesPart
<1>2. pos[0] * Weighted(u, v, c, j) = c * pos[j] * B[j]
  BY <1>1, WeightStays
<1> QED
  BY <1>2 DEF WeightIsFair

--------------------------------------------------------------------------------
(* The list of a setDisks: sorted, aligned, and left with fewer copies     *)
(* along the disks.                                                        *)

\* The disks of a list have numbers, and no two the same.
LEMMA ListIs ==
  ASSUME NEW k \in Kinds, NEW l \in Lists[k]
  PROVE  /\ Len(l) \in Nat \ {0} /\ DOMAIN l = 1 .. Len(l)
         /\ \A n \in DOMAIN l : l[n].id \in Int /\ l[n].capacity \in Nat \ {0}
         /\ \A m, n \in DOMAIN l : l[m].id = l[n].id => m = n
         /\ Ids(l) \subseteq Int
         /\ l \in AllLists
<1>1. l \in AllLists
  BY DEF AllLists
<1>2. l \in Seq([id : Int, capacity : Nat \ {0}]) /\ Len(l) > 0
  BY <1>1, ListsAssumption
<1>3. \A n \in DOMAIN l : l[n] \in [id : Int, capacity : Nat \ {0}]
  <2> DEFINE D == [id : Int, capacity : Nat \ {0}]
  <2>1. l \in Seq(D)
    BY <1>2
  <2> HIDE DEF D
  <2>2. \A n \in DOMAIN l : l[n] \in D
    BY <2>1
  <2> QED
    BY <2>2 DEF D
<1>4. \A n \in DOMAIN l : l[n].id \in Int /\ l[n].capacity \in Nat \ {0}
  BY <1>3
<1>5. \A m, n \in DOMAIN l : l[m].id = l[n].id => m = n
  BY <1>1, ListsAssumption
<1>6. Len(l) \in Nat \ {0} /\ DOMAIN l = 1 .. Len(l)
  BY <1>2
<1> QED
  BY <1>1, <1>4, <1>5, <1>6 DEF Ids

\* The sorted disks are those of the list, from the largest to the smallest.
LEMMA SortedIs ==
  ASSUME NEW k \in Kinds, NEW l \in Lists[k], NEW revert \in BOOLEAN
  PROVE  /\ DOMAIN Sorted(l, revert) = 0 .. Len(l) - 1
         /\ \A i \in 0 .. Len(l) - 1 : Sorted(l, revert)[i] \in ToSet(l)
         /\ \A i, j \in 0 .. Len(l) - 1 :
              Sorted(l, revert)[i].id = Sorted(l, revert)[j].id => i = j
         /\ \A i, j \in 0 .. Len(l) - 1 :
              i < j => Sorted(l, revert)[i].capacity >= Sorted(l, revert)[j].capacity
<1> DEFINE n == Len(l)
           E == ToSet(l)
           B == {p \in E \X E : Before(p[1], p[2], revert)}
           s == Sorted(l, revert)
           place(d) == Cardinality(AheadOf(E, B, d))
<1>1. /\ n \in Nat \ {0} /\ DOMAIN l = 1 .. n
      /\ \A m \in 1 .. n : l[m].id \in Int /\ l[m].capacity \in Nat \ {0}
      /\ \A j, m \in 1 .. n : l[j].id = l[m].id => j = m
  BY ListIs
<1>2. /\ \A d \in E : d.id \in Int /\ d.capacity \in Nat \ {0}
      /\ \A d, e \in E : d.id = e.id => d = e
  BY <1>1 DEF ToSet
<1>3. IsFiniteSet(E) /\ Cardinality(E) = n
  <2> DEFINE D == 1 .. n
             f == [m \in D |-> l[m]]
  <2>1. E = {l[m] : m \in D}
    BY <1>1 DEF ToSet
  <2>2. \A m \in D : f[m] = l[m]
    OBVIOUS
  <2>3. \A j, m \in D : l[j] = l[m] => j = m
    BY <1>1
  <2>4. IsFiniteSet(D) /\ Cardinality(D) = n
    BY <1>1, FS_Interval
  <2> HIDE DEF D, E
  <2>5. f \in [D -> E] /\ \A x \in E : \E m \in D : f[m] = x
    BY <2>1
  <2>6. \A j, m \in D : f[j] = f[m] => j = m
    BY <2>3
  <2> HIDE DEF f
  <2>7. f \in Surjection(D, E) /\ f \in Injection(D, E)
    BY <2>5, <2>6 DEF Surjection, Injection, IsInjective
  <2> QED
    BY <2>4, <2>7, FS_Surjection
<1>4. \A d, e \in E : <<d, e>> \in B <=> Before(d, e, revert)
  OBVIOUS
<1> HIDE DEF B, E
<1>5. /\ \A d \in E : <<d, d>> \notin B
      /\ \A d, e \in E : d # e => <<d, e>> \in B \/ <<e, d>> \in B
      /\ \A d, e, f \in E : <<d, e>> \in B /\ <<e, f>> \in B => <<d, f>> \in B
  <2>1. \A d \in E : ~Before(d, d, revert)
    BY <1>2 DEF Before
  <2>2. \A d, e \in E : d # e => Before(d, e, revert) \/ Before(e, d, revert)
    BY <1>2 DEF Before
  <2>3. \A d, e, f \in E :
          Before(d, e, revert) /\ Before(e, f, revert) => Before(d, f, revert)
    BY <1>2 DEF Before
  <2> QED
    BY <1>4, <2>1, <2>2, <2>3
<1>6. /\ \A d, e \in E : <<d, e>> \in B => place(d) < place(e)
      /\ \A i \in 0 .. n - 1 : \E d \in E : place(d) = i
  <2>1. IsFiniteSet(E)
    BY ONLY <1>3
  <2>2. /\ \A d, e \in E :
             <<d, e>> \in B => Cardinality(AheadOf(E, B, d)) < Cardinality(AheadOf(E, B, e))
        /\ \A i \in 0 .. Cardinality(E) - 1 : \E d \in E : Cardinality(AheadOf(E, B, d)) = i
    BY ONLY <2>1, <1>5, Ranking
  <2> QED
    BY ONLY <1>3, <2>2
<1>7. \A d \in E : place(d) = Cardinality({e \in E : Before(e, d, revert)})
  <2> TAKE d \in E
  <2>1. AheadOf(E, B, d) = {e \in E : Before(e, d, revert)}
    BY <1>4 DEF AheadOf
  <2> QED
    BY <2>1
<1>8. s = [i \in 0 .. n - 1 |->
             CHOOSE d \in E : Cardinality({e \in E : Before(e, d, revert)}) = i]
  BY DEF Sorted, E
<1> HIDE DEF place, s
<1>9. \A i \in 0 .. n - 1 : s[i] \in E /\ place(s[i]) = i
  <2> TAKE i \in 0 .. n - 1
  <2>1. \E d \in E : Cardinality({e \in E : Before(e, d, revert)}) = i
    BY <1>6, <1>7
  <2>2. s[i] = CHOOSE d \in E : Cardinality({e \in E : Before(e, d, revert)}) = i
    BY <1>8
  <2>3. s[i] \in E /\ Cardinality({e \in E : Before(e, s[i], revert)}) = i
    BY <2>1, <2>2
  <2> QED
    BY <1>7, <2>3
<1>10. \A i, j \in 0 .. n - 1 : s[i].id = s[j].id => i = j
  BY <1>2, <1>9
<1>11. ASSUME NEW i \in 0 .. n - 1, NEW j \in 0 .. n - 1, i < j
       PROVE  s[i].capacity >= s[j].capacity
  <2>1. s[i] \in E /\ s[j] \in E /\ ~(place(s[j]) < place(s[i])) /\ s[i] # s[j]
    BY <1>1, <1>9, <1>11
  <2>2. Before(s[i], s[j], revert)
    BY <1>4, <1>5, <1>6, <2>1
  <2> QED
    BY <1>2, <2>1, <2>2 DEF Before
<1>12. DOMAIN s = 0 .. n - 1
  BY <1>8
<1> QED
  BY <1>9, <1>10, <1>11, <1>12 DEF s, E

\* The disks are counted from 0, none larger than the one before.
Descending(s, n) ==
  /\ n \in Nat \ {0} /\ DOMAIN s = 0 .. n - 1
  /\ \A i \in 0 .. n - 1 : s[i].capacity \in Nat \ {0}
  /\ \A i, j \in 0 .. n - 1 : i < j => s[i].capacity >= s[j].capacity

\* An aligned capacity is the greatest one of which the disks below hold k.
LEMMA AlignedIs ==
  ASSUME NEW a \in Nat \ {0}, NEW k \in Int, NEW b \in Nat
  PROVE  /\ Aligned(a, k, b) \in Nat /\ Aligned(a, k, b) <= a
         /\ k <= b => Aligned(a, k, b) >= 1
         /\ k > 0 => k * Aligned(a, k, b) <= b
         /\ \A x \in Nat : x <= a /\ (k > 0 => k * x <= b) => x <= Aligned(a, k, b)
<1>1. CASE k <= 0
  BY <1>1 DEF Aligned
<1>2. CASE k > 0
  <2> DEFINE q == b \div k
  <2>1. k \in Nat \ {0} /\ b \in Int
    BY <1>2
  <2>2. q \in Nat
    BY <2>1, Division
  <2>3. k * q <= b /\ \A x \in Int : k * x <= b => x <= q
    BY <2>1, QuotientIs
  <2>4. Aligned(a, k, b) = IF a < q THEN a ELSE q
    BY <1>2 DEF Aligned
  <2> HIDE DEF q
  <2>5. k <= b => q >= 1
    BY <2>1, <2>3
  <2>6. CASE a < q
    <3>1. k * a <= k * q
      BY <2>1, <2>2, <2>6, ProductOrder
    <3> DEFINE u == k * a
               v == k * q
    <3>2. u \in Int /\ v \in Int /\ u <= v /\ v <= b
      BY <2>1, <2>2, <2>3, <3>1
    <3> HIDE DEF u, v
    <3>3. u <= b
      BY <3>2
    <3>4. k * a <= b
      BY <3>3 DEF u
    <3> QED
      BY <2>4, <2>6, <3>4
  <2>7. CASE ~(a < q)
    <3>1. Aligned(a, k, b) = q /\ q <= a
      BY <2>2, <2>4, <2>7
    <3>2. \A x \in Nat : x <= a /\ (k > 0 => k * x <= b) => x <= q
      BY <1>2, <2>3
    <3> QED
      BY <2>2, <2>3, <2>5, <3>1, <3>2
  <2> QED
    BY <2>6, <2>7
<1> QED
  BY <1>1, <1>2

\* alignDisks goes from the last disk to the first.
LEMMA CPositionsAre ==
  ASSUME NEW s, NEW n, Descending(s, n), NEW c \in Nat
  PROVE  /\ CPositions(s, c) \in [0 .. n -> Nat] /\ CPositions(s, c)[n] = 0
         /\ \A i \in 0 .. n - 1 :
              CPositions(s, c)[i] = CPositions(s, c)[i + 1]
                                    + Aligned(s[i].capacity, c - 1 - i, CPositions(s, c)[i + 1])
<1> DEFINE more(i, b) == b + Aligned(s[i].capacity, c - 1 - i, b)
           G == [i \in 0 .. n - 1 |-> [b \in Nat |-> more(i, b)]]
<1>1. n \in Nat /\ \A i \in 0 .. n - 1 : s[i].capacity \in Nat \ {0} /\ c - 1 - i \in Int
  BY DEF Descending
<1>2. \A i \in 0 .. n - 1, b \in Nat : more(i, b) \in Nat
  <2> TAKE i \in 0 .. n - 1, b \in Nat
  <2>1. s[i].capacity \in Nat \ {0} /\ c - 1 - i \in Int
    BY <1>1
  <2>2. Aligned(s[i].capacity, c - 1 - i, b) \in Nat
    BY <2>1, AlignedIs
  <2> QED
    BY <2>2
<1> HIDE DEF more
<1>3. G \in [0 .. n - 1 -> [Nat -> Nat]]
  BY <1>2
<1>4. PICK f \in [0 .. n -> Nat] : f[n] = 0 /\ \A i \in 0 .. n - 1 : f[i] = G[i][f[i + 1]]
  <2>1. 0 \in Nat
    OBVIOUS
  <2>2. DownSequences(n, Nat, 0, G) # {}
    <3> HIDE DEF G
    <3> QED
      BY <1>1, <1>3, <2>1, DownSequence
  <2> QED
    BY <2>2 DEF DownSequences
<1> DEFINE Down(g) == [i \in 0 .. n |-> IF i = n THEN 0 ELSE more(i, g[i + 1])]
           pos == CPositions(s, c)
<1>5. f = Down(f)
  <2>1. ASSUME NEW i \in 0 .. n PROVE f[i] = Down(f)[i]
    <3>1. CASE i = n
      BY <1>4, <3>1
    <3>2. CASE i # n
      <4>1. i \in 0 .. n - 1 /\ f[i + 1] \in Nat
        BY <1>1, <1>4, <3>2
      <4>2. f[i] = G[i][f[i + 1]]
        BY <1>4, <4>1
      <4> QED
        BY <3>2, <4>1, <4>2
    <3> QED
      BY <3>1, <3>2
  <2> HIDE DEF Down
  <2>2. DOMAIN Down(f) = 0 .. n /\ Down(f) = [i \in 0 .. n |-> Down(f)[i]]
    BY DEF Down
  <2> QED
    BY <2>1, <2>2
<1>6. pos = CHOOSE g : g = Down(g)
  <2>1. Cardinality(DOMAIN s) = n
    <3>1. DOMAIN s = 0 .. n - 1 /\ n \in Nat
      BY DEF Descending
    <3>2. Cardinality(0 .. n - 1) = n
      BY <3>1, FS_Interval
    <3> QED
      BY <3>1, <3>2
  <2> QED
    BY <2>1 DEF CPositions, more
<1>7. pos = Down(pos)
  <2> HIDE DEF Down, pos
  <2> QED
    BY <1>5, <1>6
<1> HIDE DEF pos
<1>8. DOMAIN pos = 0 .. n /\ pos[n] = 0
  BY <1>1, <1>7
<1>9. \A i \in 0 .. n - 1 : pos[i] = more(i, pos[i + 1])
  <2> TAKE i \in 0 .. n - 1
  <2>1. i \in 0 .. n /\ i # n
    BY <1>1
  <2> QED
    BY <1>7, <2>1
<1>10. \A i \in 0 .. n : pos[i] \in Nat
  <2> DEFINE Good == {m \in Nat : m <= n => pos[n - m] \in Nat}
  <2>1. 0 \in Good
    BY <1>1, <1>8
  <2>2. ASSUME NEW m \in Good PROVE m + 1 \in Good
    <3>1. SUFFICES ASSUME m + 1 <= n PROVE pos[n - (m + 1)] \in Nat
      OBVIOUS
    <3> DEFINE i == n - (m + 1)
    <3>2. i \in 0 .. n - 1 /\ i + 1 = n - m /\ m <= n
      BY <1>1, <3>1
    <3>3. pos[i + 1] \in Nat
      BY <3>2
    <3> QED
      BY <1>2, <1>9, <3>2, <3>3
  <2>3. Good \in SUBSET Nat
    OBVIOUS
  <2>4. Good = Nat
    <3> HIDE DEF Good
    <3> QED
      BY <2>1, <2>2, <2>3, InductionSet
  <2>5. ASSUME NEW i \in 0 .. n PROVE pos[i] \in Nat
    <3>1. n - i \in Nat /\ n - i <= n /\ n - (n - i) = i
      BY <1>1
    <3> QED
      BY <2>4, <3>1
  <2> QED
    BY <2>5
<1>11. pos \in [0 .. n -> Nat]
  <2>1. pos = [i \in 0 .. n |-> pos[i]]
    BY <1>7
  <2> QED
    BY <1>10, <2>1
<1> QED
  BY <1>8, <1>9, <1>11 DEF pos, more

(* Every disk has an aligned capacity, and a copy of each disk from it on  *)
(* together have at most its own: the first disks are not too large.  The  *)
(* aligned capacities do not grow.                                         *)
Tapered(pos, n, c) ==
  /\ n \in Nat \ {0} /\ c \in Nat
  /\ pos \in [0 .. n -> Nat]
  /\ \A i \in 0 .. n - 1 :
       /\ pos[i] > pos[i + 1]
       /\ pos[i] <= (n - i) * (pos[i] - pos[i + 1])
       /\ c - 1 - i > 0 => (c - 1 - i) * (pos[i] - pos[i + 1]) <= pos[i + 1]
  /\ \A i \in 0 .. n - 2 : pos[i + 1] - pos[i + 2] <= pos[i] - pos[i + 1]

\* alignDisks leaves such positions.
LEMMA CPositionsTaper ==
  ASSUME NEW s, NEW n, Descending(s, n), NEW c \in 1 .. n
  PROVE  Tapered(CPositions(s, c), n, c)
<1> DEFINE pos == CPositions(s, c)
           d(i) == pos[i] - pos[i + 1]
           cap(i) == s[i].capacity
<1>1. /\ n \in Nat \ {0} /\ c \in Nat /\ c <= n
      /\ \A i \in 0 .. n - 1 : cap(i) \in Nat \ {0}
      /\ \A i \in 0 .. n - 1 : i + 1 \in 0 .. n - 1 => cap(i) >= cap(i + 1)
  BY DEF Descending
<1>2. /\ pos \in [0 .. n -> Nat] /\ pos[n] = 0
      /\ \A i \in 0 .. n - 1 : pos[i] = pos[i + 1] + Aligned(cap(i), c - 1 - i, pos[i + 1])
  <2>1. c \in Nat /\ Descending(s, n)
    BY <1>1
  <2> HIDE DEF pos
  <2>2. /\ CPositions(s, c) \in [0 .. n -> Nat] /\ CPositions(s, c)[n] = 0
        /\ \A i \in 0 .. n - 1 :
             CPositions(s, c)[i] = CPositions(s, c)[i + 1]
                                   + Aligned(s[i].capacity, c - 1 - i, CPositions(s, c)[i + 1])
    BY ONLY <2>1, CPositionsAre
  <2> QED
    BY ONLY <2>2 DEF pos, cap
<1> HIDE DEF pos, cap
<1>3. ASSUME NEW i \in 0 .. n - 1
      PROVE  /\ pos[i] \in Nat /\ pos[i + 1] \in Nat /\ d(i) \in Nat /\ d(i) <= cap(i)
             /\ pos[i] = pos[i + 1] + d(i)
             /\ c - 1 - i <= pos[i + 1] => d(i) >= 1
             /\ c - 1 - i > 0 => (c - 1 - i) * d(i) <= pos[i + 1]
             /\ \A x \in Nat :
                  x <= cap(i) /\ (c - 1 - i > 0 => (c - 1 - i) * x <= pos[i + 1]) => x <= d(i)
  <2> DEFINE k == c - 1 - i
             b == pos[i + 1]
             a == cap(i)
             x == Aligned(a, k, b)
  <2>1. k \in Int /\ b \in Nat /\ a \in Nat \ {0} /\ pos[i] \in Nat /\ pos[i] = b + x
    BY <1>1, <1>2
  <2> HIDE DEF k, b, a
  <2>2. /\ x \in Nat /\ x <= a
        /\ k <= b => x >= 1
        /\ k > 0 => k * x <= b
        /\ \A y \in Nat : y <= a /\ (k > 0 => k * y <= b) => y <= x
    BY <2>1, AlignedIs
  <2> HIDE DEF x
  <2>3. d(i) = x
    BY <2>1, <2>2 DEF b
  <2> HIDE DEF d
  <2> QED
    BY <2>1, <2>2, <2>3 DEF k, b, a
<1> HIDE DEF d
<1> DEFINE Good(i) == /\ pos[i] >= n - i
                      /\ pos[i] <= (n - i) * d(i)
                      /\ d(i) >= 1
<1>4. ASSUME NEW i \in 0 .. n - 1, i = n - 1 PROVE Good(i)
  <2>1. pos[i + 1] = 0 /\ c - 1 - i <= 0 /\ n - i = 1
    BY <1>1, <1>2, <1>4
  <2> QED
    BY <1>3, <2>1
<1>5. ASSUME NEW i \in 0 .. n - 1, i + 1 \in 0 .. n - 1, Good(i + 1)
      PROVE  Good(i) /\ d(i + 1) <= d(i)
  <2> DEFINE k == c - 1 - i
             m == n - (i + 1)
             x == d(i)
             y == d(i + 1)
             b == pos[i + 1]
             e == pos[i + 2]
  <2>1. /\ k \in Int /\ m \in Nat /\ k <= m /\ n - i = m + 1 /\ c - 1 - (i + 1) = k - 1
        /\ (i + 1) + 1 = i + 2 /\ m > 0
    BY <1>1, <1>5
  <2>2. /\ x \in Nat /\ y \in Nat /\ b \in Nat /\ e \in Nat
        /\ b = e + y /\ pos[i] = b + x /\ pos[i] \in Nat
    BY <1>3, <1>5, <2>1
  <2>3. b >= m /\ b <= m * y /\ y >= 1
    BY <1>5
  <2>4. y <= cap(i)
    <3>1. y <= cap(i + 1) /\ cap(i) >= cap(i + 1) /\ cap(i) \in Nat /\ cap(i + 1) \in Nat
      BY <1>1, <1>3, <1>5
    <3> HIDE DEF y
    <3> QED
      BY <2>2, <3>1
  <2>5. k - 1 > 0 => (k - 1) * y <= e
    BY <1>3, <1>5, <2>1
  <2>6. k > 0 => c - 1 - i > 0
    OBVIOUS
  <2>7. \A z \in Nat : z <= cap(i) /\ (k > 0 => k * z <= b) => z <= x
    BY <1>3
  <2>8. k <= b => x >= 1
    BY <1>3
  <2> HIDE DEF k, m, x, y, b, e
  <2>9. k > 0 => k * y <= b
    <3> SUFFICES ASSUME k > 0 PROVE k * y <= b
      OBVIOUS
    <3> DEFINE u == (k - 1) * y
    <3>1. u \in Int /\ k * y = u + y
      BY <2>1, <2>2
    <3>2. u <= e
      <4>1. CASE k - 1 > 0
        BY <2>5, <4>1
      <4>2. CASE ~(k - 1 > 0)
        <5>1. k - 1 = 0
          BY <2>1, <4>2
        <5>2. u = 0
          BY <2>2, <5>1
        <5> QED
          BY <2>2, <5>2
      <4> QED
        BY <4>1, <4>2
    <3> HIDE DEF u
    <3> QED
      BY <2>2, <3>1, <3>2
  <2>10. y <= x
    BY <2>2, <2>4, <2>7, <2>9
  <2>11. x >= 1
    BY <2>2, <2>3, <2>10
  <2>12. b + x <= (m + 1) * x
    <3> DEFINE u == m * x
               v == m * y
    <3>1. v <= u
      BY <2>1, <2>2, <2>10, ProductOrder
    <3>2. u \in Int /\ v \in Int /\ (m + 1) * x = u + x /\ b <= v
      BY <2>1, <2>2, <2>3
    <3> HIDE DEF u, v
    <3> QED
      BY <2>2, <3>1, <3>2
  <2> QED
    BY <2>1, <2>2, <2>3, <2>10, <2>11, <2>12 DEF x, y
<1> HIDE DEF Good
<1>6. \A i \in 0 .. n - 1 : Good(i)
  <2> DEFINE S == {m \in Nat : m + 1 <= n => Good(n - (m + 1))}
  <2>1. 0 \in S
    BY <1>1, <1>4
  <2>2. ASSUME NEW m \in S PROVE m + 1 \in S
    <3>1. SUFFICES ASSUME (m + 1) + 1 <= n PROVE Good(n - ((m + 1) + 1))
      OBVIOUS
    <3> DEFINE i == n - ((m + 1) + 1)
    <3>2. i \in 0 .. n - 1 /\ i + 1 \in 0 .. n - 1 /\ i + 1 = n - (m + 1) /\ m + 1 <= n
      BY <1>1, <3>1
    <3>3. Good(i + 1)
      BY <3>2
    <3> HIDE DEF i
    <3>4. Good(i)
      BY <1>5, <3>2, <3>3
    <3> QED
      BY <3>4 DEF i
  <2>3. S \in SUBSET Nat
    OBVIOUS
  <2>4. S = Nat
    <3> HIDE DEF S
    <3> QED
      BY <2>1, <2>2, <2>3, InductionSet
  <2>5. ASSUME NEW i \in 0 .. n - 1 PROVE Good(i)
    <3> DEFINE m == n - 1 - i
    <3>1. m \in Nat /\ m + 1 <= n /\ n - (m + 1) = i
      BY <1>1
    <3> QED
      BY <2>4, <3>1
  <2> QED
    BY <2>5
<1>7. ASSUME NEW i \in 0 .. n - 1
      PROVE  /\ pos[i] > pos[i + 1]
             /\ pos[i] <= (n - i) * d(i)
             /\ c - 1 - i > 0 => (c - 1 - i) * d(i) <= pos[i + 1]
  <2>1. d(i) >= 1 /\ pos[i] <= (n - i) * d(i)
    BY <1>6 DEF Good
  <2>2. pos[i] \in Nat /\ pos[i + 1] \in Nat /\ d(i) \in Nat /\ pos[i] = pos[i + 1] + d(i)
    BY <1>3
  <2>3. pos[i] > pos[i + 1]
    BY <2>1, <2>2
  <2> QED
    BY <1>3, <2>1, <2>3
<1>8. ASSUME NEW i \in 0 .. n - 2
      PROVE  pos[i + 1] - pos[i + 2] <= pos[i] - pos[i + 1]
  <2>1. i \in 0 .. n - 1 /\ i + 1 \in 0 .. n - 1 /\ (i + 1) + 1 = i + 2
    BY <1>1
  <2>2. Good(i + 1)
    BY <1>6, <2>1
  <2>3. d(i + 1) <= d(i)
    BY <1>5, <2>1, <2>2
  <2> QED
    BY <2>1, <2>3 DEF d
<1> QED
  BY <1>1, <1>2, <1>7, <1>8 DEF Tapered, d, pos

\* The copies left along the disks
LEMMA LeftIs ==
  ASSUME NEW n \in Nat, NEW c \in Int, NEW check
  PROVE  /\ Left(check, n, c) \in [0 .. n -> Int] /\ Left(check, n, c)[0] = c
         /\ \A i \in 0 .. n - 1 :
              Left(check, n, c)[i + 1] =
                IF Less(Scaled(Left(check, n, c)[i], check[i]), One) THEN Left(check, n, c)[i]
                ELSE Left(check, n, c)[i] - 1
<1> DEFINE less(i, x) == Less(Scaled(x, check[i]), One)
<1> HIDE DEF less
<1> DEFINE G == [i \in 0 .. n - 1 |-> [x \in Int |-> IF less(i, x) THEN x ELSE x - 1]]
           Up(g) == [i \in 0 .. n |-> IF i = 0 THEN c
                                      ELSE IF less(i - 1, g[i - 1]) THEN g[i - 1]
                                      ELSE g[i - 1] - 1]
           left == Left(check, n, c)
<1>1. G \in [0 .. n - 1 -> [Int -> Int]]
  OBVIOUS
<1>2. PICK f \in [0 .. n -> Int] : f[0] = c /\ \A i \in 0 .. n - 1 : f[i + 1] = G[i][f[i]]
  <2>1. UpSequences(n, Int, c, G) # {}
    <3> HIDE DEF G
    <3> QED
      BY <1>1, UpSequence
  <2> QED
    BY <2>1 DEF UpSequences
<1>3. f = Up(f)
  <2>1. ASSUME NEW i \in 0 .. n PROVE f[i] = Up(f)[i]
    <3>1. CASE i = 0
      BY <1>2, <3>1
    <3>2. CASE i # 0
      <4> DEFINE j == i - 1
      <4>1. j \in 0 .. n - 1 /\ j + 1 = i /\ j \in 0 .. n
        BY <3>2
      <4>2. f[i] = G[j][f[j]] /\ f[j] \in Int
        BY <1>2, <4>1
      <4>3. f[i] = IF less(j, f[j]) THEN f[j] ELSE f[j] - 1
        BY <4>1, <4>2
      <4> QED
        BY <3>2, <4>3
    <3> QED
      BY <3>1, <3>2
  <2> HIDE DEF Up
  <2>2. DOMAIN Up(f) = 0 .. n /\ Up(f) = [i \in 0 .. n |-> Up(f)[i]]
    BY DEF Up
  <2> QED
    BY <2>1, <2>2
<1>4. left = CHOOSE g : g = Up(g)
  BY DEF Left, less
<1>5. left = Up(left)
  <2> HIDE DEF Up, left
  <2> QED
    BY <1>3, <1>4
<1> HIDE DEF left
<1>6. DOMAIN left = 0 .. n /\ left[0] = c
  BY <1>5
<1>7. \A i \in 0 .. n - 1 : left[i + 1] = IF less(i, left[i]) THEN left[i] ELSE left[i] - 1
  <2> TAKE i \in 0 .. n - 1
  <2>1. i + 1 \in 0 .. n /\ i + 1 # 0 /\ (i + 1) - 1 = i
    OBVIOUS
  <2> QED
    BY <1>5, <2>1
<1>8. \A i \in 0 .. n : left[i] \in Int
  <2> DEFINE Good == {m \in Nat : m <= n => left[m] \in Int}
  <2>1. 0 \in Good
    BY <1>6
  <2>2. ASSUME NEW m \in Good PROVE m + 1 \in Good
    <3>1. SUFFICES ASSUME m + 1 <= n PROVE left[m + 1] \in Int
      OBVIOUS
    <3>2. m \in 0 .. n - 1 /\ left[m] \in Int
      BY <3>1
    <3> QED
      BY <1>7, <3>2
  <2>3. Good \in SUBSET Nat
    OBVIOUS
  <2>4. Good = Nat
    <3> HIDE DEF Good
    <3> QED
      BY <2>1, <2>2, <2>3, InductionSet
  <2> QED
    BY <2>4
<1>9. left \in [0 .. n -> Int]
  <2>1. left = [i \in 0 .. n |-> left[i]]
    BY <1>5
  <2> QED
    BY <1>8, <2>1
<1> QED
  BY <1>6, <1>7, <1>9 DEF left, less

\* The disks' chances, as setDisks computes them
Checks(pos, n) == [i \in 0 .. n - 1 |-> Ratio(pos[i] - pos[i + 1], pos[i])]

\* A disk whose chance is 1 or more takes a copy.
LEMMA LeftAt ==
  ASSUME NEW n, NEW c \in 1 .. n, NEW pos, Tapered(pos, n, c), NEW i \in 0 .. n - 1
  PROVE  Left(Checks(pos, n), n, c)[i + 1] =
           IF Left(Checks(pos, n), n, c)[i] * (pos[i] - pos[i + 1]) < pos[i]
             THEN Left(Checks(pos, n), n, c)[i]
           ELSE Left(Checks(pos, n), n, c)[i] - 1
<1> DEFINE left == Left(Checks(pos, n), n, c)
           d == pos[i] - pos[i + 1]
           x == left[i]
           check == Checks(pos, n)
<1>1. n \in Nat \ {0} /\ c \in Nat /\ c <= n
  BY DEF Tapered
<1>2. pos[i] \in Nat \ {0} /\ d \in Int /\ check[i] = Ratio(d, pos[i])
  <2>1. pos[i] \in Nat /\ pos[i + 1] \in Nat /\ pos[i] > pos[i + 1]
    BY <1>1 DEF Tapered
  <2> QED
    BY <2>1 DEF Checks
<1>3. left[i + 1] = IF Less(Scaled(x, check[i]), One) THEN x ELSE x - 1
  BY <1>1, LeftIs
<1>4. x \in Int
  <2>1. left \in [0 .. n -> Int]
    BY <1>1, LeftIs
  <2>2. i \in 0 .. n
    BY <1>1
  <2> HIDE DEF left
  <2> QED
    BY <2>1, <2>2
<1> HIDE DEF x, check, d, left
<1>5. Less(Scaled(x, check[i]), One) <=> x * d < pos[i]
  BY <1>2, <1>4, ScaledIs
<1>6. left[i + 1] = IF x * d < pos[i] THEN x ELSE x - 1
  BY <1>3, <1>5
<1> QED
  BY <1>6 DEF x, check, d, left

\* The copies left are never more than the disks left.
Dropping(left, n, c) ==
  /\ n \in Nat \ {0} /\ c \in Nat
  /\ left \in [0 .. n -> Nat] /\ left[0] = c
  /\ \A i \in 0 .. n : left[i] <= n - i
  /\ \A i \in 0 .. n - 1 : left[i + 1] = left[i] \/ left[i + 1] = left[i] - 1

\* The copies left drop like that.
LEMMA LeftDrops ==
  ASSUME NEW n, NEW c \in 1 .. n, NEW pos, Tapered(pos, n, c)
  PROVE  Dropping(Left(Checks(pos, n), n, c), n, c)
<1> DEFINE left == Left(Checks(pos, n), n, c)
           d(i) == pos[i] - pos[i + 1]
<1>1. n \in Nat \ {0} /\ c \in Nat /\ c <= n
  BY DEF Tapered
<1>2. ASSUME NEW i \in 0 .. n - 1
      PROVE  pos[i] \in Nat \ {0} /\ d(i) \in Nat \ {0} /\ pos[i] <= (n - i) * d(i)
  <2>1. pos[i] \in Nat /\ pos[i + 1] \in Nat /\ pos[i] > pos[i + 1]
    BY <1>1 DEF Tapered
  <2>2. pos[i] <= (n - i) * d(i)
    BY DEF Tapered
  <2> QED
    BY <2>1, <2>2
<1>3. left \in [0 .. n -> Int] /\ left[0] = c
  BY <1>1, LeftIs
<1>4. ASSUME NEW i \in 0 .. n - 1
      PROVE  left[i + 1] = IF left[i] * d(i) < pos[i] THEN left[i] ELSE left[i] - 1
  BY LeftAt
<1> HIDE DEF left, d
<1> DEFINE Good(i) == left[i] >= 0 /\ left[i] <= n - i
<1>5. ASSUME NEW i \in 0 .. n - 1, Good(i) PROVE Good(i + 1)
  <2> DEFINE x == left[i]
             m == n - i
             y == d(i)
             p == pos[i]
  <2>1. x \in Nat /\ m \in Nat /\ x <= m /\ n - (i + 1) = m - 1
    BY <1>1, <1>3, <1>5
  <2>2. y \in Nat \ {0} /\ p \in Nat \ {0} /\ p <= m * y
    BY <1>2
  <2>3. left[i + 1] = IF x * y < p THEN x ELSE x - 1
    BY <1>4
  <2> HIDE DEF x, m, y, p
  <2>4. x = m => ~(x * y < p)
    BY <2>1, <2>2
  <2>5. x = 0 => x * y < p
    BY <2>1, <2>2
  <2> QED
    BY <2>1, <2>3, <2>4, <2>5
<1>6. \A i \in 0 .. n : Good(i)
  <2> DEFINE S == {m \in Nat : m <= n => Good(m)}
  <2>1. 0 \in S
    BY <1>1, <1>3
  <2>2. ASSUME NEW m \in S PROVE m + 1 \in S
    <3>1. SUFFICES ASSUME m + 1 <= n PROVE Good(m + 1)
      OBVIOUS
    <3>2. m \in Nat /\ m <= n /\ m \in 0 .. n - 1
      BY <1>1, <3>1
    <3>3. Good(m)
      BY <3>2
    <3> QED
      BY <1>5, <3>2, <3>3
  <2>3. S \in SUBSET Nat
    OBVIOUS
  <2> HIDE DEF Good
  <2>4. S = Nat
    <3> HIDE DEF S
    <3> QED
      BY <2>1, <2>2, <2>3, InductionSet
  <2> QED
    BY <2>4
<1>7. \A i \in 0 .. n : left[i] \in Nat /\ left[i] <= n - i
  BY <1>3, <1>6
<1>8. left \in [0 .. n -> Nat]
  BY <1>3, <1>7
<1>9. \A i \in 0 .. n - 1 : left[i + 1] = left[i] \/ left[i + 1] = left[i] - 1
  BY <1>4
<1> QED
  BY <1>1, <1>3, <1>7, <1>8, <1>9 DEF Dropping, left

\* Each number of copies is left by one disk, the first that is certain to take one.
DropsAt(left, n, m) == {i \in 0 .. n - 1 : left[i] = m + 1 /\ left[i + 1] = m}

\* There is such a disk for every number of copies.
LEMMA EveryDrop ==
  ASSUME NEW n, NEW c, NEW left, Dropping(left, n, c), NEW m \in 0 .. c - 1
  PROVE  DropsAt(left, n, m) # {}
<1> DEFINE S == {i \in 0 .. n : left[i] <= m}
<1>1. n \in Nat /\ c \in Nat /\ left[0] = c /\ left[n] \in Nat /\ left[n] <= n - n
  BY DEF Dropping
<1>2. n \in S
  BY <1>1
<1>3. S \in SUBSET Nat
  OBVIOUS
<1> HIDE DEF S
<1>4. PICK i \in S : \A j \in S : i <= j
  BY <1>2, <1>3, LeastElement
<1>5. i \in 0 .. n /\ left[i] <= m
  BY DEF S
<1>6. i # 0
  BY <1>1, <1>5
<1>7. i - 1 \in 0 .. n - 1 /\ i - 1 \in 0 .. n /\ (i - 1) + 1 = i
  BY <1>1, <1>5, <1>6
<1>8. left[i - 1] > m
  <2>1. i - 1 \notin S
    BY <1>4, <1>5
  <2>2. left[i - 1] \in Nat
    BY <1>7 DEF Dropping
  <2> QED
    BY <1>7, <2>1, <2>2 DEF S
<1>9. left[i - 1] \in Nat /\ (left[i] = left[i - 1] \/ left[i] = left[i - 1] - 1)
  BY <1>7 DEF Dropping
<1>10. left[i - 1] = m + 1 /\ left[i] = m
  BY <1>5, <1>8, <1>9
<1>11. i - 1 \in DropsAt(left, n, m)
  BY <1>7, <1>10 DEF DropsAt
<1> QED
  BY <1>11

\* Fewer copies are left further on.
LEMMA LeftFalls ==
  ASSUME NEW n, NEW c, NEW left, Dropping(left, n, c), NEW i \in 0 .. n, NEW j \in 0 .. n, i <= j
  PROVE  left[j] <= left[i] /\ left[i] - left[j] <= j - i
<1> DEFINE S == {k \in Nat : i + k <= n => left[i + k] <= left[i] /\ left[i] - left[i + k] <= k}
<1>1. n \in Nat /\ left[i] \in Nat
  BY DEF Dropping
<1>2. 0 \in S
  BY <1>1
<1>3. ASSUME NEW k \in S PROVE k + 1 \in S
  <2>1. SUFFICES ASSUME i + (k + 1) <= n
             PROVE  left[i + (k + 1)] <= left[i] /\ left[i] - left[i + (k + 1)] <= k + 1
    OBVIOUS
  <2> DEFINE x == i + k
  <2>2. /\ x \in 0 .. n - 1 /\ x \in 0 .. n /\ x + 1 \in 0 .. n
        /\ i + (k + 1) = x + 1 /\ left[x] <= left[i] /\ left[i] - left[x] <= k /\ k \in Nat
    BY <1>1, <2>1
  <2> HIDE DEF x
  <2>3. /\ left[x] \in Nat /\ left[x + 1] \in Nat
        /\ left[x + 1] = left[x] \/ left[x + 1] = left[x] - 1
    BY <2>2 DEF Dropping
  <2> QED
    BY <1>1, <2>2, <2>3
<1>4. S = Nat
  <2>1. S \in SUBSET Nat
    OBVIOUS
  <2> HIDE DEF S
  <2> QED
    BY <1>2, <1>3, <2>1, InductionSet
<1> DEFINE e == j - i
<1>5. e \in Nat /\ i + e = j /\ j <= n /\ e = j - i
  BY <1>1
<1> HIDE DEF e
<1>6. left[i + e] <= left[i] /\ left[i] - left[i + e] <= e
  <2>1. e \in S /\ i + e <= n
    BY <1>4, <1>5
  <2> QED
    BY <2>1
<1> QED
  BY <1>5, <1>6

\* The last disk for l + 1 copies is the first that takes one of them for certain.
LEMMA LastDiskDrops ==
  ASSUME NEW n, NEW c, NEW check, Dropping(Left(check, n, c), n, c), NEW m \in 0 .. c - 1
  PROVE  /\ LastDisk(check, n, c)[m] \in DropsAt(Left(check, n, c), n, m)
         /\ \A i \in DropsAt(Left(check, n, c), n, m) : LastDisk(check, n, c)[m] <= i
<1> DEFINE left == Left(check, n, c)
           last == LastDisk(check, n, c)
           S == DropsAt(left, n, m) \cup {n}
<1> HIDE DEF left
<1>1. n \in Nat \ {0} /\ c \in Nat
  BY DEF Dropping
<1>2. last = [k \in 0 .. c - 1 |-> Min(DropsAt(left, n, k) \cup {n})]
  BY DEF LastDisk, DropsAt, left
<1> HIDE DEF last
<1>3. S \in SUBSET Nat /\ S # {}
  BY <1>1 DEF DropsAt
<1>4. Min(S) \in S /\ \A y \in S : Min(S) <= y
  <2> HIDE DEF S
  <2> QED
    BY <1>3, MinIs
<1>5. PICK i \in DropsAt(left, n, m) : TRUE
  BY EveryDrop DEF left
<1>6. i \in Nat /\ i < n /\ i \in S
  BY <1>1 DEF DropsAt
<1>7. Min(S) # n
  BY <1>1, <1>4, <1>6
<1>8. last[m] = Min(S)
  BY <1>2
<1> QED
  BY <1>4, <1>7, <1>8 DEF last, left

\* The first disk that is certain to take a copy: there is one, the later the fewer are left.
LEMMA LastDiskIs ==
  ASSUME NEW n, NEW c, NEW check, Dropping(Left(check, n, c), n, c)
  PROVE  /\ LastDisk(check, n, c) \in [0 .. c - 1 -> 0 .. n - 1]
         /\ \A m \in 1 .. c - 1 : LastDisk(check, n, c)[m] < LastDisk(check, n, c)[m - 1]
<1> DEFINE left == Left(check, n, c)
           last == LastDisk(check, n, c)
<1> HIDE DEF left
<1>1. n \in Nat \ {0} /\ c \in Nat
  BY DEF Dropping
<1>2. last = [m \in 0 .. c - 1 |-> Min(DropsAt(left, n, m) \cup {n})]
  BY DEF LastDisk, DropsAt, left
<1> HIDE DEF last
<1>3. ASSUME NEW m \in 0 .. c - 1 PROVE last[m] \in DropsAt(left, n, m)
  BY LastDiskDrops DEF last, left
<1>4. \A m \in 0 .. c - 1 : /\ last[m] \in 0 .. n - 1
                            /\ left[last[m]] = m + 1 /\ left[last[m] + 1] = m
  BY <1>3 DEF DropsAt
<1>5. ASSUME NEW m \in 1 .. c - 1 PROVE last[m] < last[m - 1]
  <2> DEFINE i == last[m]
             j == last[m - 1]
  <2>1. m \in 0 .. c - 1 /\ m - 1 \in 0 .. c - 1
    BY <1>1
  <2>2. i \in 0 .. n - 1 /\ j \in 0 .. n - 1 /\ left[i] = m + 1 /\ left[j] = (m - 1) + 1
    BY <1>4, <2>1
  <2> HIDE DEF i, j
  <2>3. SUFFICES ASSUME j <= i PROVE FALSE
    BY <2>2 DEF i, j
  <2>4. i \in 0 .. n /\ j \in 0 .. n
    BY <1>1, <2>2
  <2>5. left[i] <= left[j]
    BY <2>3, <2>4, LeftFalls DEF left
  <2> QED
    BY <2>1, <2>2, <2>5
<1> QED
  BY <1>2, <1>4, <1>5 DEF last

\* What alignDisks leaves
Alignment(t, n, c) ==
  /\ n \in Nat \ {0} /\ c \in 1 .. n
  /\ DOMAIN t.disks = 0 .. n - 1
  /\ Tapered(t.cPosition, n, c)
  /\ t.check = Checks(t.cPosition, n)
  /\ t.kError = KError(t.check, n, c)
  /\ Dropping(Left(t.check, n, c), n, c)

\* Every list a setDisks gets is aligned.
LEMMA AlignmentIs ==
  ASSUME NEW k \in Kinds, NEW l \in Lists[k], NEW c \in 1 .. Len(l), NEW revert \in BOOLEAN
  PROVE  Alignment(Aligning(l, c, revert), Len(l), c)
<1> DEFINE n == Len(l)
           s == Sorted(l, revert)
           t == Aligning(l, c, revert)
<1>1. /\ n \in Nat \ {0} /\ c \in 1 .. n
      /\ \A m \in DOMAIN l : l[m].capacity \in Nat \ {0}
  BY ListIs
<1>2. Descending(s, n)
  <2>1. \A i \in 0 .. n - 1 : s[i] \in ToSet(l)
    BY SortedIs
  <2>2. \A d \in ToSet(l) : d.capacity \in Nat \ {0}
    BY <1>1 DEF ToSet
  <2>3. /\ DOMAIN s = 0 .. n - 1
        /\ \A i, j \in 0 .. n - 1 : i < j => s[i].capacity >= s[j].capacity
    BY SortedIs
  <2> HIDE DEF n, s
  <2> QED
    BY <1>1, <2>1, <2>2, <2>3 DEF Descending
<1>3. /\ t.disks = s /\ t.cPosition = CPositions(s, c)
      /\ t.check = Checks(t.cPosition, n) /\ t.kError = KError(t.check, n, c)
  BY DEF Aligning, Checks
<1> HIDE DEF n, s, t
<1>4. Tapered(t.cPosition, n, c)
  BY <1>1, <1>2, <1>3, CPositionsTaper
<1>5. Dropping(Left(t.check, n, c), n, c)
  BY <1>1, <1>3, <1>4, LeftDrops
<1>6. DOMAIN t.disks = 0 .. n - 1
  BY <1>2, <1>3 DEF Descending
<1> QED
  BY <1>1, <1>3, <1>4, <1>5, <1>6 DEF Alignment, n, t

--------------------------------------------------------------------------------
(* Products and rows of chances: when checkCStar is defined.               *)

\* One copy less than left leaves a disk's chance below 1.
LEMMA ChanceOfOneLess ==
  ASSUME NEW n, NEW c \in 1 .. n, NEW pos, Tapered(pos, n, c), NEW i \in 0 .. n - 1
  PROVE  (Left(Checks(pos, n), n, c)[i] - 1) * (pos[i] - pos[i + 1]) < pos[i]
<1> DEFINE left == Left(Checks(pos, n), n, c)
           d(j) == pos[j] - pos[j + 1]
           Good(j) == (left[j] - 1) * d(j) < pos[j]
<1>1. n \in Nat \ {0} /\ c \in Nat /\ c <= n
  BY DEF Tapered
<1>2. ASSUME NEW j \in 0 .. n - 1
      PROVE  /\ pos[j] \in Nat /\ pos[j + 1] \in Nat /\ d(j) \in Nat \ {0}
             /\ pos[j] = pos[j + 1] + d(j)
             /\ c - 1 - j > 0 => (c - 1 - j) * d(j) <= pos[j + 1]
             /\ left[j + 1] = IF left[j] * d(j) < pos[j] THEN left[j] ELSE left[j] - 1
  <2>1. pos[j] \in Nat /\ pos[j + 1] \in Nat /\ pos[j] > pos[j + 1]
    BY <1>1 DEF Tapered
  <2>2. c - 1 - j > 0 => (c - 1 - j) * d(j) <= pos[j + 1]
    BY DEF Tapered
  <2>3. left[j + 1] = IF left[j] * d(j) < pos[j] THEN left[j] ELSE left[j] - 1
    BY LeftAt
  <2> HIDE DEF left
  <2> QED
    BY <2>1, <2>2, <2>3
<1>3. left \in [0 .. n -> Nat] /\ left[0] = c
  BY LeftDrops DEF Dropping
<1>4. \A j \in 0 .. n - 2 : d(j + 1) <= d(j)
  <2> TAKE j \in 0 .. n - 2
  <2>1. (j + 1) + 1 = j + 2
    OBVIOUS
  <2> QED
    BY <2>1 DEF Tapered
<1> HIDE DEF left, d
<1>5. Good(0)
  <2> DEFINE x == d(0)
  <2>1. 0 \in 0 .. n - 1
    BY <1>1
  <2>2. /\ pos[0] \in Nat /\ pos[1] \in Nat /\ x \in Nat \ {0} /\ pos[0] = pos[1] + x
        /\ c - 1 > 0 => (c - 1) * x <= pos[1]
    BY <1>2, <2>1
  <2> HIDE DEF x
  <2>3. c - 1 = 0 => (c - 1) * x = 0
    BY <2>2
  <2>4. (c - 1) * x < pos[0]
    <3> DEFINE u == (c - 1) * x
    <3>1. u \in Int /\ (c - 1 > 0 => u <= pos[1]) /\ (c - 1 = 0 => u = 0)
      BY <1>1, <2>2, <2>3
    <3> HIDE DEF u
    <3>2. c - 1 > 0 \/ c - 1 = 0
      BY <1>1
    <3> QED
      BY <2>2, <3>1, <3>2
  <2> QED
    BY <1>3, <2>4 DEF x
<1>6. ASSUME NEW j \in 0 .. n - 2, Good(j) PROVE Good(j + 1)
  <2> DEFINE x == d(j)
             y == d(j + 1)
             a == left[j]
             b == left[j + 1]
             p == pos[j]
             q == pos[j + 1]
  <2>1. j \in 0 .. n - 1 /\ j + 1 \in 0 .. n - 1 /\ j \in 0 .. n /\ j + 1 \in 0 .. n
    BY <1>1
  <2>2. /\ p \in Nat /\ q \in Nat /\ x \in Nat \ {0} /\ y \in Nat \ {0}
        /\ p = q + x /\ y <= x /\ a \in Nat /\ b \in Nat
        /\ b = IF a * x < p THEN a ELSE a - 1
        /\ (a - 1) * x < p
    <3>1. p \in Nat /\ q \in Nat /\ x \in Nat \ {0} /\ p = q + x
      BY <1>2, <2>1
    <3>2. y \in Nat \ {0} /\ y <= x
      BY <1>2, <1>4, <2>1
    <3>3. a \in Nat /\ b \in Nat
      BY <1>3, <2>1
    <3>4. b = IF a * x < p THEN a ELSE a - 1
      BY <1>2, <2>1
    <3>5. (a - 1) * x < p
      BY <1>6
    <3> QED
      BY <3>1, <3>2, <3>3, <3>4, <3>5
  <2> HIDE DEF x, y, a, b, p, q
  <2>3. b * x < p
    BY <2>2
  <2>4. (b - 1) * x = b * x - x
    BY <2>2
  <2>5. (b - 1) * x < q
    <3> DEFINE u == b * x
    <3>1. u \in Int /\ u < p /\ (b - 1) * x = u - x
      BY <2>2, <2>3, <2>4
    <3> HIDE DEF u
    <3> QED
      BY <2>2, <3>1
  <2>6. b >= 1 => (b - 1) * y <= (b - 1) * x
    <3> SUFFICES ASSUME b >= 1 PROVE (b - 1) * y <= (b - 1) * x
      OBVIOUS
    <3>1. b - 1 \in Nat
      BY <2>2
    <3> QED
      BY <2>2, <3>1, ProductOrder
  <2>7. b = 0 => (b - 1) * y <= 0
    BY <2>2
  <2>8. (b - 1) * y < q
    <3> DEFINE u == (b - 1) * y
               v == (b - 1) * x
    <3>1. /\ u \in Int /\ v \in Int /\ v < q /\ (b >= 1 => u <= v)
      BY <2>2, <2>5, <2>6
    <3>2. b = 0 => u < 0
      BY <2>2
    <3> HIDE DEF u, v
    <3>3. u < q
      BY <2>2, <3>1, <3>2
    <3> QED
      BY <3>3 DEF u
  <2> QED
    BY <2>8 DEF y, b, q
<1> HIDE DEF Good
<1>7. i \in Nat /\ i <= n - 1
  BY <1>1
<1>8. Good(i)
  <2> DEFINE S == {m \in Nat : m <= n - 1 => Good(m)}
  <2>1. 0 \in S
    BY <1>5
  <2>2. ASSUME NEW m \in S PROVE m + 1 \in S
    <3>1. SUFFICES ASSUME m + 1 <= n - 1 PROVE Good(m + 1)
      OBVIOUS
    <3>2. m \in 0 .. n - 2 /\ Good(m)
      BY <1>1, <3>1
    <3> QED
      BY <1>6, <3>2
  <2>3. S \in SUBSET Nat
    OBVIOUS
  <2>4. S = Nat
    <3> HIDE DEF S
    <3> QED
      BY <2>1, <2>2, <2>3, InductionSet
  <2> QED
    BY <1>7, <2>4
<1> QED
  BY <1>8 DEF Good, d, left

(* A disk that is corrected is neither the first nor the last, there are   *)
(* enough disks before it for the copies placed, and as many copies as are *)
(* left leave their chances below 1.                                       *)
LEMMA CorrectedIs ==
  ASSUME NEW n, NEW c \in 1 .. n, NEW pos, Tapered(pos, n, c), NEW i \in 0 .. n - 1,
         Left(Checks(pos, n), n, c)[i] > 1,
         pos[i] < Left(Checks(pos, n), n, c)[i] * (pos[i] - pos[i + 1])
  PROVE  /\ i > 0 /\ i < n - 1
         /\ Left(Checks(pos, n), n, c)[i] \in 2 .. c
         /\ c - Left(Checks(pos, n), n, c)[i] <= i - 1
         /\ \A v \in 0 .. i - 1 :
              Left(Checks(pos, n), n, c)[i] * (pos[v] - pos[v + 1]) < pos[v]
<1> DEFINE left == Left(Checks(pos, n), n, c)
           l == left[i]
           d(j) == pos[j] - pos[j + 1]
<1>1. n \in Nat \ {0} /\ c \in Nat /\ c <= n
  BY DEF Tapered
<1>2. Dropping(left, n, c)
  BY LeftDrops
<1>3. ASSUME NEW j \in 0 .. n - 1
      PROVE  /\ pos[j] \in Nat /\ pos[j + 1] \in Nat /\ d(j) \in Nat \ {0}
             /\ pos[j] = pos[j + 1] + d(j)
             /\ c - 1 - j > 0 => (c - 1 - j) * d(j) <= pos[j + 1]
             /\ left[j + 1] = IF left[j] * d(j) < pos[j] THEN left[j] ELSE left[j] - 1
             /\ (left[j] - 1) * d(j) < pos[j]
  <2>1. pos[j] \in Nat /\ pos[j + 1] \in Nat /\ pos[j] > pos[j + 1]
    BY <1>1 DEF Tapered
  <2>2. c - 1 - j > 0 => (c - 1 - j) * d(j) <= pos[j + 1]
    BY DEF Tapered
  <2>3. left[j + 1] = IF left[j] * d(j) < pos[j] THEN left[j] ELSE left[j] - 1
    BY LeftAt
  <2>4. (left[j] - 1) * d(j) < pos[j]
    BY ChanceOfOneLess
  <2> HIDE DEF left
  <2> QED
    BY <2>1, <2>2, <2>3, <2>4
<1>4. pos[i] < l * d(i) /\ l > 1
  OBVIOUS
<1> HIDE DEF left, d
<1>5. i \in 0 .. n /\ 0 \in 0 .. n /\ left[0] = c /\ \A j \in 0 .. n : left[j] \in Nat
  <2>1. i \in 0 .. n /\ 0 \in 0 .. n
    BY <1>1
  <2>2. left \in [0 .. n -> Nat] /\ left[0] = c
    BY <1>2 DEF Dropping
  <2> QED
    BY <2>1, <2>2
<1>6. l <= c /\ c - l <= i /\ l <= n - i /\ l \in Nat
  <2>1. l <= left[0] /\ left[0] - l <= i - 0
    BY <1>1, <1>2, <1>5, LeftFalls
  <2>2. l <= n - i
    BY <1>2, <1>5 DEF Dropping
  <2> QED
    BY <1>5, <2>1, <2>2
<1>7. c - l # i
  <2> SUFFICES ASSUME c - l = i PROVE FALSE
    OBVIOUS
  <2> DEFINE x == d(i)
             u == (l - 1) * x
  <2>1. c - 1 - i = l - 1 /\ l - 1 > 0
    BY <1>1, <1>4, <1>6
  <2>2. /\ x \in Nat \ {0} /\ pos[i] \in Nat /\ pos[i + 1] \in Nat
        /\ pos[i] = pos[i + 1] + x /\ u <= pos[i + 1]
    BY <1>3, <2>1
  <2>3. u \in Int /\ l * x = u + x
    <3> HIDE DEF x
    <3> QED
      BY <1>6, <2>2
  <2> HIDE DEF u
  <2> QED
    BY <1>4, <2>2, <2>3
<1>8. ASSUME NEW v \in 0 .. i - 1 PROVE l * d(v) < pos[v]
  <2> DEFINE x == d(v)
             a == left[v]
             b == left[v + 1]
             p == pos[v]
  <2>1. v \in 0 .. n - 1 /\ v \in 0 .. n /\ v + 1 \in 0 .. n /\ v + 1 <= i
    BY <1>1
  <2>2. l <= b
    BY <1>2, <1>5, <2>1, LeftFalls
  <2>3. /\ x \in Nat \ {0} /\ p \in Nat /\ a \in Nat /\ b \in Nat
        /\ b = IF a * x < p THEN a ELSE a - 1
        /\ (a - 1) * x < p
    BY <1>3, <1>5, <2>1
  <2> HIDE DEF x, a, b, p, l
  <2>4. b * x < p
    BY <2>3
  <2>5. l * x <= b * x
    <3>1. x * l <= x * b
      BY <1>6, <2>2, <2>3, ProductOrder
    <3> QED
      BY <1>6, <2>3, <3>1
  <2>6. l * x < p
    <3> DEFINE u == l * x
               w == b * x
    <3>1. u \in Int /\ w \in Int /\ u <= w /\ w < p
      BY <1>6, <2>3, <2>4, <2>5
    <3> HIDE DEF u, w
    <3>2. u < p
      BY <2>3, <3>1
    <3> QED
      BY <3>2 DEF u
  <2> QED
    BY <2>6 DEF x, p
<1>9. i > 0 /\ i < n - 1 /\ l \in 2 .. c /\ c - l <= i - 1
  <2> HIDE DEF l
  <2> QED
    BY <1>1, <1>4, <1>6, <1>7
<1> QED
  BY <1>8, <1>9 DEF left, d

\* The products of P
IsProduct(g, check, a, b, l) ==
  g = [v \in a .. b |->
         IF v = b THEN One
         ELSE LET f == Minus(One, Scaled(l, check[v]))
              IN  IF f[1] < 0 THEN Zero ELSE Times(f, g[v + 1])]

\* One factor more
Factor(check, l, v, x) ==
  LET f == Minus(One, Scaled(l, check[v])) IN IF f[1] < 0 THEN Zero ELSE Times(f, x)

\* A factor of a chance below 1 is positive.
LEMMA FactorIs ==
  ASSUME NEW check, NEW l \in Nat, NEW v, check[v] \in Fractions, NEW x \in Fractions
  PROVE  /\ Factor(check, l, v, x) \in Fractions
         /\ Less(Scaled(l, check[v]), One) /\ x[1] > 0 => Factor(check, l, v, x)[1] > 0
<1> DEFINE p == Scaled(l, check[v])
           f == Minus(One, p)
<1>1. p \in Fractions
  BY ScaledFraction
<1>2. Factor(check, l, v, x) = IF f[1] < 0 THEN Zero ELSE Times(f, x)
  BY DEF Factor
<1> HIDE DEF p
<1>3. (f[1] < 0 \/ f \in Fractions) /\ (Less(p, One) => f \in Fractions /\ f[1] > 0)
  BY <1>1, RestOfOne
<1> HIDE DEF f
<1>4. f \in Fractions => f[1] \in Nat
  BY DEF Fractions
<1>5. Zero \in Fractions
  BY DEF Zero, Fractions
<1>6. CASE f[1] < 0
  <2>1. ~Less(p, One)
    BY <1>3, <1>4, <1>6
  <2> QED
    BY <1>2, <1>5, <1>6, <2>1 DEF p
<1>7. CASE ~(f[1] < 0)
  <2>1. f \in Fractions
    BY <1>3, <1>7
  <2>2. Times(f, x) \in Fractions /\ (f[1] > 0 /\ x[1] > 0 => Times(f, x)[1] > 0)
    BY <2>1, TimesIs
  <2> QED
    BY <1>2, <1>3, <1>7, <2>2 DEF p
<1> QED
  BY <1>6, <1>7

\* P finds a product.
LEMMA ProductExists ==
  ASSUME NEW check, NEW l \in Nat, NEW a \in Nat, NEW b \in Nat, a <= b,
         \A v \in a .. b - 1 : check[v] \in Fractions
  PROVE  \E g : IsProduct(g, check, a, b, l)
<1> DEFINE N == b - a
           F == Fractions
           G == [i \in 0 .. N - 1 |-> [x \in F |-> Factor(check, l, a + i, x)]]
<1>1. N \in Nat /\ One \in F
  BY DEF One, Fractions
<1>2. G \in [0 .. N - 1 -> [F -> F]]
  <2> SUFFICES ASSUME NEW i \in 0 .. N - 1, NEW x \in F
               PROVE  Factor(check, l, a + i, x) \in F
    OBVIOUS
  <2> DEFINE v == a + i
  <2>1. v \in a .. b - 1
    OBVIOUS
  <2> HIDE DEF v
  <2>2. Factor(check, l, v, x) \in F
    BY <2>1, FactorIs
  <2> QED
    BY <2>2 DEF v
<1>3. \A i \in 0 .. N - 1 : \A x \in F : G[i][x] = Factor(check, l, a + i, x)
  OBVIOUS
<1> HIDE DEF N, F, G
<1>4. PICK h \in [0 .. N -> F] : h[N] = One /\ \A i \in 0 .. N - 1 : h[i] = G[i][h[i + 1]]
  <2>1. DownSequences(N, F, One, G) # {}
    BY <1>1, <1>2, DownSequence
  <2> QED
    BY <2>1 DEF DownSequences
<1> DEFINE g == [v \in a .. b |-> h[v - a]]
<1>5. ASSUME NEW v \in a .. b
      PROVE  h[v - a] = IF v = b THEN One ELSE Factor(check, l, v, g[v + 1])
  <2>1. CASE v = b
    BY <1>4, <2>1 DEF N
  <2>2. CASE v # b
    <3> DEFINE i == v - a
    <3>1. /\ i \in 0 .. N - 1 /\ i + 1 \in 0 .. N /\ a + i = v
          /\ v + 1 \in a .. b /\ (v + 1) - a = i + 1
      BY <2>2 DEF N
    <3>2. g[v + 1] = h[i + 1]
      BY <3>1
    <3> HIDE DEF i, g
    <3>3. h[i] = G[i][h[i + 1]] /\ h[i + 1] \in F
      BY <1>4, <3>1
    <3>4. h[i] = Factor(check, l, v, h[i + 1])
      BY <1>3, <3>1, <3>3
    <3> QED
      BY <2>2, <3>2, <3>4 DEF i
  <2> QED
    BY <2>1, <2>2
<1>6. IsProduct(g, check, a, b, l)
  <2>1. g = [v \in a .. b |-> IF v = b THEN One ELSE Factor(check, l, v, g[v + 1])]
    BY <1>5
  <2> HIDE DEF g
  <2> QED
    BY <2>1, Zenon DEF IsProduct, Factor
<1> QED
  BY <1>6

(* P is a fraction; no disk at all is certain to take no copy, and disks   *)
(* with chances below 1 may take none.                                     *)
LEMMA PIs ==
  ASSUME NEW check, NEW l \in Nat, NEW a \in Nat, NEW b \in Nat,
         \A v \in a .. b - 1 : check[v] \in Fractions
  PROVE  /\ P(check, a, b, l) \in Fractions
         /\ a = b => P(check, a, b, l)[1] > 0
         /\ a <= b /\ (\A v \in a .. b - 1 : Less(Scaled(l, check[v]), One))
              => P(check, a, b, l)[1] > 0
<1> DEFINE p == P(check, a, b, l)
           Low == \A v \in a .. b - 1 : Less(Scaled(l, check[v]), One)
           product == CHOOSE g : IsProduct(g, check, a, b, l)
<1>1. p = IF a > b THEN Zero
          ELSE IF a = b THEN One
          ELSE IF Less(One, Scaled(l, check[b - 1])) THEN Zero ELSE product[a]
  BY DEF P, IsProduct
<1>2. Zero \in Fractions /\ One \in Fractions /\ One[1] > 0
  BY DEF Zero, One, Fractions
<1>3. ASSUME a < b
      PROVE  product[a] \in Fractions /\ (Low => product[a][1] > 0)
  <2> DEFINE Good == {k \in Nat : k <= b - a =>
                        /\ product[b - k] \in Fractions
                        /\ Low => product[b - k][1] > 0}
  <2>1. IsProduct(product, check, a, b, l)
    <3>1. a <= b
      BY <1>3
    <3> QED
      BY <3>1, ProductExists
  <2> HIDE DEF product
  <2>2. product = [v \in a .. b |-> IF v = b THEN One ELSE Factor(check, l, v, product[v + 1])]
    BY <2>1, Zenon DEF IsProduct, Factor
  <2>3. 0 \in Good
    <3>1. b \in a .. b /\ b - 0 = b
      BY <1>3
    <3>2. product[b] = One
      BY <2>2, <3>1
    <3> QED
      BY <1>2, <3>1, <3>2
  <2>4. ASSUME NEW k \in Good PROVE k + 1 \in Good
    <3> SUFFICES ASSUME k + 1 <= b - a
                 PROVE  /\ product[b - (k + 1)] \in Fractions
                        /\ Low => product[b - (k + 1)][1] > 0
      OBVIOUS
    <3> DEFINE v == b - (k + 1)
    <3>1. k \in Nat /\ product[b - k] \in Fractions /\ (Low => product[b - k][1] > 0)
      OBVIOUS
    <3>2. v \in a .. b - 1 /\ v \in a .. b /\ v # b /\ v + 1 = b - k
      BY <1>3, <3>1
    <3> HIDE DEF v, Good
    <3>3. product[v] = Factor(check, l, v, product[b - k])
      BY <2>2, <3>2
    <3>4. check[v] \in Fractions /\ (Low => Less(Scaled(l, check[v]), One))
      BY <3>2
    <3> HIDE DEF Low
    <3>5. product[v] \in Fractions /\ (Low => product[v][1] > 0)
      BY <3>1, <3>3, <3>4, FactorIs
    <3> QED
      BY <3>5 DEF v
  <2>5. Good \in SUBSET Nat
    OBVIOUS
  <2>6. Good = Nat
    <3> HIDE DEF Good
    <3> QED
      BY <2>3, <2>4, <2>5, InductionSet
  <2>7. b - a \in Good /\ b - (b - a) = a
    BY <1>3, <2>6
  <2> QED
    BY <2>7
<1>4. ASSUME a < b, Low PROVE ~Less(One, Scaled(l, check[b - 1]))
  <2> DEFINE v == b - 1
             q == Scaled(l, check[v])
  <2>1. v \in a .. b - 1
    BY <1>4
  <2>2. check[v] \in Fractions /\ Less(Scaled(l, check[v]), One)
    BY <1>4, <2>1
  <2> HIDE DEF v
  <2>3. q \in Fractions /\ Less(q, One)
    BY <2>2, ScaledFraction
  <2> HIDE DEF q
  <2>4. ~Less(One, q)
    BY <2>3 DEF Less, One, Fractions
  <2> QED
    BY <2>4 DEF q, v
<1> HIDE DEF p, product, Low
<1>5. p \in Fractions /\ (a = b => p[1] > 0) /\ (a <= b /\ Low => p[1] > 0)
  <2>1. CASE a > b
    BY <1>1, <1>2, <2>1
  <2>2. CASE a = b
    BY <1>1, <1>2, <2>2
  <2>3. CASE a < b
    BY <1>1, <1>2, <1>3, <1>4, <2>3
  <2> QED
    BY <2>1, <2>2, <2>3
<1> QED
  BY <1>5 DEF p, Low

\* r_inner as a function
IsInner(g, check, o, m, i, short) ==
  g = [p \in (o .. m) \X (0 .. i + 1) |->
         LET mm == p[1]
             jj == p[2]
         IN  IF mm = o THEN Times(Least(One, Scaled(mm, check[i])), P(check, jj, i, mm))
             ELSE Scaled(mm, SumOver([v \in jj .. i - mm + o - short |->
                    Times(Times(check[v], P(check, jj, v, mm)), g[<<mm - 1, v + 1>>])]))]

\* Its values for o copies, and for one copy more than row's
FirstRow(check, o, i) ==
  [j \in 0 .. i + 1 |-> Times(Least(One, Scaled(o, check[i])), P(check, j, i, o))]
Terms(check, o, i, m, row, j, short) ==
  [v \in j .. i - m + o - short |-> Times(Times(check[v], P(check, j, v, m)), row[v + 1])]
NextRow(check, o, i, m, row, short) ==
  [j \in 0 .. i + 1 |-> Scaled(m, SumOver(Terms(check, o, i, m, row, j, short)))]

\* Chances of the disks up to i, all positive
PositiveChances(check, i) ==
  \A v \in 0 .. i : check[v] \in Fractions /\ check[v][1] > 0

\* The first row is positive up to disk i.
LEMMA FirstRowIs ==
  ASSUME NEW check, NEW i \in Nat, PositiveChances(check, i), NEW o \in Nat \ {0}
  PROVE  /\ FirstRow(check, o, i) \in [0 .. i + 1 -> Fractions]
         /\ (\A v \in 0 .. i - 1 : Less(Scaled(o, check[v]), One))
              => \A j \in 0 .. i : FirstRow(check, o, i)[j][1] > 0
<1> DEFINE p(j) == P(check, j, i, o)
           c == Least(One, Scaled(o, check[i]))
           Low == \A v \in 0 .. i - 1 : Less(Scaled(o, check[v]), One)
<1>1. c \in Fractions /\ c[1] > 0
  <2>1. i \in 0 .. i
    OBVIOUS
  <2>2. check[i] \in Fractions /\ check[i][1] > 0
    BY <2>1 DEF PositiveChances
  <2>3. Scaled(o, check[i]) \in Fractions /\ Scaled(o, check[i])[1] > 0
    BY <2>2, ScaledFraction
  <2>4. One \in Fractions /\ One[1] > 0
    BY DEF One, Fractions
  <2> QED
    BY <2>3, <2>4 DEF Least
<1> HIDE DEF c
<1>2. ASSUME NEW j \in 0 .. i + 1
      PROVE  p(j) \in Fractions /\ (Low /\ j <= i => p(j)[1] > 0)
  <2>1. j \in Nat /\ \A v \in j .. i - 1 : v \in 0 .. i
    OBVIOUS
  <2>2. \A v \in j .. i - 1 : check[v] \in Fractions
    BY <2>1 DEF PositiveChances
  <2>3. Low => \A v \in j .. i - 1 : Less(Scaled(o, check[v]), One)
    <3> SUFFICES ASSUME Low, NEW v \in j .. i - 1 PROVE Less(Scaled(o, check[v]), One)
      OBVIOUS
    <3>1. v \in 0 .. i - 1
      OBVIOUS
    <3> QED
      BY <3>1
  <2> HIDE DEF Low
  <2>4. p(j) \in Fractions
    BY <2>1, <2>2, PIs
  <2>5. ASSUME Low, j <= i PROVE p(j)[1] > 0
    <3>1. \A v \in j .. i - 1 : Less(Scaled(o, check[v]), One)
      BY <2>3, <2>5
    <3> QED
      BY <2>1, <2>2, <2>5, <3>1, PIs
  <2> QED
    BY <2>4, <2>5
<1> HIDE DEF p, Low
<1>3. ASSUME NEW j \in 0 .. i + 1
      PROVE  /\ Times(c, p(j)) \in Fractions
             /\ Low /\ j <= i => Times(c, p(j))[1] > 0
  BY <1>1, <1>2, TimesIs
<1>4. FirstRow(check, o, i) = [j \in 0 .. i + 1 |-> Times(c, p(j))]
  BY DEF FirstRow, c, p
<1>5. ASSUME Low, NEW j \in 0 .. i PROVE FirstRow(check, o, i)[j][1] > 0
  <2>1. j \in 0 .. i + 1 /\ j <= i
    OBVIOUS
  <2> QED
    BY <1>3, <1>4, <1>5, <2>1
<1>6. FirstRow(check, o, i) \in [0 .. i + 1 -> Fractions]
  BY <1>3, <1>4
<1> QED
  BY <1>5, <1>6 DEF Low

\* The next row is positive wherever the one before is, one disk further.
LEMMA NextRowIs ==
  ASSUME NEW check, NEW i \in Nat, PositiveChances(check, i), NEW o \in Nat \ {0},
         NEW k \in Nat, NEW row \in [0 .. i + 1 -> Fractions], NEW short \in {0, 1}
  PROVE  /\ NextRow(check, o, i, o + k + 1, row, short) \in [0 .. i + 1 -> Fractions]
         /\ \A j \in 0 .. i - (k + 1) - short :
              row[j + 1][1] > 0 => NextRow(check, o, i, o + k + 1, row, short)[j][1] > 0
<1> DEFINE m == o + k + 1
           D(j) == j .. i - m + o - short
           p(j, v) == P(check, j, v, m)
           term(j, v) == Times(Times(check[v], p(j, v)), row[v + 1])
           f(j) == Terms(check, o, i, m, row, j, short)
<1>1. ASSUME NEW j \in 0 .. i + 1
      PROVE  /\ IsFiniteSet(D(j)) /\ D(j) \in SUBSET (0 .. i) /\ j \in Nat
             /\ j <= i - (k + 1) - short => j \in D(j)
  <2> DEFINE b == i - m + o - short
  <2>1. b \in Int /\ b = i - (k + 1) - short /\ j \in Int /\ j >= 0 /\ b <= i
    OBVIOUS
  <2> HIDE DEF b
  <2>2. IsFiniteSet(j .. b)
    BY <2>1, FS_Interval
  <2>3. j .. b \in SUBSET (0 .. i)
    BY <2>1
  <2>4. j <= i - (k + 1) - short => j \in j .. b
    BY <2>1
  <2> QED
    BY <2>1, <2>2, <2>3, <2>4 DEF b
<1>2. m \in Nat \ {0}
  OBVIOUS
<1> HIDE DEF m, D
<1>3. ASSUME NEW j \in 0 .. i + 1, NEW v \in D(j)
      PROVE  /\ term(j, v) \in Fractions
             /\ v = j /\ row[v + 1][1] > 0 => term(j, v)[1] > 0
  <2>1. v \in 0 .. i /\ j \in Nat /\ v \in Nat /\ v + 1 \in 0 .. i + 1
    BY <1>1
  <2>2. check[v] \in Fractions /\ check[v][1] > 0
    BY <2>1 DEF PositiveChances
  <2>3. p(j, v) \in Fractions /\ (j = v => p(j, v)[1] > 0)
    <3>1. \A w \in j .. v - 1 : w \in 0 .. i
      BY <2>1
    <3>2. \A w \in j .. v - 1 : check[w] \in Fractions
      BY <3>1 DEF PositiveChances
    <3> QED
      BY <1>2, <2>1, <3>2, PIs
  <2> DEFINE x == row[v + 1]
             y == p(j, v)
             z == Times(check[v], y)
  <2>4. x \in Fractions
    BY <2>1
  <2> HIDE DEF x, y
  <2>5. z \in Fractions /\ (j = v => z[1] > 0)
    BY <2>2, <2>3, TimesIs DEF y
  <2> HIDE DEF z
  <2>6. Times(z, x) \in Fractions /\ (z[1] > 0 /\ x[1] > 0 => Times(z, x)[1] > 0)
    BY <2>4, <2>5, TimesIs
  <2> QED
    BY <2>5, <2>6 DEF x, y, z
<1> HIDE DEF p
<1>4. ASSUME NEW j \in 0 .. i + 1
      PROVE  DOMAIN f(j) = D(j) /\ \A v \in D(j) : f(j)[v] = term(j, v)
  <2>1. f(j) = [v \in D(j) |-> term(j, v)]
    BY DEF Terms, D, p
  <2> HIDE DEF f, term
  <2> QED
    BY <2>1
<1> HIDE DEF f, term
<1>5. ASSUME NEW j \in 0 .. i + 1
      PROVE  /\ Scaled(m, SumOver(f(j))) \in Fractions
             /\ j <= i - (k + 1) - short /\ row[j + 1][1] > 0 => Scaled(m, SumOver(f(j)))[1] > 0
  <2> DEFINE h == f(j)
             E == D(j)
             s == SumOver(h)
  <2>1. IsFiniteSet(E) /\ DOMAIN h = E /\ \A v \in E : h[v] \in Fractions
    BY <1>1, <1>3, <1>4
  <2>2. ASSUME j <= i - (k + 1) - short, row[j + 1][1] > 0 PROVE j \in E /\ h[j][1] > 0
    <3>1. j \in E
      BY <1>1, <2>2
    <3>2. term(j, j)[1] > 0
      BY <1>3, <2>2, <3>1
    <3> QED
      BY <1>4, <3>1, <3>2
  <2> HIDE DEF h, E
  <2>3. s \in Fractions /\ \A v \in E : h[v][1] > 0 => s[1] > 0
    BY <2>1, FractionSum
  <2> HIDE DEF s
  <2>4. Scaled(m, s) \in Fractions /\ (s[1] > 0 => Scaled(m, s)[1] > 0)
    BY <1>2, <2>3, ScaledFraction
  <2>5. j <= i - (k + 1) - short /\ row[j + 1][1] > 0 => s[1] > 0
    BY <2>2, <2>3
  <2> QED
    BY <2>4, <2>5 DEF s, h
<1>6. NextRow(check, o, i, m, row, short) = [j \in 0 .. i + 1 |-> Scaled(m, SumOver(f(j)))]
  BY DEF NextRow, f
<1>7. NextRow(check, o, i, m, row, short) \in [0 .. i + 1 -> Fractions]
  BY <1>5, <1>6
<1>8. ASSUME NEW j \in 0 .. i - (k + 1) - short, row[j + 1][1] > 0
      PROVE  NextRow(check, o, i, m, row, short)[j][1] > 0
  <2>1. j \in 0 .. i + 1 /\ j <= i - (k + 1) - short
    OBVIOUS
  <2> QED
    BY <1>5, <1>6, <1>8, <2>1
<1> QED
  BY <1>7, <1>8 DEF m

\* The rows of r_inner, from those for o copies on
RowsOf(r, check, o, i, N, short) ==
  /\ r[0] = FirstRow(check, o, i)
  /\ \A k \in 0 .. N : r[k] \in [0 .. i + 1 -> Fractions]
  /\ \A k \in 0 .. N - 1 : r[k + 1] = NextRow(check, o, i, o + k + 1, r[k], short)

\* The rows as one function of copies and disk
InnerOf(r, o, N, i) == [p \in (o .. o + N) \X (0 .. i + 1) |-> r[p[1] - o][p[2]]]

\* A function is r_inner if its rows follow one another.
LEMMA InnerRows ==
  ASSUME NEW check, NEW i \in Nat, NEW o \in Nat \ {0}, NEW N \in Nat, NEW short \in {0, 1},
         NEW h, RowsOf(h, check, o, i, N, short)
  PROVE  IsInner(InnerOf(h, o, N, i), check, o, o + N, i, short)
<1> DEFINE D == (o .. o + N) \X (0 .. i + 1)
           g == [p \in D |-> h[p[1] - o][p[2]]]
           Rest(m, j) == Scaled(m, SumOver([v \in j .. i - m + o - short |->
                           Times(Times(check[v], P(check, j, v, m)), g[<<m - 1, v + 1>>])]))
           first(m, j) == Times(Least(One, Scaled(m, check[i])), P(check, j, i, m))
<1>0. /\ h[0] = FirstRow(check, o, i)
      /\ \A k \in 0 .. N - 1 : h[k + 1] = NextRow(check, o, i, o + k + 1, h[k], short)
  BY DEF RowsOf
<1>1. ASSUME NEW m \in o .. o + N, NEW j \in 0 .. i + 1
      PROVE  h[m - o][j] = IF m = o THEN first(m, j) ELSE Rest(m, j)
  <2>1. CASE m = o
    <3>1. m - o = 0
      BY <2>1
    <3>2. FirstRow(check, o, i)[j] = first(o, j)
      BY DEF FirstRow
    <3> HIDE DEF first
    <3> QED
      BY <2>1, <1>0, <3>1, <3>2
  <2>2. CASE m # o
    <3> DEFINE k == m - o - 1
               E == j .. i - m + o - short
               row == h[k]
    <3>1. k \in 0 .. N - 1 /\ k \in 0 .. N /\ o + k + 1 = m /\ m - o = k + 1
      BY <2>2
    <3>2. h[k + 1] = NextRow(check, o, i, m, row, short)
      BY <1>0, <3>1
    <3>3. NextRow(check, o, i, m, row, short)[j]
            = Scaled(m, SumOver(Terms(check, o, i, m, row, j, short)))
      BY DEF NextRow
    <3>4. ASSUME NEW v \in E PROVE row[v + 1] = g[<<m - 1, v + 1>>]
      <4> DEFINE q == <<m - 1, v + 1>>
      <4>1. m - 1 \in o .. o + N /\ v + 1 \in 0 .. i + 1 /\ (m - 1) - o = k
        BY <2>2
      <4>2. q \in D /\ q[1] = m - 1 /\ q[2] = v + 1
        BY <4>1
      <4> HIDE DEF q, D, k
      <4>3. g[q] = h[(m - 1) - o][v + 1]
        BY <4>2
      <4> QED
        BY <4>1, <4>3 DEF q
    <3> HIDE DEF g, row, k
    <3>5. Terms(check, o, i, m, row, j, short) =
            [v \in E |-> Times(Times(check[v], P(check, j, v, m)), g[<<m - 1, v + 1>>])]
      BY <3>4 DEF Terms
    <3>6. Rest(m, j) = Scaled(m, SumOver(Terms(check, o, i, m, row, j, short)))
      BY <3>5
    <3>7. h[m - o] = NextRow(check, o, i, m, row, short)
      BY <3>1, <3>2
    <3> HIDE DEF Rest
    <3> QED
      BY <2>2, <3>3, <3>6, <3>7
  <2> QED
    BY <2>1, <2>2
<1>2. g = [p \in D |-> IF p[1] = o THEN first(p[1], p[2]) ELSE Rest(p[1], p[2])]
  <2> HIDE DEF Rest, first
  <2>1. ASSUME NEW p \in D
        PROVE  h[p[1] - o][p[2]] = IF p[1] = o THEN first(p[1], p[2]) ELSE Rest(p[1], p[2])
    <3>1. p[1] \in o .. o + N /\ p[2] \in 0 .. i + 1
      OBVIOUS
    <3> QED
      BY <1>1, <3>1
  <2> QED
    BY <2>1
<1> HIDE DEF g
<1>3. IsInner(g, check, o, o + N, i, short)
  BY <1>2, Zenon DEF IsInner, D, Rest, first
<1> QED
  BY <1>3 DEF g, D, InnerOf

\* r_inner goes through them to the first disk.
GoesThrough(check, o, m, i, short) ==
  \E r : RowsOf(r, check, o, i, m - o, short) /\ RInner(check, o, m, 0, i, short) = r[m - o][0]

\* r_inner is.
LEMMA RInnerRows ==
  ASSUME NEW check, NEW i \in Nat, PositiveChances(check, i), NEW o \in Nat \ {0},
         NEW m \in Nat, o <= m, NEW short \in {0, 1}
  PROVE  GoesThrough(check, o, m, i, short)
<1> DEFINE N == m - o
           Rows == [0 .. i + 1 -> Fractions]
           G == [k \in 0 .. N - 1 |->
                   [row \in Rows |-> NextRow(check, o, i, o + k + 1, row, short)]]
           inner == CHOOSE g : IsInner(g, check, o, m, i, short)
           D == (o .. m) \X (0 .. i + 1)
           r(k) == [j \in 0 .. i + 1 |-> inner[<<o + k, j>>]]
<1>1. N \in Nat /\ o + N = m
  OBVIOUS
<1>2. FirstRow(check, o, i) \in Rows
  BY FirstRowIs
<1>3. \E g : IsInner(g, check, o, m, i, short)
  <2>1. G \in [0 .. N - 1 -> [Rows -> Rows]]
    <3> SUFFICES ASSUME NEW k \in 0 .. N - 1, NEW row \in Rows
                 PROVE  NextRow(check, o, i, o + k + 1, row, short) \in Rows
      OBVIOUS
    <3>1. k \in Nat
      BY <1>1
    <3> QED
      BY <3>1, NextRowIs
  <2>2. \A k \in 0 .. N - 1 : \A row \in Rows :
          G[k][row] = NextRow(check, o, i, o + k + 1, row, short)
    OBVIOUS
  <2> DEFINE a == FirstRow(check, o, i)
             S == Rows
  <2>3. a \in S /\ G \in [0 .. N - 1 -> [S -> S]]
    BY <1>2, <2>1
  <2> HIDE DEF G, a, S, N
  <2>4. PICK h \in [0 .. N -> S] : h[0] = a /\ \A k \in 0 .. N - 1 : h[k + 1] = G[k][h[k]]
    <3>1. UpSequences(N, S, a, G) # {}
      BY <1>1, <2>3, UpSequence
    <3> QED
      BY <3>1 DEF UpSequences
  <2>5. ASSUME NEW k \in 0 .. N - 1 PROVE h[k + 1] = NextRow(check, o, i, o + k + 1, h[k], short)
    <3>1. k \in 0 .. N
      BY <1>1
    <3>2. h[k] \in Rows
      BY <2>4, <3>1 DEF S
    <3> QED
      BY <2>2, <2>4, <3>2
  <2>6. h \in [0 .. N -> [0 .. i + 1 -> Fractions]] /\ h[0] = FirstRow(check, o, i)
    BY <2>4 DEF S, a
  <2>7. IsInner(InnerOf(h, o, N, i), check, o, o + N, i, short)
    <3>1. \A k \in 0 .. N - 1 : h[k + 1] = NextRow(check, o, i, o + k + 1, h[k], short)
      BY <2>5
    <3>2. \A k \in 0 .. N : h[k] \in [0 .. i + 1 -> Fractions]
      BY <2>6
    <3>3. RowsOf(h, check, o, i, N, short)
      BY <2>6, <3>1, <3>2, Zenon DEF RowsOf
    <3> QED
      BY <1>1, <3>3, InnerRows
  <2> QED
    BY <1>1, <2>7
<1>4. RInner(check, o, m, 0, i, short) = inner[<<m, 0>>]
  BY DEF RInner, IsInner
<1>5. IsInner(inner, check, o, m, i, short)
  BY <1>3
<1> HIDE DEF inner
<1>6. r(0) = FirstRow(check, o, i)
  <2>1. ASSUME NEW j \in 0 .. i + 1
        PROVE  inner[<<o + 0, j>>] =
                 Times(Least(One, Scaled(o, check[i])), P(check, j, i, o))
    <3> DEFINE q == <<o, j>>
    <3>1. q \in D /\ q[1] = o /\ q[2] = j /\ o + 0 = o
      OBVIOUS
    <3> HIDE DEF q
    <3>2. inner[q] = Times(Least(One, Scaled(q[1], check[i])), P(check, q[2], i, q[1]))
      BY <1>5, <3>1 DEF IsInner
    <3>3. inner[q] = Times(Least(One, Scaled(o, check[i])), P(check, j, i, o))
      BY <3>1, <3>2
    <3> QED
      BY <3>1, <3>3 DEF q
  <2> QED
    BY <2>1 DEF FirstRow
<1>7. ASSUME NEW k \in 0 .. N - 1 PROVE r(k + 1) = NextRow(check, o, i, o + k + 1, r(k), short)
  <2> DEFINE M == o + k + 1
             row == r(k)
             E(j) == j .. i - M + o - short
  <2>1. M \in o .. m /\ M # o /\ M - 1 = o + k /\ M = o + (k + 1) /\ M \in Int
    BY <1>1
  <2>2. ASSUME NEW j \in 0 .. i + 1, NEW v \in E(j) PROVE row[v + 1] = inner[<<M - 1, v + 1>>]
    <3>1. v + 1 \in 0 .. i + 1
      OBVIOUS
    <3>2. row[v + 1] = inner[<<o + k, v + 1>>]
      BY <3>1
    <3> QED
      BY <2>1, <3>2
  <2> HIDE DEF M, row
  <2>3. ASSUME NEW j \in 0 .. i + 1
        PROVE  inner[<<M, j>>] = Scaled(M, SumOver(Terms(check, o, i, M, row, j, short)))
    <3> DEFINE q == <<M, j>>
    <3>1. q \in D /\ q[1] = M /\ q[2] = j
      BY <2>1
    <3>2. Terms(check, o, i, M, row, j, short) =
            [v \in E(j) |-> Times(Times(check[v], P(check, j, v, M)), inner[<<M - 1, v + 1>>])]
      BY <2>2 DEF Terms
    <3> DEFINE Rest(a, b) == Scaled(a, SumOver([v \in b .. i - a + o - short |->
                 Times(Times(check[v], P(check, b, v, a)), inner[<<a - 1, v + 1>>])]))
    <3>3. Rest(M, j) = Scaled(M, SumOver(Terms(check, o, i, M, row, j, short)))
      BY <3>2
    <3> HIDE DEF q
    <3>4. inner[q] = Rest(q[1], q[2])
      <4>1. q[1] # o
        BY <2>1, <3>1
      <4> HIDE DEF D
      <4>2. inner = [p \in D |->
                       IF p[1] = o
                         THEN Times(Least(One, Scaled(p[1], check[i])), P(check, p[2], i, p[1]))
                         ELSE Rest(p[1], p[2])]
        BY <1>5, Zenon DEF IsInner, D
      <4> HIDE DEF Rest
      <4> QED
        BY <3>1, <4>1, <4>2
    <3> HIDE DEF Rest
    <3>5. inner[q] = Rest(M, j)
      BY <3>1, <3>4
    <3> QED
      BY <3>3, <3>5 DEF q
  <2>4. r(k + 1) = [j \in 0 .. i + 1 |-> inner[<<M, j>>]]
    BY <2>1
  <2> HIDE DEF r
  <2>5. r(k + 1) = NextRow(check, o, i, M, row, short)
    BY <2>3, <2>4 DEF NextRow
  <2> QED
    BY <2>5 DEF M, row
<1> HIDE DEF r
<1> DEFINE Good == {k \in Nat : k <= N => r(k) \in Rows}
<1>8. 0 \in Good
  BY <1>2, <1>6
<1>9. ASSUME NEW k \in Good PROVE k + 1 \in Good
  <2> SUFFICES ASSUME k + 1 <= N PROVE r(k + 1) \in Rows
    OBVIOUS
  <2>1. k \in Nat /\ r(k) \in Rows
    BY <1>1
  <2>2. k \in 0 .. N - 1
    BY <1>1, <2>1
  <2>3. r(k + 1) = NextRow(check, o, i, o + k + 1, r(k), short)
    BY <1>7, <2>2
  <2>4. NextRow(check, o, i, o + k + 1, r(k), short) \in Rows
    BY <2>1, NextRowIs
  <2> QED
    BY <2>3, <2>4
<1>10. Good = Nat
  <2>1. Good \in SUBSET Nat
    OBVIOUS
  <2> HIDE DEF Good
  <2> QED
    BY <1>8, <1>9, <2>1, InductionSet
<1> DEFINE f == [k \in 0 .. N |-> r(k)]
<1>11. \A k \in 0 .. N : f[k] = r(k) /\ r(k) \in Rows
  <2> TAKE k \in 0 .. N
  <2>1. k \in Good /\ k <= N
    BY <1>1, <1>10
  <2> QED
    BY <2>1
<1>12. /\ 0 \in 0 .. N /\ N \in 0 .. N
       /\ \A k \in 0 .. N - 1 : k \in 0 .. N /\ k + 1 \in 0 .. N
  BY <1>1
<1> HIDE DEF f
<1>13. RowsOf(f, check, o, i, N, short)
  BY <1>6, <1>7, <1>11, <1>12 DEF RowsOf
<1>14. f[N][0] = inner[<<m, 0>>]
  <2>1. 0 \in 0 .. i + 1 /\ o + N = m
    BY <1>1
  <2> HIDE DEF N
  <2>2. r(N)[0] = inner[<<o + N, 0>>]
    BY <2>1 DEF r
  <2> QED
    BY <1>11, <1>12, <2>1, <2>2
<1> QED
  BY <1>4, <1>13, <1>14 DEF GoesThrough

\* r_inner is a positive fraction: enough disks are left for the copies placed.
LEMMA RInnerIs ==
  ASSUME NEW check, NEW i \in Nat, PositiveChances(check, i), NEW o \in Nat \ {0},
         NEW m \in Nat, o <= m, m - o <= i,
         \A v \in 0 .. i - 1 : Less(Scaled(o, check[v]), One)
  PROVE  RInner(check, o, m, 0, i, 0)[1] > 0
<1> DEFINE N == m - o
           Rows == [0 .. i + 1 -> Fractions]
<1>1. N \in Nat /\ o + N = m /\ N <= i
  OBVIOUS
<1>2. \A j \in 0 .. i : FirstRow(check, o, i)[j][1] > 0
  BY FirstRowIs
<1>3. PICK r : RowsOf(r, check, o, i, N, 0) /\ RInner(check, o, m, 0, i, 0) = r[N][0]
  BY RInnerRows DEF GoesThrough
<1> HIDE DEF N
<1> DEFINE Good == {k \in Nat : k <= N => \A j \in 0 .. i - k : r[k][j][1] > 0}
<1>4. 0 \in Good
  BY <1>2, <1>3 DEF RowsOf
<1>5. ASSUME NEW k \in Good PROVE k + 1 \in Good
  <2> SUFFICES ASSUME k + 1 <= N
               PROVE  \A j \in 0 .. i - (k + 1) : r[k + 1][j][1] > 0
    OBVIOUS
  <2>1. k \in Nat /\ \A j \in 0 .. i - k : r[k][j][1] > 0
    BY <1>1
  <2>2. k \in 0 .. N - 1 /\ k \in 0 .. N
    BY <1>1, <2>1
  <2>3. r[k + 1] = NextRow(check, o, i, o + k + 1, r[k], 0) /\ r[k] \in Rows
    BY <1>3, <2>2 DEF RowsOf
  <2>4. ASSUME NEW j \in 0 .. i - (k + 1)
        PROVE  NextRow(check, o, i, o + k + 1, r[k], 0)[j][1] > 0
    <3>1. j + 1 \in 0 .. i - k /\ j \in 0 .. i - (k + 1) - 0
      BY <2>1
    <3>2. r[k][j + 1][1] > 0
      BY <2>1, <3>1
    <3> DEFINE row == r[k]
    <3>3. row \in Rows /\ row[j + 1][1] > 0
      BY <2>3, <3>2
    <3> HIDE DEF row
    <3>4. NextRow(check, o, i, o + k + 1, row, 0)[j][1] > 0
      BY <2>1, <3>1, <3>3, NextRowIs
    <3> QED
      BY <3>4 DEF row
  <2> QED
    BY <2>3, <2>4
<1>6. Good = Nat
  <2>1. Good \in SUBSET Nat
    OBVIOUS
  <2> HIDE DEF Good
  <2> QED
    BY <1>4, <1>5, <2>1, InductionSet
<1>7. N \in Good /\ 0 \in 0 .. i - N
  BY <1>1, <1>6
<1>8. r[N][0][1] > 0
  BY <1>1, <1>7
<1> QED
  BY <1>3, <1>8

\* The numbers of one disk
LEMMA AlignedDisk ==
  ASSUME NEW t, NEW n, NEW c, Alignment(t, n, c), NEW i \in 0 .. n - 1
  PROVE  LET left == Left(t.check, n, c)
             pos == t.cPosition
             d == pos[i] - pos[i + 1]
         IN  /\ pos[i] \in Nat \ {0} /\ pos[i + 1] \in Nat /\ d \in Nat \ {0}
             /\ t.check[i] = Ratio(d, pos[i]) /\ left[i] \in Nat
             /\ left[i + 1] = (IF left[i] * d < pos[i] THEN left[i] ELSE left[i] - 1)
             /\ (left[i] - 1) * d < pos[i]
             /\ t.kError[i] = (IF pos[i] < left[i] * d THEN left[i] - 1 ELSE -1)
<1> DEFINE pos == t.cPosition
           d == pos[i] - pos[i + 1]
           check == t.check
           left == Left(check, n, c)
<1>1. /\ n \in Nat \ {0} /\ c \in Nat /\ c \in 1 .. n /\ Tapered(pos, n, c)
      /\ check = Checks(pos, n) /\ t.kError = KError(check, n, c) /\ Dropping(left, n, c)
  BY DEF Alignment
<1>2. i \in 0 .. n /\ i + 1 \in 0 .. n
  BY <1>1
<1>3. pos[i] \in Nat \ {0} /\ pos[i + 1] \in Nat /\ d \in Nat \ {0}
  <2>1. pos[i] \in Nat /\ pos[i + 1] \in Nat /\ pos[i] > pos[i + 1]
    BY <1>1, <1>2 DEF Tapered
  <2> QED
    BY <2>1
<1>4. left[i] \in Nat
  BY <1>1, <1>2 DEF Dropping
<1>5. check[i] = Ratio(d, pos[i])
  BY <1>1 DEF Checks
<1>6. /\ left[i + 1] = (IF left[i] * d < pos[i] THEN left[i] ELSE left[i] - 1)
      /\ (left[i] - 1) * d < pos[i]
  <2>1. left = Left(Checks(pos, n), n, c)
    BY <1>1
  <2> HIDE DEF left, pos
  <2>2. left[i + 1] = (IF left[i] * (pos[i] - pos[i + 1]) < pos[i] THEN left[i] ELSE left[i] - 1)
    BY <1>1, <2>1, LeftAt
  <2>3. (left[i] - 1) * (pos[i] - pos[i + 1]) < pos[i]
    BY <1>1, <2>1, ChanceOfOneLess
  <2> QED
    BY <2>2, <2>3
<1>7. t.kError[i] = (IF pos[i] < left[i] * d THEN left[i] - 1 ELSE -1)
  <2> DEFINE x == left[i]
             y == pos[i]
  <2>1. t.kError[i] = (IF Less(One, Scaled(x, check[i])) THEN x - 1 ELSE -1)
    BY <1>1 DEF KError
  <2>2. x \in Nat /\ y \in Nat \ {0} /\ d \in Int /\ check[i] = Ratio(d, y)
    BY <1>3, <1>4, <1>5
  <2> HIDE DEF x, y, d, check
  <2>3. Less(One, Scaled(x, check[i])) <=> y < x * d
    BY <2>2, ScaledIs
  <2> QED
    BY <2>1, <2>3 DEF x, y
<1> QED
  BY <1>3, <1>4, <1>5, <1>6, <1>7

\* A corrected disk is in between, and those before it need no correction for its copies.
LEMMA CorrectedDisk ==
  ASSUME NEW t, NEW n, NEW c, Alignment(t, n, c), NEW i \in Corrected(t)
  PROVE  LET left == Left(t.check, n, c)
             d(v) == t.cPosition[v] - t.cPosition[v + 1]
         IN  /\ i \in 0 .. n - 1 /\ t.kError[i] = left[i] - 1
             /\ i > 0 /\ i < n - 1 /\ left[i] \in 2 .. c /\ c - left[i] <= i - 1
             /\ \A v \in 0 .. i - 1 : left[i] * d(v) < t.cPosition[v]
             /\ t.cPosition[i] < left[i] * d(i)
<1> DEFINE pos == t.cPosition
           d(v) == pos[v] - pos[v + 1]
           left == Left(t.check, n, c)
<1>1. /\ n \in Nat \ {0} /\ c \in Nat /\ c \in 1 .. n /\ DOMAIN t.disks = 0 .. n - 1
      /\ Tapered(pos, n, c) /\ t.check = Checks(pos, n)
  BY DEF Alignment
<1>2. i \in 0 .. n - 1 /\ t.kError[i] > 0
  BY <1>1 DEF Corrected
<1>3. left[i] \in Nat /\ t.kError[i] = (IF pos[i] < left[i] * d(i) THEN left[i] - 1 ELSE -1)
  BY <1>2, AlignedDisk
<1> HIDE DEF d
<1>4. pos[i] < left[i] * d(i) /\ t.kError[i] = left[i] - 1 /\ left[i] > 1
  BY <1>2, <1>3
<1>5. left = Left(Checks(pos, n), n, c)
  BY <1>1
<1> HIDE DEF left, pos
<1>6. /\ i > 0 /\ i < n - 1 /\ left[i] \in 2 .. c /\ c - left[i] <= i - 1
      /\ \A v \in 0 .. i - 1 : left[i] * (pos[v] - pos[v + 1]) < pos[v]
  BY <1>1, <1>2, <1>4, <1>5, CorrectedIs DEF d
<1> QED
  BY <1>2, <1>4, <1>6 DEF d, pos, left

\* Unless it is the second, it reads disks of the list, and divides by an r that is not 0.
LEMMA CorrectedReads ==
  ASSUME NEW t, NEW n, NEW c, Alignment(t, n, c), NEW i \in Corrected(t), i # 1
  PROVE  /\ i + 1 \in DOMAIN t.disks
         /\ ~ReadsBefore(t.kError[i] + 1, c, 0, i - 1, 0)
         /\ R(t.check, t.kError[i] + 1, c, 0, i - 1, 0)[1] > 0
<1> DEFINE pos == t.cPosition
           d(v) == pos[v] - pos[v + 1]
           check == t.check
           left == Left(check, n, c)
           o == left[i]
           j == i - 1
           w == j - 1
<1>1. /\ n \in Nat \ {0} /\ c \in Nat /\ DOMAIN t.disks = 0 .. n - 1
  BY DEF Alignment
<1>2. ASSUME NEW v \in 0 .. n - 1
      PROVE  pos[v] \in Nat \ {0} /\ d(v) \in Nat \ {0} /\ check[v] = Ratio(d(v), pos[v])
  BY AlignedDisk
<1>3. /\ i \in 0 .. n - 1 /\ t.kError[i] = o - 1 /\ i > 0 /\ i < n - 1
      /\ o \in 2 .. c /\ c - o <= i - 1 /\ \A v \in 0 .. i - 1 : o * d(v) < pos[v]
  BY CorrectedDisk
<1> HIDE DEF o, d, pos, check
<1>4. /\ i \in 0 .. n - 1 /\ i + 1 \in 0 .. n - 1 /\ o \in Nat \ {0} /\ o <= c
      /\ t.kError[i] + 1 = o
      /\ j \in Nat /\ j # 0 /\ c - o <= j /\ w \in 0 .. j - 1 /\ j \in 0 .. n - 1
  BY <1>1, <1>3
<1>5. ASSUME NEW v \in 0 .. j
      PROVE  /\ check[v] \in Fractions /\ check[v][1] > 0
             /\ Less(Scaled(o, check[v]), One) /\ ~Less(One, Scaled(o, check[v]))
  <2> DEFINE x == d(v)
             y == pos[v]
  <2>1. v \in 0 .. n - 1
    BY <1>1, <1>4
  <2>2. x \in Nat \ {0} /\ y \in Nat \ {0} /\ check[v] = Ratio(x, y)
    BY <1>2, <2>1
  <2>3. o * x < y
    BY <1>3
  <2> HIDE DEF x, y
  <2>4. Ratio(x, y) \in Fractions /\ Ratio(x, y)[1] > 0
    BY <2>2, RatioFraction
  <2>5. /\ Less(Scaled(o, Ratio(x, y)), One) <=> o * x < y
        /\ Less(One, Scaled(o, Ratio(x, y))) <=> y < o * x
    BY <1>4, <2>2, ScaledIs
  <2>6. ~(y < o * x)
    <3> DEFINE u == o * x
    <3>1. u \in Int /\ u < y
      BY <1>4, <2>2, <2>3
    <3> HIDE DEF u
    <3>2. ~(y < u)
      BY <2>2, <3>1
    <3> QED
      BY <3>2 DEF u
  <2> QED
    BY <2>2, <2>3, <2>4, <2>5, <2>6
<1>6. PositiveChances(check, j) /\ \A v \in 0 .. j - 1 : Less(Scaled(o, check[v]), One)
  <2>1. \A v \in 0 .. j - 1 : v \in 0 .. j
    BY <1>4
  <2> QED
    BY <1>5, <2>1 DEF PositiveChances
<1>7. ~Less(One, Scaled(o, check[w]))
  <2>1. w \in 0 .. j
    BY <1>4
  <2> HIDE DEF w
  <2> QED
    BY <1>5, <2>1
<1> HIDE DEF j
<1>8. ~(o > c \/ 0 > j \/ 0 > j - c + o - 0) /\ ~(j = 0)
  BY <1>1, <1>4
<1>9. RInner(check, o, c, 0, j, 0)[1] > 0
  BY <1>1, <1>4, <1>6, RInnerIs
<1>10. R(check, o, c, 0, j, 0) = RInner(check, o, c, 0, j, 0)
  BY <1>7, <1>8 DEF R, w
<1>11. ~ReadsBefore(o, c, 0, j, 0)
  BY <1>8 DEF ReadsBefore
<1> QED
  BY <1>1, <1>4, <1>9, <1>10, <1>11 DEF j, check

(* setDisks reads no disk outside of the list and divides by no r of 0,    *)
(* unless the second disk is corrected.                                    *)
LEMMA CorrectionsFail ==
  ASSUME NEW t, NEW n, NEW c, Alignment(t, n, c), ReadsOutside(t, c) \/ DividesByZero(t, c)
  PROVE  1 \in Corrected(t) /\ t.kError[1] + 1 <= c
<1>1. ASSUME NEW i \in Corrected(t), i # 1
      PROVE  /\ i + 1 \in DOMAIN t.disks
             /\ ~ReadsBefore(t.kError[i] + 1, c, 0, i - 1, 0)
             /\ R(t.check, t.kError[i] + 1, c, 0, i - 1, 0) # Zero
  BY <1>1, CorrectedReads DEF Zero
<1>2. 1 \in Corrected(t)
  <2>1. CASE ReadsOutside(t, c)
    BY <1>1, <2>1 DEF ReadsOutside
  <2>2. CASE DividesByZero(t, c)
    BY <1>1, <2>2 DEF DividesByZero
  <2> QED
    BY <2>1, <2>2
<1>3. t.kError[1] + 1 <= c
  <2> DEFINE x == Left(t.check, n, c)[1]
  <2>1. t.kError[1] = x - 1 /\ x \in 2 .. c
    BY <1>2, CorrectedDisk
  <2>2. c \in Nat
    BY DEF Alignment
  <2> HIDE DEF x
  <2> QED
    BY <2>1, <2>2
<1> QED
  BY <1>2, <1>3

\* The corrections setDisks fails in
FailsKnown(l, c, revert) ==
  SecondIsCorrected(l, c, revert) \/ CorrectionsCollide(l, c, revert)

--------------------------------------------------------------------------------
(* FastRedundantShare: the areas of a share are those of a whole.          *)

\* The factors of Areas
IsFactors(h, check, first, last, k) ==
  h = [i \in first .. last |->
         IF i = first THEN One ELSE Times(h[i - 1], Minus(One, Scaled(k, check[i - 1])))]

\* The chances of the disks, and those that areas make up for them
Chances(check, first, last, k) ==
  /\ first \in Nat /\ last \in Nat /\ first <= last
  /\ \A i \in first .. last : Scaled(k, check[i]) \in Fractions
  /\ \A i \in first .. last - 1 : AtMost(Scaled(k, check[i]), One)
  /\ AtMost(One, Scaled(k, check[last]))

\* The factors exist: they do not depend on those behind.
LEMMA FactorsExist ==
  ASSUME NEW check, NEW first, NEW last, NEW k, Chances(check, first, last, k)
  PROVE  \E h : IsFactors(h, check, first, last, k)
<1> DEFINE N == last - first
           q(i) == Minus(One, Scaled(k, check[first + i]))
           S == Fractions
           G == [i \in 0 .. N - 1 |-> [y \in S |-> Times(y, q(i))]]
<1>1. /\ first \in Nat /\ last \in Nat /\ N \in Nat /\ last = first + N /\ One \in S
      /\ \A i \in 0 .. N - 1 : first + i \in first .. last - 1 /\ first + i \in first .. last
  BY DEF Chances, One, Fractions
<1>2. ASSUME NEW i \in 0 .. N - 1 PROVE q(i) \in S
  <2> DEFINE p == Scaled(k, check[first + i])
             a == p[1]
             b == p[2]
  <2>1. p \in Fractions /\ AtMost(p, One)
    BY <1>1 DEF Chances
  <2> HIDE DEF p
  <2>2. a \in Nat /\ b \in Nat \ {0} /\ ~(1 * b < a * 1)
    BY <2>1 DEF Fractions, AtMost, Less, One
  <2>3. b - a \in Nat /\ b - (b - a) = a
    BY <2>2
  <2>4. IsFraction(p, b - (b - a), b)
    BY <2>3 DEF IsFraction
  <2> HIDE DEF a, b
  <2>5. Minus(One, p) \in Fractions
    BY <2>1, <2>2, <2>3, <2>4, RestValue
  <2> QED
    BY <2>5 DEF p
<1>3. G \in [0 .. N - 1 -> [S -> S]]
  <2>1. ASSUME NEW i \in 0 .. N - 1, NEW y \in S PROVE Times(y, q(i)) \in S
    BY <1>2, TimesIs
  <2> HIDE DEF S, q
  <2> QED
    BY <2>1
<1>4. PICK f \in [0 .. N -> S] : f[0] = One /\ \A i \in 0 .. N - 1 : f[i + 1] = G[i][f[i]]
  <2> HIDE DEF S, G, N
  <2>1. UpSequences(N, S, One, G) # {}
    BY <1>1, <1>3, UpSequence
  <2> QED
    BY <2>1 DEF UpSequences
<1> DEFINE h == [i \in first .. last |-> f[i - first]]
<1>5. ASSUME NEW i \in first .. last
      PROVE  h[i] = IF i = first THEN One
                    ELSE Times(h[i - 1], Minus(One, Scaled(k, check[i - 1])))
  <2>1. CASE i = first
    BY <1>1, <1>4, <2>1
  <2>2. CASE i # first
    <3> DEFINE j == (i - 1) - first
    <3>1. j \in 0 .. N - 1 /\ j \in 0 .. N /\ i - first = j + 1 /\ first + j = i - 1
          /\ i - 1 \in first .. last
      BY <1>1, <2>2
    <3>2. h[i] = f[j + 1] /\ h[i - 1] = f[j]
      BY <3>1
    <3> HIDE DEF j, h
    <3>3. f[j + 1] = Times(f[j], q(j))
      <4>1. f[j] \in S
        BY <1>4, <3>1
      <4>2. G[j][f[j]] = Times(f[j], q(j))
        BY <3>1, <4>1
      <4> QED
        BY <1>4, <3>1, <4>2
    <3> QED
      BY <2>2, <3>1, <3>2, <3>3
  <2> QED
    BY <2>1, <2>2
<1>6. h = [i \in first .. last |->
             IF i = first THEN One ELSE Times(h[i - 1], Minus(One, Scaled(k, check[i - 1])))]
  <2>1. DOMAIN h = first .. last /\ h = [i \in first .. last |-> h[i]]
    OBVIOUS
  <2> HIDE DEF h
  <2> QED
    BY <1>5, <2>1
<1> QED
  BY <1>6 DEF IsFactors

\* What they are
LEMMA AreasDef ==
  ASSUME NEW check, NEW first, NEW last, NEW k
  PROVE  LET g == CHOOSE h : IsFactors(h, check, first, last, k)
             area(i) == Times(g[i], Scaled(k, check[i]))
             rest == Minus(One, SumOver([i \in first .. last - 1 |-> area(i)]))
         IN  Areas(check, first, last, k)
               = [i \in first .. last |-> IF i < last THEN area(i) ELSE Least(rest, area(last))]
BY DEF Areas, IsFactors

\* Areas that are fractions, and together one
AreasAdd(areas) ==
  /\ \A d \in DOMAIN areas : areas[d] \in Fractions
  /\ SumOver(areas) = One

\* Each is a disk's chance to be the first to take a copy; the last gets what the others leave.
AreasAre(areas, h, check, first, last, k) ==
  /\ IsFactors(h, check, first, last, k) /\ DOMAIN areas = first .. last
  /\ \A i \in first .. last - 1 : areas[i] = Times(h[i], Scaled(k, check[i]))
  /\ areas[last] \in Fractions /\ h[last] \in Fractions
  /\ IsFraction(areas[last], h[last][1], h[last][2])

\* They are, where the last of the chances is 1 or more: the last disk gets the rest.
LEMMA AreasAddUp ==
  ASSUME NEW check, NEW first, NEW last, NEW k, Chances(check, first, last, k)
  PROVE  LET areas == Areas(check, first, last, k)
         IN  AreasAdd(areas) /\ \E h : AreasAre(areas, h, check, first, last, k)
<1> DEFINE g == CHOOSE h : IsFactors(h, check, first, last, k)
           x == [i \in first .. last |-> Scaled(k, check[i])]
           area(i) == Times(g[i], x[i])
           D == first .. last - 1
           inner == [i \in D |-> area(i)]
           rest == Minus(One, SumOver(inner))
           tail == Least(rest, area(last))
           areas == [i \in first .. last |-> IF i < last THEN area(i) ELSE tail]
<1>1. /\ first \in Nat /\ last \in Nat /\ first <= last
      /\ \A i \in first .. last : x[i] \in Fractions
      /\ \A i \in first .. last - 1 : AtMost(x[i], One)
      /\ AtMost(One, x[last])
      /\ first \in first .. last /\ last \in first .. last
      /\ \A i \in first .. last - 1 : i \in first .. last /\ i < last /\ i + 1 \in first .. last
                                      /\ i + 1 # first /\ (i + 1) - 1 = i
  BY DEF Chances
<1>2. IsFactors(g, check, first, last, k)
  <2>1. \E h : IsFactors(h, check, first, last, k)
    BY FactorsExist
  <2> QED
    BY <2>1
<1>3. Areas(check, first, last, k) = areas
  <2> DEFINE u(i) == Times(g[i], Scaled(k, check[i]))
             r == Minus(One, SumOver([i \in D |-> u(i)]))
  <2>1. Areas(check, first, last, k)
          = [i \in first .. last |-> IF i < last THEN u(i) ELSE Least(r, u(last))]
    BY AreasDef
  <2>2. \A i \in first .. last : u(i) = area(i)
    OBVIOUS
  <2> HIDE DEF u, area
  <2>3. [i \in D |-> u(i)] = [i \in D |-> area(i)] /\ u(last) = area(last)
    BY <1>1, <2>2
  <2>4. r = rest
    BY <2>3
  <2> HIDE DEF r, rest
  <2> QED
    BY <1>1, <2>1, <2>2, <2>3, <2>4
<1> HIDE DEF g
<1>4. /\ g[first] = One
      /\ \A i \in first .. last - 1 : g[i + 1] = Times(g[i], Minus(One, x[i]))
  BY <1>1, <1>2 DEF IsFactors
<1> HIDE DEF x
<1>5. PICK F, d : Telescopes(g, x, first, last, F, d)
  BY <1>1, <1>4, FactorsTelescope
<1>6. /\ d \in Nat \ {0} /\ F[first] = d
      /\ \A i \in first .. last :
           F[i] \in Nat /\ g[i] \in Fractions /\ IsFraction(g[i], F[i], d)
      /\ \A i \in D : IsFraction(area(i), F[i] - F[i + 1], d)
  BY <1>5 DEF Telescopes
<1>7. \A i \in first .. last : area(i) \in Fractions
  BY <1>1, <1>6, TimesIs
<1> HIDE DEF area
<1> DEFINE N == [i \in first .. last |-> IF i < last THEN F[i] - F[i + 1] ELSE F[last]]
           n == F[last]
           sum == SumFunctionOnSet(N, D)
<1>8. /\ \A i \in D : N[i] = F[i] - F[i + 1] /\ N[i] \in Int
      /\ N[last] = n /\ n \in Nat
  <2>1. ASSUME NEW i \in D PROVE N[i] = F[i] - F[i + 1] /\ N[i] \in Int
    <3>1. F[i] \in Nat /\ F[i + 1] \in Nat /\ N[i] = F[i] - F[i + 1]
      BY <1>1, <1>6
    <3> QED
      BY <3>1
  <2> QED
    BY <1>1, <1>6, <2>1
<1> HIDE DEF N
<1>9. sum = d - n
  <2>1. \A i \in first .. last : F[i] \in Int
    BY <1>6
  <2>2. \A i \in first .. last - 1 : N[i] = F[i] - F[i + 1]
    BY <1>8
  <2>3. SumFunctionOnSet(N, first .. last - 1) = F[first] - F[last]
    BY <1>1, <2>1, <2>2, SumOfDrops
  <2> QED
    BY <1>6, <2>3
<1>10. IsFiniteSet(D) /\ IsFiniteSet(first .. last)
  BY <1>1, FS_Interval
<1>11. SumOver(inner) \in Fractions /\ IsFraction(SumOver(inner), d - n, d)
  <2>1. DOMAIN inner = D /\ \A i \in D : inner[i] = area(i)
    OBVIOUS
  <2>2. \A i \in D : inner[i] \in Fractions /\ N[i] \in Int /\ IsFraction(inner[i], N[i], d)
    BY <1>1, <1>6, <1>7, <1>8, <2>1
  <2> HIDE DEF inner, D
  <2>3. SumOver(inner) \in Fractions
    BY <1>10, <2>1, <2>2, FractionSum
  <2>4. IsFraction(SumOver(inner), SumFunctionOnSet(N, D), d)
    BY <1>6, <1>10, <2>1, <2>2, FractionSumValue
  <2> QED
    BY <1>9, <2>3, <2>4
<1> HIDE DEF inner
<1>12. rest \in Fractions /\ IsFraction(rest, n, d)
  BY <1>6, <1>8, <1>11, RestValue
<1> HIDE DEF rest
<1>13. n * area(last)[2] <= area(last)[1] * d
  <2> DEFINE p == g[last]
             q == x[last]
  <2>1. p \in Fractions /\ q \in Fractions /\ IsFraction(p, n, d) /\ area(last) = Times(p, q)
    BY <1>1, <1>6 DEF area
  <2>2. q[2] <= q[1]
    <3>1. q[1] \in Nat /\ q[2] \in Nat /\ ~(q[1] * 1 < 1 * q[2])
      BY <1>1 DEF Fractions, AtMost, Less, One
    <3> QED
      BY <3>1
  <2> HIDE DEF p, q
  <2> QED
    BY <1>6, <1>8, <2>1, <2>2, ProductAtLeast
<1>14. tail \in Fractions /\ IsFraction(tail, n, d)
  BY <1>1, <1>6, <1>7, <1>8, <1>12, <1>13, LeastValue
<1> HIDE DEF tail
<1>15. /\ DOMAIN areas = first .. last
       /\ \A i \in first .. last : /\ areas[i] \in Fractions /\ N[i] \in Int
                                   /\ IsFraction(areas[i], N[i], d)
  <2>1. ASSUME NEW i \in first .. last
        PROVE  areas[i] \in Fractions /\ N[i] \in Int /\ IsFraction(areas[i], N[i], d)
    <3>1. CASE i < last
      <4>1. i \in D
        BY <1>1, <3>1
      <4> QED
        BY <1>6, <1>7, <1>8, <3>1, <4>1
    <3>2. CASE ~(i < last)
      <4>1. i = last
        BY <1>1, <3>2
      <4> QED
        BY <1>1, <1>8, <1>14, <4>1
    <3> QED
      BY <3>1, <3>2
  <2> QED
    BY <2>1
<1>16. SumFunctionOnSet(N, first .. last) = d
  <2> DEFINE E == first .. last
  <2>1. IsFiniteSet(E) /\ last \in E /\ E \ {last} = D /\ \A i \in E : N[i] \in Int
    BY <1>1, <1>10, <1>15
  <2> HIDE DEF E, D
  <2>2. SumFunctionOnSet(N, E) = N[last] + sum
    BY <2>1, SumIs
  <2>3. n + (d - n) = d
    BY <1>6, <1>8
  <2> QED
    BY <1>8, <1>9, <2>2, <2>3 DEF E
<1>18. AreasAre(areas, g, check, first, last, k)
  <2> DEFINE a == tail[1]
             b == tail[2]
             y == g[last][1]
             z == g[last][2]
  <2>1. /\ a \in Int /\ b \in Nat \ {0} /\ a * d = n * b
        /\ y \in Int /\ z \in Nat \ {0} /\ n * z = y * d /\ n \in Int /\ d \in Nat \ {0}
    <3>1. g[last] \in Fractions /\ IsFraction(g[last], n, d)
      BY <1>1, <1>6
    <3> QED
      BY <1>6, <1>8, <1>14, <3>1 DEF Fractions, IsFraction
  <2> HIDE DEF a, b, y, z, n
  <2>2. a * z = y * b
    BY <2>1, EqualValues
  <2>3. IsFraction(tail, g[last][1], g[last][2])
    BY <2>2 DEF IsFraction, a, b, y, z
  <2>4. /\ areas[last] = tail /\ g[last] \in Fractions
        /\ \A i \in first .. last - 1 : areas[i] = area(i)
    BY <1>1, <1>6
  <2>5. \A i \in first .. last - 1 : area(i) = Times(g[i], Scaled(k, check[i]))
    BY <1>1 DEF area, x
  <2> QED
    BY <1>2, <1>14, <1>15, <2>3, <2>4, <2>5 DEF AreasAre
<1> HIDE DEF areas
<1>17. SumOver(areas) = One
  <2>1. first .. last # {}
    BY <1>1
  <2> QED
    BY <1>6, <1>10, <1>15, <1>16, <2>1, FractionSumValue
<1>19. AreasAdd(areas)
  BY <1>15, <1>17 DEF AreasAdd
<1> QED
  BY <1>3, <1>18, <1>19

\* Before the last disk for l copies a chance is below 1, and there it is 1 or more.
LEMMA ChancesAre ==
  ASSUME NEW a, NEW n, NEW c, Alignment(a, n, c), NEW l \in 1 .. c, NEW first \in Nat,
         first <= LastDisk(a.check, n, c)[l - 1]
  PROVE  Chances(a.check, first, LastDisk(a.check, n, c)[l - 1], l)
<1> DEFINE pos == a.cPosition
           d(i) == pos[i] - pos[i + 1]
           left == Left(a.check, n, c)
           last == LastDisk(a.check, n, c)[l - 1]
<1>1. /\ n \in Nat \ {0} /\ c \in 1 .. n /\ Tapered(pos, n, c) /\ a.check = Checks(pos, n)
      /\ Dropping(left, n, c) /\ l - 1 \in 0 .. c - 1
  BY DEF Alignment
<1>2. /\ last \in DropsAt(left, n, l - 1)
      /\ \A i \in DropsAt(left, n, l - 1) : last <= i
  BY <1>1, LastDiskDrops
<1> HIDE DEF last
<1>3. last \in 0 .. n - 1 /\ left[last] = l /\ left[last + 1] = l - 1 /\ first <= last
  BY <1>2 DEF DropsAt, last
<1>4. ASSUME NEW i \in 0 .. n - 1
      PROVE  /\ a.check[i] = Ratio(d(i), pos[i])
             /\ d(i) \in Nat /\ d(i) \in Int /\ pos[i] \in Nat \ {0}
             /\ left[i] \in Nat /\ (left[i] - 1) * d(i) < pos[i]
             /\ left[i + 1] = IF left[i] * d(i) < pos[i] THEN left[i] ELSE left[i] - 1
  <2>1. pos[i] \in Nat /\ pos[i + 1] \in Nat /\ pos[i] > pos[i + 1]
    <3> HIDE DEF pos, left
    <3>1. pos \in [0 .. n -> Nat] /\ pos[i] > pos[i + 1]
      BY <1>1 DEF Tapered
    <3>2. i \in 0 .. n /\ i + 1 \in 0 .. n
      BY <1>1
    <3> QED
      BY <3>1, <3>2
  <2>2. a.check[i] = Ratio(d(i), pos[i])
    BY <1>1 DEF Checks
  <2>3. left[i] \in Nat
    BY <1>1 DEF Dropping
  <2>4. (left[i] - 1) * d(i) < pos[i]
    BY <1>1, ChanceOfOneLess
  <2>5. left[i + 1] = IF left[i] * d(i) < pos[i] THEN left[i] ELSE left[i] - 1
    <3>1. left = Left(Checks(pos, n), n, c)
      BY <1>1
    <3> HIDE DEF pos, left
    <3>2. left[i + 1] = IF left[i] * (pos[i] - pos[i + 1]) < pos[i] THEN left[i] ELSE left[i] - 1
      BY <1>1, <3>1, LeftAt
    <3> QED
      BY <3>2
  <2>6. d(i) \in Nat /\ d(i) \in Int /\ pos[i] \in Nat \ {0}
    BY <2>1
  <2> HIDE DEF d, left, pos
  <2> QED
    BY <2>2, <2>3, <2>4, <2>5, <2>6
<1>5. l \in Nat /\ l \in Int
  BY <1>1
<1>6. ASSUME NEW i \in 0 .. n - 1
      PROVE  /\ Scaled(l, a.check[i]) \in Fractions
             /\ Less(Scaled(l, a.check[i]), One) <=> l * d(i) < pos[i]
             /\ Less(One, Scaled(l, a.check[i])) <=> pos[i] < l * d(i)
  <2> DEFINE x == d(i)
             y == pos[i]
  <2>1. a.check[i] = Ratio(x, y) /\ x \in Nat /\ x \in Int /\ y \in Nat \ {0}
    BY <1>4
  <2> HIDE DEF x, y
  <2>2. Ratio(x, y) \in Fractions
    BY <2>1, RatioFraction
  <2>3. Scaled(l, Ratio(x, y)) \in Fractions
    BY <1>5, <2>2, ScaledFraction
  <2>4. /\ Less(Scaled(l, Ratio(x, y)), One) <=> l * x < y
        /\ Less(One, Scaled(l, Ratio(x, y))) <=> y < l * x
    BY <1>5, <2>1, ScaledIs
  <2> QED
    BY <2>1, <2>3, <2>4 DEF x, y
<1> HIDE DEF d, left, pos
<1>7. ASSUME NEW i \in 0 .. n - 1, i < last PROVE l * d(i) < pos[i]
  <2>1. i \in 0 .. n /\ last \in 0 .. n /\ i <= last
    BY <1>1, <1>3, <1>7
  <2>2. l <= left[i]
    BY <1>1, <1>3, <2>1, LeftFalls
  <2>3. CASE left[i] = l
    <3>1. SUFFICES ASSUME ~(l * d(i) < pos[i]) PROVE FALSE
      OBVIOUS
    <3>2. left[i + 1] = l - 1
      BY <1>4, <2>3, <3>1
    <3>3. i \in DropsAt(left, n, l - 1)
      BY <1>5, <2>3, <3>2 DEF DropsAt
    <3> QED
      BY <1>2, <1>3, <1>7, <3>3
  <2>4. CASE left[i] # l
    <3> DEFINE k == left[i] - 1
               x == d(i)
    <3>1. k \in Int /\ l <= k /\ x \in Nat /\ k * x < pos[i] /\ pos[i] \in Nat
      BY <1>4, <1>5, <2>2, <2>4
    <3> HIDE DEF k, x
    <3>2. x * l <= x * k
      BY <1>5, <3>1, ProductOrder
    <3> DEFINE u == l * x
               v == k * x
    <3>3. u \in Int /\ v \in Int /\ u <= v /\ v < pos[i]
      BY <1>5, <3>1, <3>2
    <3> HIDE DEF u, v
    <3>4. u < pos[i]
      BY <3>1, <3>3
    <3> QED
      BY <3>4 DEF u, x
  <2> QED
    BY <2>3, <2>4
<1>8. ~(l * d(last) < pos[last])
  BY <1>3, <1>4, <1>5
<1>9. ASSUME NEW i \in first .. last
      PROVE  /\ Scaled(l, a.check[i]) \in Fractions
             /\ i < last => AtMost(Scaled(l, a.check[i]), One)
  <2>1. i \in 0 .. n - 1
    BY <1>1, <1>3
  <2>2. ASSUME i < last PROVE ~Less(One, Scaled(l, a.check[i]))
    <3> DEFINE u == l * d(i)
               v == pos[i]
    <3>1. u \in Int /\ v \in Int /\ u < v
      BY <1>4, <1>5, <1>7, <2>1, <2>2
    <3> HIDE DEF u, v
    <3>2. ~(v < u)
      BY <3>1
    <3> QED
      BY <1>6, <2>1, <3>2 DEF u, v
  <2> QED
    BY <1>6, <2>1, <2>2 DEF AtMost
<1>10. AtMost(One, Scaled(l, a.check[last]))
  BY <1>3, <1>6, <1>8 DEF AtMost
<1>11. \A i \in first .. last - 1 : i \in first .. last /\ i < last
  BY <1>3
<1> QED
  BY <1>3, <1>9, <1>10, <1>11 DEF Chances, last

\* All areas setDisks makes
LEMMA SharesAdd ==
  ASSUME NEW a, NEW n, NEW c, Alignment(a, n, c)
  PROVE  \A l \in DOMAIN Shares(a, c) : \A i \in DOMAIN Shares(a, c)[l] :
           AreasAdd(Shares(a, c)[l][i])
<1> DEFINE last == LastDisk(a.check, n, c)
           first(l) == IF l = c THEN {0} ELSE c - l .. last[l - 1]
<1>1. /\ n \in Nat \ {0} /\ c \in 1 .. n /\ DOMAIN a.disks = 0 .. n - 1
      /\ Dropping(Left(a.check, n, c), n, c)
  BY DEF Alignment
<1>2. Cardinality(DOMAIN a.disks) = n
  <2>1. Cardinality(0 .. n - 1) = n
    BY <1>1, FS_Interval
  <2> QED
    BY <1>1, <2>1
<1>3. last \in [0 .. c - 1 -> 0 .. n - 1]
  BY <1>1, LastDiskIs
<1>4. Shares(a, c) = [l \in 1 .. c |-> [i \in first(l) |-> Areas(a.check, i, last[l - 1], l)]]
  BY <1>2 DEF Shares
<1>5. ASSUME NEW l \in 1 .. c, NEW i \in first(l)
      PROVE  i \in Nat /\ i <= last[l - 1]
  <2> DEFINE e == last[l - 1]
  <2>1. e \in 0 .. n - 1 /\ c \in Nat
    BY <1>1, <1>3
  <2> HIDE DEF e
  <2>2. i = 0 \/ i \in c - l .. e
    BY DEF e
  <2>3. i \in Nat /\ i <= e
    BY <2>1, <2>2
  <2> QED
    BY <2>3 DEF e
<1>6. ASSUME NEW l \in 1 .. c, NEW i \in first(l)
      PROVE  AreasAdd(Areas(a.check, i, last[l - 1], l))
  <2>1. Chances(a.check, i, last[l - 1], l)
    BY <1>5, ChancesAre
  <2> QED
    BY <2>1, AreasAddUp, Zenon
<1> HIDE DEF first, last
<1> QED
  BY <1>4, <1>6

--------------------------------------------------------------------------------
(* What P, R and checkCStar are, in numbers of the walk.                   *)

\* The value of one factor of P
LEMMA FactorValue ==
  ASSUME NEW check, NEW l \in Nat, NEW v, check[v] \in Fractions, NEW d \in Nat,
         NEW q \in Nat \ {0}, IsFraction(check[v], d, q),
         NEW x \in Fractions, NEW n \in Nat, NEW D \in Nat \ {0}, IsFraction(x, n, D)
  PROVE  /\ Factor(check, l, v, x) \in Fractions
         /\ IsFraction(Factor(check, l, v, x), RestOf(l, d, q) * n, q * D)
<1> DEFINE f == Minus(One, Scaled(l, check[v]))
           r == IF f[1] < 0 THEN Zero ELSE f
           y == RestOf(l, d, q)
<1>1. r \in Fractions /\ IsFraction(r, y, q)
  BY RestOfChance
<1>2. Factor(check, l, v, x) = IF f[1] < 0 THEN Zero ELSE Times(f, x)
  BY DEF Factor
<1>3. y \in Nat
  BY PartIs
<1> HIDE DEF f, y
<1>4. CASE f[1] < 0
  <2>1. IsFraction(Zero, y, q) /\ Zero \in Fractions
    BY <1>1, <1>4
  <2>2. y = 0
    <3>1. 0 * q = y * 1
      BY <2>1 DEF IsFraction, Zero
    <3> QED
      BY <1>3, <3>1
  <2>3. y * n = 0
    BY <2>2
  <2>4. 0 * (q * D) = (y * n) * 1
    BY <2>3
  <2>5. IsFraction(Zero, y * n, q * D)
    BY <2>4 DEF IsFraction, Zero
  <2> QED
    BY <1>2, <1>4, <2>1, <2>5 DEF y
<1>5. CASE ~(f[1] < 0)
  <2>1. f \in Fractions /\ IsFraction(f, y, q)
    BY <1>1, <1>5
  <2>2. Times(f, x) \in Fractions /\ IsFraction(Times(f, x), y * n, q * D)
    BY <1>3, <2>1, TimesValue
  <2> QED
    BY <1>2, <1>5, <2>2 DEF y
<1> QED
  BY <1>4, <1>5

\* The disks' chances are d[v] of pos[v].
ChancesOf(check, d, pos, E) ==
  \A v \in 0 .. E - 1 : /\ check[v] \in Fractions /\ d[v] \in Nat /\ pos[v] \in Nat \ {0}
                        /\ IsFraction(check[v], d[v], pos[v])

\* The value of P: those that pass the disks from a to b - 1
LEMMA PValue ==
  ASSUME NEW check, NEW d, NEW pos, NEW E \in Nat, ChancesOf(check, d, pos, E), NEW l \in Nat,
         NEW y, \A v \in 0 .. E - 1 : y[v] = RestOf(l, d[v], pos[v]),
         NEW Z, Spans(Z, y, E), NEW B, Products(B, pos, E), NEW a \in 0 .. E, NEW b \in a .. E
  PROVE  /\ P(check, a, b, l) \in Fractions
         /\ IsFraction(P(check, a, b, l), Z[a][b] * B[a], B[b])
<1> DEFINE product == CHOOSE g : IsProduct(g, check, a, b, l)
           Good == {k \in Nat : k <= b - a =>
                      /\ product[b - k] \in Fractions
                      /\ IsFraction(product[b - k], Z[b - k][b] * B[b - k], B[b])}
<1>1. P(check, a, b, l) = IF a > b THEN Zero
          ELSE IF a = b THEN One
          ELSE IF Less(One, Scaled(l, check[b - 1])) THEN Zero ELSE product[a]
  BY DEF P, IsProduct
<1>2. a \in Nat /\ b \in Nat /\ a <= b /\ b <= E
  OBVIOUS
<1>3. IsProduct(product, check, a, b, l)
  <2>1. \A v \in a .. b - 1 : check[v] \in Fractions
    BY <1>2 DEF ChancesOf
  <2> QED
    BY <1>2, <2>1, ProductExists
<1> HIDE DEF product
<1>4. product = [v \in a .. b |-> IF v = b THEN One ELSE Factor(check, l, v, product[v + 1])]
  BY <1>3, Zenon DEF IsProduct, Factor
<1>5. Z[b][b] = 1 /\ B[b] \in Nat \ {0} /\ b \in 0 .. E
  BY <1>2 DEF Spans, Products
<1>6. One \in Fractions /\ IsFraction(One, Z[b][b] * B[b], B[b])
  <2>1. 1 * B[b] = (Z[b][b] * B[b]) * 1
    BY <1>5
  <2> QED
    BY <2>1 DEF IsFraction, One, Fractions
<1>7. 0 \in Good
  <2>1. b \in a .. b /\ b - 0 = b
    BY <1>2
  <2>2. product[b] = One
    BY <1>4, <2>1
  <2> QED
    BY <1>6, <2>1, <2>2
<1>8. ASSUME NEW k \in Good PROVE k + 1 \in Good
  <2> SUFFICES ASSUME k + 1 <= b - a
               PROVE  /\ product[b - (k + 1)] \in Fractions
                      /\ IsFraction(product[b - (k + 1)],
                                    Z[b - (k + 1)][b] * B[b - (k + 1)], B[b])
    OBVIOUS
  <2> DEFINE v == b - (k + 1)
             x == product[v + 1]
             n == Z[v + 1][b] * B[v + 1]
             q == pos[v]
             w == y[v]
  <2>1. /\ k \in Nat /\ v \in 0 .. E - 1 /\ v \in a .. b /\ v # b
        /\ v + 1 = b - k /\ v + 1 \in 0 .. E
        /\ b \in v + 1 .. E
    BY <1>2
  <2>2. x \in Fractions /\ IsFraction(x, n, B[b])
    BY <2>1
  <2>3. product[v] = Factor(check, l, v, x)
    BY <1>4, <2>1
  <2>4. /\ check[v] \in Fractions /\ d[v] \in Nat /\ q \in Nat \ {0}
        /\ IsFraction(check[v], d[v], q) /\ w = RestOf(l, d[v], q)
    BY <2>1 DEF ChancesOf
  <2>5. Z[v + 1][b] \in Nat /\ B[v + 1] \in Nat \ {0} /\ B[v] \in Nat \ {0} /\ w \in Nat
        /\ Z[v][b] = w * Z[v + 1][b] /\ B[v + 1] = B[v] * q
    <3>1. Z[v + 1][b] \in Nat /\ Z[v][b] = w * Z[v + 1][b]
      BY <2>1 DEF Spans
    <3>2. B[v + 1] \in Nat \ {0} /\ B[v] \in Nat \ {0} /\ B[v + 1] = B[v] * q
      BY <2>1 DEF Products
    <3>3. w \in Nat
      <4> DEFINE e == d[v]
      <4>1. e \in Nat /\ q \in Nat \ {0} /\ w = RestOf(l, e, q)
        BY <2>4
      <4> HIDE DEF e, q, w
      <4> QED
        BY <4>1, PartIs
    <3> QED
      BY <3>1, <3>2, <3>3
  <2>6. n \in Nat
    BY <2>5
  <2>7. (w * n) * B[b] = (Z[v][b] * B[v]) * (q * B[b])
    <3> DEFINE s == Z[v + 1][b]
               t == B[v]
               e == B[b]
               r == B[v + 1]
    <3>1. s \in Nat /\ t \in Nat /\ e \in Nat /\ q \in Nat /\ w \in Nat /\ r = t * q
          /\ Z[v][b] = w * s /\ n = s * r
      BY <1>5, <2>4, <2>5
    <3> HIDE DEF s, t, e, q, w, r, n
    <3>2. (w * (s * (t * q))) * e = ((w * s) * t) * (q * e)
      BY <3>1
    <3> QED
      BY <3>1, <3>2 DEF t, e
  <2> DEFINE A == Z[v][b] * B[v]
             C == w * n
             D == q * B[b]
  <2>8. A \in Int /\ C \in Int /\ D \in Nat \ {0} /\ C * B[b] = A * D
    <3>1. Z[v][b] \in Nat
      BY <2>5
    <3>2. A \in Int
      BY <2>5, <3>1
    <3>3. C \in Int
      BY <2>5, <2>6
    <3>4. D \in Nat \ {0}
      BY <1>5, <2>4
    <3> QED
      BY <2>7, <3>2, <3>3, <3>4
  <2>9. product[v] \in Fractions /\ IsFraction(product[v], C, D)
    <3> HIDE DEF v, x, n, q
    <3> QED
      BY <1>5, <2>2, <2>3, <2>4, <2>6, FactorValue
  <2> HIDE DEF A, C, D, v
  <2>10. IsFraction(product[v], A, B[b])
    BY <1>5, <2>8, <2>9, ValueIs
  <2> QED
    BY <2>9, <2>10 DEF A, v
<1>9. Good = Nat
  <2>1. Good \in SUBSET Nat
    OBVIOUS
  <2> HIDE DEF Good
  <2> QED
    BY <1>7, <1>8, <2>1, InductionSet
<1>10. product[a] \in Fractions /\ IsFraction(product[a], Z[a][b] * B[a], B[b])
  <2>1. b - a \in Nat /\ b - (b - a) = a /\ b - a <= b - a
    BY <1>2
  <2>2. b - a \in Good
    BY <1>9, <2>1
  <2> QED
    BY <2>1, <2>2
<1>11. ASSUME a < b, Less(One, Scaled(l, check[b - 1]))
       PROVE  Zero \in Fractions /\ IsFraction(Zero, Z[a][b] * B[a], B[b])
  <2> DEFINE v == b - 1
  <2>1. v \in 0 .. E - 1 /\ v + 1 = b /\ v \in a .. E - 1 /\ v \in a .. E
    BY <1>2, <1>11
  <2>2. pos[v] < l * d[v] /\ y[v] = RestOf(l, d[v], pos[v]) /\ d[v] \in Nat /\ pos[v] \in Nat
    <3>1. /\ check[v] \in Fractions /\ d[v] \in Nat /\ pos[v] \in Nat \ {0}
          /\ IsFraction(check[v], d[v], pos[v]) /\ Less(One, Scaled(l, check[v]))
      BY <1>11, <2>1 DEF ChancesOf
    <3> HIDE DEF v
    <3> QED
      BY <2>1, <3>1, LeastOfChance
  <2>3. y[v] = 0
    <3> DEFINE s == l * d[v]
               t == pos[v]
    <3>1. s \in Nat /\ t \in Nat /\ t < s
      BY <2>2
    <3> HIDE DEF s, t
    <3>2. ~(s < t)
      BY <3>1
    <3> QED
      BY <2>2, <3>2 DEF RestOf, s, t
  <2>4. Z[a][b] = Z[a][v] * y[v] /\ Z[a][v] \in Nat
    BY <2>1 DEF Spans
  <2>5. Z[a][b] = 0
    BY <2>3, <2>4
  <2>6. B[a] \in Nat
    BY DEF Products
  <2>7. 0 * B[b] = (Z[a][b] * B[a]) * 1
    BY <1>5, <2>5, <2>6
  <2> QED
    BY <2>7 DEF IsFraction, Zero, Fractions
<1>12. CASE a = b
  BY <1>1, <1>2, <1>6, <1>12
<1>13. CASE a < b
  BY <1>1, <1>2, <1>10, <1>11, <1>13
<1> QED
  BY <1>2, <1>12, <1>13

\* What one disk's term contributes
LEMMA TermValue ==
  ASSUME NEW check, NEW d, NEW pos, NEW i \in Nat, ChancesOf(check, d, pos, i + 1), NEW m \in Nat,
         NEW y, \A v \in 0 .. i : y[v] = RestOf(m, d[v], pos[v]),
         NEW Z, Spans(Z, y, i + 1), NEW B, Products(B, pos, i + 1),
         NEW j \in 0 .. i, NEW v \in j .. i, NEW x \in Fractions, NEW w \in Nat,
         IsFraction(x, w * B[v + 1], B[i + 1])
  PROVE  LET f == Times(Times(check[v], P(check, j, v, m)), x)
         IN  /\ f \in Fractions /\ d[v] * Z[j][v] * w \in Nat
             /\ IsFraction(f, (d[v] * Z[j][v] * w) * B[j], B[i + 1])
<1> DEFINE q == pos[v]
           e == d[v]
           z == Z[j][v]
           p == P(check, j, v, m)
           bv == B[v]
           bj == B[j]
           bw == B[v + 1]
           bi == B[i + 1]
           f == Times(Times(check[v], p), x)
<1>1. /\ check[v] \in Fractions /\ e \in Nat /\ q \in Nat \ {0} /\ IsFraction(check[v], e, q)
      /\ v \in 0 .. i + 1 /\ j \in 0 .. i + 1 /\ v \in j .. i + 1 /\ i + 1 \in Nat
      /\ 0 .. (i + 1) - 1 = 0 .. i
  <2>1. v \in 0 .. (i + 1) - 1 /\ v \in 0 .. i + 1 /\ j \in 0 .. i + 1 /\ v \in j .. i + 1
        /\ i + 1 \in Nat /\ 0 .. (i + 1) - 1 = 0 .. i
    OBVIOUS
  <2> QED
    BY <2>1 DEF ChancesOf
<1>2. z \in Nat /\ bv \in Nat \ {0} /\ bj \in Nat \ {0} /\ bi \in Nat \ {0} /\ bw = bv * q
  <2>1. z \in Nat
    BY <1>1 DEF Spans
  <2>2. v + 1 \in 0 .. i + 1 /\ i + 1 \in 0 .. i + 1 /\ v \in 0 .. (i + 1) - 1
    OBVIOUS
  <2>3. bv \in Nat \ {0} /\ bj \in Nat \ {0} /\ bi \in Nat \ {0} /\ bw = bv * q
    BY <1>1, <2>2 DEF Products
  <2> QED
    BY <2>1, <2>3
<1>3. p \in Fractions /\ IsFraction(p, z * bj, bv)
  <2>1. \A w1 \in 0 .. (i + 1) - 1 : y[w1] = RestOf(m, d[w1], pos[w1])
    BY <1>1
  <2> QED
    BY <1>1, <2>1, PValue
<1>4. IsFraction(x, w * bw, bi)
  OBVIOUS
<1> HIDE DEF q, e, z, p, bv, bj, bw, bi
<1>5. z * bj \in Nat /\ w * bw \in Nat /\ q * bv \in Nat \ {0} /\ e * (z * bj) \in Nat
      /\ (q * bv) * bi \in Nat \ {0} /\ e * z * w \in Nat /\ (e * z * w) * bj \in Nat
  <2>1. z * bj \in Nat /\ q * bv \in Nat \ {0} /\ bw \in Nat
    BY <1>1, <1>2
  <2>2. w * bw \in Nat /\ e * (z * bj) \in Nat /\ (q * bv) * bi \in Nat \ {0}
    BY <1>1, <1>2, <2>1
  <2>3. e * z \in Nat
    BY <1>1, <1>2
  <2>4. e * z * w \in Nat
    BY <2>3
  <2>5. (e * z * w) * bj \in Nat
    BY <1>2, <2>4
  <2> QED
    BY <2>1, <2>2, <2>4, <2>5
<1>6. Times(check[v], p) \in Fractions /\ IsFraction(Times(check[v], p), e * (z * bj), q * bv)
  BY <1>1, <1>2, <1>3, <1>5, TimesValue
<1>7. f \in Fractions /\ IsFraction(f, (e * (z * bj)) * (w * bw), (q * bv) * bi)
  BY <1>2, <1>4, <1>5, <1>6, TimesValue
<1> HIDE DEF f
<1>8. ((e * (z * bj)) * (w * bw)) * bi = ((e * z * w) * bj) * ((q * bv) * bi)
  BY <1>1, <1>2
<1> DEFINE A == (e * (z * bj)) * (w * bw)
           C == (e * z * w) * bj
           D == (q * bv) * bi
<1>9. A \in Int /\ C \in Int /\ D \in Nat \ {0} /\ A * bi = C * D
  <2>1. A \in Int
    BY <1>5
  <2> QED
    BY <1>5, <1>8, <2>1
<1>10. IsFraction(f, A, D)
  BY <1>7
<1> HIDE DEF A, C, D
<1>11. IsFraction(f, C, bi)
  BY <1>2, <1>7, <1>9, <1>10, ValueIs
<1> QED
  BY <1>5, <1>7, <1>11 DEF C, f, e, z, bj, bi, p, q, bv, bw

\* Weights W of a row of values, and the numbers N of its terms
TermParts(N, Z, y, row, W, d, pos, B, m, i, j, e) ==
  /\ e \in Int /\ e <= i /\ Spans(Z, y, i + 1) /\ \A v \in 0 .. i : y[v] = RestOf(m, d[v], pos[v])
  /\ \A v \in j .. e : /\ row[v + 1] \in Fractions /\ W[v + 1] \in Nat
                       /\ IsFraction(row[v + 1], W[v + 1] * B[v + 1], B[i + 1])
  /\ \A v \in j .. e : N[v] = d[v] * Z[j][v] * W[v + 1]

\* The sum of the terms
LEMMA TermsValue ==
  ASSUME NEW check, NEW d, NEW pos, NEW i \in Nat, ChancesOf(check, d, pos, i + 1), NEW m \in Nat,
         NEW B, Products(B, pos, i + 1), NEW j \in 0 .. i, NEW e, NEW row, NEW W, NEW y, NEW Z,
         NEW N, TermParts(N, Z, y, row, W, d, pos, B, m, i, j, e)
  PROVE  LET f == [v \in j .. e |-> Times(Times(check[v], P(check, j, v, m)), row[v + 1])]
         IN  /\ SumOver(f) \in Fractions
             /\ IsFraction(SumOver(f), SumFunctionOnSet(N, j .. e) * B[j], B[i + 1])
<1> DEFINE term(v) == Times(Times(check[v], P(check, j, v, m)), row[v + 1])
           f == [v \in j .. e |-> term(v)]
           D == j .. e
           bj == B[j]
           bi == B[i + 1]
           M == [v \in D |-> bj * N[v]]
<1>a. /\ e \in Int /\ e <= i /\ Spans(Z, y, i + 1)
      /\ \A v \in 0 .. i : y[v] = RestOf(m, d[v], pos[v])
      /\ \A v \in j .. e : /\ row[v + 1] \in Fractions /\ W[v + 1] \in Nat
                           /\ IsFraction(row[v + 1], W[v + 1] * B[v + 1], B[i + 1])
      /\ \A v \in j .. e : N[v] = d[v] * Z[j][v] * W[v + 1]
  BY DEF TermParts
<1> USE <1>a
<1>1. IsFiniteSet(D)
  BY FS_Interval
<1>2. bj \in Nat \ {0} /\ bi \in Nat \ {0}
  <2>1. j \in 0 .. i + 1 /\ i + 1 \in 0 .. i + 1
    OBVIOUS
  <2> QED
    BY <2>1 DEF Products
<1>3. ASSUME NEW v \in D
      PROVE  term(v) \in Fractions /\ N[v] \in Nat /\ IsFraction(term(v), N[v] * bj, bi)
  <2>1. v \in j .. i
    OBVIOUS
  <2> DEFINE x == row[v + 1]
             w == W[v + 1]
  <2>2. x \in Fractions /\ w \in Nat /\ IsFraction(x, w * B[v + 1], B[i + 1])
    OBVIOUS
  <2>3. N[v] = d[v] * Z[j][v] * w
    OBVIOUS
  <2> HIDE DEF x, w
  <2>4. LET g == Times(Times(check[v], P(check, j, v, m)), x)
         IN  /\ g \in Fractions /\ d[v] * Z[j][v] * w \in Nat
             /\ IsFraction(g, (d[v] * Z[j][v] * w) * B[j], B[i + 1])
    BY <2>1, <2>2, TermValue
  <2> QED
    BY <2>3, <2>4 DEF x
<1> HIDE DEF term, bj, bi
<1>4. \A v \in D : M[v] \in Int /\ IsFraction(f[v], M[v], bi)
  <2> SUFFICES ASSUME NEW v \in D PROVE M[v] \in Int /\ IsFraction(f[v], M[v], bi)
    OBVIOUS
  <2> DEFINE a == N[v]
  <2>1. a \in Nat /\ IsFraction(term(v), a * bj, bi)
    BY <1>3
  <2>2. M[v] = bj * a /\ f[v] = term(v)
    OBVIOUS
  <2> HIDE DEF a, M, f
  <2>3. bj * a = a * bj /\ bj * a \in Int
    BY <1>2, <2>1
  <2> QED
    BY <2>1, <2>2, <2>3
<1>5. \A v \in D : f[v] \in Fractions
  BY <1>3
<1>6. SumOver(f) \in Fractions
  <2>1. DOMAIN f = D
    OBVIOUS
  <2> HIDE DEF f, D
  <2> QED
    BY <1>1, <1>5, <2>1, FractionSum
<1>7. IsFraction(SumOver(f), SumFunctionOnSet(M, D), bi)
  <2>1. DOMAIN f = D
    OBVIOUS
  <2> HIDE DEF f, D, M
  <2> QED
    BY <1>1, <1>2, <1>4, <1>5, <2>1, FractionSumValue
<1>8. SumFunctionOnSet(M, D) = bj * SumFunctionOnSet(N, D) /\ SumFunctionOnSet(N, D) \in Int
  <2>1. \A v \in D : N[v] \in Int /\ M[v] = bj * N[v]
    BY <1>3
  <2> HIDE DEF M, D
  <2>2. SumFunctionOnSet(M, D) = bj * SumFunctionOnSet(N, D)
    BY <1>1, <1>2, <2>1, SumScaled
  <2>3. SumFunctionOnSet(N, D) \in Int
    BY <1>1, <2>1, SumIs
  <2> QED
    BY <2>2, <2>3
<1> DEFINE S == SumFunctionOnSet(N, D)
           T == SumFunctionOnSet(M, D)
<1>9. T = bj * S /\ S \in Int
  BY <1>8
<1> HIDE DEF S, T
<1>10. T = S * bj
  BY <1>2, <1>9
<1> HIDE DEF f, D
<1>11. IsFraction(SumOver(f), S * bj, bi)
  BY <1>7, <1>10 DEF T
<1> QED
  BY <1>6, <1>11 DEF f, D, S, bj, bi, term

\* The parts that pass the disks before disk E
PartsOf(z, d, pos, E, c) ==
  \A j \in 0 .. E - 1 : \A m \in 1 .. c : z[j][m] = RestOf(m, d[j], pos[j])

\* What r_inner counts for those that come to its last disk
LastPart(o, d, pos, i, short) ==
  IF short = 0 THEN PartOf(o, d[i], pos[i])
  ELSE RestOf(o, d[i - 1], pos[i - 1]) * PartOf(o, d[i], pos[i])

\* r_inner's row for m copies has the values of J for m, up to disk E.
InnerSetting(check, d, pos, i, c, o, short, z, J, B, E) ==
  /\ i \in Nat /\ c \in Nat \ {0} /\ o \in 1 .. c /\ short \in {0, 1}
  /\ E \in Nat /\ E = i - short
  /\ ChancesOf(check, d, pos, i + 1) /\ Products(B, pos, i + 1) /\ PartsOf(z, d, pos, E, c)
  /\ Backward(J, z, d, E, c, o, LastPart(o, d, pos, i, short))
RowValues(row, J, m, B, i, E) ==
  \A j \in 0 .. E : /\ row[j] \in Fractions /\ J[j][m] \in Nat
                    /\ IsFraction(row[j], J[j][m] * B[j], B[i + 1])

\* The first row has its values,
LEMMA FirstRowValue ==
  ASSUME NEW check, NEW d, NEW pos, NEW i, NEW c, NEW o, NEW short, NEW z, NEW J, NEW B, NEW E,
         InnerSetting(check, d, pos, i, c, o, short, z, J, B, E)
  PROVE  RowValues(FirstRow(check, o, i), J, o, B, i, E)
<1> DEFINE k == LastPart(o, d, pos, i, short)
           y == [v \in 0 .. i |-> RestOf(o, d[v], pos[v])]
           q == pos[i]
           a == PartOf(o, d[i], pos[i])
           bi == B[i]
           bw == B[i + 1]
<1>1. /\ i \in Nat /\ c \in Nat \ {0} /\ o \in 1 .. c /\ o \in Nat /\ short \in {0, 1}
      /\ E \in Nat /\ E = i - short
      /\ ChancesOf(check, d, pos, i + 1) /\ Products(B, pos, i + 1) /\ PartsOf(z, d, pos, E, c)
      /\ Backward(J, z, d, E, c, o, k)
  BY DEF InnerSetting
<1>2. ASSUME NEW v \in 0 .. i
      PROVE  /\ check[v] \in Fractions /\ d[v] \in Nat /\ pos[v] \in Nat \ {0}
             /\ IsFraction(check[v], d[v], pos[v])
             /\ PartOf(o, d[v], pos[v]) \in Nat /\ RestOf(o, d[v], pos[v]) \in Nat
  <2>1. v \in 0 .. (i + 1) - 1
    BY <1>1
  <2>2. check[v] \in Fractions /\ d[v] \in Nat /\ pos[v] \in Nat \ {0}
        /\ IsFraction(check[v], d[v], pos[v])
    BY <1>1, <2>1 DEF ChancesOf
  <2> DEFINE e == d[v]
             p == pos[v]
  <2>3. e \in Nat /\ p \in Nat \ {0} /\ o \in Nat
    BY <1>1, <2>2
  <2> HIDE DEF e, p
  <2>4. PartOf(o, e, p) \in 0 .. p /\ RestOf(o, e, p) \in Nat
    BY <2>3, PartIs
  <2>5. PartOf(o, e, p) \in Nat
    BY <2>3, <2>4
  <2> QED
    BY <2>2, <2>4, <2>5 DEF e, p
<1>3. a \in Nat /\ q \in Nat \ {0} /\ bi \in Nat \ {0} /\ bw \in Nat \ {0} /\ bw = bi * q
  <2>1. i \in 0 .. i /\ i \in 0 .. (i + 1) - 1 /\ i \in 0 .. i + 1 /\ i + 1 \in 0 .. i + 1
    BY <1>1
  <2> QED
    BY <1>1, <1>2, <2>1 DEF Products
<1>4. LastPart(o, d, pos, i, short) \in Nat
  <2>1. CASE short = 0
    BY <1>3, <2>1 DEF LastPart
  <2>2. CASE short = 1
    <3>1. i - 1 \in 0 .. i
      BY <1>1, <2>2
    <3>2. RestOf(o, d[i - 1], pos[i - 1]) \in Nat
      BY <1>2, <3>1
    <3> DEFINE x == RestOf(o, d[i - 1], pos[i - 1])
    <3>3. x * a \in Nat
      BY <1>3, <3>2
    <3> QED
      BY <2>2, <3>3 DEF LastPart
  <2> QED
    BY <1>1, <2>1, <2>2
<1>5. AreParts(d, z, E, c)
  <2>0. 1 \in 1 .. c
    BY <1>1
  <2> SUFFICES ASSUME NEW j \in 0 .. E - 1, NEW m \in 1 .. c
               PROVE  d[j] \in Nat /\ z[j][m] \in Nat
    BY <2>0 DEF AreParts
  <2>1. j \in 0 .. i /\ j \in 0 .. (i + 1) - 1 /\ m \in Nat
    BY <1>1
  <2>2. d[j] \in Nat /\ pos[j] \in Nat \ {0}
    BY <1>2, <2>1
  <2>3. z[j][m] = RestOf(m, d[j], pos[j])
    BY <1>1 DEF PartsOf
  <2> DEFINE e == d[j]
             p == pos[j]
  <2> HIDE DEF e, p
  <2>4. RestOf(m, e, p) \in Nat
    BY <2>1, <2>2, PartIs DEF e, p
  <2> QED
    BY <2>2, <2>3, <2>4 DEF e, p
<1>6. \A v \in 0 .. i : y[v] = RestOf(o, d[v], pos[v]) /\ y[v] \in Nat
  BY <1>2
<1> HIDE DEF y
<1>7. PICK Z : Spans(Z, y, i + 1)
  <2>1. i + 1 \in Nat /\ 0 .. (i + 1) - 1 = 0 .. i
    BY <1>1
  <2> QED
    BY <1>6, <2>1, SpansExist
<1>8. ASSUME NEW j \in 0 .. E
      PROVE  J[j][o] = a * Z[j][i] /\ Z[j][i] \in Nat /\ J[j][o] \in Nat
  <2>1. E \in 0 .. i + 1 /\ 0 .. E - 1 \subseteq 0 .. i /\ i + 1 \in Nat /\ j \in 0 .. i + 1
        /\ i \in j .. i + 1 /\ E \in j .. i + 1
    BY <1>1
  <2>2. Spans(Z, y, E)
    BY <1>7, <2>1, ShorterSpans
  <2>3. \A v \in 0 .. E - 1 : y[v] = z[v][o]
    BY <1>1, <1>6, <2>1 DEF PartsOf
  <2>4. J[j][o] = Z[j][E] * k
    <3> HIDE DEF k
    <3>1. k \in Nat
      BY <1>4 DEF k
    <3>2. Backward(J, z, d, E, c, o, k) /\ E \in Nat /\ c \in Nat \ {0} /\ o \in 1 .. c
      BY <1>1 DEF k
    <3>3. j \in 0 .. E
      OBVIOUS
    <3> QED
      BY ONLY <1>5, <2>2, <2>3, <3>1, <3>2, <3>3, BackwardFirst
  <2>5. Z[j][i] \in Nat /\ Z[j][E] \in Nat
    BY <1>7, <2>1 DEF Spans
  <2>6. J[j][o] = a * Z[j][i]
    <3>1. CASE short = 0
      <4>1. k = a /\ E = i
        BY <1>1, <3>1 DEF LastPart
      <4> QED
        BY <1>3, <2>4, <2>5, <4>1
    <3>2. CASE short = 1
      <4> DEFINE x == RestOf(o, d[i - 1], pos[i - 1])
      <4>1. k = x * a /\ E = i - 1 /\ i - 1 \in 0 .. i /\ i - 1 \in j .. (i + 1) - 1
            /\ (i - 1) + 1 = i
        BY <1>1, <3>2 DEF LastPart
      <4>2. Z[j][i] = Z[j][i - 1] * y[i - 1] /\ y[i - 1] = x /\ x \in Nat
        <5>1. Z[j][(i - 1) + 1] = Z[j][i - 1] * y[i - 1]
          BY <1>7, <2>1, <4>1 DEF Spans
        <5>2. y[i - 1] = x /\ x \in Nat
          BY <1>2, <1>6, <4>1
        <5> QED
          BY <4>1, <5>1, <5>2
      <4> DEFINE s == Z[j][E]
      <4>3. s \in Nat /\ J[j][o] = s * (x * a) /\ Z[j][i] = s * x /\ x \in Nat
        BY <2>4, <2>5, <4>1, <4>2
      <4> HIDE DEF s, x, a
      <4>4. s * (x * a) = a * (s * x)
        BY <1>3, <4>3
      <4> QED
        BY <4>3, <4>4
    <3> QED
      BY <1>1, <3>1, <3>2
  <2> DEFINE s == Z[j][i]
  <2>7. s \in Nat /\ J[j][o] = a * s
    BY <2>5, <2>6
  <2> HIDE DEF s, a
  <2>8. a * s \in Nat
    BY <1>3, <2>7
  <2> QED
    BY <2>7, <2>8 DEF s, a
<1>9. ASSUME NEW j \in 0 .. E
      PROVE  /\ FirstRow(check, o, i)[j] \in Fractions
             /\ IsFraction(FirstRow(check, o, i)[j], J[j][o] * B[j], B[i + 1])
  <2> DEFINE l == Least(One, Scaled(o, check[i]))
             p == P(check, j, i, o)
             bj == B[j]
             s == Z[j][i]
  <2>1. j \in 0 .. i + 1 /\ i \in j .. i + 1 /\ i \in 0 .. i /\ 0 .. (i + 1) - 1 = 0 .. i
        /\ i + 1 \in Nat
    BY <1>1
  <2>2. l \in Fractions /\ IsFraction(l, a, q)
    <3>1. /\ check[i] \in Fractions /\ d[i] \in Nat /\ q \in Nat \ {0}
          /\ IsFraction(check[i], d[i], q)
      BY <1>2, <2>1
    <3> QED
      BY <1>1, <3>1, LeastOfChance
  <2>3. p \in Fractions /\ IsFraction(p, s * bj, bi)
    <3>1. \A v \in 0 .. (i + 1) - 1 : y[v] = RestOf(o, d[v], pos[v])
      BY <1>6, <2>1
    <3> QED
      BY <1>1, <1>7, <2>1, <3>1, PValue
  <2>4. bj \in Nat \ {0} /\ s \in Nat /\ J[j][o] = a * s
    BY <1>1, <1>8, <2>1 DEF Products
  <2>5. FirstRow(check, o, i)[j] = Times(l, p)
    BY <2>1 DEF FirstRow
  <2> HIDE DEF l, p, bj, s, a, q, bi, bw
  <2>6. s * bj \in Nat
    BY <2>4
  <2>7. Times(l, p) \in Fractions /\ IsFraction(Times(l, p), a * (s * bj), q * bi)
    BY <1>3, <2>2, <2>3, <2>6, TimesValue
  <2>8. a * (s * bj) = (a * s) * bj /\ q * bi = bw
    BY <1>3, <2>4
  <2> QED
    BY <2>4, <2>5, <2>7, <2>8 DEF bj, bw
<1> QED
  BY <1>8, <1>9 DEF RowValues

\* The parts that pass a disk are natural numbers.
LEMMA PartsAre ==
  ASSUME NEW check, NEW d, NEW pos, NEW n \in Nat, ChancesOf(check, d, pos, n), NEW E \in Nat,
         E <= n, NEW c \in Nat \ {0}, NEW z, PartsOf(z, d, pos, E, c)
  PROVE  AreParts(d, z, E, c)
<1>0. 1 \in 1 .. c
  OBVIOUS
<1> SUFFICES ASSUME NEW j \in 0 .. E - 1, NEW m \in 1 .. c
             PROVE  d[j] \in Nat /\ z[j][m] \in Nat
  BY <1>0 DEF AreParts
<1> DEFINE e == d[j]
           p == pos[j]
<1>1. j \in 0 .. n - 1 /\ m \in Nat
  OBVIOUS
<1>2. e \in Nat /\ p \in Nat \ {0} /\ z[j][m] = RestOf(m, e, p)
  BY <1>1 DEF ChancesOf, PartsOf
<1> HIDE DEF e, p
<1>3. RestOf(m, e, p) \in Nat
  BY <1>1, <1>2, PartIs
<1> QED
  BY <1>2, <1>3 DEF e, p

\* and every next one.
LEMMA NextRowValue ==
  ASSUME NEW check, NEW d, NEW pos, NEW i, NEW c, NEW o, NEW short, NEW z, NEW J, NEW B, NEW E,
         InnerSetting(check, d, pos, i, c, o, short, z, J, B, E),
         NEW m \in o .. c - 1, NEW row, RowValues(row, J, m, B, i, E)
  PROVE  RowValues(NextRow(check, o, i, m + 1, row, short), J, m + 1, B, i, E)
<1> DEFINE k == LastPart(o, d, pos, i, short)
           y == [v \in 0 .. i |-> RestOf(m + 1, d[v], pos[v])]
<1>1. /\ i \in Nat /\ c \in Nat \ {0} /\ o \in 1 .. c /\ o \in Nat /\ short \in {0, 1}
      /\ E \in Nat /\ E = i - short
      /\ ChancesOf(check, d, pos, i + 1) /\ Products(B, pos, i + 1) /\ PartsOf(z, d, pos, E, c)
      /\ Backward(J, z, d, E, c, o, k)
      /\ m \in Nat /\ m + 1 \in o + 1 .. c /\ m + 1 \in 1 .. c /\ m \in 0 .. c /\ m + 1 \in Nat
      /\ m + 1 \in 0 .. c
  BY DEF InnerSetting
<1>2. AreParts(d, z, E, c)
  <2>1. i + 1 \in Nat /\ E <= i + 1
    BY <1>1
  <2> QED
    BY <1>1, <2>1, PartsAre
<1>3. k \in Nat
  <2>1. 0 \in 0 .. c /\ o \in 0 .. c /\ E \in 0 .. E
    BY <1>1
  <2>2. J[E][o] \in Nat /\ J[E][o] = k
    BY <1>1, <2>1 DEF Backward
  <2> QED
    BY <2>2
<1>4. \A v \in 0 .. i : y[v] = RestOf(m + 1, d[v], pos[v]) /\ y[v] \in Nat
  <2> SUFFICES ASSUME NEW v \in 0 .. i PROVE RestOf(m + 1, d[v], pos[v]) \in Nat
    OBVIOUS
  <2> DEFINE e == d[v]
             p == pos[v]
  <2>1. v \in 0 .. (i + 1) - 1
    BY <1>1
  <2>2. e \in Nat /\ p \in Nat \ {0}
    BY <1>1, <2>1 DEF ChancesOf
  <2> HIDE DEF e, p
  <2>3. RestOf(m + 1, e, p) \in Nat
    BY <1>1, <2>2, PartIs
  <2> QED
    BY <2>3 DEF e, p
<1> HIDE DEF y
<1>5. PICK Z : Spans(Z, y, i + 1)
  <2>1. i + 1 \in Nat /\ 0 .. (i + 1) - 1 = 0 .. i
    BY <1>1
  <2> QED
    BY <1>4, <2>1, SpansExist
<1>6. Spans(Z, y, E) /\ \A v \in 0 .. E - 1 : y[v] = z[v][m + 1]
  <2>1. E \in 0 .. i + 1 /\ 0 .. E - 1 \subseteq 0 .. i /\ i + 1 \in Nat
    BY <1>1
  <2>2. Spans(Z, y, E)
    BY <1>5, <2>1, ShorterSpans
  <2> QED
    BY <1>1, <1>4, <2>1, <2>2 DEF PartsOf
<1> HIDE DEF k
<1>7. ASSUME NEW j \in 0 .. E
      PROVE  /\ NextRow(check, o, i, m + 1, row, short)[j] \in Fractions
             /\ J[j][m + 1] \in Nat
             /\ IsFraction(NextRow(check, o, i, m + 1, row, short)[j],
                           J[j][m + 1] * B[j], B[i + 1])
  <2> DEFINE e == i - (m + 1) + o - short
             N == [v \in j .. e |-> d[v] * Z[j][v] * J[v + 1][m]]
             W == [v \in 1 .. E |-> J[v][m]]
             f == [v \in j .. e |-> Times(Times(check[v], P(check, j, v, m + 1)), row[v + 1])]
             S == SumFunctionOnSet(N, j .. e)
             bj == B[j]
             bw == B[i + 1]
             t == J[j][m + 1]
  <2>1. e \in Int /\ e = E - ((m + 1) - o) /\ e <= i /\ e + 1 <= E /\ j \in 0 .. i + 1
    BY <1>1
  <2>2. f = Terms(check, o, i, m + 1, row, j, short)
    BY DEF Terms
  <2>3. NextRow(check, o, i, m + 1, row, short)[j] = Scaled(m + 1, SumOver(f))
    BY <2>1, <2>2 DEF NextRow
  <2> HIDE DEF e
  <2>4. S \in Nat /\ (m + 1) * S = t
    <3>1. (m + 1) - 1 = m
      BY <1>1
    <3> DEFINE w == m + 1
    <3>2. \A v \in j .. e : N[v] = d[v] * Z[j][v] * J[v + 1][w - 1]
      BY <3>1
    <3>3. E \in Nat /\ c \in Nat \ {0} /\ o \in 1 .. c /\ Backward(J, z, d, E, c, o, k)
          /\ w \in o + 1 .. c
      BY <1>1
    <3> HIDE DEF N
    <3>4. j \in 0 .. E
      OBVIOUS
    <3>5. \A v \in 0 .. E - 1 : y[v] = z[v][w]
      BY <1>6
    <3>6. Spans(Z, y, E)
      BY <1>6
    <3>7. e = E - (w - o)
      BY <2>1
    <3>8. e \in Int
      BY <2>1
    <3> HIDE DEF w
    <3>9. RowParts(N, Z, y, J, d, z, w, j, e, E, o)
      BY <3>2, <3>5, <3>6, <3>7, <3>8 DEF RowParts
    <3>10. AddUpTo(N, J, w, j, e)
      BY ONLY <1>2, <1>3, <3>3, <3>4, <3>9, RowSum
    <3> QED
      BY <3>10 DEF AddUpTo, S, t, w
  <2>5. SumOver(f) \in Fractions /\ IsFraction(SumOver(f), S * bj, bw)
    <3>1. CASE j <= i
      <4>1. \A v \in j .. e : /\ row[v + 1] \in Fractions /\ W[v + 1] \in Nat
                              /\ IsFraction(row[v + 1], W[v + 1] * B[v + 1], B[i + 1])
        <5> SUFFICES ASSUME NEW v \in j .. e
                     PROVE  /\ row[v + 1] \in Fractions /\ W[v + 1] \in Nat
                            /\ IsFraction(row[v + 1], W[v + 1] * B[v + 1], B[i + 1])
          OBVIOUS
        <5>1. v + 1 \in 1 .. E /\ v + 1 \in 0 .. E
          BY <1>1, <2>1
        <5>2. W[v + 1] = J[v + 1][m]
          BY <5>1
        <5> QED
          BY <5>1, <5>2 DEF RowValues
      <4>2. \A v \in j .. e : N[v] = d[v] * Z[j][v] * W[v + 1]
        <5> SUFFICES ASSUME NEW v \in j .. e PROVE W[v + 1] = J[v + 1][m]
          OBVIOUS
        <5>1. v + 1 \in 1 .. E
          BY <1>1, <2>1
        <5> QED
          BY <5>1
      <4>3. j \in 0 .. i /\ i \in Nat /\ e \in Int /\ e <= i /\ m + 1 \in Nat
        BY <1>1, <2>1, <3>1
      <4>4. \A v \in 0 .. i : y[v] = RestOf(m + 1, d[v], pos[v])
        BY <1>4
      <4>5. ChancesOf(check, d, pos, i + 1) /\ Products(B, pos, i + 1)
        BY <1>1
      <4> DEFINE w == m + 1
                 F == [v \in j .. e |-> Times(Times(check[v], P(check, j, v, w)), row[v + 1])]
      <4>6. \A v \in 0 .. i : y[v] = RestOf(w, d[v], pos[v])
        BY <4>4
      <4>7. w \in Nat
        BY <1>1
      <4>8. F = f
        OBVIOUS
      <4> HIDE DEF W, N, f, w
      <4>9. TermParts(N, Z, y, row, W, d, pos, B, w, i, j, e)
        BY <1>5, <4>1, <4>2, <4>3, <4>6 DEF TermParts
      <4>10. /\ SumOver(F) \in Fractions
             /\ IsFraction(SumOver(F), SumFunctionOnSet(N, j .. e) * B[j], B[i + 1])
        BY ONLY <4>3, <4>5, <4>7, <4>9, TermsValue
      <4> QED
        BY <4>8, <4>10
    <3>2. CASE j > i
      <4>1. FALSE
        BY <1>1, <3>2
      <4> QED
        BY <4>1
    <3> QED
      BY <1>1, <3>1, <3>2
  <2>6. bj \in Nat \ {0} /\ bw \in Nat \ {0}
    <3>1. i + 1 \in 0 .. i + 1
      BY <1>1
    <3> QED
      BY <1>1, <2>1, <3>1 DEF Products
  <2> DEFINE g == SumOver(f)
  <2>7. g \in Fractions /\ IsFraction(g, S * bj, bw)
    BY <2>5
  <2> HIDE DEF g, f, N, S, bj, bw, t
  <2>8. S * bj \in Nat
    BY <2>4, <2>6
  <2>9. Scaled(m + 1, g) \in Fractions /\ IsFraction(Scaled(m + 1, g), (m + 1) * (S * bj), bw)
    BY <1>1, <2>6, <2>7, <2>8, ScaledValue
  <2>10. (m + 1) * (S * bj) = t * bj /\ t \in Nat
    <3>1. (m + 1) * (S * bj) = ((m + 1) * S) * bj /\ (m + 1) * S \in Nat
      BY <1>1, <2>4, <2>6
    <3> QED
      BY <2>4, <3>1
  <2> QED
    BY <2>3, <2>9, <2>10 DEF g, t, bj, bw
<1> QED
  BY <1>7 DEF RowValues

\* All rows
LEMMA InnerValue ==
  ASSUME NEW check, NEW d, NEW pos, NEW i, NEW c, NEW o, NEW short, NEW z, NEW J, NEW B, NEW E,
         InnerSetting(check, d, pos, i, c, o, short, z, J, B, E),
         NEW r, RowsOf(r, check, o, i, c - o, short), NEW k \in 0 .. c - o
  PROVE  RowValues(r[k], J, o + k, B, i, E)
<1> DEFINE Good == {x \in Nat : x <= c - o => RowValues(r[x], J, o + x, B, i, E)}
<1>1. c \in Nat /\ o \in Nat /\ o <= c
  BY DEF InnerSetting
<1>2. 0 \in Good
  <2>1. RowValues(FirstRow(check, o, i), J, o, B, i, E)
    BY FirstRowValue
  <2>2. r[0] = FirstRow(check, o, i) /\ o + 0 = o
    BY <1>1 DEF RowsOf
  <2> QED
    BY <2>1, <2>2
<1>3. ASSUME NEW x \in Good PROVE x + 1 \in Good
  <2> SUFFICES ASSUME x + 1 <= c - o PROVE RowValues(r[x + 1], J, o + (x + 1), B, i, E)
    OBVIOUS
  <2> DEFINE m == o + x
             row == r[x]
  <2>1. x \in Nat /\ x \in 0 .. (c - o) - 1 /\ RowValues(row, J, m, B, i, E)
        /\ m \in o .. c - 1 /\ o + x + 1 = m + 1 /\ o + (x + 1) = m + 1
    BY <1>1
  <2>2. r[x + 1] = NextRow(check, o, i, m + 1, row, short)
    BY <2>1 DEF RowsOf
  <2> HIDE DEF m, row
  <2>3. RowValues(NextRow(check, o, i, m + 1, row, short), J, m + 1, B, i, E)
    BY <2>1, NextRowValue
  <2> QED
    BY <2>1, <2>2, <2>3
<1>4. Good = Nat
  <2>1. Good \in SUBSET Nat
    OBVIOUS
  <2> HIDE DEF Good
  <2> QED
    BY <1>2, <1>3, <2>1, InductionSet
<1>5. k \in Good
  BY <1>1, <1>4
<1> QED
  BY <1>5

(* A walk of placeExtent in numbers: disk i has d[i] of pos[i], and left   *)
(* copies left at most.                                                    *)
WalkSetting(check, d, pos, left, n, c, b, h, g, u, v) ==
  /\ n \in Nat \ {0} /\ c \in 1 .. n /\ ChancesOf(check, d, pos, n) /\ pos[n] \in Nat
  /\ \A i \in 0 .. n - 1 : d[i] \in Nat \ {0} /\ pos[i] = pos[i + 1] + d[i]
  /\ Dropping(left, n, c)
  /\ \A i \in 0 .. n - 1 :
       left[i + 1] = IF left[i] * d[i] < pos[i] THEN left[i] ELSE left[i] - 1
  /\ WalkChances(b, h, g, n, c) /\ Walk(u, v, b, h, g, n, c)
  /\ \A i \in 0 .. n - 1 : left[i + 1] # left[i] =>
       \A m \in 1 .. c : m = left[i] => h[i][m] = b[i] /\ g[i][m] = b[i]

\* A disk without a correction, and all below E
PlainAt(d, pos, left, b, h, g, c, i) ==
  /\ left[i] * d[i] <= pos[i] /\ b[i] = pos[i]
  /\ \A m \in 1 .. c : h[i][m] = PartOf(m, d[i], pos[i]) /\ g[i][m] = PartOf(m, d[i], pos[i])
PlainBelow(d, pos, left, b, h, g, c, E) ==
  \A i \in 0 .. E - 1 : PlainAt(d, pos, left, b, h, g, c, i)

\* No walk has more copies left than left says.
LEMMA NoMoreLeft ==
  ASSUME NEW check, NEW d, NEW pos, NEW left, NEW n, NEW c, NEW b, NEW h, NEW g, NEW u, NEW v,
         WalkSetting(check, d, pos, left, n, c, b, h, g, u, v),
         NEW j \in 0 .. n, NEW m \in 1 .. c, left[j] < m
  PROVE  u[j][m] = 0 /\ v[j][m] = 0
<1>1. left[0] = c /\ \A i \in 0 .. n : left[i] \in Int
  BY DEF WalkSetting, Dropping
<1>2. \A i \in 0 .. n - 1 : left[i + 1] = left[i] \/ left[i + 1] = left[i] - 1
  BY DEF WalkSetting, Dropping
<1>3. \A i \in 0 .. n - 1 : left[i + 1] # left[i] =>
        \A x \in 1 .. c : x = left[i] => h[i][x] = b[i] /\ g[i][x] = b[i]
  BY DEF WalkSetting
<1>4. WalkChances(b, h, g, n, c) /\ Walk(u, v, b, h, g, n, c)
  BY DEF WalkSetting
<1>5. left[j] < m /\ j \in 0 .. n /\ m \in 1 .. c
  OBVIOUS
<1> QED
  BY ONLY <1>1, <1>2, <1>3, <1>4, <1>5, LeftBounds

\* Without corrections every number of copies left takes its part, or all that are left.
LEMMA PlainTakes ==
  ASSUME NEW check, NEW d, NEW pos, NEW left, NEW n, NEW c, NEW b, NEW h, NEW g, NEW u, NEW v,
         WalkSetting(check, d, pos, left, n, c, b, h, g, u, v), NEW j \in 0 .. n - 1,
         PlainAt(d, pos, left, b, h, g, c, j), NEW m \in 1 .. c
  PROVE  /\ u[j][m] \in Nat /\ v[j][m] \in Nat
         /\ Took(u, v, h, g, j, m) = (u[j][m] + v[j][m]) * (m * d[j])
         /\ Took(u, v, h, g, j, m) = (u[j][m] + v[j][m]) * PartOf(m, d[j], pos[j])
         /\ u[j + 1][m] = (u[j][m] + v[j][m]) * RestOf(m, d[j], pos[j])
<1> DEFINE p == pos[j]
           e == d[j]
           a == u[j][m]
           f == v[j][m]
           q == PartOf(m, e, p)
           x == left[j]
<1>1. /\ n \in Nat /\ j \in 0 .. n - 1 /\ j \in 0 .. n /\ m \in Nat /\ c \in Nat
      /\ e \in Nat /\ p \in Nat \ {0} /\ x \in Nat
      /\ WalkChances(b, h, g, n, c) /\ Walk(u, v, b, h, g, n, c)
  <2>1. n \in Nat /\ c \in Nat
    BY DEF WalkSetting
  <2>2. j \in 0 .. n - 1 /\ j \in 0 .. n /\ m \in Nat
    BY <2>1
  <2>3. e \in Nat /\ p \in Nat \ {0}
    BY <2>2 DEF WalkSetting, ChancesOf
  <2>4. x \in Nat
    BY <2>2 DEF WalkSetting, Dropping
  <2>5. WalkChances(b, h, g, n, c) /\ Walk(u, v, b, h, g, n, c)
    BY DEF WalkSetting
  <2> QED
    BY <2>1, <2>2, <2>3, <2>4, <2>5
<1>2. x * e <= p /\ b[j] = p /\ h[j][m] = q /\ g[j][m] = q
  BY DEF PlainAt
<1>3. a \in Nat /\ f \in Nat /\ u[j + 1][m] = a * (p - q) + f * (p - q)
      /\ Took(u, v, h, g, j, m) = a * q + f * q
  <2>1. a \in Nat /\ f \in Nat /\ u[j + 1][m] = a * (b[j] - h[j][m]) + f * (b[j] - g[j][m])
    BY <1>1 DEF Walk
  <2> QED
    BY <1>2, <2>1 DEF Took
<1>4. ASSUME ~(m * e < p), m * e # p PROVE a = 0 /\ f = 0
  <2>1. SUFFICES ASSUME ~(x < m) PROVE FALSE
    BY <1>1, NoMoreLeft
  <2> HIDE DEF x, e, p
  <2>2. e * m <= e * x
    BY <1>1, <2>1, ProductOrder
  <2> DEFINE s == e * m
             t == e * x
  <2>3. s \in Int /\ t \in Int /\ s <= t /\ t <= p /\ ~(s < p) /\ s # p
    BY <1>1, <1>2, <1>4, <2>2
  <2> HIDE DEF s, t
  <2> QED
    BY <1>1, <2>3
<1>5. q \in 0 .. p /\ RestOf(m, e, p) = p - q
  <2> HIDE DEF e, p
  <2> QED
    BY <1>1, PartIs DEF q
<1> DEFINE w == p - q
           y == m * e
<1>6. q = y \/ (a = 0 /\ f = 0)
  <2>1. y \in Int /\ p \in Int /\ q = IF y < p THEN y ELSE p
    <3> HIDE DEF e, p
    <3> QED
      BY <1>1 DEF PartOf
  <2>2. ~(y < p) /\ y # p => a = 0 /\ f = 0
    BY <1>4
  <2> HIDE DEF e, p, a, f, y, q
  <2>3. CASE y < p
    BY <2>1, <2>3
  <2>4. CASE y = p
    BY <2>1, <2>4
  <2>5. CASE ~(y < p) /\ y # p
    BY <2>2, <2>5
  <2> QED
    BY <2>3, <2>4, <2>5
<1>7. w \in Nat /\ y \in Nat /\ q \in Nat
  <2> HIDE DEF e, p, q
  <2> QED
    BY <1>1, <1>5
<1> HIDE DEF e, p, q, a, f, w
<1>8. a * w + f * w = (a + f) * w /\ a * q + f * q = (a + f) * q
  BY <1>3, <1>7
<1>9. (a + f) * q = (a + f) * y
  BY <1>3, <1>6, <1>7
<1> QED
  BY <1>3, <1>5, <1>8, <1>9 DEF w, e, p, a, f, q

\* Of those who come to a disk without a correction, m parts of its own take copy m.
LEMMA PlainParts ==
  ASSUME NEW check, NEW d, NEW pos, NEW left, NEW n, NEW c, NEW b, NEW h, NEW g, NEW u, NEW v,
         WalkSetting(check, d, pos, left, n, c, b, h, g, u, v), NEW E \in 0 .. n,
         PlainBelow(d, pos, left, b, h, g, c, E), NEW j \in 0 .. E - 1, NEW m \in 1 .. c
  PROVE  /\ u[j][m] \in Nat /\ v[j][m] \in Nat
         /\ Took(u, v, h, g, j, m) = (u[j][m] + v[j][m]) * (m * d[j])
         /\ Took(u, v, h, g, j, m) = (u[j][m] + v[j][m]) * PartOf(m, d[j], pos[j])
         /\ u[j + 1][m] = (u[j][m] + v[j][m]) * RestOf(m, d[j], pos[j])
<1>1. n \in Nat
  BY DEF WalkSetting
<1>2. j \in 0 .. n - 1
  BY <1>1
<1>3. PlainAt(d, pos, left, b, h, g, c, j)
  BY DEF PlainBelow
<1> QED
  BY <1>2, <1>3, PlainTakes

\* Those that come to disk i with o copies left and take one, or (short) only those that pass
Comes(u, v, i, o, short) == IF short = 0 THEN u[i][o] + v[i][o] ELSE u[i][o]

\* r_inner's value: those who come to its last disk and take a copy
LEMMA RInnerValue ==
  ASSUME NEW check, NEW d, NEW pos, NEW left, NEW n, NEW c, NEW b, NEW h, NEW g, NEW u, NEW v,
         WalkSetting(check, d, pos, left, n, c, b, h, g, u, v), NEW i \in 1 .. n - 1,
         PlainBelow(d, pos, left, b, h, g, c, i), NEW B, Products(B, pos, i + 1),
         NEW o \in 1 .. c, NEW short \in {0, 1}
  PROVE  LET r == RInner(check, o, c, 0, i, short)
         IN  /\ r \in Fractions
             /\ IsFraction(r, Comes(u, v, i, o, short) * PartOf(o, d[i], pos[i]), B[i + 1])
<1> DEFINE E == i - short
           k == LastPart(o, d, pos, i, short)
           z == [j \in 0 .. n - 1 |-> [m \in 1 .. c |-> RestOf(m, d[j], pos[j])]]
           a == PartOf(o, d[i], pos[i])
           N == c - o
<1>1. /\ n \in Nat /\ c \in Nat \ {0} /\ i \in Nat \ {0} /\ i \in 0 .. n - 1 /\ o \in Nat \ {0}
      /\ E \in Nat /\ E \in 0 .. i /\ i + 1 \in Nat /\ E <= i + 1 /\ E \in 0 .. n /\ N \in Nat
      /\ c \in Nat /\ o <= c /\ i + 1 <= n /\ E \in 0 .. n - 1
  BY DEF WalkSetting
<1>2. ChancesOf(check, d, pos, i + 1)
  <2>1. 0 .. (i + 1) - 1 \subseteq 0 .. n - 1
    BY <1>1
  <2> QED
    BY <2>1 DEF WalkSetting, ChancesOf
<1>3. PositiveChances(check, i)
  <2> SUFFICES ASSUME NEW w \in 0 .. i PROVE check[w] \in Fractions /\ check[w][1] > 0
    BY DEF PositiveChances
  <2>1. w \in 0 .. n - 1
    BY <1>1
  <2> DEFINE e == d[w]
             p == pos[w]
             x == check[w]
  <2>2. e \in Nat \ {0} /\ p \in Nat \ {0} /\ x \in Fractions /\ IsFraction(x, e, p)
    BY <2>1 DEF WalkSetting, ChancesOf
  <2> HIDE DEF e, p, x
  <2>3. x[1] \in Nat /\ x[2] \in Nat \ {0} /\ x[1] * p = e * x[2]
    BY <2>2 DEF Fractions, IsFraction
  <2> DEFINE s == x[1]
             t == x[2]
  <2>4. s \in Nat /\ t \in Nat \ {0} /\ s * p = e * t
    BY <2>3
  <2> HIDE DEF s, t
  <2>5. s # 0
    <3> SUFFICES ASSUME s = 0 PROVE FALSE
      OBVIOUS
    <3>1. e * t = 0
      BY <2>2, <2>4
    <3>2. e = 0 \/ t = 0
      BY <2>2, <2>4, <3>1
    <3> QED
      BY <2>2, <2>4, <3>2
  <2>6. s > 0
    BY <2>4, <2>5
  <2> QED
    BY <2>2, <2>6 DEF s, x
<1>4. PartsOf(z, d, pos, E, c)
  <2>1. 0 .. E - 1 \subseteq 0 .. n - 1
    BY <1>1
  <2> QED
    BY <2>1 DEF PartsOf
<1> HIDE DEF z
<1>5. AreParts(d, z, E, c)
  BY <1>1, <1>2, <1>4, PartsAre
<1>6. ASSUME NEW w \in 0 .. i, NEW m \in 1 .. c
      PROVE  PartOf(m, d[w], pos[w]) \in Nat /\ RestOf(m, d[w], pos[w]) \in Nat
  <2> DEFINE e == d[w]
             p == pos[w]
  <2>1. w \in 0 .. (i + 1) - 1 /\ m \in Nat
    BY <1>1
  <2>2. e \in Nat /\ p \in Nat \ {0}
    BY <1>2, <2>1 DEF ChancesOf
  <2> HIDE DEF e, p
  <2>3. PartOf(m, e, p) \in 0 .. p /\ RestOf(m, e, p) \in Nat
    BY <2>1, <2>2, PartIs
  <2>4. PartOf(m, e, p) \in Nat
    BY <2>2, <2>3
  <2> QED
    BY <2>3, <2>4 DEF e, p
<1>7. a \in Nat
  <2>1. i \in 0 .. i
    BY <1>1
  <2> QED
    BY <1>6, <2>1
<1>8. u[E][o] \in Nat /\ v[E][o] \in Nat /\ u[i][o] \in Nat /\ v[i][o] \in Nat
  <2>1. E \in 0 .. n /\ i \in 0 .. n /\ Walk(u, v, b, h, g, n, c)
    BY <1>1 DEF WalkSetting
  <2> HIDE DEF E
  <2> QED
    BY <2>1 DEF Walk
<1>9. k \in Nat /\ (u[E][o] + v[E][o]) * k = Comes(u, v, i, o, short) * a
  <2>1. CASE short = 0
    <3>1. k = a /\ E = i /\ Comes(u, v, i, o, short) = u[i][o] + v[i][o]
      BY <1>1, <2>1 DEF LastPart, Comes
    <3> QED
      BY <1>7, <3>1
  <2>2. CASE short = 1
    <3> DEFINE x == RestOf(o, d[i - 1], pos[i - 1])
               y == u[i - 1][o] + v[i - 1][o]
               t == u[i][o]
    <3>1. k = x * a /\ E = i - 1 /\ Comes(u, v, i, o, short) = t
          /\ i - 1 \in 0 .. i /\ i - 1 \in 0 .. i - 1 /\ i \in 0 .. n /\ (i - 1) + 1 = i
      BY <1>1, <2>2 DEF LastPart, Comes
    <3>2. x \in Nat
      BY <1>6, <3>1
    <3>3. u[(i - 1) + 1][o] = y * x
      BY <3>1, PlainParts
    <3>4. y \in Nat /\ t = y * x
      BY <1>8, <3>1, <3>3
    <3> HIDE DEF x, y, t, a
    <3>5. x * a \in Nat /\ y * (x * a) = (y * x) * a
      BY <1>7, <3>2, <3>4
    <3>6. u[E][o] + v[E][o] = y
      BY <3>1 DEF y
    <3> QED
      BY <3>1, <3>4, <3>5, <3>6
  <2> QED
    BY <2>1, <2>2
<1> HIDE DEF k, a
<1>10. PICK J : Backward(J, z, d, E, c, o, k)
  BY <1>1, <1>5, <1>9, BackwardExists
<1>11. InnerSetting(check, d, pos, i, c, o, short, z, J, B, E)
  BY <1>1, <1>2, <1>4, <1>10 DEF InnerSetting, k
<1>12. PICK r : RowsOf(r, check, o, i, N, short) /\ RInner(check, o, c, 0, i, short) = r[N][0]
  <2>1. i \in Nat /\ o \in Nat \ {0} /\ c \in Nat /\ o <= c /\ short \in {0, 1}
    BY <1>1
  <2>2. GoesThrough(check, o, c, i, short)
    BY ONLY <1>3, <2>1, RInnerRows
  <2> QED
    BY <2>2, Zenon DEF GoesThrough
<1>13. RowValues(r[N], J, c, B, i, E)
  <2>1. RowsOf(r, check, o, i, c - o, short)
    BY <1>12
  <2>2. c - o \in 0 .. c - o
    BY <1>1
  <2>3. RowValues(r[c - o], J, o + (c - o), B, i, E)
    BY ONLY <1>11, <2>1, <2>2, InnerValue
  <2>4. o + (c - o) = c
    BY <1>1
  <2> QED
    BY <2>3, <2>4
<1>14. r[N][0] \in Fractions /\ J[0][c] \in Nat /\ IsFraction(r[N][0], J[0][c] * B[0], B[i + 1])
  <2>1. 0 \in 0 .. E
    BY <1>1
  <2> QED
    BY <1>13, <2>1 DEF RowValues
<1>15. J[0][c] = (u[E][o] + v[E][o]) * k
  <2>1. WalkParts(u, v, h, g, d, z, E, c)
    <3> SUFFICES ASSUME NEW j \in 0 .. E - 1, NEW m \in 1 .. c
                 PROVE  /\ Took(u, v, h, g, j, m) = (u[j][m] + v[j][m]) * (m * d[j])
                        /\ u[j + 1][m] = (u[j][m] + v[j][m]) * z[j][m]
      BY DEF WalkParts
    <3>1. j \in 0 .. i - 1 /\ i \in 0 .. n
      BY <1>1
    <3>2. /\ Took(u, v, h, g, j, m) = (u[j][m] + v[j][m]) * (m * d[j])
          /\ u[j + 1][m] = (u[j][m] + v[j][m]) * RestOf(m, d[j], pos[j])
      BY <3>1, PlainParts
    <3>3. z[j][m] = RestOf(m, d[j], pos[j])
      BY <1>4 DEF PartsOf
    <3> QED
      BY <3>2, <3>3
  <2>2. WalkChances(b, h, g, n, c) /\ Walk(u, v, b, h, g, n, c)
    BY DEF WalkSetting
  <2>3. E \in 0 .. n /\ o \in 1 .. c /\ k \in Nat
    BY <1>1, <1>9
  <2> QED
    BY ONLY <1>5, <1>10, <2>1, <2>2, <2>3, BackwardMeets
<1>16. B[0] = 1
  BY DEF Products
<1> DEFINE x == J[0][c]
<1>17. x * B[0] = x
  BY <1>14, <1>16
<1> QED
  BY <1>9, <1>12, <1>14, <1>15, <1>17 DEF a

\* R's value is that of r_inner, and 0 where R makes it so.
LEMMA RValue ==
  ASSUME NEW check, NEW d, NEW pos, NEW left, NEW n, NEW c, NEW b, NEW h, NEW g, NEW u, NEW v,
         WalkSetting(check, d, pos, left, n, c, b, h, g, u, v), NEW i \in 1 .. n - 1,
         PlainBelow(d, pos, left, b, h, g, c, i), NEW B, Products(B, pos, i + 1),
         NEW o \in 1 .. c, NEW short \in {0, 1}
  PROVE  LET r == R(check, o, c, 0, i, short)
             a == Comes(u, v, i, o, short) * PartOf(o, d[i], pos[i])
         IN  r \in Fractions /\ a \in Nat /\ IsFraction(r, a, B[i + 1])
<1> DEFINE r == R(check, o, c, 0, i, short)
           Guard == \/ o > c \/ 0 > i \/ 0 > i - c + o - short
                    \/ Less(One, Scaled(o, check[i - 1]))
           s == Comes(u, v, i, o, short)
           q == PartOf(o, d[i], pos[i])
           bi == B[i + 1]
           w == i - 1
<1>1. /\ n \in Nat /\ c \in Nat \ {0} /\ i \in Nat \ {0} /\ i \in 0 .. n - 1 /\ i \in 0 .. n
      /\ o \in Nat \ {0} /\ o <= c
      /\ w \in 0 .. n - 1 /\ w \in 0 .. i - 1 /\ w + 1 = i /\ w \in Nat
      /\ i + 1 \in 0 .. i + 1
  BY DEF WalkSetting
<1>2. r = IF Guard THEN Zero ELSE RInner(check, o, c, 0, i, short)
  BY DEF R
<1>3. q \in Nat
  <2> DEFINE e == d[i]
             p == pos[i]
  <2>1. e \in Nat /\ p \in Nat \ {0}
    BY <1>1 DEF WalkSetting, ChancesOf
  <2> HIDE DEF e, p
  <2>2. PartOf(o, e, p) \in 0 .. p
    BY <1>1, <2>1, PartIs
  <2>3. PartOf(o, e, p) \in Nat
    BY <2>1, <2>2
  <2> QED
    BY <2>3 DEF e, p
<1>4. bi \in Nat \ {0}
  BY <1>1 DEF Products
<1>5. u[i][o] \in Nat /\ v[i][o] \in Nat /\ s \in Nat
  <2>1. Walk(u, v, b, h, g, n, c)
    BY DEF WalkSetting
  <2>2. u[i][o] \in Nat /\ v[i][o] \in Nat
    BY <1>1, <2>1 DEF Walk
  <2> QED
    BY <2>2 DEF Comes
<1>6. ASSUME Guard PROVE s = 0
  <2>1. CASE c - o > i - short
    <3>1. short = 0 => c - o > i
      BY <2>1
    <3>2. short = 1 => c - o >= i
      BY <1>1, <2>1
    <3>3. WalkChances(b, h, g, n, c) /\ Walk(u, v, b, h, g, n, c)
      BY DEF WalkSetting
    <3>4. (o <= c - i => u[i][o] = 0) /\ (o < c - i => v[i][o] = 0)
      BY <1>1, <3>3, PassedBounds
    <3>5. CASE short = 0
      <4>1. o < c - i /\ o <= c - i
        BY <1>1, <3>1, <3>5
      <4> QED
        BY <3>4, <3>5, <4>1 DEF Comes
    <3>6. CASE short = 1
      <4>1. o <= c - i
        BY <1>1, <3>2, <3>6
      <4> QED
        BY <3>4, <3>6, <4>1 DEF Comes
    <3> QED
      BY <3>5, <3>6
  <2>2. CASE Less(One, Scaled(o, check[w]))
    <3> DEFINE e == d[w]
               p == pos[w]
               x == check[w]
               m == left[w]
    <3>1. e \in Nat \ {0} /\ p \in Nat \ {0} /\ x \in Fractions /\ IsFraction(x, e, p)
      BY <1>1 DEF WalkSetting, ChancesOf
    <3>2. m \in Nat /\ m * e <= p /\ left[i] \in Nat /\ left[i] <= m
      <4>1. m * e <= p
        BY <1>1 DEF PlainBelow, PlainAt
      <4>2. w \in 0 .. n
        BY <1>1
      <4>3. Dropping(left, n, c)
        BY DEF WalkSetting
      <4>4. m \in Nat /\ left[i] \in Nat
        BY <1>1, <4>2, <4>3 DEF Dropping
      <4>5. left[w + 1] = m \/ left[w + 1] = m - 1
        BY <1>1, <4>3 DEF Dropping
      <4> HIDE DEF m, w, e, p
      <4> QED
        BY <1>1, <4>1, <4>4, <4>5
    <3>3. Less(One, Scaled(o, x))
      BY <2>2
    <3> HIDE DEF e, p, x, m, w
    <3>4. p < o * e
      BY <1>1, <3>1, <3>3, LeastOfChance
    <3>5. m < o
      <4> SUFFICES ASSUME o <= m PROVE FALSE
        BY <1>1, <3>2
      <4>1. e * o <= e * m
        BY <1>1, <3>1, <3>2, ProductOrder
      <4> DEFINE y == e * o
                 t == e * m
      <4>2. y \in Int /\ t \in Int /\ y <= t /\ p < y /\ t <= p
        BY <1>1, <3>1, <3>2, <3>4, <4>1
      <4> HIDE DEF y, t
      <4> QED
        BY <3>1, <4>2
    <3>6. left[i] < o
      BY <1>1, <3>2, <3>5
    <3>7. u[i][o] = 0 /\ v[i][o] = 0
      BY <1>1, <3>6, NoMoreLeft
    <3> QED
      BY <3>7 DEF Comes
  <2>3. c - o > i - short \/ Less(One, Scaled(o, check[w]))
    BY <1>1, <1>6
  <2> QED
    BY <2>1, <2>2, <2>3
<1>7. CASE Guard
  <2>1. r = Zero /\ s = 0
    BY <1>2, <1>6, <1>7
  <2> HIDE DEF r, s, q, bi
  <2>2. s * q = 0
    BY <1>3, <2>1
  <2>3. 0 * bi = 0 * 1
    BY <1>4
  <2>4. Zero \in Fractions /\ IsFraction(Zero, 0, bi)
    BY <2>3 DEF Zero, IsFraction, Fractions
  <2> QED
    BY <2>1, <2>2, <2>4 DEF r, s, q, bi
<1>8. CASE ~Guard
  <2>1. r = RInner(check, o, c, 0, i, short)
    BY <1>2, <1>8
  <2>2. RInner(check, o, c, 0, i, short) \in Fractions
        /\ IsFraction(RInner(check, o, c, 0, i, short), s * q, bi)
    BY RInnerValue
  <2> HIDE DEF r, s, q, bi
  <2>3. s * q \in Nat
    BY <1>3, <1>5
  <2> QED
    BY <2>1, <2>2, <2>3 DEF r, s, q, bi
<1> QED
  BY <1>7, <1>8

\* Disk e gets more than all of the walks that come with left[e] copies left.
Overdone(d, pos, left, n, c, e, l) ==
  /\ e \in 1 .. n - 1 /\ l = left[e] /\ l \in 2 .. c
  /\ pos[e] < l * d[e] /\ (l - 1) * d[e] < pos[e]

\* What cStar's k_i is part of: what disk e gets too few
TooFewOf(u, v, d, pos, e, l) ==
  (u[e][l] + v[e][l]) * (l * d[e] - pos[e]) + v[e][l - 1] * ((l - 1) * d[e])

\* What disk e takes of the walks with o copies left, none just after a copy if o is l - 1
Taking(u, v, d, pos, e, l, o) ==
  Comes(u, v, e, o, IF o = l - 1 THEN 1 ELSE 0) * PartOf(o, d[e], pos[e])

\* It is all for l copies, none just after a copy for l - 1, and else m parts of d.
LEMMA TakingIs ==
  ASSUME NEW check, NEW d, NEW pos, NEW left, NEW n, NEW c, NEW b, NEW h, NEW g, NEW u, NEW v,
         WalkSetting(check, d, pos, left, n, c, b, h, g, u, v), NEW e, NEW l,
         Overdone(d, pos, left, n, c, e, l), NEW o \in 1 .. c
  PROVE  /\ o = l => Taking(u, v, d, pos, e, l, o) = (u[e][o] + v[e][o]) * pos[e]
         /\ o = l - 1 => Taking(u, v, d, pos, e, l, o) = u[e][o] * (o * d[e])
         /\ o # l /\ o # l - 1 =>
              Taking(u, v, d, pos, e, l, o) = (u[e][o] + v[e][o]) * (o * d[e])
<1> DEFINE D == d[e]
           p == pos[e]
           x == u[e][o]
           y == v[e][o]
           q == PartOf(o, D, p)
           t == Taking(u, v, d, pos, e, l, o)
<1>1. /\ n \in Nat /\ c \in Nat /\ e \in 0 .. n - 1 /\ e \in 0 .. n
      /\ o \in Nat /\ l \in Nat /\ l >= 2
      /\ l = left[e] /\ p < l * D /\ (l - 1) * D < p
  BY DEF WalkSetting, Overdone
<1>2. D \in Nat \ {0} /\ p \in Nat \ {0}
  BY <1>1 DEF WalkSetting, ChancesOf
<1>3. x \in Nat /\ y \in Nat
  <2>1. Walk(u, v, b, h, g, n, c)
    BY DEF WalkSetting
  <2> QED
    BY <1>1, <2>1 DEF Walk
<1>4. ASSUME o > l PROVE x = 0 /\ y = 0
  <2>1. left[e] < o
    BY <1>1, <1>4
  <2> QED
    BY <1>1, <2>1, NoMoreLeft
<1>5. t = (IF o = l - 1 THEN x ELSE x + y) * q
  BY DEF Taking, Comes
<1> HIDE DEF D, p, x, y, t
<1>6. ASSUME o < l PROVE q = o * D
  <2>1. D * o <= D * (l - 1)
    BY <1>1, <1>2, <1>6, ProductOrder
  <2> DEFINE r == o * D
             s == (l - 1) * D
  <2>2. r \in Int /\ s \in Int /\ r <= s /\ s < p
    BY <1>1, <1>2, <2>1
  <2> HIDE DEF r, s
  <2>3. r < p
    BY <1>2, <2>2
  <2> QED
    BY <2>3 DEF PartOf, r
<1>7. ASSUME o = l PROVE q = p
  <2> DEFINE r == o * D
  <2>1. r \in Int /\ p < r
    BY <1>1, <1>2, <1>7
  <2> HIDE DEF r
  <2>2. ~(r < p)
    BY <1>2, <2>1
  <2> QED
    BY <2>2 DEF PartOf, r
<1>8. q \in Nat
  <2>1. PartOf(o, D, p) \in 0 .. p
    BY <1>1, <1>2, PartIs
  <2> QED
    BY <1>2, <2>1
<1> HIDE DEF q
<1>9. CASE o = l
  BY <1>1, <1>5, <1>7, <1>9 DEF t, x, y, p
<1>10. CASE o = l - 1
  BY <1>1, <1>5, <1>6, <1>10 DEF t, x, D
<1>11. CASE o # l /\ o # l - 1 /\ o < l
  BY <1>1, <1>5, <1>6, <1>11 DEF t, x, y, D
<1>12. CASE o > l
  <2>1. (x + y) * q = 0 /\ (x + y) * (o * D) = 0 /\ o # l - 1 /\ o # l
    BY <1>1, <1>2, <1>4, <1>8, <1>12
  <2> QED
    BY <1>5, <1>12, <2>1 DEF t, x, y, D
<1> QED
  BY <1>1, <1>9, <1>10, <1>11, <1>12

\* k_i's value
LEMMA KiValue ==
  ASSUME NEW check, NEW d, NEW pos, NEW left, NEW n, NEW c, NEW b, NEW h, NEW g, NEW u, NEW v,
         WalkSetting(check, d, pos, left, n, c, b, h, g, u, v), NEW e, NEW l,
         Overdone(d, pos, left, n, c, e, l), PlainBelow(d, pos, left, b, h, g, c, e),
         NEW B, Products(B, pos, e + 1), NEW share \in Fractions,
         d[e] * Weighted(u, v, c, e) \in Nat,
         IsFraction(share, d[e] * Weighted(u, v, c, e), B[e + 1])
  PROVE  /\ TooFewOf(u, v, d, pos, e, l) \in Nat
         /\ Ki(check, share, c, e, l) \in Fractions
         /\ IsFraction(Ki(check, share, c, e, l), TooFewOf(u, v, d, pos, e, l), B[e + 1])
<1> DEFINE D == d[e]
           p == pos[e]
           W == Weighted(u, v, c, e)
           K == TooFewOf(u, v, d, pos, e, l)
           bw == B[e + 1]
           f == [o \in 1 .. c |-> R(check, o, c, 0, e, IF o = l - 1 THEN 1 ELSE 0)]
           N == [o \in 1 .. c |-> Taking(u, v, d, pos, e, l, o)]
           S == SumFunctionOnSet(N, 1 .. c)
<1>1. /\ n \in Nat /\ c \in Nat /\ l \in Nat
      /\ e \in 1 .. n - 1 /\ e \in 0 .. n - 1 /\ e \in 0 .. n
      /\ l \in 1 .. c /\ l - 1 \in 1 .. c /\ l # l - 1 /\ p < l * D /\ e + 1 \in 0 .. e + 1
  BY DEF WalkSetting, Overdone
<1>2. D \in Nat \ {0} /\ p \in Nat \ {0} /\ bw \in Nat \ {0}
  BY <1>1 DEF WalkSetting, ChancesOf, Products
<1>3. IsFiniteSet(1 .. c)
  BY <1>1, FS_Interval
<1>4. ASSUME NEW o \in 1 .. c
      PROVE  f[o] \in Fractions /\ N[o] \in Nat /\ IsFraction(f[o], N[o], bw)
  <2> DEFINE short == IF o = l - 1 THEN 1 ELSE 0
  <2>1. short \in {0, 1}
    OBVIOUS
  <2> HIDE DEF short
  <2>2. LET r == R(check, o, c, 0, e, short)
            a == Comes(u, v, e, o, short) * PartOf(o, d[e], pos[e])
        IN  r \in Fractions /\ a \in Nat /\ IsFraction(r, a, B[e + 1])
    BY <1>1, <2>1, RValue
  <2>3. f[o] = R(check, o, c, 0, e, short)
        /\ N[o] = Comes(u, v, e, o, short) * PartOf(o, d[e], pos[e])
    BY DEF short, Taking
  <2> HIDE DEF f, N
  <2> QED
    BY <2>2, <2>3
<1>5. SumOver(f) \in Fractions /\ IsFraction(SumOver(f), S, bw)
  <2>1. DOMAIN f = 1 .. c /\ \A o \in 1 .. c : f[o] \in Fractions
    BY <1>4
  <2>2. \A o \in 1 .. c : N[o] \in Int /\ IsFraction(f[o], N[o], bw)
    BY <1>4
  <2> HIDE DEF f, N, bw
  <2>3. SumOver(f) \in Fractions
    BY <1>3, <2>1, FractionSum
  <2>4. IsFraction(SumOver(f), SumFunctionOnSet(N, 1 .. c), bw)
    BY <1>2, <1>3, <2>1, <2>2, FractionSumValue
  <2> QED
    BY <2>3, <2>4
<1>6. S \in Nat
  <2>1. \A o \in 1 .. c : N[o] \in Nat
    BY <1>4
  <2> HIDE DEF N
  <2> QED
    BY <1>3, <2>1, SumOfNaturals
<1>7. D * W - S = K
  <2>1. WalkChances(b, h, g, n, c) /\ Walk(u, v, b, h, g, n, c)
    BY DEF WalkSetting
  <2>2. \A m \in 1 .. c : m # l /\ m # l - 1 => N[m] = (u[e][m] + v[e][m]) * (m * D)
    BY TakingIs
  <2>3. N[l] = (u[e][l] + v[e][l]) * p /\ N[l - 1] = u[e][l - 1] * ((l - 1) * D)
    BY <1>1, TakingIs
  <2> DEFINE y == l - 1
  <2>4. /\ PartlyTaken(u, v, c, e, D, p, l, y, N)
        /\ y \in 1 .. c /\ l # y /\ l \in 1 .. c /\ e \in 0 .. n - 1 /\ D \in Nat /\ p \in Nat
    BY <1>1, <1>2, <2>2, <2>3 DEF PartlyTaken
  <2> HIDE DEF N, D, p, y
  <2>5. Misses(u, v, c, e, D, p, l, y, N)
    BY ONLY <2>1, <2>4, MissedIs
  <2> QED
    BY <2>5 DEF Misses, TooFewOf, y, D, p
<1>8. K \in Nat
  <2> DEFINE x == u[e][l] + v[e][l]
             y == v[e][l - 1]
  <2>1. x \in Nat /\ y \in Nat
    <3>1. Walk(u, v, b, h, g, n, c)
      BY DEF WalkSetting
    <3>2. u[e][l] \in Nat /\ v[e][l] \in Nat /\ v[e][l - 1] \in Nat
      BY <1>1, <3>1 DEF Walk
    <3> QED
      BY <3>2
  <2>2. K = x * (l * D - p) + y * ((l - 1) * D)
    BY DEF TooFewOf
  <2> HIDE DEF x, y, D, p, K
  <2>3. l * D - p \in Nat /\ (l - 1) * D \in Nat
    <3>1. l * D \in Nat /\ (l - 1) * D \in Nat
      BY <1>1, <1>2
    <3> DEFINE r == l * D
    <3>2. r \in Nat /\ p < r
      BY <1>1, <3>1
    <3> HIDE DEF r
    <3>3. r - p \in Nat
      BY <1>2, <3>2
    <3> QED
      BY <3>1, <3>3 DEF r
  <2> DEFINE r == l * D - p
             s == (l - 1) * D
  <2>4. r \in Nat /\ s \in Nat /\ K = x * r + y * s
    BY <2>2, <2>3
  <2> HIDE DEF r, s
  <2>5. x * r \in Nat /\ y * s \in Nat
    BY <2>1, <2>4
  <2> QED
    BY <2>4, <2>5
<1> DEFINE T == D * W
           sum == SumOver(f)
<1>9. T \in Nat /\ S \in Nat /\ S <= T /\ T - S = K /\ sum \in Fractions /\ IsFraction(sum, S, bw)
      /\ IsFraction(share, T, bw)
  <2>1. T \in Nat /\ IsFraction(share, T, bw) /\ T - S = K /\ sum \in Fractions
        /\ IsFraction(sum, S, bw)
    BY <1>5, <1>7
  <2> HIDE DEF T, S, K, sum, bw, f
  <2>2. S <= T
    BY <1>6, <1>8, <2>1
  <2> QED
    BY <1>6, <2>1, <2>2
<1>10. Ki(check, share, c, e, l) = Minus(share, sum)
  BY DEF Ki
<1> HIDE DEF T, S, K, sum, bw, f
<1>11. Minus(share, sum) \in Fractions /\ IsFraction(Minus(share, sum), T - S, bw)
  BY <1>2, <1>9, MinusValue
<1> QED
  BY <1>8, <1>9, <1>10, <1>11 DEF K, bw

\* Disk e with a disk before it that is not smaller, and for which left[e] copies are not enough
Correctable(d, pos, left, n, c, e, l) ==
  /\ Overdone(d, pos, left, n, c, e, l) /\ e \in 2 .. n - 2
  /\ d[e] <= d[e - 1] /\ l * d[e - 1] < pos[e - 1]

\* Those who come to disk e with l copies left, and just after a copy with one less
LEMMA ArrivalsAre ==
  ASSUME NEW check, NEW d, NEW pos, NEW left, NEW n, NEW c, NEW b, NEW h, NEW g, NEW u, NEW v,
         WalkSetting(check, d, pos, left, n, c, b, h, g, u, v), NEW e, NEW l,
         Correctable(d, pos, left, n, c, e, l), PlainBelow(d, pos, left, b, h, g, c, e)
  PROVE  /\ u[e - 1][l] \in Nat /\ v[e - 1][l] \in Nat
         /\ v[e][l - 1] = (u[e - 1][l] + v[e - 1][l]) * (l * d[e - 1])
         /\ u[e][l] + v[e][l] = (u[e - 1][l] + v[e - 1][l]) * (pos[e - 1] - l * d[e - 1])
<1> DEFINE w == e - 1
           D == d[e]
           p == pos[e]
           E == d[w]
           q == pos[w]
           m == left[w]
           a == u[w][l] + v[w][l]
<1>1. /\ n \in Nat /\ c \in Nat
      /\ e \in 0 .. n - 1 /\ e \in 0 .. n /\ w \in 0 .. n - 1 /\ w \in 0 .. n
      /\ w \in 0 .. e - 1 /\ w + 1 = e /\ l \in Nat /\ l >= 2 /\ l \in 1 .. c /\ l - 1 \in 1 .. c
      /\ l - 1 # c /\ (l - 1) + 1 = l /\ l = left[e] /\ p < l * D /\ D <= E /\ l * E < q
  BY DEF WalkSetting, Overdone, Correctable
<1>2. /\ D \in Nat \ {0} /\ p \in Nat \ {0} /\ E \in Nat \ {0} /\ q \in Nat \ {0} /\ q = p + E
  <2>1. D \in Nat \ {0} /\ E \in Nat \ {0} /\ p \in Nat \ {0} /\ q \in Nat \ {0}
    BY <1>1 DEF WalkSetting, ChancesOf
  <2>2. pos[w] = pos[w + 1] + d[w]
    BY <1>1 DEF WalkSetting
  <2> QED
    BY <1>1, <2>1, <2>2
<1>3. Walk(u, v, b, h, g, n, c)
  BY DEF WalkSetting
<1>4. m = l
  <2>1. m \in Nat /\ left[w + 1] = IF m * E < q THEN m ELSE m - 1
    BY <1>1 DEF WalkSetting, Dropping
  <2>2. m * E <= q
    BY <1>1 DEF PlainBelow, PlainAt
  <2>3. left[w + 1] = l
    BY <1>1
  <2> HIDE DEF m, E, q, D, p
  <2>4. SUFFICES ASSUME ~(m * E < q) PROVE FALSE
    BY <2>1, <2>3
  <2>5. m = l + 1
    BY <1>1, <2>1, <2>3, <2>4
  <2>6. m * E = l * E + E
    BY <1>1, <1>2, <2>5
  <2>7. l * D <= l * E
    BY <1>1, <1>2, ProductOrder
  <2> DEFINE r == l * E
             s == l * D
             t == m * E
  <2>8. /\ r \in Int /\ s \in Int /\ t \in Int
        /\ t = r + E /\ s <= r /\ p < s /\ t <= q /\ ~(t < q)
        /\ q = p + E
    BY <1>1, <1>2, <2>1, <2>2, <2>4, <2>6, <2>7
  <2> HIDE DEF r, s, t
  <2> QED
    BY <1>2, <2>8
<1>5. /\ u[w][l] \in Nat /\ v[w][l] \in Nat /\ Took(u, v, h, g, w, l) = a * (l * E)
      /\ u[w + 1][l] = a * RestOf(l, E, q)
  BY <1>1, PlainParts
<1>6. v[e][l - 1] = a * (l * E)
  <2>1. v[w + 1][l - 1] = IF l - 1 = c THEN 0 ELSE Took(u, v, h, g, w, (l - 1) + 1)
    BY <1>1, <1>3 DEF Walk
  <2> HIDE DEF w
  <2> QED
    BY <1>1, <1>5, <2>1
<1>7. u[e][l] = a * (q - l * E)
  <2>1. RestOf(l, E, q) = q - l * E
    BY <1>1 DEF RestOf
  <2> HIDE DEF w
  <2> QED
    BY <1>1, <1>5, <2>1
<1>8. v[e][l] = 0
  <2>1. v[w + 1][l] = IF l = c THEN 0 ELSE Took(u, v, h, g, w, l + 1)
    BY <1>1, <1>3 DEF Walk
  <2>2. ASSUME l # c PROVE Took(u, v, h, g, w, l + 1) = 0
    <3>1. l + 1 \in 1 .. c /\ left[w] < l + 1
      BY <1>1, <1>4, <2>2
    <3>2. u[w][l + 1] = 0 /\ v[w][l + 1] = 0
      BY <1>1, <3>1, NoMoreLeft
    <3>3. Took(u, v, h, g, w, l + 1) = (u[w][l + 1] + v[w][l + 1]) * ((l + 1) * d[w])
      BY <1>1, <3>1, PlainParts
    <3>4. (l + 1) * E \in Nat
      BY <1>1, <1>2
    <3> DEFINE r == (l + 1) * E
    <3>5. r \in Nat /\ Took(u, v, h, g, w, l + 1) = (0 + 0) * r
      BY <3>2, <3>3, <3>4
    <3> HIDE DEF r
    <3> QED
      BY <3>5
  <2> HIDE DEF w
  <2> QED
    BY <1>1, <2>1, <2>2
<1>9. u[e][l] + v[e][l] = a * (q - l * E)
  <2> DEFINE x == u[e][l]
             y == v[e][l]
             r == q - l * E
  <2>1. r \in Int /\ a \in Int /\ x = a * r /\ y = 0
    BY <1>1, <1>2, <1>5, <1>7, <1>8
  <2> HIDE DEF x, y, r, a
  <2>2. a * r \in Int
    BY <2>1
  <2> QED
    BY <2>1, <2>2 DEF x, y, r
<1> QED
  BY <1>5, <1>6, <1>9

\* Disk e misses less than pos[e] of those who come just after a copy.
LEMMA MissesLess ==
  ASSUME NEW check, NEW d, NEW pos, NEW left, NEW n, NEW c, NEW b, NEW h, NEW g, NEW u, NEW v,
         WalkSetting(check, d, pos, left, n, c, b, h, g, u, v), NEW e, NEW l,
         Correctable(d, pos, left, n, c, e, l), PlainBelow(d, pos, left, b, h, g, c, e),
         v[e][l - 1] > 0
  PROVE  TooFewOf(u, v, d, pos, e, l) < pos[e] * v[e][l - 1]
<1> DEFINE w == e - 1
           D == d[e]
           p == pos[e]
           E == d[w]
           q == pos[w]
           a == u[w][l] + v[w][l]
           V == v[e][l - 1]
           U == u[e][l] + v[e][l]
           K == TooFewOf(u, v, d, pos, e, l)
<1>1. /\ n \in Nat /\ c \in Nat /\ e \in 0 .. n - 1 /\ w \in 0 .. n - 1
      /\ w + 1 = e /\ l \in Nat /\ l >= 2 /\ p < l * D /\ D <= E /\ l * E < q /\ (l - 1) * D < p
  BY DEF WalkSetting, Overdone, Correctable
<1>2. /\ D \in Nat \ {0} /\ p \in Nat \ {0} /\ E \in Nat \ {0} /\ q \in Nat \ {0} /\ q = p + E
  <2>1. D \in Nat \ {0} /\ E \in Nat \ {0} /\ p \in Nat \ {0} /\ q \in Nat \ {0}
    BY <1>1 DEF WalkSetting, ChancesOf
  <2>2. pos[w] = pos[w + 1] + d[w]
    BY <1>1 DEF WalkSetting
  <2> QED
    BY <1>1, <2>1, <2>2
<1>3. a \in Nat /\ V = a * (l * E) /\ U = a * (q - l * E)
  <2>1. /\ u[e - 1][l] \in Nat /\ v[e - 1][l] \in Nat
        /\ v[e][l - 1] = (u[e - 1][l] + v[e - 1][l]) * (l * d[e - 1])
        /\ u[e][l] + v[e][l] = (u[e - 1][l] + v[e - 1][l]) * (pos[e - 1] - l * d[e - 1])
    BY ArrivalsAre
  <2> QED
    BY <2>1
<1>4. K = U * (l * D - p) + V * ((l - 1) * D)
  BY DEF TooFewOf
<1>5. V > 0
  OBVIOUS
<1> HIDE DEF w, D, p, E, q, a, V, U, K
<1>6. p * V - K = (a * p) * (p + E - l * D)
  <2>1. K = (a * ((p + E) - l * E)) * (l * D - p) + (a * (l * E)) * ((l - 1) * D)
    BY <1>2, <1>3, <1>4
  <2>2. p * (a * (l * E))
          - ((a * ((p + E) - l * E)) * (l * D - p) + (a * (l * E)) * ((l - 1) * D))
        = (a * p) * (p + E - l * D)
    BY <1>1, <1>2, <1>3
  <2> QED
    BY <1>3, <2>1, <2>2
<1>7. a > 0
  <2> SUFFICES ASSUME a = 0 PROVE FALSE
    BY <1>3
  <2> DEFINE r == l * E
  <2>1. r \in Int /\ V = 0 * r
    BY <1>1, <1>2, <1>3
  <2> HIDE DEF r
  <2> QED
    BY <1>5, <2>1
<1>8. p + E - l * D > 0
  <2> DEFINE r == (l - 1) * D
             s == l * D
  <2>1. r \in Int /\ s \in Int /\ s = r + D /\ r < p
    BY <1>1, <1>2
  <2> HIDE DEF r, s
  <2>2. p + E - s > 0
    BY <1>1, <1>2, <2>1
  <2> QED
    BY <2>2 DEF s
<1> DEFINE x == a * p
           y == p + E - l * D
<1>9. x \in Nat \ {0} /\ y \in Nat \ {0}
  <2>1. x \in Nat \ {0}
    <3>1. a \in Nat \ {0}
      BY <1>3, <1>7
    <3> QED
      BY <1>2, <3>1
  <2>2. y \in Int
    BY <1>1, <1>2
  <2> HIDE DEF x, y
  <2>3. y > 0
    BY <1>8 DEF y
  <2> QED
    BY <2>1, <2>2, <2>3
<1> DEFINE z == p * V
<1>10. z \in Int /\ K \in Int /\ z - K = x * y
  <2>1. V \in Int /\ U \in Int
    <3>1. l * E \in Int /\ q - l * E \in Int
      BY <1>1, <1>2
    <3> DEFINE r == l * E
               s == q - l * E
    <3>2. r \in Int /\ s \in Int /\ V = a * r /\ U = a * s
      BY <1>3, <3>1
    <3> HIDE DEF r, s
    <3> QED
      BY <1>3, <3>2
  <2>2. l * D - p \in Int /\ (l - 1) * D \in Int
    BY <1>1, <1>2
  <2> DEFINE r == l * D - p
             s == (l - 1) * D
  <2>3. r \in Int /\ s \in Int /\ K = U * r + V * s
    BY <1>4, <2>2
  <2>4. K \in Int
    <3> HIDE DEF r, s
    <3> QED
      BY <2>1, <2>3
  <2>5. z \in Int
    BY <1>2, <2>1
  <2> QED
    BY <1>6, <2>4, <2>5
<1> HIDE DEF x, y, z
<1>11. x * y \in Nat \ {0}
  BY <1>9
<1> DEFINE t == x * y
<1>12. t \in Nat \ {0} /\ z - K = t
  BY <1>10, <1>11
<1> HIDE DEF t
<1>13. K < z
  BY <1>10, <1>12
<1> QED
  BY <1>13 DEF K, z, p, V

\* Where there is no correction, the copies taken are the disk's part of the weight.
LEMMA PlainTaken ==
  ASSUME NEW check, NEW d, NEW pos, NEW left, NEW n, NEW c, NEW b, NEW h, NEW g, NEW u, NEW v,
         WalkSetting(check, d, pos, left, n, c, b, h, g, u, v), NEW i \in 0 .. n - 1,
         PlainAt(d, pos, left, b, h, g, c, i)
  PROVE  /\ b[i] = pos[i] * 1
         /\ TakenAt(u, v, h, g, c, i) = 1 * (pos[i] - pos[i + 1]) * Weighted(u, v, c, i)
<1> DEFINE q == d[i]
           W == Weighted(u, v, c, i)
           T == TakenAt(u, v, h, g, c, i)
           p == pos[i]
           r == pos[i + 1]
<1>1. /\ n \in Nat /\ c \in Nat /\ WalkChances(b, h, g, n, c) /\ Walk(u, v, b, h, g, n, c)
  BY DEF WalkSetting
<1>2. b[i] = p /\ p \in Nat /\ p = r + q /\ q \in Nat
  BY DEF PlainAt, WalkSetting, ChancesOf
<1>3. r \in Nat
  <2>1. i + 1 \in 0 .. n - 1 \/ i + 1 = n
    BY <1>1
  <2> QED
    BY <2>1 DEF WalkSetting, ChancesOf
<1>4. \A m \in 1 .. c : Took(u, v, h, g, i, m) = q * ((u[i][m] + v[i][m]) * m)
  <2> SUFFICES ASSUME NEW m \in 1 .. c
               PROVE  Took(u, v, h, g, i, m) = q * ((u[i][m] + v[i][m]) * m)
    OBVIOUS
  <2> DEFINE x == u[i][m]
             y == v[i][m]
  <2>1. x \in Nat /\ y \in Nat /\ Took(u, v, h, g, i, m) = (x + y) * (m * q)
    BY PlainTakes
  <2> HIDE DEF x, y, q
  <2>2. (x + y) * (m * q) = q * ((x + y) * m)
    BY <1>1, <1>2, <2>1
  <2> QED
    BY <2>1, <2>2 DEF x, y
<1>5. T = q * W
  <2>1. q \in Int
    BY <1>2
  <2> HIDE DEF q
  <2> QED
    BY <1>1, <1>4, <2>1, TakenIs
<1>6. W \in Int
  BY <1>1, WeightedStep
<1> HIDE DEF p, r, q, W, T
<1>7. p = p * 1 /\ T = 1 * (p - r) * W
  BY <1>2, <1>3, <1>5, <1>6
<1> QED
  BY <1>2, <1>7 DEF p, r, T, W

\* Before a disk with no correction before it, the weight is that of the disks from there on.
LEMMA WeightsBelow ==
  ASSUME NEW check, NEW d, NEW pos, NEW left, NEW n, NEW c, NEW b, NEW h, NEW g, NEW u, NEW v,
         WalkSetting(check, d, pos, left, n, c, b, h, g, u, v), NEW E \in 0 .. n,
         PlainBelow(d, pos, left, b, h, g, c, E), NEW B, Products(B, pos, E)
  PROVE  Weighted(u, v, c, E) \in Nat /\ pos[0] * Weighted(u, v, c, E) = c * pos[E] * B[E]
<1>1. /\ n \in Nat \ {0} /\ c \in Nat \ {0} /\ E \in Nat /\ E <= n
      /\ \A i \in 0 .. E - 1 : i \in 0 .. n - 1 /\ i \in 0 .. n
      /\ \A i \in 0 .. E : i \in 0 .. n
  BY DEF WalkSetting
<1>2. WalkChances(b, h, g, n, c) /\ Walk(u, v, b, h, g, n, c)
  BY DEF WalkSetting
<1>3. WalkChances(b, h, g, E, c)
  BY <1>1, <1>2 DEF WalkChances
<1>4. Walk(u, v, b, h, g, E, c)
  BY <1>1, <1>2 DEF Walk
<1>5. \A i \in 0 .. E - 1 : b[i] = pos[i]
  BY DEF PlainBelow, PlainAt
<1>6. Products(B, b, E)
  BY <1>5 DEF Products
<1>7. \A i \in 0 .. E : pos[i] \in Nat
  <2>1. \A i \in 0 .. n : i \in 0 .. n - 1 \/ i = n
    BY <1>1
  <2>2. \A i \in 0 .. n : pos[i] \in Nat
    BY <2>1 DEF WalkSetting, ChancesOf
  <2> QED
    BY <1>1, <2>2
<1>8. ASSUME NEW i \in 0 .. E - 1
      PROVE  \E s \in Int :
               /\ b[i] = pos[i] * s
               /\ TakenAt(u, v, h, g, c, i) = s * (pos[i] - pos[i + 1]) * Weighted(u, v, c, i)
  <2>1. i \in 0 .. n - 1 /\ PlainAt(d, pos, left, b, h, g, c, i) /\ 1 \in Int
    BY <1>1 DEF PlainBelow
  <2> QED
    BY <2>1, PlainTaken
<1>9. pos[0] * Weighted(u, v, c, E) = c * pos[E] * B[E]
  <2>1. E \in 0 .. E
    BY <1>1
  <2> QED
    BY <1>3, <1>4, <1>6, <1>7, <1>8, <2>1, WeightStays
<1>10. Weighted(u, v, c, E) \in Nat
  <2> DEFINE N == [m \in 1 .. c |-> (u[E][m] + v[E][m]) * m]
  <2>1. \A m \in 1 .. c : N[m] \in Nat
    <3> SUFFICES ASSUME NEW m \in 1 .. c PROVE (u[E][m] + v[E][m]) * m \in Nat
      OBVIOUS
    <3> DEFINE x == u[E][m]
               y == v[E][m]
    <3>1. x \in Nat /\ y \in Nat /\ m \in Nat
      BY <1>1, <1>2 DEF Walk
    <3> HIDE DEF x, y
    <3>2. (x + y) * m \in Nat
      BY <3>1
    <3> QED
      BY <3>2 DEF x, y
  <2>2. IsFiniteSet(1 .. c)
    BY <1>1, FS_Interval
  <2>3. Weighted(u, v, c, E) = SumFunctionOnSet(N, 1 .. c)
    BY DEF Weighted
  <2> HIDE DEF N
  <2> QED
    BY <2>1, <2>2, <2>3, SumOfNaturals
<1> QED
  BY <1>9, <1>10

\* The share of disk e: its part of the weight of those who come
LEMMA ShareValue ==
  ASSUME NEW check, NEW d, NEW pos, NEW left, NEW n, NEW c, NEW b, NEW h, NEW g, NEW u, NEW v,
         WalkSetting(check, d, pos, left, n, c, b, h, g, u, v), NEW e \in 0 .. n - 1,
         PlainBelow(d, pos, left, b, h, g, c, e), NEW B, Products(B, pos, e + 1)
  PROVE  /\ Ratio(c * d[e], pos[0]) \in Fractions /\ d[e] * Weighted(u, v, c, e) \in Nat
         /\ IsFraction(Ratio(c * d[e], pos[0]), d[e] * Weighted(u, v, c, e), B[e + 1])
<1> DEFINE D == d[e]
           p == pos[e]
           q == pos[0]
           W == Weighted(u, v, c, e)
           A == [i \in 0 .. e |-> B[i]]
           x == B[e]
           y == B[e + 1]
<1>1. /\ n \in Nat \ {0} /\ c \in Nat \ {0} /\ e \in Nat /\ e \in 0 .. n /\ 0 \in 0 .. n - 1
      /\ 0 \in 0 .. e /\ e \in 0 .. e /\ e + 1 \in 0 .. e + 1 /\ e \in 0 .. (e + 1) - 1
      /\ \A i \in 0 .. e : i \in 0 .. e + 1
      /\ \A i \in 0 .. e - 1 : i \in 0 .. e /\ i + 1 \in 0 .. e /\ i \in 0 .. (e + 1) - 1
  BY DEF WalkSetting
<1>2. D \in Nat \ {0} /\ p \in Nat \ {0} /\ q \in Nat \ {0}
  BY <1>1 DEF WalkSetting, ChancesOf
<1>3. x \in Nat \ {0} /\ y \in Nat \ {0} /\ y = x * p
  BY <1>1 DEF Products
<1>4. Products(A, pos, e) /\ A[e] = x
  BY <1>1 DEF Products
<1>5. W \in Nat /\ q * W = c * p * x
  <2> HIDE DEF A
  <2> QED
    BY <1>1, <1>4, WeightsBelow
<1> HIDE DEF D, p, q, W, x, y
<1>6. c * D \in Nat /\ D * W \in Nat
  BY <1>1, <1>2, <1>5
<1>7. (c * D) * y = (D * W) * q
  <2>1. (D * W) * q = D * (q * W)
    BY <1>2, <1>5
  <2>2. D * (c * p * x) = (c * D) * (x * p)
    BY <1>1, <1>2, <1>3
  <2> QED
    BY <1>3, <1>5, <2>1, <2>2
<1> DEFINE r == c * D
           s == D * W
<1>8. r \in Nat /\ s \in Nat /\ r * y = s * q
  BY <1>6, <1>7
<1> HIDE DEF r, s
<1>9. Ratio(r, q) \in Fractions /\ IsFraction(Ratio(r, q), r, q)
  BY <1>2, <1>8, RatioValue
<1>10. IsFraction(Ratio(r, q), s, y)
  BY <1>2, <1>3, <1>8, <1>9, ValueIs
<1> QED
  BY <1>8, <1>9, <1>10 DEF r, s, D, q, W, y

\* The corrected threshold of disk e: what it misses, of those who come just after a copy
LEMMA StarValue ==
  ASSUME NEW check, NEW d, NEW pos, NEW left, NEW n, NEW c, NEW b, NEW h, NEW g, NEW u, NEW v,
         WalkSetting(check, d, pos, left, n, c, b, h, g, u, v), NEW e, NEW l,
         Correctable(d, pos, left, n, c, e, l), PlainBelow(d, pos, left, b, h, g, c, e),
         R(check, l, c, 0, e - 1, 0)[1] > 0
  PROVE  /\ v[e][l - 1] \in Nat \ {0} /\ TooFewOf(u, v, d, pos, e, l) \in Nat
         /\ TooFewOf(u, v, d, pos, e, l) < pos[e] * v[e][l - 1]
         /\ CStarPart(check, pos, c, e, l) # One /\ CheckCStar(check, pos, c, e, l) \in Fractions
         /\ IsFraction(CheckCStar(check, pos, c, e, l), TooFewOf(u, v, d, pos, e, l),
                       pos[e] * v[e][l - 1])
<1> DEFINE w == e - 1
           p == pos[e]
           q == pos[e + 1]
           V == v[e][l - 1]
           K == TooFewOf(u, v, d, pos, e, l)
           share == Ratio(c * d[e], pos[0])
           ki == Ki(check, share, c, e, l)
           r == R(check, l, c, 0, e - 1, 0)
<1>1. /\ n \in Nat \ {0} /\ c \in Nat \ {0}
      /\ e \in 0 .. n - 1 /\ e \in 1 .. n - 1 /\ e + 1 \in 0 .. n - 1
      /\ w \in 1 .. n - 1 /\ w \in 0 .. n - 1 /\ w + 1 = e /\ e \in Nat /\ 0 \in 0 .. e + 1
      /\ l \in Nat /\ l >= 2 /\ l \in 1 .. c /\ l * d[w] < pos[w] /\ w = e - 1
      /\ Overdone(d, pos, left, n, c, e, l) /\ 0 \in 0 .. n - 1 /\ e + 1 \in Nat
  BY DEF WalkSetting, Overdone, Correctable
<1>2. p \in Nat \ {0} /\ q \in Nat \ {0} /\ d[e] = p - q
  <2>1. p \in Nat \ {0} /\ q \in Nat \ {0} /\ p = q + d[e] /\ d[e] \in Nat
    BY <1>1 DEF WalkSetting, ChancesOf
  <2> QED
    BY <2>1
<1>3. PICK B : Products(B, pos, e + 1)
  <2>1. \A i \in 0 .. (e + 1) - 1 : pos[i] \in Nat \ {0}
    <3>1. \A i \in 0 .. (e + 1) - 1 : i \in 0 .. n - 1
      BY <1>1
    <3> QED
      BY <3>1 DEF WalkSetting, ChancesOf
  <2> QED
    BY <1>1, <2>1, ProductsExist
<1> DEFINE A == [i \in 0 .. e |-> B[i]]
           be == B[e]
<1>4. Products(A, pos, w + 1) /\ A[w + 1] = be
  BY <1>1, <1>3 DEF Products
<1>5. be \in Nat \ {0} /\ B[e + 1] = be * p
  BY <1>1, <1>3 DEF Products
<1>6. PlainBelow(d, pos, left, b, h, g, c, w)
  <2>1. \A i \in 0 .. w - 1 : i \in 0 .. e - 1
    BY <1>1
  <2> QED
    BY <2>1 DEF PlainBelow, PlainAt
<1>7. u[w][l] \in Nat /\ v[w][l] \in Nat /\ V = (u[w][l] + v[w][l]) * (l * d[w])
  BY ArrivalsAre
<1>8. r \in Fractions /\ V \in Nat /\ IsFraction(r, V, be)
  <2>1. LET r1 == R(check, l, c, 0, w, 0)
            a == Comes(u, v, w, l, 0) * PartOf(l, d[w], pos[w])
        IN  r1 \in Fractions /\ a \in Nat /\ IsFraction(r1, a, A[w + 1])
    <3> HIDE DEF A, w
    <3> QED
      BY <1>1, <1>4, <1>6, RValue
  <2>2. Comes(u, v, w, l, 0) * PartOf(l, d[w], pos[w]) = V
    BY <1>1, <1>7 DEF Comes, PartOf
  <2> HIDE DEF A
  <2> QED
    BY <1>1, <1>4, <2>1, <2>2
<1>9. V > 0
  <2> HIDE DEF V, be
  <2> SUFFICES ASSUME V = 0 PROVE FALSE
    BY <1>8
  <2>1. r[1] * be = 0 * r[2]
    BY <1>8 DEF IsFraction
  <2>2. r[1] \in Nat /\ r[2] \in Nat /\ r[1] > 0
    BY <1>8 DEF Fractions
  <2> DEFINE x == r[1]
             y == r[2]
  <2>3. x \in Nat \ {0} /\ y \in Nat /\ x * be = 0 * y
    BY <2>1, <2>2
  <2> HIDE DEF x, y
  <2>4. x * be \in Nat \ {0}
    BY <1>5, <2>3
  <2> QED
    BY <2>3, <2>4
<1>10. share \in Fractions /\ d[e] * Weighted(u, v, c, e) \in Nat
       /\ IsFraction(share, d[e] * Weighted(u, v, c, e), B[e + 1])
  BY <1>1, <1>3, ShareValue
<1> HIDE DEF share, A
<1>11. K \in Nat /\ ki \in Fractions /\ IsFraction(ki, K, be * p)
  <2>1. K \in Nat /\ ki \in Fractions /\ IsFraction(ki, K, B[e + 1])
    BY <1>1, <1>3, <1>10, KiValue
  <2> QED
    BY <1>5, <2>1
<1>12. K < p * V
  BY <1>9, MissesLess
<1> DEFINE tmp == Over(Times(Ratio(1, l - 1), ki), r)
           cNew == Over(Scaled(q, tmp), Minus(One, tmp))
           star == Scaled(l - 1, Over(cNew, Plus(cNew, <<q, 1>>)))
<1>13. tmp # One /\ star \in Fractions /\ IsFraction(star, K, p * V)
  <2>1. V \in Nat \ {0}
    BY <1>8, <1>9
  <2> HIDE DEF V, K, p, q, be, ki, r
  <2> QED
    BY ONLY <1>1, <1>2, <1>5, <1>8, <1>11, <1>12, <2>1, CorrectedValue
<1>14. CStarPart(check, pos, c, e, l) = tmp
  <2>1. Ratio(c * (pos[e] - pos[e + 1]), pos[0]) = share
    BY <1>2 DEF share
  <2> QED
    BY <2>1 DEF CStarPart
<1>15. CheckCStar(check, pos, c, e, l) = star
  <2> HIDE DEF tmp
  <2> QED
    BY <1>14 DEF CheckCStar
<1> HIDE DEF tmp, star, V, K
<1> QED
  BY <1>8, <1>9, <1>11, <1>12, <1>13, <1>14, <1>15 DEF V, K

\* The disks as alignDisks leaves them: capacities d, and left copies along them
DisksOf(t, n) == [i \in 0 .. n - 1 |-> t.cPosition[i] - t.cPosition[i + 1]]

\* The chances of the disks: without corrections, or (sn of sd) with disk e corrected for l - 1
PassesOf(t, e, sd) ==
  [i \in DOMAIN t.cPosition |-> IF i = e THEN t.cPosition[i] * sd ELSE t.cPosition[i]]
OnOf(t, n, c, e, sd) ==
  [i \in 0 .. n - 1 |-> [m \in 1 .. c |->
     LET p == PartOf(m, DisksOf(t, n)[i], t.cPosition[i]) IN IF i = e THEN p * sd ELSE p]]
FirstOf(t, n, c, e, l, sn, sd) ==
  [i \in 0 .. n - 1 |-> [m \in 1 .. c |->
     IF i = e /\ m = l - 1 THEN sn * t.cPosition[i] ELSE OnOf(t, n, c, e, sd)[i][m]]]

\* No disk but e takes more than all, and e less for l - 1.
LEMMA SettingIs ==
  ASSUME NEW t, NEW n, NEW c, Alignment(t, n, c), NEW e, NEW l,
         NEW sn \in Nat, NEW sd \in Nat \ {0},
         sn <= sd, e \in 0 .. n - 1 => l = Left(t.check, n, c)[e],
         NEW u, NEW v, LET b == PassesOf(t, e, sd)
                           h == OnOf(t, n, c, e, sd)
                           g == FirstOf(t, n, c, e, l, sn, sd)
                       IN  WalkChances(b, h, g, n, c) => Walk(u, v, b, h, g, n, c)
  PROVE  WalkSetting(t.check, DisksOf(t, n), t.cPosition, Left(t.check, n, c), n, c,
                     PassesOf(t, e, sd), OnOf(t, n, c, e, sd),
                     FirstOf(t, n, c, e, l, sn, sd), u, v)
<1> DEFINE d == DisksOf(t, n)
           pos == t.cPosition
           left == Left(t.check, n, c)
           b == PassesOf(t, e, sd)
           h == OnOf(t, n, c, e, sd)
           g == FirstOf(t, n, c, e, l, sn, sd)
<1>1. /\ n \in Nat \ {0} /\ c \in 1 .. n /\ c \in Nat \ {0} /\ DOMAIN pos = 0 .. n
      /\ Dropping(left, n, c) /\ pos[n] \in Nat
  <2>1. /\ n \in Nat \ {0} /\ c \in 1 .. n /\ Tapered(pos, n, c) /\ Dropping(left, n, c)
    BY DEF Alignment
  <2>2. pos \in [0 .. n -> Nat] /\ n \in 0 .. n
    BY <2>1 DEF Tapered
  <2> HIDE DEF left, pos
  <2> QED
    BY <2>1, <2>2
<1>2. ASSUME NEW i \in 0 .. n - 1
      PROVE  /\ pos[i] \in Nat \ {0} /\ pos[i + 1] \in Nat /\ d[i] \in Nat \ {0}
             /\ pos[i] = pos[i + 1] + d[i] /\ t.check[i] = Ratio(d[i], pos[i])
             /\ left[i] \in Nat
             /\ left[i + 1] = IF left[i] * d[i] < pos[i] THEN left[i] ELSE left[i] - 1
  <2> DEFINE x == pos[i] - pos[i + 1]
  <2>1. d[i] = x
    BY DEF DisksOf
  <2>2. /\ pos[i] \in Nat \ {0} /\ pos[i + 1] \in Nat /\ x \in Nat \ {0}
        /\ t.check[i] = Ratio(x, pos[i]) /\ left[i] \in Nat
        /\ left[i + 1] = (IF left[i] * x < pos[i] THEN left[i] ELSE left[i] - 1)
    BY AlignedDisk
  <2> HIDE DEF left, pos, d
  <2>3. pos[i] = pos[i + 1] + x
    BY <2>2
  <2> HIDE DEF x
  <2> QED
    BY <2>1, <2>2, <2>3
<1>3. ChancesOf(t.check, d, pos, n)
  <2> SUFFICES ASSUME NEW i \in 0 .. n - 1
               PROVE  /\ t.check[i] \in Fractions /\ d[i] \in Nat /\ pos[i] \in Nat \ {0}
                      /\ IsFraction(t.check[i], d[i], pos[i])
    BY DEF ChancesOf
  <2> DEFINE x == d[i]
             y == pos[i]
  <2>1. x \in Nat /\ y \in Nat \ {0} /\ t.check[i] = Ratio(x, y)
    BY <1>2
  <2> HIDE DEF x, y
  <2>2. Ratio(x, y) \in Fractions /\ IsFraction(Ratio(x, y), x, y)
    BY <2>1, RatioValue
  <2> QED
    BY <2>1, <2>2 DEF x, y
<1>4. ASSUME NEW i \in 0 .. n - 1
      PROVE  /\ b[i] = IF i = e THEN pos[i] * sd ELSE pos[i]
             /\ b[i] \in Nat \ {0} /\ pos[i] * sd \in Nat \ {0}
  <2> DEFINE y == pos[i]
  <2>1. i \in DOMAIN pos
    BY <1>1
  <2>2. b[i] = IF i = e THEN y * sd ELSE y
    BY <2>1 DEF PassesOf
  <2>3. y \in Nat \ {0}
    BY <1>2
  <2> HIDE DEF y
  <2>4. y * sd \in Nat \ {0}
    BY <2>3
  <2> QED
    BY <2>2, <2>3, <2>4 DEF y
<1>5. ASSUME NEW i \in 0 .. n - 1, NEW m \in 1 .. c
      PROVE  /\ h[i][m] = IF i = e THEN PartOf(m, d[i], pos[i]) * sd ELSE PartOf(m, d[i], pos[i])
             /\ g[i][m] = IF i = e /\ m = l - 1 THEN sn * pos[i] ELSE h[i][m]
             /\ h[i][m] \in 0 .. b[i] /\ g[i][m] \in 0 .. b[i]
  <2> DEFINE p == PartOf(m, d[i], pos[i])
             y == pos[i]
             z == b[i]
  <2>1. /\ h[i][m] = (IF i = e THEN p * sd ELSE p)
        /\ g[i][m] = (IF i = e /\ m = l - 1 THEN sn * y ELSE h[i][m])
    BY DEF OnOf, FirstOf
  <2>2. p \in 0 .. y /\ y \in Nat \ {0} /\ m \in Nat
    <3>1. d[i] \in Nat /\ pos[i] \in Nat \ {0} /\ m \in Nat
      BY <1>1, <1>2
    <3> HIDE DEF d, pos
    <3> QED
      BY <3>1, PartIs
  <2>3. z = IF i = e THEN y * sd ELSE y
    BY <1>4
  <2> HIDE DEF p, y, z
  <2>4. p * sd \in Nat /\ p * sd <= y * sd
    <3>1. sd * p <= sd * y
      BY <2>2, ProductOrder
    <3> QED
      BY <2>2, <3>1
  <2>5. sn * y \in Nat /\ sn * y <= y * sd
    <3>1. y * sn <= y * sd
      BY <2>2, ProductOrder
    <3> QED
      BY <2>2, <3>1
  <2>6. h[i][m] \in 0 .. z
    <3> DEFINE r == p * sd
               s == y * sd
    <3>1. r \in Nat /\ s \in Nat /\ r <= s
      BY <2>2, <2>4
    <3>2. h[i][m] = (IF i = e THEN r ELSE p) /\ z = IF i = e THEN s ELSE y
      BY <2>1, <2>3
    <3> HIDE DEF r, s, h
    <3> QED
      BY <2>2, <3>1, <3>2
  <2>7. g[i][m] \in 0 .. z
    <3> DEFINE r == sn * y
               s == y * sd
    <3>1. r \in Nat /\ s \in Nat /\ r <= s
      BY <2>2, <2>5
    <3>2. g[i][m] = (IF i = e /\ m = l - 1 THEN r ELSE h[i][m]) /\ z = IF i = e THEN s ELSE y
      BY <2>1, <2>3
    <3> HIDE DEF r, s, h, g
    <3> QED
      BY <2>2, <2>6, <3>1, <3>2
  <2> QED
    BY <2>1, <2>6, <2>7 DEF p, y, z
<1> HIDE DEF b, h, g, d, pos, left
<1>6. WalkChances(b, h, g, n, c)
  BY <1>1, <1>4, <1>5 DEF WalkChances
<1>7. Walk(u, v, b, h, g, n, c)
  BY <1>6 DEF b, h, g
<1>8. ASSUME NEW i \in 0 .. n - 1, left[i + 1] # left[i], NEW m \in 1 .. c, m = left[i]
      PROVE  h[i][m] = b[i] /\ g[i][m] = b[i]
  <2>1. ~(m * d[i] < pos[i])
    BY <1>2, <1>8
  <2>2. PartOf(m, d[i], pos[i]) = pos[i]
    BY <2>1 DEF PartOf
  <2>3. h[i][m] = b[i]
    BY <1>4, <1>5, <2>2
  <2>4. ~(i = e /\ m = l - 1)
    <3> SUFFICES ASSUME i = e, m = l - 1 PROVE FALSE
      OBVIOUS
    <3>1. l = left[i] /\ left[i] \in Nat
      BY <1>2 DEF left
    <3> QED
      BY <1>8, <3>1
  <2> QED
    BY <1>5, <2>3, <2>4
<1>9. WalkSetting(t.check, d, pos, left, n, c, b, h, g, u, v)
  BY <1>1, <1>2, <1>3, <1>6, <1>7, <1>8 DEF WalkSetting
<1> QED
  BY <1>9 DEF b, h, g, d, pos, left

\* Disks without a correction take their parts.
LEMMA PlainAtIs ==
  ASSUME NEW t, NEW n, NEW c, Alignment(t, n, c), NEW e, NEW l,
         NEW sn \in Nat, NEW sd \in Nat \ {0},
         NEW i \in 0 .. n - 1, i \notin Corrected(t), i # e
  PROVE  PlainAt(DisksOf(t, n), t.cPosition, Left(t.check, n, c), PassesOf(t, e, sd),
                 OnOf(t, n, c, e, sd), FirstOf(t, n, c, e, l, sn, sd), c, i)
<1> DEFINE d == DisksOf(t, n)
           pos == t.cPosition
           left == Left(t.check, n, c)
           b == PassesOf(t, e, sd)
           h == OnOf(t, n, c, e, sd)
           g == FirstOf(t, n, c, e, l, sn, sd)
           x == pos[i] - pos[i + 1]
           y == pos[i]
           z == left[i]
<1>1. /\ n \in Nat \ {0} /\ DOMAIN pos = 0 .. n /\ DOMAIN t.disks = 0 .. n - 1
  <2>1. n \in Nat \ {0} /\ Tapered(pos, n, c) /\ DOMAIN t.disks = 0 .. n - 1
    BY DEF Alignment
  <2> QED
    BY <2>1 DEF Tapered
<1>2. i \in DOMAIN pos /\ ~(t.kError[i] > 0)
  BY <1>1 DEF Corrected
<1>3. /\ x \in Nat \ {0} /\ y \in Nat \ {0} /\ z \in Nat /\ pos[i + 1] \in Nat
      /\ t.kError[i] = (IF y < z * x THEN z - 1 ELSE -1)
  BY AlignedDisk
<1>4. x <= y
  BY <1>3
<1>5. z * x <= y
  <2> HIDE DEF x, y, z
  <2> SUFFICES ASSUME ~(z * x <= y) PROVE FALSE
    OBVIOUS
  <2> DEFINE r == z * x
  <2>1. r \in Nat /\ ~(r <= y)
    BY <1>3
  <2>2. y < r
    <3> HIDE DEF r
    <3> QED
      BY <1>3, <2>1
  <2>3. ~(z - 1 > 0)
    BY <1>2, <1>3, <2>2
  <2>4. z = 0 \/ z = 1
    BY <1>3, <2>3
  <2>5. r = 0 \/ r = x
    BY <1>3, <2>4
  <2> HIDE DEF r
  <2> QED
    BY <1>3, <1>4, <2>1, <2>5
<1>6. d[i] = x
  BY DEF DisksOf
<1>7. b[i] = pos[i]
  BY <1>2 DEF PassesOf
<1>8. ASSUME NEW m \in 1 .. c
      PROVE  h[i][m] = PartOf(m, d[i], pos[i]) /\ g[i][m] = PartOf(m, d[i], pos[i])
  BY DEF OnOf, FirstOf
<1>9. left[i] * d[i] <= pos[i]
  BY <1>5, <1>6
<1> HIDE DEF b, h, g, d, pos, left
<1>10. PlainAt(d, pos, left, b, h, g, c, i)
  BY <1>7, <1>8, <1>9 DEF PlainAt
<1> QED
  BY <1>10 DEF b, h, g, d, pos, left

\* All disks below E are, if none of them is corrected.
LEMMA PlainIs ==
  ASSUME NEW t, NEW n, NEW c, Alignment(t, n, c), NEW e, NEW l,
         NEW sn \in Nat, NEW sd \in Nat \ {0},
         NEW E \in 0 .. n, \A i \in 0 .. E - 1 : i \notin Corrected(t) /\ i # e
  PROVE  PlainBelow(DisksOf(t, n), t.cPosition, Left(t.check, n, c), PassesOf(t, e, sd),
                    OnOf(t, n, c, e, sd), FirstOf(t, n, c, e, l, sn, sd), c, E)
<1> SUFFICES ASSUME NEW i \in 0 .. E - 1
             PROVE  PlainAt(DisksOf(t, n), t.cPosition, Left(t.check, n, c), PassesOf(t, e, sd),
                            OnOf(t, n, c, e, sd), FirstOf(t, n, c, e, l, sn, sd), c, i)
  BY DEF PlainBelow
<1>1. n \in Nat
  BY DEF Alignment
<1>2. i \in 0 .. n - 1 /\ i \notin Corrected(t) /\ i # e
  BY <1>1
<1> QED
  BY <1>2, PlainAtIs

\* A corrected disk other than the second can be.
LEMMA CorrectableIs ==
  ASSUME NEW t, NEW n, NEW c, Alignment(t, n, c), NEW e \in Corrected(t), e # 1
  PROVE  Correctable(DisksOf(t, n), t.cPosition, Left(t.check, n, c), n, c, e,
                     Left(t.check, n, c)[e])
<1> DEFINE d == DisksOf(t, n)
           pos == t.cPosition
           left == Left(t.check, n, c)
           l == left[e]
           x(i) == pos[i] - pos[i + 1]
           w == e - 1
<1>1. /\ e \in 0 .. n - 1 /\ e > 0 /\ e < n - 1 /\ l \in 2 .. c /\ pos[e] < l * x(e)
      /\ \A v \in 0 .. e - 1 : l * x(v) < pos[v]
  BY CorrectedDisk
<1>2. n \in Nat \ {0} /\ \A i \in 0 .. n - 2 : x(i + 1) <= x(i)
  <2>1. n \in Nat \ {0} /\ Tapered(pos, n, c)
    BY DEF Alignment
  <2>2. \A i \in 0 .. n - 2 : (i + 1) + 1 = i + 2
    BY <2>1
  <2>3. \A i \in 0 .. n - 2 : pos[i + 1] - pos[i + 2] <= pos[i] - pos[i + 1]
    BY <2>1 DEF Tapered
  <2> HIDE DEF pos
  <2> QED
    BY <2>1, <2>2, <2>3
<1>3. (l - 1) * x(e) < pos[e]
  BY <1>1, AlignedDisk
<1>4. /\ e \in 1 .. n - 1 /\ e \in 2 .. n - 2 /\ w \in 0 .. n - 1 /\ w \in 0 .. e - 1
      /\ w \in 0 .. n - 2 /\ w + 1 = e
  BY <1>1, <1>2
<1>5. d[e] = x(e) /\ d[w] = x(w)
  <2> HIDE DEF w
  <2> QED
    BY <1>1, <1>4 DEF DisksOf
<1>6. d[e] <= d[e - 1] /\ l * d[e - 1] < pos[e - 1]
  <2>1. x(w + 1) <= x(w)
    BY <1>2, <1>4
  <2>2. l * x(w) < pos[w]
    BY <1>1, <1>4
  <2> HIDE DEF x, pos, l
  <2>3. x(e) <= x(w)
    BY <1>4, <2>1
  <2> QED
    BY <1>5, <2>2, <2>3
<1> HIDE DEF d, pos, left, w
<1>7. Overdone(d, pos, left, n, c, e, l)
  BY <1>1, <1>3, <1>4, <1>5 DEF Overdone
<1>8. Correctable(d, pos, left, n, c, e, l)
  BY <1>4, <1>6, <1>7 DEF Correctable
<1> QED
  BY <1>8 DEF d, pos, left

\* A single corrected disk's threshold: a part of those who come just after a copy
LEMMA StarOf ==
  ASSUME NEW t, NEW n, NEW c, Alignment(t, n, c), NEW e, Corrected(t) = {e}, e # 1,
         NEW sn \in Nat, NEW sd \in Nat \ {0}, sn <= sd,
         NEW u, NEW v, LET b == PassesOf(t, e, sd)
                           h == OnOf(t, n, c, e, sd)
                           g == FirstOf(t, n, c, e, t.kError[e] + 1, sn, sd)
                       IN  WalkChances(b, h, g, n, c) => Walk(u, v, b, h, g, n, c)
  PROVE  LET d == DisksOf(t, n)
             l == t.kError[e] + 1
             V == v[e][l - 1]
             K == TooFewOf(u, v, d, t.cPosition, e, l)
             star == CheckCStar(t.check, t.cPosition, c, e, l)
         IN  /\ V \in Nat \ {0} /\ K \in Nat /\ K < t.cPosition[e] * V
             /\ CStarPart(t.check, t.cPosition, c, e, l) # One
             /\ star \in Fractions /\ IsFraction(star, K, t.cPosition[e] * V)
<1> DEFINE check == t.check
           d == DisksOf(t, n)
           pos == t.cPosition
           left == Left(check, n, c)
           l == t.kError[e] + 1
           b == PassesOf(t, e, sd)
           h == OnOf(t, n, c, e, sd)
           g == FirstOf(t, n, c, e, l, sn, sd)
<1>1. e \in Corrected(t)
  OBVIOUS
<1>2. e \in 0 .. n - 1 /\ t.kError[e] = left[e] - 1 /\ left[e] \in 2 .. c /\ e > 0
  BY <1>1, CorrectedDisk
<1>3. n \in Nat \ {0} /\ c \in Nat
  BY DEF Alignment
<1>4. l = left[e]
  <2> HIDE DEF left
  <2> QED
    BY <1>2, <1>3
<1>5. WalkSetting(check, d, pos, left, n, c, b, h, g, u, v)
  <2>1. LET bb == PassesOf(t, e, sd)
            hh == OnOf(t, n, c, e, sd)
            gg == FirstOf(t, n, c, e, l, sn, sd)
        IN  WalkChances(bb, hh, gg, n, c) => Walk(u, v, bb, hh, gg, n, c)
    OBVIOUS
  <2> HIDE DEF l
  <2> QED
    BY <1>4, <2>1, SettingIs
<1>6. Correctable(d, pos, left, n, c, e, l)
  BY <1>1, <1>4, CorrectableIs
<1>7. PlainBelow(d, pos, left, b, h, g, c, e)
  <2>1. e \in 0 .. n /\ \A i \in 0 .. e - 1 : i \notin Corrected(t) /\ i # e
    BY <1>2, <1>3
  <2> QED
    BY <2>1, PlainIs
<1>8. R(check, l, c, 0, e - 1, 0)[1] > 0
  BY <1>1, CorrectedReads
<1> HIDE DEF check, d, pos, left, l, b, h, g
<1>9. /\ v[e][l - 1] \in Nat \ {0} /\ TooFewOf(u, v, d, pos, e, l) \in Nat
      /\ TooFewOf(u, v, d, pos, e, l) < pos[e] * v[e][l - 1]
      /\ CStarPart(check, pos, c, e, l) # One /\ CheckCStar(check, pos, c, e, l) \in Fractions
      /\ IsFraction(CheckCStar(check, pos, c, e, l), TooFewOf(u, v, d, pos, e, l),
                    pos[e] * v[e][l - 1])
  BY <1>5, <1>6, <1>7, <1>8, StarValue
<1> QED
  BY <1>9 DEF check, d, pos, l

\* The walk along disks of which one may be corrected
LEMMA WalkOf ==
  ASSUME NEW t, NEW n, NEW c, NEW e, NEW l, NEW sn, NEW sd
  PROVE  \E u, v : LET b == PassesOf(t, e, sd)
                       h == OnOf(t, n, c, e, sd)
                       g == FirstOf(t, n, c, e, l, sn, sd)
                   IN  WalkChances(b, h, g, n, c) => Walk(u, v, b, h, g, n, c)
<1> DEFINE b == PassesOf(t, e, sd)
           h == OnOf(t, n, c, e, sd)
           g == FirstOf(t, n, c, e, l, sn, sd)
<1> HIDE DEF b, h, g
<1>1. \E u, v : WalkChances(b, h, g, n, c) => Walk(u, v, b, h, g, n, c)
  <2>1. WalkChances(b, h, g, n, c) => \E u, v : Walk(u, v, b, h, g, n, c)
    BY WalkExists
  <2> QED
    BY <2>1
<1> QED
  BY <1>1 DEF b, h, g

\* A single corrected disk other than the second gets a probability.
LEMMA StarIsChance ==
  ASSUME NEW t, NEW n, NEW c, Alignment(t, n, c), NEW e, Corrected(t) = {e}, e # 1
  PROVE  LET star == CheckCStar(t.check, t.cPosition, c, e, t.kError[e] + 1)
         IN  /\ CStarPart(t.check, t.cPosition, c, e, t.kError[e] + 1) # One
             /\ star \in Fractions /\ star[1] <= star[2]
<1> DEFINE l == t.kError[e] + 1
           star == CheckCStar(t.check, t.cPosition, c, e, l)
           p == t.cPosition[e]
<1>1. PICK u, v : LET b == PassesOf(t, e, 1)
                      h == OnOf(t, n, c, e, 1)
                      g == FirstOf(t, n, c, e, l, 0, 1)
                  IN  WalkChances(b, h, g, n, c) => Walk(u, v, b, h, g, n, c)
  BY WalkOf
<1> DEFINE V == v[e][l - 1]
           K == TooFewOf(u, v, DisksOf(t, n), t.cPosition, e, l)
<1>2. /\ V \in Nat \ {0} /\ K \in Nat /\ K < p * V
      /\ CStarPart(t.check, t.cPosition, c, e, l) # One
      /\ star \in Fractions /\ IsFraction(star, K, p * V)
  <2>1. 0 \in Nat /\ 1 \in Nat \ {0} /\ 0 <= 1
    OBVIOUS
  <2> QED
    BY <1>1, <2>1, StarOf
<1>3. p \in Nat
  <2>1. e \in Corrected(t)
    OBVIOUS
  <2>2. e \in 0 .. n - 1
    BY <2>1, CorrectedDisk
  <2> QED
    BY <2>2, AlignedDisk
<1> HIDE DEF l, star, p, V, K
<1>4. star[1] <= star[2]
  <2> DEFINE x == star[1]
             y == star[2]
             z == p * V
  <2>1. x \in Nat /\ y \in Nat \ {0} /\ z \in Nat /\ K < z /\ x * z = K * y
    BY <1>2, <1>3 DEF Fractions, IsFraction
  <2> HIDE DEF x, y, z
  <2>2. SUFFICES ASSUME y < x PROVE FALSE
    BY <2>1 DEF x, y
  <2>3. z * y <= z * x
    BY <2>1, <2>2, ProductOrder
  <2>4. y * K < y * z
    <3>1. y * (z - K) > 0
      <4> DEFINE r == z - K
      <4>1. r \in Nat \ {0}
        BY <1>2, <2>1
      <4> HIDE DEF r
      <4>2. y * r > 0
        BY <2>1, <4>1
      <4> QED
        BY <4>2 DEF r
    <3> QED
      BY <1>2, <2>1, <3>1
  <2> QED
    BY <1>2, <2>1, <2>3, <2>4
<1> QED
  BY <1>2, <1>4 DEF l, star

\* So setDisks does not fail with it.
LEMMA StarInRange ==
  ASSUME NEW t, NEW n, NEW c, Alignment(t, n, c), NEW e, Corrected(t) = {e}, e # 1
  PROVE  ~OutOfRange(t, c)
<1> DEFINE star == CheckCStar(t.check, t.cPosition, c, e, t.kError[e] + 1)
           part == CStarPart(t.check, t.cPosition, c, e, t.kError[e] + 1)
<1>1. part # One /\ star \in Fractions
  BY StarIsChance
<1>2. OutOfRange(t, c) <=> part = One \/ MaxHash * star[1] <= -star[2]
  BY DEF OutOfRange
<1> HIDE DEF star, part
<1>3. MaxHash \in Nat
  BY BoundsAssumption
<1> DEFINE x == star[1]
           y == star[2]
           z == MaxHash * x
<1>4. z \in Nat /\ y \in Nat \ {0}
  BY <1>1, <1>3 DEF Fractions
<1> HIDE DEF z, y
<1>5. ~(z <= -y)
  BY <1>4
<1> QED
  BY <1>1, <1>2, <1>5 DEF x, y, z

\* A list of which setDisks computes no table
LEMMA AligningFails ==
  ASSUME NEW k \in Kinds, NEW l \in Lists[k], NEW c \in 1 .. MaxCopies, ~(Len(l) < c),
         NEW revert \in BOOLEAN,
         Fails(Aligning(l, c, revert), c)
  PROVE  FailsKnown(l, c, revert)
<1> DEFINE t == Aligning(l, c, revert)
           n == Len(l)
<1>1. n \in Nat
  BY ListIs
<1>2. c \in 1 .. n
  BY <1>1, BoundsAssumption
<1>3. Alignment(t, n, c)
  BY <1>2, AlignmentIs
<1>4. Fails(t, c)
  OBVIOUS
<1> HIDE DEF t, n
<1>5. FailsKnown(l, c, revert) <=> \/ 1 \in Corrected(t) /\ t.kError[1] + 1 <= c
                                   \/ Cardinality(Corrected(t)) > 1 /\ OutOfRange(t, c)
  BY DEF FailsKnown, SecondIsCorrected, CorrectionsCollide, t
<1>6. CASE ReadsOutside(t, c) \/ DividesByZero(t, c)
  BY <1>3, <1>5, <1>6, CorrectionsFail
<1>7. CASE OutOfRange(t, c) /\ ~(Cardinality(Corrected(t)) > 1)
  <2>1. PICK e : e \in Corrected(t)
    BY <1>7 DEF OutOfRange
  <2>2. Corrected(t) = {e}
    <3>1. IsFiniteSet(Corrected(t))
      <4>1. DOMAIN t.disks = 0 .. n - 1
        BY <1>3 DEF Alignment
      <4>2. IsFiniteSet(0 .. n - 1) /\ Corrected(t) \subseteq 0 .. n - 1
        BY <1>1, <4>1, FS_Interval DEF Corrected
      <4> QED
        BY <4>2, FS_Subset
    <3>2. Cardinality(Corrected(t)) \in Nat
      BY <3>1, FS_CardinalityType
    <3>3. Cardinality(Corrected(t)) # 0
      BY <2>1, <3>1, FS_EmptySet
    <3>4. Cardinality(Corrected(t)) = 1
      BY <1>7, <3>2, <3>3
    <3>5. PICK f : Corrected(t) = {f}
      BY <3>1, <3>4, FS_Singleton
    <3> QED
      BY <2>1, <3>5
  <2>3. e = 1
    BY <1>3, <1>7, <2>2, StarInRange
  <2>4. t.kError[1] + 1 <= c
    <3> DEFINE x == Left(t.check, n, c)[1]
    <3>1. t.kError[1] = x - 1 /\ x \in 2 .. c
      BY <1>3, <2>1, <2>3, CorrectedDisk
    <3>2. c \in Nat
      BY <1>1, <1>2
    <3> HIDE DEF x
    <3> QED
      BY <3>1, <3>2
  <2> QED
    BY <1>5, <2>1, <2>3, <2>4
<1> QED
  BY <1>4, <1>5, <1>6, <1>7 DEF Fails

(* With sn of sd of those who come just after a copy with l - 1 left, the  *)
(* corrected disk takes what the others leave of its part of the weight.   *)
LEMMA CorrectedTaken ==
  ASSUME NEW check, NEW d, NEW pos, NEW left, NEW n, NEW c, NEW b, NEW h, NEW g, NEW u, NEW v,
         WalkSetting(check, d, pos, left, n, c, b, h, g, u, v), NEW e, NEW l,
         Overdone(d, pos, left, n, c, e, l), NEW sn \in Nat, NEW sd \in Nat \ {0},
         b[e] = pos[e] * sd,
         \A m \in 1 .. c :
           /\ h[e][m] = PartOf(m, d[e], pos[e]) * sd
           /\ g[e][m] = IF m = l - 1 THEN sn * pos[e] ELSE h[e][m],
         sn * (pos[e] * v[e][l - 1]) = TooFewOf(u, v, d, pos, e, l) * sd
  PROVE  TakenAt(u, v, h, g, c, e) = sd * (pos[e] - pos[e + 1]) * Weighted(u, v, c, e)
<1> DEFINE D == d[e]
           p == pos[e]
           y == l - 1
           q == sd * D
           W == Weighted(u, v, c, e)
           T == TakenAt(u, v, h, g, c, e)
<1>1. /\ n \in Nat /\ c \in Nat /\ e \in 0 .. n - 1 /\ e \in 0 .. n /\ l \in Nat /\ l >= 2
      /\ l \in 1 .. c /\ y \in 1 .. c /\ l # y /\ l = left[e] /\ p < l * D /\ y * D < p
      /\ WalkChances(b, h, g, n, c) /\ Walk(u, v, b, h, g, n, c) /\ y \in Nat
  BY DEF WalkSetting, Overdone
<1>2. D \in Nat \ {0} /\ p \in Nat \ {0} /\ D = pos[e] - pos[e + 1]
  <2>1. D \in Nat \ {0} /\ p \in Nat \ {0} /\ p = pos[e + 1] + D
    BY <1>1 DEF WalkSetting, ChancesOf
  <2>2. e + 1 \in 0 .. n - 1 \/ e + 1 = n
    BY <1>1
  <2>3. pos[e + 1] \in Nat
    BY <2>2 DEF WalkSetting, ChancesOf
  <2> QED
    BY <2>1, <2>3
<1>3. ASSUME NEW m \in 1 .. c
      PROVE  /\ u[e][m] \in Nat /\ v[e][m] \in Nat
             /\ Took(u, v, h, g, e, m)
                  = u[e][m] * (PartOf(m, D, p) * sd)
                    + v[e][m] * (IF m = y THEN sn * p ELSE PartOf(m, D, p) * sd)
  BY <1>1 DEF Took, Walk
<1>4. ASSUME NEW m \in 1 .. c, m <= y PROVE PartOf(m, D, p) = m * D
  <2>1. D * m <= D * y
    BY <1>1, <1>2, <1>4, ProductOrder
  <2> DEFINE r == m * D
             s == y * D
  <2>2. r \in Int /\ s \in Int /\ r <= s /\ s < p
    BY <1>1, <1>2, <2>1
  <2> HIDE DEF r, s
  <2>3. r < p
    BY <1>2, <2>2
  <2> QED
    BY <2>3 DEF PartOf, r
<1>5. PartOf(l, D, p) = p
  <2> DEFINE r == l * D
  <2>1. r \in Int /\ p < r
    BY <1>1, <1>2
  <2> HIDE DEF r
  <2>2. ~(r < p)
    BY <1>2, <2>1
  <2> QED
    BY <2>2 DEF PartOf, r
<1> HIDE DEF D, p
<1>6. ASSUME NEW m \in 1 .. c, m # l, m # y
      PROVE  Took(u, v, h, g, e, m) = q * ((u[e][m] + v[e][m]) * m)
  <2> DEFINE x == u[e][m]
             z == v[e][m]
             r == PartOf(m, D, p)
  <2>1. /\ x \in Nat /\ z \in Nat /\ m \in Nat
        /\ Took(u, v, h, g, e, m) = x * (r * sd) + z * (r * sd)
    BY <1>1, <1>3, <1>6
  <2>2. CASE m <= y
    <3>1. r = m * D
      BY <1>4, <2>2
    <3> HIDE DEF x, z, r
    <3>2. x * ((m * D) * sd) + z * ((m * D) * sd) = (sd * D) * ((x + z) * m)
      BY <1>2, <2>1
    <3> QED
      BY <2>1, <3>1, <3>2 DEF x, z
  <2>3. CASE m > y
    <3>1. left[e] < m
      BY <1>1, <1>6, <2>1, <2>3
    <3>2. x = 0 /\ z = 0
      BY <1>1, <3>1, NoMoreLeft
    <3>3. r \in Nat
      <4>1. PartOf(m, D, p) \in 0 .. p
        BY <1>2, <2>1, PartIs
      <4> QED
        BY <1>2, <4>1
    <3> HIDE DEF r
    <3>4. 0 * (r * sd) + 0 * (r * sd) = 0 /\ q * ((0 + 0) * m) = 0
      BY <1>2, <2>1, <3>3
    <3> QED
      BY <2>1, <3>2, <3>4
  <2> QED
    BY <1>1, <2>1, <2>2, <2>3
<1>7. Took(u, v, h, g, e, l) + Took(u, v, h, g, e, y)
        = q * ((u[e][l] + v[e][l]) * l) + q * ((u[e][y] + v[e][y]) * y)
  <2> DEFINE U == u[e][l] + v[e][l]
             X == u[e][y]
             V == v[e][y]
             K == U * (l * D - p) + V * (y * D)
  <2>1. U \in Nat /\ X \in Nat /\ V \in Nat
    BY <1>1, <1>3
  <2>2. Took(u, v, h, g, e, l) = U * (p * sd)
    <3> DEFINE x == u[e][l]
               z == v[e][l]
    <3>1. x \in Nat /\ z \in Nat /\ Took(u, v, h, g, e, l) = x * (p * sd) + z * (p * sd)
      BY <1>1, <1>3, <1>5
    <3> HIDE DEF x, z
    <3>2. x * (p * sd) + z * (p * sd) = (x + z) * (p * sd)
      BY <1>2, <3>1
    <3> QED
      BY <3>1, <3>2 DEF x, z
  <2>3. Took(u, v, h, g, e, y) = X * ((y * D) * sd) + V * (sn * p)
    <3>1. PartOf(y, D, p) = y * D
      BY <1>1, <1>4
    <3> HIDE DEF y
    <3> QED
      BY <1>1, <1>3, <3>1
  <2>4. sn * (p * V) = K * sd
    BY DEF TooFewOf, p, D
  <2> HIDE DEF U, X, V, K, y
  <2>5. V * (sn * p) = K * sd
    BY <1>2, <2>1, <2>4
  <2>6. K * sd = (U * (l * D - p) + V * (y * D)) * sd
    BY DEF K
  <2>7. U * (p * sd) + (X * ((y * D) * sd) + (U * (l * D - p) + V * (y * D)) * sd)
          = (sd * D) * (U * l) + (sd * D) * ((X + V) * y)
    BY <1>1, <1>2, <2>1
  <2> QED
    BY <2>2, <2>3, <2>5, <2>6, <2>7 DEF U, X, V
<1>8. T = q * W
  <2>1. q \in Int
    BY <1>2
  <2>2. \A m \in 1 .. c : m # l /\ m # y =>
          Took(u, v, h, g, e, m) = q * ((u[e][m] + v[e][m]) * m)
    BY <1>6
  <2>3. /\ WalkChances(b, h, g, n, c) /\ Walk(u, v, b, h, g, n, c) /\ e \in 0 .. n - 1
        /\ l \in 1 .. c /\ y \in 1 .. c /\ l # y
    BY <1>1
  <2> HIDE DEF q, y, T, W
  <2>4. TakenTogether(u, v, h, g, c, e, q, l, y)
    BY ONLY <1>7, <2>2 DEF TakenTogether
  <2>5. TakenAt(u, v, h, g, c, e) = q * Weighted(u, v, c, e)
    BY ONLY <2>1, <2>3, <2>4, TakenIsSo
  <2> QED
    BY <2>5 DEF T, W
<1> QED
  BY <1>2, <1>8 DEF D, T, W

\* What is corrected: nothing, or one disk, its threshold a probability
Correcting(t, c, e, l, sn, sd) ==
  \/ Corrected(t) = {} /\ e = -1 /\ l = 0 /\ sn = 0 /\ sd = 1
  \/ /\ Corrected(t) = {e} /\ e # 1 /\ l = t.kError[e] + 1
     /\ CheckCStar(t.check, t.cPosition, c, e, l) = <<sn, sd>>

\* The threshold lies in [0, 1], and only e is corrected.
LEMMA CorrectingIs ==
  ASSUME NEW t, NEW n, NEW c, Alignment(t, n, c), NEW e, NEW l, NEW sn, NEW sd,
         Correcting(t, c, e, l, sn, sd)
  PROVE  /\ sn \in Nat /\ sd \in Nat \ {0} /\ sn <= sd
         /\ e \in 0 .. n - 1 => l = Left(t.check, n, c)[e]
         /\ \A i \in 0 .. n - 1 : i # e => i \notin Corrected(t)
         /\ e \in 0 .. n - 1 => Corrected(t) = {e} /\ e # 1 /\ l = t.kError[e] + 1
<1>1. CASE Corrected(t) = {} /\ e = -1 /\ l = 0 /\ sn = 0 /\ sd = 1
  BY <1>1
<1>2. CASE /\ Corrected(t) = {e} /\ e # 1 /\ l = t.kError[e] + 1
           /\ CheckCStar(t.check, t.cPosition, c, e, l) = <<sn, sd>>
  <2>1. <<sn, sd>> \in Fractions /\ <<sn, sd>>[1] <= <<sn, sd>>[2]
    BY <1>2, StarIsChance
  <2>2. sn \in Nat /\ sd \in Nat \ {0} /\ sn <= sd
    BY <2>1 DEF Fractions
  <2>3. e \in Corrected(t)
    BY <1>2
  <2> DEFINE x == Left(t.check, n, c)[e]
  <2>4. t.kError[e] = x - 1 /\ x \in 2 .. c
    BY <2>3, CorrectedDisk
  <2>5. n \in Nat /\ c \in Nat
    BY DEF Alignment
  <2> HIDE DEF x
  <2>6. l = x
    BY <1>2, <2>4, <2>5
  <2> QED
    BY <1>2, <2>2, <2>6 DEF x
<1> QED
  BY <1>1, <1>2 DEF Correcting

\* Every disk takes its part of the weight.
LEMMA EachTakes ==
  ASSUME NEW t, NEW n, NEW c, Alignment(t, n, c), NEW e, NEW l, NEW sn, NEW sd,
         Correcting(t, c, e, l, sn, sd),
         NEW u, NEW v, LET b == PassesOf(t, e, sd)
                           h == OnOf(t, n, c, e, sd)
                           g == FirstOf(t, n, c, e, l, sn, sd)
                       IN  WalkChances(b, h, g, n, c) => Walk(u, v, b, h, g, n, c),
         NEW i \in 0 .. n - 1
  PROVE  LET b == PassesOf(t, e, sd)
             h == OnOf(t, n, c, e, sd)
             g == FirstOf(t, n, c, e, l, sn, sd)
             pos == t.cPosition
         IN  \E s \in Int :
               /\ b[i] = pos[i] * s
               /\ TakenAt(u, v, h, g, c, i) = s * (pos[i] - pos[i + 1]) * Weighted(u, v, c, i)
<1> DEFINE check == t.check
           d == DisksOf(t, n)
           pos == t.cPosition
           left == Left(check, n, c)
           b == PassesOf(t, e, sd)
           h == OnOf(t, n, c, e, sd)
           g == FirstOf(t, n, c, e, l, sn, sd)
           T == TakenAt(u, v, h, g, c, i)
           W == Weighted(u, v, c, i)
<1>1. /\ sn \in Nat /\ sd \in Nat \ {0} /\ sn <= sd
      /\ e \in 0 .. n - 1 => l = left[e]
      /\ \A j \in 0 .. n - 1 : j # e => j \notin Corrected(t)
      /\ e \in 0 .. n - 1 => Corrected(t) = {e} /\ e # 1 /\ l = t.kError[e] + 1
  BY CorrectingIs
<1>2. WalkSetting(check, d, pos, left, n, c, b, h, g, u, v)
  <2>1. LET bb == PassesOf(t, e, sd)
            hh == OnOf(t, n, c, e, sd)
            gg == FirstOf(t, n, c, e, l, sn, sd)
        IN  WalkChances(bb, hh, gg, n, c) => Walk(u, v, bb, hh, gg, n, c)
    OBVIOUS
  <2> QED
    BY <1>1, <2>1, SettingIs
<1>3. CASE i # e
  <2>1. PlainAt(d, pos, left, b, h, g, c, i)
    BY <1>1, <1>3, PlainAtIs
  <2> HIDE DEF check, d, pos, left, b, h, g
  <2>2. b[i] = pos[i] * 1 /\ T = 1 * (pos[i] - pos[i + 1]) * W
    BY <1>2, <2>1, PlainTaken
  <2>3. 1 \in Int
    OBVIOUS
  <2>4. \E s \in Int : b[i] = pos[i] * s /\ T = s * (pos[i] - pos[i + 1]) * W
    BY <2>2, <2>3
  <2> QED
    BY <2>4 DEF check, d, pos, left, b, h, g
<1>4. CASE i = e
  <2>1. Corrected(t) = {e} /\ e # 1 /\ l = t.kError[e] + 1 /\ l = left[e] /\ e \in Corrected(t)
    BY <1>1, <1>4
  <2>2. CheckCStar(check, pos, c, e, l) = <<sn, sd>>
    BY <2>1 DEF Correcting
  <2>3. Overdone(d, pos, left, n, c, e, l)
    <3>1. Correctable(d, pos, left, n, c, e, left[e])
      BY <2>1, CorrectableIs
    <3> HIDE DEF d, pos, left
    <3> QED
      BY <2>1, <3>1 DEF Correctable
  <2>4. IsFraction(<<sn, sd>>, TooFewOf(u, v, d, pos, e, l), pos[e] * v[e][l - 1])
    <3> DEFINE star == CheckCStar(check, pos, c, e, t.kError[e] + 1)
    <3>1. IsFraction(star, TooFewOf(u, v, d, pos, e, t.kError[e] + 1),
                     pos[e] * v[e][(t.kError[e] + 1) - 1])
      <4>1. LET bb == PassesOf(t, e, sd)
                hh == OnOf(t, n, c, e, sd)
                gg == FirstOf(t, n, c, e, t.kError[e] + 1, sn, sd)
            IN  WalkChances(bb, hh, gg, n, c) => Walk(u, v, bb, hh, gg, n, c)
        BY <2>1
      <4> QED
        BY <1>1, <2>1, <4>1, StarOf
    <3> HIDE DEF d, pos, check
    <3> QED
      BY <2>1, <2>2, <3>1
  <2>5. sn * (pos[e] * v[e][l - 1]) = TooFewOf(u, v, d, pos, e, l) * sd
    <3> HIDE DEF d, pos
    <3> QED
      BY <2>4 DEF IsFraction
  <2>6. b[e] = pos[e] * sd
    <3>1. n \in Nat /\ pos \in [0 .. n -> Nat]
      BY DEF Alignment, Tapered
    <3>2. e \in DOMAIN pos
      BY <1>4, <3>1
    <3> QED
      BY <3>2 DEF PassesOf
  <2>7. \A m \in 1 .. c : /\ h[e][m] = PartOf(m, d[e], pos[e]) * sd
                          /\ g[e][m] = IF m = l - 1 THEN sn * pos[e] ELSE h[e][m]
    BY <1>4 DEF OnOf, FirstOf
  <2> HIDE DEF check, d, pos, left, b, h, g
  <2>8. T = sd * (pos[i] - pos[i + 1]) * W
    BY <1>1, <1>2, <1>4, <2>3, <2>5, <2>6, <2>7, CorrectedTaken
  <2>9. sd \in Int
    BY <1>1
  <2>10. \E s \in Int : b[i] = pos[i] * s /\ T = s * (pos[i] - pos[i + 1]) * W
    BY <1>4, <2>6, <2>8, <2>9
  <2> QED
    BY <2>10 DEF check, d, pos, left, b, h, g
<1> QED
  BY <1>3, <1>4

\* The average walk of placeExtent along the disks, from c copies left on
FirstStep(c) ==
  [first |-> [m \in 1 .. c |-> IF m = c THEN One ELSE Zero], on |-> [m \in 1 .. c |-> Zero]]
NextStep(t, c, w, i) ==
  [first |-> [m \in 1 .. c |-> IF m = c THEN Zero ELSE Takes(t, w, i, m + 1)],
   on |-> [m \in 1 .. c |-> PassesOn(t, w, i, m)]]
IsLoadWalk(w, t, c) ==
  w = [i \in DOMAIN t.disks |-> IF i = 0 THEN FirstStep(c) ELSE NextStep(t, c, w[i - 1], i - 1)]

\* The chances of a table are h (just after a copy g) of b.
Chanced(t, b, h, g, n, c) ==
  /\ DOMAIN t.disks = 0 .. n - 1 /\ n \in Nat \ {0}
  /\ \A i \in 0 .. n - 1 : \A m \in 1 .. c :
       /\ Chance(t, i, m, FALSE) \in Fractions
       /\ IsFraction(Chance(t, i, m, FALSE), h[i][m], b[i])
       /\ Chance(t, i, m, TRUE) \in Fractions /\ IsFraction(Chance(t, i, m, TRUE), g[i][m], b[i])

\* The steps of such a walk
Steps(c) == [first : [1 .. c -> Fractions], on : [1 .. c -> Fractions]]

\* One step, its values
StepHas(w, c, u, v, i, B) ==
  \A m \in 1 .. c : /\ IsFraction(w.on[m], u[i][m], B[i]) /\ IsFraction(w.first[m], v[i][m], B[i])

\* So many take copy m, and so many pass on.
LEMMA TakesIs ==
  ASSUME NEW t, NEW b, NEW h, NEW g, NEW n, NEW c, Chanced(t, b, h, g, n, c),
         WalkChances(b, h, g, n, c), NEW u, NEW v, Walk(u, v, b, h, g, n, c),
         NEW B, Products(B, b, n), NEW w \in Steps(c), NEW i \in 0 .. n - 1,
         StepHas(w, c, u, v, i, B), NEW m \in 1 .. c
  PROVE  /\ Takes(t, w, i, m) \in Fractions /\ PassesOn(t, w, i, m) \in Fractions
         /\ IsFraction(Takes(t, w, i, m), Took(u, v, h, g, i, m), B[i + 1])
         /\ IsFraction(PassesOn(t, w, i, m), u[i + 1][m], B[i + 1])
<1> DEFINE p == w.on[m]
           q == w.first[m]
           x == Chance(t, i, m, FALSE)
           y == Chance(t, i, m, TRUE)
           U == u[i][m]
           V == v[i][m]
           H == h[i][m]
           G == g[i][m]
           d == B[i]
           e == b[i]
<1>1. p \in Fractions /\ q \in Fractions /\ IsFraction(p, U, d) /\ IsFraction(q, V, d)
  BY DEF Steps, StepHas
<1>2. x \in Fractions /\ y \in Fractions /\ IsFraction(x, H, e) /\ IsFraction(y, G, e)
  BY DEF Chanced
<1>3. U \in Nat /\ V \in Nat /\ e \in Nat \ {0} /\ H \in 0 .. e /\ G \in 0 .. e
      /\ u[i + 1][m] = U * (e - H) + V * (e - G)
  <2>1. i \in 0 .. n /\ n \in Nat
    BY DEF Chanced
  <2> QED
    BY <2>1 DEF Walk, WalkChances
<1>4. d \in Nat \ {0} /\ B[i + 1] = d * e
  <2>1. i \in 0 .. n /\ n \in Nat
    BY DEF Chanced
  <2> QED
    BY <2>1 DEF Products
<1>5. Takes(t, w, i, m) = Plus(Times(p, x), Times(q, y))
  BY DEF Takes
<1>6. PassesOn(t, w, i, m) = Plus(Times(p, Minus(One, x)), Times(q, Minus(One, y)))
  BY DEF PassesOn
<1>7. Took(u, v, h, g, i, m) = U * H + V * G
  BY DEF Took
<1> HIDE DEF p, q, x, y, U, V, H, G, d, e
<1>8. /\ Plus(Times(p, x), Times(q, y)) \in Fractions
      /\ IsFraction(Plus(Times(p, x), Times(q, y)), U * H + V * G, d * e)
      /\ Plus(Times(p, Minus(One, x)), Times(q, Minus(One, y))) \in Fractions
      /\ IsFraction(Plus(Times(p, Minus(One, x)), Times(q, Minus(One, y))),
                    U * (e - H) + V * (e - G), d * e)
  BY ONLY <1>1, <1>2, <1>3, <1>4, StepValues
<1> QED
  BY <1>3, <1>4, <1>5, <1>6, <1>7, <1>8

\* A chance leaves one.
LEMMA RestOfChances ==
  ASSUME NEW t, NEW b, NEW h, NEW g, NEW n, NEW c, Chanced(t, b, h, g, n, c),
         WalkChances(b, h, g, n, c), NEW w \in Steps(c), NEW i \in 0 .. n - 1
  PROVE  NextStep(t, c, w, i) \in Steps(c)
<1>1. ASSUME NEW m \in 1 .. c
      PROVE  Takes(t, w, i, m) \in Fractions /\ PassesOn(t, w, i, m) \in Fractions
  <2> DEFINE p == w.on[m]
             q == w.first[m]
             x == Chance(t, i, m, FALSE)
             y == Chance(t, i, m, TRUE)
             H == h[i][m]
             G == g[i][m]
             e == b[i]
  <2>1. p \in Fractions /\ q \in Fractions
    BY DEF Steps
  <2>2. x \in Fractions /\ y \in Fractions /\ IsFraction(x, H, e) /\ IsFraction(y, G, e)
    BY DEF Chanced
  <2>3. e \in Nat \ {0} /\ H \in 0 .. e /\ G \in 0 .. e
    BY DEF WalkChances
  <2>4. Takes(t, w, i, m) = Plus(Times(p, x), Times(q, y))
    BY DEF Takes
  <2>5. PassesOn(t, w, i, m) = Plus(Times(p, Minus(One, x)), Times(q, Minus(One, y)))
    BY DEF PassesOn
  <2> HIDE DEF p, q, x, y, H, G, e
  <2>6. One \in Fractions /\ IsFraction(One, e, e)
    BY <2>3 DEF One, Fractions, IsFraction
  <2>7. H \in Nat /\ G \in Nat /\ H <= e /\ G <= e /\ e \in Nat
    BY <2>3
  <2>8. Minus(One, x) \in Fractions /\ Minus(One, y) \in Fractions
    BY <2>2, <2>3, <2>6, <2>7, MinusValue
  <2>9. /\ Times(p, x) \in Fractions /\ Times(q, y) \in Fractions
        /\ Times(p, Minus(One, x)) \in Fractions /\ Times(q, Minus(One, y)) \in Fractions
    BY <2>1, <2>2, <2>8, TimesIs
  <2> QED
    BY <2>4, <2>5, <2>9, PlusIs
<1>2. Zero \in Fractions
  BY DEF Zero, Fractions
<1>3. c \in Nat
  BY DEF WalkChances
<1>4. \A m \in 1 .. c : m # c => m + 1 \in 1 .. c
  BY <1>3
<1>5. [m \in 1 .. c |-> IF m = c THEN Zero ELSE Takes(t, w, i, m + 1)] \in [1 .. c -> Fractions]
  BY <1>1, <1>2, <1>4
<1>6. [m \in 1 .. c |-> PassesOn(t, w, i, m)] \in [1 .. c -> Fractions]
  BY <1>1
<1> QED
  BY <1>5, <1>6 DEF NextStep, Steps

\* There is such a walk.
LEMMA LoadWalkExists ==
  ASSUME NEW t, NEW b, NEW h, NEW g, NEW n, NEW c, Chanced(t, b, h, g, n, c),
         WalkChances(b, h, g, n, c)
  PROVE  \E w : IsLoadWalk(w, t, c)
<1> DEFINE S == Steps(c)
           N == n - 1
           a == FirstStep(c)
           G == [i \in 0 .. N - 1 |-> [w \in S |-> NextStep(t, c, w, i)]]
<1>1. N \in Nat /\ n = N + 1 /\ DOMAIN t.disks = 0 .. N
  BY DEF Chanced
<1>2. a \in S
  <2>1. One \in Fractions /\ Zero \in Fractions
    BY DEF One, Zero, Fractions
  <2> QED
    BY <2>1 DEF FirstStep, Steps
<1>3. G \in [0 .. N - 1 -> [S -> S]]
  <2> SUFFICES ASSUME NEW i \in 0 .. N - 1, NEW w \in S PROVE NextStep(t, c, w, i) \in S
    OBVIOUS
  <2>1. i \in 0 .. n - 1
    BY <1>1
  <2> QED
    BY <2>1, RestOfChances
<1>4. \A i \in 0 .. N - 1 : \A w \in S : G[i][w] = NextStep(t, c, w, i)
  OBVIOUS
<1> HIDE DEF G, S, a, N
<1>5. PICK w : /\ w \in [0 .. N -> S] /\ w[0] = a
               /\ \A i \in 0 .. N - 1 : w[i + 1] = G[i][w[i]]
  <2>1. UpSequences(N, S, a, G) # {}
    BY <1>1, <1>2, <1>3, UpSequence
  <2> QED
    BY <2>1 DEF UpSequences
<1>6. ASSUME NEW i \in 0 .. N
      PROVE  w[i] = IF i = 0 THEN FirstStep(c) ELSE NextStep(t, c, w[i - 1], i - 1)
  <2>1. CASE i = 0
    BY <1>5, <2>1 DEF a
  <2>2. CASE i # 0
    <3> DEFINE j == i - 1
    <3>1. j \in 0 .. N - 1 /\ j \in 0 .. N /\ j + 1 = i
      BY <1>1, <2>2
    <3> HIDE DEF j
    <3>2. w[i] = G[j][w[j]] /\ w[j] \in S
      BY <1>5, <3>1
    <3>3. w[i] = NextStep(t, c, w[j], j)
      BY <1>4, <3>1, <3>2
    <3> QED
      BY <2>2, <3>3 DEF j
  <2> QED
    BY <2>1, <2>2
<1>7. w = [i \in 0 .. N |-> w[i]]
  BY <1>5
<1>8. IsLoadWalk(w, t, c)
  BY <1>1, <1>6, <1>7, Zenon DEF IsLoadWalk
<1> QED
  BY <1>8

\* Its chances are the walk's numbers.
LEMMA WalkValues ==
  ASSUME NEW t, NEW b, NEW h, NEW g, NEW n, NEW c, Chanced(t, b, h, g, n, c),
         WalkChances(b, h, g, n, c), NEW u, NEW v, Walk(u, v, b, h, g, n, c),
         NEW B, Products(B, b, n), NEW w, IsLoadWalk(w, t, c), NEW i \in 0 .. n - 1
  PROVE  w[i] \in Steps(c) /\ StepHas(w[i], c, u, v, i, B)
<1> DEFINE Good == {k \in Nat : k <= n - 1 => w[k] \in Steps(c) /\ StepHas(w[k], c, u, v, k, B)}
<1>1. n \in Nat \ {0} /\ DOMAIN t.disks = 0 .. n - 1 /\ c \in Nat \ {0}
  BY DEF Chanced, WalkChances
<1>2. \A k \in 0 .. n - 1 : w[k] = IF k = 0 THEN FirstStep(c) ELSE NextStep(t, c, w[k - 1], k - 1)
  BY <1>1, Zenon DEF IsLoadWalk
<1>3. 0 \in Good
  <2>1. w[0] = FirstStep(c)
    BY <1>1, <1>2
  <2>2. One \in Fractions /\ Zero \in Fractions
    BY DEF One, Zero, Fractions
  <2>3. FirstStep(c) \in Steps(c)
    BY <2>2 DEF FirstStep, Steps
  <2>4. B[0] = 1 /\ \A m \in 1 .. c : u[0][m] = 0 /\ v[0][m] = IF m = c THEN 1 ELSE 0
    BY <1>1 DEF Products, Walk
  <2>5. IsFraction(Zero, 0, 1) /\ IsFraction(One, 1, 1)
    BY DEF IsFraction, Zero, One
  <2>6. StepHas(FirstStep(c), c, u, v, 0, B)
    BY <2>4, <2>5 DEF StepHas, FirstStep
  <2> QED
    BY <2>1, <2>3, <2>6
<1>4. ASSUME NEW k \in Good PROVE k + 1 \in Good
  <2> SUFFICES ASSUME k + 1 <= n - 1
               PROVE  w[k + 1] \in Steps(c) /\ StepHas(w[k + 1], c, u, v, k + 1, B)
    OBVIOUS
  <2> DEFINE x == w[k]
  <2>1. k \in Nat /\ k \in 0 .. n - 1 /\ k + 1 \in 0 .. n - 1 /\ k + 1 # 0 /\ (k + 1) - 1 = k
    BY <1>1
  <2>2. x \in Steps(c) /\ StepHas(x, c, u, v, k, B)
    BY <2>1
  <2>3. w[k + 1] = NextStep(t, c, x, k)
    BY <1>2, <2>1
  <2> HIDE DEF x
  <2>4. NextStep(t, c, x, k) \in Steps(c)
    BY <2>1, <2>2, RestOfChances
  <2>5. ASSUME NEW m \in 1 .. c
        PROVE  /\ IsFraction(Takes(t, x, k, m), Took(u, v, h, g, k, m), B[k + 1])
               /\ IsFraction(PassesOn(t, x, k, m), u[k + 1][m], B[k + 1])
    BY <2>1, <2>2, TakesIs
  <2>6. StepHas(NextStep(t, c, x, k), c, u, v, k + 1, B)
    <3> SUFFICES ASSUME NEW m \in 1 .. c
                 PROVE  /\ IsFraction(NextStep(t, c, x, k).on[m], u[k + 1][m], B[k + 1])
                        /\ IsFraction(NextStep(t, c, x, k).first[m], v[k + 1][m], B[k + 1])
      BY DEF StepHas
    <3>1. NextStep(t, c, x, k).on[m] = PassesOn(t, x, k, m)
          /\ NextStep(t, c, x, k).first[m] = IF m = c THEN Zero ELSE Takes(t, x, k, m + 1)
      BY DEF NextStep
    <3>2. v[k + 1][m] = IF m = c THEN 0 ELSE Took(u, v, h, g, k, m + 1)
      BY <2>1 DEF Walk
    <3>3. CASE m = c
      <4>1. B[k + 1] \in Nat
        BY <1>1, <2>1 DEF Products
      <4>2. IsFraction(Zero, 0, B[k + 1])
        BY <4>1 DEF IsFraction, Zero
      <4> QED
        BY <2>5, <3>1, <3>2, <3>3, <4>2
    <3>4. CASE m # c
      <4>1. m + 1 \in 1 .. c
        BY <1>1, <3>4
      <4> QED
        BY <2>5, <3>1, <3>2, <3>4, <4>1
    <3> QED
      BY <3>3, <3>4
  <2> QED
    BY <2>3, <2>4, <2>6
<1>5. Good = Nat
  <2>1. Good \in SUBSET Nat
    OBVIOUS
  <2> HIDE DEF Good
  <2> QED
    BY <1>3, <1>4, <2>1, InductionSet
<1>6. i \in Good /\ i <= n - 1
  BY <1>1, <1>5
<1> QED
  BY <1>6

\* A disk's load is what it takes of the walk.
LEMMA LoadValue ==
  ASSUME NEW t, NEW b, NEW h, NEW g, NEW n, NEW c, Chanced(t, b, h, g, n, c),
         WalkChances(b, h, g, n, c), NEW u, NEW v, Walk(u, v, b, h, g, n, c),
         NEW B, Products(B, b, n)
  PROVE  /\ DOMAIN Load(t, c) = 0 .. n - 1
         /\ Load(t, c) = [i \in 0 .. n - 1 |-> Load(t, c)[i]]
         /\ \A i \in 0 .. n - 1 :
              /\ Load(t, c)[i] \in Fractions /\ Reduced(Load(t, c)[i])
              /\ IsFraction(Load(t, c)[i], TakenAt(u, v, h, g, c, i), B[i + 1])
<1> DEFINE w == CHOOSE w : IsLoadWalk(w, t, c)
           F(i) == [m \in 1 .. c |-> Takes(t, w[i], i, m)]
<1>1. Load(t, c) = [i \in DOMAIN t.disks |-> SumOver(F(i))]
  BY DEF Load, IsLoadWalk, FirstStep, NextStep
<1>2. IsLoadWalk(w, t, c)
  BY LoadWalkExists
<1> HIDE DEF w
<1>3. n \in Nat \ {0} /\ DOMAIN t.disks = 0 .. n - 1 /\ c \in Nat \ {0}
  BY DEF Chanced, WalkChances
<1>4. ASSUME NEW i \in 0 .. n - 1
      PROVE  /\ SumOver(F(i)) \in Fractions /\ Reduced(SumOver(F(i)))
             /\ IsFraction(SumOver(F(i)), TakenAt(u, v, h, g, c, i), B[i + 1])
  <2> DEFINE x == w[i]
             f == [m \in 1 .. c |-> Takes(t, x, i, m)]
             N == [m \in 1 .. c |-> Took(u, v, h, g, i, m)]
             D == 1 .. c
             e == B[i + 1]
  <2>1. x \in Steps(c) /\ StepHas(x, c, u, v, i, B)
    BY <1>2, WalkValues
  <2>2. F(i) = f
    OBVIOUS
  <2> HIDE DEF x
  <2>3. \A m \in D : f[m] \in Fractions /\ IsFraction(f[m], N[m], e)
    BY <2>1, TakesIs
  <2>4. \A m \in D : N[m] \in Int
    <3> SUFFICES ASSUME NEW m \in D PROVE Took(u, v, h, g, i, m) \in Int
      OBVIOUS
    <3>1. Took(u, v, h, g, i, m) \in Nat
      BY WalkTypes
    <3> QED
      BY <3>1
  <2>5. IsFiniteSet(D) /\ 1 \in D /\ D # {} /\ DOMAIN f = D
    BY <1>3, FS_Interval
  <2>6. e \in Nat \ {0}
    <3>1. i + 1 \in 0 .. n
      BY <1>3
    <3> QED
      BY <3>1 DEF Products
  <2>7. TakenAt(u, v, h, g, c, i) = SumFunctionOnSet(N, D)
    BY DEF TakenAt
  <2> HIDE DEF f, N, D, e
  <2>8. SumOver(f) \in Fractions /\ Reduced(SumOver(f))
    BY <2>3, <2>5, SumIsReduced
  <2>9. IsFraction(SumOver(f), SumFunctionOnSet(N, D), e)
    BY <2>3, <2>4, <2>5, <2>6, FractionSumValue
  <2> QED
    BY <2>2, <2>7, <2>8, <2>9 DEF e
<1> HIDE DEF F
<1> QED
  BY <1>1, <1>3, <1>4

\* A table's chances, with a disk that may be corrected
LEMMA ChancedIs ==
  ASSUME NEW t, NEW n, NEW c, Alignment(t, n, c), NEW e, NEW l, NEW sn, NEW sd,
         Correcting(t, c, e, l, sn, sd)
  PROVE  Chanced(Tables(t, c), PassesOf(t, e, sd), OnOf(t, n, c, e, sd),
                 FirstOf(t, n, c, e, l, sn, sd), n, c)
<1> DEFINE T == Tables(t, c)
           d == DisksOf(t, n)
           pos == t.cPosition
           b == PassesOf(t, e, sd)
           h == OnOf(t, n, c, e, sd)
           g == FirstOf(t, n, c, e, l, sn, sd)
<1>1. /\ T.disks = t.disks /\ T.check = t.check /\ T.kError = t.kError
      /\ T.star = [i \in Corrected(t) |-> CheckCStar(t.check, pos, c, i, t.kError[i] + 1)]
  BY DEF Tables
<1>2. /\ n \in Nat \ {0} /\ c \in Nat /\ DOMAIN t.disks = 0 .. n - 1 /\ DOMAIN pos = 0 .. n
      /\ t.kError = KError(t.check, n, c)
  <2>1. n \in Nat \ {0} /\ c \in Nat /\ DOMAIN t.disks = 0 .. n - 1 /\ Tapered(pos, n, c)
        /\ t.kError = KError(t.check, n, c)
    BY DEF Alignment
  <2>2. DOMAIN pos = 0 .. n
    BY <2>1 DEF Tapered
  <2> QED
    BY <2>1, <2>2
<1>3. /\ sn \in Nat /\ sd \in Nat \ {0} /\ sn <= sd
      /\ \A i \in 0 .. n - 1 : i # e => i \notin Corrected(t)
      /\ e \in 0 .. n - 1 => Corrected(t) = {e} /\ e # 1 /\ l = t.kError[e] + 1
  BY CorrectingIs
<1>4. ASSUME NEW i \in 0 .. n - 1, NEW m \in 1 .. c
      PROVE  /\ Chance(T, i, m, FALSE) \in Fractions
             /\ IsFraction(Chance(T, i, m, FALSE), h[i][m], b[i])
             /\ Chance(T, i, m, TRUE) \in Fractions
             /\ IsFraction(Chance(T, i, m, TRUE), g[i][m], b[i])
  <2> DEFINE x == Least(One, Scaled(m, t.check[i]))
             y == pos[i]
             q == PartOf(m, d[i], y)
  <2>1. Chance(T, i, m, FALSE) = x
    BY <1>1 DEF Chance
  <2>2. y \in Nat \ {0} /\ d[i] \in Nat /\ t.check[i] = Ratio(d[i], y)
    <3> DEFINE r == pos[i] - pos[i + 1]
    <3>1. pos[i] \in Nat \ {0} /\ r \in Nat \ {0} /\ t.check[i] = Ratio(r, pos[i])
      BY AlignedDisk
    <3>2. d[i] = r
      BY DEF DisksOf
    <3> HIDE DEF r, d, pos
    <3> QED
      BY <3>1, <3>2
  <2>3. x \in Fractions /\ IsFraction(x, q, y) /\ q \in 0 .. y
    <3> DEFINE r == d[i]
               z == t.check[i]
    <3>1. y \in Nat \ {0} /\ r \in Nat /\ z = Ratio(r, y) /\ m \in Nat
      BY <1>2, <2>2
    <3> HIDE DEF y, r
    <3>2. z \in Fractions /\ IsFraction(z, r, y)
      BY <3>1, RatioValue
    <3> HIDE DEF z
    <3>3. Least(One, Scaled(m, z)) \in Fractions
          /\ IsFraction(Least(One, Scaled(m, z)), PartOf(m, r, y), y)
      BY <3>1, <3>2, LeastOfChance
    <3>4. PartOf(m, r, y) \in 0 .. y
      BY <3>1, PartIs
    <3> QED
      BY <3>3, <3>4 DEF z, r
  <2>4. b[i] = IF i = e THEN y * sd ELSE y
    BY <1>2 DEF PassesOf
  <2>5. h[i][m] = (IF i = e THEN q * sd ELSE q)
        /\ g[i][m] = (IF i = e /\ m = l - 1 THEN sn * y ELSE h[i][m])
    BY DEF OnOf, FirstOf
  <2> HIDE DEF x, y, q, b, h, g
  <2>6. IsFraction(x, h[i][m], b[i])
    <3>1. CASE i # e
      BY <2>3, <2>4, <2>5, <3>1
    <3>2. CASE i = e
      <4> DEFINE r == q * sd
                 s == y * sd
      <4>1. r \in Nat /\ s \in Nat \ {0} /\ q * s = r * y /\ q \in Nat
        BY <1>3, <2>2, <2>3
      <4> HIDE DEF r, s
      <4>2. IsFraction(x, r, s)
        BY <2>2, <2>3, <4>1, ValueIs
      <4> QED
        BY <2>4, <2>5, <3>2, <4>2 DEF r, s
    <3> QED
      BY <3>1, <3>2
  <2>7. CASE t.kError[i] = m
    <3>1. m \in Nat /\ m > 0 /\ i \in Corrected(t)
      BY <1>2, <2>7 DEF Corrected
    <3>2. i = e
      BY <1>3, <3>1
    <3>3. l = m + 1 /\ l - 1 = m /\ Corrected(t) = {e}
      BY <1>3, <2>7, <3>1, <3>2
    <3>4. T.star[i] = <<sn, sd>>
      <4>1. CheckCStar(t.check, pos, c, e, l) = <<sn, sd>>
        BY <3>3 DEF Correcting
      <4>2. T.star[i] = CheckCStar(t.check, pos, c, e, t.kError[e] + 1)
        BY <1>1, <3>1, <3>2
      <4> QED
        BY <1>3, <3>2, <4>1, <4>2
    <3>5. Chance(T, i, m, TRUE) = <<sn, sd>>
      BY <1>1, <2>7, <3>4 DEF Chance
    <3>6. <<sn, sd>> \in Fractions
      BY <1>3 DEF Fractions
    <3>7. sn * (y * sd) = (sn * y) * sd
      BY <1>3, <2>2
    <3>8. IsFraction(<<sn, sd>>, g[i][m], b[i])
      BY <2>4, <2>5, <3>2, <3>3, <3>7 DEF IsFraction
    <3> QED
      BY <2>1, <2>3, <2>6, <3>5, <3>6, <3>8
  <2>8. CASE t.kError[i] # m
    <3>1. Chance(T, i, m, TRUE) = x
      BY <1>1, <2>8 DEF Chance, x
    <3>2. ~(i = e /\ m = l - 1)
      <4> SUFFICES ASSUME i = e, m = l - 1 PROVE FALSE
        OBVIOUS
      <4>1. l = t.kError[i] + 1
        BY <1>3
      <4>2. t.kError[i] \in Int
        <5> DEFINE z == Left(t.check, n, c)[i]
        <5>1. z \in Nat
          BY AlignedDisk
        <5>2. t.kError[i] = z - 1 \/ t.kError[i] = -1
          BY <1>2 DEF KError
        <5> HIDE DEF z
        <5> QED
          BY <5>1, <5>2
      <4> QED
        BY <2>8, <4>1, <4>2
    <3>3. g[i][m] = h[i][m]
      BY <2>5, <3>2
    <3> QED
      BY <2>1, <2>3, <2>6, <3>1, <3>3
  <2> QED
    BY <2>7, <2>8
<1> HIDE DEF T, b, h, g
<1>5. Chanced(T, b, h, g, n, c)
  BY <1>1, <1>2, <1>4 DEF Chanced
<1> QED
  BY <1>5 DEF T, b, h, g

\* A load that is the disk's part of the weight is its share.
LEMMA FairShare ==
  ASSUME NEW x \in Fractions, Reduced(x), NEW T \in Nat, NEW B \in Nat \ {0}, IsFraction(x, T, B),
         NEW p \in Nat \ {0}, NEW c \in Nat, NEW d \in Nat, p * T = c * d * B
  PROVE  x = Ratio(c * d, p)
<1> DEFINE r == c * d
<1>1. r \in Nat /\ T * p = r * B
  BY ONLY p * T = c * d * B, p \in Nat \ {0}, T \in Nat, c \in Nat, d \in Nat, B \in Nat \ {0}
<1> HIDE DEF r
<1>2. IsFraction(x, r, p)
  BY <1>1, ValueIs
<1>3. x = Ratio(r, p)
  BY <1>1, <1>2, ReducedIs
<1> QED
  BY <1>3 DEF r

\* What a disk takes of the walk is its share of the capacity.
LEMMA TakesItsShare ==
  ASSUME NEW t, NEW n, NEW c, Alignment(t, n, c), NEW e, NEW l, NEW sn, NEW sd,
         Correcting(t, c, e, l, sn, sd),
         NEW u, NEW v, LET b1 == PassesOf(t, e, sd)
                           h1 == OnOf(t, n, c, e, sd)
                           g1 == FirstOf(t, n, c, e, l, sn, sd)
                       IN  WalkChances(b1, h1, g1, n, c) => Walk(u, v, b1, h1, g1, n, c),
         NEW B, Products(B, PassesOf(t, e, sd), n), NEW i \in 0 .. n - 1,
         NEW x \in Fractions, Reduced(x),
         IsFraction(x, TakenAt(u, v, OnOf(t, n, c, e, sd), FirstOf(t, n, c, e, l, sn, sd), c, i),
                    B[i + 1])
  PROVE  x = Ratio(c * (t.cPosition[i] - t.cPosition[i + 1]), t.cPosition[0])
<1> DEFINE pos == t.cPosition
           b == PassesOf(t, e, sd)
           h == OnOf(t, n, c, e, sd)
           g == FirstOf(t, n, c, e, l, sn, sd)
<1>2. /\ sn \in Nat /\ sd \in Nat \ {0} /\ sn <= sd
      /\ e \in 0 .. n - 1 => l = Left(t.check, n, c)[e]
  BY CorrectingIs
<1>3. WalkSetting(t.check, DisksOf(t, n), pos, Left(t.check, n, c), n, c, b, h, g, u, v)
  BY <1>2, SettingIs
<1>5. \A j \in 0 .. n - 1 : \E s \in Int :
        /\ b[j] = pos[j] * s
        /\ TakenAt(u, v, h, g, c, j) = s * (pos[j] - pos[j + 1]) * Weighted(u, v, c, j)
  <2> TAKE j \in 0 .. n - 1
  <2>1. LET b1 == PassesOf(t, e, sd)
            h1 == OnOf(t, n, c, e, sd)
            g1 == FirstOf(t, n, c, e, l, sn, sd)
        IN  WalkChances(b1, h1, g1, n, c) => Walk(u, v, b1, h1, g1, n, c)
    OBVIOUS
  <2> QED
    BY ONLY <2>1, Alignment(t, n, c), Correcting(t, c, e, l, sn, sd), j \in 0 .. n - 1, EachTakes
<1>6. Products(B, b, n) /\ IsFraction(x, TakenAt(u, v, h, g, c, i), B[i + 1])
  OBVIOUS
<1>7. /\ n \in Nat \ {0} /\ c \in Nat \ {0} /\ DOMAIN t.disks = 0 .. n - 1
      /\ \A j \in 0 .. n : pos[j] \in Nat
  <2>1. n \in Nat \ {0} /\ c \in 1 .. n /\ DOMAIN t.disks = 0 .. n - 1 /\ Tapered(pos, n, c)
    BY DEF Alignment
  <2>2. \A j \in 0 .. n : pos[j] \in Nat
    BY <2>1 DEF Tapered
  <2> QED
    BY <2>1, <2>2
<1>8. \A j \in 0 .. n - 1 : pos[j] \in Nat \ {0} /\ pos[j] - pos[j + 1] \in Nat
  <2> SUFFICES ASSUME NEW j \in 0 .. n - 1
               PROVE  pos[j] \in Nat \ {0} /\ pos[j] - pos[j + 1] \in Nat
    OBVIOUS
  <2>1. pos[j] \in Nat \ {0} /\ pos[j] - pos[j + 1] \in Nat \ {0}
    BY AlignedDisk
  <2> HIDE DEF pos
  <2> QED
    BY <2>1
<1> HIDE DEF b, h, g, pos
<1>9. WalkChances(b, h, g, n, c) /\ Walk(u, v, b, h, g, n, c)
  BY <1>3 DEF WalkSetting
<1>12. x = Ratio(c * (pos[i] - pos[i + 1]), pos[0])
  <2> DEFINE W == Weighted(u, v, c, i)
             K == TakenAt(u, v, h, g, c, i)
             p == pos[0]
             q == pos[i]
             d == pos[i] - pos[i + 1]
             D == B[i]
             f == B[i + 1]
  <2>1. i \in 0 .. n /\ i + 1 \in 0 .. n /\ 0 \in 0 .. n - 1
        /\ \A j \in 0 .. i - 1 : j \in 0 .. n - 1
    BY <1>7
  <2>2. p * W = c * q * D
    <3>1. \A j \in 0 .. i - 1 : \E s \in Int :
            /\ b[j] = pos[j] * s
            /\ TakenAt(u, v, h, g, c, j) = s * (pos[j] - pos[j + 1]) * Weighted(u, v, c, j)
      BY <1>5, <2>1
    <3>2. /\ WalkChances(b, h, g, n, c) /\ Walk(u, v, b, h, g, n, c) /\ Products(B, b, n)
          /\ \A j \in 0 .. n : pos[j] \in Nat
      BY <1>6, <1>7, <1>9
    <3> HIDE DEF W, D, p, q
    <3>4. \A j \in 0 .. i - 1 : TakesPart(b, h, g, u, v, c, pos, j)
      BY ONLY <3>1 DEF TakesPart
    <3>5. i \in 0 .. n
      BY <2>1
    <3>6. WeightIsFair(B, u, v, c, pos, i)
      BY ONLY <3>2, <3>4, <3>5, PartsStay
    <3>3. pos[0] * Weighted(u, v, c, i) = c * pos[i] * B[i]
      BY ONLY <3>6 DEF WeightIsFair
    <3> QED
      BY <3>3 DEF W, D, p, q
  <2>3. PICK s \in Int : b[i] = q * s /\ K = s * d * W
    BY <1>5
  <2>4. D \in Nat \ {0} /\ f \in Nat \ {0} /\ f = D * b[i]
    BY <1>6, <2>1 DEF Products
  <2>5. p \in Nat \ {0} /\ q \in Nat \ {0} /\ d \in Nat
    BY <1>8, <2>1
  <2>6. W \in Int /\ K \in Int
    BY <1>9, WeightedStep
  <2>7. x \in Fractions /\ Reduced(x) /\ IsFraction(x, K, f)
    BY <1>6
  <2> HIDE DEF W, K, p, q, d, D, f
  <2>8. p * K = c * d * f
    <3>1. p * (s * d * W) = c * d * (D * (q * s))
      BY <1>7, <2>2, <2>3, <2>4, <2>5, <2>6, FairlyTaken
    <3> QED
      BY <2>3, <2>4, <3>1
  <2>9. K \in Nat
    <3> DEFINE r == c * d * f
               z == p * K
    <3>1. r \in Nat /\ z = r
      BY <1>7, <2>4, <2>5, <2>8
    <3>2. K < 0 => z < 0
      BY <2>5, <2>6
    <3> HIDE DEF r, z
    <3> QED
      BY <2>6, <3>1, <3>2
  <2>10. x = Ratio(c * d, p)
    BY <1>7, <2>4, <2>5, <2>7, <2>8, <2>9, FairShare
  <2> QED
    BY <2>10 DEF d, p
<1> QED
  BY <1>12 DEF pos

\* The loads are fair where one disk at most is corrected.
LEMMA LoadIsFair ==
  ASSUME NEW t, NEW n, NEW c, Alignment(t, n, c), NEW e, NEW l, NEW sn, NEW sd,
         Correcting(t, c, e, l, sn, sd)
  PROVE  Load(Tables(t, c), c) = FairLoad(Tables(t, c), c)
<1> DEFINE T == Tables(t, c)
           pos == t.cPosition
           b == PassesOf(t, e, sd)
           h == OnOf(t, n, c, e, sd)
           g == FirstOf(t, n, c, e, l, sn, sd)
<1>1. PICK u, v : LET b1 == PassesOf(t, e, sd)
                      h1 == OnOf(t, n, c, e, sd)
                      g1 == FirstOf(t, n, c, e, l, sn, sd)
                  IN  WalkChances(b1, h1, g1, n, c) => Walk(u, v, b1, h1, g1, n, c)
  BY WalkOf
<1>2. /\ sn \in Nat /\ sd \in Nat \ {0} /\ sn <= sd
      /\ e \in 0 .. n - 1 => l = Left(t.check, n, c)[e]
  BY CorrectingIs
<1>3. WalkSetting(t.check, DisksOf(t, n), pos, Left(t.check, n, c), n, c, b, h, g, u, v)
  BY <1>1, <1>2, SettingIs
<1>4. Chanced(T, b, h, g, n, c)
  BY ChancedIs
<1>6. T.cPosition = pos /\ T.disks = t.disks
  BY DEF Tables
<1>7. /\ n \in Nat \ {0} /\ c \in Nat \ {0} /\ DOMAIN t.disks = 0 .. n - 1
      /\ \A i \in 0 .. n : pos[i] \in Nat
  <2>1. n \in Nat \ {0} /\ c \in 1 .. n /\ DOMAIN t.disks = 0 .. n - 1 /\ Tapered(pos, n, c)
    BY DEF Alignment
  <2>2. \A i \in 0 .. n : pos[i] \in Nat
    BY <2>1 DEF Tapered
  <2> QED
    BY <2>1, <2>2
<1> HIDE DEF T
<1>9. WalkChances(b, h, g, n, c) /\ Walk(u, v, b, h, g, n, c)
  BY <1>3 DEF WalkSetting
<1>10. PICK B : Products(B, b, n)
  <2>1. \A i \in 0 .. n - 1 : b[i] \in Nat \ {0}
    BY <1>9 DEF WalkChances
  <2> QED
    BY <1>7, <2>1, ProductsExist
<1>11. /\ DOMAIN Load(T, c) = 0 .. n - 1 /\ Load(T, c) = [i \in 0 .. n - 1 |-> Load(T, c)[i]]
       /\ \A i \in 0 .. n - 1 :
            /\ Load(T, c)[i] \in Fractions /\ Reduced(Load(T, c)[i])
            /\ IsFraction(Load(T, c)[i], TakenAt(u, v, h, g, c, i), B[i + 1])
  BY <1>4, <1>9, <1>10, LoadValue
<1>12. ASSUME NEW i \in 0 .. n - 1
       PROVE  Load(T, c)[i] = Ratio(c * (pos[i] - pos[i + 1]), pos[0])
  BY <1>1, <1>10, <1>11, TakesItsShare
<1>13. FairLoad(T, c) = [i \in 0 .. n - 1 |-> Ratio(c * (pos[i] - pos[i + 1]), pos[0])]
  BY <1>6, <1>7 DEF FairLoad
<1>14. Load(T, c) = [i \in 0 .. n - 1 |-> Ratio(c * (pos[i] - pos[i + 1]), pos[0])]
  BY <1>11, <1>12
<1> QED
  BY <1>13, <1>14 DEF T

\* At most one disk is corrected: which, and with what threshold.
LEMMA OneIsCorrected ==
  ASSUME NEW t, NEW n, NEW c, Alignment(t, n, c), ~Fails(t, c), Cardinality(Corrected(t)) <= 1
  PROVE  \E e, l, sn, sd : Correcting(t, c, e, l, sn, sd)
<1>1. n \in Nat /\ DOMAIN t.disks = 0 .. n - 1 /\ c \in Nat
  BY DEF Alignment
<1>2. IsFiniteSet(Corrected(t))
  <2>1. IsFiniteSet(0 .. n - 1) /\ Corrected(t) \subseteq 0 .. n - 1
    BY <1>1, FS_Interval DEF Corrected
  <2> QED
    BY <2>1, FS_Subset
<1>3. CASE Corrected(t) = {}
  <2>1. Correcting(t, c, -1, 0, 0, 1)
    BY <1>3 DEF Correcting
  <2> QED
    BY <2>1
<1>4. CASE Corrected(t) # {}
  <2>1. PICK e : Corrected(t) = {e}
    <3>1. Cardinality(Corrected(t)) \in Nat
      BY <1>2, FS_CardinalityType
    <3>2. Cardinality(Corrected(t)) # 0
      BY <1>2, <1>4, FS_EmptySet
    <3>3. Cardinality(Corrected(t)) = 1
      BY <3>1, <3>2
    <3> QED
      BY <1>2, <3>3, FS_Singleton
  <2>2. e # 1
    <3> SUFFICES ASSUME e = 1 PROVE FALSE
      OBVIOUS
    <3> DEFINE x == Left(t.check, n, c)[1]
               o == t.kError[1] + 1
    <3>1. 1 \in Corrected(t)
      BY <2>1
    <3>2. t.kError[1] = x - 1 /\ x \in 2 .. c /\ c - x <= 1 - 1
      BY <3>1, CorrectedDisk
    <3> HIDE DEF x
    <3>3. ~(o > c \/ 0 > 0 \/ 0 > 0 - c + o - 0)
      BY <1>1, <3>2
    <3> HIDE DEF o
    <3>4. ReadsBefore(o, c, 0, 1 - 1, 0)
      BY <3>3 DEF ReadsBefore
    <3>5. ReadsOutside(t, c)
      BY <3>1, <3>4 DEF ReadsOutside, o
    <3> QED
      BY <3>5 DEF Fails
  <2> DEFINE l == t.kError[e] + 1
             star == CheckCStar(t.check, t.cPosition, c, e, l)
  <2>3. star \in Fractions
    BY <2>1, <2>2, StarIsChance
  <2>4. PICK sn, sd : star = <<sn, sd>>
    BY <2>3 DEF Fractions
  <2>5. Correcting(t, c, e, l, sn, sd)
    BY <2>1, <2>2, <2>4 DEF Correcting
  <2> QED
    BY <2>5
<1> QED
  BY <1>3, <1>4

(* The tables of at most one correction: its threshold is a probability,   *)
(* and every disk's load is its share of the aligned capacity.             *)
LEMMA TablesAreFair ==
  ASSUME NEW t, NEW n, NEW c, Alignment(t, n, c), ~Fails(t, c), Cardinality(Corrected(t)) <= 1
  PROVE  LET T == Tables(t, c)
         IN  /\ \A i \in Corrected(T) : AtMost(Zero, T.star[i]) /\ AtMost(T.star[i], One)
             /\ Load(T, c) = FairLoad(T, c)
<1> DEFINE T == Tables(t, c)
<1>1. PICK e, l, sn, sd : Correcting(t, c, e, l, sn, sd)
  BY OneIsCorrected
<1>2. Load(T, c) = FairLoad(T, c)
  BY <1>1, LoadIsFair
<1>3. ASSUME NEW i \in Corrected(T) PROVE AtMost(Zero, T.star[i]) /\ AtMost(T.star[i], One)
  <2>1. Corrected(T) = Corrected(t)
    BY DEF Corrected, Tables
  <2>2. T.star[i] = CheckCStar(t.check, t.cPosition, c, i, t.kError[i] + 1)
    BY <2>1 DEF Tables
  <2>3. /\ Corrected(t) = {e} /\ l = t.kError[e] + 1
        /\ CheckCStar(t.check, t.cPosition, c, e, l) = <<sn, sd>>
    BY <1>1, <2>1 DEF Correcting
  <2>4. T.star[i] = <<sn, sd>>
    BY <2>1, <2>2, <2>3
  <2>5. sn \in Nat /\ sd \in Nat \ {0} /\ sn <= sd
    BY <1>1, CorrectingIs
  <2> HIDE DEF T
  <2>6. AtMost(Zero, <<sn, sd>>) /\ AtMost(<<sn, sd>>, One)
    BY <2>5 DEF AtMost, Less, Zero, One
  <2> QED
    BY <2>4, <2>6
<1> QED
  BY <1>2, <1>3

(* FastRedundantShare: the areas of a share are the parts of those who     *)
(* come to its first disk just after a copy that take the next one.        *)

\* Disks first to last: x[i] of b[i] take copy k, at the last disk all; z[i] pass.
ShareSetting(check, first, last, k, n, b, B, x, z, Z) ==
  /\ Chances(check, first, last, k) /\ n \in Nat /\ k \in Nat /\ last \in 0 .. n - 1
  /\ \A i \in 0 .. n - 1 : b[i] \in Nat \ {0}
  /\ Products(B, b, n) /\ Spans(Z, z, last) /\ x[last] = b[last]
  /\ \A i \in first .. last :
       /\ x[i] \in 0 .. b[i] /\ IsFraction(Scaled(k, check[i]), x[i], b[i])
       /\ z[i] = b[i] - x[i]

\* The values of the factors
LEMMA FactorValues ==
  ASSUME NEW check, NEW first, NEW last, NEW k, NEW n, NEW b, NEW B, NEW x, NEW z, NEW Z,
         ShareSetting(check, first, last, k, n, b, B, x, z, Z),
         NEW h, IsFactors(h, check, first, last, k), NEW i \in first .. last
  PROVE  h[i] \in Fractions /\ IsFraction(h[i], Z[first][i] * B[first], B[i])
<1> DEFINE Val(j) == h[j] \in Fractions /\ IsFraction(h[j], Z[first][j] * B[first], B[j])
           Good == {e \in Nat : first + e <= last => Val(first + e)}
<1>1. /\ first \in Nat /\ last \in Nat /\ first <= last /\ n \in Nat /\ last \in 0 .. n - 1
      /\ \A j \in first .. last : Scaled(k, check[j]) \in Fractions
  BY DEF ShareSetting, Chances
<1>2. \A j \in 0 .. n : B[j] \in Nat \ {0}
  BY DEF ShareSetting, Products
<1>3. Spans(Z, z, last)
  BY DEF ShareSetting
<1>4. /\ h[first] = One
      /\ \A j \in first .. last - 1 : h[j + 1] = Times(h[j], Minus(One, Scaled(k, check[j])))
  <2>1. \A j \in first .. last - 1 : j + 1 \in first .. last /\ j + 1 # first /\ (j + 1) - 1 = j
    BY <1>1
  <2>2. first \in first .. last
    BY <1>1
  <2> QED
    BY <2>1, <2>2 DEF IsFactors
<1>5. 0 \in Good
  <2>1. first \in 0 .. last /\ first \in 0 .. n /\ first + 0 = first
    BY <1>1
  <2>2. Z[first][first] = 1
    BY <1>3, <2>1 DEF Spans
  <2>3. One \in Fractions /\ B[first] \in Nat
    BY <1>2, <2>1 DEF One, Fractions
  <2>4. IsFraction(One, 1 * B[first], B[first])
    BY <2>3 DEF IsFraction, One
  <2> QED
    BY <1>4, <2>1, <2>2, <2>3, <2>4
<1>6. ASSUME NEW e \in Good PROVE e + 1 \in Good
  <2> SUFFICES ASSUME first + (e + 1) <= last PROVE Val(first + (e + 1))
    OBVIOUS
  <2> DEFINE j == first + e
             y == Scaled(k, check[j])
             a == Z[first][j]
             f == B[first]
  <2>1. /\ j \in Nat /\ first + (e + 1) = j + 1 /\ j \in first .. last /\ j \in first .. last - 1
        /\ first \in 0 .. n /\ first \in 0 .. last /\ j \in 0 .. n /\ j \in 0 .. n - 1 /\ Val(j)
    BY <1>1
  <2> HIDE DEF Good, j
  <2>2. y \in Fractions /\ x[j] \in 0 .. b[j] /\ IsFraction(y, x[j], b[j]) /\ z[j] = b[j] - x[j]
    BY <1>1, <2>1 DEF ShareSetting
  <2>3. b[j] \in Nat \ {0} /\ B[j + 1] = B[j] * b[j] /\ B[j] \in Nat \ {0} /\ f \in Nat \ {0}
    BY <1>2, <2>1 DEF ShareSetting, Products
  <2>4. a \in Nat /\ Z[first][j + 1] = a * z[j]
    BY <1>3, <2>1 DEF Spans
  <2>5. h[j + 1] = Times(h[j], Minus(One, y))
    BY <1>4, <2>1
  <2>6. h[j] \in Fractions /\ IsFraction(h[j], a * f, B[j])
    BY <2>1
  <2> HIDE DEF y, a, f, Val
  <2>7. One \in Fractions /\ IsFraction(One, b[j], b[j])
    BY <2>3 DEF One, Fractions, IsFraction
  <2>8. x[j] \in Nat /\ x[j] <= b[j] /\ b[j] \in Nat /\ a * f \in Nat /\ b[j] - x[j] \in Nat
    BY <2>2, <2>3, <2>4
  <2>9. Minus(One, y) \in Fractions /\ IsFraction(Minus(One, y), b[j] - x[j], b[j])
    BY <2>2, <2>3, <2>7, <2>8, MinusValue
  <2>10. /\ Times(h[j], Minus(One, y)) \in Fractions
         /\ IsFraction(Times(h[j], Minus(One, y)), (a * f) * (b[j] - x[j]), B[j] * b[j])
    <3> DEFINE q == Minus(One, y)
               r == b[j] - x[j]
               s == a * f
    <3>1. q \in Fractions /\ IsFraction(q, r, b[j]) /\ r \in Nat /\ s \in Nat
          /\ IsFraction(h[j], s, B[j])
      BY <2>6, <2>8, <2>9
    <3> HIDE DEF q, r, s
    <3>2. Times(h[j], q) \in Fractions /\ IsFraction(Times(h[j], q), s * r, B[j] * b[j])
      BY <2>3, <2>6, <3>1, TimesValue
    <3> QED
      BY <3>2 DEF q, r, s
  <2>11. (a * f) * (b[j] - x[j]) = Z[first][j + 1] * f
    <3>1. z[j] \in Nat
      BY <2>2, <2>8
    <3>2. (a * f) * z[j] = (a * z[j]) * f
      BY <2>3, <2>4, <3>1
    <3> QED
      BY <2>2, <2>4, <3>2
  <2>12. Val(j + 1)
    BY <2>3, <2>5, <2>10, <2>11 DEF Val, f
  <2> QED
    BY <2>1, <2>12
<1>7. Good = Nat
  <2>1. Good \in SUBSET Nat
    OBVIOUS
  <2> HIDE DEF Good
  <2> QED
    BY <1>5, <1>6, <2>1, InductionSet
<1> DEFINE e == i - first
<1>8. e \in Nat /\ first + e = i /\ i <= last
  BY <1>1
<1>9. e \in Good
  BY <1>7, <1>8
<1>10. Val(first + e)
  BY <1>8, <1>9
<1> QED
  BY <1>8, <1>10

\* The values of the areas
LEMMA AreaValues ==
  ASSUME NEW check, NEW first, NEW last, NEW k, NEW n, NEW b, NEW B, NEW x, NEW z, NEW Z,
         ShareSetting(check, first, last, k, n, b, B, x, z, Z), NEW i \in first .. last
  PROVE  LET areas == Areas(check, first, last, k)
         IN  /\ DOMAIN areas = first .. last /\ areas[i] \in Fractions
             /\ IsFraction(areas[i], (Z[first][i] * x[i]) * B[first], B[i + 1])
<1> DEFINE areas == Areas(check, first, last, k)
           a == Z[first][i]
           f == B[first]
           y == Scaled(k, check[i])
           s == a * f
           w == (a * x[i]) * f
<1>1. PICK h : AreasAre(areas, h, check, first, last, k)
  <2>1. Chances(check, first, last, k)
    BY DEF ShareSetting
  <2> QED
    BY <2>1, AreasAddUp
<1>2. DOMAIN areas = first .. last
  BY <1>1 DEF AreasAre
<1>3. /\ first \in Nat /\ last \in Nat /\ first <= last /\ n \in Nat /\ last \in 0 .. n - 1
      /\ y \in Fractions
  BY DEF ShareSetting, Chances
<1>4. /\ i \in 0 .. n /\ i \in 0 .. n - 1 /\ first \in 0 .. n /\ first \in 0 .. last
  BY <1>3
<1>5. /\ b[i] \in Nat \ {0} /\ B[i + 1] = B[i] * b[i] /\ B[i] \in Nat \ {0} /\ f \in Nat \ {0}
  BY <1>4 DEF ShareSetting, Products
<1>6. x[i] \in 0 .. b[i] /\ IsFraction(y, x[i], b[i]) /\ x[last] = b[last]
  BY DEF ShareSetting
<1>7. a \in Nat
  BY <1>4 DEF ShareSetting, Spans
<1>8. h[i] \in Fractions /\ IsFraction(h[i], s, B[i])
  <2>1. IsFactors(h, check, first, last, k)
    BY <1>1 DEF AreasAre
  <2> QED
    BY <2>1, FactorValues
<1>9. i < last => areas[i] = Times(h[i], y)
  <2>1. i < last => i \in first .. last - 1
    BY <1>3
  <2> QED
    BY <1>1, <2>1 DEF AreasAre
<1>10. i = last => areas[i] \in Fractions /\ IsFraction(areas[i], h[i][1], h[i][2])
  BY <1>1 DEF AreasAre
<1> HIDE DEF areas, a, f, y
<1>11. x[i] \in Nat /\ s \in Nat /\ s * x[i] = w
  BY <1>5, <1>6, <1>7
<1> HIDE DEF s, w
<1>12. CASE i < last
  <2>1. Times(h[i], y) \in Fractions /\ IsFraction(Times(h[i], y), s * x[i], B[i] * b[i])
    BY <1>3, <1>5, <1>6, <1>8, <1>11, TimesValue
  <2> QED
    BY <1>2, <1>5, <1>9, <1>11, <1>12, <2>1 DEF areas, a, f, w
<1>13. CASE i = last
  <2> DEFINE p == areas[i][1]
             q == areas[i][2]
             u == h[i][1]
             v == h[i][2]
             D == B[i]
  <2>1. /\ p \in Int /\ q \in Nat \ {0} /\ u \in Int /\ v \in Nat \ {0}
        /\ p * v = u * q /\ u * D = s * v /\ D \in Nat \ {0}
    BY <1>5, <1>8, <1>10, <1>13 DEF Fractions, IsFraction
  <2> HIDE DEF p, q, u, v, D
  <2>2. p * D = s * q
    BY <1>11, <2>1, EqualValues
  <2>3. IsFraction(areas[i], s, B[i])
    BY <2>2 DEF IsFraction, p, q, D
  <2>4. w \in Int /\ B[i + 1] \in Nat \ {0} /\ s * B[i + 1] = w * B[i]
    <3>1. x[i] = b[i]
      BY <1>6, <1>13
    <3>2. s * (B[i] * b[i]) = (s * b[i]) * B[i] /\ s * b[i] \in Int /\ B[i] * b[i] \in Nat \ {0}
      BY <1>5, <1>11
    <3> QED
      BY <1>5, <1>11, <3>1, <3>2
  <2>5. IsFraction(areas[i], w, B[i + 1])
    BY <1>5, <1>10, <1>11, <1>13, <2>3, <2>4, ValueIs
  <2> QED
    BY <1>2, <1>10, <1>13, <2>5 DEF areas, a, f, w
<1> QED
  BY <1>3, <1>12, <1>13

\* The walk along disks of which none is corrected
PlainWalk(t, n, c, b, h, g, u, v, B) ==
  LET left == Left(t.check, n, c)
  IN  /\ WalkSetting(t.check, DisksOf(t, n), t.cPosition, left, n, c, b, h, g, u, v)
      /\ PlainBelow(DisksOf(t, n), t.cPosition, left, b, h, g, c, n) /\ Products(B, b, n)

\* Those that take copy l, and that pass
TakesOf(h, n, l) == [i \in 0 .. n - 1 |-> h[i][l]]
PassesBy(b, h, n, l) == [i \in 0 .. n - 1 |-> b[i] - h[i][l]]

\* The last disk for l copies
LEMMA LastIs ==
  ASSUME NEW t, NEW n, NEW c, Alignment(t, n, c), NEW l \in 1 .. c
  PROVE  LET left == Left(t.check, n, c)
             last == LastDisk(t.check, n, c)[l - 1]
         IN  /\ last \in 0 .. n - 1 /\ left[last] = l /\ left[last + 1] = l - 1
             /\ \A i \in 0 .. last : l <= left[i]
             /\ \A i \in last + 1 .. n : left[i] < l
<1> DEFINE left == Left(t.check, n, c)
           last == LastDisk(t.check, n, c)[l - 1]
<1>1. /\ n \in Nat \ {0} /\ c \in Nat /\ Dropping(left, n, c) /\ l - 1 \in 0 .. c - 1
  BY DEF Alignment
<1>2. last \in DropsAt(left, n, l - 1)
  BY <1>1, LastDiskDrops
<1> HIDE DEF left, last
<1>3. last \in 0 .. n - 1 /\ left[last] = l /\ left[last + 1] = l - 1
  BY <1>1, <1>2 DEF DropsAt
<1>4. ASSUME NEW i \in 0 .. last PROVE l <= left[i]
  <2>1. i \in 0 .. n /\ last \in 0 .. n /\ i <= last
    BY <1>1, <1>3
  <2> QED
    BY <1>1, <1>3, <2>1, LeftFalls
<1>5. ASSUME NEW i \in last + 1 .. n PROVE left[i] < l
  <2>1. i \in 0 .. n /\ last + 1 \in 0 .. n /\ last + 1 <= i
    BY <1>1, <1>3
  <2>2. left[i] <= left[last + 1]
    BY <1>1, <2>1, LeftFalls
  <2>3. left[i] \in Nat /\ l \in Nat
    BY <1>1, <2>1 DEF Dropping
  <2> QED
    BY <1>3, <2>2, <2>3
<1> QED
  BY <1>3, <1>4, <1>5 DEF left, last

\* A disk up to the last for l copies takes l parts of its own, the last disk all.
LEMMA PlainShare ==
  ASSUME NEW t, NEW n, NEW c, Alignment(t, n, c),
         NEW b, NEW h, NEW g, NEW u, NEW v, NEW B, PlainWalk(t, n, c, b, h, g, u, v, B),
         NEW l \in 1 .. c, NEW i \in 0 .. LastDisk(t.check, n, c)[l - 1]
  PROVE  /\ i \in 0 .. n - 1 /\ b[i] \in Nat \ {0} /\ h[i][l] \in 0 .. b[i]
         /\ IsFraction(Scaled(l, t.check[i]), h[i][l], b[i])
         /\ i = LastDisk(t.check, n, c)[l - 1] => h[i][l] = b[i]
         /\ u[i][l] \in Nat /\ v[i][l] \in Nat
         /\ Took(u, v, h, g, i, l) = (u[i][l] + v[i][l]) * h[i][l]
         /\ u[i + 1][l] = (u[i][l] + v[i][l]) * (b[i] - h[i][l])
<1> DEFINE left == Left(t.check, n, c)
           last == LastDisk(t.check, n, c)[l - 1]
           d == DisksOf(t, n)
           pos == t.cPosition
           check == t.check
           p == PartOf(l, d[i], pos[i])
<1>1. last \in 0 .. n - 1 /\ left[last] = l /\ left[last + 1] = l - 1 /\ l <= left[i]
  BY LastIs
<1>2. n \in Nat \ {0} /\ c \in Nat /\ Dropping(left, n, c)
  BY DEF Alignment
<1>3. i \in 0 .. n - 1 /\ i \in 0 .. n /\ left[i] \in Nat /\ l \in Nat
  <2>1. i \in 0 .. n - 1 /\ i \in 0 .. n
    BY <1>1, <1>2
  <2> QED
    BY <1>2, <2>1 DEF Dropping
<1>4. /\ WalkSetting(check, d, pos, left, n, c, b, h, g, u, v)
      /\ PlainBelow(d, pos, left, b, h, g, c, n)
  BY DEF PlainWalk
<1>5. PlainAt(d, pos, left, b, h, g, c, i)
  BY <1>3, <1>4 DEF PlainBelow
<1>6. /\ left[i] * d[i] <= pos[i] /\ b[i] = pos[i] /\ h[i][l] = p
  BY <1>5 DEF PlainAt
<1>7. /\ check[i] \in Fractions /\ IsFraction(check[i], d[i], pos[i])
      /\ d[i] \in Nat /\ pos[i] \in Nat \ {0}
  BY <1>3, <1>4 DEF WalkSetting, ChancesOf
<1>8. /\ u[i][l] \in Nat /\ v[i][l] \in Nat /\ Took(u, v, h, g, i, l) = (u[i][l] + v[i][l]) * p
      /\ u[i + 1][l] = (u[i][l] + v[i][l]) * RestOf(l, d[i], pos[i])
  <2>1. n \in 0 .. n
    BY <1>2
  <2> QED
    BY <1>3, <1>4, <2>1, PlainParts
<1>9. p \in 0 .. pos[i] /\ RestOf(l, d[i], pos[i]) = pos[i] - p
  BY <1>3, <1>7, PartIs
<1>10. p = l * d[i]
  <2> DEFINE x == d[i]
             q == pos[i]
             m == left[i]
             y == l * x
             w == m * x
  <2>1. x \in Nat /\ q \in Nat \ {0} /\ m \in Nat /\ l <= m /\ w <= q /\ y \in Nat /\ w \in Nat
    BY <1>1, <1>3, <1>6, <1>7
  <2>2. x * l <= x * m
    BY <1>3, <2>1, ProductOrder
  <2>3. y <= w
    BY <1>3, <2>1, <2>2
  <2>4. p = IF y < q THEN y ELSE q
    BY DEF PartOf
  <2> HIDE DEF x, q, m, y, w
  <2>5. p = y
    BY <2>1, <2>3, <2>4
  <2> QED
    BY <2>5 DEF y, x
<1>11. IsFraction(Scaled(l, check[i]), l * d[i], pos[i])
  BY <1>3, <1>7, ScaledValue
<1>12. i = last => h[i][l] = b[i]
  <2>1. left[last + 1] # left[last] /\ l = left[last]
    BY <1>1, <1>3
  <2> QED
    BY <1>3, <1>4, <2>1 DEF WalkSetting
<1> HIDE DEF left, last, d, pos, check, p
<1> QED
  BY <1>3, <1>6, <1>7, <1>8, <1>9, <1>10, <1>11, <1>12 DEF last, check

\* So its areas are those of the walk.
LEMMA ShareSettingIs ==
  ASSUME NEW t, NEW n, NEW c, Alignment(t, n, c),
         NEW b, NEW h, NEW g, NEW u, NEW v, NEW B, PlainWalk(t, n, c, b, h, g, u, v, B),
         NEW l \in 1 .. c, NEW last, last = LastDisk(t.check, n, c)[l - 1],
         NEW first \in 0 .. last, NEW Z, Spans(Z, PassesBy(b, h, n, l), last)
  PROVE  ShareSetting(t.check, first, last, l, n, b, B, TakesOf(h, n, l), PassesBy(b, h, n, l), Z)
<1> DEFINE x == TakesOf(h, n, l)
           z == PassesBy(b, h, n, l)
<1>1. n \in Nat \ {0} /\ c \in Nat /\ l \in Nat
  BY DEF Alignment
<1>2. last \in 0 .. n - 1 /\ first \in Nat /\ first <= last
  <2>1. last \in 0 .. n - 1
    BY LastIs
  <2> QED
    BY <1>1, <2>1
<1>3. Chances(t.check, first, last, l)
  BY <1>2, ChancesAre
<1>4. Products(B, b, n) /\ \A i \in 0 .. n - 1 : b[i] \in Nat \ {0}
  BY DEF PlainWalk, WalkSetting, WalkChances
<1>5. ASSUME NEW i \in first .. last
      PROVE  /\ x[i] \in 0 .. b[i] /\ IsFraction(Scaled(l, t.check[i]), x[i], b[i])
             /\ z[i] = b[i] - x[i]
             /\ i = last => x[i] = b[i]
  <2>1. i \in 0 .. last
    BY <1>2
  <2>2. i \in 0 .. n - 1
    BY <1>1, <1>2
  <2>3. x[i] = h[i][l] /\ z[i] = b[i] - h[i][l]
    BY <2>2 DEF TakesOf, PassesBy
  <2>4. /\ h[i][l] \in 0 .. b[i] /\ IsFraction(Scaled(l, t.check[i]), h[i][l], b[i])
        /\ i = last => h[i][l] = b[i]
    BY <2>1, PlainShare
  <2> QED
    BY <2>3, <2>4
<1>6. last \in first .. last
  BY <1>2
<1> HIDE DEF x, z
<1>7. x[last] = b[last]
  BY <1>5, <1>6
<1>8. Spans(Z, z, last)
  BY DEF z
<1>9. ShareSetting(t.check, first, last, l, n, b, B, x, z, Z)
  BY <1>1, <1>2, <1>3, <1>4, <1>5, <1>7, <1>8 DEF ShareSetting
<1> QED
  BY <1>9 DEF x, z

\* The disks a share for l copies starts at
FirstsOf(t, n, c, l) == IF l = c THEN {0} ELSE c - l .. LastDisk(t.check, n, c)[l - 1]

\* initShareStructures makes one for each of them.
LEMMA SharesFrom ==
  ASSUME NEW t, NEW n, NEW c, Alignment(t, n, c)
  PROVE  /\ Shares(t, c) = [l \in 1 .. c |-> [i \in FirstsOf(t, n, c, l) |->
                              Areas(t.check, i, LastDisk(t.check, n, c)[l - 1], l)]]
         /\ \A l \in 1 .. c : FirstsOf(t, n, c, l) \subseteq 0 .. LastDisk(t.check, n, c)[l - 1]
<1> DEFINE last == LastDisk(t.check, n, c)
<1>1. n \in Nat \ {0} /\ c \in Nat /\ DOMAIN t.disks = 0 .. n - 1
  BY DEF Alignment
<1>2. Cardinality(DOMAIN t.disks) = n
  <2>1. Cardinality(0 .. n - 1) = n
    BY <1>1, FS_Interval
  <2> QED
    BY <1>1, <2>1
<1>3. Shares(t, c) = [l \in 1 .. c |-> [i \in FirstsOf(t, n, c, l) |->
                        Areas(t.check, i, last[l - 1], l)]]
  BY <1>2 DEF Shares, FirstsOf
<1>4. ASSUME NEW l \in 1 .. c PROVE FirstsOf(t, n, c, l) \subseteq 0 .. last[l - 1]
  <2> DEFINE e == last[l - 1]
  <2>1. e \in 0 .. n - 1
    BY LastIs
  <2>2. FirstsOf(t, n, c, l) = IF l = c THEN {0} ELSE c - l .. e
    BY DEF FirstsOf
  <2> HIDE DEF e
  <2>3. FirstsOf(t, n, c, l) \subseteq 0 .. e
    BY <1>1, <2>1, <2>2
  <2> QED
    BY <2>3 DEF e
<1> QED
  BY <1>3, <1>4

\* The copies that come to a share's first disks, v of B, are drawn as the walk takes them.
LEMMA TakenFrom ==
  ASSUME NEW t, NEW n, NEW c, Alignment(t, n, c),
         NEW b, NEW h, NEW g, NEW u, NEW v, NEW B, PlainWalk(t, n, c, b, h, g, u, v, B),
         NEW l \in 1 .. c, NEW from,
         \A s \in FirstsOf(t, n, c, l) :
           from[s] \in Fractions /\ IsFraction(from[s], v[s][l], B[s]),
         NEW i \in 0 .. n - 1
  PROVE  LET shares == Shares(t, c)[l]
             before == {s \in DOMAIN shares : i \in DOMAIN shares[s]}
             sum == SumOver([s \in before |-> Times(from[s], shares[s][i])])
         IN  sum \in Fractions /\ IsFraction(sum, Took(u, v, h, g, i, l), B[i + 1])
<1> DEFINE left == Left(t.check, n, c)
           last == LastDisk(t.check, n, c)[l - 1]
           S == FirstsOf(t, n, c, l)
           z == PassesBy(b, h, n, l)
           shares == Shares(t, c)[l]
           before == {s \in DOMAIN shares : i \in DOMAIN shares[s]}
           f == [s \in before |-> Times(from[s], shares[s][i])]
           D == B[i + 1]
<1>1. n \in Nat \ {0} /\ c \in Nat /\ l \in Nat
  BY DEF Alignment
<1>2. last \in 0 .. n - 1 /\ left[last + 1] = l - 1 /\ \A j \in last + 1 .. n : left[j] < l
  BY LastIs
<1>3. /\ WalkChances(b, h, g, n, c) /\ Walk(u, v, b, h, g, n, c) /\ Products(B, b, n)
      /\ WalkSetting(t.check, DisksOf(t, n), t.cPosition, left, n, c, b, h, g, u, v)
  BY DEF PlainWalk, WalkSetting
<1>4. shares = [s \in S |-> Areas(t.check, s, last, l)] /\ S \subseteq 0 .. last
  <2>1. Shares(t, c) = [m \in 1 .. c |-> [s \in FirstsOf(t, n, c, m) |->
                          Areas(t.check, s, LastDisk(t.check, n, c)[m - 1], m)]]
    BY SharesFrom
  <2>2. S \subseteq 0 .. last
    BY SharesFrom
  <2> QED
    BY <2>1, <2>2
<1>5. i \in 0 .. n /\ i + 1 \in 0 .. n /\ D \in Nat \ {0}
  <2>1. i \in 0 .. n /\ i + 1 \in 0 .. n
    BY <1>1
  <2> QED
    BY <1>3, <2>1 DEF Products
<1>6. PICK Z : Spans(Z, z, last)
  <2>1. ASSUME NEW j \in 0 .. last - 1 PROVE z[j] \in Nat
    <3>1. j \in 0 .. last /\ j \in 0 .. n - 1
      BY <1>1, <1>2
    <3>2. b[j] \in Nat /\ h[j][l] \in 0 .. b[j]
      BY <3>1, PlainShare
    <3>3. z[j] = b[j] - h[j][l]
      BY <3>1 DEF PassesBy
    <3> QED
      BY <3>2, <3>3
  <2>2. last \in Nat
    BY <1>2
  <2> HIDE DEF z, last
  <2> QED
    BY <2>1, <2>2, SpansExist
<1>7. ASSUME NEW s \in S
      PROVE  /\ DOMAIN shares[s] = s .. last
             /\ i \in s .. last => /\ shares[s][i] \in Fractions
                                   /\ IsFraction(shares[s][i], (Z[s][i] * h[i][l]) * B[s], D)
  <2>1. s \in 0 .. last /\ shares[s] = Areas(t.check, s, last, l)
    BY <1>4
  <2>2. ShareSetting(t.check, s, last, l, n, b, B, TakesOf(h, n, l), z, Z)
    BY <1>6, <2>1, ShareSettingIs
  <2>3. TakesOf(h, n, l)[i] = h[i][l]
    BY DEF TakesOf
  <2> HIDE DEF last, shares, z, D
  <2>4. ASSUME NEW j \in s .. last
        PROVE  LET areas == Areas(t.check, s, last, l)
               IN  /\ DOMAIN areas = s .. last /\ areas[j] \in Fractions
                   /\ IsFraction(areas[j], (Z[s][j] * TakesOf(h, n, l)[j]) * B[s], B[j + 1])
    BY <2>2, AreaValues
  <2>5. s \in s .. last
    BY <1>2, <2>1
  <2> QED
    BY <2>1, <2>3, <2>4, <2>5 DEF D
<1>8. before = {s \in S : i \in s .. last}
  <2>1. DOMAIN shares = S
    BY <1>4
  <2> HIDE DEF shares, last
  <2> QED
    BY <1>7, <2>1
<1>9. IsFiniteSet(0 .. last) /\ before \subseteq 0 .. last /\ IsFiniteSet(before)
  <2> HIDE DEF before, S, last
  <2>1. IsFiniteSet(0 .. last) /\ before \subseteq 0 .. last
    <3>1. last \in Int
      BY <1>2
    <3>2. IsFiniteSet(0 .. last)
      BY <3>1, FS_Interval
    <3> QED
      BY <1>4, <1>8, <3>2
  <2> QED
    BY <2>1, FS_Subset
<1> HIDE DEF left, last, S, z, shares, before, D
<1>10. CASE i > last
  <2>1. before = {}
    BY <1>2, <1>4, <1>8, <1>10
  <2> DEFINE N == [s \in {} |-> 0]
  <2>2. /\ DOMAIN f = {} /\ IsFiniteSet({}) /\ \A s \in {} : f[s] \in Fractions
        /\ \A s \in {} : N[s] \in Int /\ IsFraction(f[s], N[s], D)
    BY <2>1, FS_EmptySet
  <2> HIDE DEF f, N
  <2>3. SumOver(f) \in Fractions
    BY <2>2, FractionSum
  <2>4. IsFraction(SumOver(f), SumFunctionOnSet(N, {}), D)
    BY <1>5, <2>2, FractionSumValue
  <2>5. SumFunctionOnSet(N, {}) = 0
    BY <2>2, SumIs
  <2>6. left[i] < l
    BY <1>1, <1>2, <1>10
  <2>7. u[i][l] = 0 /\ v[i][l] = 0
    BY <1>3, <1>5, <2>6, NoMoreLeft
  <2>8. h[i][l] \in Nat /\ g[i][l] \in Nat
    BY <1>3 DEF WalkChances
  <2>9. Took(u, v, h, g, i, l) = 0
    BY <2>7, <2>8 DEF Took
  <2> QED
    BY <2>3, <2>4, <2>5, <2>9 DEF f, D, shares, before
<1>11. CASE i <= last
  <2>1. i \in 0 .. last
    BY <1>2, <1>11
  <2>2. /\ Took(u, v, h, g, i, l) = (u[i][l] + v[i][l]) * h[i][l]
        /\ h[i][l] \in Nat /\ u[i][l] \in Nat /\ v[i][l] \in Nat
    <3>1. /\ b[i] \in Nat \ {0} /\ h[i][l] \in 0 .. b[i] /\ u[i][l] \in Nat /\ v[i][l] \in Nat
          /\ Took(u, v, h, g, i, l) = (u[i][l] + v[i][l]) * h[i][l]
      BY <2>1, PlainShare DEF last
    <3> QED
      BY <3>1
  <2> DEFINE x == h[i][l]
             M == [s \in 0 .. i |-> v[s][l] * Z[s][i]]
             N == [s \in before |-> x * M[s]]
  <2>3. before \subseteq 0 .. i /\ \A s \in before : s \in S /\ i \in s .. last
    <3>1. ASSUME NEW s \in before PROVE s \in S /\ i \in s .. last /\ s \in 0 .. last
      BY <1>4, <1>8
    <3>2. ASSUME NEW s \in before PROVE s \in 0 .. i
      BY <1>2, <2>1, <3>1
    <3> QED
      BY <3>1, <3>2
  <2>4. ASSUME NEW s \in 0 .. i
        PROVE  v[s][l] \in Nat /\ Z[s][i] \in Nat /\ B[s] \in Nat \ {0} /\ s \in 0 .. n
    <3>1. s \in 0 .. n /\ s \in 0 .. last /\ i \in s .. last
      BY <1>1, <1>2, <2>1
    <3> QED
      BY <1>3, <1>6, <3>1 DEF Walk, Spans, Products
  <2>5. SumFunctionOnSet(M, 0 .. i) = u[i][l] + v[i][l]
    <3>1. ASSUME NEW j \in 0 .. last - 1
          PROVE  z[j] \in Nat /\ u[j + 1][l] = (u[j][l] + v[j][l]) * z[j]
      <4>1. j \in 0 .. last /\ j \in 0 .. n - 1
        BY <1>1, <1>2
      <4>2. b[j] \in Nat /\ h[j][l] \in 0 .. b[j]
            /\ u[j + 1][l] = (u[j][l] + v[j][l]) * (b[j] - h[j][l])
        BY <4>1, PlainShare DEF last
      <4>3. z[j] = b[j] - h[j][l]
        BY <4>1 DEF PassesBy, z
      <4> QED
        BY <4>2, <4>3
    <3>2. l \in 1 .. c /\ last \in 0 .. n
      BY <1>1, <1>2
    <3>3. PassesAll(u, v, z, l, last)
      BY <3>1 DEF PassesAll
    <3>4. M = Arriving(v, Z, l, i)
      BY DEF Arriving
    <3> HIDE DEF M
    <3>5. SumFunctionOnSet(Arriving(v, Z, l, i), 0 .. i) = u[i][l] + v[i][l]
      BY ONLY <1>3, <1>6, <2>1, <3>2, <3>3, ArrivalsMeet
    <3> QED
      BY <3>4, <3>5
  <2>6. ASSUME NEW s \in (0 .. i) \ before PROVE v[s][l] = 0
    <3>1. s \in 0 .. n /\ s \in 0 .. last /\ i \in s .. last
      BY <1>1, <1>2, <2>1
    <3>2. s \notin S
      BY <1>8, <3>1
    <3>3. CASE l = c
      <4>1. s # 0
        BY <3>2, <3>3 DEF S, FirstsOf
      <4> DEFINE j == s - 1
      <4>2. j \in 0 .. n - 1 /\ j + 1 = s
        BY <1>1, <3>1, <4>1
      <4> HIDE DEF j
      <4>3. v[j + 1][l] = 0
        BY <1>3, <3>3, <4>2 DEF Walk
      <4> QED
        BY <4>2, <4>3
    <3>4. CASE l # c
      <4>1. s \notin c - l .. last
        BY <3>2, <3>4 DEF S, FirstsOf, last
      <4>2. l < c - s
        BY <1>1, <1>2, <3>1, <4>1
      <4> QED
        BY <1>3, <3>1, <4>2, PassedBounds
    <3> QED
      BY <3>3, <3>4
  <2>7. \A s \in 0 .. i : M[s] \in Int
    BY <2>4
  <2>8. SumFunctionOnSet(M, before) = u[i][l] + v[i][l]
    <3>1. \A s \in (0 .. i) \ before : M[s] = 0
      <4> SUFFICES ASSUME NEW s \in (0 .. i) \ before PROVE v[s][l] * Z[s][i] = 0
        OBVIOUS
      <4>1. v[s][l] = 0 /\ Z[s][i] \in Nat
        BY <2>4, <2>6
      <4> QED
        BY <4>1
    <3>2. IsFiniteSet(0 .. i) /\ before \in SUBSET (0 .. i)
      BY <1>1, <2>3, FS_Interval
    <3> HIDE DEF M
    <3>3. SumFunctionOnSet(M, 0 .. i) = SumFunctionOnSet(M, before)
      BY <2>7, <3>1, <3>2, SumWithZeros
    <3> QED
      BY <2>5, <3>3
  <2>9. \A s \in before : N[s] \in Int /\ M[s] \in Int /\ N[s] = x * M[s]
    <3> SUFFICES ASSUME NEW s \in before PROVE x * M[s] \in Int /\ M[s] \in Int
      OBVIOUS
    <3>1. M[s] \in Int
      BY <2>3, <2>7
    <3> HIDE DEF M
    <3> QED
      BY <2>2, <3>1
  <2>10. SumFunctionOnSet(N, before) = Took(u, v, h, g, i, l)
    <3>1. x \in Int
      BY <2>2
    <3> HIDE DEF M, N
    <3>2. SumFunctionOnSet(N, before) = x * SumFunctionOnSet(M, before)
      BY <1>9, <2>9, <3>1, SumScaled
    <3>3. x * (u[i][l] + v[i][l]) = (u[i][l] + v[i][l]) * x
      BY <2>2
    <3> QED
      BY <2>2, <2>8, <3>2, <3>3
  <2>11. ASSUME NEW s \in before
         PROVE  f[s] \in Fractions /\ IsFraction(f[s], N[s], D)
    <3> DEFINE p == from[s]
               q == shares[s][i]
               V == v[s][l]
               Y == Z[s][i]
               F == B[s]
    <3>1. s \in 0 .. i /\ s \in S /\ i \in s .. last
      BY <2>3
    <3>2. p \in Fractions /\ IsFraction(p, V, F)
      BY <3>1 DEF S
    <3>3. q \in Fractions /\ IsFraction(q, (Y * x) * F, D)
      BY <1>7, <3>1
    <3>4. V \in Nat /\ Y \in Nat /\ F \in Nat \ {0} /\ x \in Nat
      BY <2>2, <2>4, <3>1
    <3>5. f[s] = Times(p, q) /\ N[s] = x * (V * Y)
      BY <3>1
    <3> HIDE DEF p, q, V, Y, F, x, f, N
    <3> DEFINE y == (Y * x) * F
               w == x * (V * Y)
    <3>6. y \in Nat /\ w \in Int
      BY <3>4
    <3>7. (V * y) * D = w * (F * D) /\ F * D \in Nat \ {0} /\ V * y \in Int
      <4>1. (V * y) = w * F
        BY <3>4
      <4>2. (w * F) * D = w * (F * D) /\ F * D \in Nat \ {0} /\ V * y \in Int
        BY <1>5, <3>4, <3>6
      <4> QED
        BY <4>1, <4>2
    <3>8. IsFraction(q, y, D)
      BY <3>3
    <3> HIDE DEF y, w
    <3>9. Times(p, q) \in Fractions /\ IsFraction(Times(p, q), V * y, F * D)
      BY <1>5, <3>2, <3>3, <3>4, <3>6, <3>8, TimesValue
    <3>10. IsFraction(Times(p, q), w, D)
      BY <1>5, <3>6, <3>7, <3>9, ValueIs
    <3> QED
      BY <3>5, <3>9, <3>10 DEF w
  <2>12. DOMAIN f = before
    OBVIOUS
  <2> HIDE DEF f, N
  <2>13. SumOver(f) \in Fractions
    BY <1>9, <2>11, <2>12, FractionSum
  <2>14. IsFraction(SumOver(f), SumFunctionOnSet(N, before), D)
    BY <1>5, <1>9, <2>9, <2>11, <2>12, FractionSumValue
  <2> QED
    BY <2>10, <2>13, <2>14 DEF f, D, shares, before
<1>12. i > last \/ i <= last
  BY <1>2
<1> QED
  BY <1>10, <1>11, <1>12

\* Who takes copy l, where w tells who takes the one before
TakenNext(t, c, l, w) ==
  [i \in DOMAIN t.disks |->
     LET before == {s \in DOMAIN t.shares[l] : i \in DOMAIN t.shares[l][s]}
     IN  SumOver([s \in before |->
           Times(IF l = c THEN One ELSE w[s - 1], t.shares[l][s][i])])]
IsTakenBy(w, t, c) == w = [l \in 1 .. c |-> TakenNext(t, c, l, w[l + 1])]

\* A table of FastRedundantShare
Drawing(T, t, n, c) ==
  /\ Alignment(t, n, c) /\ T.disks = t.disks /\ T.cPosition = t.cPosition
  /\ T.shares = Shares(t, c)

\* The first disks of a share follow a disk.
LEMMA FirstsFollow ==
  ASSUME NEW t, NEW n, NEW c, Alignment(t, n, c), NEW l \in 1 .. c,
         NEW s \in FirstsOf(t, n, c, l)
  PROVE  /\ s \in 0 .. n - 1
         /\ l = c => s = 0
         /\ l # c => s - 1 \in 0 .. n - 1 /\ l + 1 \in 1 .. c
<1> DEFINE last == LastDisk(t.check, n, c)[l - 1]
<1>1. n \in Nat \ {0} /\ c \in Nat
  BY DEF Alignment
<1>2. last \in 0 .. n - 1
  BY LastIs
<1>3. s \in IF l = c THEN {0} ELSE c - l .. last
  BY DEF FirstsOf
<1> HIDE DEF last
<1> QED
  BY <1>1, <1>2, <1>3

\* It is a chance.
LEMMA TakenType ==
  ASSUME NEW T, NEW t, NEW n, NEW c, Drawing(T, t, n, c), NEW l \in 1 .. c, NEW w,
         l # c => w \in [0 .. n - 1 -> Fractions]
  PROVE  TakenNext(T, c, l, w) \in [0 .. n - 1 -> Fractions]
<1> DEFINE S == FirstsOf(t, n, c, l)
           shares == Shares(t, c)[l]
<1>1. n \in Nat \ {0} /\ c \in Nat /\ DOMAIN t.disks = 0 .. n - 1
  BY DEF Drawing, Alignment
<1>2. T.shares[l] = shares /\ DOMAIN T.disks = 0 .. n - 1 /\ Alignment(t, n, c)
  BY <1>1 DEF Drawing
<1>3. l \in DOMAIN Shares(t, c) /\ DOMAIN shares = S
  <2>1. Shares(t, c) = [m \in 1 .. c |-> [s \in FirstsOf(t, n, c, m) |->
                          Areas(t.check, s, LastDisk(t.check, n, c)[m - 1], m)]]
    BY <1>2, SharesFrom
  <2> QED
    BY <2>1
<1>4. ASSUME NEW s \in S, NEW i \in DOMAIN shares[s] PROVE shares[s][i] \in Fractions
  <2>1. AreasAdd(shares[s])
    BY <1>2, <1>3, SharesAdd
  <2> QED
    BY <2>1 DEF AreasAdd
<1>5. IsFiniteSet(S)
  <2>1. S \subseteq 0 .. n - 1
    BY <1>2, FirstsFollow
  <2>2. IsFiniteSet(0 .. n - 1)
    BY <1>1, FS_Interval
  <2> QED
    BY <2>1, <2>2, FS_Subset
<1>6. ASSUME NEW s \in S PROVE (IF l = c THEN One ELSE w[s - 1]) \in Fractions
  <2>1. One \in Fractions
    BY DEF One, Fractions
  <2>2. l # c => s - 1 \in 0 .. n - 1
    BY <1>2, FirstsFollow
  <2> QED
    BY <2>1, <2>2
<1> HIDE DEF S, shares
<1>7. ASSUME NEW i \in 0 .. n - 1
      PROVE  SumOver([s \in {x \in S : i \in DOMAIN shares[x]} |->
               Times(IF l = c THEN One ELSE w[s - 1], shares[s][i])]) \in Fractions
  <2> DEFINE D == {x \in S : i \in DOMAIN shares[x]}
             f == [s \in D |-> Times(IF l = c THEN One ELSE w[s - 1], shares[s][i])]
  <2>1. IsFiniteSet(D)
    BY <1>5, FS_Subset
  <2>2. ASSUME NEW s \in D PROVE f[s] \in Fractions
    <3> DEFINE p == IF l = c THEN One ELSE w[s - 1]
               q == shares[s][i]
    <3>1. p \in Fractions /\ q \in Fractions
      BY <1>4, <1>6
    <3>2. f[s] = Times(p, q)
      OBVIOUS
    <3> HIDE DEF p, q
    <3> QED
      BY <3>1, <3>2, TimesIs
  <2>3. DOMAIN f = D
    OBVIOUS
  <2> HIDE DEF f, D
  <2>4. SumOver(f) \in Fractions
    BY <2>1, <2>2, <2>3, FractionSum
  <2> QED
    BY <2>4 DEF f, D
<1>8. TakenNext(T, c, l, w)
        = [i \in 0 .. n - 1 |-> SumOver([s \in {x \in S : i \in DOMAIN shares[x]} |->
             Times(IF l = c THEN One ELSE w[s - 1], shares[s][i])])]
  BY <1>2, <1>3 DEF TakenNext
<1> QED
  BY <1>7, <1>8

\* Who takes a copy, in numbers of the walk
TakenHas(w, n, l, u, v, h, g, B) ==
  /\ w \in [0 .. n - 1 -> Fractions]
  /\ \A i \in 0 .. n - 1 : IsFraction(w[i], Took(u, v, h, g, i, l), B[i + 1])

\* A share passes on what the walk does.
LEMMA TakenNextIs ==
  ASSUME NEW T, NEW t, NEW n, NEW c, Drawing(T, t, n, c),
         NEW b, NEW h, NEW g, NEW u, NEW v, NEW B, PlainWalk(t, n, c, b, h, g, u, v, B),
         NEW l \in 1 .. c, NEW w, l # c => TakenHas(w, n, l + 1, u, v, h, g, B)
  PROVE  TakenHas(TakenNext(T, c, l, w), n, l, u, v, h, g, B)
<1> DEFINE S == FirstsOf(t, n, c, l)
           shares == Shares(t, c)[l]
           from == [s \in S |-> IF l = c THEN One ELSE w[s - 1]]
           before(i) == {s \in DOMAIN shares : i \in DOMAIN shares[s]}
           sum(i) == SumOver([s \in before(i) |-> Times(from[s], shares[s][i])])
<1>1. n \in Nat \ {0} /\ c \in Nat /\ DOMAIN t.disks = 0 .. n - 1
  BY DEF Drawing, Alignment
<1>2. T.shares[l] = shares /\ DOMAIN T.disks = 0 .. n - 1 /\ Alignment(t, n, c)
  BY <1>1 DEF Drawing
<1>3. DOMAIN shares = S
  <2>1. Shares(t, c) = [m \in 1 .. c |-> [s \in FirstsOf(t, n, c, m) |->
                          Areas(t.check, s, LastDisk(t.check, n, c)[m - 1], m)]]
    BY <1>2, SharesFrom
  <2> QED
    BY <2>1
<1>4. Walk(u, v, b, h, g, n, c) /\ Products(B, b, n)
  BY DEF PlainWalk, WalkSetting
<1>5. ASSUME NEW s \in S
      PROVE  from[s] \in Fractions /\ IsFraction(from[s], v[s][l], B[s])
  <2>1. s \in 0 .. n - 1
    BY <1>2, FirstsFollow
  <2>2. l # c => s - 1 \in 0 .. n - 1 /\ l + 1 \in 1 .. c
    BY <1>2, FirstsFollow
  <2>3. CASE l = c
    <3>1. s = 0 /\ c \in 1 .. c
      BY <1>2, <2>3, FirstsFollow
    <3>2. v[0][c] = 1 /\ B[0] = 1
      BY <1>4, <3>1 DEF Walk, Products
    <3>3. One \in Fractions /\ IsFraction(One, 1, 1)
      BY DEF One, Fractions, IsFraction
    <3> QED
      BY <2>3, <3>1, <3>2, <3>3
  <2>4. CASE l # c
    <3> DEFINE j == s - 1
    <3>1. j \in 0 .. n - 1 /\ l + 1 \in 1 .. c /\ j + 1 = s
      BY <2>1, <2>2, <2>4
    <3>2. from[s] = w[j]
      BY <2>4
    <3> HIDE DEF j, from
    <3>3. v[j + 1][l] = Took(u, v, h, g, j, l + 1)
      BY <1>4, <2>4, <3>1 DEF Walk
    <3>4. w[j] \in Fractions /\ IsFraction(w[j], Took(u, v, h, g, j, l + 1), B[j + 1])
      BY <2>4, <3>1 DEF TakenHas
    <3> QED
      BY <3>1, <3>2, <3>3, <3>4
  <2> QED
    BY <2>3, <2>4
<1> HIDE DEF from
<1>6. ASSUME NEW i \in 0 .. n - 1
      PROVE  IsFraction(sum(i), Took(u, v, h, g, i, l), B[i + 1])
  BY <1>2, <1>5, TakenFrom
<1>7. TakenNext(T, c, l, w) = [i \in 0 .. n - 1 |-> sum(i)]
  <2>1. ASSUME NEW i \in 0 .. n - 1
        PROVE  SumOver([s \in before(i) |-> Times(IF l = c THEN One ELSE w[s - 1], shares[s][i])])
                 = sum(i)
    <3>1. \A s \in before(i) : from[s] = IF l = c THEN One ELSE w[s - 1]
      BY <1>3 DEF from
    <3> HIDE DEF before, shares
    <3>2. [s \in before(i) |-> Times(IF l = c THEN One ELSE w[s - 1], shares[s][i])]
            = [s \in before(i) |-> Times(from[s], shares[s][i])]
      BY <3>1
    <3> QED
      BY <3>2
  <2>2. TakenNext(T, c, l, w)
          = [i \in 0 .. n - 1 |-> SumOver([s \in before(i) |->
               Times(IF l = c THEN One ELSE w[s - 1], shares[s][i])])]
    BY <1>2 DEF TakenNext
  <2> HIDE DEF before, shares, sum
  <2> QED
    BY <2>1, <2>2
<1>8. TakenNext(T, c, l, w) \in [0 .. n - 1 -> Fractions]
  BY TakenType DEF TakenHas
<1> HIDE DEF sum
<1> QED
  BY <1>6, <1>7, <1>8 DEF TakenHas

\* Somebody tells who takes which copy.
LEMMA TakenExists ==
  ASSUME NEW T, NEW t, NEW n, NEW c, Drawing(T, t, n, c)
  PROVE  \E w : IsTakenBy(w, T, c)
<1> DEFINE S == [0 .. n - 1 -> Fractions]
           G == [i \in 0 .. c - 2 |-> [x \in S |-> TakenNext(T, c, i + 1, x)]]
<1>1. c \in Nat \ {0} /\ c - 1 \in Nat
  <2>1. n \in Nat \ {0} /\ c \in 1 .. n
    BY DEF Drawing, Alignment
  <2> QED
    BY <2>1
<1>2. ASSUME NEW i \in 0 .. c - 2, NEW x \in S PROVE TakenNext(T, c, i + 1, x) \in S
  <2>1. i + 1 \in 1 .. c
    BY <1>1
  <2> QED
    BY <2>1, TakenType
<1>3. ASSUME NEW x PROVE TakenNext(T, c, c, x) \in S
  <2>1. c \in 1 .. c
    BY <1>1
  <2> QED
    BY <2>1, TakenType
<1> DEFINE a == TakenNext(T, c, c, 0)
<1>4. ASSUME NEW x PROVE TakenNext(T, c, c, x) = a
  BY DEF TakenNext
<1>5. a \in S
  BY <1>3
<1>6. G \in [0 .. c - 2 -> [S -> S]] /\ \A i \in 0 .. c - 2 : \A x \in S :
                                           G[i][x] = TakenNext(T, c, i + 1, x)
  BY <1>2
<1> HIDE DEF S, G, a
<1>7. PICK f \in [0 .. c - 1 -> S] :
        f[c - 1] = a /\ \A i \in 0 .. c - 2 : f[i] = G[i][f[i + 1]]
  <2>1. c - 1 - 1 = c - 2
    BY <1>1
  <2>2. G \in [0 .. c - 1 - 1 -> [S -> S]]
    BY <1>6, <2>1
  <2>3. DownSequences(c - 1, S, a, G) # {}
    BY <1>1, <1>5, <2>2, DownSequence
  <2> QED
    BY <2>1, <2>3 DEF DownSequences
<1> DEFINE w == [l \in 1 .. c |-> f[l - 1]]
<1>8. ASSUME NEW l \in 1 .. c PROVE w[l] = TakenNext(T, c, l, w[l + 1])
  <2>1. CASE l = c
    <3>1. w[l] = a
      BY <1>1, <1>7, <2>1
    <3> HIDE DEF w
    <3>2. TakenNext(T, c, c, w[l + 1]) = a
      BY <1>4
    <3> QED
      BY <2>1, <3>1, <3>2
  <2>2. CASE l # c
    <3> DEFINE i == l - 1
    <3>1. /\ i \in 0 .. c - 2 /\ i + 1 \in 0 .. c - 1 /\ i + 1 = l
          /\ l + 1 \in 1 .. c /\ l + 1 - 1 = l
      BY <1>1, <2>2
    <3>2. w[l] = f[i] /\ w[l + 1] = f[i + 1]
      BY <3>1
    <3> HIDE DEF i, w
    <3>3. f[i] = G[i][f[i + 1]] /\ f[i + 1] \in S
      BY <1>7, <3>1
    <3> QED
      BY <1>6, <3>1, <3>2, <3>3
  <2> QED
    BY <2>1, <2>2
<1>9. w = [l \in 1 .. c |-> w[l]]
  OBVIOUS
<1> HIDE DEF w
<1> QED
  BY <1>8, <1>9 DEF IsTakenBy

\* It tells for every copy what the walk says.
LEMMA TakenHasAll ==
  ASSUME NEW T, NEW t, NEW n, NEW c, Drawing(T, t, n, c),
         NEW b, NEW h, NEW g, NEW u, NEW v, NEW B, PlainWalk(t, n, c, b, h, g, u, v, B),
         NEW w, IsTakenBy(w, T, c)
  PROVE  \A l \in 1 .. c : TakenHas(w[l], n, l, u, v, h, g, B)
<1> DEFINE Has(l) == TakenHas(w[l], n, l, u, v, h, g, B)
           Good == {k \in Nat : k < c => Has(c - k)}
<1>1. c \in Nat \ {0}
  <2>1. n \in Nat \ {0} /\ c \in 1 .. n
    BY DEF Drawing, Alignment
  <2> QED
    BY <2>1
<1>2. ASSUME NEW l \in 1 .. c, l # c => Has(l + 1) PROVE Has(l)
  <2>1. w[l] = TakenNext(T, c, l, w[l + 1])
    BY DEF IsTakenBy
  <2> DEFINE x == w[l + 1]
  <2>2. l # c => TakenHas(x, n, l + 1, u, v, h, g, B)
    BY <1>2
  <2> HIDE DEF x
  <2>3. TakenHas(TakenNext(T, c, l, x), n, l, u, v, h, g, B)
    BY <2>2, TakenNextIs
  <2> QED
    BY <2>1, <2>3 DEF x
<1> HIDE DEF Has
<1>3. 0 \in Good
  <2>1. c \in 1 .. c /\ c - 0 = c
    BY <1>1
  <2>2. Has(c)
    BY <1>2, <2>1
  <2> QED
    BY <2>1, <2>2
<1>4. ASSUME NEW k \in Good PROVE k + 1 \in Good
  <2>1. k \in Nat /\ (k < c => Has(c - k))
    OBVIOUS
  <2>2. ASSUME k + 1 < c PROVE Has(c - (k + 1))
    <3> DEFINE l == c - (k + 1)
    <3>1. l \in 1 .. c /\ l + 1 = c - k /\ k < c
      BY <1>1, <2>1, <2>2
    <3>2. Has(l + 1)
      BY <2>1, <3>1
    <3> HIDE DEF l
    <3>3. Has(l)
      BY <1>2, <3>1, <3>2
    <3> QED
      BY <3>3 DEF l
  <2> QED
    BY <2>1, <2>2
<1>5. Nat \subseteq Good
  <2>1. Good \in SUBSET Nat
    OBVIOUS
  <2> HIDE DEF Good
  <2>2. \A k \in Good : k + 1 \in Good
    BY <1>4
  <2> QED
    BY <1>3, <2>1, <2>2, InductionSet
<1>6. ASSUME NEW l \in 1 .. c PROVE Has(l)
  <2> DEFINE k == c - l
  <2>1. k \in Nat /\ k < c /\ c - k = l
    BY <1>1
  <2> HIDE DEF k
  <2>2. k \in Good
    BY <1>5, <2>1
  <2>3. Has(c - k)
    BY <2>1, <2>2
  <2> QED
    BY <2>1, <2>3
<1> QED
  BY <1>6 DEF Has

\* So a disk's load is what it takes of the walk.
LEMMA FRSLoadValue ==
  ASSUME NEW T, NEW t, NEW n, NEW c, Drawing(T, t, n, c),
         NEW b, NEW h, NEW g, NEW u, NEW v, NEW B, PlainWalk(t, n, c, b, h, g, u, v, B)
  PROVE  /\ FRSLoad(T, c) = [i \in 0 .. n - 1 |-> FRSLoad(T, c)[i]]
         /\ \A i \in 0 .. n - 1 :
              /\ FRSLoad(T, c)[i] \in Fractions /\ Reduced(FRSLoad(T, c)[i])
              /\ IsFraction(FRSLoad(T, c)[i], TakenAt(u, v, h, g, c, i), B[i + 1])
<1> DEFINE w == CHOOSE w : IsTakenBy(w, T, c)
           F(i) == [l \in 1 .. c |-> w[l][i]]
<1>1. FRSLoad(T, c) = [i \in DOMAIN T.disks |-> SumOver(F(i))]
  BY DEF FRSLoad, IsTakenBy, TakenNext
<1>2. IsTakenBy(w, T, c)
  BY TakenExists
<1> HIDE DEF w
<1>3. \A l \in 1 .. c : TakenHas(w[l], n, l, u, v, h, g, B)
  BY <1>2, TakenHasAll
<1>4. /\ n \in Nat \ {0} /\ c \in Nat \ {0} /\ DOMAIN T.disks = 0 .. n - 1
      /\ Walk(u, v, b, h, g, n, c) /\ WalkChances(b, h, g, n, c) /\ Products(B, b, n)
  <2>1. n \in Nat \ {0} /\ c \in 1 .. n /\ DOMAIN T.disks = 0 .. n - 1
    BY DEF Drawing, Alignment
  <2>2. Walk(u, v, b, h, g, n, c) /\ WalkChances(b, h, g, n, c) /\ Products(B, b, n)
    BY DEF PlainWalk, WalkSetting
  <2> QED
    BY <2>1, <2>2
<1>5. ASSUME NEW i \in 0 .. n - 1
      PROVE  /\ SumOver(F(i)) \in Fractions /\ Reduced(SumOver(F(i)))
             /\ IsFraction(SumOver(F(i)), TakenAt(u, v, h, g, c, i), B[i + 1])
  <2> DEFINE f == F(i)
             C == 1 .. c
             N == [m \in C |-> Took(u, v, h, g, i, m)]
             d == B[i + 1]
  <2>1. IsFiniteSet(C) /\ C # {} /\ DOMAIN f = C
    <3>1. c \in Nat \ {0}
      BY <1>4
    <3>2. IsFiniteSet(C)
      BY <3>1, FS_Interval
    <3>3. 1 \in C
      BY <3>1
    <3>4. DOMAIN f = C
      OBVIOUS
    <3> QED
      BY <3>2, <3>3, <3>4
  <2>2. d \in Nat \ {0}
    <3>1. i + 1 \in 0 .. n
      BY <1>4
    <3> QED
      BY <1>4, <3>1 DEF Products
  <2>3. ASSUME NEW m \in C
        PROVE  f[m] \in Fractions /\ N[m] \in Int /\ IsFraction(f[m], N[m], d)
    <3>1. TakenHas(w[m], n, m, u, v, h, g, B)
      BY <1>3
    <3>2. w[m][i] \in Fractions /\ IsFraction(w[m][i], Took(u, v, h, g, i, m), d)
      BY <3>1 DEF TakenHas
    <3>3. Took(u, v, h, g, i, m) \in Nat
      BY <1>4, WalkTypes
    <3>4. f[m] = w[m][i] /\ N[m] = Took(u, v, h, g, i, m)
      OBVIOUS
    <3> HIDE DEF f, N, d
    <3> QED
      BY <3>2, <3>3, <3>4
  <2>4. TakenAt(u, v, h, g, c, i) = SumFunctionOnSet(N, C)
    BY DEF TakenAt
  <2> HIDE DEF f, C, N, d
  <2>5. SumOver(f) \in Fractions /\ Reduced(SumOver(f))
    BY <2>1, <2>3, SumIsReduced
  <2>6. IsFraction(SumOver(f), SumFunctionOnSet(N, C), d)
    BY <2>1, <2>2, <2>3, FractionSumValue
  <2> QED
    BY <2>4, <2>5, <2>6 DEF f, d
<1>6. \A i \in 0 .. n - 1 : FRSLoad(T, c)[i] = SumOver(F(i))
  BY <1>1, <1>4
<1>7. FRSLoad(T, c) = [i \in 0 .. n - 1 |-> FRSLoad(T, c)[i]]
  BY <1>1, <1>4, <1>6
<1> HIDE DEF F
<1> QED
  BY <1>5, <1>6, <1>7

(* Where nothing had to be corrected, a FastRedundantShare is fair.        *)
LEMMA DrawsAreFair ==
  ASSUME NEW T, NEW t, NEW n, NEW c, Drawing(T, t, n, c), Corrected(t) = {}
  PROVE  FRSLoad(T, c) = FairLoad(T, c)
<1> DEFINE pos == t.cPosition
           b == PassesOf(t, -1, 1)
           h == OnOf(t, n, c, -1, 1)
           g == FirstOf(t, n, c, -1, 0, 0, 1)
<1>1. Alignment(t, n, c) /\ Correcting(t, c, -1, 0, 0, 1)
  BY DEF Drawing, Correcting
<1>2. PICK u, v : LET b1 == PassesOf(t, -1, 1)
                      h1 == OnOf(t, n, c, -1, 1)
                      g1 == FirstOf(t, n, c, -1, 0, 0, 1)
                  IN  WalkChances(b1, h1, g1, n, c) => Walk(u, v, b1, h1, g1, n, c)
  BY WalkOf
<1>3. 0 \in Nat /\ 1 \in Nat \ {0} /\ 0 <= 1 /\ (-1 \in 0 .. n - 1 => 0 = Left(t.check, n, c)[-1])
  BY <1>1, CorrectingIs
<1>4. WalkSetting(t.check, DisksOf(t, n), pos, Left(t.check, n, c), n, c, b, h, g, u, v)
  BY <1>1, <1>2, <1>3, SettingIs
<1>5. n \in Nat \ {0} /\ DOMAIN T.disks = 0 .. n - 1 /\ T.cPosition = pos
  BY DEF Drawing, Alignment
<1>6. PlainBelow(DisksOf(t, n), pos, Left(t.check, n, c), b, h, g, c, n)
  <2>1. n \in 0 .. n
    BY <1>5
  <2>2. \A i \in 0 .. n - 1 : i \notin Corrected(t) /\ i # -1
    BY <1>5
  <2> QED
    BY <1>1, <1>3, <2>1, <2>2, PlainIs
<1>7. WalkChances(b, h, g, n, c)
  BY <1>4 DEF WalkSetting
<1>8. PICK B : Products(B, b, n)
  <2>1. \A i \in 0 .. n - 1 : b[i] \in Nat \ {0}
    BY <1>7 DEF WalkChances
  <2> HIDE DEF b
  <2> QED
    BY <1>5, <2>1, ProductsExist
<1>9. PlainWalk(t, n, c, b, h, g, u, v, B)
  BY <1>4, <1>6, <1>8 DEF PlainWalk
<1> DEFINE f == FRSLoad(T, c)
<1>10. /\ f = [i \in 0 .. n - 1 |-> f[i]]
       /\ \A i \in 0 .. n - 1 :
            /\ f[i] \in Fractions /\ Reduced(f[i])
            /\ IsFraction(f[i], TakenAt(u, v, h, g, c, i), B[i + 1])
  <2> HIDE DEF b, h, g
  <2> QED
    BY <1>9, FRSLoadValue
<1> HIDE DEF f
<1>11. ASSUME NEW i \in 0 .. n - 1
       PROVE  f[i] = Ratio(c * (pos[i] - pos[i + 1]), pos[0])
  BY <1>1, <1>2, <1>8, <1>10, TakesItsShare
<1>12. FairLoad(T, c) = [i \in 0 .. n - 1 |-> Ratio(c * (pos[i] - pos[i + 1]), pos[0])]
  BY <1>5 DEF FairLoad
<1>13. f = [i \in 0 .. n - 1 |-> Ratio(c * (pos[i] - pos[i + 1]), pos[0])]
  BY <1>10, <1>11
<1> QED
  BY <1>12, <1>13 DEF f
================================================================================
