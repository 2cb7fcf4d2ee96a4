--------------------------- MODULE GraphWalk_proof ---------------------------
(***************************************************************************)
(* Every load lays the graph out soundly: the search for back edges leaves *)
(* no cycle, the sort orders every node.  From there, a walk that is not   *)
(* torn runs exactly what is owed, unless a re-drive forgot a row, and no  *)
(* node twice whose completion is on record.  For every graph, and any     *)
(* number of parks and crashes, also between a row and its path entry.     *)
(*                                                                         *)
(* What a loop computes follows by induction on its rounds.  The induction *)
(* theorems of the library take an operator; Induction takes a set.        *)
(***************************************************************************)
EXTENDS GraphWalk, FiniteSetTheorems, WellFoundedInduction, TLAPS

\* The naturals are well founded, with the order written as a set of pairs.
Below == {p \in Nat \X Nat : p[1] < p[2]}
LEMMA BelowWellFounded == IsWellFoundedOn(Below, Nat)
  BY NatLessThanWellFounded, Zenon DEF OpToRel, Below

\* A set that has zero and the successor of each of its numbers has them all.
LEMMA Induction ==
  ASSUME NEW P, 0 \in P, \A k \in Nat : k \in P => k + 1 \in P
  PROVE  Nat \subseteq P
<1> SUFFICES ASSUME Nat \ P # {} PROVE FALSE
  OBVIOUS
<1>1. PICK n \in Nat \ P : \A m \in Nat \ P : ~(<<m, n>> \in Below)
  <2>1. Nat \ P \subseteq Nat
    OBVIOUS
  <2> QED BY <2>1, BelowWellFounded, WFMin
<1>2. n - 1 \in Nat /\ <<n - 1, n>> \in Below /\ n = (n - 1) + 1
  BY DEF Below
<1> QED BY <1>1, <1>2

\* The first n rounds of a loop whose k-th round is the function F[k].
IsRun(g, n, S, z, F) ==
  /\ g \in [0..n -> S] /\ g[0] = z
  /\ \A k \in 1..n : g[k] = F[k][g[k - 1]]

\* A loop can be run for any number of rounds.
LEMMA RunExists ==
  ASSUME NEW S, NEW z \in S, NEW F \in [Nat -> [S -> S]], NEW n \in Nat
  PROVE  \E g : IsRun(g, n, S, z, F)
<1> DEFINE P == {m \in Nat : \E g : IsRun(g, m, S, z, F)}
<1>1. 0 \in P
  <2>1. IsRun([k \in 0..0 |-> z], 0, S, z, F)
    BY DEF IsRun
  <2> QED BY <2>1
<1>2. ASSUME NEW m \in Nat, m \in P PROVE m + 1 \in P
  <2>1. PICK g : IsRun(g, m, S, z, F)
    BY <1>2
  <2> DEFINE h == [k \in 0..m + 1 |-> IF k = m + 1 THEN F[m + 1][g[m]] ELSE g[k]]
  <2>2. g[m] \in S /\ F[m + 1] \in [S -> S]
    BY <2>1 DEF IsRun
  <2>3. h \in [0..m + 1 -> S]
    BY <2>1, <2>2 DEF IsRun
  <2>4. h[0] = z
    BY <2>1 DEF IsRun
  <2>5. ASSUME NEW k \in 1..m + 1 PROVE h[k] = F[k][h[k - 1]]
    BY <2>1 DEF IsRun
  <2>6. IsRun(h, m + 1, S, z, F)
    BY <2>3, <2>4, <2>5 DEF IsRun
  <2> QED BY <2>6
<1>3. Nat \subseteq P
  <2> HIDE DEF P
  <2> QED BY <1>1, <1>2, Induction
<1> QED BY <1>3

\* Two runs agree on the rounds they share.
LEMMA RunsAgree ==
  ASSUME NEW S, NEW z \in S, NEW F \in [Nat -> [S -> S]], NEW n \in Nat, NEW m \in Nat,
         NEW g, NEW h, IsRun(g, n, S, z, F), IsRun(h, m, S, z, F),
         NEW k \in Nat, k <= n, k <= m
  PROVE  g[k] = h[k]
<1> DEFINE P == {i \in Nat : i <= n /\ i <= m => g[i] = h[i]}
<1>1. 0 \in P
  BY DEF IsRun
<1>2. ASSUME NEW i \in Nat, i \in P PROVE i + 1 \in P
  <2>1. SUFFICES ASSUME i + 1 <= n, i + 1 <= m PROVE g[i + 1] = h[i + 1]
    OBVIOUS
  <2>2. g[i] = h[i]
    BY <1>2, <2>1
  <2>3. g[i + 1] = F[i + 1][g[i]] /\ h[i + 1] = F[i + 1][h[i]]
    BY <2>1 DEF IsRun
  <2> QED BY <2>2, <2>3
<1>3. Nat \subseteq P
  <2> HIDE DEF P
  <2> QED BY <1>1, <1>2, Induction
<1> QED BY <1>3

\* The states of a loop whose rounds are the functions F[1], F[2], ...
Iterates(r, S, z, F) ==
  /\ r \in [Nat -> S] /\ r[0] = z
  /\ \A k \in Nat \ {0} : r[k] = F[k][r[k - 1]]

\* There is a function of the rounds: a recursive definition has what it asks for.
LEMMA Iteration ==
  ASSUME NEW S, NEW z \in S, NEW F \in [Nat -> [S -> S]]
  PROVE  \E r : Iterates(r, S, z, F)
<1> DEFINE run(n) == CHOOSE g : IsRun(g, n, S, z, F)
           r == [k \in Nat |-> run(k)[k]]
<1>1. ASSUME NEW n \in Nat PROVE IsRun(run(n), n, S, z, F)
  BY RunExists
<1> HIDE DEF run
<1>2. r \in [Nat -> S]
  BY <1>1 DEF IsRun
<1>3. r[0] = z
  BY <1>1 DEF IsRun
<1>4. ASSUME NEW k \in Nat, k # 0 PROVE r[k] = F[k][r[k - 1]]
  <2>1. k - 1 \in Nat /\ k - 1 <= k
    BY <1>4
  <2>2. run(k)[k] = F[k][run(k)[k - 1]]
    BY <1>1, <1>4 DEF IsRun
  <2>3. run(k)[k - 1] = run(k - 1)[k - 1]
    BY <2>1, <1>1, RunsAgree
  <2> QED BY <2>1, <2>2, <2>3
<1> HIDE DEF r
<1> QED BY <1>2, <1>3, <1>4 DEF Iterates

\* The least of some numbers is one of them.
LEMMA MinLemma ==
  ASSUME NEW S \in SUBSET Nat, S # {}
  PROVE  Min(S) \in S
<1>1. PICK n \in S : \A m \in S : ~(<<m, n>> \in Below)
  BY BelowWellFounded, WFMin
<1>2. ASSUME NEW m \in S PROVE n <= m
  <2>1. n \in Nat /\ m \in Nat
    OBVIOUS
  <2>2. ASSUME m < n PROVE <<m, n>> \in Below
    BY <2>1, <2>2 DEF Below
  <2> QED BY <1>1, <2>1, <2>2
<1> QED BY <1>2 DEF Min

-----------------------------------------------------------------------------
(***************************************************************************)
(* The search for back edges.                                              *)
(***************************************************************************)
\* The rows of the nodes N and the edges E.
Rows(N, E, ns, rs) ==
  /\ ns \in Seq(N) /\ Range(ns) = N
  /\ rs \in Seq(E) /\ Range(rs) = E
  /\ \A e \in E : e.source \in N /\ e.target \in N

Searches(N, E) ==
  [path : Seq(N), left : SUBSET N, followed : SUBSET E, back : SUBSET E]
Taken(s) == s.followed \ s.back

\* A node is on the stack once, and not left.
Stacked(s) ==
  /\ \A i, j \in 1..Len(s.path) : s.path[i] = s.path[j] => i = j
  /\ \A i \in 1..Len(s.path) : s.path[i] \notin s.left

\* A followed edge comes from a node met; unless it is a back edge, it leads to
\* a node left or further up the stack.
Downward(s) ==
  /\ s.back \subseteq s.followed
  /\ \A e \in s.followed : e.source \in Met(s)
  /\ \A e \in Taken(s) :
       \/ e.target \in s.left
       \/ \E i, j \in 1..Len(s.path) :
            i < j /\ s.path[i] = e.source /\ s.path[j] = e.target

\* The edges of a node left are followed.
LeftDone(E, s) == \A e \in E : e.source \in s.left => e \in s.followed

\* No cycle: of any nodes, one is led to by none of them.
Acyclic(E, N) ==
  \A C \in SUBSET N :
    C # {} => \E n \in C : \A e \in E : e.target = n => e.source \notin C

\* The edges taken lead up the stack, and from the target of a back edge to its source.
Chained(N, s) ==
  \A C \in SUBSET N :
    Closed(Taken(s), C) =>
      /\ \A i, j \in 1..Len(s.path) : i <= j /\ s.path[i] \in C => s.path[j] \in C
      /\ \A e \in s.back : e.target \in C => e.source \in C

SearchInv(N, E, s) ==
  /\ s \in Searches(N, E) /\ Stacked(s) /\ Downward(s) /\ LeftDone(E, s)
  /\ Acyclic(Taken(s), s.left) /\ Chained(N, s)

\* The top of a stack that is not empty.
LEMMA TopLemma ==
  ASSUME NEW N, NEW E, NEW s \in Searches(N, E), s.path # <<>>
  PROVE  /\ Len(s.path) \in Nat \ {0} /\ Len(s.path) \in 1..Len(s.path)
         /\ Top(s) = s.path[Len(s.path)] /\ Top(s) \in N
         /\ Range(s.path) = {s.path[i] : i \in 1..Len(s.path)}
  BY DEF Searches, Top, Range

\* Append adds one element to the range.
LEMMA AppendRange ==
  ASSUME NEW S, NEW q \in Seq(S), NEW x \in S
  PROVE  Range(Append(q, x)) = Range(q) \cup {x}
<1>1. /\ Len(q) \in Nat /\ DOMAIN q = 1..Len(q)
      /\ DOMAIN Append(q, x) = 1..Len(q) + 1
      /\ \A i \in 1..Len(q) : Append(q, x)[i] = q[i]
      /\ Append(q, x)[Len(q) + 1] = x
  OBVIOUS
<1> QED BY <1>1 DEF Range

\* Down an edge e of the top node.
LEMMA FollowStep ==
  ASSUME NEW N, NEW E, NEW s, SearchInv(N, E, s), s.path # <<>>,
         NEW e \in E, e.source = Top(s), e \notin s.followed,
         e.source \in N, e.target \in N
  PROVE  SearchInv(N, E, Follow(s, e))
<1> DEFINE t == Follow(s, e)
           d == e.target
<1>1. s \in Searches(N, E)
  BY DEF SearchInv
<1>2. /\ Len(s.path) \in Nat \ {0} /\ Top(s) = s.path[Len(s.path)]
      /\ Range(s.path) = {s.path[i] : i \in 1..Len(s.path)}
      /\ Len(s.path) \in 1..Len(s.path)
  BY <1>1, TopLemma
<1>3. /\ t.left = s.left /\ t.followed = s.followed \cup {e}
      /\ t.back = IF d \in Range(s.path) THEN s.back \cup {e} ELSE s.back
      /\ t.path = IF d \in Met(s) THEN s.path ELSE Append(s.path, d)
  BY DEF Follow
<1>4. t \in Searches(N, E)
  BY <1>1 DEF Follow, Searches
<1> HIDE DEF t
<1>5. Taken(t) = IF d \in Range(s.path) THEN Taken(s) ELSE Taken(s) \cup {e}
  BY <1>3, <1>1 DEF Taken, SearchInv, Downward
<1>6. d \in Range(s.path) <=> \E i \in 1..Len(s.path) : s.path[i] = d
  BY <1>2
<1>7. Top(s) \notin s.left /\ Top(s) \in Met(s)
  BY <1>2 DEF SearchInv, Stacked, Met
<1>8. t.back \subseteq t.followed
  BY <1>3 DEF SearchInv, Downward
<1>9. LeftDone(E, t)
  BY <1>3 DEF SearchInv, LeftDone
<1>10. Acyclic(Taken(t), t.left)
  <2> SUFFICES ASSUME NEW C \in SUBSET s.left, C # {}
               PROVE  \E n \in C : \A f \in Taken(t) : f.target = n => f.source \notin C
    BY <1>3 DEF Acyclic
  <2>1. PICK n \in C : \A f \in Taken(s) : f.target = n => f.source \notin C
    BY DEF SearchInv, Acyclic
  <2> QED BY <2>1, <1>5, <1>7
<1>11. CASE d \in Met(s)
  <2>1. t.path = s.path /\ Met(t) = Met(s)
    BY <1>3, <1>11 DEF Met
  <2>2. Stacked(t)
    BY <2>1, <1>3 DEF SearchInv, Stacked
  <2>3. \A f \in t.followed : f.source \in Met(t)
    BY <2>1, <1>3, <1>7 DEF SearchInv, Downward
  <2>4. ASSUME NEW f \in Taken(t)
        PROVE  \/ f.target \in t.left
               \/ \E i, j \in 1..Len(t.path) :
                    i < j /\ t.path[i] = f.source /\ t.path[j] = f.target
    <3>1. CASE f \in Taken(s)
      BY <3>1, <2>1, <1>3 DEF SearchInv, Downward
    <3>2. CASE f = e /\ d \notin Range(s.path)
      BY <3>2, <1>3, <1>11 DEF Met
    <3> QED BY <3>1, <3>2, <1>5
  <2>5. Downward(t)
    BY <2>3, <2>4, <1>8 DEF Downward
  <2>6. ASSUME NEW C \in SUBSET N, Closed(Taken(t), C)
        PROVE  /\ \A i, j \in 1..Len(t.path) : i <= j /\ t.path[i] \in C => t.path[j] \in C
               /\ \A f \in t.back : f.target \in C => f.source \in C
    <3>1. Closed(Taken(s), C)
      BY <2>6, <1>5 DEF Closed
    <3>2. \A i, j \in 1..Len(s.path) : i <= j /\ s.path[i] \in C => s.path[j] \in C
      BY <3>1 DEF SearchInv, Chained
    <3>3. \A f \in s.back : f.target \in C => f.source \in C
      BY <3>1 DEF SearchInv, Chained
    <3>4. d \in Range(s.path) /\ d \in C => Top(s) \in C
      BY <3>2, <1>2, <1>6
    <3> QED BY <3>2, <3>3, <3>4, <2>1, <1>3
  <2>7. Chained(N, t)
    BY <2>6 DEF Chained
  <2> QED BY <1>4, <2>2, <2>5, <1>9, <1>10, <2>7 DEF SearchInv, t
<1>12. CASE d \notin Met(s)
  <2> DEFINE L == Len(s.path)
  <2>1. /\ Len(t.path) = L + 1 /\ t.path[L + 1] = d
        /\ \A i \in 1..L : t.path[i] = s.path[i]
    BY <1>1, <1>2, <1>3, <1>12 DEF Searches
  <2>2. d \notin s.left /\ \A i \in 1..L : s.path[i] # d
    BY <1>12, <1>2 DEF Met
  <2> HIDE DEF L
  <2>3. L \in Nat \ {0}
    BY <1>2 DEF L
  <2>4. Stacked(t)
    BY <2>1, <2>2, <2>3, <1>3 DEF SearchInv, Stacked, L
  <2>5. Met(t) = Met(s) \cup {d}
    BY <1>1, <1>2, <1>3, <1>4, <2>1, <2>3 DEF Met, Searches, Range, L
  <2>6. \A f \in t.followed : f.source \in Met(t)
    BY <2>5, <1>3, <1>7 DEF SearchInv, Downward
  <2>7. ASSUME NEW f \in Taken(t)
        PROVE  \/ f.target \in t.left
               \/ \E i, j \in 1..Len(t.path) :
                    i < j /\ t.path[i] = f.source /\ t.path[j] = f.target
    <3>1. CASE f \in Taken(s)
      <4>1. CASE f.target \in s.left
        BY <4>1, <1>3
      <4>2. CASE \E i, j \in 1..L :
                   i < j /\ s.path[i] = f.source /\ s.path[j] = f.target
        BY <4>2, <2>1, <2>3
      <4> QED BY <3>1, <4>1, <4>2 DEF SearchInv, Downward, L
    <3>2. CASE f = e
      <4>1. L < L + 1 /\ L \in 1..L + 1 /\ L + 1 \in 1..L + 1
        BY <2>3
      <4> QED BY <4>1, <3>2, <2>1, <1>2 DEF L
    <3> QED BY <3>1, <3>2, <1>5
  <2>8. Downward(t)
    BY <2>6, <2>7, <1>8 DEF Downward
  <2>9. ASSUME NEW C \in SUBSET N, Closed(Taken(t), C)
        PROVE  /\ \A i, j \in 1..Len(t.path) : i <= j /\ t.path[i] \in C => t.path[j] \in C
               /\ \A f \in t.back : f.target \in C => f.source \in C
    <3>1. Closed(Taken(s), C)
      BY <2>9, <1>5 DEF Closed
    <3>2. \A i, j \in 1..L : i <= j /\ s.path[i] \in C => s.path[j] \in C
      BY <3>1 DEF SearchInv, Chained, L
    <3>3. \A f \in s.back : f.target \in C => f.source \in C
      BY <3>1 DEF SearchInv, Chained
    <3>4. Top(s) \in C => d \in C
      BY <2>9, <1>5, <1>12 DEF Closed, Met
    <3>5. \A i \in 1..L : s.path[i] \in C => d \in C
      BY <3>2, <3>4, <1>2, <2>3 DEF L
    <3>6. t.back = s.back
      BY <1>3, <1>12 DEF Met
    <3>7. ASSUME NEW i \in 1..L + 1, NEW j \in 1..L + 1, i <= j, t.path[i] \in C
          PROVE  t.path[j] \in C
      <4>1. CASE j \in 1..L
        BY <4>1, <3>7, <3>2, <2>1, <2>3
      <4>2. CASE j = L + 1
        BY <4>2, <3>7, <3>5, <2>1, <2>3
      <4> QED BY <4>1, <4>2, <2>3
    <3> QED BY <3>3, <3>6, <3>7, <2>1
  <2>10. Chained(N, t)
    BY <2>9 DEF Chained
  <2> QED BY <1>4, <2>4, <2>8, <1>9, <1>10, <2>10 DEF SearchInv, t
<1> QED BY <1>11, <1>12

\* Up again, when the edges of the top node are followed.
LEMMA LeaveStep ==
  ASSUME NEW N, NEW E, NEW s, SearchInv(N, E, s), s.path # <<>>,
         \A e \in E : e.source = Top(s) => e \in s.followed
  PROVE  /\ SearchInv(N, E, Leave(s))
         /\ Met(Leave(s)) = Met(s) /\ Top(s) \notin s.left
<1> DEFINE t == Leave(s)
           L == Len(s.path) - 1
           n == Top(s)
<1>1. s \in Searches(N, E)
  BY DEF SearchInv
<1>2. /\ L \in Nat /\ Len(s.path) = L + 1 /\ n = s.path[L + 1] /\ n \in N
      /\ Range(s.path) = {s.path[i] : i \in 1..L + 1}
  <2>1. /\ Len(s.path) \in Nat \ {0}
        /\ Range(s.path) = {s.path[i] : i \in 1..Len(s.path)}
        /\ Top(s) = s.path[Len(s.path)] /\ Top(s) \in N
    BY <1>1 DEF Searches, Top, Range
  <2>2. L \in Nat /\ Len(s.path) = L + 1
    BY <2>1
  <2> HIDE DEF L
  <2> QED BY <2>1, <2>2
<1>3. /\ t.left = s.left \cup {n} /\ t.followed = s.followed /\ t.back = s.back
      /\ t.path = SubSeq(s.path, 1, L)
  BY <1>1 DEF Leave, Searches
<1>4. t.path \in Seq(N) /\ Len(t.path) = L /\ \A i \in 1..L : t.path[i] = s.path[i]
  <2>1. s.path \in Seq(N) /\ s.path = [i \in 1..Len(s.path) |-> s.path[i]]
    BY <1>1 DEF Searches
  <2> HIDE DEF t, L
  <2>2. SubSeq(s.path, 1, L) = [i \in 1..L |-> s.path[i]]
    BY <1>2, <2>1
  <2>3. \A i \in 1..L : s.path[i] \in N
    BY <1>2, <2>1
  <2> QED BY <1>2, <1>3, <2>2, <2>3
<1>5. t \in Searches(N, E)
  BY <1>1, <1>2, <1>4 DEF Leave, Searches
<1>6. Taken(t) = Taken(s)
  BY <1>3 DEF Taken
<1> HIDE DEF t, L, n
<1>7. /\ n \notin s.left
      /\ \A i \in 1..L + 1 : s.path[i] = n => i = L + 1
      /\ \A i \in 1..L + 1 : s.path[i] \notin s.left
      /\ \A i, j \in 1..L + 1 : s.path[i] = s.path[j] => i = j
  <2>1. /\ \A i \in 1..L + 1 : s.path[i] \notin s.left
        /\ \A i, j \in 1..L + 1 : s.path[i] = s.path[j] => i = j
    BY <1>2 DEF SearchInv, Stacked
  <2> QED BY <1>2, <2>1
<1>8. Stacked(t)
  <2>1. ASSUME NEW i \in 1..L PROVE i \in 1..L + 1 /\ t.path[i] = s.path[i] /\ i # L + 1
    BY <1>2, <1>4
  <2>2. \A i \in 1..L : t.path[i] \notin t.left
    BY <2>1, <1>3, <1>7
  <2>3. \A i, j \in 1..L : t.path[i] = t.path[j] => i = j
    BY <2>1, <1>7
  <2> QED BY <2>2, <2>3, <1>4 DEF Stacked
<1>9. Met(t) = Met(s)
  <2>1. Range(t.path) = {t.path[i] : i \in 1..L}
    BY <1>4 DEF Range
  <2>2. Range(t.path) \cup {n} = Range(s.path)
    BY <1>2, <1>4, <2>1
  <2> QED BY <2>2, <1>3 DEF Met
<1>10. \A e \in Taken(s) :
         \/ e.target \in s.left
         \/ \E i, j \in 1..L + 1 : i < j /\ s.path[i] = e.source /\ s.path[j] = e.target
  BY <1>2 DEF SearchInv, Downward
<1>11. ASSUME NEW e \in Taken(t)
       PROVE  \/ e.target \in t.left
              \/ \E i, j \in 1..Len(t.path) :
                   i < j /\ t.path[i] = e.source /\ t.path[j] = e.target
  <2>1. CASE e.target \in s.left
    BY <2>1, <1>3
  <2>2. CASE \E i, j \in 1..L + 1 : i < j /\ s.path[i] = e.source /\ s.path[j] = e.target
    <3>1. PICK i \in 1..L + 1, j \in 1..L + 1 :
            i < j /\ s.path[i] = e.source /\ s.path[j] = e.target
      BY <2>2
    <3>2. CASE j = L + 1
      BY <3>1, <3>2, <1>2, <1>3
    <3>3. CASE j # L + 1
      <4>1. i \in 1..L /\ j \in 1..L
        BY <3>1, <3>3, <1>2
      <4> QED BY <4>1, <3>1, <1>4
    <3> QED BY <3>2, <3>3
  <2> QED BY <2>1, <2>2, <1>10, <1>6
<1>12. Downward(t)
  <2>1. \A e \in t.followed : e.source \in Met(t)
    BY <1>3, <1>9 DEF SearchInv, Downward
  <2>2. t.back \subseteq t.followed
    BY <1>3 DEF SearchInv, Downward
  <2> QED BY <2>1, <2>2, <1>11 DEF Downward
<1>13. LeftDone(E, t)
  BY <1>3 DEF SearchInv, LeftDone, n
<1>14. ASSUME NEW e \in Taken(s), e.target = n PROVE e.source \notin t.left
  <2>1. PICK i \in 1..L + 1, j \in 1..L + 1 :
          i < j /\ s.path[i] = e.source /\ s.path[j] = n
    BY <1>14, <1>10, <1>7
  <2>2. j = L + 1 /\ i # L + 1
    BY <2>1, <1>7, <1>2
  <2> QED BY <2>1, <2>2, <1>3, <1>7
<1>15. Acyclic(Taken(t), t.left)
  <2> SUFFICES ASSUME NEW C \in SUBSET t.left, C # {}
               PROVE  \E m \in C : \A e \in Taken(s) : e.target = m => e.source \notin C
    BY <1>6 DEF Acyclic
  <2>1. CASE n \in C
    BY <2>1, <1>14
  <2>2. CASE n \notin C
    <3>1. C \in SUBSET s.left
      BY <2>2, <1>3
    <3> QED BY <3>1 DEF SearchInv, Acyclic
  <2> QED BY <2>1, <2>2
<1>16. Chained(N, t)
  <2> SUFFICES ASSUME NEW C \in SUBSET N, Closed(Taken(s), C)
               PROVE  /\ \A i, j \in 1..L : i <= j /\ t.path[i] \in C => t.path[j] \in C
                      /\ \A e \in s.back : e.target \in C => e.source \in C
    BY <1>3, <1>4, <1>6 DEF Chained
  <2>1. /\ \A i, j \in 1..L + 1 : i <= j /\ s.path[i] \in C => s.path[j] \in C
        /\ \A e \in s.back : e.target \in C => e.source \in C
    BY <1>2 DEF SearchInv, Chained
  <2> QED BY <2>1, <1>2, <1>4
<1> QED BY <1>5, <1>7, <1>8, <1>9, <1>12, <1>13, <1>15, <1>16 DEF SearchInv, t, n

\* From a node not met, when the stack is empty.
LEMMA EnterStep ==
  ASSUME NEW N, NEW E, NEW s, SearchInv(N, E, s), s.path = <<>>,
         NEW n \in N, n \notin Met(s)
  PROVE  /\ SearchInv(N, E, [s EXCEPT !.path = <<n>>])
         /\ Met([s EXCEPT !.path = <<n>>]) = Met(s) \cup {n}
<1> DEFINE t == [s EXCEPT !.path = <<n>>]
<1>1. s \in Searches(N, E)
  BY DEF SearchInv
<1>2. /\ t.left = s.left /\ t.followed = s.followed /\ t.back = s.back
      /\ t.path = <<n>>
  BY <1>1 DEF Searches
<1>3. Len(t.path) = 1 /\ t.path[1] = n /\ Range(t.path) = {n} /\ Range(s.path) = {}
  BY <1>2 DEF Range
<1>4. t \in Searches(N, E)
  <2>1. <<n>> \in Seq(N)
    OBVIOUS
  <2> QED BY <1>1, <2>1 DEF Searches
<1>5. Taken(t) = Taken(s)
  BY <1>2 DEF Taken
<1> HIDE DEF t
<1>6. Met(t) = Met(s) \cup {n}
  BY <1>2, <1>3 DEF Met
<1>7. Stacked(t)
  BY <1>2, <1>3 DEF Stacked, Met
<1>8. Downward(t)
  BY <1>2, <1>5, <1>6 DEF SearchInv, Downward
<1>9. LeftDone(E, t) /\ Acyclic(Taken(t), t.left)
  BY <1>2, <1>5 DEF SearchInv, LeftDone
<1>10. Chained(N, t)
  BY <1>2, <1>3, <1>5 DEF SearchInv, Chained
<1> QED BY <1>4, <1>6, <1>7, <1>8, <1>9, <1>10 DEF SearchInv, t

\* What a search has done, in numbers.
Measure(s) == Cardinality(s.followed) + Cardinality(Met(s)) + Cardinality(s.left)

\* The numbers are bounded: each edge is followed once, each node met and left once.
LEMMA MeasureType ==
  ASSUME NEW N, NEW E, IsFiniteSet(N), IsFiniteSet(E), NEW s, SearchInv(N, E, s)
  PROVE  /\ IsFiniteSet(s.followed) /\ IsFiniteSet(Met(s)) /\ IsFiniteSet(s.left)
         /\ Cardinality(s.followed) \in Nat /\ Cardinality(Met(s)) \in Nat
         /\ Cardinality(s.left) \in Nat
         /\ Measure(s) \in Nat
         /\ Measure(s) <= 2 * Cardinality(N) + Cardinality(E)
<1>1. s.followed \in SUBSET E /\ s.left \in SUBSET N
  BY DEF SearchInv, Searches
<1>2. Met(s) \in SUBSET N
  BY DEF SearchInv, Searches, Met, Range
<1>3. /\ IsFiniteSet(s.followed) /\ IsFiniteSet(Met(s)) /\ IsFiniteSet(s.left)
      /\ Cardinality(s.followed) <= Cardinality(E)
      /\ Cardinality(Met(s)) <= Cardinality(N) /\ Cardinality(s.left) <= Cardinality(N)
  BY <1>1, <1>2, FS_Subset
<1>4. /\ Cardinality(s.followed) \in Nat /\ Cardinality(Met(s)) \in Nat
      /\ Cardinality(s.left) \in Nat
      /\ Cardinality(N) \in Nat /\ Cardinality(E) \in Nat
  BY <1>3, FS_CardinalityType
<1> QED BY <1>3, <1>4 DEF Measure

\* A round of the search keeps the invariant and does something, unless the search
\* has ended.
LEMMA SearchStep ==
  ASSUME NEW N, NEW E, IsFiniteSet(N), IsFiniteSet(E), NEW ns, NEW rs,
         Rows(N, E, ns, rs), NEW s, SearchInv(N, E, s)
  PROVE  /\ SearchInv(N, E, SearchOn(ns, rs, s))
         /\ \/ s.path = <<>> /\ s.left = N
            \/ Measure(SearchOn(ns, rs, s)) > Measure(s)
<1> DEFINE t == SearchOn(ns, rs, s)
<1>1. s \in Searches(N, E)
  BY DEF SearchInv
<1>2. /\ Open(rs, s) \in SUBSET Nat /\ Unmet(ns, s) \in SUBSET Nat
      /\ \A i \in Open(rs, s) : rs[i] \in E /\ rs[i].source = Top(s) /\ rs[i] \notin s.followed
      /\ \A i \in Unmet(ns, s) : ns[i] \in N /\ ns[i] \notin Met(s)
  BY DEF Rows, Open, Unmet
<1>3. /\ IsFiniteSet(s.followed) /\ IsFiniteSet(Met(s)) /\ IsFiniteSet(s.left)
      /\ Cardinality(s.followed) \in Nat /\ Cardinality(Met(s)) \in Nat
      /\ Cardinality(s.left) \in Nat
  BY MeasureType
<1>4. CASE s.path # <<>> /\ Open(rs, s) # {}
  <2> DEFINE e == rs[Min(Open(rs, s))]
  <2>1. e \in E /\ e.source = Top(s) /\ e \notin s.followed
    BY <1>2, <1>4, MinLemma
  <2>2. t = Follow(s, e)
    BY <1>4 DEF SearchOn
  <2> HIDE DEF e, t
  <2>3. e.source \in N /\ e.target \in N
    BY <2>1 DEF Rows
  <2>4. SearchInv(N, E, t)
    BY <2>1, <2>2, <2>3, <1>4, FollowStep
  <2>5. t.followed = s.followed \cup {e} /\ t.left = s.left
    BY <2>2 DEF Follow
  <2>6. Met(t) = Met(s) \cup {e.target}
    <3>1. CASE e.target \in Met(s)
      BY <3>1, <2>2 DEF Follow, Met
    <3>2. CASE e.target \notin Met(s)
      <4>1. t.path = Append(s.path, e.target)
        BY <3>2, <2>2 DEF Follow
      <4>2. Range(t.path) = Range(s.path) \cup {e.target}
        BY <4>1, <1>1, <2>3, AppendRange DEF Searches
      <4> QED BY <4>2, <2>5 DEF Met
    <3> QED BY <3>1, <3>2
  <2>7. /\ Cardinality(t.followed) = Cardinality(s.followed) + 1
        /\ Cardinality(Met(t)) >= Cardinality(Met(s))
    <3>1. Cardinality(t.followed) = Cardinality(s.followed) + 1
      BY <2>1, <2>5, <1>3, FS_AddElement
    <3>2. Cardinality(Met(s) \cup {e.target})
            = IF e.target \in Met(s) THEN Cardinality(Met(s)) ELSE Cardinality(Met(s)) + 1
      BY <1>3, FS_AddElement
    <3> QED BY <3>1, <3>2, <2>6, <1>3
  <2>8. Cardinality(Met(t)) \in Nat
    BY <2>4, MeasureType
  <2> QED BY <2>4, <2>5, <2>7, <2>8, <1>3 DEF Measure, t
<1>5. CASE s.path # <<>> /\ Open(rs, s) = {}
  <2>1. t = Leave(s)
    BY <1>5 DEF SearchOn
  <2>2. ASSUME NEW e \in E, e.source = Top(s) PROVE e \in s.followed
    <3>1. PICK i \in DOMAIN rs : rs[i] = e
      BY DEF Rows, Range
    <3> QED BY <3>1, <2>2, <1>5 DEF Open
  <2> HIDE DEF t
  <2>3. SearchInv(N, E, t) /\ Met(t) = Met(s) /\ Top(s) \notin s.left
    BY <2>1, <2>2, <1>5, LeaveStep
  <2>4. t.followed = s.followed /\ t.left = s.left \cup {Top(s)}
    BY <2>1, <1>1 DEF Leave, Searches
  <2>5. Cardinality(t.left) = Cardinality(s.left) + 1
    BY <2>3, <2>4, <1>3, FS_AddElement
  <2> QED BY <2>3, <2>4, <2>5, <1>3 DEF Measure, t
<1>6. CASE s.path = <<>> /\ Unmet(ns, s) # {}
  <2> DEFINE n == ns[Min(Unmet(ns, s))]
  <2>1. n \in N /\ n \notin Met(s)
    BY <1>2, <1>6, MinLemma
  <2>2. t = [s EXCEPT !.path = <<n>>]
    BY <1>6 DEF SearchOn
  <2> HIDE DEF n, t
  <2>3. SearchInv(N, E, t) /\ Met(t) = Met(s) \cup {n}
    BY <2>1, <2>2, <1>6, EnterStep
  <2>4. t.followed = s.followed /\ t.left = s.left
    BY <2>2, <1>1 DEF Searches
  <2>5. Cardinality(Met(t)) = Cardinality(Met(s)) + 1
    BY <2>1, <2>3, <1>3, FS_AddElement
  <2> QED BY <2>3, <2>4, <2>5, <1>3 DEF Measure, t
<1>7. CASE s.path = <<>> /\ Unmet(ns, s) = {}
  <2>1. t = s
    BY <1>7 DEF SearchOn
  <2>2. Range(s.path) = {}
    BY <1>7 DEF Range
  <2>3. N \subseteq s.left
    BY <2>2, <1>7 DEF Unmet, Rows, Range, Met
  <2> QED BY <2>1, <2>3, <1>1, <1>7 DEF Searches
<1> QED BY <1>4, <1>5, <1>6, <1>7

\* The back edges: without them there is no cycle, and the edges that remain
\* lead from the target of each to its source.
BacksRight(N, E, B) ==
  /\ B \subseteq E /\ Acyclic(E \ B, N)
  /\ \A C \in SUBSET N :
       Closed(E \ B, C) => \A e \in B : e.target \in C => e.source \in C

\* The invariant at the end of the search: every edge is followed.
LEMMA SearchEnds ==
  ASSUME NEW N, NEW E, NEW s, SearchInv(N, E, s), s.path = <<>>, s.left = N,
         \A e \in E : e.source \in N
  PROVE  BacksRight(N, E, s.back)
<1>1. s.followed = E /\ s.back \subseteq E
  BY DEF SearchInv, Searches, LeftDone
<1>2. Taken(s) = E \ s.back
  BY <1>1 DEF Taken
<1>3. Acyclic(Taken(s), N) /\ Chained(N, s)
  BY DEF SearchInv
<1>4. \A C \in SUBSET N :
        Closed(Taken(s), C) => \A e \in s.back : e.target \in C => e.source \in C
  BY <1>3 DEF Chained
<1> QED BY <1>1, <1>2, <1>3, <1>4 DEF BacksRight

\* The rounds of identifyBackEdges suffice, and its back edges are right.
LEMMA BackEdges ==
  ASSUME NEW N, NEW E, IsFiniteSet(N), IsFiniteSet(E), NEW ns, NEW rs,
         Rows(N, E, ns, rs), Len(ns) = Cardinality(N), Len(rs) = Cardinality(E)
  PROVE  BacksRight(N, E, identifyBackEdges(ns, rs))
<1> DEFINE S == {s \in Searches(N, E) : SearchInv(N, E, s)}
           IsSearch(f) == f = [k \in Nat |-> IF k = 0 THEN StartSearch
                                            ELSE SearchOn(ns, rs, f[k - 1])]
           search == CHOOSE f : IsSearch(f)
           K == 2 * Len(ns) + Len(rs)
<1>1. identifyBackEdges(ns, rs) = search[K].back
  BY DEF identifyBackEdges
<1>2. ASSUME NEW s \in S
      PROVE  /\ SearchOn(ns, rs, s) \in S
             /\ \/ s.path = <<>> /\ s.left = N
                \/ Measure(SearchOn(ns, rs, s)) > Measure(s)
             /\ Measure(s) \in Nat /\ Measure(s) <= K
  <2>1. SearchInv(N, E, s) /\ s \in Searches(N, E)
    OBVIOUS
  <2>2. /\ SearchInv(N, E, SearchOn(ns, rs, s))
        /\ \/ s.path = <<>> /\ s.left = N
           \/ Measure(SearchOn(ns, rs, s)) > Measure(s)
    BY <2>1, SearchStep
  <2>3. SearchOn(ns, rs, s) \in Searches(N, E)
    BY <2>2 DEF SearchInv
  <2>4. Measure(s) \in Nat /\ Measure(s) <= 2 * Cardinality(N) + Cardinality(E)
    BY <2>1, MeasureType
  <2> QED BY <2>2, <2>3, <2>4
<1>3. StartSearch \in S
  <2>1. /\ StartSearch.path = <<>> /\ StartSearch.left = {} /\ StartSearch.followed = {}
        /\ StartSearch.back = {} /\ StartSearch \in Searches(N, E)
    BY DEF StartSearch, Searches
  <2>2. Taken(StartSearch) = {} /\ Len(StartSearch.path) = 0
    BY <2>1 DEF Taken
  <2>3. Stacked(StartSearch) /\ Downward(StartSearch) /\ LeftDone(E, StartSearch)
    BY <2>1, <2>2 DEF Stacked, Downward, LeftDone
  <2>4. Acyclic(Taken(StartSearch), StartSearch.left) /\ Chained(N, StartSearch)
    BY <2>1, <2>2 DEF Acyclic, Chained
  <2> QED BY <2>1, <2>3, <2>4 DEF SearchInv
<1>4. K \in Nat
  BY DEF Rows
<1> HIDE DEF S, K
<1>5. IsSearch(search)
  <2> DEFINE F == [k \in Nat |-> [s \in S |-> SearchOn(ns, rs, s)]]
  <2>1. F \in [Nat -> [S -> S]]
    BY <1>2
  <2> HIDE DEF F
  <2>2. PICK r : Iterates(r, S, StartSearch, F)
    BY <2>1, <1>3, Iteration
  <2>3. ASSUME NEW k \in Nat \ {0} PROVE r[k] = SearchOn(ns, rs, r[k - 1])
    <3>1. k - 1 \in Nat /\ r[k - 1] \in S
      BY <2>2 DEF Iterates
    <3> QED BY <2>2, <3>1 DEF F, Iterates
  <2>4. IsSearch(r)
    BY <2>2, <2>3 DEF Iterates
  <2> HIDE DEF IsSearch
  <2> QED BY <2>4
<1> HIDE DEF search
<1>6. search[0] = StartSearch /\ \A k \in Nat : search[k + 1] = SearchOn(ns, rs, search[k])
  BY <1>5
<1> HIDE DEF IsSearch
<1>7. \A k \in Nat : search[k] \in S
  <2> DEFINE P == {k \in Nat : search[k] \in S}
  <2>1. 0 \in P
    BY <1>3, <1>6
  <2>2. ASSUME NEW k \in Nat, search[k] \in S PROVE search[k + 1] \in S
    <3>1. SearchOn(ns, rs, search[k]) \in S
      BY <2>2, <1>2
    <3> QED BY <3>1, <1>6
  <2>3. Nat \subseteq P
    <3>1. \A k \in Nat : k \in P => k + 1 \in P
      BY <2>2
    <3> HIDE DEF P
    <3> QED BY <2>1, <3>1, Induction
  <2> QED BY <2>3
<1>8. \E k \in 0..K : search[k].path = <<>> /\ search[k].left = N
  <2> SUFFICES ASSUME \A k \in 0..K : ~(search[k].path = <<>> /\ search[k].left = N)
               PROVE  FALSE
    OBVIOUS
  <2> DEFINE P == {k \in Nat : k <= K + 1 => Measure(search[k]) >= k}
  <2>1. 0 \in P
    BY <1>2, <1>7
  <2>2. ASSUME NEW k \in Nat, k \in P PROVE k + 1 \in P
    <3> SUFFICES ASSUME k + 1 <= K + 1 PROVE Measure(search[k + 1]) >= k + 1
      OBVIOUS
    <3>1. k \in 0..K /\ Measure(search[k]) >= k
      BY <2>2, <1>4
    <3>2. Measure(search[k + 1]) > Measure(search[k])
      BY <3>1, <1>2, <1>6, <1>7
    <3>3. Measure(search[k]) \in Nat /\ Measure(search[k + 1]) \in Nat
      BY <1>2, <1>7
    <3> QED BY <3>1, <3>2, <3>3
  <2>3. Nat \subseteq P
    <3> HIDE DEF P
    <3> QED BY <2>1, <2>2, Induction
  <2>4. Measure(search[K + 1]) >= K + 1
    BY <2>3, <1>4
  <2>5. Measure(search[K + 1]) \in Nat /\ Measure(search[K + 1]) <= K
    BY <1>2, <1>4, <1>7
  <2> QED BY <2>4, <2>5, <1>4
<1>9. PICK e \in 0..K : search[e].path = <<>> /\ search[e].left = N
  BY <1>8
<1>10. ASSUME NEW s \in S, s.path = <<>>, s.left = N
       PROVE  SearchOn(ns, rs, s) = s
  <2>1. Unmet(ns, s) = {}
    BY <1>10 DEF Unmet, Met, Rows, Range
  <2> QED BY <2>1, <1>10 DEF SearchOn
<1>11. search[K].path = <<>> /\ search[K].left = N
  <2> DEFINE P == {k \in Nat : search[e + k].path = <<>> /\ search[e + k].left = N}
  <2>1. 0 \in P
    BY <1>9
  <2>2. ASSUME NEW k \in Nat, k \in P PROVE k + 1 \in P
    <3>1. e + k \in Nat /\ e + (k + 1) = (e + k) + 1
      OBVIOUS
    <3>2. search[(e + k) + 1] = search[e + k]
      BY <3>1, <2>2, <1>6, <1>7, <1>10
    <3> QED BY <3>1, <3>2, <2>2
  <2>3. Nat \subseteq P
    <3> HIDE DEF P
    <3> QED BY <2>1, <2>2, Induction
  <2>4. K - e \in Nat /\ e + (K - e) = K
    BY <1>4
  <2> QED BY <2>3, <2>4
<1>12. SearchInv(N, E, search[K])
  BY <1>4, <1>7 DEF S
<1> QED BY <1>1, <1>11, <1>12, SearchEnds DEF Rows

-----------------------------------------------------------------------------
(***************************************************************************)
(* The sort.                                                               *)
(***************************************************************************)
\* The batches of a queue are sets without a common node.
Apart(q) ==
  /\ \A i \in 1..Len(q) : q[i] # {}
  /\ \A i, j \in 1..Len(q) : i # j => q[i] \cap q[j] = {}
Queued(q) == UNION Range(q)

\* A batch of new nodes at the end of the queue.
LEMMA QueueAdd ==
  ASSUME NEW N, NEW q \in Seq(SUBSET N), Apart(q), NEW R, R \subseteq N,
         \A m \in R : m \notin Queued(q)
  PROVE  /\ q \o Batch(R) \in Seq(SUBSET N) /\ Apart(q \o Batch(R))
         /\ \A m : m \in Queued(q \o Batch(R)) <=> m \in Queued(q) \/ m \in R
<1>1. CASE R = {}
  <2>1. q \o Batch(R) = q
    BY <1>1 DEF Batch
  <2> QED BY <2>1, <1>1
<1>2. CASE R # {}
  <2>1. q \o Batch(R) = Append(q, R)
    BY <1>2 DEF Batch
  <2> DEFINE p == Append(q, R)
             L == Len(q)
  <2>2. /\ p \in Seq(SUBSET N) /\ L \in Nat /\ Len(p) = L + 1 /\ p[L + 1] = R
        /\ \A i \in 1..L : p[i] = q[i]
    OBVIOUS
  <2>3. Range(p) = Range(q) \cup {R}
    BY AppendRange
  <2>4. \A i \in 1..L : q[i] \cap R = {}
    BY DEF Queued, Range
  <2> HIDE DEF p
  <2>5. Apart(p)
    BY <2>2, <2>4, <1>2 DEF Apart
  <2>6. Queued(p) = Queued(q) \cup R
    BY <2>3 DEF Queued
  <2> QED BY <2>1, <2>2, <2>5, <2>6 DEF p
<1> QED BY <1>1, <1>2

\* A node taken from the first batch of the queue.
LEMMA QueueTake ==
  ASSUME NEW N, NEW q \in Seq(SUBSET N), Apart(q), q # <<>>, NEW n \in Head(q)
  PROVE  /\ Batch(Head(q) \ {n}) \o Tail(q) \in Seq(SUBSET N)
         /\ Apart(Batch(Head(q) \ {n}) \o Tail(q))
         /\ Queued(Batch(Head(q) \ {n}) \o Tail(q)) = Queued(q) \ {n}
<1> DEFINE L == Len(q) - 1
           p == Batch(Head(q) \ {n}) \o Tail(q)
<1>1. /\ L \in Nat /\ Len(q) = L + 1 /\ Head(q) = q[1] /\ q[1] \in SUBSET N
      /\ Tail(q) \in Seq(SUBSET N) /\ Len(Tail(q)) = L
      /\ \A i \in 1..L : Tail(q)[i] = q[i + 1]
  OBVIOUS
<1>2. Queued(q) = {m \in N : \E i \in 1..L + 1 : m \in q[i]}
  BY <1>1 DEF Queued, Range
<1>3. /\ \A i \in 1..L + 1 : q[i] # {}
      /\ \A i, j \in 1..L + 1 : i # j => q[i] \cap q[j] = {}
  BY <1>1 DEF Apart
<1>4. CASE Head(q) \ {n} = {}
  <2>1. p = Tail(q)
    BY <1>1, <1>4 DEF Batch
  <2> HIDE DEF p, L
  <2>2. /\ p \in Seq(SUBSET N) /\ Len(p) = L /\ \A i \in 1..L : p[i] = q[i + 1]
    BY <2>1, <1>1
  <2>3. Apart(p)
    <3>1. \A i \in 1..L : i + 1 \in 1..L + 1
      BY <1>1
    <3>2. \A i, j \in 1..L : i # j => i + 1 # j + 1
      BY <1>1
    <3>3. \A i \in 1..L : p[i] # {}
      BY <3>1, <2>2, <1>3
    <3>4. \A i, j \in 1..L : i # j => p[i] \cap p[j] = {}
      BY <3>1, <3>2, <2>2, <1>3
    <3> QED BY <3>3, <3>4, <2>2 DEF Apart
  <2>4. Queued(p) = {m \in N : \E i \in 1..L : m \in p[i]}
    BY <2>2 DEF Queued, Range
  <2>5. Queued(p) = Queued(q) \ {n}
    <3>1. q[1] = {n}
      BY <1>1, <1>4
    <3>2. 1 \in 1..L + 1 /\ \A i \in 1..L : i + 1 \in 1..L + 1 /\ i + 1 # 1
      BY <1>1
    <3>3. \A i \in 1..L : n \notin p[i]
      BY <3>1, <3>2, <2>2, <1>3
    <3>4. ASSUME NEW m \in N, m # n, NEW i \in 1..L + 1, m \in q[i]
          PROVE  \E j \in 1..L : m \in p[j]
      <4>1. i # 1
        BY <3>1, <3>4
      <4>2. i - 1 \in 1..L /\ p[i - 1] = q[i]
        <5>1. i - 1 \in 1..L /\ (i - 1) + 1 = i
          BY <4>1, <1>1
        <5> QED BY <5>1, <2>2
      <4> QED BY <4>2, <3>4
    <3>5. ASSUME NEW m \in N, NEW i \in 1..L, m \in p[i]
          PROVE  \E j \in 1..L + 1 : m \in q[j]
      BY <3>2, <3>5, <2>2
    <3> QED BY <3>3, <3>4, <3>5, <2>4, <1>2
  <2> QED BY <2>2, <2>3, <2>5 DEF p
<1>5. CASE Head(q) \ {n} # {}
  <2>1. p = <<Head(q) \ {n}>> \o Tail(q)
    BY <1>5 DEF Batch
  <2> HIDE DEF p, L
  <2>2. /\ p \in Seq(SUBSET N) /\ Len(p) = L + 1 /\ p[1] = q[1] \ {n}
        /\ \A i \in 1..L : p[i + 1] = q[i + 1]
    BY <2>1, <1>1
  <2>3. \A i \in 1..L + 1 : p[i] = IF i = 1 THEN q[1] \ {n} ELSE q[i]
    <3>1. ASSUME NEW i \in 1..L + 1, i # 1 PROVE p[i] = q[i]
      <4>1. i - 1 \in 1..L /\ i = (i - 1) + 1
        BY <1>1, <3>1
      <4> QED BY <4>1, <2>2
    <3> QED BY <3>1, <2>2
  <2>4. Apart(p)
    BY <2>2, <2>3, <1>1, <1>3, <1>5 DEF Apart
  <2>5. Queued(p) = {m \in N : \E i \in 1..L + 1 : m \in p[i]}
    BY <2>2 DEF Queued, Range
  <2>6. Queued(p) = Queued(q) \ {n}
    BY <2>2, <2>3, <2>5, <1>1, <1>2, <1>3
  <2> QED BY <2>2, <2>4, <2>6 DEF p
<1> QED BY <1>4, <1>5

Sorts(N) == [queue : Seq(SUBSET N), order : Seq(N)]

\* The queue holds the nodes that are ready and not ordered yet; an ordered node
\* has a place of its own, behind the sources of the edges into it.
SortInv(N, E, s) ==
  /\ s \in Sorts(N) /\ Apart(s.queue)
  /\ \A i, j \in 1..Len(s.order) : s.order[i] = s.order[j] => i = j
  /\ Queued(s.queue) = {m \in N \ Range(s.order) : Ready(E, m, Range(s.order))}
  /\ \A j \in 1..Len(s.order) : \A e \in E :
       e.target = s.order[j] => \E i \in 1..Len(s.order) : i < j /\ s.order[i] = e.source

\* One more node is ordered.
OneMore(N, s, t) ==
  \E n \in N \ Range(s.order) : Range(t.order) = Range(s.order) \cup {n}

\* A round of the sort keeps the invariant and orders one more node.
LEMMA SortStep ==
  ASSUME NEW N \in SUBSET Nat, NEW E, Acyclic(E, N),
         \A e \in E : e.source \in N /\ e.target \in N,
         NEW s, SortInv(N, E, s), s.queue # <<>>
  PROVE  SortInv(N, E, SortOn(E, s)) /\ OneMore(N, s, SortOn(E, s))
<1> DEFINE q == s.queue
           n == Min(Head(s.queue))
           D == Range(s.order)
           R == {e.target : e \in {f \in E : f.source = n /\ Ready(E, f.target, D \cup {n})}}
           t == SortOn(E, s)
           L == Len(s.order)
<1>1. /\ q \in Seq(SUBSET N) /\ s.order \in Seq(N) /\ Apart(q) /\ q # <<>>
      /\ Queued(q) = {m \in N \ D : Ready(E, m, D)}
  BY DEF SortInv, Sorts
<1>2. n \in Head(q) /\ Head(q) \in Range(q) /\ n \in N
  <2>1. Len(q) \in Nat \ {0} /\ Head(q) = q[1] /\ 1 \in DOMAIN q /\ q[1] \in SUBSET N
    BY <1>1
  <2> HIDE DEF q, n, D, R, t, L
  <2>2. Head(q) # {} /\ Head(q) \in SUBSET Nat
    <3>1. \A i \in 1..Len(q) : q[i] # {}
      BY <1>1 DEF Apart
    <3>2. 1 \in 1..Len(q) /\ q[1] \subseteq N
      BY <2>1
    <3>3. Head(q) # {}
      BY <2>1, <3>1, <3>2
    <3>4. Head(q) \subseteq Nat
      BY <2>1, <3>2
    <3> QED BY <3>3, <3>4
  <2>3. n \in Head(q)
    BY <2>2, MinLemma DEF n, q
  <2> QED BY <2>1, <2>3 DEF Range
<1>3. n \in N \ D /\ Ready(E, n, D)
  BY <1>1, <1>2 DEF Queued
<1>4. Range(Append(s.order, n)) = D \cup {n}
  BY <1>1, <1>3, AppendRange
<1>5. /\ t.queue = Batch(Head(q) \ {n}) \o Tail(q) \o Batch(R)
      /\ t.order = Append(s.order, n)
  BY <1>4 DEF SortOn
<1> HIDE DEF q, n, D, t, R, L
<1>6. R = {m \in N : (\E e \in E : e.source = n /\ e.target = m) /\ Ready(E, m, D \cup {n})}
  BY DEF R
<1>7. \A e \in E : ~(e.source = n /\ e.target = n)
  <2>1. {n} \in SUBSET N /\ {n} # {}
    BY <1>3
  <2> QED BY <2>1 DEF Acyclic
<1>8. \A m \in D : \A e \in E : e.target = m => e.source \in D
  <2>1. \A m \in D : \E i \in 1..Len(s.order) : s.order[i] = m
    BY <1>1 DEF D, Range
  <2>2. ASSUME NEW i \in 1..Len(s.order) PROVE s.order[i] \in D
    BY <1>1 DEF D, Range
  <2> QED BY <2>1, <2>2 DEF SortInv
<1>9. R \cap D = {} /\ n \notin R /\ R \cap Queued(q) = {}
  BY <1>1, <1>3, <1>6, <1>7, <1>8 DEF Ready
<1> DEFINE p == Batch(Head(q) \ {n}) \o Tail(q)
<1>10. p \in Seq(SUBSET N) /\ Apart(p) /\ Queued(p) = Queued(q) \ {n}
  BY <1>1, <1>2, QueueTake
<1>11. t.queue = p \o Batch(R)
  BY <1>5
<1> HIDE DEF p
<1>12. /\ t.queue \in Seq(SUBSET N) /\ Apart(t.queue)
       /\ Queued(t.queue) = (Queued(q) \ {n}) \cup R
  <2>1. R \subseteq N /\ \A m \in R : m \notin Queued(p)
    BY <1>6, <1>9, <1>10
  <2>2. /\ p \o Batch(R) \in Seq(SUBSET N) /\ Apart(p \o Batch(R))
        /\ \A m : m \in Queued(p \o Batch(R)) <=> m \in Queued(p) \/ m \in R
    <3>1. p \o Batch(R) \in Seq(SUBSET N)
      BY <2>1, <1>10, QueueAdd
    <3>2. Apart(p \o Batch(R))
      BY <2>1, <1>10, QueueAdd
    <3>3. \A m : m \in Queued(p \o Batch(R)) <=> m \in Queued(p) \/ m \in R
      BY <2>1, <1>10, QueueAdd
    <3> QED BY <3>1, <3>2, <3>3
  <2> QED BY <2>2, <1>10, <1>11
<1>13. Range(t.order) = D \cup {n}
  BY <1>4, <1>5
<1>14. Queued(t.queue) = {m \in N \ Range(t.order) : Ready(E, m, Range(t.order))}
  <2>1. ASSUME NEW m \in N, m \notin D, m # n
        PROVE  Ready(E, m, D \cup {n}) <=> Ready(E, m, D) \/ m \in R
    BY <2>1, <1>6 DEF Ready
  <2> QED BY <2>1, <1>1, <1>6, <1>9, <1>12, <1>13
<1>15. /\ L \in Nat /\ Len(t.order) = L + 1 /\ t.order[L + 1] = n /\ t.order \in Seq(N)
       /\ \A i \in 1..L : t.order[i] = s.order[i] /\ s.order[i] \in D
  BY <1>1, <1>3, <1>5 DEF L, D, Range
<1>16. t \in Sorts(N)
  <2>1. t = [queue |-> t.queue, order |-> t.order]
    BY DEF t, SortOn
  <2> QED BY <2>1, <1>12, <1>15 DEF Sorts
<1>17. \A i, j \in 1..Len(t.order) : t.order[i] = t.order[j] => i = j
  BY <1>3, <1>15 DEF SortInv, L
<1>18. ASSUME NEW j \in 1..L + 1, NEW e \in E, e.target = t.order[j]
       PROVE  \E i \in 1..L + 1 : i < j /\ t.order[i] = e.source
  <2>1. CASE j \in 1..L
    <3>1. PICK i \in 1..L : i < j /\ s.order[i] = e.source
      BY <1>15, <1>18, <2>1 DEF SortInv, L
    <3> QED BY <3>1, <1>15
  <2>2. CASE j = L + 1
    <3>1. e.source \in D
      BY <1>3, <1>15, <1>18, <2>2 DEF Ready
    <3>2. PICK i \in 1..L : s.order[i] = e.source
      BY <3>1, <1>1 DEF D, L, Range
    <3>3. i < j /\ i \in 1..L + 1 /\ t.order[i] = e.source
      BY <3>2, <2>2, <1>15
    <3> QED BY <3>3
  <2>3. j \in 1..L \/ j = L + 1
    BY <1>15
  <2> QED BY <2>1, <2>2, <2>3
<1>19. SortInv(N, E, t)
  BY <1>12, <1>14, <1>15, <1>16, <1>17, <1>18 DEF SortInv
<1> QED BY <1>3, <1>13, <1>19 DEF t, D, OneMore

\* As long as nodes are left over one of them is in the queue, and then no more.
LEMMA SortProgress ==
  ASSUME NEW N, NEW E, Acyclic(E, N), \A e \in E : e.source \in N /\ e.target \in N,
         NEW s, SortInv(N, E, s)
  PROVE  s.queue = <<>> <=> Range(s.order) = N
<1> DEFINE D == Range(s.order)
<1>1. /\ s.queue \in Seq(SUBSET N) /\ D \subseteq N
      /\ Queued(s.queue) = {m \in N \ D : Ready(E, m, D)}
  BY DEF SortInv, Sorts, Range
<1>2. ASSUME s.queue = <<>>, N \ D # {} PROVE FALSE
  <2>1. Queued(s.queue) = {}
    BY <1>2 DEF Queued, Range
  <2>2. PICK n \in N \ D : \A e \in E : e.target = n => e.source \notin N \ D
    BY <1>2 DEF Acyclic
  <2>3. Ready(E, n, D)
    BY <2>2 DEF Ready
  <2> QED BY <2>1, <2>3, <1>1
<1>3. ASSUME s.queue # <<>>, D = N PROVE FALSE
  <2>1. 1 \in 1..Len(s.queue) /\ DOMAIN s.queue = 1..Len(s.queue)
    BY <1>1, <1>3
  <2>2. s.queue[1] # {} /\ s.queue[1] \subseteq Queued(s.queue)
    BY <2>1 DEF SortInv, Apart, Queued, Range
  <2> QED BY <2>2, <1>1, <1>3
<1> QED BY <1>1, <1>2, <1>3

\* The order: every node has one place, every edge leads forward.
OrderRight(N, E, o) ==
  /\ o \in Seq(N) /\ Range(o) = N
  /\ \A i, j \in 1..Len(o) : o[i] = o[j] => i = j
  /\ \A j \in 1..Len(o) : \A e \in E :
       e.target = o[j] => \E i \in 1..Len(o) : i < j /\ o[i] = e.source

\* The rounds of topologicalSort suffice: without a cycle it orders every node.
LEMMA Sorted ==
  ASSUME NEW N \in SUBSET Nat, IsFiniteSet(N), NEW E, Acyclic(E, N),
         \A e \in E : e.source \in N /\ e.target \in N
  PROVE  OrderRight(N, E, topologicalSort(N, E))
<1> DEFINE S == {s \in Sorts(N) : SortInv(N, E, s)}
           IsSort(f) == f = [k \in Nat |-> IF k = 0 THEN StartSort(N, E)
                                          ELSE SortOn(E, f[k - 1])]
           sort == CHOOSE f : IsSort(f)
           K == Cardinality(N)
<1>1. topologicalSort(N, E) = sort[K].order
  BY DEF topologicalSort
<1>2. ASSUME NEW s \in S
      PROVE  /\ SortOn(E, s) \in S
             /\ Range(s.order) = N => SortOn(E, s) = s
             /\ Range(s.order) # N => OneMore(N, s, SortOn(E, s))
             /\ Range(s.order) \in SUBSET N
  <2>1. SortInv(N, E, s) /\ s \in Sorts(N)
    OBVIOUS
  <2>2. s.queue = <<>> <=> Range(s.order) = N
    BY <2>1, SortProgress
  <2>3. s.queue = <<>> => SortOn(E, s) = s
    BY DEF SortOn
  <2>4. s.queue # <<>> => SortInv(N, E, SortOn(E, s)) /\ OneMore(N, s, SortOn(E, s))
    BY <2>1, SortStep
  <2>5. SortInv(N, E, SortOn(E, s)) => SortOn(E, s) \in Sorts(N)
    BY DEF SortInv
  <2>6. Range(s.order) \in SUBSET N
    BY <2>1 DEF Sorts, Range
  <2> QED BY <2>1, <2>2, <2>3, <2>4, <2>5, <2>6
<1>3. StartSort(N, E) \in S
  <2> DEFINE z == StartSort(N, E)
             R == {n \in N : Ready(E, n, {})}
  <2>1. z.queue = Batch(R) /\ z.order = <<>> /\ z = [queue |-> Batch(R), order |-> <<>>]
    BY DEF StartSort
  <2>2. R \subseteq N
    OBVIOUS
  <2> HIDE DEF z, R
  <2>3. Batch(R) \in Seq(SUBSET N) /\ Apart(Batch(R)) /\ Queued(Batch(R)) = R
    <3>1. CASE R = {}
      BY <3>1 DEF Batch, Apart, Queued, Range
    <3>2. CASE R # {}
      <4>1. Batch(R) = <<R>>
        BY <3>2 DEF Batch
      <4>2. Len(<<R>>) = 1 /\ <<R>>[1] = R /\ Range(<<R>>) = {R} /\ <<R>> \in Seq(SUBSET N)
        BY <2>2 DEF Range
      <4> QED BY <4>1, <4>2, <3>2 DEF Apart, Queued
    <3> QED BY <3>1, <3>2
  <2>4. Range(z.order) = {} /\ Len(z.order) = 0
    BY <2>1 DEF Range
  <2>5. z \in Sorts(N)
    BY <2>1, <2>3 DEF Sorts
  <2>6. SortInv(N, E, z)
    <3>1. Queued(z.queue) = {n \in N \ Range(z.order) : Ready(E, n, Range(z.order))}
      BY <2>1, <2>3, <2>4 DEF R
    <3>2. Apart(z.queue)
      BY <2>1, <2>3
    <3> QED BY <3>1, <3>2, <2>4, <2>5 DEF SortInv
  <2> QED BY <2>5, <2>6 DEF z
<1>4. K \in Nat
  BY FS_CardinalityType
<1> HIDE DEF S, K
<1>5. IsSort(sort)
  <2> DEFINE F == [k \in Nat |-> [s \in S |-> SortOn(E, s)]]
  <2>1. F \in [Nat -> [S -> S]]
    BY <1>2
  <2> HIDE DEF F
  <2>2. PICK r : Iterates(r, S, StartSort(N, E), F)
    BY <2>1, <1>3, Iteration
  <2>3. ASSUME NEW k \in Nat \ {0} PROVE r[k] = SortOn(E, r[k - 1])
    <3>1. k - 1 \in Nat /\ r[k - 1] \in S
      BY <2>2 DEF Iterates
    <3> QED BY <2>2, <3>1 DEF F, Iterates
  <2>4. IsSort(r)
    BY <2>2, <2>3 DEF Iterates
  <2> HIDE DEF IsSort
  <2> QED BY <2>4
<1> HIDE DEF sort
<1>6. sort[0] = StartSort(N, E) /\ \A k \in Nat : sort[k + 1] = SortOn(E, sort[k])
  BY <1>5
<1> HIDE DEF IsSort
<1> DEFINE C(k) == Cardinality(Range(sort[k].order))
           P == {k \in Nat : sort[k] \in S /\ (Range(sort[k].order) = N \/ C(k) >= k)}
<1>7. 0 \in P
  <2>1. IsFiniteSet(Range(sort[0].order))
    BY <1>2, <1>3, <1>6, FS_Subset
  <2>2. C(0) >= 0
    BY <2>1, FS_CardinalityType
  <2> QED BY <1>3, <1>6, <2>2
<1>8. ASSUME NEW k \in Nat, k \in P PROVE k + 1 \in P
  <2>1. sort[k] \in S /\ sort[k + 1] = SortOn(E, sort[k]) /\ sort[k + 1] \in S
    BY <1>2, <1>6, <1>8
  <2>2. CASE Range(sort[k].order) = N
    BY <2>1, <2>2, <1>2
  <2>3. CASE Range(sort[k].order) # N
    <3>1. PICK n \in N \ Range(sort[k].order) :
            Range(sort[k + 1].order) = Range(sort[k].order) \cup {n}
      BY <2>1, <2>3, <1>2 DEF OneMore
    <3>2. IsFiniteSet(Range(sort[k].order))
      BY <2>1, <1>2, FS_Subset
    <3>3. C(k + 1) = C(k) + 1 /\ C(k) \in Nat
      BY <3>1, <3>2, FS_AddElement, FS_CardinalityType
    <3>4. C(k) >= k
      BY <1>8, <2>3
    <3>5. C(k + 1) >= k + 1
      BY <3>3, <3>4
    <3> QED BY <3>5, <2>1
  <2> QED BY <2>2, <2>3
<1>9. K \in P
  <2>1. Nat \subseteq P
    <3> HIDE DEF P
    <3> QED BY <1>7, <1>8, Induction
  <2> QED BY <2>1, <1>4
<1>10. sort[K] \in S /\ Range(sort[K].order) = N
  <2>1. Range(sort[K].order) \in SUBSET N
    BY <1>2, <1>9
  <2>2. /\ C(K) <= K /\ (K = C(K) => N = Range(sort[K].order)) /\ IsFiniteSet(Range(sort[K].order))
    BY <2>1, FS_Subset DEF K
  <2>3. C(K) \in Nat
    BY <2>2, FS_CardinalityType
  <2> QED BY <2>2, <2>3, <1>4, <1>9
<1>11. SortInv(N, E, sort[K])
  BY <1>10 DEF S
<1> QED BY <1>1, <1>10, <1>11 DEF SortInv, Sorts, OrderRight

-----------------------------------------------------------------------------
(***************************************************************************)
(* The load.                                                               *)
(***************************************************************************)
\* The loop over the rows keeps the back edges.
LEMMA KeptLemma ==
  ASSUME NEW E, NEW rs \in Seq(E), NEW B \in SUBSET E
  PROVE  Kept(rs, B) \in Seq(E) /\ Range(Kept(rs, B)) = Range(rs) \cap B
<1> DEFINE S == Seq(E)
           On(k, s) == IF rs[k] \in B THEN Append(s, rs[k]) ELSE s
           IsKept(f) == f = [k \in Nat |->
                               IF k = 0 THEN <<>>
                               ELSE IF rs[k] \in B THEN Append(f[k - 1], rs[k])
                               ELSE f[k - 1]]
           kept == CHOOSE f : IsKept(f)
           L == Len(rs)
<1>1. Kept(rs, B) = kept[L]
  BY DEF Kept
<1>2. L \in Nat /\ Range(rs) = {rs[i] : i \in 1..L}
  BY DEF Range
<1>3. ASSUME NEW k, NEW s \in S PROVE On(k, s) \in S
  OBVIOUS
<1>4. <<>> \in S
  OBVIOUS
<1>5. ASSUME NEW k, NEW s \in S, rs[k] \in B PROVE Range(On(k, s)) = Range(s) \cup {rs[k]}
  BY <1>5, AppendRange
<1> HIDE DEF S, L
<1>6. IsKept(kept)
  <2> DEFINE F == [k \in Nat |-> [s \in S |-> On(k, s)]]
  <2>1. F \in [Nat -> [S -> S]]
    BY <1>3
  <2> HIDE DEF F
  <2>2. PICK r : Iterates(r, S, <<>>, F)
    BY <2>1, <1>4, Iteration
  <2>3. ASSUME NEW k \in Nat \ {0} PROVE r[k] = On(k, r[k - 1])
    <3>1. k - 1 \in Nat /\ r[k - 1] \in S
      BY <2>2 DEF Iterates
    <3> QED BY <2>2, <3>1 DEF F, Iterates
  <2>4. IsKept(r)
    BY <2>2, <2>3 DEF Iterates
  <2> HIDE DEF IsKept
  <2> QED BY <2>4
<1> HIDE DEF kept
<1>7. kept[0] = <<>> /\ \A k \in Nat : kept[k + 1] = On(k + 1, kept[k])
  <2>1. \A k \in Nat : kept[k] = IF k = 0 THEN <<>>
                                 ELSE IF rs[k] \in B THEN Append(kept[k - 1], rs[k])
                                 ELSE kept[k - 1]
    BY <1>6
  <2>2. ASSUME NEW k \in Nat PROVE kept[k + 1] = On(k + 1, kept[k])
    <3>1. k + 1 \in Nat /\ k + 1 # 0 /\ (k + 1) - 1 = k
      OBVIOUS
    <3> QED BY <2>1, <3>1
  <2> QED BY <2>1, <2>2
<1> HIDE DEF IsKept
<1> DEFINE P == {k \in Nat : kept[k] \in S
                             /\ Range(kept[k]) = {e \in B : \E i \in 1..k : rs[i] = e}}
<1>8. 0 \in P
  <2>1. Range(kept[0]) = {}
    BY <1>7 DEF Range
  <2> QED BY <2>1, <1>4, <1>7
<1>9. ASSUME NEW k \in Nat, k \in P PROVE k + 1 \in P
  <2>1. kept[k + 1] \in S
    BY <1>3, <1>7, <1>9
  <2>2. Range(kept[k]) = {e \in B : \E i \in 1..k : rs[i] = e}
    BY <1>9
  <2>3. CASE rs[k + 1] \in B
    <3>1. Range(kept[k + 1]) = Range(kept[k]) \cup {rs[k + 1]}
      <4> HIDE DEF On
      <4> QED BY <2>3, <1>5, <1>7, <1>9
    <3>2. {e \in B : \E i \in 1..k + 1 : rs[i] = e}
            = {e \in B : \E i \in 1..k : rs[i] = e} \cup {rs[k + 1]}
      BY <2>3
    <3> QED BY <2>1, <2>2, <3>1, <3>2
  <2>4. CASE rs[k + 1] \notin B
    <3>1. Range(kept[k + 1]) = Range(kept[k])
      BY <2>4, <1>7
    <3>2. {e \in B : \E i \in 1..k + 1 : rs[i] = e} = {e \in B : \E i \in 1..k : rs[i] = e}
      BY <2>4
    <3> QED BY <2>1, <2>2, <3>1, <3>2
  <2> QED BY <2>3, <2>4
<1>10. L \in P
  <2>1. Nat \subseteq P
    <3> HIDE DEF P
    <3> QED BY <1>8, <1>9, Induction
  <2> QED BY <2>1, <1>2
<1> QED BY <1>1, <1>2, <1>10 DEF S

\* The rows hold each node and each edge once.
LEMMA OrdersLemma ==
  ASSUME NEW S, IsFiniteSet(S), NEW q \in Orders(S)
  PROVE  q \in Seq(S) /\ Len(q) = Cardinality(S) /\ Range(q) = S
<1>1. Cardinality(S) \in Nat
  BY FS_CardinalityType
<1>2. /\ q \in [1..Cardinality(S) -> S]
      /\ \A x \in S : \E i \in 1..Cardinality(S) : q[i] = x
  BY DEF Orders, Bijection, Injection, Surjection
<1> QED BY <1>1, <1>2 DEF Range

\* What a load finds, whatever the order of its rows.
LoadRight(N, E, l) ==
  /\ l.back \in Seq(E) /\ BacksRight(N, E, Range(l.back))
  /\ OrderRight(N, E \ Range(l.back), l.order)
  /\ l = [order |-> topologicalSort(N, E \ Range(l.back)), back |-> l.back]

\* A load takes back edges away that close cycles, no cycle is left, and the sort
\* finds a place for every node: it never throws (loadAndBuildGraph,
\* identifyBackEdges, topologicalSort).
THEOREM LoadIsRight ==
  ASSUME NEW N \in SUBSET Nat, IsFiniteSet(N), NEW E, IsFiniteSet(E),
         \A e \in E : e.source \in N /\ e.target \in N,
         NEW l \in Loads(N, E)
  PROVE  LoadRight(N, E, l)
<1>1. PICK ns \in Orders(N), rs \in Orders(E) : l = loadAndBuildGraph(ns, rs)
  BY DEF Loads
<1>2. /\ ns \in Seq(N) /\ Len(ns) = Cardinality(N) /\ Range(ns) = N
      /\ rs \in Seq(E) /\ Len(rs) = Cardinality(E) /\ Range(rs) = E
  BY <1>1, OrdersLemma
<1> DEFINE B == identifyBackEdges(ns, rs)
<1>3. BacksRight(N, E, B)
  <2>1. Rows(N, E, ns, rs)
    BY <1>2 DEF Rows
  <2> QED BY <2>1, <1>2, BackEdges
<1>4. l = [order |-> topologicalSort(N, E \ B), back |-> Kept(rs, B)]
  BY <1>1, <1>2 DEF loadAndBuildGraph
<1> HIDE DEF B
<1>5. B \in SUBSET E /\ Acyclic(E \ B, N)
  BY <1>3 DEF BacksRight
<1>6. Kept(rs, B) \in Seq(E) /\ Range(Kept(rs, B)) = B
  <2>1. Kept(rs, B) \in Seq(E) /\ Range(Kept(rs, B)) = E \cap B
    BY <1>2, <1>5, KeptLemma
  <2> QED BY <2>1, <1>5
<1>7. OrderRight(N, E \ B, topologicalSort(N, E \ B))
  BY <1>5, Sorted
<1> QED BY <1>3, <1>4, <1>6, <1>7 DEF LoadRight

-----------------------------------------------------------------------------
Idx(n) == IndexOf(layout, n)
Seed == seedInitialReachability(workflow, layout)
Activated == Seed \cup UNION {Targets(m, stored[m]) : m \in completed}
Clean == ~torn /\ ~forgot
Straight == Clean /\ ~looped

Types ==
  /\ workflow \in Workflows /\ layout \in workflow.layouts
  /\ pointer \in Nat \ {0} /\ reachable \subseteq Nodes
  /\ count \in [Nodes -> Nat] /\ skipping \in BOOLEAN /\ done \subseteq Nodes
  /\ completed \subseteq Enabled /\ stored \in [Nodes -> SUBSET Ports]
  /\ logged \subseteq Nodes
  /\ parks \in Nat /\ crashes \in Nat
  /\ owed \subseteq Enabled
  /\ looped \in BOOLEAN /\ torn \in BOOLEAN /\ forgot \in BOOLEAN

\* What the status says of the memory and of the waiting node.
Shape ==
  /\ status \in {"running", "saved", "asking", "waiting", "turn", "crashed",
                 "completed", "failed"}
  /\ waiting \in Nodes \cup {NoNode}
  /\ status \in {"running", "saved", "asking", "crashed", "completed"} => waiting = NoNode
  /\ status \in {"saved", "asking"} => pointer <= Len(layout.order) /\ Here \in Enabled
  /\ status = "asking" => parks > 0
  /\ status \in {"waiting", "turn"} => waiting \in Enabled
  /\ status = "turn" => pointer = Idx(waiting) /\ waiting \in reachable
  /\ status \in {"waiting", "turn"} => ~skipping
  /\ status = "crashed" => pointer = 1

\* A seed has run or is owed.
SeedsKept == Seed \cap Enabled \subseteq completed \cup owed

\* In a re-drive that is not torn nothing has been sent back.
RedriveStraight == skipping /\ ~torn => ~looped

\* What a re-drive passes over: at least what is on record, and unless it forgot
\* something, the nodes that have run.
RecordSkipped == skipping => Executed \subseteq done
DoneRight ==
  status \in {"running", "saved"} /\ skipping /\ ~forgot => done \cap Enabled = completed

\* In any other segment what is on record lies behind the pointer.
RecordBehind ==
  ~looped /\ ~torn /\ ~skipping =>
    /\ status = "running" => \A m \in Executed : Idx(m) < pointer
    /\ status \in {"saved", "asking", "turn"} => \A m \in Executed : Idx(m) <= pointer

\* Before the first turn back: what is owed lies behind all that has run, and
\* the stored outputs tell what is owed.
OwedBehind ==
  Straight => \A n \in owed : \A m \in completed : Idx(m) < Idx(n)
OwedTold == Straight => owed = (Activated \cap Enabled) \ completed

\* The pointer, the reachable nodes and what is due once n has returned output.
PointerAfter(n, output) ==
  IF ActiveBack(n, output) = {} THEN pointer + 1
  ELSE Idx(findActivatedBackEdge(n, output))
ReachableAfter(n, output) ==
  LET reached == reachable \cup Targets(n, output)
      target == findActivatedBackEdge(n, output)
  IN IF ActiveBack(n, output) = {} THEN reached
     ELSE (reached \ {layout.order[i] : i \in Idx(target)..pointer}) \cup {target}
DueFrom(p, r, d) ==
  {n \in r \cap Enabled : Idx(n) >= p /\ ~(skipping /\ n \in d)}
DueAfter(n, output) ==
  DueFrom(PointerAfter(n, output), ReachableAfter(n, output), done \cup {n})

\* The memory of a segment agrees with what is owed, and between a node's row and
\* its path entry it is about to.
Agrees == status \in {"running", "turn"} /\ Clean => Due = owed
Pending ==
  status = "saved" =>
    /\ Here \in completed /\ Here \in done
    /\ \A n \in Nodes, output \in SUBSET Ports :
         n = Here /\ output = stored[n] =>
           /\ ~looped => ActiveBack(n, output) = {}
           /\ Clean => DueAfter(n, output) = owed

IInv == /\ Types /\ Shape /\ SeedsKept /\ RedriveStraight
        /\ RecordSkipped /\ DoneRight /\ RecordBehind
        /\ OwedBehind /\ OwedTold /\ Agrees /\ Pending

-----------------------------------------------------------------------------
\* The layouts of a workflow are what a load computes, and right.
LEMMA LoadsLemma ==
  ASSUME NEW w \in Workflows, NEW l \in w.layouts
  PROVE  /\ LoadRight(Nodes, w.edges, l) /\ Back(l) = Range(l.back)
         /\ \A e \in w.edges : e.source \in Nodes /\ e.target \in Nodes
<1>1. \A e \in w.edges : e.source \in Nodes /\ e.target \in Nodes
  BY WalkAssumption DEF Graphs, Edges
<1>2. Nodes \in SUBSET Nat /\ IsFiniteSet(Nodes) /\ IsFiniteSet(w.edges)
      /\ l \in Loads(Nodes, w.edges)
  BY WalkAssumption
<1> QED BY <1>1, <1>2, LoadIsRight DEF Back, Range

\* IndexOf in a layout: an edge leads forward unless it is a back edge.
LEMMA ForwardLemma ==
  ASSUME NEW w \in Workflows, NEW l \in w.layouts
  PROVE  /\ \A n \in Nodes : IndexOf(l, n) \in DOMAIN l.order /\ IndexOf(l, n) \in Nat
                             /\ l.order[IndexOf(l, n)] = n
         /\ \A e \in w.edges \ Back(l) : IndexOf(l, e.source) < IndexOf(l, e.target)
<1>1. /\ OrderRight(Nodes, w.edges \ Back(l), l.order)
      /\ \A e \in w.edges : e.source \in Nodes /\ e.target \in Nodes
  BY LoadsLemma DEF LoadRight
<1>2. l.order \in Seq(Nodes) /\ Len(l.order) \in Nat /\ DOMAIN l.order = 1..Len(l.order)
  BY <1>1 DEF OrderRight
<1>3. ASSUME NEW n \in Nodes
      PROVE  IndexOf(l, n) \in 1..Len(l.order) /\ l.order[IndexOf(l, n)] = n
  <2>1. \E i \in DOMAIN l.order : l.order[i] = n
    BY <1>1 DEF OrderRight, Range
  <2> QED BY <2>1, <1>2 DEF IndexOf
<1>4. ASSUME NEW e \in w.edges \ Back(l)
      PROVE  IndexOf(l, e.source) < IndexOf(l, e.target)
  <2>1. /\ IndexOf(l, e.target) \in 1..Len(l.order)
        /\ l.order[IndexOf(l, e.target)] = e.target
    BY <1>1, <1>3
  <2>2. PICK i \in 1..Len(l.order) : i < IndexOf(l, e.target) /\ l.order[i] = e.source
    BY <1>1, <2>1 DEF OrderRight
  <2>3. IndexOf(l, e.source) = i
    BY <1>1, <1>3, <2>2 DEF OrderRight
  <2> QED BY <2>2, <2>3
<1> QED BY <1>2, <1>3, <1>4

\* From a node and those behind it no edge leads before it, but for the back edges.
LEMMA BehindClosed ==
  ASSUME NEW w \in Workflows, NEW l \in w.layouts, NEW n \in Nodes
  PROVE  Closed(w.edges \ Back(l), {m \in Nodes : IndexOf(l, m) >= IndexOf(l, n)})
<1>1. ASSUME NEW e \in w.edges \ Back(l), IndexOf(l, e.source) >= IndexOf(l, n)
      PROVE  e.target \in Nodes /\ IndexOf(l, e.target) >= IndexOf(l, n)
  <2>1. e.source \in Nodes /\ e.target \in Nodes
    BY LoadsLemma
  <2>2. /\ IndexOf(l, e.source) \in Nat /\ IndexOf(l, e.target) \in Nat
        /\ IndexOf(l, n) \in Nat /\ IndexOf(l, e.source) < IndexOf(l, e.target)
    BY <2>1, ForwardLemma
  <2> QED BY <1>1, <2>1, <2>2
<1> QED BY <1>1 DEF Closed

\* The layouts of a workflow are right, which the walk relies on.
LEMMA LayoutsRight ==
  ASSUME NEW w \in Workflows, NEW l \in w.layouts
  PROVE  LayoutRight(w, l)
<1>1. LoadRight(Nodes, w.edges, l) /\ Back(l) = Range(l.back)
  BY LoadsLemma
<1>2. \A n \in Nodes : \E i \in DOMAIN l.order : l.order[i] = n
  BY ForwardLemma
<1>3. \A i, j \in DOMAIN l.order : l.order[i] = l.order[j] => i = j
  <2>1. l.order \in Seq(Nodes) /\ \A i, j \in 1..Len(l.order) : l.order[i] = l.order[j] => i = j
    BY <1>1 DEF LoadRight, OrderRight
  <2> QED BY <2>1
<1>4. BacksRight(Nodes, w.edges, Back(l))
  BY <1>1 DEF LoadRight
<1>5. ASSUME NEW e \in Back(l)
      PROVE  IndexOf(l, e.target) <= IndexOf(l, e.source)
  <2> DEFINE C == {m \in Nodes : IndexOf(l, m) >= IndexOf(l, e.target)}
  <2>1. e \in w.edges /\ e.target \in Nodes
    BY <1>4, <1>5, LoadsLemma DEF BacksRight
  <2>2. IndexOf(l, e.target) \in Nat
    BY <2>1, ForwardLemma
  <2>3. e.target \in C /\ C \in SUBSET Nodes
    BY <2>1, <2>2
  <2>4. Closed(w.edges \ Back(l), C)
    BY <2>1, BehindClosed
  <2>5. e.source \in C
    <3> HIDE DEF C
    <3> QED BY <2>3, <2>4, <1>4 DEF BacksRight
  <2> QED BY <2>2, <2>5
<1>6. \A e \in w.edges \ Back(l) : IndexOf(l, e.source) < IndexOf(l, e.target)
  BY ForwardLemma
<1>7. Back(l) \subseteq w.edges
  BY <1>4 DEF BacksRight
<1> QED BY <1>2, <1>3, <1>5, <1>6, <1>7 DEF LayoutRight

\* The edges lead from the target of a back edge to its source: it closes a cycle.
LEMMA BackCloses ==
  ASSUME NEW w \in Workflows, NEW l \in w.layouts, NEW e \in Back(l)
  PROVE  e.source \in ReachedBy(w.edges, e.target)
<1>1. BacksRight(Nodes, w.edges, Back(l))
  BY LoadsLemma DEF LoadRight
<1>2. e.source \in Nodes
  BY <1>1, LoadsLemma DEF BacksRight
<1>3. ASSUME NEW C \in SUBSET Nodes, e.target \in C, Closed(w.edges, C)
      PROVE  e.source \in C
  <2>1. Closed(w.edges \ Back(l), C)
    BY <1>3 DEF Closed
  <2> QED BY <2>1, <1>1, <1>3 DEF BacksRight
<1> QED BY <1>2, <1>3 DEF ReachedBy

\* A layout without back edges is the only one.
LEMMA OneLayout ==
  ASSUME NEW w \in Workflows, NEW l \in w.layouts, l.back = <<>>
  PROVE  Cardinality(w.layouts) = 1
<1>1. Back(l) = {}
  BY DEF Back
<1>2. ASSUME NEW k \in w.layouts PROVE k = l
  <2>1. LoadRight(Nodes, w.edges, k) /\ Back(k) = Range(k.back)
    BY LoadsLemma
  <2>2. ASSUME NEW e \in Back(k) PROVE FALSE
    <3> DEFINE C == {m \in Nodes : IndexOf(l, m) >= IndexOf(l, e.target)}
    <3>1. e \in w.edges /\ e.source \in Nodes /\ e.target \in Nodes
      BY <2>1, <2>2, LoadsLemma DEF LoadRight, BacksRight
    <3>2. /\ IndexOf(l, e.target) \in Nat /\ IndexOf(l, e.source) \in Nat
          /\ IndexOf(l, e.source) < IndexOf(l, e.target)
      BY <3>1, <1>1, ForwardLemma
    <3>3. e.target \in C /\ C \in SUBSET Nodes /\ e.source \notin C
      BY <3>1, <3>2
    <3>4. Closed(w.edges \ Back(l), C)
      BY <3>1, BehindClosed
    <3> HIDE DEF C
    <3>5. Closed(w.edges \ Back(k), C)
      BY <3>4, <1>1 DEF Closed
    <3> QED BY <2>1, <2>2, <3>3, <3>5 DEF LoadRight, BacksRight
  <2>3. k.back = <<>>
    <3>1. k.back \in Seq(w.edges) /\ Range(k.back) = {}
      BY <2>1, <2>2 DEF LoadRight
    <3> QED BY <3>1 DEF Range
  <2>4. /\ k = [order |-> topologicalSort(Nodes, w.edges \ Range(k.back)), back |-> k.back]
        /\ l = [order |-> topologicalSort(Nodes, w.edges \ Range(l.back)), back |-> l.back]
    BY <2>1, LoadsLemma DEF LoadRight
  <2> QED BY <2>3, <2>4
<1>3. w.layouts = {l}
  BY <1>2
<1> QED BY <1>3, FS_Singleton

\* IndexOf is the place of a node, whatever the layout.
LEMMA IndexLemma ==
  ASSUME NEW w, NEW l \in Layouts, LayoutRight(w, l)
  PROVE  /\ \A n \in Nodes : /\ IndexOf(l, n) \in 1..Len(l.order)
                             /\ l.order[IndexOf(l, n)] = n
         /\ \A i \in 1..Len(l.order) : l.order[i] \in Nodes
                                       /\ IndexOf(l, l.order[i]) = i
<1>1. l.order \in Seq(Nodes) /\ DOMAIN l.order = 1..Len(l.order)
  BY DEF Layouts
<1>2. ASSUME NEW n \in Nodes
      PROVE  /\ IndexOf(l, n) \in 1..Len(l.order) /\ l.order[IndexOf(l, n)] = n
  BY <1>1 DEF LayoutRight, IndexOf
<1>3. ASSUME NEW i \in 1..Len(l.order)
      PROVE  l.order[i] \in Nodes /\ IndexOf(l, l.order[i]) = i
  <2>1. l.order[i] \in Nodes
    BY <1>1
  <2> QED BY <2>1, <1>1, <1>2 DEF LayoutRight
<1> QED BY <1>2, <1>3

\* The layout of a state, and Due said with IndexOf.
LEMMA HereLemma ==
  ASSUME Types
  PROVE  /\ layout \in Layouts /\ LayoutRight(workflow, layout)
         /\ workflow \in Graphs
         /\ Len(layout.order) \in Nat /\ DOMAIN layout.order = 1..Len(layout.order)
         /\ \A n \in Nodes : Idx(n) \in 1..Len(layout.order)
                             /\ layout.order[Idx(n)] = n
         /\ \A i \in 1..Len(layout.order) : layout.order[i] \in Nodes
                                            /\ Idx(layout.order[i]) = i
         /\ \A p \in Nat, n \in Nodes :
              (\E i \in DOMAIN layout.order : i >= p /\ layout.order[i] = n)
                <=> Idx(n) >= p
<1>1. workflow \in Graphs /\ layout \in Layouts /\ LayoutRight(workflow, layout)
  BY WalkAssumption, LayoutsRight DEF Types, Graphs
<1>2. /\ \A n \in Nodes : Idx(n) \in 1..Len(layout.order)
                             /\ layout.order[Idx(n)] = n
      /\ \A i \in 1..Len(layout.order) : layout.order[i] \in Nodes
                                            /\ Idx(layout.order[i]) = i
  BY <1>1, IndexLemma DEF Idx
<1>3. Len(layout.order) \in Nat /\ DOMAIN layout.order = 1..Len(layout.order)
  BY <1>1 DEF Layouts
<1>4. ASSUME NEW p \in Nat, NEW n \in Nodes
      PROVE  (\E i \in DOMAIN layout.order : i >= p /\ layout.order[i] = n)
               <=> Idx(n) >= p
  BY <1>2, <1>3
<1> QED BY <1>1, <1>2, <1>3, <1>4

\* The edges an output opens lead on, but for the back edges it activates.
LEMMA TargetsLemma ==
  ASSUME Types, NEW n \in Nodes, NEW output \in SUBSET Ports
  PROVE  /\ Targets(n, output) \subseteq Nodes
         /\ \A x \in Targets(n, output) :
              Idx(x) > Idx(n) \/ \E i \in ActiveBack(n, output) :
                                    layout.back[i].target = x
         /\ \A i \in ActiveBack(n, output) :
              /\ layout.back[i].target \in Targets(n, output)
              /\ Idx(layout.back[i].target) <= Idx(n)
<1> USE HereLemma
<1>1. workflow.edges \subseteq Edges
  BY DEF Graphs
<1>2. Targets(n, output) \subseteq Nodes
  BY <1>1 DEF Targets, Edges
<1>3. ASSUME NEW x \in Targets(n, output)
      PROVE  Idx(x) > Idx(n) \/ \E i \in ActiveBack(n, output) :
                                    layout.back[i].target = x
  <2>1. PICK e \in workflow.edges :
          e.source = n /\ e.port \in output /\ e.target = x
    BY DEF Targets
  <2>2. CASE e \in Back(layout)
    <3>1. PICK i \in DOMAIN layout.back : layout.back[i] = e
      BY <2>2 DEF Back
    <3>2. i \in ActiveBack(n, output)
      BY <2>1, <3>1 DEF ActiveBack
    <3> QED BY <2>1, <3>1, <3>2
  <2>3. CASE e \notin Back(layout)
    <3>1. IndexOf(layout, e.source) < IndexOf(layout, e.target)
      BY <2>3 DEF LayoutRight
    <3>2. Idx(n) < Idx(x)
      BY <3>1, <2>1 DEF Idx
    <3>3. Idx(n) \in Int /\ Idx(x) \in Int
      BY <1>2
    <3> QED BY <3>2, <3>3
  <2> QED BY <2>2, <2>3
<1>4. ASSUME NEW i \in ActiveBack(n, output)
      PROVE  /\ layout.back[i].target \in Targets(n, output)
             /\ Idx(layout.back[i].target) <= Idx(n)
  <2>1. /\ layout.back[i] \in Back(layout) /\ layout.back[i].source = n
        /\ layout.back[i].port \in output
    BY DEF ActiveBack, Back
  <2>2. layout.back[i] \in workflow.edges
    BY <2>1 DEF LayoutRight
  <2>3. layout.back[i].target \in Targets(n, output)
    BY <2>1, <2>2 DEF Targets
  <2>4. IndexOf(layout, layout.back[i].target)
          <= IndexOf(layout, layout.back[i].source)
    BY <2>1, <2>2 DEF LayoutRight
  <2> QED BY <2>1, <2>3, <2>4 DEF Idx
<1> QED BY <1>2, <1>3, <1>4

\* The first active back edge is one of them.
LEMMA FirstLemma ==
  ASSUME Types, NEW n, NEW output, ActiveBack(n, output) # {}
  PROVE  \E i \in ActiveBack(n, output) :
           findActivatedBackEdge(n, output) = layout.back[i].target
<1>1. layout \in Layouts
  BY HereLemma
<1>2. ActiveBack(n, output) \subseteq Nat
  BY <1>1 DEF ActiveBack, Layouts
<1>3. PICK i \in ActiveBack(n, output) :
        \A j \in ActiveBack(n, output) : ~(<<j, i>> \in Below)
  BY <1>2, BelowWellFounded, WFMin
<1>4. ASSUME NEW j \in ActiveBack(n, output) PROVE i <= j
  <2>1. i \in Nat /\ j \in Nat
    BY <1>2
  <2>2. ASSUME j < i PROVE <<j, i>> \in Below
    BY <2>1, <2>2 DEF Below
  <2> QED BY <1>3, <2>1, <2>2
<1> QED BY <1>4 DEF findActivatedBackEdge

\* A finite set with at most one element has no two.
LEMMA OneElement ==
  ASSUME NEW S, IsFiniteSet(S), ~(Cardinality(S) > 1), NEW x \in S, NEW y \in S
  PROVE  x = y
<1>1. SUFFICES ASSUME x # y PROVE FALSE
  OBVIOUS
<1>2. Cardinality({x, y}) = 2
  <2>1. IsFiniteSet({x}) /\ Cardinality({x}) = 1
    BY FS_Singleton
  <2>2. Cardinality({x} \cup {y}) = 1 + 1
    BY <1>1, <2>1, FS_AddElement
  <2>3. {x, y} = {x} \cup {y}
    OBVIOUS
  <2> QED BY <2>2, <2>3
<1>3. {x, y} \subseteq S
  OBVIOUS
<1>4. Cardinality({x, y}) <= Cardinality(S)
  BY <1>3, FS_Subset
<1>5. Cardinality(S) \in Nat
  BY FS_CardinalityType
<1> QED BY <1>2, <1>4, <1>5

-----------------------------------------------------------------------------
\* An output is a set of ports.
LEMMA OutputLemma ==
  ASSUME Types, NEW n, NEW output \in Outputs(n)
  PROVE  output \in SUBSET Ports
<1>1. workflow.edges \subseteq Edges
  BY HereLemma DEF Graphs
<1> QED BY <1>1 DEF Outputs, Edges

\* Due of this state and of the next, said with IndexOf.
LEMMA DueIs ==
  ASSUME Types
  PROVE  Due = DueFrom(pointer, reachable, done)
<1>1. pointer \in Nat /\ reachable \subseteq Nodes
  BY DEF Types
<1>2. ASSUME NEW n \in Nodes
      PROVE  (\E i \in DOMAIN layout.order : i >= pointer /\ layout.order[i] = n)
               <=> Idx(n) >= pointer
  BY <1>1, HereLemma
<1> QED BY <1>1, <1>2 DEF Due, DueFrom

LEMMA DueNext ==
  ASSUME Types, UNCHANGED <<workflow, layout>>, pointer' \in Nat,
         reachable' \subseteq Nodes
  PROVE  Due' = {n \in reachable' \cap Enabled :
                   Idx(n) >= pointer' /\ ~(skipping' /\ n \in done')}
<1>1. ASSUME NEW n \in Nodes
      PROVE  (\E i \in DOMAIN layout.order : i >= pointer' /\ layout.order[i] = n)
               <=> Idx(n) >= pointer'
  BY HereLemma
<1>2. layout' = layout /\ Enabled' = Enabled
  BY DEF Enabled
<1>3. Due' = {n \in reachable' \cap Enabled :
                /\ \E i \in DOMAIN layout.order : i >= pointer' /\ layout.order[i] = n
                /\ ~(skipping' /\ n \in done')}
  BY <1>2 DEF Due
<1> QED BY <1>1, <1>3

\* What the loop does after a node.
LEMMA MoveLemma ==
  ASSUME Types, NEW n \in Nodes, NEW output \in SUBSET Ports
  PROVE  /\ PointerAfter(n, output) \in Nat \ {0}
         /\ ReachableAfter(n, output) \subseteq Nodes
         /\ MoveOn(n, pointer, output) =>
              /\ pointer' = PointerAfter(n, output)
              /\ reachable' = ReachableAfter(n, output)
<1> DEFINE t == findActivatedBackEdge(n, output)
<1>1. Targets(n, output) \subseteq Nodes
  BY TargetsLemma
<1>2. CASE ActiveBack(n, output) = {}
  BY <1>1, <1>2 DEF PointerAfter, ReachableAfter, MoveOn, Types
<1>3. CASE ActiveBack(n, output) # {}
  <2>1. t \in Nodes
    BY <1>1, <1>3, FirstLemma, TargetsLemma
  <2>2. Idx(t) \in Nat \ {0}
    BY <2>1, HereLemma
  <2>3. /\ PointerAfter(n, output) = Idx(t)
        /\ ReachableAfter(n, output)
             = ((reachable \cup Targets(n, output))
                  \ {layout.order[i] : i \in Idx(t)..pointer}) \cup {t}
    BY <1>3 DEF PointerAfter, ReachableAfter
  <2>4. MoveOn(n, pointer, output) =>
          /\ pointer' = Idx(t)
          /\ reachable' = ((reachable \cup Targets(n, output))
                             \ {layout.order[i] : i \in Idx(t)..pointer}) \cup {t}
    BY <1>3 DEF MoveOn, Idx
  <2> QED BY <1>1, <2>1, <2>2, <2>3, <2>4 DEF Types
<1> QED BY <1>2, <1>3

\* What is due after the move.
LEMMA MovedLemma ==
  ASSUME Types, NEW n \in Nodes, NEW output \in SUBSET Ports,
         MoveOn(n, pointer, output), done' = done \cup {n},
         UNCHANGED <<workflow, layout, skipping>>
  PROVE  Due' = DueAfter(n, output)
<1>1. /\ pointer' = PointerAfter(n, output) /\ pointer' \in Nat
      /\ reachable' = ReachableAfter(n, output) /\ reachable' \subseteq Nodes
  BY MoveLemma
<1> QED BY <1>1, DueNext DEF DueAfter, DueFrom

-----------------------------------------------------------------------------
\* A node that may complete, in its execution or in its turn.
Completing(n) ==
  /\ status \in {"running", "turn"}
  /\ n \in reachable /\ n \in Enabled /\ Idx(n) = pointer
  /\ ~(skipping /\ n \in done)

\* As long as nothing was forgotten, a re-drive passes over what has run.
LEMMA SkippedLemma ==
  ASSUME IInv, ~forgot, status \in {"running", "turn"}, NEW x \in Enabled
  PROVE  (skipping /\ x \in done) <=> (skipping /\ x \in completed)
BY DEF IInv, Shape, DoneRight

\* The node that completes is owed, and has not run before on a straight walk.
LEMMA CompletionOwed ==
  ASSUME IInv, NEW n \in Nodes, Completing(n), Clean
  PROVE  /\ owed = Due /\ n \in owed
         /\ ~looped => n \notin completed
<1> USE DEF IInv
<1>1. owed = Due
  BY DEF Completing, Agrees
<1>2. n \in Due
  BY DueIs DEF Completing, DueFrom, Types
<1>3. Idx(n) \in Nat
  BY HereLemma
<1>4. ASSUME ~looped PROVE n \notin completed
  BY <1>1, <1>2, <1>3, <1>4 DEF OwedBehind, Straight
<1> QED BY <1>1, <1>2, <1>4

\* A node that turns nothing back: its targets lie ahead.
LEMMA CompletionForward ==
  ASSUME IInv, NEW n \in Nodes, NEW output \in SUBSET Ports,
         Completing(n), Clean, ActiveBack(n, output) = {}
  PROVE  /\ DueAfter(n, output) = (owed \ {n}) \cup (Targets(n, output) \cap Enabled)
         /\ ~looped => \A x \in Targets(n, output) :
              /\ x # n /\ x \notin completed /\ Idx(n) < Idx(x)
              /\ \A m \in completed : Idx(m) < Idx(x)
<1> USE DEF IInv
<1>0. Types
  OBVIOUS
<1>1. /\ owed = DueFrom(pointer, reachable, done) /\ n \in owed
      /\ ~looped => n \notin completed
  BY <1>0, CompletionOwed, DueIs
<1>2. /\ Targets(n, output) \subseteq Nodes
      /\ \A x \in Targets(n, output) : Idx(x) > Idx(n)
  BY <1>0, TargetsLemma
<1>3. /\ completed \subseteq Nodes /\ Enabled \subseteq Nodes /\ reachable \subseteq Nodes
      /\ pointer \in Nat /\ pointer = Idx(n)
      /\ \A x \in Nodes : Idx(x) \in Nat
      /\ \A x, y \in Nodes : Idx(x) = Idx(y) => x = y
  <2>1. /\ Len(layout.order) \in Nat
        /\ \A x \in Nodes : Idx(x) \in 1..Len(layout.order)
                            /\ layout.order[Idx(x)] = x
    BY <1>0, HereLemma
  <2>2. /\ completed \subseteq Enabled /\ reachable \subseteq Nodes /\ pointer \in Nat
        /\ pointer = Idx(n)
    BY DEF Types, Completing
  <2> HIDE DEF IInv
  <2> QED BY <2>1, <2>2 DEF Enabled
<1>4. ASSUME ~looped, NEW x \in Targets(n, output)
      PROVE  /\ x # n /\ x \notin completed /\ Idx(n) < Idx(x)
             /\ \A m \in completed : Idx(m) < Idx(x)
  <2>1. \A m \in completed : Idx(m) < Idx(n)
    BY <1>1, <1>4 DEF OwedBehind, Straight
  <2>2. x \in Nodes /\ Idx(n) < Idx(x)
    BY <1>2, <1>3
  <2> HIDE DEF IInv
  <2> QED BY <2>1, <2>2, <1>3
<1>5. ASSUME NEW x \in Targets(n, output) \cap Enabled
      PROVE  ~(skipping /\ x \in done \cup {n})
  <2>1. SUFFICES ASSUME skipping PROVE x \notin done /\ x # n
    OBVIOUS
  <2>2. ~looped
    BY <2>1 DEF RedriveStraight, Clean
  <2>3. x # n /\ x \notin completed
    BY <1>4, <1>5, <2>2
  <2>4. x \notin done
    BY <2>1, <2>3, SkippedLemma DEF Clean, Completing
  <2> QED BY <2>3, <2>4
<1>6. DueAfter(n, output)
        = {x \in (reachable \cup Targets(n, output)) \cap Enabled :
             Idx(x) >= pointer + 1 /\ ~(skipping /\ x \in done \cup {n})}
  BY DEF DueAfter, DueFrom, PointerAfter, ReachableAfter
<1>7. owed = {x \in reachable \cap Enabled :
                Idx(x) >= pointer /\ ~(skipping /\ x \in done)}
  BY <1>1 DEF DueFrom
<1>8. ASSUME NEW x \in Nodes
      PROVE  x \in DueAfter(n, output)
               <=> x \in (owed \ {n}) \cup (Targets(n, output) \cap Enabled)
  <2>1. /\ Idx(x) >= pointer + 1 <=> Idx(x) >= pointer /\ x # n
        /\ x \in Targets(n, output) => Idx(x) >= pointer + 1
    <3> HIDE DEF IInv
    <3> QED BY <1>2, <1>3
  <2> HIDE DEF IInv
  <2> QED BY <2>1, <1>5, <1>6, <1>7
<1> QED BY <1>2, <1>3, <1>4, <1>6, <1>7, <1>8

\* A node whose only active back edge turns the walk back.
LEMMA CompletionBack ==
  ASSUME IInv, NEW n \in Nodes, NEW output \in SUBSET Ports,
         Completing(n), Clean, ActiveBack(n, output) # {}, ~Misses(n, output)
  PROVE  DueAfter(n, output) = (owed \ {n}) \cup (Targets(n, output) \cap Enabled)
<1> USE DEF IInv
<1> DEFINE t == findActivatedBackEdge(n, output)
           later == DueAfter(n, output)
<1>0. Types
  OBVIOUS
<1>3. ~skipping /\ ~(Cardinality(ActiveBack(n, output)) > 1)
  BY DEF Misses
<1>4. PICK i \in ActiveBack(n, output) : t = layout.back[i].target
  BY <1>0, FirstLemma
<1>5. IsFiniteSet(ActiveBack(n, output))
  <2>1. layout \in Layouts
    BY <1>0, HereLemma
  <2>2. ActiveBack(n, output) \subseteq 1..Len(layout.back) /\ Len(layout.back) \in Nat
    BY <2>1 DEF ActiveBack, Layouts
  <2>3. IsFiniteSet(1..Len(layout.back))
    BY <2>2, FS_Interval
  <2> QED BY <2>2, <2>3, FS_Subset
<1>6. /\ t \in Targets(n, output) /\ Idx(t) <= Idx(n)
      /\ Targets(n, output) \subseteq Nodes
      /\ \A x \in Targets(n, output) : Idx(x) > Idx(n) \/ x = t
  <2>1. \A j \in ActiveBack(n, output) : j = i
    BY <1>3, <1>5, OneElement
  <2> QED BY <2>1, <1>0, <1>4, TargetsLemma
<1>7. later = {x \in (((reachable \cup Targets(n, output))
                          \ {layout.order[k] : k \in Idx(t)..pointer}) \cup {t})
                       \cap Enabled : Idx(x) >= Idx(t)}
  BY <1>3 DEF DueAfter, DueFrom, PointerAfter, ReachableAfter
<1>8. /\ owed = {x \in reachable \cap Enabled : Idx(x) >= pointer}
      /\ pointer \in Nat /\ pointer = Idx(n) /\ reachable \subseteq Nodes
  BY <1>0, <1>3, CompletionOwed, DueIs DEF DueFrom, Completing, Types
<1>9. /\ \A x \in Nodes : Idx(x) \in Nat
      /\ \A x, y \in Nodes : Idx(x) = Idx(y) => x = y
      /\ \A x \in Nodes : x \in {layout.order[k] : k \in Idx(t)..pointer}
                            <=> Idx(t) <= Idx(x) /\ Idx(x) <= pointer
  <2>1. /\ Len(layout.order) \in Nat
        /\ \A x \in Nodes : Idx(x) \in 1..Len(layout.order)
                            /\ layout.order[Idx(x)] = x
        /\ \A k \in 1..Len(layout.order) : Idx(layout.order[k]) = k
    BY <1>0, HereLemma
  <2>2. t \in Nodes /\ pointer = Idx(n)
    BY <1>6, <1>8
  <2> HIDE DEF IInv, t
  <2>3. ASSUME NEW x \in Nodes
        PROVE  x \in {layout.order[k] : k \in Idx(t)..pointer}
                 <=> Idx(t) <= Idx(x) /\ Idx(x) <= pointer
    <3>1. \A k \in Idx(t)..pointer : k \in 1..Len(layout.order)
      BY <2>1, <2>2
    <3> QED BY <2>1, <2>2, <3>1
  <2> QED BY <2>1, <2>3
<1>10. ASSUME NEW x \in Nodes
       PROVE  x \in later <=> x \in (owed \ {n}) \cup (Targets(n, output) \cap Enabled)
  <2>1. x \in {layout.order[k] : k \in Idx(t)..pointer}
          <=> Idx(t) <= Idx(x) /\ Idx(x) <= pointer
    BY <1>9
  <2>2. /\ Idx(x) \in Nat /\ Idx(t) \in Nat /\ Idx(t) <= pointer
        /\ x = n <=> Idx(x) = pointer
    BY <1>6, <1>8, <1>9
  <2>3. x \in Targets(n, output) => Idx(x) > pointer \/ x = t
    BY <1>6, <1>8
  <2> HIDE DEF IInv, t, later
  <2>4. x \in later <=> /\ x \in Enabled
                        /\ x = t \/ (x \in reachable \cup Targets(n, output)
                                       /\ Idx(x) > pointer)
    BY <2>1, <2>2, <1>7, <1>8
  <2> QED BY <2>2, <2>3, <2>4, <1>6, <1>8
<1>11. later \subseteq Nodes /\ owed \subseteq Nodes
  BY <1>6, <1>7, <1>8
<1> DEFINE next == (owed \ {n}) \cup (Targets(n, output) \cap Enabled)
<1>12. later = next
  <2>1. next \subseteq Nodes
    BY <1>6, <1>11
  <2>2. \A x \in Nodes : x \in later <=> x \in next
    BY <1>10
  <2> HIDE DEF later, next
  <2> QED BY <1>11, <2>1, <2>2
<1> QED BY <1>12

\* A step that leaves pointer and reachability alone leaves what follows alone.
LEMMA AfterNext ==
  ASSUME NEW n, NEW output, UNCHANGED <<workflow, layout, pointer, reachable>>
  PROVE  /\ PointerAfter(n, output)' = PointerAfter(n, output)
         /\ ReachableAfter(n, output)' = ReachableAfter(n, output)
         /\ Enabled' = Enabled
<1>1. /\ ActiveBack(n, output)' = ActiveBack(n, output)
      /\ Targets(n, output)' = Targets(n, output)
  BY DEF ActiveBack, Targets
<1>2. findActivatedBackEdge(n, output)' = findActivatedBackEdge(n, output)
  BY <1>1 DEF findActivatedBackEdge
<1>3. PointerAfter(n, output)' = PointerAfter(n, output)
  BY <1>1, <1>2 DEF PointerAfter, Idx
<1>4. ReachableAfter(n, output)' = ReachableAfter(n, output)
  BY <1>1, <1>2 DEF ReachableAfter, Idx
<1> QED BY <1>3, <1>4 DEF Enabled

\* What is due after n does not change when the execution of n is on the way.
LEMMA DueAfterNext ==
  ASSUME NEW n, NEW output, done' = done \cup {n},
         UNCHANGED <<workflow, layout, pointer, reachable, skipping>>
  PROVE  DueAfter(n, output)' = DueAfter(n, output)
<1>1. /\ PointerAfter(n, output)' = PointerAfter(n, output)
      /\ ReachableAfter(n, output)' = ReachableAfter(n, output)
      /\ Enabled' = Enabled
  BY AfterNext
<1> QED BY <1>1 DEF DueAfter, DueFrom, Idx

\* The record of the walk after a completion.
LEMMA CompletionTypes ==
  ASSUME IInv, NEW n \in Nodes, NEW output \in Outputs(n),
         Completing(n), Completes(n, output)
  PROVE  /\ completed' = completed \cup {n} /\ completed' \subseteq Enabled
         /\ stored' \in [Nodes -> SUBSET Ports]
         /\ stored'[n] = output /\ \A m \in Nodes \ {n} : stored'[m] = stored[m]
         /\ done' = done \cup {n} /\ done' \subseteq Nodes
         /\ owed' = (owed \ {n}) \cup (Targets(n, output) \cap Enabled)
         /\ owed' \subseteq Enabled /\ looped' \in BOOLEAN /\ torn' \in BOOLEAN
         /\ looped' = (looped \/ ActiveBack(n, output) # {})
         /\ torn' = (torn \/ Misses(n, output))
<1>1. Types
  BY DEF IInv
<1>2. output \in SUBSET Ports /\ n \in Enabled
  BY <1>1, OutputLemma DEF Completing
<1>3. stored' = [stored EXCEPT ![n] = output]
  BY DEF Completes
<1>4. /\ stored' \in [Nodes -> SUBSET Ports]
      /\ stored'[n] = output /\ \A m \in Nodes \ {n} : stored'[m] = stored[m]
  BY <1>1, <1>2, <1>3 DEF Types
<1>5. /\ completed' = completed \cup {n} /\ done' = done \cup {n}
      /\ owed' = (owed \ {n}) \cup (Targets(n, output) \cap Enabled)
  BY DEF Completes
<1>6. /\ looped' = (looped \/ ActiveBack(n, output) # {})
      /\ torn' = (torn \/ Misses(n, output))
  BY Zenon DEF Completes
<1>7. looped' \in BOOLEAN /\ torn' \in BOOLEAN
  BY <1>1, <1>6 DEF Types, Misses
<1> QED BY <1>1, <1>2, <1>4, <1>5, <1>6, <1>7 DEF Types

\* What a completion keeps of the invariant.
LEMMA CompletionKeeps ==
  ASSUME IInv, NEW n \in Nodes, NEW output \in Outputs(n),
         Completing(n), Completes(n, output),
         UNCHANGED <<workflow, layout, skipping, forgot>>
  PROVE  /\ SeedsKept' /\ RedriveStraight' /\ OwedBehind' /\ OwedTold'
         /\ Clean' => DueAfter(n, output) = owed'
         /\ ~looped' => ~looped /\ ActiveBack(n, output) = {}
         /\ ~torn' => ~torn
<1>1. /\ completed' = completed \cup {n}
      /\ stored'[n] = output /\ \A m \in Nodes \ {n} : stored'[m] = stored[m]
      /\ owed' = (owed \ {n}) \cup (Targets(n, output) \cap Enabled)
      /\ looped' = (looped \/ ActiveBack(n, output) # {})
      /\ torn' = (torn \/ Misses(n, output))
  BY CompletionTypes
<1>2. Types /\ output \in SUBSET Ports
  BY OutputLemma DEF IInv
<1>3. Seed' = Seed /\ Enabled' = Enabled
  BY DEF Seed, seedInitialReachability, Back, Enabled
<1>4. SeedsKept'
  BY <1>1, <1>3 DEF IInv, SeedsKept
<1>5. /\ ~looped' => ~looped /\ ActiveBack(n, output) = {}
      /\ ~torn' => ~torn /\ ~Misses(n, output)
      /\ Clean' => Clean /\ ~Misses(n, output)
  BY <1>1 DEF Clean
<1>6. RedriveStraight'
  BY <1>1, <1>5 DEF IInv, RedriveStraight, Misses
<1>7. Clean' => DueAfter(n, output) = owed'
  <2>1. SUFFICES ASSUME Clean' PROVE DueAfter(n, output) = owed'
    OBVIOUS
  <2>2. CASE ActiveBack(n, output) = {}
    BY <2>1, <2>2, <1>1, <1>2, <1>5, CompletionForward
  <2>3. CASE ActiveBack(n, output) # {}
    BY <2>1, <2>3, <1>1, <1>2, <1>5, CompletionBack
  <2> QED BY <2>2, <2>3
<1>8. ASSUME Straight'
      PROVE  /\ Straight /\ Clean /\ n \in owed /\ n \notin completed
             /\ owed = DueFrom(pointer, reachable, done)
             /\ \A x \in Targets(n, output) :
                  /\ x # n /\ x \notin completed /\ Idx(n) < Idx(x)
                  /\ \A m \in completed : Idx(m) < Idx(x)
  <2>1. Clean /\ ~looped /\ ActiveBack(n, output) = {}
    BY <1>5, <1>8 DEF Straight
  <2>2. owed = Due /\ n \in owed /\ n \notin completed
    BY <2>1, CompletionOwed
  <2>3. Due = DueFrom(pointer, reachable, done)
    BY <1>2, DueIs
  <2>4. \A x \in Targets(n, output) :
          /\ x # n /\ x \notin completed /\ Idx(n) < Idx(x)
          /\ \A m \in completed : Idx(m) < Idx(x)
    BY <2>1, <1>2, CompletionForward
  <2> QED BY <2>1, <2>2, <2>3, <2>4 DEF Straight
<1>9. OwedBehind'
  <2>1. SUFFICES ASSUME Straight', NEW x \in owed', NEW m \in completed'
                 PROVE  Idx(m) < Idx(x)
    BY DEF OwedBehind, Idx
  <2>2. CASE x \in Targets(n, output)
    BY <2>1, <2>2, <1>1, <1>8
  <2>3. CASE x \in owed \ {n}
    <3>1. CASE m = n
      <4>1. Idx(x) >= Idx(n) /\ x \in Nodes
        BY <2>1, <2>3, <1>2, <1>8 DEF DueFrom, Completing, Types
      <4>2. Idx(x) # Idx(n) /\ Idx(x) \in Nat /\ Idx(n) \in Nat
        BY <4>1, <2>3, <1>2, HereLemma
      <4> QED BY <3>1, <4>1, <4>2
    <3>2. CASE m \in completed
      BY <2>1, <2>3, <3>2, <1>8 DEF IInv, OwedBehind
    <3> QED BY <3>1, <3>2, <1>1, <2>1
  <2> QED BY <2>1, <2>2, <2>3, <1>1
<1>10. OwedTold'
  <2>1. SUFFICES ASSUME Straight'
                 PROVE  owed' = (Activated' \cap Enabled) \ completed'
    BY <1>3 DEF OwedTold
  <2>2. Activated' = Activated \cup Targets(n, output)
    <3> DEFINE now == {Targets(m, stored[m]) : m \in completed}
               next == {Targets(m, stored'[m]) : m \in completed'}
    <3>1. \A m \in completed : stored'[m] = stored[m]
      BY <2>1, <1>1, <1>2, <1>8 DEF Types, Enabled
    <3>2. next = now \cup {Targets(n, output)}
      BY <3>1, <1>1
    <3>3. Activated' = Seed \cup UNION next
      BY <1>3 DEF Activated, Targets
    <3>4. Activated = Seed \cup UNION now
      BY DEF Activated
    <3> HIDE DEF now, next
    <3> QED BY <3>2, <3>3, <3>4
  <2>3. owed = (Activated \cap Enabled) \ completed
    BY <2>1, <1>8 DEF IInv, OwedTold
  <2> QED BY <2>1, <2>2, <2>3, <1>1, <1>8
<1> QED BY <1>4, <1>5, <1>6, <1>7, <1>9, <1>10

-----------------------------------------------------------------------------
\* A step that completes no node.
LEMMA HistoryKept ==
  ASSUME IInv, UNCHANGED <<workflow, layout, completed, stored, owed, looped>>,
         torn => torn', forgot => forgot'
  PROVE  /\ SeedsKept' /\ OwedBehind' /\ OwedTold'
         /\ Seed' = Seed /\ Enabled' = Enabled
         /\ (Clean' => Clean) /\ (Straight' => Straight)
<1>1. Seed' = Seed /\ Enabled' = Enabled /\ Activated' = Activated
  BY DEF Seed, seedInitialReachability, Back, Enabled, Activated, Targets
<1>2. (Clean' => Clean) /\ (Straight' => Straight)
  BY DEF Straight, Clean
<1> QED BY <1>1, <1>2 DEF IInv, SeedsKept, OwedBehind, OwedTold, Idx

\* A step that ends the segment.
LEMMA EndKept ==
  ASSUME IInv, status' \notin {"running", "saved", "asking", "turn"},
         UNCHANGED <<workflow, layout, completed, stored, logged, history>>,
         Release \/ UNCHANGED <<skipping, done>>
  PROVE  /\ SeedsKept' /\ RedriveStraight' /\ RecordSkipped' /\ DoneRight'
         /\ RecordBehind' /\ OwedBehind' /\ OwedTold' /\ Agrees' /\ Pending'
<1>1. SeedsKept' /\ OwedBehind' /\ OwedTold'
  BY HistoryKept DEF history
<1>2. skipping' => skipping /\ UNCHANGED <<skipping, done>>
  BY DEF Release
<1>3. Executed' = Executed /\ torn' = torn /\ looped' = looped
  BY DEF Executed, history
<1>4. RedriveStraight' /\ RecordSkipped'
  BY <1>2, <1>3 DEF IInv, RedriveStraight, RecordSkipped
<1>5. DoneRight' /\ RecordBehind' /\ Agrees' /\ Pending'
  BY DEF DoneRight, RecordBehind, Agrees, Pending
<1> QED BY <1>1, <1>4, <1>5

\* The pointer moves past a node that is passed over, or disabled.
LEMMA PassKept ==
  ASSUME IInv, status = "running", pointer <= Len(layout.order),
         \/ ~AtNode /\ done' = done
         \/ Here \in workflow.disabled /\ done' = done \cup {Here},
         pointer' = pointer + 1,
         UNCHANGED <<workflow, layout, status, reachable, skipping,
                     completed, stored, logged, history>>
  PROVE  /\ SeedsKept' /\ RedriveStraight' /\ RecordSkipped' /\ DoneRight'
         /\ RecordBehind' /\ OwedBehind' /\ OwedTold' /\ Agrees' /\ Pending'
<1>1. /\ SeedsKept' /\ OwedBehind' /\ OwedTold' /\ Enabled' = Enabled
      /\ Clean' => Clean
  BY HistoryKept DEF history
<1>2. /\ Executed' = Executed /\ torn' = torn /\ looped' = looped
      /\ forgot' = forgot /\ owed' = owed
  BY DEF Executed, history
<1>3. RedriveStraight'
  BY <1>2 DEF IInv, RedriveStraight
<1>4. done \subseteq done' /\ done' \cap Enabled = done \cap Enabled
  BY DEF Enabled
<1>5. RecordSkipped'
  BY <1>2, <1>4 DEF IInv, RecordSkipped
<1>6. DoneRight'
  BY <1>1, <1>2, <1>4 DEF IInv, DoneRight
<1>7. Types /\ pointer \in Nat \ {0} /\ reachable \subseteq Nodes /\ completed \subseteq Nodes
  BY DEF IInv, Types, Enabled
<1>8. /\ Len(layout.order) \in Nat
      /\ \A i \in 1..Len(layout.order) : layout.order[i] \in Nodes
                                         /\ Idx(layout.order[i]) = i
      /\ \A x \in Nodes : Idx(x) \in Nat /\ layout.order[Idx(x)] = x
  BY <1>7, HereLemma
<1>9. RecordBehind'
  <2>1. SUFFICES ASSUME ~looped, ~torn, ~skipping, NEW m \in Executed
                 PROVE  Idx(m) < pointer + 1
    BY <1>2 DEF RecordBehind, Idx
  <2>2. Idx(m) < pointer /\ Idx(m) \in Nat
    BY <2>1, <1>7, <1>8 DEF IInv, RecordBehind, Executed
  <2> QED BY <2>2, <1>7
<1>10. Due' = Due
  <2>1. Here \notin Due
    BY <1>7 DEF Due, AtNode, Enabled
  <2>2. Due = {x \in reachable \cap Enabled :
                 Idx(x) >= pointer /\ ~(skipping /\ x \in done)}
    BY <1>7, DueIs DEF DueFrom
  <2>3. Due' = {x \in reachable \cap Enabled :
                  Idx(x) >= pointer + 1 /\ ~(skipping /\ x \in done')}
    BY <1>7, DueNext
  <2>4. ASSUME NEW x \in Nodes \cap Enabled PROVE x \in Due' <=> x \in Due
    <3>1. Idx(x) = pointer => x = Here
      BY <1>8 DEF Here
    <3>2. Idx(x) \in Nat
      BY <1>8
    <3> QED BY <1>4, <1>7, <2>1, <2>2, <2>3, <3>1, <3>2
  <2> QED BY <1>7, <2>2, <2>3, <2>4
<1>11. Agrees' /\ Pending'
  BY <1>1, <1>2, <1>10 DEF IInv, Agrees, Pending
<1> QED BY <1>1, <1>3, <1>5, <1>6, <1>9, <1>11

LEMMA InitInv == ASSUME Init PROVE IInv
<1>1. workflow \in Graphs /\ NoNode \notin Nodes
  BY WalkAssumption DEF Init
<1>2. /\ workflow \in Workflows /\ layout \in workflow.layouts
      /\ status = "running" /\ pointer = 1 /\ count = Zero /\ skipping = FALSE
      /\ reachable = Seed /\ done = {} /\ completed = {} /\ logged = {}
      /\ stored = [n \in Nodes |-> {}] /\ waiting = NoNode
      /\ parks = MaxParks /\ crashes = MaxCrashes /\ owed = reachable \cap Enabled
      /\ looped = FALSE /\ torn = FALSE /\ forgot = FALSE
  BY DEF Init, Seed
<1>3. Seed \subseteq Nodes
  BY <1>1 DEF Seed, seedInitialReachability, Graphs
<1>4. Types
  <2>1. count \in [Nodes -> Nat] /\ stored \in [Nodes -> SUBSET Ports]
    BY <1>2 DEF Zero
  <2>2. owed \subseteq Enabled /\ reachable \subseteq Nodes
    BY <1>2, <1>3
  <2>3. parks \in Nat /\ crashes \in Nat
    BY <1>2, WalkAssumption
  <2>4. skipping \in BOOLEAN /\ looped \in BOOLEAN /\ torn \in BOOLEAN /\ forgot \in BOOLEAN
    BY <1>2, Zenon
  <2>5. pointer \in Nat \ {0}
    BY <1>2
  <2>6. done \subseteq Nodes /\ completed \subseteq Enabled /\ logged \subseteq Nodes
    BY <1>2
  <2>7. workflow \in Workflows /\ layout \in workflow.layouts
    BY <1>2
  <2> QED BY <2>1, <2>2, <2>3, <2>4, <2>5, <2>6, <2>7 DEF Types
<1>5. Executed = {} /\ Enabled \subseteq Nodes
  BY <1>2 DEF Executed, Enabled
<1>6. Due = owed
  <2>1. \A x \in Nodes : Idx(x) >= pointer
    BY <1>2, <1>4, HereLemma
  <2> QED BY <2>1, <1>2, <1>3, <1>4, DueIs DEF DueFrom
<1>7. Shape
  BY <1>1, <1>2 DEF Shape
<1>8. OwedTold
  BY <1>2 DEF OwedTold, Activated
<1> QED BY <1>2, <1>4, <1>5, <1>6, <1>7, <1>8
        DEF IInv, SeedsKept, RedriveStraight, RecordSkipped, DoneRight, RecordBehind,
            OwedBehind, Agrees, Pending

\* The node at the pointer, when the loop does not pass over it.
LEMMA AtNodeLemma ==
  ASSUME IInv, AtNode
  PROVE  /\ Here \in Nodes /\ Idx(Here) = pointer /\ Here \in reachable
         /\ ~(skipping /\ Here \in done)
         /\ status = "running" /\ waiting = NoNode
         /\ Here \notin workflow.disabled => Here \in Enabled /\ Completing(Here)
<1>1. Types /\ status = "running" /\ pointer \in Nat \ {0}
      /\ pointer <= Len(layout.order) /\ waiting = NoNode
  BY DEF IInv, Types, Shape, AtNode
<1>2. /\ Len(layout.order) \in Nat
      /\ \A i \in 1..Len(layout.order) : layout.order[i] \in Nodes
                                         /\ Idx(layout.order[i]) = i
  BY <1>1, HereLemma
<1>3. Here \in Nodes /\ Idx(Here) = pointer
  BY <1>1, <1>2 DEF Here
<1>4. Here \in reachable /\ ~(skipping /\ Here \in done)
  BY DEF AtNode
<1>5. Here \notin workflow.disabled => Here \in Enabled /\ Completing(Here)
  BY <1>1, <1>3, <1>4 DEF Enabled, Completing
<1> QED BY <1>1, <1>3, <1>4, <1>5

\* The node whose path entry or park is due.
LEMMA SavedLemma ==
  ASSUME IInv, status \in {"saved", "asking"}
  PROVE  /\ Here \in Enabled /\ Here \in Nodes /\ Idx(Here) = pointer
         /\ pointer \in Nat \ {0} /\ waiting = NoNode
<1>1. Types /\ Shape
  BY DEF IInv
<1>2. Here \in Enabled /\ waiting = NoNode /\ pointer <= Len(layout.order)
  BY <1>1 DEF Shape
<1>3. pointer \in 1..Len(layout.order) /\ pointer \in Nat \ {0}
  BY <1>1, <1>2, HereLemma DEF Types
<1> QED BY <1>1, <1>2, <1>3, HereLemma DEF Here

\* The memory a segment leaves behind.
LEMMA ReleaseLemma ==
  ASSUME Release
  PROVE  /\ pointer' = 1 /\ pointer' \in Nat \ {0} /\ reachable' \subseteq Nodes
         /\ count' \in [Nodes -> Nat] /\ skipping' = FALSE /\ skipping' \in BOOLEAN
         /\ done' \subseteq Nodes
<1>1. skipping' \in BOOLEAN /\ skipping' = FALSE
  BY Zenon DEF Release
<1> QED BY <1>1 DEF Release, Zero

\* What a step adds to the path log.
LEMMA LogsLemma ==
  ASSUME Types, NEW n \in Nodes, Logs(n)
  PROVE  logged' \subseteq logged \cup {n} /\ logged' \subseteq Nodes
BY DEF Logs, Types

LEMMA StepInv == ASSUME IInv, [Next]_vars PROVE IInv'
<1>0. Types /\ Shape
  BY DEF IInv
<1>1. CASE PassOver \/ handleDisabledNode
  <2>1. /\ status = "running" /\ pointer <= Len(layout.order) /\ pointer' = pointer + 1
        /\ count' = count \/ (Here \in Nodes /\ count' = Counted)
        /\ \/ ~AtNode /\ done' = done
           \/ Here \in workflow.disabled /\ Here \in Nodes /\ done' = done \cup {Here}
        /\ UNCHANGED <<workflow, layout, status, reachable, skipping, completed, stored,
                       logged, waiting, parks, crashes, history>>
    BY <1>1, AtNodeLemma DEF PassOver, handleDisabledNode, AtNode, graph, rows, bounds
  <2>2. Types'
    BY <1>0, <2>1 DEF Types, Enabled, Counted, history
  <2>3. Shape'
    BY <1>0, <2>1 DEF Shape
  <2>4. /\ SeedsKept' /\ RedriveStraight' /\ RecordSkipped' /\ DoneRight'
        /\ RecordBehind' /\ OwedBehind' /\ OwedTold' /\ Agrees' /\ Pending'
    BY <2>1, PassKept
  <2> QED BY <2>2, <2>3, <2>4 DEF IInv
<1>2. CASE ExceedLimit \/ NodeFails
  <2>1. /\ AtNode /\ status' = "failed" /\ count' = Counted
        /\ UNCHANGED <<workflow, layout, pointer, reachable, skipping, done, completed,
                       stored, logged, waiting, parks, crashes, history>>
    BY <1>2 DEF ExceedLimit, NodeFails, Runs, graph, rows, bounds
  <2>2. Here \in Nodes /\ waiting = NoNode
    BY <2>1, AtNodeLemma
  <2>3. Types'
    BY <1>0, <2>1, <2>2 DEF Types, Enabled, Counted, history
  <2>4. Shape'
    BY <1>0, <2>1, <2>2 DEF Shape
  <2>5. /\ SeedsKept' /\ RedriveStraight' /\ RecordSkipped' /\ DoneRight'
        /\ RecordBehind' /\ OwedBehind' /\ OwedTold' /\ Agrees' /\ Pending'
    BY <2>1, EndKept
  <2> QED BY <2>3, <2>4, <2>5 DEF IInv
<1>3. CASE executeNode
  <2>1. /\ AtNode /\ Here \notin workflow.disabled /\ count' = Counted /\ status' = "saved"
        /\ UNCHANGED <<workflow, layout, pointer, reachable, skipping, logged, waiting,
                       parks, crashes, forgot>>
    BY <1>3 DEF executeNode, Runs, graph, bounds
  <2>2. PICK n : n = Here
    OBVIOUS
  <2>3. /\ n \in Enabled /\ n \in Nodes /\ Idx(n) = pointer /\ Completing(n)
        /\ status = "running" /\ waiting = NoNode /\ Here' = n
        /\ pointer <= Len(layout.order)
    BY <2>1, <2>2, AtNodeLemma DEF Here, AtNode
  <2>4. PICK output \in Outputs(n) : Completes(n, output)
    BY <1>3, <2>2 DEF executeNode
  <2>5. /\ completed' = completed \cup {n} /\ completed' \subseteq Enabled
        /\ stored' \in [Nodes -> SUBSET Ports] /\ stored'[n] = output
        /\ done' = done \cup {n} /\ done' \subseteq Nodes
        /\ owed' \subseteq Enabled /\ looped' \in BOOLEAN /\ torn' \in BOOLEAN
    BY <2>3, <2>4, CompletionTypes
  <2>6. /\ SeedsKept' /\ RedriveStraight' /\ OwedBehind' /\ OwedTold'
        /\ Clean' => DueAfter(n, output) = owed'
        /\ ~looped' => ~looped /\ ActiveBack(n, output) = {}
        /\ ~torn' => ~torn
    BY <2>1, <2>3, <2>4, CompletionKeeps
  <2>7. Enabled' = Enabled /\ layout' = layout /\ skipping' = skipping
    BY <2>1 DEF Enabled
  <2>8. Types'
    <3>1. count' \in [Nodes -> Nat]
      BY <1>0, <2>1, <2>2, <2>3 DEF Types, Counted
    <3> QED BY <1>0, <2>1, <2>5, <2>7, <3>1 DEF Types
  <2>9. Shape'
    BY <1>0, <2>1, <2>3, <2>7 DEF Shape
  <2>10. Executed' \subseteq Executed \cup {n}
    BY <2>1, <2>5 DEF Executed
  <2>11. RecordSkipped'
    BY <2>5, <2>7, <2>10 DEF IInv, RecordSkipped
  <2>12. DoneRight'
    BY <2>1, <2>3, <2>5, <2>7 DEF IInv, DoneRight
  <2>13. RecordBehind'
    <3>1. SUFFICES ASSUME ~looped', ~torn', ~skipping', NEW m \in Executed'
                   PROVE  Idx(m) <= pointer
      BY <2>1 DEF RecordBehind, Idx
    <3>2. CASE m = n
      BY <3>2, <2>3, <1>0 DEF Types
    <3>3. CASE m \in Executed
      <4>1. Idx(m) < pointer
        BY <3>1, <3>3, <2>3, <2>6, <2>7 DEF IInv, RecordBehind
      <4>2. Idx(m) \in Nat /\ pointer \in Nat
        BY <1>0, <3>3, HereLemma DEF Executed, Types, Enabled
      <4> QED BY <4>1, <4>2
    <3> QED BY <3>1, <3>2, <3>3, <2>10
  <2>14. Pending'
    <3>1. DueAfter(n, output)' = DueAfter(n, output)
      BY <2>1, <2>5, DueAfterNext
    <3>2. ActiveBack(n, output)' = ActiveBack(n, output)
      BY <2>1 DEF ActiveBack
    <3> QED BY <3>1, <3>2, <2>3, <2>5, <2>6 DEF Pending
  <2>15. Agrees'
    BY <2>1 DEF Agrees
  <2> QED BY <2>6, <2>8, <2>9, <2>11, <2>12, <2>13, <2>14, <2>15 DEF IInv
<1>4. CASE appendExecutionPath
  <2>1. /\ status = "saved" /\ status' = "running"
        /\ UNCHANGED <<workflow, layout, count, skipping, done, completed, stored,
                       waiting, parks, crashes, history>>
    BY <1>4 DEF appendExecutionPath, graph, bounds
  <2>2. PICK n : n = Here
    OBVIOUS
  <2>3. n \in Nodes /\ Idx(n) = pointer /\ pointer \in Nat /\ waiting = NoNode
    BY <2>1, <2>2, SavedLemma
  <2>4. PICK output \in SUBSET Ports : output = stored[n]
    BY <1>0, <2>3 DEF Types
  <2>5. Logs(n) /\ MoveOn(n, pointer, output)
    BY <1>4, <2>2, <2>4 DEF appendExecutionPath
  <2>6. /\ n \in done /\ done' = done \cup {n}
        /\ ~looped => ActiveBack(n, output) = {}
        /\ Clean => DueAfter(n, output) = owed
    BY <2>1, <2>2, <2>3, <2>4 DEF IInv, Pending
  <2>7. /\ logged' \subseteq logged \cup {n} /\ logged' \subseteq Nodes
    BY <1>0, <2>3, <2>5, LogsLemma
  <2>8. /\ pointer' = PointerAfter(n, output) /\ pointer' \in Nat \ {0}
        /\ reachable' \subseteq Nodes
    BY <1>0, <2>3, <2>5, MoveLemma
  <2>9. Due' = DueAfter(n, output)
    BY <1>0, <2>1, <2>3, <2>5, <2>6, MovedLemma
  <2>10. SeedsKept' /\ OwedBehind' /\ OwedTold' /\ Enabled' = Enabled /\ (Clean' => Clean)
    BY <2>1, HistoryKept DEF history
  <2>11. Types'
    BY <1>0, <2>1, <2>7, <2>8, <2>10 DEF Types, history
  <2>12. Shape'
    BY <2>1, <2>3 DEF Shape
  <2>13. RedriveStraight'
    BY <2>1 DEF IInv, RedriveStraight, history
  <2>14. Executed' \subseteq Executed \cup {n}
    BY <2>1, <2>7 DEF Executed
  <2>15. RecordSkipped' /\ DoneRight'
    BY <2>1, <2>6, <2>10, <2>14 DEF IInv, RecordSkipped, DoneRight, history
  <2>16. RecordBehind'
    <3>1. SUFFICES ASSUME ~looped, ~torn, ~skipping, NEW m \in Executed'
                   PROVE  Idx(m) < pointer'
      BY <2>1 DEF RecordBehind, Idx, history
    <3>2. pointer' = pointer + 1
      BY <3>1, <2>6, <2>8 DEF PointerAfter
    <3>3. Idx(m) <= pointer
      BY <3>1, <2>1, <2>3, <2>14 DEF IInv, RecordBehind
    <3>4. Idx(m) \in Nat
      BY <1>0, <3>1, <2>3, <2>14, HereLemma DEF Executed, Types, Enabled
    <3> QED BY <3>2, <3>3, <3>4, <2>3
  <2>17. Agrees' /\ Pending'
    BY <2>1, <2>6, <2>9, <2>10 DEF Agrees, Pending, history
  <2> QED BY <2>10, <2>11, <2>12, <2>13, <2>15, <2>16, <2>17 DEF IInv
<1>5. CASE NodeAsks
  <2>1. /\ AtNode /\ Here \notin workflow.disabled /\ count' = Counted /\ status' = "asking"
        /\ parks > 0 /\ done' = done \cup {Here} /\ Logs(Here)
        /\ UNCHANGED <<workflow, layout, pointer, reachable, skipping, completed, stored,
                       waiting, parks, crashes, history>>
    BY <1>5 DEF NodeAsks, Runs, graph, bounds
  <2>2. /\ Here \in Enabled /\ Here \in Nodes /\ Idx(Here) = pointer
        /\ status = "running" /\ waiting = NoNode /\ Here' = Here
        /\ pointer <= Len(layout.order)
    BY <2>1, AtNodeLemma DEF Here, AtNode
  <2>3. logged' \subseteq logged \cup {Here} /\ logged' \subseteq Nodes
    BY <1>0, <2>1, <2>2, LogsLemma
  <2>4. SeedsKept' /\ OwedBehind' /\ OwedTold' /\ Enabled' = Enabled
    BY <2>1, HistoryKept DEF history
  <2>5. Types'
    BY <1>0, <2>1, <2>2, <2>3, <2>4 DEF Types, Counted, history
  <2>6. Shape'
    BY <2>1, <2>2, <2>4 DEF Shape
  <2>7. RedriveStraight'
    BY <2>1 DEF IInv, RedriveStraight, history
  <2>8. Executed' \subseteq Executed \cup {Here}
    BY <2>1, <2>3 DEF Executed
  <2>9. RecordSkipped' /\ DoneRight'
    BY <2>1, <2>8 DEF IInv, RecordSkipped, DoneRight
  <2>10. RecordBehind'
    <3>1. SUFFICES ASSUME ~looped, ~torn, ~skipping, NEW m \in Executed'
                   PROVE  Idx(m) <= pointer
      BY <2>1 DEF RecordBehind, Idx, history
    <3>2. pointer \in Nat
      BY <1>0 DEF Types
    <3>3. CASE m = Here
      BY <3>2, <3>3, <2>2
    <3>4. CASE m \in Executed
      <4>1. Idx(m) < pointer
        BY <3>1, <3>4, <2>2 DEF IInv, RecordBehind
      <4>2. Idx(m) \in Nat
        BY <1>0, <3>4, HereLemma DEF Executed, Types, Enabled
      <4> QED BY <4>1, <4>2, <3>2
    <3> QED BY <3>1, <3>3, <3>4, <2>8
  <2>11. Agrees' /\ Pending'
    BY <2>1 DEF Agrees, Pending
  <2> QED BY <2>4, <2>5, <2>6, <2>7, <2>9, <2>10, <2>11 DEF IInv
<1>6. CASE dispatchParkEntry
  <2>1. /\ status = "asking" /\ status' = "waiting" /\ waiting' = Here
        /\ parks' = parks - 1 /\ Release
        /\ UNCHANGED <<workflow, layout, completed, stored, logged, crashes, history>>
    BY <1>6 DEF dispatchParkEntry, graph
  <2>2. Here \in Enabled /\ Here \in Nodes /\ parks > 0
    BY <1>0, <2>1, SavedLemma DEF Shape
  <2>3. Enabled' = Enabled
    BY <2>1 DEF Enabled
  <2>4. Types'
    BY <1>0, <2>1, <2>2, <2>3, ReleaseLemma DEF Types, history
  <2>5. Shape'
    BY <2>1, <2>2, <2>3, ReleaseLemma DEF Shape
  <2>6. /\ SeedsKept' /\ RedriveStraight' /\ RecordSkipped' /\ DoneRight'
        /\ RecordBehind' /\ OwedBehind' /\ OwedTold' /\ Agrees' /\ Pending'
    BY <2>1, EndKept
  <2> QED BY <2>4, <2>5, <2>6 DEF IInv
<1>7. CASE Complete \/ TurnFails \/ RedriveFails
  <2>1. /\ status' \in {"completed", "failed"}
        /\ status' = "completed" => status = "running"
        /\ UNCHANGED <<workflow, layout, pointer, reachable, count, skipping, done,
                       completed, stored, logged, waiting, parks, crashes, history>>
    BY <1>7 DEF Complete, TurnFails, RedriveFails, graph, memory, rows, bounds
  <2>2. Types'
    BY <1>0, <2>1 DEF Types, Enabled, history
  <2>3. Shape'
    BY <1>0, <2>1 DEF Shape
  <2>4. /\ SeedsKept' /\ RedriveStraight' /\ RecordSkipped' /\ DoneRight'
        /\ RecordBehind' /\ OwedBehind' /\ OwedTold' /\ Agrees' /\ Pending'
    BY <2>1, EndKept
  <2> QED BY <2>2, <2>3, <2>4 DEF IInv
<1>8. CASE TurnParksAgain
  <2>1. /\ status = "turn" /\ parks > 0 /\ parks' = parks - 1
        /\ status' = "waiting" /\ Release
        /\ UNCHANGED <<workflow, layout, completed, stored, logged, waiting, crashes,
                       history>>
    BY <1>8 DEF TurnParksAgain, graph, rows
  <2>2. Types'
    BY <1>0, <2>1, ReleaseLemma DEF Types, Enabled, history
  <2>3. Shape'
    BY <1>0, <2>1, ReleaseLemma DEF Shape, Enabled
  <2>4. /\ SeedsKept' /\ RedriveStraight' /\ RecordSkipped' /\ DoneRight'
        /\ RecordBehind' /\ OwedBehind' /\ OwedTold' /\ Agrees' /\ Pending'
    BY <2>1, EndKept
  <2> QED BY <2>2, <2>3, <2>4 DEF IInv
<1>9. CASE resumeFromCheckpoint
  <2>1. /\ status = "waiting" /\ status' = "turn" /\ pointer' = Idx(waiting)
        /\ reachable' = Seed \cup Executed \cup {waiting} /\ done' = Executed
        /\ torn' = (torn \/ owed # {waiting}
                         \/ completed \cap After(layout, waiting) # {})
        /\ UNCHANGED <<workflow, layout, count, skipping, completed, stored, logged,
                       waiting, parks, crashes, owed, looped, forgot>>
    BY <1>9 DEF resumeFromCheckpoint, Idx, Seed, graph, rows, bounds
  <2>2. waiting \in Enabled /\ waiting \in Nodes /\ ~skipping
    BY <1>0, <2>1 DEF Shape, Enabled
  <2>3. pointer' \in Nat \ {0}
    BY <1>0, <2>1, <2>2, HereLemma
  <2>4. Seed \subseteq Nodes /\ completed \subseteq Nodes /\ Executed \subseteq completed
    BY <1>0, HereLemma DEF Seed, seedInitialReachability, Graphs, Executed, Types, Enabled
  <2>5. Types'
    BY <1>0, <2>1, <2>2, <2>3, <2>4 DEF Types, Enabled
  <2>6. Shape'
    BY <1>0, <2>1, <2>2 DEF Shape, Enabled, Idx
  <2>7. SeedsKept' /\ OwedBehind' /\ OwedTold' /\ Enabled' = Enabled
    BY <2>1, HistoryKept
  <2>8. RedriveStraight' /\ RecordSkipped' /\ DoneRight' /\ Pending'
    BY <2>1, <2>2 DEF RedriveStraight, RecordSkipped, DoneRight, Pending
  <2>9. ASSUME ~torn', NEW x \in completed, Idx(x) >= Idx(waiting) PROVE x = waiting
    <3>1. SUFFICES ASSUME x # waiting PROVE x \in After(layout, waiting)
      BY <2>1, <2>9
    <3>2. /\ Len(layout.order) \in Nat
          /\ Idx(x) \in 1..Len(layout.order) /\ layout.order[Idx(x)] = x
          /\ Idx(waiting) \in 1..Len(layout.order)
          /\ layout.order[Idx(waiting)] = waiting
      BY <1>0, <2>2, <2>4, HereLemma
    <3>3. Idx(x) \in Idx(waiting) + 1..Len(layout.order)
      BY <2>9, <3>1, <3>2
    <3>4. After(layout, waiting)
            = {layout.order[i] : i \in Idx(waiting) + 1..Len(layout.order)}
      BY DEF After, Idx
    <3> QED BY <3>2, <3>3, <3>4
  <2>10. RecordBehind'
    <3>1. SUFFICES ASSUME ~torn', NEW m \in Executed PROVE Idx(m) <= Idx(waiting)
      BY <2>1 DEF RecordBehind, Idx, Executed
    <3>2. Idx(m) \in Nat /\ Idx(waiting) \in Nat
      BY <1>0, <2>2, <2>4, HereLemma
    <3> QED BY <3>1, <3>2, <2>4, <2>9
  <2>11. Agrees'
    <3>1. SUFFICES ASSUME ~torn' PROVE Due' = owed'
      BY DEF Agrees, Clean
    <3>2. owed = {waiting}
      BY <2>1, <3>1
    <3>3. Due' = {x \in reachable' \cap Enabled : Idx(x) >= Idx(waiting)}
      BY <1>0, <2>1, <2>2, <2>3, <2>5, DueNext DEF Types
    <3>4. \A x \in Seed \cap Enabled : x \in completed \/ x = waiting
      BY <3>2 DEF IInv, SeedsKept
    <3>5. Idx(waiting) \in Nat
      BY <1>0, <2>2, HereLemma
    <3> QED BY <2>1, <2>2, <2>4, <2>9, <3>1, <3>2, <3>3, <3>4, <3>5
  <2> QED BY <2>5, <2>6, <2>7, <2>8, <2>10, <2>11 DEF IInv
<1>10. CASE driveResumeAwaited
  <2>1. /\ status = "turn" /\ status' = "running" /\ waiting' = NoNode
        /\ UNCHANGED <<workflow, layout, count, skipping, logged, parks, crashes, forgot>>
    BY <1>10 DEF driveResumeAwaited, graph, bounds
  <2>2. PICK n : n = waiting
    OBVIOUS
  <2>3. n \in Nodes /\ Completing(n) /\ ~skipping /\ Idx(n) = pointer
    BY <1>0, <2>1, <2>2 DEF Shape, Completing, Enabled
  <2>4. PICK output \in Outputs(n) : Completes(n, output) /\ MoveOn(n, pointer, output)
    BY <1>10, <2>2 DEF driveResumeAwaited
  <2>5. output \in SUBSET Ports
    BY <1>0, OutputLemma
  <2>6. /\ completed' = completed \cup {n} /\ completed' \subseteq Enabled
        /\ stored' \in [Nodes -> SUBSET Ports]
        /\ done' = done \cup {n} /\ done' \subseteq Nodes
        /\ owed' \subseteq Enabled /\ looped' \in BOOLEAN /\ torn' \in BOOLEAN
    BY <2>3, <2>4, CompletionTypes
  <2>7. /\ SeedsKept' /\ RedriveStraight' /\ OwedBehind' /\ OwedTold'
        /\ Clean' => DueAfter(n, output) = owed'
        /\ ~looped' => ~looped /\ ActiveBack(n, output) = {}
        /\ ~torn' => ~torn
    BY <2>1, <2>3, <2>4, CompletionKeeps
  <2>8. /\ pointer' = PointerAfter(n, output) /\ pointer' \in Nat \ {0}
        /\ reachable' \subseteq Nodes
    BY <1>0, <2>3, <2>4, <2>5, MoveLemma
  <2>9. Due' = DueAfter(n, output)
    BY <1>0, <2>1, <2>3, <2>4, <2>5, <2>6, MovedLemma
  <2>10. Enabled' = Enabled /\ layout' = layout /\ skipping' = skipping
    BY <2>1 DEF Enabled
  <2>11. Types'
    BY <1>0, <2>1, <2>6, <2>8, <2>10 DEF Types
  <2>12. Shape'
    BY <2>1 DEF Shape
  <2>13. RecordSkipped' /\ DoneRight' /\ Pending'
    BY <2>1, <2>3 DEF RecordSkipped, DoneRight, Pending
  <2>14. RecordBehind'
    <3>1. SUFFICES ASSUME ~looped', ~torn', NEW m \in Executed'
                   PROVE  Idx(m) < pointer'
      BY <2>1 DEF RecordBehind, Idx
    <3>2. pointer' = pointer + 1 /\ pointer \in Nat
      BY <1>0, <3>1, <2>7, <2>8 DEF PointerAfter, Types
    <3>3. m = n \/ m \in Executed
      BY <2>1, <2>6, <3>1 DEF Executed
    <3>4. Idx(m) \in Nat
      BY <1>0, <2>3, <3>3, HereLemma DEF Executed, Types, Enabled
    <3>5. m \in Executed => Idx(m) <= pointer
      BY <3>1, <2>1, <2>3, <2>7 DEF IInv, RecordBehind
    <3> QED BY <3>2, <3>3, <3>4, <3>5, <2>3
  <2>15. Agrees'
    BY <2>7, <2>9 DEF Agrees
  <2> QED BY <2>7, <2>11, <2>12, <2>13, <2>14, <2>15 DEF IInv
<1>11. CASE Crash
  <2>1. /\ crashes > 0 /\ crashes' = crashes - 1
        /\ status' = "crashed" /\ waiting' = NoNode /\ Release
        /\ UNCHANGED <<workflow, layout, completed, stored, logged, parks, history>>
    BY <1>11 DEF Crash, graph
  <2>2. Types'
    BY <1>0, <2>1, ReleaseLemma DEF Types, Enabled, history
  <2>3. Shape'
    BY <2>1, ReleaseLemma DEF Shape
  <2>4. /\ SeedsKept' /\ RedriveStraight' /\ RecordSkipped' /\ DoneRight'
        /\ RecordBehind' /\ OwedBehind' /\ OwedTold' /\ Agrees' /\ Pending'
    BY <2>1, EndKept
  <2> QED BY <2>2, <2>3, <2>4 DEF IInv
<1>12. CASE driveStuckRedrive
  <2>1. /\ status = "crashed" /\ status' = "running" /\ skipping' = TRUE
        /\ reachable' = Seed \cup Executed \cup UNION {Targets(m, stored[m]) : m \in Executed}
        /\ done' = Executed
        /\ torn' = (torn \/ looped) /\ forgot' = (forgot \/ Executed # completed)
        /\ UNCHANGED <<workflow, layout, pointer, count, completed, stored, logged,
                       waiting, parks, crashes, owed, looped>>
    BY <1>12 DEF driveStuckRedrive, Seed, graph, rows, bounds
  <2>2. pointer = 1 /\ waiting = NoNode
    BY <1>0, <2>1 DEF Shape
  <2>3. /\ Seed \subseteq Nodes /\ completed \subseteq Enabled /\ completed \subseteq Nodes
        /\ Executed \subseteq completed
    BY <1>0, HereLemma DEF Seed, seedInitialReachability, Graphs, Executed, Types, Enabled
  <2>4. reachable' \subseteq Nodes
    <3>1. ASSUME NEW m \in Executed PROVE Targets(m, stored[m]) \subseteq Nodes
      <4>1. m \in Nodes /\ stored[m] \in SUBSET Ports
        BY <1>0, <2>3, <3>1 DEF Types
      <4> QED BY <1>0, <4>1, TargetsLemma
    <3> QED BY <2>1, <2>3, <3>1
  <2>5. Types'
    <3>1. torn' \in BOOLEAN /\ forgot' \in BOOLEAN /\ skipping' \in BOOLEAN
      BY <1>0, <2>1 DEF Types
    <3> QED BY <1>0, <2>1, <2>3, <2>4, <3>1 DEF Types, Enabled
  <2>6. Shape'
    BY <2>1, <2>2 DEF Shape
  <2>7. /\ SeedsKept' /\ OwedBehind' /\ OwedTold' /\ Enabled' = Enabled
        /\ Executed' = Executed
    BY <2>1, HistoryKept DEF Executed
  <2>8. RedriveStraight' /\ RecordSkipped' /\ RecordBehind' /\ Pending'
    BY <2>1, <2>7 DEF RedriveStraight, RecordSkipped, RecordBehind, Pending
  <2>9. DoneRight'
    BY <2>1, <2>3, <2>7 DEF DoneRight
  <2>10. Agrees'
    <3>1. SUFFICES ASSUME Clean' PROVE Due' = owed'
      BY DEF Agrees
    <3>2. Straight /\ Executed = completed
      BY <2>1, <3>1 DEF Clean, Straight
    <3>3. owed = (Activated \cap Enabled) \ completed
      BY <3>2 DEF IInv, OwedTold
    <3>4. \A x \in Nodes : Idx(x) >= pointer'
      BY <1>0, <2>1, <2>2, HereLemma
    <3>5. Due' = {x \in reachable' \cap Enabled : x \notin completed}
      BY <1>0, <2>1, <2>2, <2>4, <3>2, <3>4, DueNext
    <3>6. reachable' = Activated \cup completed
      BY <2>1, <3>2 DEF Activated
    <3> QED BY <2>1, <3>3, <3>5, <3>6
  <2> QED BY <2>5, <2>6, <2>7, <2>8, <2>9, <2>10 DEF IInv
<1>13. CASE UNCHANGED vars
  <2>1. UNCHANGED <<workflow, layout, status, pointer, reachable, count, skipping, done,
                    completed, stored, logged, waiting, parks, crashes,
                    owed, looped, torn, forgot>>
    BY <1>13 DEF vars, graph, memory, rows, bounds, history
  <2>2. Types' /\ Shape'
    BY <1>0, <2>1 DEF Types, Shape, Enabled, Here, Idx
  <2>3. SeedsKept' /\ OwedBehind' /\ OwedTold' /\ (Clean' => Clean) /\ Enabled' = Enabled
    BY <2>1, HistoryKept
  <2>4. Executed' = Executed /\ Due' = Due /\ Here' = Here
    BY <2>1 DEF Executed, Due, Enabled, Here
  <2>5. RedriveStraight' /\ RecordSkipped' /\ DoneRight' /\ RecordBehind' /\ Agrees'
    BY <2>1, <2>3, <2>4
       DEF IInv, RedriveStraight, RecordSkipped, DoneRight, RecordBehind, Agrees, Idx
  <2>6. Pending'
    <3>1. CASE status # "saved"
      BY <2>1, <3>1 DEF Pending
    <3>2. CASE status = "saved"
      <4>1. ASSUME NEW n \in Nodes, NEW output \in SUBSET Ports,
                   n = Here', output = stored'[n]
            PROVE  /\ ~looped' => ActiveBack(n, output)' = {}
                   /\ Clean' => DueAfter(n, output)' = owed'
        <5>1. n = Here /\ output = stored[n]
          BY <2>1, <2>4, <4>1
        <5>2. /\ n \in done
              /\ ~looped => ActiveBack(n, output) = {}
              /\ Clean => DueAfter(n, output) = owed
          BY <3>2, <5>1 DEF IInv, Pending
        <5>3. DueAfter(n, output)' = DueAfter(n, output)
          BY <2>1, <5>2, DueAfterNext
        <5>4. ActiveBack(n, output)' = ActiveBack(n, output)
          BY <2>1 DEF ActiveBack
        <5> QED BY <2>1, <2>3, <5>2, <5>3, <5>4
      <4>2. Here' \in completed' /\ Here' \in done'
        BY <2>1, <2>4, <3>2 DEF IInv, Pending
      <4> QED BY <4>1, <4>2 DEF Pending
    <3> QED BY <3>1, <3>2
  <2> QED BY <2>2, <2>3, <2>5, <2>6 DEF IInv
<1> QED BY <1>1, <1>2, <1>3, <1>4, <1>5, <1>6, <1>7, <1>8, <1>9, <1>10, <1>11,
           <1>12, <1>13 DEF Next, Segment, Recovery

-----------------------------------------------------------------------------
\* The invariant holds in every reachable state, whatever the workflow.
THEOREM Invariance == Spec => []IInv
<1>1. Init => IInv
  BY InitInv
<1>2. IInv /\ [Next]_vars => IInv'
  BY StepInv
<1> QED BY <1>1, <1>2, PTL DEF Spec

\* Type correctness, and who waits when (the status of the execution and the
\* row of the waiting node change together).
THEOREM TypeCorrect == Spec => []TypeOK
<1>1. ASSUME IInv PROVE TypeOK
  <2>1. workflow \in Graphs
    BY <1>1, HereLemma DEF IInv
  <2>2. owed \subseteq Nodes /\ completed \subseteq Nodes
    BY <1>1 DEF IInv, Types, Enabled
  <2>3. waiting # NoNode => status \in {"waiting", "turn", "failed"}
    BY <1>1 DEF IInv, Shape
  <2> QED BY <1>1, <2>1, <2>2, <2>3 DEF IInv, Types, Shape, TypeOK
<1> QED BY <1>1, Invariance, PTL

\* The layout a walk uses is topological but for its back edges, each of which
\* closes a cycle, and the only one if there are none, for every graph and every
\* order of its rows (loadAndBuildGraph, identifyBackEdges, topologicalSort).
THEOREM LayoutAlwaysSound == Spec => []LayoutSound
<1>1. ASSUME IInv PROVE LayoutSound
  <2>1. workflow \in Workflows /\ layout \in workflow.layouts
    BY <1>1 DEF IInv, Types
  <2> QED BY <2>1, LayoutsRight, BackCloses, OneLayout DEF LayoutSound
<1> QED BY <1>1, Invariance, PTL

\* A walk that is not torn, and whose re-drives forgot no completed row, runs
\* exactly what was activated and has not run since, in every graph, wherever a
\* crash falls (runNodeDispatchLoop, resumeFromCheckpoint, driveStuckRedrive).
THEOREM WalkRunsWhatIsOwed == Spec => []RunsWhatIsOwed
<1>1. IInv => RunsWhatIsOwed
  BY DEF IInv, Agrees, Clean, RunsWhatIsOwed
<1> QED BY <1>1, Invariance, PTL

\* A walk neither torn nor sent back runs no node again whose completion is in
\* its row and in the path log, whatever parks and crashes come between and
\* whatever else a re-drive forgot (skipExecutedNodes, resumeFromCheckpoint).
THEOREM WalkRunsOnce == Spec => RunsOnce
<1> DEFINE Once == ~looped /\ ~torn /\ status = "running"
                     /\ status' \in {"saved", "asking", "failed"} => Here \notin Executed
<1>1. ASSUME IInv, [Next]_vars PROVE [Once]_vars
  <2>1. SUFFICES ASSUME Next, ~looped, ~torn, status = "running",
                        status' \in {"saved", "asking", "failed"}
                 PROVE  Here \notin Executed
    BY <1>1
  <2>2. AtNode
    BY <2>1 DEF Next, Segment, Recovery, PassOver, ExceedLimit, handleDisabledNode,
                NodeFails, executeNode, appendExecutionPath, NodeAsks, Runs,
                dispatchParkEntry, Complete, TurnParksAgain, driveResumeAwaited, TurnFails,
                driveStuckRedrive, RedriveFails, resumeFromCheckpoint, Crash
  <2>3. Idx(Here) = pointer /\ ~(skipping /\ Here \in done) /\ pointer \in Nat
    BY <1>1, <2>2, AtNodeLemma DEF IInv, Types
  <2>4. CASE skipping
    BY <1>1, <2>3, <2>4 DEF IInv, RecordSkipped
  <2>5. CASE ~skipping
    <3>1. \A m \in Executed : Idx(m) < pointer
      BY <1>1, <2>1, <2>5 DEF IInv, RecordBehind
    <3> QED BY <2>3, <3>1
  <2> QED BY <2>4, <2>5
<1> QED BY <1>1, Invariance, PTL DEF Spec, RunsOnce
=============================================================================
