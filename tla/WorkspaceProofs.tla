---------------------------- MODULE WorkspaceProofs ----------------------------
(***************************************************************************)
(* The layout of Workspace stays whole, links move in lockstep, and what   *)
(* the last session ended with is what the next one restores, for any      *)
(* depth, any number of panes, and any symbols and groups.                 *)
(***************************************************************************)
EXTENDS Workspace, FiniteSetTheorems, SequenceTheorems, TLAPS

Path == Seq({0, 1})

\* q lies under the node s
Under(s, q) == Len(s) <= Len(q) /\ \A i \in 1 .. Len(s) : q[i] = s[i]

\* q leaves the way to p at its i-th split
Beside(p, i, q) ==
  /\ i <= Len(q) /\ q[i] = 1 - p[i]
  /\ \A j \in 1 .. i - 1 : q[j] = p[j]

\* q is the first leaf under the n-th node on the way to p
FirstUnder(p, n, q) ==
  /\ n <= Len(q)
  /\ \A j \in 1 .. n : q[j] = p[j]
  /\ \A j \in n + 1 .. Len(q) : q[j] = 0

\* The leaves of a full binary tree
FullTree(D) ==
  /\ D # {} /\ D \subseteq Path
  /\ \A p, q \in D : Under(p, q) => p = q
  /\ \A p \in D : \A i \in 1 .. Len(p) : \E q \in D : Beside(p, i, q)
  /\ \A p \in D : \A n \in 0 .. Len(p) : \E q \in D : FirstUnder(p, n, q)

Whole(t) ==
  /\ FullTree(DOMAIN t) /\ IsFiniteSet(DOMAIN t)
  /\ \A p \in DOMAIN t : t[p] \in Leaf

----------------------------------------------------------------------------
(* Paths *)

LEMMA PathFacts ==
  ASSUME NEW p \in Path
  PROVE  /\ Len(p) \in Nat /\ DOMAIN p = 1 .. Len(p)
         /\ \A i \in 1 .. Len(p) : p[i] \in {0, 1}
  BY DEF Path

LEMMA PathEqual ==
  ASSUME NEW p \in Path, NEW q \in Path, Len(p) = Len(q),
         \A i \in 1 .. Len(p) : p[i] = q[i]
  PROVE  p = q
  BY SeqEqual DEF Path

LEMMA PrefixIsUnder ==
  ASSUME NEW s \in Path, NEW q \in Path
  PROVE  IsPrefix(s, q) <=> Under(s, q)
<1> DEFINE a == SubSeq(s, 1, Len(s))
           b == SubSeq(q, 1, Len(s))
<1>1. a = s
  BY SubSeqFull DEF Path
<1>2. ASSUME Len(s) <= Len(q)
      PROVE  b \in Path /\ Len(b) = Len(s) /\ \A i \in 1 .. Len(s) : b[i] = q[i]
  BY <1>2, PathFacts DEF Path
<1>3. CASE ~(Len(s) <= Len(q))
  BY <1>3 DEF IsPrefix, Under
<1>4. CASE Len(s) <= Len(q)
  <2>1. IsPrefix(s, q) <=> s = b
    BY <1>1, <1>4 DEF IsPrefix
  <2>2. s = b <=> \A i \in 1 .. Len(s) : s[i] = b[i]
    BY <1>2, <1>4, PathEqual
  <2> QED BY <2>1, <2>2, <1>2, <1>4 DEF Under
<1> QED BY <1>3, <1>4

LEMMA FlipFacts ==
  ASSUME NEW p \in Path, NEW i \in 1 .. Len(p)
  PROVE  /\ Flip(p, i) \in Path /\ Len(Flip(p, i)) = i
         /\ \A j \in 1 .. i - 1 : Flip(p, i)[j] = p[j]
         /\ Flip(p, i)[i] = 1 - p[i]
<1> DEFINE a == SubSeq(p, 1, i)
<1>1. a \in Path /\ Len(a) = i /\ \A j \in 1 .. i : a[j] = p[j]
  BY PathFacts DEF Path
<1>2. 1 - a[i] \in {0, 1}
  BY <1>1, PathFacts
<1>3. Flip(p, i) = [a EXCEPT ![i] = 1 - a[i]]
  BY DEF Flip
<1> HIDE DEF a
<1>4. /\ [a EXCEPT ![i] = 1 - a[i]] \in Seq({0, 1})
      /\ Len([a EXCEPT ![i] = 1 - a[i]]) = Len(a)
      /\ \A j \in 1 .. Len(a) :
           [a EXCEPT ![i] = 1 - a[i]][j] = IF j = i THEN 1 - a[i] ELSE a[j]
  BY <1>1, <1>2, ExceptSeq DEF Path
<1> QED BY <1>1, <1>3, <1>4 DEF Path

LEMMA FlipIsBeside ==
  ASSUME NEW p \in Path, NEW i \in 1 .. Len(p), NEW q \in Path
  PROVE  IsPrefix(Flip(p, i), q) <=> Beside(p, i, q)
<1> DEFINE f == Flip(p, i)
<1>1. /\ f \in Path /\ Len(f) = i /\ f[i] = 1 - p[i]
      /\ \A j \in 1 .. i - 1 : f[j] = p[j]
  BY FlipFacts
<1>2. Len(p) \in Nat /\ Len(q) \in Nat
  BY PathFacts
<1> HIDE DEF f
<1>3. Under(f, q) <=> Beside(p, i, q)
  BY <1>1, <1>2 DEF Under, Beside
<1> QED BY <1>1, <1>3, PrefixIsUnder DEF f

\* What the module calls a layout is a full tree of leaves
LEMMA WholeIsLayout ==
  ASSUME NEW t, Whole(t)
  PROVE  IsLayout(t)
<1>1. /\ DOMAIN t # {}
      /\ \A p \in DOMAIN t : p \in Path /\ t[p] \in Leaf
  BY DEF Whole, FullTree
<1>2. ASSUME NEW p \in DOMAIN t, NEW q \in DOMAIN t
      PROVE  ~IsStrictPrefix(p, q)
  BY <1>1, <1>2, PrefixIsUnder DEF IsStrictPrefix, Whole, FullTree
<1>3. ASSUME NEW p \in DOMAIN t, NEW i \in DOMAIN p
      PROVE  \E q \in DOMAIN t : IsPrefix(Flip(p, i), q)
  <2>1. i \in 1 .. Len(p)
    BY <1>1, PathFacts
  <2>2. PICK q \in DOMAIN t : Beside(p, i, q)
    BY <2>1 DEF Whole, FullTree
  <2> QED BY <1>1, <2>1, <2>2, FlipIsBeside
<1> QED BY <1>1, <1>2, <1>3 DEF IsLayout, Path

\* firstLeafId finds a pane
LEMMA FirstIsALeaf ==
  ASSUME NEW t, Whole(t)
  PROVE  First(t) \in DOMAIN t
<1>1. PICK p \in DOMAIN t : TRUE
  BY DEF Whole, FullTree
<1>2. p \in Path /\ 0 \in 0 .. Len(p)
  BY PathFacts DEF Whole, FullTree
<1>3. PICK q \in DOMAIN t : FirstUnder(p, 0, q)
  BY <1>2 DEF Whole, FullTree
<1>4. \A i \in DOMAIN q : q[i] = 0
  BY <1>3, PathFacts DEF FirstUnder, Whole, FullTree
<1> QED BY <1>4 DEF First

----------------------------------------------------------------------------
(* Every edit maps whole layouts to whole layouts *)

LEMMA SameLeavesWhole ==
  ASSUME NEW t, NEW u, Whole(t), DOMAIN u = DOMAIN t,
         \A p \in DOMAIN t : u[p] \in Leaf
  PROVE  Whole(u)
  BY DEF Whole

LEMMA LinkAllWhole ==
  ASSUME NEW t, Whole(t), NEW g \in Groups \cup {None}
  PROVE  Whole(LinkAll(t, g))
<1>1. ASSUME NEW p \in DOMAIN t
      PROVE  [t[p] EXCEPT !.group = g] \in Leaf
  BY DEF Whole, Leaf
<1> QED BY <1>1, SameLeavesWhole DEF LinkAll

LEMMA RelinkWhole ==
  ASSUME NEW t, Whole(t), NEW p \in DOMAIN t, NEW g \in Groups \cup {None}
  PROVE  Whole([t EXCEPT ![p].group = g])
<1> DEFINE u == [t EXCEPT ![p].group = g]
<1>1. [t[p] EXCEPT !.group = g] \in Leaf
  BY DEF Whole, Leaf
<1>2. DOMAIN u = DOMAIN t
  OBVIOUS
<1>3. ASSUME NEW q \in DOMAIN t PROVE u[q] \in Leaf
  <2>1. u[q] = IF q = p THEN [t[p] EXCEPT !.group = g] ELSE t[q]
    OBVIOUS
  <2> QED BY <1>1, <2>1 DEF Whole
<1> HIDE DEF u
<1>4. Whole(u)
  BY <1>2, <1>3, SameLeavesWhole
<1> QED BY <1>4 DEF u

LEMMA RetargetFacts ==
  ASSUME NEW t, Whole(t), NEW p \in DOMAIN t, NEW s \in Symbols \cup {None}
  PROVE  /\ Whole(Retarget(t, p, s)) /\ DOMAIN Retarget(t, p, s) = DOMAIN t
         /\ \A q \in DOMAIN t :
              /\ Retarget(t, p, s)[q].group = t[q].group
              /\ q = p \/ (s # None /\ q \in Reached(t, p)) =>
                   Retarget(t, p, s)[q].symbol = s
              /\ q # p /\ (s = None \/ q \notin Reached(t, p)) =>
                   Retarget(t, p, s)[q] = t[q]
<1> DEFINE u == Retarget(t, p, s)
<1>1. DOMAIN u = DOMAIN t
  BY DEF Retarget
<1>2. ASSUME NEW q \in DOMAIN t
      PROVE  /\ [t[q] EXCEPT !.symbol = s] \in Leaf
             /\ [t[q] EXCEPT !.symbol = s].group = t[q].group
             /\ [t[q] EXCEPT !.symbol = s].symbol = s
  BY DEF Whole, Leaf
<1>3. ASSUME NEW q \in DOMAIN t
      PROVE  u[q] = IF q = p \/ (s # None /\ q \in Reached(t, p))
                    THEN [t[q] EXCEPT !.symbol = s] ELSE t[q]
  BY DEF Retarget
<1> HIDE DEF u
<1>4. \A q \in DOMAIN t : u[q] \in Leaf
  BY <1>2, <1>3 DEF Whole
<1>5. Whole(u)
  BY <1>1, <1>4, SameLeavesWhole
<1> QED BY <1>1, <1>2, <1>3, <1>5 DEF u

LEMMA DefaultWhole == Whole(Default) /\ <<>> \in DOMAIN Default
<1>1. DOMAIN Default = {<<>>}
  BY DEF Default
<1>2. <<>> \in Path /\ Len(<<>>) = 0
  BY DEF Path
<1>3. FullTree({<<>>})
  BY <1>2 DEF FullTree, FirstUnder
<1>4. IsFiniteSet({<<>>})
  BY FS_Singleton
<1> QED BY <1>1, <1>3, <1>4 DEF Whole, Default, Leaf

LEMMA DeskWhole ==
  ASSUME NEW s \in Symbols, NEW g \in Groups
  PROVE  Whole(Desk(s, g))
<1> DEFINE a == <<0>>
           b == <<1, 0>>
           c == <<1, 1>>
           D == {a, b, c}
<1>1. DOMAIN Desk(s, g) = D
  BY DEF Desk
<1>2. /\ a \in Path /\ Len(a) = 1 /\ a[1] = 0
      /\ b \in Path /\ Len(b) = 2 /\ b[1] = 1 /\ b[2] = 0
      /\ c \in Path /\ Len(c) = 2 /\ c[1] = 1 /\ c[2] = 1
  BY DEF Path
<1>3. IsFiniteSet(D)
  <2>1. IsFiniteSet({a})
    BY FS_Singleton
  <2>2. IsFiniteSet({a} \cup {b})
    BY <2>1, FS_AddElement
  <2>3. IsFiniteSet({a} \cup {b} \cup {c})
    BY <2>2, FS_AddElement
  <2>4. {a} \cup {b} \cup {c} = D
    OBVIOUS
  <2> QED BY <2>3, <2>4
<1>4. \A p \in D : Desk(s, g)[p] \in Leaf
  BY DEF Desk, Leaf
<1> HIDE DEF a, b, c
<1>5. ~Under(a, b) /\ ~Under(a, c) /\ ~Under(b, a) /\ ~Under(b, c)
      /\ ~Under(c, a) /\ ~Under(c, b)
  <2>1. 1 \in 1 .. Len(a) /\ 1 \in 1 .. Len(b) /\ 1 \in 1 .. Len(c)
        /\ 2 \in 1 .. Len(b) /\ 2 \in 1 .. Len(c)
    BY <1>2
  <2> QED BY <1>2, <2>1 DEF Under
<1>6. /\ 1 .. Len(a) = {1} /\ 1 .. Len(b) = {1, 2} /\ 1 .. Len(c) = {1, 2}
      /\ 0 .. Len(a) = {0, 1} /\ 0 .. Len(b) = {0, 1, 2} /\ 0 .. Len(c) = {0, 1, 2}
      /\ 1 .. 1 - 1 = {} /\ 1 .. 2 - 1 = {1} /\ 1 .. 0 = {}
      /\ 1 + 1 .. 1 = {} /\ 1 + 1 .. 2 = {2} /\ 2 + 1 .. 2 = {} /\ 0 + 1 .. 1 = {1}
  BY <1>2
<1>7. /\ Beside(a, 1, b)
      /\ Beside(b, 1, a) /\ Beside(b, 2, c)
      /\ Beside(c, 1, a) /\ Beside(c, 2, b)
  BY <1>2, <1>6 DEF Beside
<1>8. /\ FirstUnder(a, 0, a) /\ FirstUnder(a, 1, a)
      /\ FirstUnder(b, 0, a) /\ FirstUnder(b, 1, b) /\ FirstUnder(b, 2, b)
      /\ FirstUnder(c, 0, a) /\ FirstUnder(c, 1, b) /\ FirstUnder(c, 2, c)
  BY <1>2, <1>6 DEF FirstUnder
<1>9. \A p, q \in D : Under(p, q) => p = q
  BY <1>5
<1>10. \A p \in D : \A i \in 1 .. Len(p) : \E q \in D : Beside(p, i, q)
  BY <1>6, <1>7
<1>11. \A p \in D : \A n \in 0 .. Len(p) : \E q \in D : FirstUnder(p, n, q)
  BY <1>6, <1>8
<1>12. FullTree(D)
  BY <1>2, <1>9, <1>10, <1>11 DEF FullTree
<1> QED BY <1>1, <1>3, <1>4, <1>12 DEF Whole

LEMMA ChildFacts ==
  ASSUME NEW p \in Path, NEW k \in {0, 1}
  PROVE  /\ p \o <<k>> \in Path /\ Len(p \o <<k>>) = Len(p) + 1
         /\ \A j \in 1 .. Len(p) : (p \o <<k>>)[j] = p[j]
         /\ (p \o <<k>>)[Len(p) + 1] = k
  BY PathFacts DEF Path

LEMMA SplitTree ==
  ASSUME NEW D, FullTree(D), NEW p \in D, NEW l \in Path, NEW r \in Path,
         Len(l) = Len(p) + 1, Len(r) = Len(p) + 1,
         \A j \in 1 .. Len(p) : l[j] = p[j],
         \A j \in 1 .. Len(p) : r[j] = p[j],
         l[Len(p) + 1] = 0, r[Len(p) + 1] = 1
  PROVE  FullTree((D \ {p}) \cup {l, r})
<1> DEFINE n == Len(p)
           E == (D \ {p}) \cup {l, r}
<1>1. D \subseteq Path /\ p \in Path /\ n \in Nat /\ Len(l) = n + 1 /\ Len(r) = n + 1
  BY PathFacts DEF FullTree
<1>2. \A q \in Path : Len(q) \in Nat
  BY PathFacts
<1>3. ASSUME NEW q \in Path, Under(p, q), Len(q) > n
      PROVE  Under(l, q) \/ Under(r, q)
  <2>1. q[n + 1] \in {0, 1}
    BY <1>1, <1>2, <1>3, PathFacts
  <2> QED BY <1>1, <1>2, <1>3, <2>1 DEF Under
<1>4. ASSUME NEW q \in Path, Under(l, q) \/ Under(r, q)
      PROVE  Under(p, q)
  BY <1>1, <1>2, <1>4 DEF Under
<1>5. \A a, b \in E : Under(a, b) => a = b
  <2> SUFFICES ASSUME NEW a \in E, NEW b \in E, Under(a, b) PROVE a = b
    OBVIOUS
  <2>0. a \in Path /\ b \in Path
    BY <1>1
  <2>1. CASE a \in D \ {p} /\ b \in D \ {p}
    BY <2>1 DEF FullTree
  <2>2. CASE a \in {l, r} /\ b \in D \ {p}
    BY <2>2, <1>4, <2>0 DEF FullTree
  <2>3. CASE a \in D \ {p} /\ b \in {l, r}
    <3>1. Under(a, p) \/ Under(p, a)
      BY <2>0, <2>3, <1>1, <1>2 DEF Under
    <3> QED BY <3>1, <2>3 DEF FullTree
  <2>4. CASE a \in {l, r} /\ b \in {l, r}
    BY <2>4, <1>1 DEF Under
  <2> QED BY <2>1, <2>2, <2>3, <2>4
<1>6. \A a \in E : \A i \in 1 .. Len(a) : \E b \in E : Beside(a, i, b)
  <2> SUFFICES ASSUME NEW a \in E, NEW i \in 1 .. Len(a)
               PROVE  \E b \in E : Beside(a, i, b)
    OBVIOUS
  <2>0. a \in Path /\ Len(a) \in Nat
    BY <1>1, <1>2
  <2>1. CASE a \in D
    <3>1. PICK b \in D : Beside(a, i, b)
      BY <2>1 DEF FullTree
    <3>2. CASE b # p
      BY <3>1, <3>2
    <3>3. CASE b = p
      <4>1. Beside(a, i, l)
        BY <3>1, <3>3, <1>1, <2>0 DEF Beside
      <4> QED BY <4>1
    <3> QED BY <3>2, <3>3
  <2>2. CASE a \in {l, r} /\ i = n + 1
    <3>1. Beside(l, n + 1, r) /\ Beside(r, n + 1, l)
      BY <1>1 DEF Beside
    <3> QED BY <2>2, <3>1
  <2>3. CASE a \in {l, r} /\ i # n + 1
    <3>1. i \in 1 .. n
      BY <2>3, <1>1
    <3>2. PICK b \in D : Beside(p, i, b)
      BY <3>1 DEF FullTree
    <3>3. b # p
      BY <3>1, <3>2, <1>1, PathFacts DEF Beside
    <3>4. Beside(a, i, b)
      BY <3>1, <3>2, <2>3, <1>1 DEF Beside
    <3> QED BY <3>3, <3>4
  <2> QED BY <2>1, <2>2, <2>3
<1>7. \A a \in E : \A m \in 0 .. Len(a) : \E b \in E : FirstUnder(a, m, b)
  <2> SUFFICES ASSUME NEW a \in E, NEW m \in 0 .. Len(a)
               PROVE  \E b \in E : FirstUnder(a, m, b)
    OBVIOUS
  <2>0. a \in Path /\ Len(a) \in Nat
    BY <1>1, <1>2
  <2>1. ASSUME NEW c \in D, m \in 0 .. Len(c), \A j \in 1 .. m : c[j] = a[j]
        PROVE  \E b \in E : FirstUnder(a, m, b)
    <3>1. PICK b \in D : FirstUnder(c, m, b)
      BY <2>1 DEF FullTree
    <3>2. CASE b # p
      <4>1. FirstUnder(a, m, b)
        BY <3>1, <2>1 DEF FirstUnder
      <4> QED BY <3>2, <4>1
    <3>3. CASE b = p
      <4>1. FirstUnder(a, m, l)
        BY <3>1, <3>3, <2>1, <1>1 DEF FirstUnder
      <4> QED BY <4>1
    <3> QED BY <3>2, <3>3
  <2>2. CASE a \in D
    BY <2>1, <2>2
  <2>3. CASE a \in {l, r} /\ m = n + 1
    <3>1. FirstUnder(a, m, a)
      BY <2>3, <1>1 DEF FirstUnder
    <3> QED BY <3>1
  <2>4. CASE a \in {l, r} /\ m # n + 1
    <3>1. m \in 0 .. n
      BY <2>4, <1>1
    <3> QED BY <3>1, <2>1, <2>4, <1>1
  <2> QED BY <2>2, <2>3, <2>4
<1> QED BY <1>1, <1>5, <1>6, <1>7 DEF FullTree

LEMMA SplitWhole ==
  ASSUME NEW t, Whole(t), NEW p \in DOMAIN t
  PROVE  Whole(SplitAt(t, p)) /\ p \o <<1>> \in DOMAIN SplitAt(t, p)
<1> DEFINE l == p \o <<0>>
           r == p \o <<1>>
           E == (DOMAIN t \ {p}) \cup {l, r}
           u == SplitAt(t, p)
<1>0. p \in Path
  BY DEF Whole, FullTree
<1>1. FullTree(E)
  <2>1. /\ l \in Path /\ Len(l) = Len(p) + 1 /\ l[Len(p) + 1] = 0
        /\ \A j \in 1 .. Len(p) : l[j] = p[j]
    BY <1>0, ChildFacts
  <2>2. /\ r \in Path /\ Len(r) = Len(p) + 1 /\ r[Len(p) + 1] = 1
        /\ \A j \in 1 .. Len(p) : r[j] = p[j]
    BY <1>0, ChildFacts
  <2> HIDE DEF l, r
  <2> QED BY <2>1, <2>2, SplitTree DEF Whole
<1>2. DOMAIN u = E
  BY DEF SplitAt
<1>3. \A q \in E : u[q] \in Leaf
  BY DEF SplitAt, Whole, Leaf
<1>4. IsFiniteSet(E)
  <2>1. IsFiniteSet(DOMAIN t \ {p})
    BY FS_RemoveElement DEF Whole
  <2>2. IsFiniteSet((DOMAIN t \ {p}) \cup {l})
    BY <2>1, FS_AddElement
  <2>3. IsFiniteSet(((DOMAIN t \ {p}) \cup {l}) \cup {r})
    BY <2>2, FS_AddElement
  <2>4. E = ((DOMAIN t \ {p}) \cup {l}) \cup {r}
    OBVIOUS
  <2> QED BY <2>3, <2>4
<1> QED BY <1>1, <1>2, <1>3, <1>4 DEF Whole

\* z is the sibling of p, s their split, and drop[q] is q without its step
\* from s to z
Risen(p, s, z, q, d) ==
  /\ d \in Path /\ Len(d) = Len(q) - 1
  /\ \A j \in 1 .. Len(p) - 1 : d[j] = q[j]
  /\ \A j \in Len(p) .. Len(q) - 1 : d[j] = q[j + 1]

LEMMA CloseTree ==
  ASSUME NEW D, FullTree(D), NEW p \in D, Len(p) >= 1,
         NEW s \in Path, Len(s) = Len(p) - 1, \A j \in 1 .. Len(s) : s[j] = p[j],
         NEW z \in Path, Len(z) = Len(p), z[Len(p)] = 1 - p[Len(p)],
         \A j \in 1 .. Len(s) : z[j] = p[j],
         NEW drop,
         \A q \in D : Under(z, q) => Risen(p, s, z, q, drop[q])
  PROVE  FullTree({q \in D : ~Under(s, q)} \cup {drop[q] : q \in {q \in D : Under(z, q)}})
<1> DEFINE n == Len(p)
           G == {q \in D : Under(z, q)}
           E == {q \in D : ~Under(s, q)} \cup {drop[q] : q \in G}
<1>1. D \subseteq Path /\ p \in Path /\ n \in Nat /\ n >= 1
  BY PathFacts DEF FullTree
<1>2. \A q \in Path : Len(q) \in Nat /\ \A j \in 1 .. Len(q) : q[j] \in {0, 1}
  BY PathFacts
<1>3. ASSUME NEW q \in D, Under(s, q), q # p
      PROVE  q \in G
  <2>1. ~Under(q, p) /\ ~Under(p, q)
    BY <1>3 DEF FullTree
  <2>2. Len(q) >= n
    BY <1>1, <1>2, <1>3, <2>1 DEF Under
  <2>3. q[n] # p[n]
    BY <1>1, <1>2, <1>3, <2>1, <2>2 DEF Under
  <2>4. q[n] = z[n]
    BY <1>1, <1>2, <2>2, <2>3
  <2>5. Under(z, q)
    BY <1>1, <1>2, <1>3, <2>2, <2>4 DEF Under
  <2> QED BY <2>5
<1>4. PICK g \in G : TRUE
  <2>1. PICK q \in D : Beside(p, n, q)
    BY <1>1 DEF FullTree
  <2>2. Under(z, q)
    BY <2>1, <1>1, <1>2 DEF Under, Beside
  <2> QED BY <2>2
<1>5. ASSUME NEW q \in G
      PROVE  /\ q \in D /\ q \in Path /\ drop[q] \in Path /\ drop[q] \in E
             /\ Len(q) \in Nat /\ Len(q) >= n /\ Len(drop[q]) = Len(q) - 1
             /\ \A j \in 1 .. n - 1 : q[j] = s[j] /\ drop[q][j] = s[j]
             /\ q[n] = z[n]
             /\ \A j \in n .. Len(q) - 1 : drop[q][j] = q[j + 1]
  <2>1. Under(z, q) /\ Risen(p, s, z, q, drop[q]) /\ q \in Path
    BY <1>1, <1>5
  <2> QED BY <2>1, <1>1, <1>2, <1>5 DEF Under, Risen
<1>6. ASSUME NEW q \in G PROVE Under(s, drop[q]) /\ Under(s, q)
  BY <1>5, <1>1 DEF Under
<1> HIDE DEF G
<1>7. E \subseteq Path /\ E # {}
  BY <1>1, <1>4, <1>5
<1>8. \A a, b \in E : Under(a, b) => a = b
  <2> SUFFICES ASSUME NEW a \in E, NEW b \in E, Under(a, b) PROVE a = b
    OBVIOUS
  <2>0. a \in Path /\ b \in Path /\ Len(a) \in Nat /\ Len(b) \in Nat
    BY <1>7, <1>2
  <2>1. CASE a \in D /\ b \in D
    BY <2>1 DEF FullTree
  <2>2. CASE a \in D /\ ~Under(s, a) /\ \E q \in G : b = drop[q]
    <3>1. Under(s, b)
      BY <2>2, <1>6
    <3>2. Under(a, s)
      BY <3>1, <2>0, <2>2, <1>1, <1>2 DEF Under
    <3>3. Under(a, p) /\ Len(a) < n
      BY <3>2, <2>0, <1>1, <1>2 DEF Under
    <3>4. a = p
      BY <3>3, <2>2 DEF FullTree
    <3> QED BY <3>3, <3>4, <1>1
  <2>3. CASE b \in D /\ ~Under(s, b) /\ \E q \in G : a = drop[q]
    <3>1. Under(s, a)
      BY <2>3, <1>6
    <3>2. Under(s, b)
      BY <3>1, <2>0, <1>1, <1>2 DEF Under
    <3> QED BY <3>2, <2>3
  <2>4. CASE (\E q \in G : a = drop[q]) /\ (\E q \in G : b = drop[q])
    <3>1. PICK q \in G : a = drop[q]
      BY <2>4
    <3>2. PICK r \in G : b = drop[r]
      BY <2>4
    <3>3. ASSUME NEW j \in 1 .. Len(q) PROVE r[j] = q[j]
      <4>1. CASE j < n
        BY <4>1, <1>1, <1>5, SMTT(30)
      <4>2. CASE j = n
        BY <4>2, <1>5
      <4>3. CASE j > n
        <5>1. j - 1 \in n .. Len(q) - 1 /\ j - 1 \in 1 .. Len(a)
          BY <4>3, <1>1, <1>5, <3>1
        <5>2. b[j - 1] = a[j - 1] /\ j - 1 \in n .. Len(r) - 1
          BY <5>1, <1>1, <1>5, <2>0, <3>1, <3>2, SMTT(30) DEF Under
        <5>3. a[j - 1] = q[j - 1 + 1] /\ b[j - 1] = r[j - 1 + 1]
          BY <5>1, <5>2, <1>5, <3>1, <3>2
        <5> QED BY <5>2, <5>3, <1>1, <1>5
      <4> QED BY <4>1, <4>2, <4>3, <1>1, <1>5
    <3>4. Under(q, r)
      BY <3>1, <3>2, <3>3, <1>5 DEF Under
    <3> QED BY <3>1, <3>2, <3>4, <1>5 DEF FullTree
  <2> QED BY <2>1, <2>2, <2>3, <2>4
<1>9. \A a \in E : \A i \in 1 .. Len(a) : \E b \in E : Beside(a, i, b)
  <2> SUFFICES ASSUME NEW a \in E, NEW i \in 1 .. Len(a)
               PROVE  \E b \in E : Beside(a, i, b)
    OBVIOUS
  <2>0. a \in Path /\ Len(a) \in Nat
    BY <1>7, <1>2
  <2>1. CASE a \in D /\ ~Under(s, a)
    <3>1. PICK b \in D : Beside(a, i, b)
      BY <2>1 DEF FullTree
    <3>2. CASE ~Under(s, b)
      BY <3>1, <3>2
    <3>3. CASE Under(s, b)
      <4>1. i < n
        BY <3>1, <3>3, <2>0, <2>1, <1>1, <1>2 DEF Under, Beside
      <4>2. \A j \in 1 .. n - 1 : drop[g][j] = b[j]
        BY <3>3, <1>1, <1>5 DEF Under
      <4>3. Beside(a, i, drop[g])
        BY <3>1, <4>1, <4>2, <1>1, <1>5, <2>0 DEF Beside
      <4> QED BY <4>3, <1>5
    <3> QED BY <3>2, <3>3
  <2>2. CASE \E q \in G : a = drop[q]
    <3>1. PICK q \in G : a = drop[q]
      BY <2>2
    <3>2. CASE i < n
      <4>0. /\ i \in 1 .. Len(q) /\ i \in 1 .. Len(s) /\ q \in D
            /\ \A j \in 1 .. n - 1 : a[j] = q[j] /\ q[j] = s[j] /\ a[j] \in {0, 1}
        BY <3>1, <3>2, <1>1, <1>2, <1>5, <2>0
      <4>1. PICK b \in D : Beside(q, i, b)
        BY <4>0 DEF FullTree
      <4>2. b[i] # s[i] /\ i \in 1 .. Len(s)
        <5>1. q[i] = s[i] /\ q[i] \in {0, 1} /\ b[i] = 1 - q[i]
          BY <4>0, <4>1, <1>2, <1>5 DEF Beside
        <5> QED BY <4>0, <5>1
      <4>3. ~Under(s, b)
        BY <4>2 DEF Under
      <4>4. Beside(a, i, b)
        <5>1. i \in 1 .. n - 1 /\ \A j \in 1 .. i - 1 : j \in 1 .. n - 1
          BY <3>2, <1>1, <2>0
        <5> QED BY <4>0, <4>1, <5>1 DEF Beside
      <4> QED BY <4>1, <4>3, <4>4
    <3>3. CASE i >= n
      <4>1. i + 1 \in 1 .. Len(q)
        BY <3>1, <3>3, <1>1, <1>5, <2>0
      <4>2. PICK b \in D : Beside(q, i + 1, b)
        BY <4>1, <1>5 DEF FullTree
      <4>3. Under(z, b)
        <5>1. Len(z) <= Len(b) /\ \A j \in 1 .. Len(z) : j \in 1 .. (i + 1) - 1
          BY <4>1, <4>2, <3>3, <1>1, <1>2 DEF Beside
        <5>2. \A j \in 1 .. Len(z) : b[j] = q[j]
          BY <4>2, <5>1 DEF Beside
        <5>3. \A j \in 1 .. Len(z) : q[j] = z[j]
          BY DEF G, Under
        <5> QED BY <5>1, <5>2, <5>3 DEF Under
      <4>4. b \in G
        BY <4>3 DEF G
      <4>5. Beside(a, i, drop[b])
        <5>1. i <= Len(drop[b]) /\ i \in n .. Len(b) - 1 /\ i \in n .. Len(q) - 1
          BY <4>1, <4>2, <4>4, <3>3, <1>1, <1>5, <2>0 DEF Beside
        <5>2. drop[b][i] = 1 - a[i]
          BY <5>1, <4>2, <4>4, <3>1, <1>5 DEF Beside
        <5>3. ASSUME NEW j \in 1 .. i - 1 PROVE drop[b][j] = a[j]
          <6>1. CASE j < n
            BY <6>1, <3>1, <4>4, <1>1, <1>5
          <6>2. CASE j >= n
            <7>1. j \in n .. Len(b) - 1 /\ j \in n .. Len(q) - 1 /\ j + 1 \in 1 .. (i + 1) - 1
              BY <6>2, <5>1, <1>1, <2>0, <1>2, <1>5, <4>2
            <7>2. drop[b][j] = b[j + 1] /\ a[j] = q[j + 1]
              BY <7>1, <1>5, <4>4, <3>1
            <7>3. b[j + 1] = q[j + 1]
              BY <7>1, <4>2 DEF Beside
            <7> QED BY <7>2, <7>3
          <6> QED BY <6>1, <6>2, <1>1, <2>0
        <5> QED BY <5>1, <5>2, <5>3 DEF Beside
      <4> QED BY <4>4, <4>5, <1>5
    <3> QED BY <3>2, <3>3, <1>1, <2>0
  <2> QED BY <2>1, <2>2
<1>10. \A a \in E : \A m \in 0 .. Len(a) : \E b \in E : FirstUnder(a, m, b)
  <2> SUFFICES ASSUME NEW a \in E, NEW m \in 0 .. Len(a)
               PROVE  \E b \in E : FirstUnder(a, m, b)
    OBVIOUS
  <2>0. a \in Path /\ Len(a) \in Nat
    BY <1>7, <1>2
  \* the first leaf under node m of a lies under s: it is the first that rises
  <2>1. ASSUME NEW c \in D, FirstUnder(a, m, c), m < n - 1, Under(s, c)
        PROVE  \E b \in E : FirstUnder(a, m, b)
    <3>1. PICK r \in D : FirstUnder(g, n, r)
      BY <1>1, <1>5 DEF FullTree
    <3>2. Under(z, r)
      <4>1. Len(z) <= Len(r) /\ \A j \in 1 .. Len(z) : r[j] = g[j]
        BY <3>1 DEF FirstUnder
      <4>2. \A j \in 1 .. Len(z) : g[j] = z[j]
        BY DEF G, Under
      <4> QED BY <4>1, <4>2 DEF Under
    <3>3. r \in G
      BY <3>2 DEF G
    <3>4. ASSUME NEW j \in 1 .. m PROVE drop[r][j] = a[j]
      <4>1. j \in 1 .. n - 1 /\ j \in 1 .. Len(s)
        BY <2>1, <1>1, <2>0
      <4> QED BY <4>1, <2>1, <3>3, <1>5 DEF Under, FirstUnder
    <3>5. ASSUME NEW j \in m + 1 .. Len(drop[r]) PROVE drop[r][j] = 0
      <4>1. CASE j <= n - 1
        <5>1. j \in 1 .. n - 1 /\ j \in 1 .. Len(s)
          BY <4>1, <1>1, <2>0
        <5>2. Len(s) <= Len(c) /\ c[j] = s[j]
          BY <5>1, <2>1 DEF Under
        <5>3. j \in m + 1 .. Len(c)
          BY <5>1, <5>2, <1>1, <1>2
        <5> QED BY <5>1, <5>2, <5>3, <2>1, <3>3, <1>5 DEF FirstUnder
      <4>2. CASE j > n - 1
        <5>1. j \in n .. Len(r) - 1 /\ j + 1 \in n + 1 .. Len(r)
          BY <4>2, <3>3, <1>1, <1>5, <2>0
        <5> QED BY <5>1, <3>1, <3>3, <1>5 DEF FirstUnder
      <4> QED BY <4>1, <4>2, <1>1, <2>0
    <3>6. m <= Len(drop[r])
      BY <2>1, <3>3, <1>1, <1>5, <2>0
    <3>7. FirstUnder(a, m, drop[r])
      BY <3>4, <3>5, <3>6 DEF FirstUnder
    <3> QED BY <3>3, <3>7, <1>5
  <2>2. CASE a \in D /\ ~Under(s, a)
    <3>1. PICK c \in D : FirstUnder(a, m, c)
      BY <2>2 DEF FullTree
    <3>2. CASE ~Under(s, c)
      BY <3>1, <3>2
    <3>3. CASE Under(s, c)
      <4>1. m < n - 1
        BY <3>1, <3>3, <2>0, <2>2, <1>1, <1>2 DEF Under, FirstUnder
      <4> QED BY <2>1, <3>1, <3>3, <4>1
    <3> QED BY <3>2, <3>3
  <2>3. CASE \E q \in G : a = drop[q]
    <3>1. PICK q \in G : a = drop[q]
      BY <2>3
    <3>2. CASE m < n - 1
      <4>0. m \in 0 .. Len(q) /\ q \in D
        BY <3>1, <3>2, <1>1, <1>5, <2>0
      <4>1. PICK c \in D : FirstUnder(q, m, c)
        BY <4>0 DEF FullTree
      <4>2. FirstUnder(a, m, c)
        BY <4>1, <3>1, <3>2, <1>1, <1>5, <2>0, SMTT(30) DEF FirstUnder
      <4>3. CASE ~Under(s, c)
        BY <4>2, <4>3
      <4>4. CASE Under(s, c)
        BY <2>1, <3>2, <4>2, <4>4
      <4> QED BY <4>3, <4>4
    <3>3. CASE m >= n - 1
      <4>1. m + 1 \in 0 .. Len(q)
        BY <3>1, <1>1, <1>5, <2>0
      <4>2. PICK c \in D : FirstUnder(q, m + 1, c)
        BY <4>1, <1>5 DEF FullTree
      <4>3. Under(z, c)
        <5>1. Len(z) <= Len(c) /\ \A j \in 1 .. Len(z) : j \in 1 .. m + 1
          BY <4>1, <4>2, <3>3, <1>1, <1>2 DEF FirstUnder
        <5>2. \A j \in 1 .. Len(z) : c[j] = q[j]
          BY <4>2, <5>1 DEF FirstUnder
        <5>3. \A j \in 1 .. Len(z) : q[j] = z[j]
          BY DEF G, Under
        <5> QED BY <5>1, <5>2, <5>3 DEF Under
      <4>4. c \in G
        BY <4>3 DEF G
      <4>5. ASSUME NEW j \in 1 .. m PROVE drop[c][j] = a[j]
        <5>1. CASE j < n
          <6>1. j \in 1 .. n - 1
            BY <5>1, <1>1
          <6> QED BY <6>1, <3>1, <4>4, <1>5
        <5>2. CASE j >= n
          <6>1. /\ j \in n .. Len(c) - 1 /\ j \in n .. Len(q) - 1
                /\ j + 1 \in 1 .. m + 1
            BY <5>2, <4>1, <4>2, <1>1, <1>2, <1>5, <2>0 DEF FirstUnder
          <6>2. drop[c][j] = c[j + 1] /\ a[j] = q[j + 1]
            BY <6>1, <1>5, <4>4, <3>1
          <6>3. c[j + 1] = q[j + 1]
            BY <6>1, <4>2 DEF FirstUnder
          <6> QED BY <6>2, <6>3
        <5> QED BY <5>1, <5>2, <1>1, <2>0
      <4>6. ASSUME NEW j \in m + 1 .. Len(drop[c]) PROVE drop[c][j] = 0
        <5>1. j \in n .. Len(c) - 1 /\ j + 1 \in (m + 1) + 1 .. Len(c)
          BY <3>3, <4>4, <1>1, <1>5, <2>0, SMTT(30)
        <5> QED BY <5>1, <4>2, <4>4, <1>5 DEF FirstUnder
      <4>7. m <= Len(drop[c])
        BY <4>2, <4>4, <1>1, <1>5, <2>0 DEF FirstUnder
      <4>8. FirstUnder(a, m, drop[c])
        BY <4>5, <4>6, <4>7 DEF FirstUnder
      <4> QED BY <4>4, <4>8, <1>5
    <3> QED BY <3>2, <3>3, <1>1, <2>0
  <2> QED BY <2>2, <2>3
<1>11. FullTree(E)
  BY <1>7, <1>8, <1>9, <1>10 DEF FullTree
<1> QED BY <1>11 DEF G

LEMMA FrontFacts ==
  ASSUME NEW p \in Path, Len(p) >= 1
  PROVE  /\ Front(p) \in Path /\ Len(Front(p)) = Len(p) - 1
         /\ \A j \in 1 .. Len(p) - 1 : Front(p)[j] = p[j]
<1> DEFINE n == Len(p) - 1
<1>1. Len(p) \in Nat /\ n \in Nat /\ \A j \in 1 .. n : p[j] \in {0, 1}
  BY PathFacts
<1>2. /\ SubSeq(p, 1, n) \in Path
      /\ Len(SubSeq(p, 1, n)) = IF 1 <= n THEN n - 1 + 1 ELSE 0
      /\ \A j \in 1 .. n - 1 + 1 : SubSeq(p, 1, n)[j] = p[1 + j - 1]
  BY <1>1, SubSeqProperties DEF Path
<1>3. Front(p) = SubSeq(p, 1, n)
  BY DEF Front
<1>4. Len(SubSeq(p, 1, n)) = n
  <2> DEFINE k == Len(SubSeq(p, 1, n))
  <2>1. k = IF 1 <= n THEN n - 1 + 1 ELSE 0
    BY <1>2
  <2>2. n \in Nat
    BY <1>1
  <2> HIDE DEF k, n
  <2> QED BY <2>1, <2>2 DEF k
<1>5. ASSUME NEW j \in 1 .. n PROVE SubSeq(p, 1, n)[j] = p[j]
  <2>1. j \in 1 .. n - 1 + 1 /\ 1 + j - 1 = j
    BY <1>1
  <2> QED BY <2>1, <1>2
<1> QED BY <1>2, <1>3, <1>4, <1>5

LEMMA JoinFacts ==
  ASSUME NEW a \in Path, NEW b \in Path
  PROVE  /\ a \o b \in Path /\ Len(a \o b) = Len(a) + Len(b)
         /\ \A j \in 1 .. Len(a) + Len(b) :
              (a \o b)[j] = IF j <= Len(a) THEN a[j] ELSE b[j - Len(a)]
  BY ConcatProperties DEF Path

LEMMA RisenFacts ==
  ASSUME NEW p \in Path, Len(p) >= 1, NEW q \in Path, Under(Flip(p, Len(p)), q)
  PROVE  LET d == Front(p) \o SubSeq(q, Len(p) + 1, Len(q))
         IN  /\ Risen(p, Front(p), Flip(p, Len(p)), q, d)
             /\ Flip(p, Len(p)) \o SubSeq(d, Len(Front(p)) + 1, Len(d)) = q
<1> DEFINE n == Len(p)
           z == Flip(p, n)
           s == Front(p)
           w == SubSeq(q, n + 1, Len(q))
           d == s \o w
           x == SubSeq(d, Len(s) + 1, Len(d))
<1>1. n \in Nat /\ n >= 1 /\ Len(q) \in Nat
  BY PathFacts
<1>2. s \in Path /\ Len(s) = n - 1 /\ \A j \in 1 .. n - 1 : s[j] = p[j]
  BY FrontFacts
<1>3. /\ z \in Path /\ Len(z) = n
      /\ \A j \in 1 .. n - 1 : z[j] = p[j]
  BY <1>1, FlipFacts
<1>4. n <= Len(q) /\ \A j \in 1 .. n : q[j] = z[j]
  BY <1>3 DEF Under
<1>5. w \in Path /\ Len(w) = Len(q) - n /\ \A j \in 1 .. Len(q) - n : w[j] = q[n + j]
  BY <1>1, <1>4, PathFacts DEF Path
<1> HIDE DEF s, w, z
<1>6. /\ d \in Path /\ Len(d) = (n - 1) + (Len(q) - n)
      /\ \A j \in 1 .. (n - 1) + (Len(q) - n) :
           d[j] = IF j <= n - 1 THEN s[j] ELSE w[j - (n - 1)]
  <2>1. /\ d \in Path /\ Len(d) = Len(s) + Len(w)
        /\ \A j \in 1 .. Len(s) + Len(w) :
             d[j] = IF j <= Len(s) THEN s[j] ELSE w[j - Len(s)]
    BY <1>2, <1>5, JoinFacts
  <2> HIDE DEF d
  <2> QED BY <2>1, <1>2, <1>5
<1> HIDE DEF d
<1>7. Risen(p, s, z, q, d)
  <2>1. Len(d) = Len(q) - 1
    BY <1>1, <1>6
  <2>2. ASSUME NEW j \in 1 .. n - 1 PROVE d[j] = q[j]
    <3>1. j \in 1 .. (n - 1) + (Len(q) - n) /\ j <= n - 1 /\ j \in 1 .. n
      BY <1>1, <1>4
    <3>2. d[j] = s[j] /\ s[j] = p[j] /\ z[j] = p[j] /\ q[j] = z[j]
      BY <3>1, <1>2, <1>3, <1>4, <1>6
    <3> QED BY <3>2
  <2>3. ASSUME NEW j \in n .. Len(q) - 1 PROVE d[j] = q[j + 1]
    <3>1. d[j] = w[j - (n - 1)]
      BY <1>1, <1>6
    <3>2. j - (n - 1) \in 1 .. Len(q) - n
      BY <1>1
    <3>3. w[j - (n - 1)] = q[n + (j - (n - 1))]
      BY <3>2, <1>5
    <3>4. n + (j - (n - 1)) = j + 1
      BY <1>1
    <3> QED BY <3>1, <3>3, <3>4
  <2> QED BY <1>6, <2>1, <2>2, <2>3 DEF Risen
<1>8. x \in Path /\ Len(x) = Len(q) - n /\ \A j \in 1 .. Len(q) - n : x[j] = q[n + j]
  <2>1. /\ x = SubSeq(d, n, Len(q) - 1)
    BY <1>1, <1>2, <1>6
  <2>2. \A j \in n .. Len(q) - 1 : d[j] \in {0, 1}
    BY <1>1, <1>6, PathFacts
  <2>3. /\ SubSeq(d, n, Len(q) - 1) \in Path
        /\ Len(SubSeq(d, n, Len(q) - 1)) = Len(q) - n
        /\ \A j \in 1 .. Len(q) - n : SubSeq(d, n, Len(q) - 1)[j] = d[n + j - 1]
    BY <1>1, <1>4, <2>2, SubSeqProperties DEF Path
  <2>4. ASSUME NEW j \in 1 .. Len(q) - n PROVE x[j] = q[n + j]
    <3>1. n + j - 1 \in n .. Len(q) - 1 /\ (n + j - 1) + 1 = n + j
      BY <1>1
    <3>2. d[n + j - 1] = q[(n + j - 1) + 1]
      BY <3>1, <1>7 DEF Risen
    <3> QED BY <2>1, <2>3, <3>1, <3>2
  <2> QED BY <2>1, <2>3, <2>4
<1> HIDE DEF x
<1>9. z \o x = q
  <2>1. /\ z \o x \in Path /\ Len(z \o x) = n + (Len(q) - n)
        /\ \A j \in 1 .. n + (Len(q) - n) :
             (z \o x)[j] = IF j <= n THEN z[j] ELSE x[j - n]
    <3>1. /\ z \o x \in Path /\ Len(z \o x) = Len(z) + Len(x)
          /\ \A j \in 1 .. Len(z) + Len(x) :
               (z \o x)[j] = IF j <= Len(z) THEN z[j] ELSE x[j - Len(z)]
      BY <1>3, <1>8, JoinFacts
    <3> QED BY <3>1, <1>3, <1>8
  <2>2. Len(z \o x) = Len(q)
    BY <1>1, <2>1
  <2>3. ASSUME NEW j \in 1 .. Len(q) PROVE (z \o x)[j] = q[j]
    <3>1. CASE j <= n
      BY <3>1, <2>1, <1>1, <1>4
    <3>2. CASE ~(j <= n)
      <4>1. j - n \in 1 .. Len(q) - n /\ n + (j - n) = j
        BY <3>2, <1>1
      <4>2. (z \o x)[j] = x[j - n]
        BY <3>2, <2>1, <1>1
      <4>3. x[j - n] = q[n + (j - n)]
        BY <4>1, <1>8
      <4> QED BY <4>1, <4>2, <4>3
    <3> QED BY <3>1, <3>2
  <2> QED BY <2>1, <2>2, <2>3, PathEqual
<1> QED BY <1>7, <1>9 DEF x, d, s, w, z

LEMMA WithoutWhole ==
  ASSUME NEW t, Whole(t), NEW p \in DOMAIN t, p # <<>>
  PROVE  Whole(Without(t, p))
<1> DEFINE D == DOMAIN t
           n == Len(p)
           s == Front(p)
           z == Flip(p, n)
           Drop(q) == s \o SubSeq(q, n + 1, Len(q))
           Old(q) == IF IsPrefix(s, q)
                     THEN z \o SubSeq(q, Len(s) + 1, Len(q)) ELSE q
           stay == {q \in D : ~IsPrefix(s, q)}
           over == {q \in D : IsPrefix(z, q)}
           rise == {Drop(q) : q \in over}
           u == Without(t, p)
<1>1. p \in Path /\ D \subseteq Path /\ FullTree(D)
  BY DEF Whole, FullTree
<1>2. n \in Nat /\ n >= 1
  BY <1>1, EmptySeq DEF Path
<1>3. s \in Path /\ Len(s) = n - 1 /\ \A j \in 1 .. n - 1 : s[j] = p[j]
  BY <1>1, <1>2, FrontFacts
<1>4. /\ z \in Path /\ Len(z) = n /\ z[n] = 1 - p[n]
      /\ \A j \in 1 .. n - 1 : z[j] = p[j]
  BY <1>1, <1>2, FlipFacts
<1>5. u = [q \in stay \cup rise |-> t[Old(q)]]
  BY DEF Without
<1>6. ASSUME NEW q \in over
      PROVE  /\ Risen(p, s, z, q, Drop(q)) /\ Old(Drop(q)) = q
             /\ q \in D /\ Drop(q) \in Path
  <2>1. Under(z, q) /\ q \in Path
    BY <1>1, <1>4, <1>6, PrefixIsUnder
  <2>2. /\ Risen(p, s, z, q, Drop(q))
        /\ z \o SubSeq(Drop(q), Len(s) + 1, Len(Drop(q))) = q
    BY <1>1, <1>2, <2>1, RisenFacts
  <2> HIDE DEF s, z, Drop
  <2>3. Under(s, Drop(q)) /\ Drop(q) \in Path
    BY <1>2, <1>3, <1>4, <2>1, <2>2, PathFacts DEF Under, Risen
  <2>4. IsPrefix(s, Drop(q))
    BY <1>3, <2>3, PrefixIsUnder
  <2> QED BY <2>2, <2>3, <2>4
<1>7. FullTree(stay \cup rise)
  <2> DEFINE drop == [q \in over |-> Drop(q)]
  <2>1. stay = {q \in D : ~Under(s, q)} /\ over = {q \in D : Under(z, q)}
    BY <1>1, <1>3, <1>4, PrefixIsUnder
  <2>2. rise = {drop[q] : q \in over}
    OBVIOUS
  <2>3. \A q \in over : Risen(p, s, z, q, drop[q])
    BY <1>6
  <2> HIDE DEF s, z, drop, stay, over, rise, D
  <2>4. \A q \in D : Under(z, q) => Risen(p, s, z, q, drop[q])
    BY <2>1, <2>3
  <2>5. p \in D
    BY DEF D
  <2>6. FullTree({q \in D : ~Under(s, q)}
                 \cup {drop[q] : q \in {q \in D : Under(z, q)}})
    BY <1>1, <1>2, <1>3, <1>4, <2>4, <2>5, CloseTree
  <2> QED BY <2>1, <2>2, <2>6
<1>8. IsFiniteSet(stay \cup rise)
  <2>1. IsFiniteSet(stay) /\ IsFiniteSet(over)
    <3>1. stay \in SUBSET D /\ over \in SUBSET D /\ IsFiniteSet(D)
      BY DEF Whole
    <3> QED BY <3>1, FS_Subset
  <2>2. IsFiniteSet(rise)
    <3> DEFINE f == [q \in over |-> Drop(q)]
    <3>1. f \in Surjection(over, rise)
      BY DEF Surjection
    <3> QED BY <2>1, <3>1, FS_Surjection
  <2> QED BY <2>1, <2>2, FS_Union
<1>9. ASSUME NEW q \in stay \cup rise PROVE Old(q) \in D
  <2>1. CASE q \in stay
    BY <2>1
  <2>2. CASE q \in rise
    <3>1. PICK r \in over : q = Drop(r)
      BY <2>2
    <3> HIDE DEF Old, Drop
    <3> QED BY <3>1, <1>6
  <2> QED BY <2>1, <2>2
<1>10. Whole(u)
  <2>1. DOMAIN u = stay \cup rise /\ \A q \in stay \cup rise : u[q] = t[Old(q)]
    BY <1>5
  <2>2. \A q \in D : t[q] \in Leaf
    BY DEF Whole
  <2> HIDE DEF stay, rise, u, Old, D
  <2>3. \A q \in stay \cup rise : u[q] \in Leaf
    BY <1>9, <2>1, <2>2
  <2> QED BY <1>7, <1>8, <2>1, <2>3 DEF Whole
<1> QED BY <1>10

----------------------------------------------------------------------------
(* The layouts themselves *)

Layouts == {t \in UNION {[D -> Leaf] : D \in SUBSET Path} : Whole(t)}

LEMMA LayoutFacts ==
  ASSUME NEW t \in Layouts
  PROVE  /\ Whole(t) /\ First(t) \in DOMAIN t /\ DOMAIN t \subseteq Path
         /\ \A p \in DOMAIN t : t[p] \in Leaf
  BY FirstIsALeaf DEF Layouts, Whole, FullTree

LEMMA IsALayout ==
  ASSUME NEW t, Whole(t), t = [p \in DOMAIN t |-> t[p]]
  PROVE  t \in Layouts
<1>1. DOMAIN t \in SUBSET Path /\ \A p \in DOMAIN t : t[p] \in Leaf
  BY DEF Whole, FullTree
<1>2. t \in [DOMAIN t -> Leaf]
  BY <1>1
<1> QED BY <1>1, <1>2 DEF Layouts

LEMMA EditsMakeLayouts ==
  ASSUME NEW t \in Layouts
  PROVE  /\ \A p \in DOMAIN t, s \in Symbols \cup {None} :
              Retarget(t, p, s) \in Layouts /\ DOMAIN Retarget(t, p, s) = DOMAIN t
         /\ \A p \in DOMAIN t, g \in Groups \cup {None} :
              /\ [t EXCEPT ![p].group = g] \in Layouts
              /\ DOMAIN [t EXCEPT ![p].group = g] = DOMAIN t
         /\ \A g \in Groups \cup {None} :
              LinkAll(t, g) \in Layouts /\ DOMAIN LinkAll(t, g) = DOMAIN t
         /\ \A p \in DOMAIN t :
              SplitAt(t, p) \in Layouts /\ p \o <<1>> \in DOMAIN SplitAt(t, p)
         /\ \A p \in DOMAIN t : p # <<>> => Without(t, p) \in Layouts
<1> USE LayoutFacts
<1>1. ASSUME NEW p \in DOMAIN t, NEW s \in Symbols \cup {None}
      PROVE  Retarget(t, p, s) \in Layouts /\ DOMAIN Retarget(t, p, s) = DOMAIN t
  <2> DEFINE u == Retarget(t, p, s)
  <2>1. u = [q \in DOMAIN u |-> u[q]]
    BY DEF Retarget
  <2>2. Whole(u) /\ DOMAIN u = DOMAIN t
    BY RetargetFacts
  <2> HIDE DEF u
  <2>3. u \in Layouts
    BY <2>1, <2>2, IsALayout
  <2> QED BY <2>2, <2>3 DEF u
<1>2. ASSUME NEW p \in DOMAIN t, NEW g \in Groups \cup {None}
      PROVE  /\ [t EXCEPT ![p].group = g] \in Layouts
             /\ DOMAIN [t EXCEPT ![p].group = g] = DOMAIN t
  <2> DEFINE u == [t EXCEPT ![p].group = g]
  <2>1. DOMAIN u = DOMAIN t /\ u = [q \in DOMAIN u |-> u[q]]
    OBVIOUS
  <2>2. Whole(u)
    BY RelinkWhole
  <2> HIDE DEF u
  <2>3. u \in Layouts
    BY <2>1, <2>2, IsALayout
  <2> QED BY <2>1, <2>3 DEF u
<1>3. ASSUME NEW g \in Groups \cup {None}
      PROVE  LinkAll(t, g) \in Layouts /\ DOMAIN LinkAll(t, g) = DOMAIN t
  <2> DEFINE u == LinkAll(t, g)
  <2>1. DOMAIN u = DOMAIN t /\ u = [q \in DOMAIN u |-> u[q]]
    BY DEF LinkAll
  <2>2. Whole(u)
    BY LinkAllWhole
  <2> HIDE DEF u
  <2>3. u \in Layouts
    BY <2>1, <2>2, IsALayout
  <2> QED BY <2>1, <2>3 DEF u
<1>4. ASSUME NEW p \in DOMAIN t
      PROVE  SplitAt(t, p) \in Layouts /\ p \o <<1>> \in DOMAIN SplitAt(t, p)
  <2> DEFINE u == SplitAt(t, p)
  <2>1. u = [q \in DOMAIN u |-> u[q]]
    BY DEF SplitAt
  <2>2. Whole(u) /\ p \o <<1>> \in DOMAIN u
    BY SplitWhole
  <2> HIDE DEF u
  <2>3. u \in Layouts
    BY <2>1, <2>2, IsALayout
  <2> QED BY <2>2, <2>3 DEF u
<1>5. ASSUME NEW p \in DOMAIN t, p # <<>> PROVE Without(t, p) \in Layouts
  <2> DEFINE u == Without(t, p)
  <2>1. u = [q \in DOMAIN u |-> u[q]]
    BY DEF Without
  <2>2. Whole(u)
    BY <1>5, WithoutWhole
  <2> HIDE DEF u
  <2>3. u \in Layouts
    BY <2>1, <2>2, IsALayout
  <2> QED BY <2>3 DEF u
<1> QED BY <1>1, <1>2, <1>3, <1>4, <1>5

LEMMA StoredLayouts ==
  /\ Default \in Layouts /\ <<>> \in DOMAIN Default
  /\ \A s \in Symbols, g \in Groups : Desk(s, g) \in Layouts
<1>1. Default = [p \in DOMAIN Default |-> Default[p]]
  BY DEF Default
<1>2. ASSUME NEW s \in Symbols, NEW g \in Groups
      PROVE  Desk(s, g) = [p \in DOMAIN Desk(s, g) |-> Desk(s, g)[p]]
  BY DEF Desk
<1> QED BY <1>1, <1>2, DefaultWhole, DeskWhole, IsALayout

----------------------------------------------------------------------------
(* Type correctness *)

Typed ==
  /\ tree \in Layouts /\ focus \in DOMAIN tree
  /\ phase \in {"off", "booting", "on"} /\ timer \in BOOLEAN
  /\ saves \in Seq(Layouts) /\ Len(saves) <= MaxSaves
  /\ file \in Layouts \cup {None} /\ local \in Layouts \cup {None}
  /\ edits \in 0 .. MaxEdits /\ astray \in BOOLEAN

LEMMA TypedIsTypeOK == Typed => TypeOK
  BY WholeIsLayout, LayoutFacts DEF Typed, TypeOK

LEMMA InitTyped == Init => Typed
<1> SUFFICES ASSUME Init PROVE Typed
  OBVIOUS
<1>1. file \in Layouts \cup {None}
  BY StoredLayouts DEF Init
<1>2. saves \in Seq(Layouts) /\ Len(saves) = 0
  BY DEF Init
<1>3. Len(saves) <= MaxSaves /\ edits \in 0 .. MaxEdits
  BY <1>2, WorkspaceAssumption DEF Init
<1>4. tree \in Layouts /\ focus \in DOMAIN tree
  BY StoredLayouts DEF Init
<1> QED BY <1>1, <1>2, <1>3, <1>4 DEF Init, Typed

LEMMA MutatesTyped ==
  ASSUME Typed, NEW t \in Layouts, NEW f \in DOMAIN t, Mutates(t, f),
         edits' \in 0 .. MaxEdits
  PROVE  Typed'
  BY DEF Typed, Mutates, storage

LEMMA EditTyped ==
  ASSUME Typed, NEW t \in Layouts, NEW f \in DOMAIN t, Edit(t, f)
  PROVE  Typed'
<1>1. edits' \in 0 .. MaxEdits
  BY WorkspaceAssumption DEF Typed, Edit
<1> QED BY <1>1, MutatesTyped DEF Edit

LEMMA EditsTyped == ASSUME Typed, Edits PROVE Typed'
<1>0. /\ tree \in Layouts /\ focus \in DOMAIN tree /\ DOMAIN tree \subseteq Path
  BY LayoutFacts DEF Typed
<1>1. CASE SetFocused
  <2>1. PICK p \in DOMAIN tree : Mutates(tree, p) /\ UNCHANGED edits
    BY <1>1 DEF SetFocused
  <2> QED BY <2>1, <1>0, MutatesTyped DEF Typed
<1>2. CASE SetTarget
  <2>1. PICK p \in DOMAIN tree, s \in Symbols \cup {None} :
          Edit(Retarget(tree, p, s), focus)
    BY <1>2 DEF SetTarget
  <2> QED BY <2>1, <1>0, EditTyped, EditsMakeLayouts
<1>3. CASE SetLeafLinkGroup
  <2>1. PICK p \in DOMAIN tree, g \in Groups \cup {None} :
          Edit([tree EXCEPT ![p].group = g], focus)
    BY <1>3 DEF SetLeafLinkGroup
  <2> DEFINE u == [tree EXCEPT ![p].group = g]
  <2>2. u \in Layouts /\ focus \in DOMAIN u
    BY <1>0, EditsMakeLayouts
  <2>3. Edit(u, focus)
    BY <2>1
  <2> HIDE DEF u
  <2> QED BY <2>2, <2>3, EditTyped
<1>4. CASE SetAllLinkGroups
  BY <1>4, <1>0, EditTyped, EditsMakeLayouts DEF SetAllLinkGroups
<1>5. CASE SplitFocused
  BY <1>5, <1>0, EditTyped, EditsMakeLayouts DEF SplitFocused
<1>6. CASE CloseFocused
  BY <1>6, <1>0, EditTyped, EditsMakeLayouts, LayoutFacts DEF CloseFocused
<1>7. CASE ResetTo
  BY <1>7, EditTyped, StoredLayouts DEF ResetTo
<1>8. CASE LoadPreset
  BY <1>8, EditTyped, StoredLayouts, LayoutFacts DEF LoadPreset
<1> QED BY <1>1, <1>2, <1>3, <1>4, <1>5, <1>6, <1>7, <1>8 DEF Edits

LEMMA RestoresTyped == ASSUME Typed, Restores PROVE Typed'
<1>1. PICK readable \in BOOLEAN, route \in Routes : Restore(readable, route)
  BY DEF Restores
<1> DEFINE stored == IF file # None /\ readable THEN file ELSE local
           loads == stored # None /\ Valid(stored)
           t == IF loads THEN stored ELSE tree
           f == IF loads THEN First(stored) ELSE focus
<1>2. t \in Layouts /\ f \in DOMAIN t
  BY LayoutFacts DEF Typed
<1>3. /\ phase' = "on" /\ focus' = f
      /\ tree' = IF route = <<>> THEN t ELSE Retarget(t, f, route[1])
      /\ astray' = (tree' # IF file # None THEN file ELSE local)
      /\ UNCHANGED <<timer, saves, file, local, edits>>
  BY <1>1 DEF Restore
<1> HIDE DEF t, f
<1>4. route # <<>> => route[1] \in Symbols \cup {None}
  BY DEF Routes
<1>5. tree' \in Layouts /\ DOMAIN tree' = DOMAIN t
  <2>1. CASE route = <<>>
    BY <2>1, <1>2, <1>3
  <2>2. CASE route # <<>>
    BY <2>2, <1>2, <1>3, <1>4, EditsMakeLayouts
  <2> QED BY <2>1, <2>2
<1>6. astray' \in BOOLEAN
  BY <1>3, Zenon
<1> QED BY <1>2, <1>3, <1>5, <1>6 DEF Typed

LEMMA NextTyped == ASSUME Typed, [Next]_vars PROVE Typed'
<1>1. CASE Edits
  BY <1>1, EditsTyped
<1>2. CASE TimerFires
  <2>1. saves' \in Seq(Layouts) /\ Len(saves') = Len(saves) + 1 /\ Len(saves) \in Nat
    BY <1>2 DEF TimerFires, Typed
  <2>2. Len(saves') <= MaxSaves
    BY <1>2, <2>1, WorkspaceAssumption DEF TimerFires
  <2> QED BY <1>2, <2>1, <2>2 DEF TimerFires, Typed
<1>3. CASE SaveLands \/ SaveFails
  <2>1. saves # <<>> /\ saves \in Seq(Layouts) /\ saves' = Tail(saves)
    BY <1>3 DEF SaveLands, SaveFails, Typed
  <2>2. /\ saves' \in Seq(Layouts) /\ Head(saves) \in Layouts
        /\ Len(saves') = Len(saves) - 1 /\ Len(saves) \in Nat
    BY <2>1
  <2>3. Len(saves') <= MaxSaves
    BY <2>2, WorkspaceAssumption DEF Typed
  <2>4. astray' \in BOOLEAN
    BY <1>3, Zenon DEF SaveLands, SaveFails
  <2> QED BY <1>3, <2>2, <2>3, <2>4 DEF SaveLands, SaveFails, Typed
<1>4. CASE Boot
  BY <1>4, StoredLayouts DEF Boot, Typed, storage
<1>5. CASE Restores
  BY <1>5, RestoresTyped
<1>6. CASE Quit
  <2>1. PICK flush \in IF phase = "on" THEN {<<>>, <<tree>>} ELSE {<<>>} :
          \E n \in 0 .. Len(saves \o flush) :
            file' = IF n = 0 THEN file ELSE (saves \o flush)[n]
    BY <1>6 DEF Quit
  <2>2. PICK n \in 0 .. Len(saves \o flush) :
          file' = IF n = 0 THEN file ELSE (saves \o flush)[n]
    BY <2>1
  <2>3. saves \o flush \in Seq(Layouts)
    <3>1. flush \in {<<>>, <<tree>>} /\ tree \in Layouts
      BY <2>1 DEF Typed
    <3>2. <<>> \in Seq(Layouts) /\ <<tree>> \in Seq(Layouts)
      BY <3>1
    <3>3. flush \in Seq(Layouts)
      BY <3>1, <3>2
    <3> QED BY <3>3, ConcatProperties DEF Typed
  <2>4. file' \in Layouts \cup {None}
    BY <2>2, <2>3 DEF Typed
  <2>5. saves' \in Seq(Layouts) /\ Len(saves') <= MaxSaves
    BY <1>6, WorkspaceAssumption DEF Quit
  <2> QED BY <1>6, <2>4, <2>5, StoredLayouts DEF Quit, Typed
<1>7. CASE UNCHANGED vars
  BY <1>7 DEF vars, storage, Typed
<1> QED BY <1>1, <1>2, <1>3, <1>4, <1>5, <1>6, <1>7 DEF Next

\* Whatever is split, closed, linked, loaded, restored or saved, the layout
\* stays the set of leaves of a full binary tree, of any depth and any number
\* of panes, and the focus one of them (workspace.ts: removeLeaf, splitFocused,
\* firstLeafId).
THEOREM LayoutsStayWhole == Spec => []TypeOK
<1>1. Typed /\ [Next]_vars => Typed'
  BY NextTyped
<1> QED BY <1>1, InitTyped, TypedIsTypeOK, PTL DEF Spec

----------------------------------------------------------------------------
(* What a session ended with is where the next one looks *)

\* What restoreWorkspace reads if it can
Stored == IF file # None THEN file ELSE local

\* Nothing is set or under way while nobody edits under autosave
Quiet == phase # "on" => ~timer /\ saves = <<>>

\* Once the timer has fired, the newest save carries the layout on screen,
\* or, when none is under way, the next boot will find it
Saved ==
  phase = "on" /\ ~timer =>
    IF saves # <<>> THEN Last(saves) = tree ELSE astray \/ tree = Stored

Kept == left # None => phase # "on" /\ left = Stored

KeepInv == Typed /\ Quiet /\ Saved /\ Kept

LEMMA InitKeep == Init => KeepInv
  BY InitTyped DEF Init, KeepInv, Quiet, Saved, Kept

LEMMA EditsKeep == ASSUME KeepInv, Edits PROVE Quiet' /\ Saved' /\ Kept'
<1>1. /\ phase # "off" /\ timer' = (timer \/ phase = "on")
      /\ UNCHANGED <<phase, storage, left>>
  BY DEF Edits, SetFocused, SetTarget, SetLeafLinkGroup, SetAllLinkGroups,
         SplitFocused, CloseFocused, ResetTo, LoadPreset, Edit, Mutates
<1> QED BY <1>1 DEF KeepInv, Quiet, Saved, Kept, Stored, storage

LEMMA TimerFiresKeep ==
  ASSUME KeepInv, TimerFires PROVE Quiet' /\ Saved' /\ Kept'
<1>1. saves \in Seq(Layouts) /\ tree \in Layouts /\ phase = "on"
  BY DEF KeepInv, Typed, Quiet, TimerFires
<1>2. saves' = Append(saves, tree) /\ saves' # <<>> /\ Last(saves') = tree
  BY <1>1 DEF TimerFires, Last
<1> QED BY <1>1, <1>2 DEF KeepInv, Quiet, Saved, Kept, Stored, TimerFires

LEMMA LastOfTail ==
  ASSUME NEW s \in Seq(Layouts), s # <<>>
  PROVE  /\ Tail(s) = <<>> => Head(s) = Last(s)
         /\ Tail(s) # <<>> => Last(Tail(s)) = Last(s)
  BY DEF Last

LEMMA SaveReturnsKeep ==
  ASSUME KeepInv, None \notin Layouts, SaveLands \/ SaveFails
  PROVE  Quiet' /\ Saved' /\ Kept'
<1>1. /\ saves \in Seq(Layouts) /\ saves # <<>> /\ saves' = Tail(saves)
      /\ phase = "on" /\ UNCHANGED <<tree, phase, timer, left>>
  BY DEF KeepInv, Typed, Quiet, SaveLands, SaveFails
<1>2. Head(saves) # None
  BY <1>1
<1>3. saves' = <<>> => astray' \/ Head(saves) = Stored'
  <2>1. CASE SaveLands
    BY <2>1, <1>2 DEF SaveLands, Stored
  <2>2. CASE SaveFails
    BY <2>2 DEF SaveFails, Stored
  <2> QED BY <2>1, <2>2
<1>4. Saved'
  BY <1>1, <1>3, LastOfTail DEF KeepInv, Saved
<1> QED BY <1>1, <1>4 DEF KeepInv, Quiet, Kept

LEMMA RestoresKeep == ASSUME KeepInv, Restores PROVE Quiet' /\ Saved' /\ Kept'
<1>1. PICK readable \in BOOLEAN, route \in Routes : Restore(readable, route)
  BY DEF Restores
<1>2. /\ phase = "booting" /\ phase' = "on" /\ left' = None
      /\ UNCHANGED <<timer, saves, file, local>>
      /\ astray' = (tree' # IF file # None THEN file ELSE local)
  BY <1>1 DEF Restore
<1>3. saves' = <<>>
  BY <1>2 DEF KeepInv, Quiet
<1>4. astray' \/ tree' = Stored'
  <2>1. astray' = (tree' # Stored)
    BY <1>2 DEF Stored
  <2>2. Stored' = Stored
    BY <1>2 DEF Stored
  <2> QED BY <2>1, <2>2
<1> QED BY <1>2, <1>3, <1>4 DEF Quiet, Saved, Kept

LEMMA QuitKeeps ==
  ASSUME KeepInv, None \notin Layouts, Quit PROVE Quiet' /\ Saved' /\ Kept'
<1>1. phase' = "off" /\ timer' = FALSE /\ saves' = <<>> /\ local' = local
  BY DEF Quit
<1>2. ASSUME left' # None PROVE left' = Stored'
  <2>1. /\ phase = "on" /\ ~timer /\ saves = <<>> /\ ~astray /\ left' = tree
    BY <1>2 DEF Quit
  <2>2. tree = Stored /\ tree \in Layouts
    BY <2>1 DEF KeepInv, Saved, Typed
  <2>3. PICK flush \in {<<>>, <<tree>>} : \E n \in 0 .. Len(<<>> \o flush) :
          file' = IF n = 0 THEN file ELSE (<<>> \o flush)[n]
    BY <2>1 DEF Quit
  <2>4. <<>> \o flush = flush
    BY <2>2, <2>3
  <2>5. file' = file \/ file' = tree
    BY <2>3, <2>4
  <2> QED BY <1>1, <2>1, <2>2, <2>5 DEF Stored
<1> QED BY <1>1, <1>2 DEF Quiet, Saved, Kept

LEMMA NextKeeps ==
  ASSUME KeepInv, None \notin Layouts, [Next]_vars PROVE KeepInv'
<1>1. Typed'
  BY NextTyped DEF KeepInv
<1>2. Quiet' /\ Saved' /\ Kept'
  <2>1. CASE Boot
    BY <2>1 DEF Boot, storage, KeepInv, Quiet, Saved, Kept, Stored
  <2>2. CASE UNCHANGED vars
    BY <2>2 DEF vars, storage, KeepInv, Quiet, Saved, Kept, Stored
  <2> QED BY <2>1, <2>2, EditsKeep, TimerFiresKeep, SaveReturnsKeep,
             RestoresKeep, QuitKeeps DEF Next
<1> QED BY <1>1, <1>2 DEF KeepInv

LEMMA RestoredAsItWas ==
  ASSUME KeepInv, left # None, Valid(left),
         NEW route \in Routes, Restore(TRUE, route)
  PROVE  SamePanes(tree', left)
<1>1. left = Stored /\ left \in Layouts
  BY DEF KeepInv, Kept, Typed, Stored
<1> DEFINE f == First(left)
<1>2. tree' = IF route = <<>> THEN left ELSE Retarget(left, f, route[1])
  BY <1>1 DEF Restore, Stored
<1>3. f \in DOMAIN left /\ Whole(left)
  BY <1>1, LayoutFacts
<1> HIDE DEF f
<1>4. CASE route = <<>>
  BY <1>2, <1>4 DEF SamePanes
<1>5. CASE route # <<>>
  <2> DEFINE s == route[1]
  <2>1. s \in Symbols \cup {None} /\ tree' = Retarget(left, f, s)
    BY <1>2, <1>5 DEF Routes
  <2> HIDE DEF s
  <2>2. /\ DOMAIN tree' = DOMAIN left
        /\ \A p \in DOMAIN left :
             /\ tree'[p].group = left[p].group
             /\ p = f \/ p \in Reached(left, f) \/ tree'[p] = left[p]
    BY <1>3, <2>1, RetargetFacts
  <2>3. \A p \in Reached(left, f) :
          left[p].group # None /\ left[p].group = left[f].group
    BY DEF Reached
  <2> QED BY <2>2, <2>3 DEF SamePanes, f
<1> QED BY <1>4, <1>5

\* A session that ended with nothing left to save is restored by the next
\* one, however many edits, refused saves, crashes and unreadable files came
\* before, on the conditions that RestoreKeepsTheLayout names.  (null, what
\* storage holds before the first save, is no layout.)
THEOREM RestoredAsLeft ==
  ASSUME None \notin Layouts
  PROVE  Spec => RestoreKeepsTheLayout
<1>1. KeepInv /\ [Next]_vars => KeepInv'
  BY NextKeeps
<1>2. KeepInv /\ [Next]_vars =>
        [left # None /\ Valid(left) /\ (\E route \in Routes : Restore(TRUE, route))
           => SamePanes(tree', left)]_vars
  BY RestoredAsItWas
<1> QED BY <1>1, <1>2, InitKeep, PTL DEF Spec, RestoreKeepsTheLayout

----------------------------------------------------------------------------
(* Links *)

\* A group the cap does not cut is reached as a whole: of its n panes, at
\* most n - 1 come before any one
LEMMA SmallGroupsAreReached ==
  ASSUME NEW t \in Layouts, NEW o \in DOMAIN t,
         NEW group,
         group = {q \in DOMAIN t \ {o} :
                    t[q].group # None /\ t[q].group = t[o].group},
         Cardinality(group) <= MaxBroadcast,
         NEW q \in group
  PROVE  q \in Reached(t, o)
<1> DEFINE others == {r \in DOMAIN t \ {o} :
                        t[r].group = t[o].group /\ t[o].group # None}
           ahead == {r \in others : Before(r, q)}
<1>1. others = group
  OBVIOUS
<1>2. IsFiniteSet(group)
  <2>1. group \in SUBSET DOMAIN t /\ IsFiniteSet(DOMAIN t)
    BY LayoutFacts DEF Whole
  <2> QED BY <2>1, FS_Subset
<1>3. q \in Path
  BY LayoutFacts
<1>4. ~Before(q, q)
  BY <1>3, PathFacts DEF Before
<1>5. ahead \in SUBSET (group \ {q})
  BY <1>1, <1>4
<1>6. /\ IsFiniteSet(group \ {q}) /\ Cardinality(group \ {q}) = Cardinality(group) - 1
      /\ Cardinality(group) \in Nat
  BY <1>2, FS_RemoveElement, FS_CardinalityType
<1>7. IsFiniteSet(ahead) /\ Cardinality(ahead) <= Cardinality(group \ {q})
  BY <1>5, <1>6, FS_Subset
<1>8. Cardinality(ahead) \in Nat
  BY <1>7, FS_CardinalityType
<1>9. Cardinality(ahead) < MaxBroadcast
  BY <1>6, <1>7, <1>8, WorkspaceAssumption
<1> QED BY <1>1, <1>9 DEF Reached

LEMMA TargetsMoveInLockstep ==
  ASSUME Typed, SetTarget,
         NEW p \in DOMAIN tree, NEW s \in Symbols,
         tree[p].symbol # s, tree'[p].symbol = s
  PROVE  Broadcast(p, s)
<1>1. PICK o \in DOMAIN tree, x \in Symbols \cup {None} :
        Edit(Retarget(tree, o, x), focus)
  BY DEF SetTarget
<1>2. tree' = Retarget(tree, o, x) /\ tree \in Layouts /\ Whole(tree)
  BY <1>1, LayoutFacts DEF Edit, Mutates, Typed
<1> DEFINE group == {q \in DOMAIN tree \ {o} :
                       tree[q].group # None /\ tree[q].group = tree[o].group}
<1>3. \A q \in DOMAIN tree :
        /\ q = o \/ (x # None /\ q \in Reached(tree, o)) => tree'[q].symbol = x
        /\ q # o /\ (x = None \/ q \notin Reached(tree, o)) => tree'[q] = tree[q]
  <2>1. o \in DOMAIN tree /\ x \in Symbols \cup {None} /\ Whole(tree)
    BY <1>1, <1>2
  <2>2. ASSUME NEW q \in DOMAIN tree,
               q = o \/ (x # None /\ q \in Reached(tree, o))
        PROVE  tree'[q].symbol = x
    <3> DEFINE u == Retarget(tree, o, x)
    <3>1. u[q] = IF q = o \/ (x # None /\ q \in Reached(tree, o))
                 THEN [tree[q] EXCEPT !.symbol = x] ELSE tree[q]
      BY DEF Retarget
    <3>2. u[q] = [tree[q] EXCEPT !.symbol = x]
      BY <2>2, <3>1, Zenon
    <3>3. tree[q] \in Leaf
      BY <2>1 DEF Whole
    <3>4. [tree[q] EXCEPT !.symbol = x].symbol = x
      BY <3>3 DEF Leaf
    <3> QED BY <1>2, <3>2, <3>4, Zenon
  <2>3. ASSUME NEW q \in DOMAIN tree,
               q # o /\ (x = None \/ q \notin Reached(tree, o))
        PROVE  tree'[q] = tree[q]
    BY <1>2, <2>1, <2>3, RetargetFacts
  <2> QED BY <2>2, <2>3
<1>4. s # None
  BY WorkspaceAssumption
<1>5. x = s /\ (p = o \/ p \in Reached(tree, o))
  BY <1>3
<1>6. Reached(tree, o) \subseteq group
  BY DEF Reached
<1>7. ASSUME Cardinality(group) <= MaxBroadcast, NEW q \in group
      PROVE  tree'[q].symbol = s
  <2>1. q \in Reached(tree, o)
    BY <1>2, <1>7, SmallGroupsAreReached
  <2> QED BY <2>1, <1>3, <1>4, <1>5
<1>8. \A q \in DOMAIN tree \ (group \cup {o}) : tree'[q] = tree[q]
  BY <1>3, <1>6
<1>9. /\ p \in group \cup {o} /\ tree'[o].symbol = s
  BY <1>3, <1>5, <1>6
<1> QED BY <1>7, <1>8, <1>9 DEF Broadcast

\* A new symbol in one pane shows in all that are linked with it and in no
\* other, in every layout, for every cap (broadcastSymbolToGroup).
THEOREM LinksMoveInLockstep == Spec => LinkedInLockstep
<1>1. Typed /\ [Next]_vars => Typed'
  BY NextTyped
<1>2. Typed /\ [Next]_vars =>
        [\A p \in DOMAIN tree \cap DOMAIN tree', s \in Symbols :
           tree[p].symbol # s /\ tree'[p].symbol = s /\ SetTarget => Broadcast(p, s)]_vars
  BY TargetsMoveInLockstep
<1> QED BY <1>1, <1>2, InitTyped, PTL DEF Spec, LinkedInLockstep
=============================================================================
