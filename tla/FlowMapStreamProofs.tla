-------------------------- MODULE FlowMapStreamProofs --------------------------
(***************************************************************************)
(* What a pane sees of a stream: FlowMap's types, EpochsAreKnown,          *)
(* OwnCursorIsExact, SeamIsExact and CrashIsShown, for any number of       *)
(* panes, streams, sessions and columns, any queue and any network.        *)
(*                                                                         *)
(* The steps of the hub are summed up once (HubEffect): what a connection  *)
(* is fed, drained or evicted.  On top of it stand, one after another,     *)
(*   Typed, Sockets  types; each socket is one pane's                      *)
(*   EpochInv        what is queued for a pane has its epochs covered, and *)
(*                   so has the column its session makes next              *)
(*   ColInv          a queue is in order, and nothing older than a column  *)
(*                   dealt to a pane is still to come unknown to it        *)
(*   SeamInv         the queued columns run on to the session's newest     *)
(***************************************************************************)
EXTENDS FlowMapProofs, SequenceTheorems, WellFoundedInduction

----------------------------------------------------------------------------
(* Folds.  A set that holds 0 and the successors of its numbers holds all  *)
(* of Nat, which is the induction the lemmas on After need.                *)

Columns == [seq: 1 .. MaxColumns, epoch: 0 .. MaxEpoch]

LEMMA NatSetInduction ==
  ASSUME NEW S, 0 \in S, \A n \in Nat : n \in S => n + 1 \in S
  PROVE Nat \subseteq S
<1> DEFINE T == Nat \ S
           R == OpToRel(<, Nat)
<1> SUFFICES ASSUME T # {} PROVE FALSE
  OBVIOUS
<1>1. IsWellFoundedOn(R, Nat)
  BY NatLessThanWellFounded
<1>4. \A y, z \in Nat : y < z => <<y, z>> \in R
  BY DEF OpToRel
<1> HIDE DEF R
<1>2. PICK x \in T : \A y \in T : ~ (<<y, x>> \in R)
  BY <1>1, WFMin
<1>3. x \in Nat /\ x # 0 /\ x - 1 \in Nat /\ x - 1 < x
  BY <1>2
<1>5. x - 1 \in S
  BY <1>2, <1>3, <1>4
<1> QED BY <1>2, <1>3, <1>5

LEMMA LeastOf ==
  ASSUME NEW S, S \subseteq Nat, S # {}
  PROVE \E x \in S : \A y \in S : x <= y
<1> DEFINE R == OpToRel(<, Nat)
<1>1. IsWellFoundedOn(R, Nat)
  BY NatLessThanWellFounded
<1>2. \A y, z \in Nat : y < z => <<y, z>> \in R
  BY DEF OpToRel
<1> HIDE DEF R
<1>3. PICK x \in S : \A y \in S : ~ (<<y, x>> \in R)
  BY <1>1, WFMin
<1>4. \A y \in S : y \in Nat /\ x \in Nat /\ ~(y < x)
  BY <1>2, <1>3
<1>5. \A y \in S : x <= y
  BY <1>4
<1> QED BY <1>5

LEMMA MaxOf ==
  ASSUME NEW S, S \subseteq Nat, NEW m \in S, \A x \in S : m >= x
  PROVE Max(S) = m
<1>1. \E x \in S : \A y \in S : x >= y
  OBVIOUS
<1>2. Max(S) \in S /\ \A y \in S : Max(S) >= y
  BY <1>1 DEF Max
<1>3. m \in Nat /\ Max(S) \in Nat /\ m >= Max(S) /\ Max(S) >= m
  BY <1>2
<1> QED BY <1>3

\* The function FoldLeft builds for Advance: from a set of positions to the
\* cursor once the columns there are routed
Routing(h, cursor, s, cols) ==
  h = [x \in SUBSET DOMAIN cols |->
         IF x = {} THEN cursor
         ELSE Advance(h[x \ {Max(x)}], s, cols[Max(x)])]

LEMMA LargestOf ==
  ASSUME NEW n \in Nat, NEW x \in SUBSET (1 .. n), x # {}
  PROVE \E m \in x : \A y \in x : m >= y
<1> DEFINE S == {b \in Nat : \A z \in SUBSET (1 .. b) :
                   z # {} => \E m \in z : \A y \in z : m >= y}
<1>1. 0 \in S
  <2>1. 1 .. 0 = {}
    OBVIOUS
  <2> QED BY <2>1
<1>2. ASSUME NEW b \in Nat, b \in S PROVE b + 1 \in S
  <2> SUFFICES ASSUME NEW z \in SUBSET (1 .. b + 1), z # {}
               PROVE \E m \in z : \A y \in z : m >= y
    OBVIOUS
  <2>1. CASE b + 1 \in z
    BY <2>1
  <2>2. CASE b + 1 \notin z
    <3>1. z \in SUBSET (1 .. b)
      BY <2>2
    <3> QED BY <1>2, <3>1
  <2> QED BY <2>1, <2>2
<1>3. Nat \subseteq S
  <2> HIDE DEF S
  <2> QED BY <1>1, <1>2, NatSetInduction
<1> QED BY <1>3

LEMMA AfterIsRouting ==
  ASSUME NEW cursor, NEW frame, NEW i
  PROVE LET cols == SubSeq(frame.columns, 1, i)
        IN After(cursor, frame, i) =
             (CHOOSE h : Routing(h, cursor, frame.session, cols))[DOMAIN cols]
BY DEF After, FoldLeft, MapThenFoldSet, Routing

LEMMA RoutingExists ==
  ASSUME NEW X, NEW cursor, NEW s
  PROVE \A cols \in Seq(X) : \E h : Routing(h, cursor, s, cols)
<1> DEFINE S == {n \in Nat : \A cols \in Seq(X) :
                   Len(cols) = n => \E h : Routing(h, cursor, s, cols)}
<1>1. 0 \in S
  <2> SUFFICES ASSUME NEW cols \in Seq(X), Len(cols) = 0
               PROVE \E h : Routing(h, cursor, s, cols)
    OBVIOUS
  <2> DEFINE h == [x \in SUBSET DOMAIN cols |-> cursor]
  <2>1. DOMAIN cols = {}
    OBVIOUS
  <2>2. \A x \in SUBSET DOMAIN cols : x = {}
    BY <2>1
  <2>3. Routing(h, cursor, s, cols)
    BY <2>2 DEF Routing
  <2> QED BY <2>3
<1>2. ASSUME NEW n \in Nat, n \in S PROVE n + 1 \in S
  <2> SUFFICES ASSUME NEW cols \in Seq(X), Len(cols) = n + 1
               PROVE \E h : Routing(h, cursor, s, cols)
    OBVIOUS
  <2> DEFINE front == SubSeq(cols, 1, n)
  <2>1. front \in Seq(X) /\ Len(front) = n /\ \A j \in 1 .. n : front[j] = cols[j]
    OBVIOUS
  <2>2. PICK g : Routing(g, cursor, s, front)
    BY <1>2, <2>1
  <2>3. DOMAIN front = 1 .. n /\ DOMAIN cols = 1 .. n + 1
    BY <2>1
  <2> HIDE DEF front
  <2> DEFINE h == [x \in SUBSET DOMAIN cols |->
                     IF n + 1 \in x THEN Advance(g[x \ {n + 1}], s, cols[n + 1])
                                    ELSE g[x]]
  <2>4. ASSUME NEW x \in SUBSET DOMAIN cols
        PROVE h[x] = IF x = {} THEN cursor
                     ELSE Advance(h[x \ {Max(x)}], s, cols[Max(x)])
    <3>1. CASE n + 1 \in x
      <4>1. Max(x) = n + 1
        BY <2>3, <3>1, MaxOf
      <4>2. h[x \ {n + 1}] = g[x \ {n + 1}]
        OBVIOUS
      <4> QED BY <3>1, <4>1, <4>2
    <3>2. CASE n + 1 \notin x
      <4>1. x \in SUBSET DOMAIN front
        BY <2>3, <3>2
      <4>2. g[x] = IF x = {} THEN cursor
                   ELSE Advance(g[x \ {Max(x)}], s, front[Max(x)])
        BY <2>2, <4>1 DEF Routing
      <4>3. CASE x # {}
        <5>1. Max(x) \in x
          <6>1. x \subseteq 1 .. n /\ IsFiniteSet(1 .. n)
            BY <2>3, <4>1, FS_Interval
          <6>2. \E m \in x : \A y \in x : m >= y
            BY <2>3, <4>1, <4>3, LargestOf
          <6> QED BY <6>2 DEF Max
        <5>2. front[Max(x)] = cols[Max(x)]
          BY <2>1, <2>3, <4>1, <5>1
        <5>3. h[x \ {Max(x)}] = g[x \ {Max(x)}] /\ h[x] = g[x]
          BY <3>2
        <5> QED BY <4>2, <4>3, <5>2, <5>3
      <4>4. CASE x = {}
        BY <3>2, <4>2, <4>4
      <4> QED BY <4>3, <4>4
    <3> QED BY <3>1, <3>2
  <2>5. Routing(h, cursor, s, cols)
    BY <2>4 DEF Routing
  <2> QED BY <2>5
<1>3. Nat \subseteq S
  <2> HIDE DEF S
  <2> QED BY <1>1, <1>2, NatSetInduction
<1> QED BY <1>3

LEMMA RoutingStart ==
  ASSUME NEW cursor, NEW s, NEW cols, NEW h, Routing(h, cursor, s, cols)
  PROVE h[1 .. 0] = cursor
<1>1. 1 .. 0 = {}
  OBVIOUS
<1>2. {} \in SUBSET DOMAIN cols
  OBVIOUS
<1>3. h[{}] = cursor
  BY <1>2 DEF Routing
<1> QED BY <1>1, <1>3

LEMMA RoutingNext ==
  ASSUME NEW X, NEW cursor, NEW s, NEW cols \in Seq(X), NEW h,
         Routing(h, cursor, s, cols), NEW k \in 1 .. Len(cols)
  PROVE h[1 .. k] = Advance(h[1 .. (k - 1)], s, cols[k])
<1>1. DOMAIN cols = 1 .. Len(cols) /\ Len(cols) \in Nat
  OBVIOUS
<1>2. /\ (1 .. k) \in SUBSET DOMAIN cols /\ 1 .. k # {} /\ 1 .. k \subseteq Nat
      /\ k \in 1 .. k /\ \A x \in 1 .. k : k >= x
  <2>1. k \in 1 .. k /\ \A x \in 1 .. k : x \in Nat /\ k >= x /\ x \in DOMAIN cols
    BY <1>1
  <2> QED BY <2>1
<1>3. Max(1 .. k) = k
  BY <1>2, MaxOf
<1>4. (1 .. k) \ {k} = 1 .. (k - 1)
  BY <1>1
<1>5. h[1 .. k] = Advance(h[(1 .. k) \ {Max(1 .. k)}], s, cols[Max(1 .. k)])
  BY <1>2 DEF Routing
<1> QED BY <1>3, <1>4, <1>5

\* Two sequences with a common beginning are routed alike up to its end
LEMMA RoutingAgrees ==
  ASSUME NEW X, NEW cursor, NEW s, NEW cols \in Seq(X), NEW front \in Seq(X),
         Len(front) <= Len(cols), \A j \in 1 .. Len(front) : front[j] = cols[j],
         NEW h, Routing(h, cursor, s, cols), NEW g, Routing(g, cursor, s, front)
  PROVE h[1 .. Len(front)] = g[1 .. Len(front)]
<1> DEFINE S == {k \in Nat : k <= Len(front) => h[1 .. k] = g[1 .. k]}
<1>1. 0 \in S
  BY RoutingStart
<1>2. ASSUME NEW k \in Nat, k \in S PROVE k + 1 \in S
  <2> SUFFICES ASSUME k + 1 <= Len(front) PROVE h[1 .. (k + 1)] = g[1 .. (k + 1)]
    OBVIOUS
  <2>1. k + 1 \in 1 .. Len(front) /\ k + 1 \in 1 .. Len(cols) /\ (k + 1) - 1 = k
    OBVIOUS
  <2>2. h[1 .. (k + 1)] = Advance(h[1 .. k], s, cols[k + 1])
    BY <2>1, RoutingNext
  <2>3. g[1 .. (k + 1)] = Advance(g[1 .. k], s, front[k + 1])
    BY <2>1, RoutingNext
  <2>4. h[1 .. k] = g[1 .. k] /\ front[k + 1] = cols[k + 1]
    BY <1>2, <2>1
  <2> QED BY <2>2, <2>3, <2>4
<1>3. Nat \subseteq S
  <2> HIDE DEF S
  <2> QED BY <1>1, <1>2, NatSetInduction
<1> QED BY <1>3

LEMMA AfterZero ==
  ASSUME NEW X, NEW cursor, NEW frame, frame.columns \in Seq(X)
  PROVE After(cursor, frame, 0) = cursor
<1> DEFINE cols == SubSeq(frame.columns, 1, 0)
           h == CHOOSE g : Routing(g, cursor, frame.session, cols)
<1>1. cols \in Seq(X) /\ DOMAIN cols = 1 .. 0
  OBVIOUS
<1>2. After(cursor, frame, 0) = h[DOMAIN cols]
  BY AfterIsRouting
<1> HIDE DEF cols
<1>3. Routing(h, cursor, frame.session, cols)
  BY <1>1, RoutingExists
<1> HIDE DEF h
<1>4. h[1 .. 0] = cursor
  BY <1>3, RoutingStart
<1> QED BY <1>1, <1>2, <1>4

LEMMA AfterNext ==
  ASSUME NEW cursor, NEW frame, NEW i
  PROVE frame.columns \in Seq(Columns) /\ i \in 1 .. Len(frame.columns) =>
          After(cursor, frame, i) =
            Advance(After(cursor, frame, i - 1), frame.session, frame.columns[i])
<1> SUFFICES ASSUME frame.columns \in Seq(Columns), i \in 1 .. Len(frame.columns)
             PROVE After(cursor, frame, i) =
                     Advance(After(cursor, frame, i - 1), frame.session, frame.columns[i])
  OBVIOUS
<1> DEFINE s == frame.session
           cols == SubSeq(frame.columns, 1, i)
           h == CHOOSE f : Routing(f, cursor, s, cols)
           front == SubSeq(frame.columns, 1, i - 1)
           g == CHOOSE f : Routing(f, cursor, s, front)
<1>1. /\ cols \in Seq(Columns) /\ Len(cols) = i /\ DOMAIN cols = 1 .. i
      /\ front \in Seq(Columns) /\ Len(front) = i - 1 /\ DOMAIN front = 1 .. (i - 1)
      /\ cols[i] = frame.columns[i] /\ i \in 1 .. i
      /\ \A j \in 1 .. (i - 1) : front[j] = cols[j]
  OBVIOUS
<1>2. After(cursor, frame, i) = h[DOMAIN cols]
  BY AfterIsRouting
<1>3. After(cursor, frame, i - 1) = g[DOMAIN front]
  BY AfterIsRouting
<1> HIDE DEF cols, front
<1>4. Routing(h, cursor, s, cols) /\ Routing(g, cursor, s, front)
  BY <1>1, RoutingExists
<1> HIDE DEF h, g
<1>5. h[1 .. (i - 1)] = g[1 .. (i - 1)]
  <2>1. Len(front) <= Len(cols)
    BY <1>1
  <2>2. h[1 .. Len(front)] = g[1 .. Len(front)]
    BY <1>1, <1>4, <2>1, RoutingAgrees
  <2> QED BY <1>1, <2>2
<1>6. h[1 .. i] = Advance(h[1 .. (i - 1)], s, cols[i])
  BY <1>1, <1>4, RoutingNext
<1> QED BY <1>1, <1>2, <1>3, <1>5, <1>6

----------------------------------------------------------------------------
(* The frames of one broadcast are at most two *)

Offering(h, box, frames) ==
  h = [x \in SUBSET DOMAIN frames |->
         IF x = {} THEN box ELSE Offer(h[x \ {Max(x)}], frames[Max(x)])]

LEMMA OfferAllIsOffering ==
  ASSUME NEW box, NEW frames
  PROVE OfferAll(box, frames) =
          (CHOOSE h : Offering(h, box, frames))[DOMAIN frames]
BY DEF OfferAll, FoldLeft, MapThenFoldSet, Offering

LEMMA OfferOne ==
  ASSUME NEW box, NEW f PROVE OfferAll(box, <<f>>) = Offer(box, f)
<1> DEFINE fs == <<f>>
           h == CHOOSE g : Offering(g, box, fs)
           w == [x \in SUBSET {1} |-> IF x = {} THEN box ELSE Offer(box, f)]
<1>1. DOMAIN fs = {1} /\ fs[1] = f
  OBVIOUS
<1>2. \A x \in SUBSET {1} : x = {} \/ x = {1}
  OBVIOUS
<1>3. Max({1}) = 1
  BY MaxOf
<1>4. OfferAll(box, fs) = h[{1}]
  BY <1>1, OfferAllIsOffering
<1> HIDE DEF fs
<1>5. Offering(w, box, fs)
  <2> DEFINE body(x) == IF x = {} THEN box ELSE Offer(w[x \ {Max(x)}], fs[Max(x)])
  <2>1. w[{}] = box /\ w[{1}] = Offer(box, f) /\ {1} \ {Max({1})} = {} /\ {1} # {}
    BY <1>3
  <2>2. w[{}] = body({}) /\ w[{1}] = body({1})
    <3> HIDE DEF w
    <3> QED BY <1>1, <1>3, <2>1
  <2>3. \A x \in SUBSET {1} : w[x] = body(x)
    <3> HIDE DEF body, w
    <3> QED BY <1>2, <2>2
  <2>4. w = [x \in SUBSET {1} |-> w[x]]
    OBVIOUS
  <2>5. w = [x \in SUBSET {1} |-> body(x)]
    <3> HIDE DEF body, w
    <3> QED BY <2>3, <2>4
  <2> HIDE DEF w
  <2> QED BY <1>1, <2>5 DEF Offering
<1>6. Offering(h, box, fs)
  BY <1>5
<1> HIDE DEF h
<1>7. h[{}] = box /\ h[{1}] = Offer(h[{1} \ {Max({1})}], fs[Max({1})])
  BY <1>1, <1>6 DEF Offering
<1> QED BY <1>1, <1>3, <1>4, <1>7 DEF fs

LEMMA OfferTwo ==
  ASSUME NEW box, NEW f1, NEW f2
  PROVE OfferAll(box, <<f1, f2>>) = Offer(Offer(box, f1), f2)
<1> DEFINE fs == <<f1, f2>>
           h == CHOOSE g : Offering(g, box, fs)
           one == Offer(box, f1)
           w == [x \in SUBSET {1, 2} |->
                   IF x = {} THEN box
                   ELSE IF x = {1} THEN one
                   ELSE IF x = {2} THEN Offer(box, f2) ELSE Offer(one, f2)]
<1>1. DOMAIN fs = {1, 2} /\ fs[1] = f1 /\ fs[2] = f2
  OBVIOUS
<1>2. \A x \in SUBSET {1, 2} : x \in {{}, {1}, {2}, {1, 2}}
  <2>1. ASSUME NEW x \in SUBSET {1, 2} PROVE x \in {{}, {1}, {2}, {1, 2}}
    <3>1. CASE 1 \in x /\ 2 \in x
      <4>1. x = {1, 2}
        BY <3>1
      <4> QED BY <4>1
    <3>2. CASE 1 \in x /\ 2 \notin x
      <4>1. x = {1}
        BY <3>2
      <4> QED BY <4>1
    <3>3. CASE 1 \notin x /\ 2 \in x
      <4>1. x = {2}
        BY <3>3
      <4> QED BY <4>1
    <3>4. CASE 1 \notin x /\ 2 \notin x
      <4>1. x = {}
        BY <3>4
      <4> QED BY <4>1
    <3> QED BY <3>1, <3>2, <3>3, <3>4
  <2> QED BY <2>1
<1>3. Max({1}) = 1 /\ Max({2}) = 2 /\ Max({1, 2}) = 2
  <2>1. \A x \in {1, 2} : 2 >= x
    OBVIOUS
  <2>2. Max({1, 2}) = 2
    BY <2>1, MaxOf
  <2>3. Max({1}) = 1
    BY MaxOf
  <2>4. Max({2}) = 2
    BY MaxOf
  <2> QED BY <2>2, <2>3, <2>4
<1>4. OfferAll(box, fs) = h[{1, 2}]
  BY <1>1, OfferAllIsOffering
<1> HIDE DEF fs
<1>5. {1} # {} /\ {2} # {} /\ {1, 2} # {} /\ {2} # {1} /\ {1, 2} # {1}
      /\ {1, 2} # {2} /\ {1, 2} \ {2} = {1} /\ {1} \ {1} = {} /\ {2} \ {2} = {}
  OBVIOUS
<1>6. Offering(w, box, fs)
  <2>1. /\ w[{}] = box /\ w[{1}] = one /\ w[{2}] = Offer(box, f2)
        /\ w[{1, 2}] = Offer(one, f2)
    <3> HIDE DEF one
    <3> QED BY <1>5
  <2> DEFINE body(x) == IF x = {} THEN box
                        ELSE Offer(w[x \ {Max(x)}], fs[Max(x)])
  <2>2. /\ w[{}] = body({}) /\ w[{1}] = body({1}) /\ w[{2}] = body({2})
        /\ w[{1, 2}] = body({1, 2})
    <3> HIDE DEF w
    <3> QED BY <1>1, <1>3, <1>5, <2>1
  <2>3. \A x \in SUBSET {1, 2} : w[x] = body(x)
    <3> HIDE DEF body, w
    <3> QED BY <1>2, <2>2
  <2>4. w = [x \in SUBSET {1, 2} |-> w[x]]
    OBVIOUS
  <2>5. w = [x \in SUBSET {1, 2} |-> body(x)]
    <3> HIDE DEF body, w
    <3> QED BY <2>3, <2>4
  <2> HIDE DEF w
  <2> QED BY <1>1, <2>5 DEF Offering
<1>7. Offering(h, box, fs)
  <2> HIDE DEF w
  <2> QED BY <1>6
<1> HIDE DEF h, w
<1>8. /\ h[{}] = box
      /\ h[{1}] = Offer(h[{1} \ {Max({1})}], fs[Max({1})])
      /\ h[{1, 2}] = Offer(h[{1, 2} \ {Max({1, 2})}], fs[Max({1, 2})])
  BY <1>1, <1>5, <1>7 DEF Offering
<1>9. h[{1}] = one /\ h[{1, 2}] = Offer(h[{1}], f2)
  BY <1>1, <1>3, <1>5, <1>8
<1> QED BY <1>4, <1>9 DEF fs

----------------------------------------------------------------------------
(* Frames and queues *)

\* What any frame is like: a hello is protected, columns are in a columns
\* frame, which announces nothing, and follow each other
WireFrame ==
  {f \in Frames :
     /\ f.kind = "hello" => f.protected
     /\ f.columns # <<>> => f.kind = "columns"
     /\ f.kind = "columns" => f.announces = {}
     /\ \A i \in DOMAIN f.columns : f.columns[i].seq = f.columns[1].seq + i - 1}

Box == [queue: Seq(WireFrame), evicted: SUBSET WireFrame]

LEMMA FrameFacts ==
  ASSUME NEW f \in WireFrame
  PROVE /\ f.session \in 1 .. MaxStarts /\ f.session \in Nat /\ f.session # None
        /\ f.announces \in SUBSET (0 .. MaxEpoch)
        /\ f.columns \in Seq(Columns)
        /\ DOMAIN f.columns = 1 .. Len(f.columns) /\ Len(f.columns) \in Nat
        /\ f.kind \in {"hello", "columns", "epoch", "status"}
        /\ f.kind = "hello" => f.protected
        /\ f.columns # <<>> => f.kind = "columns"
        /\ f.kind = "columns" => f.announces = {}
        /\ \A i \in DOMAIN f.columns :
             /\ f.columns[i] \in Columns
             /\ f.columns[i].seq \in 1 .. MaxColumns /\ f.columns[i].seq \in Nat
             /\ f.columns[i].epoch \in 0 .. MaxEpoch
             /\ f.columns[i].seq = f.columns[1].seq + i - 1
<1>1. f \in Frames /\ f.columns \in Seq(Columns)
  BY DEF WireFrame, Frames, Columns
<1>2. \A i \in DOMAIN f.columns : f.columns[i] \in Columns
  BY <1>1
<1>3. \A i \in DOMAIN f.columns :
        /\ f.columns[i].seq \in 1 .. MaxColumns /\ f.columns[i].seq \in Nat
        /\ f.columns[i].epoch \in 0 .. MaxEpoch
  BY <1>2 DEF Columns
<1>4. f.session \in 1 .. MaxStarts /\ f.session \in Nat /\ f.session # None
  BY <1>1, FlowAssumption DEF Frames, None
<1>5. f.announces \in SUBSET (0 .. MaxEpoch)
      /\ f.kind \in {"hello", "columns", "epoch", "status"}
  BY <1>1 DEF Frames
<1> QED BY <1>1, <1>2, <1>3, <1>4, <1>5 DEF WireFrame

LEMMA RemoveFacts ==
  ASSUME NEW X, NEW q \in Seq(X), NEW i \in DOMAIN q
  PROVE LET r == RemoveAt(q, i)
        IN /\ r \in Seq(X) /\ Len(r) = Len(q) - 1
           /\ \A j \in 1 .. Len(q) - 1 : r[j] = IF j < i THEN q[j] ELSE q[j + 1]
<1> DEFINE a == SubSeq(q, 1, i - 1)
           b == SubSeq(q, i + 1, Len(q))
<1>1. i \in 1 .. Len(q) /\ Len(q) \in Nat
  OBVIOUS
<1>2. /\ a \in Seq(X) /\ Len(a) = i - 1
      /\ \A j \in 1 .. (i - 1) : a[j] = q[j]
  BY <1>1
<1>3. /\ b \in Seq(X) /\ Len(b) = Len(q) - i
      /\ \A j \in 1 .. Len(q) - i : b[j] = q[i + j]
  BY <1>1
<1>4. RemoveAt(q, i) = a \o b
  BY DEF RemoveAt
<1> HIDE DEF a, b
<1>5. /\ a \o b \in Seq(X) /\ Len(a \o b) = Len(a) + Len(b)
      /\ \A j \in 1 .. Len(a) + Len(b) :
           (a \o b)[j] = IF j <= Len(a) THEN a[j] ELSE b[j - Len(a)]
  BY <1>2, <1>3, SMTT(30)
<1>6. ASSUME NEW j \in 1 .. Len(q) - 1
      PROVE (a \o b)[j] = IF j < i THEN q[j] ELSE q[j + 1]
  <2>1. CASE j < i
    BY <1>1, <1>2, <1>3, <1>5, <2>1, SMTT(30)
  <2>2. CASE ~(j < i)
    <3>1. (a \o b)[j] = b[j - (i - 1)]
      <4>1. j \in 1 .. Len(a) + Len(b) /\ ~(j <= Len(a)) /\ Len(a) = i - 1
        BY <1>1, <1>2, <1>3, <2>2
      <4> HIDE DEF a, b
      <4> QED BY <1>5, <4>1
    <3>2. b[j - (i - 1)] = q[i + (j - (i - 1))]
      BY <1>1, <1>3, <2>2
    <3>3. i + (j - (i - 1)) = j + 1
      BY <1>1
    <3> QED BY <2>2, <3>1, <3>2, <3>3
  <2> QED BY <2>1, <2>2
<1>7. Len(a \o b) = Len(q) - 1
  BY <1>1, <1>2, <1>3, <1>5
<1> QED BY <1>4, <1>5, <1>6, <1>7, SMTT(30)

WithFrame(box, f) == [box EXCEPT !.queue = Append(@, f)]

\* A frame is appended, and an unprotected one may have to go for it
LEMMA OfferCases ==
  ASSUME NEW box \in Box, NEW f
  PROVE \/ Offer(box, f) = [box EXCEPT !.queue = Append(@, f)]
        \/ /\ ~f.protected
           /\ \E i \in DOMAIN box.queue :
                /\ ~box.queue[i].protected
                /\ Offer(box, f) =
                     [queue |-> Append(RemoveAt(box.queue, i), f),
                      evicted |-> box.evicted \cup {box.queue[i]}]
<1> DEFINE E == Evictable(box.queue)
           oldest == CHOOSE i \in E : \A j \in E : i <= j
<1>1. CASE Len(box.queue) < QueueCap \/ f.protected \/ E = {}
  BY <1>1 DEF Offer
<1>2. CASE ~(Len(box.queue) < QueueCap \/ f.protected \/ E = {})
  <2>1. E \subseteq Nat /\ E # {}
    BY <1>2 DEF Evictable, Box
  <2> HIDE DEF E
  <2>5. \E x \in E : \A y \in E : x <= y
    BY <2>1, LeastOf
  <2>6. oldest \in E
    BY <2>5
  <2>7. oldest \in DOMAIN box.queue /\ ~box.queue[oldest].protected
    BY <2>6 DEF E, Evictable
  <2>8. Offer(box, f) = [queue |-> Append(RemoveAt(box.queue, oldest), f),
                         evicted |-> box.evicted \cup {box.queue[oldest]}]
    BY <1>2 DEF Offer, E
  <2> QED BY <1>2, <2>7, <2>8
<1> QED BY <1>1, <1>2

LEMMA OfferTyped ==
  ASSUME NEW box \in Box, NEW f \in WireFrame PROVE Offer(box, f) \in Box
<1>1. box.queue \in Seq(WireFrame) /\ box.evicted \in SUBSET WireFrame
  BY DEF Box
<1>2. ASSUME NEW i \in DOMAIN box.queue
      PROVE [queue |-> Append(RemoveAt(box.queue, i), f),
             evicted |-> box.evicted \cup {box.queue[i]}] \in Box
  <2>1. RemoveAt(box.queue, i) \in Seq(WireFrame) /\ box.queue[i] \in WireFrame
    BY <1>1, RemoveFacts
  <2>2. Append(RemoveAt(box.queue, i), f) \in Seq(WireFrame)
    BY <2>1
  <2> QED BY <1>1, <2>1, <2>2 DEF Box
<1>3. [box EXCEPT !.queue = Append(@, f)] \in Box
  <2>1. Append(box.queue, f) \in Seq(WireFrame)
    BY <1>1
  <2> QED BY <1>1, <2>1 DEF Box
<1>4. CASE Offer(box, f) = [box EXCEPT !.queue = Append(@, f)]
  BY <1>3, <1>4
<1>5. CASE ~(Offer(box, f) = [box EXCEPT !.queue = Append(@, f)])
  <2>1. PICK i \in DOMAIN box.queue :
          Offer(box, f) = [queue |-> Append(RemoveAt(box.queue, i), f),
                           evicted |-> box.evicted \cup {box.queue[i]}]
    BY <1>5, OfferCases
  <2> QED BY <1>2, <2>1
<1> QED BY <1>4, <1>5

LEMMA OfferProtected ==
  ASSUME NEW box \in Box, NEW f, f.protected
  PROVE Offer(box, f) = [box EXCEPT !.queue = Append(@, f)]
BY DEF Offer

\* An offer loses no frame: each is still queued, or counted among the evicted
LEMMA OfferKeepsFrames ==
  ASSUME NEW box \in Box, NEW f \in WireFrame
  PROVE /\ box.evicted \subseteq Offer(box, f).evicted
        /\ Range(box.queue) \cup box.evicted \cup {f}
             \subseteq Range(Offer(box, f).queue) \cup Offer(box, f).evicted
<1> DEFINE q == box.queue
<1>1. q \in Seq(WireFrame) /\ box.evicted \in SUBSET WireFrame
  BY DEF Box
<1>2. CASE Offer(box, f) = [box EXCEPT !.queue = Append(@, f)]
  <2>1. Offer(box, f).queue = Append(q, f) /\ Offer(box, f).evicted = box.evicted
    BY <1>2 DEF Box
  <2>2. \A i \in DOMAIN q : i \in DOMAIN Append(q, f) /\ Append(q, f)[i] = q[i]
    BY <1>1
  <2>3. Len(q) + 1 \in DOMAIN Append(q, f) /\ Append(q, f)[Len(q) + 1] = f
    BY <1>1
  <2>4. Range(q) \subseteq Range(Append(q, f)) /\ f \in Range(Append(q, f))
    <3> HIDE DEF q
    <3> QED BY <2>2, <2>3 DEF Range
  <2> QED BY <2>1, <2>4
<1>3. ASSUME NEW i \in DOMAIN q,
             Offer(box, f) = [queue |-> Append(RemoveAt(q, i), f),
                              evicted |-> box.evicted \cup {q[i]}]
      PROVE /\ box.evicted \subseteq Offer(box, f).evicted
            /\ Range(q) \cup box.evicted \cup {f}
                 \subseteq Range(Offer(box, f).queue) \cup Offer(box, f).evicted
  <2> DEFINE r == RemoveAt(q, i)
  <2>1. /\ r \in Seq(WireFrame) /\ Len(r) = Len(q) - 1
        /\ \A j \in 1 .. Len(q) - 1 : r[j] = IF j < i THEN q[j] ELSE q[j + 1]
    BY <1>1, RemoveFacts
  <2> HIDE DEF r
  <2>2. \A j \in DOMAIN r : j \in DOMAIN Append(r, f) /\ Append(r, f)[j] = r[j]
    BY <2>1
  <2>3. Len(r) + 1 \in DOMAIN Append(r, f) /\ Append(r, f)[Len(r) + 1] = f
    BY <2>1
  <2>4. ASSUME NEW j \in DOMAIN q, j # i PROVE q[j] \in Range(Append(r, f))
    <3>1. CASE j < i
      <4>1. j \in DOMAIN r /\ r[j] = q[j]
        BY <1>1, <2>1, <3>1
      <4> QED BY <2>2, <4>1 DEF Range
    <3>2. CASE j > i
      <4>1. j - 1 \in DOMAIN r /\ r[j - 1] = q[j]
        BY <1>1, <2>1, <3>2
      <4> QED BY <2>2, <4>1 DEF Range
    <3> QED BY <1>1, <2>4, <3>1, <3>2
  <2>5. Offer(box, f).queue = Append(r, f)
        /\ Offer(box, f).evicted = box.evicted \cup {q[i]}
    BY <1>3 DEF r
  <2> HIDE DEF q
  <2>6. Range(q) \subseteq Range(Append(r, f)) \cup {q[i]}
    BY <2>4 DEF Range
  <2>7. f \in Range(Append(r, f))
    BY <2>3 DEF Range
  <2> QED BY <2>5, <2>6, <2>7
<1> QED BY <1>2, <1>3, OfferCases

----------------------------------------------------------------------------
(* What a session has, and what it sends *)

FlowSession ==
  {x \in [key: Keys, state: {"booting", "live", "crashed", "stopped"},
          columns: Seq(0 .. MaxEpoch), epoch: 0 .. MaxEpoch] :
     /\ Len(x.columns) <= MaxColumns
     /\ x.state = "booting" => x.columns = <<>> /\ x.epoch = 0}

SessionsTyped == sessions \in Seq(FlowSession) /\ Len(sessions) <= MaxStarts

LEMMA FlowSessionFacts ==
  ASSUME SessionsTyped, NEW s \in Started
  PROVE /\ s \in 1 .. Len(sessions) /\ s \in 1 .. MaxStarts /\ s \in Nat /\ s # None
        /\ sessions[s] \in FlowSession
        /\ sessions[s].columns \in Seq(0 .. MaxEpoch)
        /\ Len(sessions[s].columns) \in Nat
        /\ Len(sessions[s].columns) <= MaxColumns
        /\ sessions[s].epoch \in 0 .. MaxEpoch
        /\ sessions[s].state = "booting" =>
             sessions[s].columns = <<>> /\ sessions[s].epoch = 0
<1>1. s \in 1 .. Len(sessions) /\ sessions[s] \in FlowSession /\ Len(sessions) \in Nat
      /\ Len(sessions) <= MaxStarts
  BY DEF SessionsTyped, Started
<1>2. s \in 1 .. MaxStarts /\ s \in Nat /\ s # None
  BY <1>1, FlowAssumption DEF None
<1>3. sessions[s].columns \in Seq(0 .. MaxEpoch)
  BY <1>1 DEF FlowSession
<1> QED BY <1>1, <1>2, <1>3 DEF FlowSession

ColumnFrame(s) ==
  Frame("columns", s, {},
        <<Column(Len(sessions[s].columns) + 1, sessions[s].epoch)>>, FALSE)
EpochFrame(s) == Frame("epoch", s, {sessions[s].epoch + 1}, <<>>, FALSE)
StatusFrame(s) == Frame("status", s, {}, <<>>, FALSE)

LEMMA OneColumnFrame ==
  ASSUME NEW s \in 1 .. MaxStarts, NEW n \in 1 .. MaxColumns, NEW e \in 0 .. MaxEpoch
  PROVE Frame("columns", s, {}, <<Column(n, e)>>, FALSE) \in WireFrame
<1> DEFINE col == Column(n, e)
           f == Frame("columns", s, {}, <<col>>, FALSE)
<1>1. col \in Columns /\ col.seq = n /\ n \in Int
  BY DEF Column, Columns
<1> HIDE DEF col
<1>2. <<col>> \in Seq(Columns) /\ DOMAIN <<col>> = {1} /\ <<col>>[1] = col
  BY <1>1
<1>3. f \in Frames
  BY <1>2 DEF Frame, Frames, Columns
<1>4. /\ f.kind = "columns" /\ f.announces = {} /\ f.columns = <<col>>
  BY DEF Frame
<1> HIDE DEF f
<1>5. \A i \in DOMAIN f.columns : f.columns[i].seq = f.columns[1].seq + i - 1
  BY <1>1, <1>2, <1>4
<1>6. f \in WireFrame
  BY <1>3, <1>4, <1>5 DEF WireFrame
<1> QED BY <1>6 DEF f, col

LEMMA PlainFrame ==
  ASSUME NEW s \in 1 .. MaxStarts, NEW k \in {"hello", "epoch", "status"},
         NEW A \in SUBSET (0 .. MaxEpoch), NEW b \in BOOLEAN,
         k = "hello" => b = TRUE
  PROVE Frame(k, s, A, <<>>, b) \in WireFrame
<1> DEFINE f == Frame(k, s, A, <<>>, b)
<1>1. <<>> \in Seq([seq: 1 .. MaxColumns, epoch: 0 .. MaxEpoch]) /\ DOMAIN <<>> = {}
  OBVIOUS
<1>2. f \in Frames
  BY <1>1 DEF Frame, Frames
<1>3. f.kind = k /\ f.columns = <<>> /\ f.protected = b
  BY DEF Frame
<1> HIDE DEF f
<1>4. f \in WireFrame
  BY <1>1, <1>2, <1>3 DEF WireFrame
<1> QED BY <1>4 DEF f

\* The newest columns: they follow each other up to the last one
LEMMA RecentFacts ==
  ASSUME NEW cols \in Seq(0 .. MaxEpoch), Len(cols) <= MaxColumns
  PROVE LET r == Recent(cols)
        IN /\ r \in Seq(Columns) /\ Len(r) \in Nat /\ DOMAIN r = 1 .. Len(r)
           /\ r = <<>> <=> cols = <<>>
           /\ Len(r) <= Len(cols)
           /\ \A i \in 1 .. Len(r) : /\ r[i] \in Columns
                                     /\ r[i].seq = Len(cols) - Len(r) + i
                                     /\ r[i].epoch = cols[r[i].seq]
           /\ Len(r) = IF Len(cols) < SnapshotCols THEN Len(cols) ELSE SnapshotCols
<1> DEFINE m == IF Len(cols) < SnapshotCols THEN Len(cols) ELSE SnapshotCols
           r == Recent(cols)
           at(i) == i + (IF Len(cols) < SnapshotCols THEN 0
                                                     ELSE Len(cols) - SnapshotCols)
<1>1. Len(cols) \in Nat /\ m \in Nat /\ m <= Len(cols)
  BY FlowAssumption
<1>2. r = [i \in 1 .. m |-> Column(at(i), cols[at(i)])]
  BY DEF Recent
<1>3. \A i \in 1 .. m : at(i) = Len(cols) - m + i /\ at(i) \in 1 .. Len(cols)
  BY <1>1, FlowAssumption
<1> HIDE DEF at, r, m
<1>4. ASSUME NEW i \in 1 .. m
      PROVE /\ r[i] \in Columns /\ r[i].seq = Len(cols) - m + i
            /\ r[i].epoch = cols[r[i].seq]
  <2>1. r[i] = [seq |-> at(i), epoch |-> cols[at(i)]]
    BY <1>2 DEF Column
  <2>2. at(i) = Len(cols) - m + i /\ at(i) \in 1 .. Len(cols)
    BY <1>3
  <2>3. cols[at(i)] \in 0 .. MaxEpoch /\ at(i) \in 1 .. MaxColumns
    BY <1>1, <2>2, FlowAssumption
  <2> QED BY <2>1, <2>2, <2>3 DEF Columns
<1>5. r \in Seq(Columns) /\ Len(r) = m /\ DOMAIN r = 1 .. m
  <2>1. r \in [1 .. m -> Columns]
    BY <1>2, <1>4
  <2> QED BY <1>1, <2>1
<1>6. r = <<>> <=> m = 0
  BY <1>1, <1>5
<1>7. m = 0 <=> cols = <<>>
  BY <1>1, FlowAssumption DEF m
<1>8. Len(r) = IF Len(cols) < SnapshotCols THEN Len(cols) ELSE SnapshotCols
  BY <1>5 DEF m
<1> QED BY <1>1, <1>4, <1>5, <1>6, <1>7, <1>8 DEF r

HelloFrame(s, cols, epoch) ==
  Frame("hello", s, {Recent(cols)[i].epoch : i \in DOMAIN Recent(cols)} \cup {epoch},
        <<>>, TRUE)
RecentFrame(s, cols) == Frame("columns", s, {}, Recent(cols), TRUE)

\* A snapshot is queued whole, behind what is queued already
LEMMA SnapshotFacts ==
  ASSUME NEW s \in 1 .. MaxStarts, NEW cols \in Seq(0 .. MaxEpoch),
         Len(cols) <= MaxColumns, NEW epoch \in 0 .. MaxEpoch, NEW box \in Box
  PROVE /\ HelloFrame(s, cols, epoch) \in WireFrame
        /\ RecentFrame(s, cols) \in WireFrame
        /\ LET hello == WithFrame(box, HelloFrame(s, cols, epoch))
               after == OfferAll(box, Snapshot(s, cols, epoch))
           IN /\ hello \in Box /\ after \in Box
              /\ cols = <<>> => after = hello
              /\ cols # <<>> =>
                   after = WithFrame(hello, RecentFrame(s, cols))
<1> DEFINE r == Recent(cols)
           f == HelloFrame(s, cols, epoch)
           g == RecentFrame(s, cols)
           hello == WithFrame(box, f)
<1>1. /\ r \in Seq(Columns) /\ Len(r) \in Nat /\ DOMAIN r = 1 .. Len(r)
      /\ r = <<>> <=> cols = <<>>
      /\ \A i \in 1 .. Len(r) : r[i] \in Columns /\ r[i].seq = Len(cols) - Len(r) + i
  BY RecentFacts
<1>2. f \in WireFrame
  <2>1. \A i \in 1 .. Len(r) : r[i].epoch \in 0 .. MaxEpoch
    BY <1>1 DEF Columns
  <2>2. {r[i].epoch : i \in DOMAIN r} \cup {epoch} \in SUBSET (0 .. MaxEpoch)
    BY <1>1, <2>1
  <2> QED BY <2>2, PlainFrame DEF HelloFrame
<1>3. g \in WireFrame
  <2>1. g.kind = "columns" /\ g.announces = {} /\ g.columns = r
    BY DEF RecentFrame, Frame
  <2>2. g \in Frames
    BY <1>1 DEF RecentFrame, Frame, Frames, Columns
  <2>3. ASSUME NEW i \in DOMAIN r PROVE r[i].seq = r[1].seq + i - 1
    <3>1. 1 \in 1 .. Len(r) /\ i \in 1 .. Len(r) /\ Len(cols) \in Nat
      BY <1>1, <2>3
    <3>2. r[i].seq = Len(cols) - Len(r) + i /\ r[1].seq = Len(cols) - Len(r) + 1
      BY <1>1, <3>1
    <3> QED BY <1>1, <3>1, <3>2
  <2> HIDE DEF g, r
  <2> QED BY <2>1, <2>2, <2>3 DEF WireFrame
<1>4. f.protected /\ g.protected
  BY DEF HelloFrame, RecentFrame, Frame
<1>5. Snapshot(s, cols, epoch) = IF r = <<>> THEN <<f>> ELSE <<f, g>>
  BY DEF Snapshot, HelloFrame, RecentFrame
<1> HIDE DEF f, g, r
<1>6. hello \in Box /\ Offer(box, f) = hello
  BY <1>2, <1>4, OfferTyped, OfferProtected DEF WithFrame
<1>7. OfferAll(box, <<f>>) = hello
  BY <1>6, OfferOne
<1>8. /\ OfferAll(box, <<f, g>>) = WithFrame(hello, g)
      /\ WithFrame(hello, g) \in Box
  <2> HIDE DEF hello
  <2>1. Offer(hello, g) \in Box /\ Offer(hello, g) = WithFrame(hello, g)
    BY <1>3, <1>4, <1>6, OfferTyped, OfferProtected DEF WithFrame
  <2>2. OfferAll(box, <<f, g>>) = Offer(Offer(box, f), g)
    BY OfferTwo
  <2> QED BY <1>6, <2>1, <2>2
<1> HIDE DEF hello
<1>9. CASE cols = <<>>
  BY <1>1, <1>2, <1>3, <1>5, <1>6, <1>7, <1>9 DEF hello, f, g
<1>10. CASE cols # <<>>
  BY <1>1, <1>2, <1>3, <1>5, <1>6, <1>8, <1>10 DEF hello, f, g
<1> QED BY <1>9, <1>10

----------------------------------------------------------------------------
(* What a step of the hub does to a connection: it leaves its session, it  *)
(* joins one, it is fed a column or an epoch, or nothing happens to its    *)
(* stream (a Status may be offered)                                        *)

Boxes == tx \in [Conns -> Box]

SameStream(s) ==
  /\ sessions'[s].columns = sessions[s].columns
  /\ sessions'[s].epoch = sessions[s].epoch

Left(d) ==
  /\ handler'[d].session = None
  /\ tx'[d] = tx[d] \/ tx'[d] = [tx[d] EXCEPT !.queue = <<>>]

Joined(d) ==
  LET s == handler'[d].session
  IN /\ s \in Started
     /\ tx'[d] = OfferAll(tx[d], Snapshot(s, sessions'[s].columns, sessions'[s].epoch))

Idle(d) ==
  LET s == handler[d].session
  IN /\ handler'[d].session = s
     /\ s # None => SameStream(s)
     /\ tx'[d] = tx[d] \/ (s # None /\ tx'[d] = Offer(tx[d], StatusFrame(s)))

FedColumn(d, s) ==
  /\ sessions'[s].columns = Append(sessions[s].columns, sessions[s].epoch)
  /\ sessions'[s].epoch = sessions[s].epoch
  /\ tx'[d] = Offer(tx[d], ColumnFrame(s))
FedEpoch(d, s) ==
  /\ sessions'[s].columns = sessions[s].columns
  /\ sessions'[s].epoch = sessions[s].epoch + 1
  /\ tx'[d] = Offer(tx[d], EpochFrame(s))
FedBoth(d, s) ==
  /\ sessions'[s].columns = Append(sessions[s].columns, sessions[s].epoch)
  /\ sessions'[s].epoch = sessions[s].epoch + 1
  /\ tx'[d] = Offer(Offer(tx[d], ColumnFrame(s)), EpochFrame(s))

Fed(d) ==
  LET s == handler[d].session
  IN /\ s # None /\ handler'[d].session = s
     /\ FedColumn(d, s) \/ FedEpoch(d, s) \/ FedBoth(d, s)

\* Columns are only ever appended, but for the backfill of a boot
Grows(s) ==
  \/ SameStream(s)
  \/ /\ sessions'[s].columns = Append(sessions[s].columns, sessions[s].epoch)
     /\ sessions'[s].epoch \in Nat /\ sessions'[s].epoch >= sessions[s].epoch
  \/ /\ sessions'[s].columns = sessions[s].columns
     /\ sessions'[s].epoch \in Nat /\ sessions'[s].epoch >= sessions[s].epoch
  \/ sessions[s].state = "booting"

HubEffect ==
  /\ SessionsTyped'
  /\ \A s \in Started : s \in Started' /\ Grows(s)
  /\ tx' = [d \in Conns |-> tx'[d]]
  /\ \A d \in Conns : Left(d) \/ Joined(d) \/ Idle(d) \/ Fed(d)
  /\ \A d \in Conns : wire'[d] = wire[d] \/ wire'[d] = "cut"

LEMMA TwoFrames == ASSUME NEW a, NEW b PROVE <<a>> \o <<b>> = <<a, b>>
<1> DEFINE u == <<a>>
           v == <<b>>
           w == <<a, b>>
<1>1. /\ u \in Seq({a, b}) /\ v \in Seq({a, b}) /\ w \in Seq({a, b})
      /\ Len(u) = 1 /\ Len(v) = 1 /\ Len(w) = 2
      /\ u[1] = a /\ v[1] = b /\ w[1] = a /\ w[2] = b
  OBVIOUS
<1> HIDE DEF u, v, w
<1>2. /\ u \o v \in Seq({a, b}) /\ Len(u \o v) = 2
      /\ (u \o v)[1] = a /\ (u \o v)[2] = b
  BY <1>1
<1>3. u \o v = w
  BY <1>1, <1>2
<1> QED BY <1>3 DEF u, v, w

LEMMA BookEffect ==
  ASSUME HubInv, SessionsTyped, Boxes, NEW s \in Started, Book(s)
  PROVE HubEffect
<1> DEFINE old == sessions[s]
<1>1. /\ s \in 1 .. Len(sessions) /\ old \in FlowSession /\ s # None
      /\ old.columns \in Seq(0 .. MaxEpoch) /\ Len(old.columns) \in Nat
      /\ old.epoch \in 0 .. MaxEpoch /\ old.state = "live"
  BY FlowSessionFacts DEF Book
<1> DEFINE frames(n, anchor) ==
             (IF n = 1 THEN <<Frame("columns", s, {},
                                <<Column(Len(old.columns) + n, old.epoch)>>, FALSE)>>
                       ELSE <<>>)
             \o (IF anchor = 1 THEN <<Frame("epoch", s, {old.epoch + 1}, <<>>, FALSE)>>
                               ELSE <<>>)
<1>2. PICK n \in 0 .. 1, anchor \in 0 .. 1 :
        /\ n + anchor > 0
        /\ Len(old.columns) + n <= MaxColumns /\ old.epoch + anchor <= MaxEpoch
        /\ sessions' = [sessions EXCEPT
             ![s].columns = IF n = 1 THEN Append(@, old.epoch) ELSE @,
             ![s].epoch = @ + anchor]
        /\ tx' = [c \in Conns |->
             IF c \in Attached(s) THEN OfferAll(tx[c], frames(n, anchor)) ELSE tx[c]]
  BY DEF Book
<1>3. UNCHANGED <<handler, wire>>
  BY DEF Book
<1> DEFINE new == [old EXCEPT
             !.columns = IF n = 1 THEN Append(@, old.epoch) ELSE @,
             !.epoch = @ + anchor]
<1>4. /\ new \in FlowSession
      /\ new.columns = IF n = 1 THEN Append(old.columns, old.epoch) ELSE old.columns
      /\ new.epoch = old.epoch + anchor
  <2> DEFINE cols == IF n = 1 THEN Append(old.columns, old.epoch) ELSE old.columns
  <2>1. cols \in Seq(0 .. MaxEpoch) /\ Len(cols) <= MaxColumns
    <3>1. CASE n = 1
      <4>1. Append(old.columns, old.epoch) \in Seq(0 .. MaxEpoch)
            /\ Len(Append(old.columns, old.epoch)) = Len(old.columns) + 1
        <5> HIDE DEF old
        <5> QED BY <1>1
      <4> QED BY <1>2, <3>1, <4>1
    <3>2. CASE n = 0
      BY <1>1, <1>2, <3>2
    <3> QED BY <1>2, <3>1, <3>2
  <2>2. old.epoch + anchor \in 0 .. MaxEpoch
    BY <1>1, <1>2, FlowAssumption, SMTT(30)
  <2>3. new = [old EXCEPT !.columns = cols, !.epoch = old.epoch + anchor]
    BY <1>1 DEF FlowSession
  <2>4. /\ DOMAIN old = {"key", "state", "columns", "epoch"} /\ old.key \in Keys
        /\ old.state = "live"
    BY <1>1 DEF FlowSession
  <2> HIDE DEF cols, old, new
  <2>5. new = [key |-> old.key, state |-> old.state, columns |-> cols,
               epoch |-> old.epoch + anchor]
    BY <1>1, <2>3 DEF FlowSession
  <2> QED BY <2>1, <2>2, <2>4, <2>5 DEF FlowSession, cols
<1>5. sessions' = [sessions EXCEPT ![s] = new]
  BY <1>1, <1>2 DEF SessionsTyped, FlowSession
<1> HIDE DEF new
<1>6. sessions' \in Seq(FlowSession) /\ Len(sessions') = Len(sessions)
      /\ sessions'[s] = new /\ \A t \in Started : t # s => sessions'[t] = sessions[t]
  BY <1>1, <1>4, <1>5 DEF SessionsTyped, Started
<1>7. SessionsTyped' /\ Started' = Started
  BY <1>6 DEF SessionsTyped, Started
<1>8. ASSUME NEW t \in Started PROVE Grows(t)
  <2>1. CASE t # s
    BY <1>6, <2>1 DEF Grows, SameStream
  <2>2. CASE t = s
    <3>1. sessions'[t].epoch \in Nat /\ sessions'[t].epoch >= sessions[t].epoch
      BY <1>1, <1>2, <1>4, <1>6, <2>2
    <3>2. \/ sessions'[t].columns = Append(sessions[t].columns, sessions[t].epoch)
          \/ sessions'[t].columns = sessions[t].columns
      BY <1>2, <1>4, <1>6, <2>2
    <3> QED BY <3>1, <3>2 DEF Grows
  <2> QED BY <2>1, <2>2
<1>9. ASSUME NEW d \in Conns PROVE Idle(d) \/ Fed(d)
  <2>1. CASE d \notin Attached(s)
    <3>1. handler[d].session # s /\ tx'[d] = tx[d]
      BY <1>2, <2>1 DEF Attached
    <3>2. handler[d].session # None => handler[d].session \in Started
      BY DEF HubInv, Handlers
    <3> QED BY <1>3, <1>6, <3>1, <3>2 DEF Idle, SameStream
  <2>2. CASE d \in Attached(s)
    <3>1. handler[d].session = s /\ tx'[d] = OfferAll(tx[d], frames(n, anchor))
      BY <1>2, <2>2 DEF Attached
    <3> DEFINE cf == Frame("columns", s, {},
                           <<Column(Len(old.columns) + 1, old.epoch)>>, FALSE)
               ef == Frame("epoch", s, {old.epoch + 1}, <<>>, FALSE)
    <3>2. cf = ColumnFrame(s) /\ ef = EpochFrame(s)
      BY DEF ColumnFrame, EpochFrame
    <3>3. CASE n = 1 /\ anchor = 0
      <4>1. frames(n, anchor) = <<cf>>
        <5>1. frames(n, anchor) = <<cf>> \o <<>>
          BY <3>3
        <5> HIDE DEF cf, frames
        <5> QED BY <5>1
      <4>2. tx'[d] = Offer(tx[d], cf)
        BY <3>1, <4>1, OfferOne
      <4>3. new.epoch = old.epoch /\ new.columns = Append(old.columns, old.epoch)
        <5>1. old.epoch \in Int
          BY <1>1
        <5> HIDE DEF old
        <5> QED BY <1>4, <3>3, <5>1
      <4>4. FedColumn(d, s)
        BY <1>6, <3>2, <4>2, <4>3 DEF FedColumn
      <4> QED BY <1>1, <1>3, <3>1, <4>4 DEF Fed
    <3>4. CASE n = 0 /\ anchor = 1
      <4>1. frames(n, anchor) = <<ef>>
        <5>1. frames(n, anchor) = <<>> \o <<ef>>
          BY <3>4
        <5> HIDE DEF ef, frames
        <5> QED BY <5>1
      <4>2. tx'[d] = Offer(tx[d], ef)
        BY <3>1, <4>1, OfferOne
      <4>3. new.epoch = old.epoch + 1 /\ new.columns = old.columns
        BY <1>4, <3>4
      <4>4. FedEpoch(d, s)
        BY <1>6, <3>2, <4>2, <4>3 DEF FedEpoch
      <4> QED BY <1>1, <1>3, <3>1, <4>4 DEF Fed
    <3>5. CASE n = 1 /\ anchor = 1
      <4>1. frames(n, anchor) = <<cf, ef>>
        <5>1. frames(n, anchor) = <<cf>> \o <<ef>>
          BY <3>5
        <5> HIDE DEF cf, ef, frames
        <5> QED BY <5>1, TwoFrames
      <4>2. tx'[d] = Offer(Offer(tx[d], cf), ef)
        <5> HIDE DEF cf, ef, frames
        <5>1. OfferAll(tx[d], <<cf, ef>>) = Offer(Offer(tx[d], cf), ef)
          BY OfferTwo
        <5> QED BY <3>1, <4>1, <5>1
      <4>3. new.epoch = old.epoch + 1 /\ new.columns = Append(old.columns, old.epoch)
        BY <1>4, <3>5
      <4>4. FedBoth(d, s)
        BY <1>6, <3>2, <4>2, <4>3 DEF FedBoth
      <4> QED BY <1>1, <1>3, <3>1, <4>4 DEF Fed
    <3> QED BY <1>2, <3>3, <3>4, <3>5
  <2> QED BY <2>1, <2>2
<1>10. tx' = [d \in Conns |-> tx'[d]]
  <2> HIDE DEF frames
  <2> QED BY <1>2
<1> QED BY <1>3, <1>7, <1>8, <1>9, <1>10 DEF HubEffect

LEMMA CrashEffect ==
  ASSUME HubInv, SessionsTyped, Boxes, NEW s \in Started, RunCrashes(s)
  PROVE HubEffect
<1>1. /\ s \in 1 .. Len(sessions) /\ sessions[s] \in FlowSession /\ s # None
  BY FlowSessionFacts
<1>2. /\ sessions' = [sessions EXCEPT ![s].state = "crashed"]
      /\ tx' = [c \in Conns |-> IF c \in Attached(s)
                                THEN Offer(tx[c], StatusFrame(s)) ELSE tx[c]]
      /\ UNCHANGED <<handler, wire>>
  BY DEF RunCrashes, Crashes, StatusFrame
<1> DEFINE new == [sessions[s] EXCEPT !.state = "crashed"]
<1>3. /\ new \in FlowSession /\ new.columns = sessions[s].columns
      /\ new.epoch = sessions[s].epoch
  BY <1>1 DEF FlowSession
<1>4. sessions' = [sessions EXCEPT ![s] = new]
  BY <1>1, <1>2 DEF SessionsTyped, FlowSession
<1> HIDE DEF new
<1>5. sessions' \in Seq(FlowSession) /\ Len(sessions') = Len(sessions)
      /\ \A t \in Started : SameStream(t)
  BY <1>1, <1>3, <1>4 DEF SessionsTyped, Started, SameStream
<1>6. SessionsTyped' /\ Started' = Started
  BY <1>5 DEF SessionsTyped, Started
<1>7. ASSUME NEW d \in Conns PROVE Idle(d)
  <2>1. handler[d].session # None => SameStream(handler[d].session)
    BY <1>5 DEF HubInv, Handlers
  <2>2. CASE d \in Attached(s)
    <3>1. handler[d].session = s /\ tx'[d] = Offer(tx[d], StatusFrame(s))
      BY <1>2, <2>2 DEF Attached
    <3> QED BY <1>1, <1>2, <2>1, <3>1 DEF Idle
  <2>3. CASE d \notin Attached(s)
    BY <1>2, <2>1, <2>3 DEF Idle
  <2> QED BY <2>2, <2>3
<1>8. tx' = [d \in Conns |-> tx'[d]]
  BY <1>2
<1> QED BY <1>2, <1>5, <1>6, <1>7, <1>8 DEF HubEffect, Grows

\* A connection leaves its session, its queue as it is or dropped
LEMMA LeaveEffect ==
  ASSUME HubInv, SessionsTyped, Boxes, NEW c \in Conns, Detach(c), UNCHANGED wire,
         NEW h, handler' = [handler EXCEPT ![c] = h], h.session = None,
         \/ UNCHANGED tx
         \/ tx' = [tx EXCEPT ![c].queue = <<>>]
  PROVE HubEffect
<1> DEFINE s == handler[c].session
           last == s # None /\ Attached(s) = {c}
<1>1. last => s \in 1 .. Len(sessions) /\ sessions[s] \in FlowSession
  BY FlowSessionFacts DEF HubInv, Handlers
<1>2. sessions' \in Seq(FlowSession) /\ Len(sessions') = Len(sessions)
      /\ \A t \in Started : SameStream(t)
  <2>1. CASE ~last
    <3>1. sessions' = sessions
      BY <2>1 DEF Detach
    <3> QED BY <3>1 DEF SessionsTyped, SameStream
  <2>2. CASE last
    <3> DEFINE new == [sessions[s] EXCEPT !.state = "stopped"]
    <3>1. /\ new \in FlowSession /\ new.columns = sessions[s].columns
          /\ new.epoch = sessions[s].epoch
      BY <1>1, <2>2 DEF FlowSession
    <3>2. sessions' = [sessions EXCEPT ![s] = new]
      BY <1>1, <2>2 DEF SessionsTyped, FlowSession, Detach
    <3> HIDE DEF new, s
    <3> QED BY <1>1, <2>2, <3>1, <3>2 DEF SessionsTyped, Started, SameStream
  <2> QED BY <2>1, <2>2
<1>3. SessionsTyped' /\ Started' = Started
  BY <1>2 DEF SessionsTyped, Started
<1>4. ASSUME NEW d \in Conns PROVE Left(d) \/ Idle(d)
  <2>1. CASE d = c
    <3>1. handler'[d].session = None
      BY <2>1 DEF HubInv, Shape
    <3>2. tx'[d] = tx[d] \/ tx'[d] = [tx[d] EXCEPT !.queue = <<>>]
      BY <2>1 DEF Boxes
    <3> QED BY <3>1, <3>2 DEF Left
  <2>2. CASE d # c
    <3>1. handler'[d] = handler[d] /\ tx'[d] = tx[d]
      BY <2>2 DEF HubInv, Shape, Boxes
    <3>2. handler[d].session # None => SameStream(handler[d].session)
      BY <1>2 DEF HubInv, Handlers
    <3> QED BY <3>1, <3>2 DEF Idle
  <2> QED BY <2>1, <2>2
<1>5. tx' = [d \in Conns |-> tx'[d]]
  BY DEF Boxes
<1> QED BY <1>2, <1>3, <1>4, <1>5 DEF HubEffect, Grows

LEMMA ReceiveEffect ==
  ASSUME HubInv, SessionsTyped, Boxes, NEW c \in Conns,
         ReceiveUnsubscribe(c) \/ ReceiveSubscribe(c) \/ Disconnected(c)
  PROVE HubEffect
<1>1. CASE ReceiveUnsubscribe(c)
  <2> DEFINE h == [Blank EXCEPT !.pc = "idle"]
  <2>1. h.session = None
    BY DEF Blank
  <2>2. Detach(c) /\ UNCHANGED <<wire, tx>> /\ handler' = [handler EXCEPT ![c] = h]
    BY <1>1 DEF ReceiveUnsubscribe
  <2> HIDE DEF h
  <2> QED BY <2>1, <2>2, LeaveEffect
<1>2. CASE ReceiveSubscribe(c)
  <2> DEFINE h == [Blank EXCEPT !.pc = "wait", !.key = Head(up[c]).key]
  <2>1. h.session = None
    BY DEF Blank
  <2>2. Detach(c) /\ UNCHANGED <<wire, tx>> /\ handler' = [handler EXCEPT ![c] = h]
    BY <1>2 DEF ReceiveSubscribe
  <2> HIDE DEF h
  <2> QED BY <2>1, <2>2, LeaveEffect
<1>3. CASE Disconnected(c)
  <2> DEFINE h == [Blank EXCEPT !.pc = "gone"]
  <2>1. h.session = None
    BY DEF Blank
  <2>2. /\ Detach(c) /\ UNCHANGED wire /\ handler' = [handler EXCEPT ![c] = h]
        /\ tx' = [tx EXCEPT ![c].queue = <<>>]
    BY <1>3 DEF Disconnected, Gone
  <2> HIDE DEF h
  <2> QED BY <2>1, <2>2, LeaveEffect
<1> QED BY <1>1, <1>2, <1>3

LEMMA RefusedEffect ==
  ASSUME HubInv, SessionsTyped, Boxes, NEW c \in Conns, SubscribeRefused(c)
  PROVE HubEffect
<1> DEFINE h == [Blank EXCEPT !.pc = "gone"]
<1>1. /\ handler' = [handler EXCEPT ![c] = h] /\ h.session = None
      /\ tx' = [tx EXCEPT ![c].queue = <<>>]
      /\ wire' = [wire EXCEPT ![c] = "cut"] /\ sessions' = sessions
  BY DEF SubscribeRefused, Gone, hub, Blank
<1> HIDE DEF h
<1>2. ASSUME NEW d \in Conns PROVE Left(d) \/ Idle(d)
  <2>1. CASE d = c
    BY <1>1, <2>1 DEF Left, HubInv, Shape, Boxes
  <2>2. CASE d # c
    BY <1>1, <2>2 DEF Idle, SameStream, HubInv, Shape, Boxes
  <2> QED BY <2>1, <2>2
<1>3. \A d \in Conns : wire'[d] = wire[d] \/ wire'[d] = "cut"
  BY <1>1 DEF HubInv, Shape
<1>4. SessionsTyped' /\ \A t \in Started : t \in Started' /\ Grows(t)
  BY <1>1 DEF SessionsTyped, Started, Grows, SameStream
<1>5. tx' = [d \in Conns |-> tx'[d]]
  BY <1>1 DEF Boxes
<1> QED BY <1>2, <1>3, <1>4, <1>5 DEF HubEffect

LEMMA JoinsEffect ==
  ASSUME HubInv, SessionsTyped, Boxes, NEW c \in Conns, SubscribeJoins(c)
  PROVE HubEffect
<1> DEFINE s == registry[handler[c].key]
           h == [pc |-> "idle", session |-> s, key |-> None,
                 found |-> IF sessions[s].state = "crashed" THEN "crashed"
                                                           ELSE "working"]
<1>1. /\ handler' = [handler EXCEPT ![c] = h] /\ h.session = s
      /\ tx' = [tx EXCEPT
           ![c] = OfferAll(@, Snapshot(s, sessions[s].columns, sessions[s].epoch))]
      /\ sessions' = sessions /\ wire' = wire /\ s # None /\ handler[c].pc = "wait"
  BY DEF SubscribeJoins, AttachTo, hub, Turn
<1>2. s \in Started
  <2>1. handler[c].key \in Keys
    BY <1>1 DEF HubInv, Handlers
  <2> QED BY <1>1, <2>1 DEF HubInv, Indexed
<1> HIDE DEF h, s
<1>3. ASSUME NEW d \in Conns PROVE Joined(d) \/ Idle(d)
  <2>1. CASE d = c
    <3>1. handler'[d].session = s
      BY <1>1, <2>1 DEF HubInv, Shape
    <3>2. tx'[d] = OfferAll(tx[d], Snapshot(s, sessions'[s].columns, sessions'[s].epoch))
      BY <1>1, <2>1 DEF Boxes
    <3> QED BY <1>2, <3>1, <3>2 DEF Joined
  <2>2. CASE d # c
    BY <1>1, <2>2 DEF Idle, SameStream, HubInv, Shape, Boxes
  <2> QED BY <2>1, <2>2
<1>4. SessionsTyped' /\ \A t \in Started : t \in Started' /\ Grows(t)
  BY <1>1 DEF SessionsTyped, Started, Grows, SameStream
<1>5. tx' = [d \in Conns |-> tx'[d]]
  BY <1>1 DEF Boxes
<1> QED BY <1>1, <1>3, <1>4, <1>5 DEF HubEffect

LEMMA BootsEffect ==
  ASSUME HubInv, SessionsTyped, Boxes, NEW c \in Conns, SubscribeBoots(c)
  PROVE HubEffect
<1> DEFINE k == handler[c].key
           new == [key |-> k, state |-> "booting", columns |-> <<>>, epoch |-> 0]
<1>1. /\ sessions' = Append(sessions, new) /\ Len(sessions) < MaxStarts
      /\ handler' = [handler EXCEPT ![c].pc = "boot"]
      /\ tx' = tx /\ wire' = wire /\ handler[c].pc = "wait"
  BY DEF SubscribeBoots, Turn
<1>2. k \in Keys
  BY <1>1 DEF HubInv, Handlers
<1>3. new \in FlowSession
  BY <1>2, FlowAssumption DEF FlowSession
<1> HIDE DEF new, k
<1>4. /\ sessions' \in Seq(FlowSession) /\ Len(sessions') = Len(sessions) + 1
      /\ \A t \in Started : t \in Started' /\ sessions'[t] = sessions[t]
  BY <1>1, <1>3 DEF SessionsTyped, Started
<1>5. SessionsTyped'
  BY <1>1, <1>4, FlowAssumption DEF SessionsTyped
<1>6. ASSUME NEW d \in Conns PROVE Idle(d)
  <2>1. handler'[d].session = handler[d].session /\ tx'[d] = tx[d]
    BY <1>1 DEF HubInv, Shape, Handler
  <2>2. handler[d].session # None => SameStream(handler[d].session)
    BY <1>4 DEF HubInv, Handlers, SameStream
  <2> QED BY <2>1, <2>2 DEF Idle
<1>7. tx' = [d \in Conns |-> tx'[d]]
  BY <1>1 DEF Boxes
<1> QED BY <1>1, <1>4, <1>5, <1>6, <1>7 DEF HubEffect, Grows, SameStream

LEMMA BootedEffect ==
  ASSUME HubInv, SessionsTyped, Boxes, NEW c \in Conns, SubscribeBooted(c)
  PROVE HubEffect
<1> DEFINE s == registry[handler[c].key]
           h == [pc |-> "idle", session |-> s, key |-> None,
                 found |-> IF sessions[s].state = "crashed" THEN "crashed"
                                                           ELSE "working"]
<1>1. PICK n \in {0, Backfill} :
        /\ sessions' = [sessions EXCEPT ![s].state = "live",
                                        ![s].columns = [i \in 1 .. n |-> 0]]
        /\ tx' = [tx EXCEPT ![c] = OfferAll(@, Snapshot(s, [i \in 1 .. n |-> 0], 0))]
  BY DEF SubscribeBooted, AttachTo
<1>2. /\ handler' = [handler EXCEPT ![c] = h] /\ h.session = s
      /\ wire' = wire /\ handler[c].pc = "boot"
  BY DEF SubscribeBooted, AttachTo
<1>3. lock = c /\ c # None
  BY <1>2, FlowAssumption DEF HubInv, Boots, Conns, None
<1>4. s \in Started /\ sessions[s].state = "booting"
  BY <1>3 DEF HubInv, Boots
<1>5. /\ s \in 1 .. Len(sessions) /\ sessions[s] \in FlowSession
      /\ sessions[s].epoch = 0 /\ s # None
  BY <1>4, FlowSessionFacts
<1> DEFINE cols == [i \in 1 .. n |-> 0]
           new == [sessions[s] EXCEPT !.state = "live", !.columns = cols]
<1>6. cols \in Seq(0 .. MaxEpoch) /\ Len(cols) <= MaxColumns
  <2>1. n \in Nat /\ n <= MaxColumns
    BY <1>1, FlowAssumption
  <2>2. cols \in Seq(0 .. MaxEpoch) /\ Len(cols) = n
    BY <2>1, FlowAssumption
  <2> QED BY <2>1, <2>2
<1> HIDE DEF cols, h, s
<1>7. new \in FlowSession /\ new.columns = cols /\ new.epoch = 0
  BY <1>5, <1>6 DEF FlowSession
<1>8. sessions' = [sessions EXCEPT ![s] = new]
  BY <1>1, <1>5 DEF SessionsTyped, FlowSession, cols
<1> HIDE DEF new
<1>9. /\ sessions' \in Seq(FlowSession) /\ Len(sessions') = Len(sessions)
      /\ sessions'[s] = new
      /\ \A t \in Started : t # s => sessions'[t] = sessions[t]
  BY <1>5, <1>7, <1>8 DEF SessionsTyped, Started
<1>10. SessionsTyped' /\ Started' = Started
  BY <1>9 DEF SessionsTyped, Started
<1>11. ASSUME NEW d \in Conns PROVE Joined(d) \/ Idle(d)
  <2>1. CASE d = c
    <3>1. handler'[d].session = s
      BY <1>2, <2>1 DEF HubInv, Shape
    <3>2. tx'[d] = OfferAll(tx[d], Snapshot(s, cols, 0))
      BY <1>1, <2>1 DEF Boxes, cols
    <3>3. sessions'[s].columns = cols /\ sessions'[s].epoch = 0
      BY <1>7, <1>9
    <3> QED BY <1>4, <3>1, <3>2, <3>3 DEF Joined
  <2>2. CASE d # c
    <3>1. handler'[d] = handler[d] /\ tx'[d] = tx[d]
      BY <1>1, <1>2, <2>2 DEF HubInv, Shape, Boxes
    <3>2. handler[d].session # None =>
            handler[d].session \in Started /\ handler[d].session # s
      BY <1>4 DEF HubInv, Handlers
    <3> QED BY <1>9, <3>1, <3>2 DEF Idle, SameStream
  <2> QED BY <2>1, <2>2
<1>12. \A t \in Started : Grows(t)
  BY <1>4, <1>9 DEF Grows, SameStream
<1>13. tx' = [d \in Conns |-> tx'[d]]
  BY <1>1 DEF Boxes
<1> QED BY <1>2, <1>10, <1>11, <1>12, <1>13 DEF HubEffect

LEMMA HubStepEffect ==
  ASSUME HubInv, SessionsTyped, Boxes, HubNext PROVE HubEffect
<1>1. ASSUME NEW c \in Conns, Handle(c) PROVE HubEffect
  BY <1>1, ReceiveEffect, BootedEffect DEF Handle
<1>2. ASSUME NEW c \in Conns, Subscribing(c) PROVE HubEffect
  BY <1>2, JoinsEffect, BootsEffect, RefusedEffect DEF Subscribing
<1>3. ASSUME NEW s \in Started, Feed(s) PROVE HubEffect
  BY <1>3, BookEffect, CrashEffect DEF Feed
<1> QED BY <1>1, <1>2, <1>3 DEF HubNext

----------------------------------------------------------------------------
(* The panes *)

Cursor == [Epochs -> [seq: 0 .. MaxColumns, of: 0 .. MaxStarts]]
View == [desired: Keys \cup {None}, active: Keys \cup {None},
         socket: Conns \cup {None}, open: BOOLEAN, timer: BOOLEAN,
         session: 0 .. MaxStarts, epochs: SUBSET Epochs, degraded: BOOLEAN,
         cursor: Cursor]

Shown == (1 .. MaxStarts) \X (1 .. MaxColumns)
Swallowed == [session: 1 .. MaxStarts, seq: 1 .. MaxColumns, of: 0 .. MaxStarts]
Unframed == (1 .. MaxStarts) \X Epochs

\* Nothing is queued before the socket is open
Unopened == \A c \in Conns : wire[c] \in {"unused", "opening"} => tx[c] = EmptyTx

Records ==
  /\ shown \in [Panes -> SUBSET Shown]
  /\ swallowed \in [Panes -> SUBSET Swallowed]
  /\ unframed \in [Panes -> SUBSET Unframed]

Typed ==
  /\ SessionsTyped /\ Boxes /\ Unopened
  /\ view \in [Panes -> View] /\ Records
  /\ calls \in 0 .. MaxCalls /\ cuts \in 0 .. MaxCuts

\* Each socket is one pane's; a pane knows of its socket's opening at once,
\* and has asked for what it wants on an open one
Sockets ==
  /\ \A p \in Panes :
       /\ view[p].open => view[p].active = view[p].desired
       /\ view[p].socket # None =>
            /\ wire[view[p].socket] # "unused"
            /\ wire[view[p].socket] = "open" => view[p].open
  /\ \A p, q \in Panes :
       p # q /\ view[p].socket # None => view[p].socket # view[q].socket

LEMMA AdvanceTyped ==
  ASSUME NEW cursor \in Cursor, NEW s \in 0 .. MaxStarts, NEW col \in Columns
  PROVE Advance(cursor, s, col) \in Cursor
<1>1. [seq |-> col.seq, of |-> s] \in [seq: 0 .. MaxColumns, of: 0 .. MaxStarts]
  BY FlowAssumption DEF Columns
<1>2. [cursor EXCEPT ![col.epoch] = [seq |-> col.seq, of |-> s]] \in Cursor
  BY <1>1 DEF Cursor
<1> QED BY <1>2 DEF Advance

LEMMA AfterTyped ==
  ASSUME NEW f \in WireFrame, NEW cursor \in Cursor,
         NEW i \in 0 .. Len(f.columns)
  PROVE After(cursor, f, i) \in Cursor
<1> DEFINE S == {n \in Nat : n <= Len(f.columns) => After(cursor, f, n) \in Cursor}
<1>1. 0 \in S
  <2>1. After(cursor, f, 0) = cursor
    BY FrameFacts, AfterZero
  <2> QED BY <2>1
<1>2. ASSUME NEW n \in Nat, n \in S PROVE n + 1 \in S
  <2> SUFFICES ASSUME n + 1 <= Len(f.columns) PROVE After(cursor, f, n + 1) \in Cursor
    OBVIOUS
  <2>1. n + 1 \in 1 .. Len(f.columns) /\ (n + 1) - 1 = n /\ n <= Len(f.columns)
    BY FrameFacts
  <2>2. f.columns[n + 1] \in Columns /\ f.session \in 0 .. MaxStarts
    BY <2>1, FrameFacts
  <2>3. After(cursor, f, n) \in Cursor
    BY <1>2, <2>1
  <2>4. After(cursor, f, n + 1) =
          Advance(After(cursor, f, n), f.session, f.columns[n + 1])
    <3>1. f.columns \in Seq(Columns)
      BY FrameFacts
    <3> DEFINE j == n + 1
    <3>2. j \in 1 .. Len(f.columns) /\ j - 1 = n
      BY <2>1
    <3> HIDE DEF j
    <3>3. After(cursor, f, j) =
            Advance(After(cursor, f, j - 1), f.session, f.columns[j])
      BY <3>1, <3>2, AfterNext
    <3> QED BY <3>2, <3>3 DEF j
  <2> QED BY <2>2, <2>3, <2>4, AdvanceTyped
<1>3. Nat \subseteq S
  <2> HIDE DEF S
  <2> QED BY <1>1, <1>2, NatSetInduction
<1>4. i \in Nat /\ i <= Len(f.columns)
  BY FrameFacts
<1> QED BY <1>3, <1>4

LEMMA NewConnectionTyped == NewConnection \in View
<1>1. [e \in Epochs |-> [seq |-> None, of |-> None]] \in Cursor
  BY FlowAssumption DEF Cursor, None
<1> QED BY <1>1, FlowAssumption DEF NewConnection, View, None

LEMMA ViewFacts ==
  ASSUME NEW v \in View
  PROVE /\ v.desired \in Keys \cup {None} /\ v.active \in Keys \cup {None}
        /\ v.socket \in Conns \cup {None} /\ v.open \in BOOLEAN
        /\ v.session \in 0 .. MaxStarts /\ v.epochs \in SUBSET Epochs
        /\ v.degraded \in BOOLEAN /\ v.cursor \in Cursor
BY DEF View

\* A pane's step that delivers nothing: it may rewind its session state, drop
\* its socket or take an unused one, and forget what it showed when it closes
SameMemory(v, w) == w.session = v.session /\ w.epochs = v.epochs /\ w.cursor = v.cursor
NoMemory(w) == w.session = None /\ w.epochs = {} /\ w.cursor = NewConnection.cursor

PaneEffect(p) ==
  /\ UNCHANGED <<sessions, tx>>
  /\ \A d \in Conns : handler'[d].session = handler[d].session
  /\ \A q \in Panes : q # p =>
       /\ view'[q] = view[q] /\ shown'[q] = shown[q]
       /\ swallowed'[q] = swallowed[q] /\ unframed'[q] = unframed[q]
  /\ \/ view'[p].socket = view[p].socket
     \/ view'[p].socket = None
     \/ view'[p].socket \in Conns /\ wire[view'[p].socket] = "unused"
  /\ SameMemory(view[p], view'[p]) \/ NoMemory(view'[p])
  /\ \/ /\ shown'[p] = shown[p] /\ swallowed'[p] = swallowed[p]
        /\ unframed'[p] = unframed[p]
     \/ /\ shown'[p] = {} /\ swallowed'[p] = {} /\ unframed'[p] = {}
        /\ NoMemory(view'[p]) /\ view'[p].socket = None

LEMMA SocketsKeep ==
  ASSUME Sockets, view \in [Panes -> View],
         NEW p \in Panes, NEW w \in View, view' = [view EXCEPT ![p] = w],
         w.open => w.active = w.desired,
         w.socket # None => /\ wire'[w.socket] # "unused"
                            /\ wire'[w.socket] = "open" => w.open
                            /\ \/ w.socket = view[p].socket
                               \/ wire[w.socket] = "unused",
         \A d \in Conns : /\ wire'[d] = "unused" => wire[d] = "unused"
                          /\ wire'[d] = "open" => wire[d] = "open" \/ d = w.socket
  PROVE Sockets'
<1>1. \A q \in Panes : view'[q] = IF q = p THEN w ELSE view[q]
  OBVIOUS
<1>2. ASSUME NEW q \in Panes, q # p, w.socket # None PROVE view[q].socket # w.socket
  <2>1. view[q].socket # None => wire[view[q].socket] # "unused"
    BY DEF Sockets
  <2> QED BY <1>2, <2>1 DEF Sockets
<1>3. ASSUME NEW q \in Panes
      PROVE /\ view'[q].open => view'[q].active = view'[q].desired
            /\ view'[q].socket # None =>
                 /\ wire'[view'[q].socket] # "unused"
                 /\ wire'[view'[q].socket] = "open" => view'[q].open
  <2>1. CASE q = p
    BY <1>1, <2>1
  <2>2. CASE q # p
    <3>1. view'[q] = view[q] /\ view[q].socket \in Conns \cup {None}
      BY <1>1, <2>2 DEF View
    <3>2. view[q].open => view[q].active = view[q].desired
      BY DEF Sockets
    <3>3. ASSUME view[q].socket # None
          PROVE /\ wire'[view[q].socket] # "unused"
                /\ wire'[view[q].socket] = "open" => view[q].open
      <4>1. /\ wire[view[q].socket] # "unused"
            /\ wire[view[q].socket] = "open" => view[q].open
        BY <3>3 DEF Sockets
      <4>2. view[q].socket # w.socket
        BY <1>2, <2>2, <3>3
      <4> QED BY <3>1, <3>3, <4>1, <4>2
    <3> QED BY <3>1, <3>2, <3>3
  <2> QED BY <2>1, <2>2
<1>4. ASSUME NEW q \in Panes, NEW r \in Panes, q # r, view'[q].socket # None
      PROVE view'[q].socket # view'[r].socket
  <2>1. view[q].socket # None => view[q].socket # view[r].socket
    BY <1>4 DEF Sockets
  <2> QED BY <1>1, <1>2, <1>4, <2>1
<1> QED BY <1>3, <1>4 DEF Sockets

LEMMA RecordsKeep ==
  ASSUME Typed, UNCHANGED <<shown, swallowed, unframed>> PROVE Records'
BY DEF Typed, Records

\* openSocket
LEMMA OpensEffect ==
  ASSUME Inv, Typed, Sockets, NEW p \in Panes, NEW v \in View, Opens(p, v),
         UNCHANGED <<sessions, handler, tx, shown, swallowed, unframed, cuts>>,
         calls' \in 0 .. MaxCalls,
         v.socket = view[p].socket, SameMemory(view[p], v) \/ NoMemory(v)
  PROVE Typed' /\ Sockets' /\ PaneEffect(p)
<1>1. PICK c \in Conns :
        /\ IsNext(c) /\ wire' = [wire EXCEPT ![c] = "opening"]
        /\ view' = [view EXCEPT ![p] =
             [v EXCEPT !.socket = c, !.open = FALSE, !.timer = FALSE]]
  BY DEF Opens
<1> DEFINE w == [v EXCEPT !.socket = c, !.open = FALSE, !.timer = FALSE]
<1>2. /\ w \in View /\ w.socket = c /\ w.open = FALSE
      /\ w.session = v.session /\ w.epochs = v.epochs /\ w.cursor = v.cursor
  BY DEF View
<1>3. view' = [view EXCEPT ![p] = w]
  BY <1>1
<1> HIDE DEF w
<1>4. wire[c] = "unused" /\ c # None
  BY <1>1, FlowAssumption DEF IsNext, Unused, Conns, None
<1>5. \A d \in Conns : wire'[d] = IF d = c THEN "opening" ELSE wire[d]
  BY <1>1 DEF Inv, HubInv, Shape
<1>6. \A d \in Conns : /\ wire'[d] = "unused" => wire[d] = "unused"
                       /\ wire'[d] \in {"opening"} => wire[d] = "opening" \/ d = c
                       /\ wire'[d] = "open" => wire[d] = "open"
  BY <1>4, <1>5
<1>7. wire'[c] # "unused" /\ wire'[c] # "open"
  BY <1>5
<1>8. Sockets'
  <2>1. view \in [Panes -> View]
    BY DEF Typed
  <2> QED BY <1>2, <1>3, <1>4, <1>6, <1>7, <2>1, SocketsKeep
<1>9. Unopened'
  BY <1>4, <1>6 DEF Typed, Unopened
<1>10. view' \in [Panes -> View]
  BY <1>2, <1>3 DEF Typed
<1>11. SessionsTyped' /\ Boxes' /\ Records'
  BY RecordsKeep DEF Typed, SessionsTyped, Boxes
<1>12. PaneEffect(p)
  <2>1. view'[p] = w /\ \A q \in Panes : q # p => view'[q] = view[q]
    BY <1>3 DEF Typed
  <2>2. SameMemory(view[p], view'[p]) \/ NoMemory(view'[p])
    BY <1>2, <2>1 DEF SameMemory, NoMemory
  <2> QED BY <1>2, <1>4, <2>1, <2>2 DEF PaneEffect
<1> QED BY <1>8, <1>9, <1>10, <1>11, <1>12 DEF Typed

\* A step that leaves the hub, the queues and the records alone
LEMMA PaneStays ==
  ASSUME Typed, NEW p \in Panes, NEW w \in View, view' = [view EXCEPT ![p] = w],
         UNCHANGED <<sessions, tx, shown, swallowed, unframed>>,
         \A d \in Conns : handler'[d].session = handler[d].session,
         w.socket = view[p].socket \/ w.socket = None,
         SameMemory(view[p], w) \/ NoMemory(w),
         calls' \in 0 .. MaxCalls, cuts' \in 0 .. MaxCuts, Unopened'
  PROVE Typed' /\ PaneEffect(p)
<1>1. view'[p] = w /\ \A q \in Panes : q # p => view'[q] = view[q]
  BY DEF Typed
<1>2. PaneEffect(p)
  BY <1>1 DEF PaneEffect
<1>3. view' \in [Panes -> View]
  BY DEF Typed
<1>4. SessionsTyped' /\ Boxes' /\ Records'
  BY RecordsKeep DEF Typed, SessionsTyped, Boxes
<1> QED BY <1>2, <1>3, <1>4 DEF Typed

LEMMA NextViewTyped ==
  ASSUME NEW v \in View, NEW k \in Keys
  PROVE LET next == [(IF v.desired = k THEN v ELSE Rewound(v)) EXCEPT !.desired = k]
            sent == [next EXCEPT !.active = k]
        IN /\ next \in View /\ sent \in View
           /\ next.desired = k /\ sent.desired = k /\ sent.active = k
           /\ next.active = v.active
           /\ next.socket = v.socket /\ sent.socket = v.socket
           /\ next.open = v.open /\ sent.open = v.open
           /\ SameMemory(v, next) \/ NoMemory(next)
           /\ SameMemory(v, sent) \/ NoMemory(sent)
           /\ v.desired = k => next.degraded = v.degraded /\ sent.degraded = v.degraded
<1>1. NewConnection.cursor \in Cursor
  BY NewConnectionTyped, ViewFacts
<1> DEFINE base == IF v.desired = k THEN v ELSE Rewound(v)
           next == [base EXCEPT !.desired = k]
           sent == [next EXCEPT !.active = k]
<1>2. /\ base \in View /\ base.active = v.active /\ base.socket = v.socket
      /\ base.open = v.open
      /\ SameMemory(v, base) \/ NoMemory(base)
      /\ v.desired = k => base.degraded = v.degraded
  <2>1. CASE v.desired = k
    BY <2>1 DEF SameMemory
  <2>2. CASE v.desired # k
    <3>1. base = Rewound(v)
      BY <2>2
    <3>2. /\ Rewound(v) \in View /\ Rewound(v).active = v.active
          /\ Rewound(v).socket = v.socket /\ Rewound(v).open = v.open
          /\ NoMemory(Rewound(v))
      <4> DEFINE fresh == NewConnection.cursor
      <4>1. Rewound(v) = [v EXCEPT !.session = None, !.epochs = {}, !.cursor = fresh,
                                   !.degraded = FALSE]
        BY DEF Rewound
      <4>3. fresh \in Cursor /\ 0 \in 0 .. MaxStarts /\ {} \in SUBSET Epochs
        BY <1>1, FlowAssumption
      <4> HIDE DEF fresh
      <4>2. /\ Rewound(v) \in View /\ Rewound(v).active = v.active
            /\ Rewound(v).socket = v.socket /\ Rewound(v).open = v.open
            /\ Rewound(v).session = None /\ Rewound(v).epochs = {}
            /\ Rewound(v).cursor = fresh
        BY <4>1, <4>3 DEF View, None
      <4> QED BY <4>2 DEF NoMemory, fresh
    <3> QED BY <2>2, <3>1, <3>2
  <2> QED BY <2>1, <2>2
<1> HIDE DEF base
<1>3. /\ next \in View /\ next.desired = k /\ next.active = base.active
      /\ next.socket = base.socket /\ next.open = base.open
      /\ next.session = base.session /\ next.epochs = base.epochs
      /\ next.cursor = base.cursor /\ next.degraded = base.degraded
  BY <1>2 DEF View
<1> HIDE DEF next
<1>4. /\ sent \in View /\ sent.desired = k /\ sent.active = k
      /\ sent.socket = next.socket /\ sent.open = next.open
      /\ sent.session = next.session /\ sent.epochs = next.epochs
      /\ sent.cursor = next.cursor /\ sent.degraded = next.degraded
  BY <1>3 DEF View
<1> HIDE DEF sent
<1>5. /\ SameMemory(v, next) \/ NoMemory(next)
      /\ SameMemory(v, sent) \/ NoMemory(sent)
  BY <1>2, <1>3, <1>4 DEF SameMemory, NoMemory
<1>6. /\ next \in View /\ sent \in View
      /\ next.desired = k /\ sent.desired = k /\ sent.active = k
      /\ next.active = v.active
      /\ next.socket = v.socket /\ sent.socket = v.socket
  BY <1>2, <1>3, <1>4
<1>7. next.open = v.open /\ sent.open = v.open
  <2>1. base.open = v.open
    BY <1>2
  <2>2. next.open = base.open
    BY <1>3
  <2>3. sent.open = next.open
    BY <1>4
  <2> QED BY <2>1, <2>2, <2>3, Zenon
<1>8. v.desired = k => next.degraded = v.degraded /\ sent.degraded = v.degraded
  BY <1>2, <1>3, <1>4, Zenon
<1> QED BY <1>5, <1>6, <1>7, <1>8 DEF next, sent, base

LEMMA PaneSubscribeEffect ==
  ASSUME Inv, Typed, Sockets, NEW p \in Panes, NEW k \in Keys, Subscribe(p, k)
  PROVE Typed' /\ Sockets' /\ PaneEffect(p)
<1> DEFINE v == view[p]
           next == [(IF v.desired = k THEN v ELSE Rewound(v)) EXCEPT !.desired = k]
           sent == [next EXCEPT !.active = k]
<1>1. v \in View
  BY DEF Typed
<1>2. /\ next \in View /\ sent \in View
      /\ next.desired = k /\ sent.desired = k /\ sent.active = k
      /\ next.active = v.active
      /\ next.socket = v.socket /\ sent.socket = v.socket
      /\ next.open = v.open /\ sent.open = v.open
      /\ SameMemory(v, next) \/ NoMemory(next)
      /\ SameMemory(v, sent) \/ NoMemory(sent)
  BY <1>1, NextViewTyped, ZenonT(30)
<1>3. /\ UNCHANGED <<sessions, handler, tx, shown, swallowed, unframed, cuts>>
      /\ calls' \in 0 .. MaxCalls
  BY PaneAssumption DEF Subscribe, hub, Typed
<1>4. \/ v.socket # None /\ v.open /\ view' = [view EXCEPT ![p] = sent] /\ wire' = wire
      \/ v.socket # None /\ ~v.open /\ view' = [view EXCEPT ![p] = next] /\ wire' = wire
      \/ v.socket = None /\ Opens(p, next)
  BY DEF Subscribe
<1> HIDE DEF next, sent
<1>5. CASE Opens(p, next)
  BY <1>1, <1>2, <1>3, <1>5, OpensEffect
<1>6. ASSUME NEW w \in View, v.socket # None, view' = [view EXCEPT ![p] = w],
             wire' = wire, w.socket = v.socket, w.open = v.open,
             w.open => w.active = w.desired,
             SameMemory(v, w) \/ NoMemory(w)
      PROVE Typed' /\ Sockets' /\ PaneEffect(p)
  <2>1. cuts' \in 0 .. MaxCuts /\ Unopened'
    BY <1>3, <1>6 DEF Typed, Unopened
  <2>2. Typed' /\ PaneEffect(p)
    BY <1>3, <1>6, <2>1, PaneStays
  <2>3. /\ view \in [Panes -> View]
        /\ wire[w.socket] # "unused"
        /\ wire[w.socket] = "open" => w.open
    <3>1. /\ wire[v.socket] # "unused"
          /\ wire[v.socket] = "open" => v.open
      BY <1>6 DEF Sockets
    <3> QED BY <1>6, <3>1 DEF Typed
  <2>4. /\ wire'[w.socket] # "unused"
        /\ wire'[w.socket] = "open" => w.open
        /\ \A d \in Conns : /\ wire'[d] = "unused" => wire[d] = "unused"
                            /\ wire'[d] = "open" => wire[d] = "open" \/ d = w.socket
    BY <1>6, <2>3
  <2>5. Sockets'
    BY <1>6, <2>3, <2>4, SocketsKeep
  <2> QED BY <2>2, <2>5
<1>7. CASE v.socket # None /\ v.open /\ view' = [view EXCEPT ![p] = sent] /\ wire' = wire
  BY <1>2, <1>6, <1>7
<1>8. CASE v.socket # None /\ ~v.open /\ view' = [view EXCEPT ![p] = next] /\ wire' = wire
  <2>1. ~next.open
    BY <1>2, <1>8
  <2> QED BY <1>2, <1>6, <1>8, <2>1
<1> QED BY <1>4, <1>5, <1>7, <1>8

LEMMA CloseEffect ==
  ASSUME Inv, Typed, Sockets, NEW p \in Panes, Close(p)
  PROVE Typed' /\ Sockets' /\ PaneEffect(p)
<1> DEFINE c == view[p].socket
<1>1. /\ view' = [view EXCEPT ![p] = NewConnection]
      /\ wire' = [d \in Conns |-> IF d = c THEN "cut" ELSE wire[d]]
      /\ shown' = [shown EXCEPT ![p] = {}]
      /\ swallowed' = [swallowed EXCEPT ![p] = {}]
      /\ unframed' = [unframed EXCEPT ![p] = {}]
      /\ UNCHANGED <<sessions, handler, tx, cuts>>
      /\ calls' \in 0 .. MaxCalls
  BY PaneAssumption DEF Close, hub, Typed
<1>2. /\ NewConnection \in View /\ NewConnection.socket = None
      /\ ~NewConnection.open /\ NoMemory(NewConnection)
  BY NewConnectionTyped DEF NewConnection, NoMemory
<1>3. /\ view \in [Panes -> View] /\ shown \in [Panes -> SUBSET Shown]
      /\ swallowed \in [Panes -> SUBSET Swallowed]
      /\ unframed \in [Panes -> SUBSET Unframed]
  BY DEF Typed, Records
<1>4. \A d \in Conns : /\ wire'[d] = "unused" => wire[d] = "unused"
                       /\ wire'[d] = "open" => wire[d] = "open"
                       /\ wire'[d] = "opening" => wire[d] = "opening"
  BY <1>1
<1>5. Sockets'
  BY <1>1, <1>2, <1>3, <1>4, SocketsKeep
<1>6. Unopened'
  BY <1>1, <1>4 DEF Typed, Unopened
<1>7. PaneEffect(p)
  <2>1. /\ view'[p] = NewConnection /\ shown'[p] = {} /\ swallowed'[p] = {}
        /\ unframed'[p] = {}
        /\ \A q \in Panes : q # p =>
             /\ view'[q] = view[q] /\ shown'[q] = shown[q]
             /\ swallowed'[q] = swallowed[q] /\ unframed'[q] = unframed[q]
    BY <1>1, <1>3
  <2> QED BY <1>1, <1>2, <2>1 DEF PaneEffect
<1>8. view' \in [Panes -> View] /\ Records' /\ SessionsTyped' /\ Boxes'
  BY <1>1, <1>2, <1>3 DEF Typed, Records, SessionsTyped, Boxes
<1> QED BY <1>1, <1>5, <1>6, <1>7, <1>8 DEF Typed

LEMMA SocketOpensEffect ==
  ASSUME Inv, Typed, Sockets, NEW p \in Panes, SocketOpens(p)
  PROVE Typed' /\ Sockets' /\ PaneEffect(p)
<1> DEFINE v == view[p]
           c == v.socket
           w == [[v EXCEPT !.open = TRUE, !.active = None] EXCEPT !.active = v.desired]
<1>1. v \in View
  BY DEF Typed
<1>2. /\ c # None /\ wire[c] = "opening" /\ wire' = [wire EXCEPT ![c] = "open"]
      /\ handler' = [handler EXCEPT ![c].pc = "idle"]
      /\ view' = [view EXCEPT ![p] =
           [[v EXCEPT !.open = TRUE, !.active = None] EXCEPT
              !.active = [v EXCEPT !.open = TRUE, !.active = None].desired]]
      /\ UNCHANGED <<sessions, tx, shown, swallowed, unframed, calls, cuts>>
  BY DEF SocketOpens, hub
<1>3. /\ w \in View /\ w.socket = c /\ w.active = w.desired
      /\ w.session = v.session /\ w.epochs = v.epochs /\ w.cursor = v.cursor
      /\ w.open = TRUE
  BY <1>1 DEF View
<1>4. view' = [view EXCEPT ![p] = w]
  BY <1>1, <1>2 DEF View
<1> HIDE DEF w
<1>5. c \in Conns
  BY <1>1, <1>2, ViewFacts
<1>6. \A d \in Conns : wire'[d] = IF d = c THEN "open" ELSE wire[d]
  BY <1>2 DEF Inv, HubInv, Shape
<1>7. \A d \in Conns : handler'[d].session = handler[d].session
  BY <1>2, <1>5 DEF Inv, HubInv, Shape, Handler
<1>8. Unopened' /\ calls' \in 0 .. MaxCalls /\ cuts' \in 0 .. MaxCuts
  BY <1>2, <1>6 DEF Typed, Unopened
<1>9. SameMemory(v, w)
  BY <1>3 DEF SameMemory
<1>10. Typed' /\ PaneEffect(p)
  BY <1>2, <1>3, <1>4, <1>7, <1>8, <1>9, PaneStays
<1>11. /\ wire'[w.socket] # "unused"
       /\ \A d \in Conns : /\ wire'[d] = "unused" => wire[d] = "unused"
                           /\ wire'[d] = "open" => wire[d] = "open" \/ d = w.socket
  BY <1>3, <1>5, <1>6
<1>12. view \in [Panes -> View]
  BY DEF Typed
<1>13. Sockets'
  BY <1>3, <1>4, <1>11, <1>12, SocketsKeep
<1> QED BY <1>10, <1>13

LEMMA SocketClosesEffect ==
  ASSUME Inv, Typed, Sockets, NEW p \in Panes, SocketCloses(p)
  PROVE Typed' /\ Sockets' /\ PaneEffect(p)
<1> DEFINE v == view[p]
           w == [v EXCEPT !.socket = None, !.open = FALSE, !.active = None,
                          !.timer = TRUE]
<1>1. v \in View /\ view \in [Panes -> View]
  BY DEF Typed
<1>2. UNCHANGED <<sessions, handler, tx, wire, shown, swallowed, unframed, calls, cuts>>
  BY DEF SocketCloses, hubVars, hub
<1>3. /\ w \in View /\ w.socket = None /\ ~w.open
      /\ w.session = v.session /\ w.epochs = v.epochs /\ w.cursor = v.cursor
  BY <1>1 DEF View, None
<1>4. view' = [view EXCEPT ![p] = w]
  BY <1>1 DEF SocketCloses, View
<1> HIDE DEF w
<1>5. Unopened' /\ calls' \in 0 .. MaxCalls /\ cuts' \in 0 .. MaxCuts
  BY <1>2 DEF Typed, Unopened
<1>6. SameMemory(v, w)
  BY <1>3 DEF SameMemory
<1>7. Typed' /\ PaneEffect(p)
  BY <1>2, <1>3, <1>4, <1>5, <1>6, PaneStays
<1>8. \A d \in Conns : /\ wire'[d] = "unused" => wire[d] = "unused"
                       /\ wire'[d] = "open" => wire[d] = "open"
  BY <1>2
<1>9. Sockets'
  BY <1>1, <1>3, <1>4, <1>8, SocketsKeep
<1> QED BY <1>7, <1>9

LEMMA ReconnectEffect ==
  ASSUME Inv, Typed, Sockets, NEW p \in Panes, ReconnectTimer(p)
  PROVE Typed' /\ Sockets' /\ PaneEffect(p)
<1>1. view[p] \in View
  BY DEF Typed
<1>2. /\ Opens(p, view[p]) /\ calls' \in 0 .. MaxCalls
      /\ UNCHANGED <<sessions, handler, tx, shown, swallowed, unframed, cuts>>
  BY DEF ReconnectTimer, hub, Typed
<1>3. SameMemory(view[p], view[p])
  BY DEF SameMemory
<1> QED BY <1>1, <1>2, <1>3, OpensEffect

LEMMA CutEffect ==
  ASSUME Inv, Typed, Sockets, NEW c \in Conns, Cut(c)
  PROVE /\ Typed' /\ Sockets'
        /\ UNCHANGED <<sessions, handler, tx, view, shown, swallowed, unframed>>
<1>1. /\ UNCHANGED <<sessions, handler, tx, view, shown, swallowed, unframed, calls>>
      /\ wire' = [wire EXCEPT ![c] = "cut"] /\ cuts' \in 0 .. MaxCuts
      /\ wire[c] # "unused"
  BY PaneAssumption DEF Cut, hub, Typed
<1>2. \A d \in Conns : wire'[d] = IF d = c THEN "cut" ELSE wire[d]
  BY <1>1 DEF Inv, HubInv, Shape
<1>3. Typed'
  BY <1>1, <1>2, RecordsKeep DEF Typed, SessionsTyped, Boxes, Unopened
<1>4. Sockets'
  <2>1. \A p \in Panes : view[p].socket \in Conns \cup {None}
    BY DEF Typed, View
  <2> QED BY <1>1, <1>2, <2>1 DEF Sockets
<1> QED BY <1>1, <1>3, <1>4

\* A frame reaches its pane.  `routed' is the cursor after some of its columns
Delivers(p, c, frame) ==
  LET v == view[p]
      w == view'[p]
      routed(i) == After(v.cursor, frame, i)
      fresh(i) == ~Duplicate(routed(i - 1), frame.columns[i])
  IN /\ w.socket = v.socket /\ w.open = v.open
     /\ w.desired = v.desired /\ w.active = v.active
     /\ w.epochs = v.epochs \cup frame.announces
     /\ w.session = IF frame.kind = "hello" THEN frame.session ELSE v.session
     /\ frame.kind = "status" \/ v.degraded => w.degraded
     /\ w.cursor = routed(Len(frame.columns))
     /\ shown'[p] = shown[p] \cup
          {<<frame.session, frame.columns[i].seq>> :
             i \in {j \in DOMAIN frame.columns : fresh(j)}}
     /\ swallowed'[p] = swallowed[p] \cup
          {[session |-> frame.session, seq |-> frame.columns[i].seq,
            of |-> routed(i - 1)[frame.columns[i].epoch].of] :
             i \in {j \in DOMAIN frame.columns : ~fresh(j)}}
     /\ unframed'[p] = unframed[p] \cup
          {<<frame.session, frame.columns[i].epoch>> :
             i \in {j \in DOMAIN frame.columns :
                      /\ fresh(j) /\ w.session = frame.session
                      /\ frame.columns[j].epoch \notin w.epochs}}

DeliverEffect(p, c, frame) ==
  /\ c \in Conns /\ c # None /\ c = view[p].socket /\ view[p].open /\ wire[c] = "open"
  /\ tx[c].queue # <<>> /\ frame = tx[c].queue[1] /\ frame \in WireFrame
  /\ tx'[c].queue = Tail(tx[c].queue) /\ tx'[c].evicted = tx[c].evicted
  /\ \A d \in Conns : d # c => tx'[d] = tx[d]
  /\ \A q \in Panes : q # p =>
       /\ view'[q] = view[q] /\ shown'[q] = shown[q]
       /\ swallowed'[q] = swallowed[q] /\ unframed'[q] = unframed[q]
  /\ UNCHANGED <<hub, handler, up, wire>>
  /\ Delivers(p, c, frame)

LEMMA DeliverFacts ==
  ASSUME Inv, Typed, NEW p \in Panes, Deliver(p)
  PROVE LET c == view[p].socket
        IN DeliverEffect(p, c, Head(tx[c].queue))
<1> DEFINE c == view[p].socket
           f == Head(tx[c].queue)
           u == Learn(view[p], f)
           w == [u EXCEPT !.cursor = After(u.cursor, f, Len(f.columns))]
<1>1. view[p] \in View /\ view \in [Panes -> View] /\ tx \in [Conns -> Box]
      /\ shown \in [Panes -> SUBSET Shown] /\ swallowed \in [Panes -> SUBSET Swallowed]
      /\ unframed \in [Panes -> SUBSET Unframed]
  BY DEF Typed, Boxes, Records
<1>2. /\ c # None /\ view[p].open /\ wire[c] = "open" /\ tx[c].queue # <<>>
      /\ tx' = [tx EXCEPT ![c].queue = Tail(@)]
      /\ view' = [view EXCEPT ![p] = w]
      /\ UNCHANGED <<hub, handler, up, wire>>
  BY DEF Deliver
<1>3. c \in Conns
  BY <1>1, <1>2, ViewFacts
<1>4. tx[c] \in Box /\ tx[c].queue \in Seq(WireFrame)
  BY <1>1, <1>3 DEF Box
<1>5. f \in WireFrame /\ f = tx[c].queue[1]
  BY <1>2, <1>4
<1>6. /\ tx'[c].queue = Tail(tx[c].queue) /\ tx'[c].evicted = tx[c].evicted
      /\ \A d \in Conns : d # c => tx'[d] = tx[d]
  BY <1>1, <1>2, <1>3, <1>4 DEF Box
<1>7. /\ u.cursor = view[p].cursor /\ u.socket = view[p].socket /\ u.open = view[p].open
      /\ u.desired = view[p].desired /\ u.active = view[p].active
      /\ u.epochs = view[p].epochs \cup f.announces
      /\ u.session = IF f.kind = "hello" THEN f.session ELSE view[p].session
      /\ u.degraded = (view[p].degraded \/ f.kind = "status")
      /\ DOMAIN u = DOMAIN view[p]
  <2> HIDE DEF f
  <2> QED BY <1>1 DEF Learn, View
<1>8. view'[p] = w /\ \A q \in Panes : q # p => view'[q] = view[q]
  <2> HIDE DEF w
  <2> QED BY <1>1, <1>2
<1>9. /\ w.socket = u.socket /\ w.open = u.open
      /\ w.desired = u.desired /\ w.active = u.active
      /\ w.epochs = u.epochs /\ w.session = u.session /\ w.degraded = u.degraded
      /\ w.cursor = After(u.cursor, f, Len(f.columns))
  <2> HIDE DEF u, f
  <2>1. DOMAIN u = {"desired", "active", "socket", "open", "timer", "session",
                    "epochs", "degraded", "cursor"}
    BY <1>1, <1>7 DEF View
  <2> QED BY <2>1
<1> DEFINE at(i) == After(u.cursor, f, i)
           dup(i) == Duplicate(at(i - 1), f.columns[i])
           fresh == {i \in DOMAIN f.columns : ~dup(i)}
<1>10. /\ shown' = [shown EXCEPT ![p] = @ \cup
            {<<f.session, f.columns[i].seq>> : i \in fresh}]
       /\ swallowed' = [swallowed EXCEPT ![p] = @ \cup
            {[session |-> f.session, seq |-> f.columns[i].seq,
              of |-> at(i - 1)[f.columns[i].epoch].of]
             : i \in DOMAIN f.columns \ fresh}]
       /\ unframed' = [unframed EXCEPT ![p] = @ \cup
            {<<f.session, f.columns[i].epoch>> :
               i \in {j \in fresh : u.session = f.session
                                    /\ f.columns[j].epoch \notin u.epochs}}]
  BY DEF Deliver
<1> HIDE DEF u, f, w
<1>11. /\ shown'[p] = shown[p] \cup {<<f.session, f.columns[i].seq>> : i \in fresh}
       /\ swallowed'[p] = swallowed[p] \cup
            {[session |-> f.session, seq |-> f.columns[i].seq,
              of |-> at(i - 1)[f.columns[i].epoch].of]
             : i \in DOMAIN f.columns \ fresh}
       /\ unframed'[p] = unframed[p] \cup
            {<<f.session, f.columns[i].epoch>> :
               i \in {j \in fresh : u.session = f.session
                                    /\ f.columns[j].epoch \notin u.epochs}}
  BY <1>1, <1>10
<1>12. \A q \in Panes : q # p => /\ shown'[q] = shown[q] /\ swallowed'[q] = swallowed[q]
                                 /\ unframed'[q] = unframed[q]
  BY <1>1, <1>10
<1> DEFINE routed(i) == After(view[p].cursor, f, i)
           new(i) == ~Duplicate(routed(i - 1), f.columns[i])
<1>13. \A i : at(i) = routed(i)
  BY <1>7
<1>14. fresh = {j \in DOMAIN f.columns : new(j)}
  BY <1>7
<1>15. DOMAIN f.columns \ fresh = {j \in DOMAIN f.columns : ~new(j)}
  BY <1>14
<1>16. {j \in fresh : u.session = f.session /\ f.columns[j].epoch \notin u.epochs}
       = {j \in DOMAIN f.columns :
            /\ new(j) /\ view'[p].session = f.session
            /\ f.columns[j].epoch \notin view'[p].epochs}
  BY <1>8, <1>9, <1>14
<1>17. /\ view'[p].socket = view[p].socket
       /\ view'[p].desired = view[p].desired /\ view'[p].active = view[p].active
       /\ view'[p].epochs = view[p].epochs \cup f.announces
       /\ view'[p].session = IF f.kind = "hello" THEN f.session ELSE view[p].session
       /\ view'[p].cursor = routed(Len(f.columns))
  BY <1>7, <1>8, <1>9
<1>18. /\ view'[p].open = view[p].open
       /\ f.kind = "status" \/ view[p].degraded => view'[p].degraded
  BY <1>7, <1>8, <1>9, Zenon
<1> DEFINE S1 == {<<f.session, f.columns[i].seq>> : i \in {j \in DOMAIN f.columns : new(j)}}
           S2 == {[session |-> f.session, seq |-> f.columns[i].seq,
                   of |-> routed(i - 1)[f.columns[i].epoch].of] :
                    i \in {j \in DOMAIN f.columns : ~new(j)}}
           S3 == {<<f.session, f.columns[i].epoch>> :
                    i \in {j \in DOMAIN f.columns :
                             /\ new(j) /\ view'[p].session = f.session
                             /\ f.columns[j].epoch \notin view'[p].epochs}}
<1>19. shown'[p] = shown[p] \cup S1
  BY <1>11, <1>14
<1>20. swallowed'[p] = swallowed[p] \cup S2
  BY <1>7, <1>11, <1>15
<1>21. unframed'[p] = unframed[p] \cup S3
  BY <1>11, <1>16
<1>22. Delivers(p, c, f)
  BY <1>17, <1>18, <1>19, <1>20, <1>21 DEF Delivers
<1> QED BY <1>2, <1>3, <1>5, <1>6, <1>8, <1>12, <1>22 DEF DeliverEffect, f

LEMMA DeliverTyped ==
  ASSUME Inv, Typed, Sockets, NEW p \in Panes, Deliver(p) PROVE Typed' /\ Sockets'
<1> DEFINE c == view[p].socket
           f == Head(tx[c].queue)
           w == view'[p]
           routed(i) == After(view[p].cursor, f, i)
<1>1. DeliverEffect(p, c, f)
  BY DeliverFacts
<1> HIDE DEF f, c
<1>2. f \in WireFrame /\ Delivers(p, c, f) /\ c \in Conns /\ c # None /\ c = view[p].socket
      /\ wire' = wire /\ tx[c].queue # <<>> /\ wire[c] = "open"
  BY <1>1 DEF DeliverEffect
<1>3. /\ view[p] \in View /\ view \in [Panes -> View] /\ tx \in [Conns -> Box]
      /\ shown \in [Panes -> SUBSET Shown] /\ swallowed \in [Panes -> SUBSET Swallowed]
      /\ unframed \in [Panes -> SUBSET Unframed]
  BY DEF Typed, Boxes, Records
<1>4. \A i \in 0 .. Len(f.columns) : routed(i) \in Cursor
  BY <1>2, <1>3, AfterTyped, ViewFacts
<1>5. /\ f.session \in 1 .. MaxStarts /\ f.announces \in SUBSET Epochs
      /\ DOMAIN f.columns = 1 .. Len(f.columns) /\ Len(f.columns) \in Nat
      /\ \A i \in DOMAIN f.columns : f.columns[i].seq \in 1 .. MaxColumns
                                     /\ f.columns[i].epoch \in Epochs
  BY <1>2, FrameFacts DEF Epochs
<1>6. view' = [view EXCEPT ![p] = w] /\ w \in View
  <2>1. view' = [view EXCEPT ![p] = [Learn(view[p], f) EXCEPT !.cursor =
                   After(Learn(view[p], f).cursor, f, Len(f.columns))]]
    BY DEF Deliver, f, c
  <2> DEFINE u == Learn(view[p], f)
             x == [u EXCEPT !.cursor = After(u.cursor, f, Len(f.columns))]
  <2>2. u = [view[p] EXCEPT !.epochs = @ \cup f.announces,
               !.session = IF f.kind = "hello" THEN f.session ELSE @,
               !.degraded = @ \/ f.kind = "status"]
    BY DEF Learn
  <2>3. (view[p].degraded \/ f.kind = "status") \in BOOLEAN
    BY Zenon
  <2>4. /\ view[p].epochs \cup f.announces \in SUBSET Epochs
        /\ (IF f.kind = "hello" THEN f.session ELSE view[p].session) \in 0 .. MaxStarts
    BY <1>3, <1>5, ViewFacts
  <2>5. u \in View /\ u.cursor = view[p].cursor
    BY <1>3, <2>2, <2>3, <2>4 DEF View
  <2> HIDE DEF u
  <2>6. After(u.cursor, f, Len(f.columns)) \in Cursor
    BY <1>4, <1>5, <2>5
  <2>7. x \in View
    BY <2>5, <2>6 DEF View
  <2> HIDE DEF x
  <2>8. view' = [view EXCEPT ![p] = x]
    BY <2>1 DEF x, u
  <2> QED BY <1>3, <2>7, <2>8
<1>7. Boxes'
  <2>1. tx' = [tx EXCEPT ![c].queue = Tail(@)]
    BY DEF Deliver, c
  <2>2. tx[c] \in Box /\ Tail(tx[c].queue) \in Seq(WireFrame)
    BY <1>2, <1>3 DEF Box
  <2>3. [tx[c] EXCEPT !.queue = Tail(@)] \in Box
    BY <2>2 DEF Box
  <2> QED BY <1>2, <1>3, <2>1, <2>3 DEF Boxes
<1>8. Unopened'
  BY <1>1, <1>2 DEF DeliverEffect, Typed, Unopened
<1>9. Records'
  <2> DEFINE S1 == {<<f.session, f.columns[i].seq>> :
                      i \in {j \in DOMAIN f.columns :
                               ~Duplicate(routed(j - 1), f.columns[j])}}
             S2 == {[session |-> f.session, seq |-> f.columns[i].seq,
                     of |-> routed(i - 1)[f.columns[i].epoch].of] :
                      i \in {j \in DOMAIN f.columns :
                               ~~Duplicate(routed(j - 1), f.columns[j])}}
             S3 == {<<f.session, f.columns[i].epoch>> :
                      i \in {j \in DOMAIN f.columns :
                               /\ ~Duplicate(routed(j - 1), f.columns[j])
                               /\ view'[p].session = f.session
                               /\ f.columns[j].epoch \notin view'[p].epochs}}
  <2>1. /\ shown'[p] = shown[p] \cup S1 /\ swallowed'[p] = swallowed[p] \cup S2
        /\ unframed'[p] = unframed[p] \cup S3
    BY <1>2 DEF Delivers
  <2>2. S1 \subseteq Shown
    BY <1>5 DEF Shown
  <2>3. S3 \subseteq Unframed
    BY <1>5 DEF Unframed
  <2>4. S2 \subseteq Swallowed
    <3> SUFFICES ASSUME NEW i \in DOMAIN f.columns
                 PROVE [session |-> f.session, seq |-> f.columns[i].seq,
                        of |-> routed(i - 1)[f.columns[i].epoch].of] \in Swallowed
      OBVIOUS
    <3>1. i - 1 \in 0 .. Len(f.columns)
      BY <1>5
    <3>2. routed(i - 1) \in Cursor
      BY <1>4, <3>1
    <3> HIDE DEF routed
    <3>3. routed(i - 1)[f.columns[i].epoch].of \in 0 .. MaxStarts
      BY <1>5, <3>2 DEF Cursor
    <3> QED BY <1>5, <3>3 DEF Swallowed
  <2> HIDE DEF S1, S2, S3
  <2>5. /\ shown' = [q \in Panes |-> shown'[q]]
        /\ swallowed' = [q \in Panes |-> swallowed'[q]]
        /\ unframed' = [q \in Panes |-> unframed'[q]]
    BY <1>3 DEF Deliver
  <2>6. ASSUME NEW q \in Panes
        PROVE /\ shown'[q] \in SUBSET Shown /\ swallowed'[q] \in SUBSET Swallowed
              /\ unframed'[q] \in SUBSET Unframed
    <3>1. CASE q = p
      BY <1>3, <2>1, <2>2, <2>3, <2>4, <3>1
    <3>2. CASE q # p
      <4>1. /\ shown'[q] = shown[q] /\ swallowed'[q] = swallowed[q]
            /\ unframed'[q] = unframed[q]
        BY <1>1, <3>2 DEF DeliverEffect
      <4> QED BY <1>3, <4>1
    <3> QED BY <3>1, <3>2
  <2>7. shown' \in [Panes -> SUBSET Shown]
    BY <2>5, <2>6
  <2>8. swallowed' \in [Panes -> SUBSET Swallowed]
    BY <2>5, <2>6
  <2>9. unframed' \in [Panes -> SUBSET Unframed]
    BY <2>5, <2>6
  <2> QED BY <2>7, <2>8, <2>9 DEF Records
<1>10. UNCHANGED <<sessions, calls, cuts>>
  BY DEF Deliver, hub
<1>11. view' \in [Panes -> View]
  BY <1>3, <1>6
<1>12. Typed'
  BY <1>7, <1>8, <1>9, <1>10, <1>11 DEF Typed, SessionsTyped
<1>13. Sockets'
  <2>1. w.socket = view[p].socket /\ w.desired = view[p].desired
        /\ w.active = view[p].active
    BY <1>2 DEF Delivers
  <2>2. w.open = view[p].open
    BY <1>2, Zenon DEF Delivers
  <2>3. w.open => w.active = w.desired
    BY <2>1, <2>2 DEF Sockets
  <2>4. /\ wire'[w.socket] # "unused"
        /\ wire'[w.socket] = "open" => w.open
    BY <1>2, <2>1, <2>2 DEF Sockets
  <2>5. \A d \in Conns : /\ wire'[d] = "unused" => wire[d] = "unused"
                         /\ wire'[d] = "open" => wire[d] = "open"
    BY <1>2
  <2> HIDE DEF w
  <2> QED BY <1>3, <1>6, <2>1, <2>3, <2>4, <2>5, SocketsKeep
<1> QED BY <1>12, <1>13

----------------------------------------------------------------------------
(* Type correctness *)

\* What an attached session's frames are, before they are offered
LEMMA FedFrames ==
  ASSUME SessionsTyped, NEW s \in Started
  PROVE /\ Len(sessions[s].columns) + 1 <= MaxColumns => ColumnFrame(s) \in WireFrame
        /\ sessions[s].epoch + 1 <= MaxEpoch => EpochFrame(s) \in WireFrame
        /\ StatusFrame(s) \in WireFrame
<1>1. /\ s \in 1 .. MaxStarts
      /\ sessions[s].epoch \in 0 .. MaxEpoch /\ Len(sessions[s].columns) \in Nat
  BY FlowSessionFacts
<1>2. Len(sessions[s].columns) + 1 <= MaxColumns => ColumnFrame(s) \in WireFrame
  <2> SUFFICES ASSUME Len(sessions[s].columns) + 1 <= MaxColumns
               PROVE ColumnFrame(s) \in WireFrame
    OBVIOUS
  <2>1. Len(sessions[s].columns) + 1 \in 1 .. MaxColumns
    BY <1>1, FlowAssumption
  <2> QED BY <1>1, <2>1, OneColumnFrame DEF ColumnFrame
<1>3. sessions[s].epoch + 1 <= MaxEpoch => EpochFrame(s) \in WireFrame
  <2> SUFFICES ASSUME sessions[s].epoch + 1 <= MaxEpoch
               PROVE EpochFrame(s) \in WireFrame
    OBVIOUS
  <2>1. {sessions[s].epoch + 1} \in SUBSET (0 .. MaxEpoch)
    BY <1>1, FlowAssumption
  <2> QED BY <1>1, <2>1, PlainFrame DEF EpochFrame
<1>4. StatusFrame(s) \in WireFrame
  BY <1>1, PlainFrame DEF StatusFrame
<1> QED BY <1>2, <1>3, <1>4

\* A session that is fed stays within its bounds, so its frames are typed
LEMMA FedTyped ==
  ASSUME Inv, Typed, HubEffect, NEW d \in Conns, Fed(d)
  PROVE LET s == handler[d].session
        IN /\ s \in Started /\ tx[d] \in Box
           /\ \/ FedColumn(d, s) /\ ColumnFrame(s) \in WireFrame
              \/ FedEpoch(d, s) /\ EpochFrame(s) \in WireFrame
              \/ /\ FedBoth(d, s) /\ ColumnFrame(s) \in WireFrame
                 /\ EpochFrame(s) \in WireFrame
<1> DEFINE s == handler[d].session
<1>1. s # None /\ s \in Started
  BY DEF Fed, Inv, HubInv, Handlers
<1>2. s \in Started' /\ SessionsTyped'
  BY <1>1 DEF HubEffect
<1>3. Len(sessions'[s].columns) <= MaxColumns /\ sessions'[s].epoch <= MaxEpoch
  <2>1. sessions'[s] \in FlowSession
    BY <1>2 DEF SessionsTyped, Started
  <2> QED BY <2>1, FlowAssumption DEF FlowSession
<1>4. /\ sessions[s].columns \in Seq(0 .. MaxEpoch) /\ sessions[s].epoch \in 0 .. MaxEpoch
      /\ SessionsTyped
  BY <1>1, FlowSessionFacts DEF Typed
<1>5. sessions'[s].columns = Append(sessions[s].columns, sessions[s].epoch) =>
        Len(sessions[s].columns) + 1 <= MaxColumns
  BY <1>3, <1>4
<1>6. tx[d] \in Box
  BY DEF Typed, Boxes
<1> HIDE DEF s
<1>7. CASE FedColumn(d, s)
  BY <1>1, <1>4, <1>5, <1>6, <1>7, FedFrames DEF FedColumn, s
<1>8. CASE FedEpoch(d, s)
  BY <1>1, <1>3, <1>4, <1>6, <1>8, FedFrames DEF FedEpoch, s
<1>9. CASE FedBoth(d, s)
  BY <1>1, <1>3, <1>4, <1>5, <1>6, <1>9, FedFrames DEF FedBoth, s
<1> QED BY <1>7, <1>8, <1>9 DEF Fed, s

LEMMA JoinedFacts ==
  ASSUME Inv, Typed, HubEffect, NEW d \in Conns, Joined(d)
  PROVE LET s == handler'[d].session
        IN /\ s \in Started /\ s \in 1 .. MaxStarts /\ tx[d] \in Box
           /\ sessions'[s].columns \in Seq(0 .. MaxEpoch)
           /\ Len(sessions'[s].columns) <= MaxColumns
           /\ sessions'[s].epoch \in 0 .. MaxEpoch
<1> DEFINE s == handler'[d].session
<1>1. s \in Started /\ s \in Started' /\ SessionsTyped'
  BY DEF Joined, HubEffect
<1>2. sessions'[s] \in FlowSession
  BY <1>1 DEF SessionsTyped, Started
<1>3. s \in 1 .. MaxStarts
  BY <1>1, FlowSessionFacts DEF Typed
<1>4. tx[d] \in Box
  BY DEF Typed, Boxes
<1> HIDE DEF s
<1> QED BY <1>1, <1>2, <1>3, <1>4 DEF FlowSession, s

LEMMA HubTyped ==
  ASSUME Inv, Inv', Typed, Sockets, HubEffect, UNCHANGED paneVars
  PROVE Typed' /\ Sockets'
<1>1. Boxes'
  <2>1. ASSUME NEW d \in Conns PROVE tx'[d] \in Box
    <3>1. tx[d] \in Box
      BY DEF Typed, Boxes
    <3>2. CASE Left(d)
      <4>1. [tx[d] EXCEPT !.queue = <<>>] \in Box
        <5> DEFINE W == WireFrame
        <5>1. tx[d] \in [queue: Seq(W), evicted: SUBSET W]
          BY <3>1 DEF Box
        <5>2. <<>> \in Seq(W)
          OBVIOUS
        <5> HIDE DEF W
        <5>3. [tx[d] EXCEPT !.queue = <<>>] \in [queue: Seq(W), evicted: SUBSET W]
          BY <5>1, <5>2
        <5> QED BY <5>3 DEF Box, W
      <4> QED BY <3>1, <3>2, <4>1 DEF Left
    <3>3. CASE Joined(d)
      <4> DEFINE s == handler'[d].session
                 cols == sessions'[s].columns
                 epoch == sessions'[s].epoch
      <4>1. /\ s \in 1 .. MaxStarts /\ cols \in Seq(0 .. MaxEpoch)
            /\ Len(cols) <= MaxColumns /\ epoch \in 0 .. MaxEpoch
        BY <3>3, JoinedFacts
      <4>2. tx'[d] = OfferAll(tx[d], Snapshot(s, cols, epoch))
        BY <3>3 DEF Joined
      <4> DEFINE b == tx[d]
                 after == OfferAll(b, Snapshot(s, cols, epoch))
      <4>3. b \in Box /\ tx'[d] = after
        BY <3>1, <4>2
      <4> HIDE DEF s, cols, epoch, b
      <4>4. after \in Box
        BY <4>1, <4>3, SnapshotFacts
      <4> QED BY <4>3, <4>4
    <3>4. CASE Idle(d)
      <4>1. CASE tx'[d] = tx[d]
        BY <3>1, <4>1
      <4>2. CASE /\ handler[d].session # None
                 /\ tx'[d] = Offer(tx[d], StatusFrame(handler[d].session))
        <5>1. handler[d].session \in Started
          BY <4>2 DEF Inv, HubInv, Handlers
        <5>2. StatusFrame(handler[d].session) \in WireFrame
          BY <5>1, FedFrames DEF Typed
        <5> QED BY <3>1, <4>2, <5>2, OfferTyped
      <4> QED BY <3>4, <4>1, <4>2 DEF Idle
    <3>5. CASE Fed(d)
      <4> DEFINE s == handler[d].session
      <4>1. \/ FedColumn(d, s) /\ ColumnFrame(s) \in WireFrame
            \/ FedEpoch(d, s) /\ EpochFrame(s) \in WireFrame
            \/ /\ FedBoth(d, s) /\ ColumnFrame(s) \in WireFrame
               /\ EpochFrame(s) \in WireFrame
        BY <3>5, FedTyped
      <4> HIDE DEF s
      <4>2. CASE FedColumn(d, s) /\ ColumnFrame(s) \in WireFrame
        BY <3>1, <4>2, OfferTyped DEF FedColumn
      <4>3. CASE FedEpoch(d, s) /\ EpochFrame(s) \in WireFrame
        BY <3>1, <4>3, OfferTyped DEF FedEpoch
      <4>4. CASE /\ FedBoth(d, s) /\ ColumnFrame(s) \in WireFrame
                 /\ EpochFrame(s) \in WireFrame
        <5>1. Offer(tx[d], ColumnFrame(s)) \in Box
          BY <3>1, <4>4, OfferTyped
        <5> QED BY <4>4, <5>1, OfferTyped DEF FedBoth
      <4> QED BY <4>1, <4>2, <4>3, <4>4
    <3> QED BY <3>2, <3>3, <3>4, <3>5 DEF HubEffect
  <2>2. tx' = [d \in Conns |-> tx'[d]]
    BY DEF HubEffect
  <2> QED BY <2>1, <2>2 DEF Boxes
<1>2. Unopened'
  <2> SUFFICES ASSUME NEW d \in Conns, wire'[d] \in {"unused", "opening"}
               PROVE tx'[d] = EmptyTx
    BY DEF Unopened
  <2>1. wire[d] \in {"unused", "opening"}
    BY DEF HubEffect
  <2>2. tx[d] = EmptyTx /\ handler[d].session = None /\ handler'[d].session = None
    <3>1. tx[d] = EmptyTx
      BY <2>1 DEF Typed, Unopened
    <3>2. handler[d].pc = "absent" /\ handler'[d].pc = "absent"
      BY <2>1 DEF Inv, HubInv, Handlers
    <3> QED BY <3>1, <3>2 DEF Inv, HubInv, Handlers
  <2>3. CASE Left(d)
    BY <2>2, <2>3 DEF Left, EmptyTx
  <2>4. CASE Joined(d)
    <3>1. handler'[d].session # None
      BY <2>4, JoinedFacts DEF None
    <3> QED BY <2>2, <3>1
  <2>5. CASE Idle(d)
    BY <2>2, <2>5 DEF Idle
  <2>6. CASE Fed(d)
    BY <2>2, <2>6 DEF Fed
  <2> QED BY <2>3, <2>4, <2>5, <2>6 DEF HubEffect
<1>3. UNCHANGED <<view, shown, swallowed, unframed, calls, cuts>>
  BY DEF paneVars
<1>4. Typed'
  BY <1>1, <1>2, <1>3, RecordsKeep DEF Typed, HubEffect
<1>5. Sockets'
  <2>1. \A p \in Panes : view[p].socket \in Conns \cup {None}
    BY DEF Typed, View
  <2>2. ASSUME NEW p \in Panes, view[p].socket # None
        PROVE /\ wire'[view[p].socket] # "unused"
              /\ wire'[view[p].socket] = "open" => view[p].open
    <3>1. /\ wire[view[p].socket] # "unused"
          /\ wire[view[p].socket] = "open" => view[p].open
      BY <2>2 DEF Sockets
    <3> QED BY <2>1, <2>2, <3>1 DEF HubEffect
  <2> QED BY <1>3, <2>2 DEF Sockets
<1> QED BY <1>4, <1>5

LEMMA InitTyped == Init => Typed /\ Sockets
<1> SUFFICES ASSUME Init PROVE Typed /\ Sockets
  OBVIOUS
<1>1. SessionsTyped
  BY FlowAssumption DEF Init, HubInit, SessionsTyped
<1>2. EmptyTx \in Box
  BY DEF EmptyTx, Box
<1>3. Boxes /\ Unopened
  BY <1>2 DEF Init, HubInit, Boxes, Unopened
<1>4. view \in [Panes -> View]
  BY NewConnectionTyped DEF Init
<1>5. Records
  BY DEF Init, Records
<1>6. calls \in 0 .. MaxCalls /\ cuts \in 0 .. MaxCuts
  BY PaneAssumption DEF Init
<1>7. Sockets
  BY DEF Init, Sockets, NewConnection, None
<1> QED BY <1>1, <1>3, <1>4, <1>5, <1>6, <1>7 DEF Typed

\* What every step does, in the terms the invariants below are about
Stutters ==
  /\ UNCHANGED <<sessions, tx, view, shown, swallowed, unframed>>
  /\ \A d \in Conns : handler'[d].session = handler[d].session

LEMMA StepEffect ==
  ASSUME Inv, Inv', Typed, Sockets, [Next]_vars
  PROVE /\ Typed' /\ Sockets'
        /\ \/ HubNext /\ HubEffect /\ UNCHANGED paneVars
           \/ \E p \in Panes : PaneEffect(p)
           \/ \E p \in Panes : Deliver(p)
           \/ Stutters
<1>1. CASE HubNext /\ UNCHANGED paneVars
  <2>1. HubEffect
    BY <1>1, HubStepEffect DEF Inv, Typed
  <2> QED BY <1>1, <2>1, HubTyped
<1>2. ASSUME NEW p \in Panes, PaneStep(p)
      PROVE Typed' /\ Sockets' /\ (PaneEffect(p) \/ Deliver(p))
  BY <1>2, SocketOpensEffect, SocketClosesEffect, ReconnectEffect, DeliverTyped
     DEF PaneStep
<1>3. ASSUME NEW p \in Panes, Close(p) PROVE Typed' /\ Sockets' /\ PaneEffect(p)
  BY <1>3, CloseEffect
<1>4. ASSUME NEW p \in Panes, NEW k \in Keys, Subscribe(p, k)
      PROVE Typed' /\ Sockets' /\ PaneEffect(p)
  BY <1>4, PaneSubscribeEffect
<1>5. ASSUME NEW c \in Conns, Cut(c) PROVE Typed' /\ Sockets' /\ Stutters
  BY <1>5, CutEffect DEF Stutters
<1>6. CASE UNCHANGED vars
  <2>1. UNCHANGED <<sessions, registry, lock, handler, tx, up, wire, view, shown,
                    swallowed, unframed, calls, cuts>>
    BY <1>6 DEF vars, hubVars, hub, paneVars
  <2> QED BY <2>1 DEF Typed, SessionsTyped, Boxes, Unopened, Records, Sockets, Stutters
<1> QED BY <1>1, <1>2, <1>3, <1>4, <1>5, <1>6 DEF Next

\* Sessions, queues, messages and panes keep their types, and a socket stays
\* that of one pane, open or not as the pane believes while it is attached to
\* it (Connection.openSocket, FlowHub's handlers).
THEOREM StreamTyped == Spec => [](Typed /\ Sockets)
<1>1. Inv /\ Inv' /\ Typed /\ Sockets /\ [Next]_vars => (Typed /\ Sockets)'
  BY StepEffect
<1> QED BY <1>1, InitTyped, Invariant, PTL DEF Spec

LEMMA TypedIsTypeOK == Inv /\ Typed => TypeOK
<1> SUFFICES ASSUME Inv, Typed PROVE TypeOK
  OBVIOUS
<1>1. /\ sessions \in Seq([key: Keys, state: {"booting", "live", "crashed", "stopped"},
                           columns: Seq(0 .. MaxEpoch), epoch: 0 .. MaxEpoch])
      /\ Len(sessions) \in Nat /\ Len(sessions) <= MaxStarts
  <2> DEFINE S == FlowSession
             T == [key: Keys, state: {"booting", "live", "crashed", "stopped"},
                   columns: Seq(0 .. MaxEpoch), epoch: 0 .. MaxEpoch]
  <2>1. S \subseteq T
    BY DEF FlowSession
  <2>2. sessions \in Seq(S) /\ Len(sessions) <= MaxStarts
    BY DEF Typed, SessionsTyped
  <2> HIDE DEF S, T
  <2>3. sessions \in Seq(T) /\ Len(sessions) \in Nat
    BY <2>1, <2>2
  <2> QED BY <2>2, <2>3 DEF T
<1>2. Started \subseteq 0 .. MaxStarts /\ None \in 0 .. MaxStarts
  BY <1>1, FlowAssumption DEF Started, None
<1>3. registry \in [Keys -> 0 .. MaxStarts]
  BY <1>2 DEF Inv, HubInv, Shape, Indexed
<1>4. handler \in [Conns -> [pc: {"absent", "idle", "wait", "boot", "gone"},
                             session: 0 .. MaxStarts, key: Keys \cup {None},
                             found: {"working", "crashed"}]]
  <2>1. \A c \in Conns : handler[c].session \in 0 .. MaxStarts
    BY <1>2 DEF Inv, HubInv, Handlers
  <2> QED BY <2>1 DEF Inv, HubInv, Shape, Handler
<1>5. tx \in [Conns -> [queue: Seq(Frames), evicted: SUBSET Frames]]
  <2>1. WireFrame \subseteq Frames
    BY DEF WireFrame
  <2>2. Seq(WireFrame) \subseteq Seq(Frames)
    BY <2>1
  <2>3. SUBSET WireFrame \subseteq SUBSET Frames
    BY <2>1
  <2> QED BY <2>2, <2>3 DEF Typed, Boxes, Box
<1>6. up \in [Conns -> Seq([kind: {"subscribe", "unsubscribe"}, key: Keys \cup {None}])]
  <2> DEFINE R == [kind: {"subscribe", "unsubscribe"}, key: Keys \cup {None}]
  <2>1. Request \subseteq R
    BY DEF Request
  <2>2. up \in [Conns -> Seq(Request)]
    BY DEF Inv, HubInv, Shape
  <2> HIDE DEF R
  <2>3. Seq(Request) \subseteq Seq(R)
    BY <2>1
  <2>4. up \in [Conns -> Seq(R)]
    BY <2>2, <2>3
  <2> QED BY <2>4 DEF R
<1>7. HubTypeOK
  BY <1>1, <1>3, <1>4, <1>5, <1>6 DEF HubTypeOK, Inv, HubInv, Shape
<1>8. /\ view \in [Panes -> View] /\ calls \in 0 .. MaxCalls /\ cuts \in 0 .. MaxCuts
      /\ \A p \in Panes : shown[p] \subseteq (1 .. MaxStarts) \X (1 .. MaxColumns)
  BY DEF Typed, Records, Shown
<1> QED BY <1>7, <1>8 DEF TypeOK, View, Cursor

\* Every variable keeps its type, whatever the two sides send each other: seqs
\* and epochs stay in range through boots, snapshots, evictions and cuts.
THEOREM FlowTypes == Spec => []TypeOK
<1>1. Inv /\ (Typed /\ Sockets) => TypeOK
  BY TypedIsTypeOK
<1> QED BY <1>1, Invariant, StreamTyped, PTL

----------------------------------------------------------------------------
(* CrashIsShown *)

Owed(d) ==
  /\ handler[d].session # None /\ sessions[handler[d].session].state = "crashed"
  /\ handler[d].found # "crashed"
Reported(d) ==
  \E frame \in Range(tx[d].queue) \cup tx[d].evicted :
    frame.session = handler[d].session /\ frame.kind = "status"

\* What a step of the hub may do to a connection that watches a crashed feed
CrashKept(d) ==
  \/ ~Owed(d)'
  \/ Reported(d)'
  \/ /\ Owed(d) /\ handler'[d] = handler[d] /\ tx'[d] = tx[d]
     /\ up'[d] = up[d] /\ wire'[d] = wire[d]

LEMMA DetachCrash ==
  ASSUME HubInv, SessionsTyped, Boxes, NEW c \in Conns, Detach(c),
         NEW h, handler' = [handler EXCEPT ![c] = h], h.session = None,
         \A d \in Conns : d # c => tx'[d] = tx[d] /\ up'[d] = up[d],
         UNCHANGED wire, NEW d \in Conns
  PROVE CrashKept(d)
<1>1. CASE d = c
  BY <1>1 DEF CrashKept, Owed, HubInv, Shape
<1>2. CASE d # c
  <2> SUFFICES ASSUME Owed(d)' PROVE Owed(d) /\ handler'[d] = handler[d]
    BY <1>2 DEF CrashKept
  <2> DEFINE s == handler[d].session
  <2>1. handler'[d] = handler[d] /\ s # None /\ sessions'[s].state = "crashed"
        /\ handler[d].found # "crashed"
    BY <1>2 DEF Owed, HubInv, Shape
  <2>2. s \in Started
    BY <2>1 DEF HubInv, Handlers
  <2>3. sessions[s].state = "crashed"
    <3>1. CASE sessions' = sessions
      BY <2>1, <3>1
    <3>2. CASE sessions' = [sessions EXCEPT ![handler[c].session].state = "stopped"]
      <4>1. CASE s = handler[c].session
        <5>1. sessions[s] \in FlowSession
          BY <2>2, FlowSessionFacts
        <5>2. sessions'[s].state = "stopped"
          BY <2>2, <3>2, <4>1, <5>1 DEF FlowSession, SessionsTyped, Started
        <5> QED BY <2>1, <5>2
      <4>2. CASE s # handler[c].session
        BY <2>1, <2>2, <3>2, <4>2 DEF SessionsTyped, Started
      <4> QED BY <4>1, <4>2
    <3> QED BY <3>1, <3>2 DEF Detach
  <2> QED BY <2>1, <2>3 DEF Owed
<1> QED BY <1>1, <1>2

LEMMA HubCrash ==
  ASSUME HubInv, SessionsTyped, Boxes, HubNext, NEW d \in Conns
  PROVE CrashKept(d)
<1> DEFINE t == handler[d].session
<1>1. t # None => t \in Started
  BY DEF HubInv, Handlers
<1>2. ASSUME NEW c \in Conns,
             ReceiveUnsubscribe(c) \/ ReceiveSubscribe(c) \/ Disconnected(c)
      PROVE CrashKept(d)
  <2>1. CASE ReceiveUnsubscribe(c)
    <3> DEFINE h == [Blank EXCEPT !.pc = "idle"]
    <3>1. /\ h.session = None /\ handler' = [handler EXCEPT ![c] = h]
          /\ Detach(c) /\ UNCHANGED <<tx, wire>>
      BY <2>1 DEF ReceiveUnsubscribe, Blank
    <3>2. \A b \in Conns : b # c => up'[b] = up[b]
      BY <2>1 DEF ReceiveUnsubscribe, Receives, HubInv, Shape
    <3> HIDE DEF h
    <3> QED BY <3>1, <3>2, DetachCrash
  <2>2. CASE ReceiveSubscribe(c)
    <3> DEFINE h == [Blank EXCEPT !.pc = "wait", !.key = Head(up[c]).key]
    <3>1. /\ h.session = None /\ handler' = [handler EXCEPT ![c] = h]
          /\ Detach(c) /\ UNCHANGED <<tx, wire>>
      BY <2>2 DEF ReceiveSubscribe, Blank
    <3>2. \A b \in Conns : b # c => up'[b] = up[b]
      BY <2>2 DEF ReceiveSubscribe, Receives, HubInv, Shape
    <3> HIDE DEF h
    <3> QED BY <3>1, <3>2, DetachCrash
  <2>3. CASE Disconnected(c)
    <3> DEFINE h == [Blank EXCEPT !.pc = "gone"]
    <3>1. /\ h.session = None /\ handler' = [handler EXCEPT ![c] = h]
          /\ Detach(c) /\ UNCHANGED <<up, wire>>
      BY <2>3 DEF Disconnected, Gone, Blank
    <3>2. \A b \in Conns : b # c => tx'[b] = tx[b]
      BY <2>3 DEF Disconnected, Gone, Boxes
    <3> HIDE DEF h
    <3> QED BY <3>1, <3>2, DetachCrash
  <2> QED BY <1>2, <2>1, <2>2, <2>3
<1>3. ASSUME NEW c \in Conns, SubscribeBooted(c) PROVE CrashKept(d)
  <2> DEFINE s == registry[handler[c].key]
             h == [pc |-> "idle", session |-> s, key |-> None,
                   found |-> IF sessions[s].state = "crashed" THEN "crashed"
                                                             ELSE "working"]
  <2>1. PICK n \in {0, Backfill} :
          /\ sessions' = [sessions EXCEPT ![s].state = "live",
                                          ![s].columns = [i \in 1 .. n |-> 0]]
          /\ tx' = [tx EXCEPT ![c] = OfferAll(@, Snapshot(s, [i \in 1 .. n |-> 0], 0))]
    BY <1>3 DEF SubscribeBooted, AttachTo
  <2>2. handler' = [handler EXCEPT ![c] = h] /\ h.session = s /\ UNCHANGED <<up, wire>>
    BY <1>3 DEF SubscribeBooted, AttachTo
  <2>3. s \in Started
    <3>1. lock = c /\ c # None
      BY <1>3, FlowAssumption DEF HubInv, Boots, Conns, None, SubscribeBooted
    <3> QED BY <3>1 DEF HubInv, Boots
  <2>4. sessions'[s].state = "live"
    <3>1. sessions[s] \in FlowSession
      BY <2>3, FlowSessionFacts
    <3> QED BY <2>1, <2>3, <3>1 DEF FlowSession, SessionsTyped, Started
  <2> HIDE DEF h, s
  <2>5. CASE d = c
    <3>1. handler'[d].session = s
      BY <2>2, <2>5 DEF HubInv, Shape
    <3> QED BY <2>4, <3>1 DEF CrashKept, Owed
  <2>6. CASE d # c
    <3>1. handler'[d] = handler[d] /\ tx'[d] = tx[d] /\ up'[d] = up[d] /\ wire'[d] = wire[d]
      BY <2>1, <2>2, <2>6 DEF HubInv, Shape, Boxes
    <3>2. CASE t = s
      BY <2>4, <3>1, <3>2 DEF CrashKept, Owed
    <3>3. CASE t # s
      <4>1. t # None => sessions'[t] = sessions[t]
        BY <1>1, <2>1, <3>3 DEF SessionsTyped, Started
      <4> QED BY <3>1, <4>1 DEF CrashKept, Owed
    <3> QED BY <3>2, <3>3
  <2> QED BY <2>5, <2>6
<1>4. ASSUME NEW c \in Conns, SubscribeJoins(c) PROVE CrashKept(d)
  <2> DEFINE s == registry[handler[c].key]
             h == [pc |-> "idle", session |-> s, key |-> None,
                   found |-> IF sessions[s].state = "crashed" THEN "crashed"
                                                             ELSE "working"]
  <2>1. /\ handler' = [handler EXCEPT ![c] = h] /\ UNCHANGED <<sessions, up, wire>>
        /\ h.session = s
        /\ sessions[s].state = "crashed" => h.found = "crashed"
    BY <1>4 DEF SubscribeJoins, AttachTo, hub
  <2>2. \A b \in Conns : b # c => tx'[b] = tx[b]
    BY <1>4 DEF SubscribeJoins, AttachTo, Boxes
  <2> HIDE DEF h, s
  <2>3. CASE d = c
    <3>1. handler'[d] = h
      BY <2>1, <2>3 DEF HubInv, Shape
    <3> QED BY <2>1, <3>1 DEF CrashKept, Owed
  <2>4. CASE d # c
    <3>1. handler'[d] = handler[d]
      BY <2>1, <2>4 DEF HubInv, Shape
    <3> QED BY <2>1, <2>2, <2>4, <3>1 DEF CrashKept, Owed
  <2> QED BY <2>3, <2>4
<1>5. ASSUME NEW c \in Conns, SubscribeBoots(c) PROVE CrashKept(d)
  <2>1. /\ UNCHANGED <<tx, up, wire>> /\ handler' = [handler EXCEPT ![c].pc = "boot"]
        /\ handler[c].pc = "wait"
        /\ sessions' = Append(sessions, [key |-> handler[c].key, state |-> "booting",
                                         columns |-> <<>>, epoch |-> 0])
    BY <1>5 DEF SubscribeBoots, Turn
  <2>2. t # None => sessions'[t] = sessions[t]
    BY <1>1, <2>1 DEF SessionsTyped, Started
  <2>3. CASE d = c
    <3>1. handler'[d].session = None
      BY <2>1, <2>3 DEF HubInv, Shape, Handlers, Handler
    <3> QED BY <3>1 DEF CrashKept, Owed
  <2>4. CASE d # c
    <3>1. handler'[d] = handler[d]
      BY <2>1, <2>4 DEF HubInv, Shape
    <3> QED BY <2>1, <2>2, <3>1 DEF CrashKept, Owed
  <2> QED BY <2>3, <2>4
<1>6. ASSUME NEW c \in Conns, SubscribeRefused(c) PROVE CrashKept(d)
  <2> DEFINE h == [Blank EXCEPT !.pc = "gone"]
  <2>1. /\ handler' = [handler EXCEPT ![c] = h] /\ h.session = None
        /\ tx' = [tx EXCEPT ![c].queue = <<>>]
        /\ wire' = [wire EXCEPT ![c] = "cut"] /\ UNCHANGED <<sessions, up>>
    BY <1>6 DEF SubscribeRefused, Gone, hub, Blank
  <2> HIDE DEF h
  <2>2. CASE d = c
    <3>1. handler'[d] = h
      BY <2>1, <2>2 DEF HubInv, Shape
    <3> QED BY <2>1, <3>1 DEF CrashKept, Owed
  <2>3. CASE d # c
    <3>1. handler'[d] = handler[d] /\ tx'[d] = tx[d] /\ wire'[d] = wire[d]
      BY <2>1, <2>3 DEF HubInv, Shape, Boxes
    <3> QED BY <2>1, <3>1 DEF CrashKept, Owed
  <2> QED BY <2>2, <2>3
<1>7. ASSUME NEW s \in Started, Book(s) PROVE CrashKept(d)
  <2>1. PICK n \in 0 .. 1, anchor \in 0 .. 1 :
          sessions' = [sessions EXCEPT
            ![s].columns = IF n = 1 THEN Append(@, sessions[s].epoch) ELSE @,
            ![s].epoch = @ + anchor]
    BY <1>7 DEF Book
  <2>6. d \notin Attached(s) => tx'[d] = tx[d]
    BY <1>7 DEF Book
  <2>2. sessions[s].state = "live" /\ UNCHANGED <<handler, up, wire>>
    BY <1>7 DEF Book
  <2>3. \A u \in Started : sessions'[u].state = sessions[u].state
    <3>1. sessions[s] \in FlowSession /\ s \in 1 .. Len(sessions)
      BY FlowSessionFacts
    <3> QED BY <2>1, <3>1 DEF FlowSession, SessionsTyped, Started
  <2>4. CASE t = s
    BY <2>2, <2>3, <2>4 DEF CrashKept, Owed
  <2>5. CASE t # s
    <3>1. tx'[d] = tx[d]
      BY <2>5, <2>6 DEF Attached
    <3> QED BY <1>1, <2>2, <2>3, <3>1 DEF CrashKept, Owed
  <2> QED BY <2>4, <2>5
<1>8. ASSUME NEW s \in Started, RunCrashes(s) PROVE CrashKept(d)
  <2>1. /\ sessions' = [sessions EXCEPT ![s].state = "crashed"]
        /\ tx' = [c \in Conns |-> IF c \in Attached(s)
                                  THEN Offer(tx[c], StatusFrame(s)) ELSE tx[c]]
        /\ UNCHANGED <<handler, up, wire>>
    BY <1>8 DEF RunCrashes, Crashes, StatusFrame
  <2>2. CASE t = s
    <3>1. tx'[d] = Offer(tx[d], StatusFrame(s)) /\ tx[d] \in Box
      BY <2>1, <2>2 DEF Attached, Boxes
    <3>2. StatusFrame(s) \in WireFrame
      BY FedFrames
    <3>3. StatusFrame(s).session = s /\ StatusFrame(s).kind = "status"
      BY DEF StatusFrame, Frame
    <3>4. StatusFrame(s) \in Range(tx'[d].queue) \cup tx'[d].evicted
      BY <3>1, <3>2, OfferKeepsFrames
    <3> QED BY <2>1, <2>2, <3>3, <3>4 DEF CrashKept, Reported
  <2>3. CASE t # s
    <3>1. tx'[d] = tx[d]
      BY <2>1, <2>3 DEF Attached
    <3>2. t # None => sessions'[t] = sessions[t]
      BY <1>1, <2>1, <2>3 DEF SessionsTyped, Started
    <3> QED BY <2>1, <3>1, <3>2 DEF CrashKept, Owed
  <2> QED BY <2>2, <2>3
<1> QED BY <1>2, <1>3, <1>4, <1>5, <1>6, <1>7, <1>8
        DEF HubNext, Handle, Subscribing, Feed

Watches(p) ==
  LET c == view[p].socket
  IN c # None /\ wire[c] = "open" /\ up[c] = <<>> /\ Owed(c)
CrashTold(p) == Watches(p) => view[p].degraded \/ Reported(view[p].socket)

LEMMA CrashByPane ==
  /\ CrashIsShown <=> \A p \in Panes : CrashTold(p)
  /\ CrashIsShown' <=> \A p \in Panes : CrashTold(p)'
BY Zenon DEF CrashIsShown, CrashTold, Watches, Owed, Reported

\* A pane that keeps its socket is still told
LEMMA CrashStays ==
  ASSUME NEW q \in Panes, CrashTold(q), UNCHANGED sessions,
         view'[q].socket = view[q].socket,
         view[q].degraded => view'[q].degraded,
         LET c == view[q].socket
         IN c # None =>
              /\ handler'[c] = handler[c]
              /\ wire'[c] = "open" /\ up'[c] = <<>> => wire[c] = "open" /\ up[c] = <<>>
              /\ Reported(c) => view'[q].degraded \/ Reported(c)'
  PROVE CrashTold(q)'
<1> SUFFICES ASSUME Watches(q)' PROVE view'[q].degraded \/ Reported(view[q].socket)'
  BY Zenon DEF CrashTold
<1> DEFINE c == view[q].socket
<1>1. c # None /\ wire'[c] = "open" /\ up'[c] = <<>> /\ Owed(c)'
  BY DEF Watches
<1>2. handler'[c] = handler[c] /\ wire[c] = "open" /\ up[c] = <<>>
  BY <1>1
<1>3. Owed(c)
  BY <1>1, <1>2 DEF Owed
<1>4. Watches(q)
  BY <1>1, <1>2, <1>3 DEF Watches
<1>5. view[q].degraded \/ Reported(c)
  BY <1>4, Zenon DEF CrashTold
<1>6. CASE view[q].degraded
  BY <1>6, Zenon
<1>7. CASE Reported(c)
  BY <1>1, <1>7, Zenon
<1> QED BY <1>5, <1>6, <1>7, Zenon

LEMMA OthersSocket ==
  ASSUME Typed, Sockets, NEW p \in Panes, NEW q \in Panes, q # p,
         view[q].socket # None
  PROVE /\ view[q].socket \in Conns /\ view[q].socket # view[p].socket
        /\ wire[view[q].socket] # "unused"
BY DEF Typed, Sockets, View

\* openSocket: the new socket is not open yet
LEMMA OpensCrash ==
  ASSUME Inv, Typed, Sockets, CrashIsShown, NEW p \in Panes, NEW v \in View,
         Opens(p, v), UNCHANGED <<sessions, handler, tx, up>>
  PROVE CrashIsShown'
<1>1. PICK c \in Conns :
        /\ IsNext(c) /\ wire' = [wire EXCEPT ![c] = "opening"]
        /\ view' = [view EXCEPT ![p] =
             [v EXCEPT !.socket = c, !.open = FALSE, !.timer = FALSE]]
  BY DEF Opens
<1>2. wire[c] = "unused"
  BY <1>1 DEF IsNext, Unused
<1>3. \A d \in Conns : wire'[d] = IF d = c THEN "opening" ELSE wire[d]
  BY <1>1 DEF Inv, HubInv, Shape
<1>4. ASSUME NEW q \in Panes PROVE CrashTold(q)'
  <2>1. CASE q = p
    <3>1. view'[p] = [v EXCEPT !.socket = c, !.open = FALSE, !.timer = FALSE]
      BY <1>1 DEF Typed
    <3>2. view'[p].socket = c
      BY <3>1 DEF View
    <3> QED BY <1>3, <2>1, <3>2 DEF CrashTold, Watches
  <2>2. CASE q # p
    <3>1. view'[q] = view[q]
      BY <1>1, <2>2 DEF Typed
    <3>2. view[q].socket # None =>
            wire'[view[q].socket] = wire[view[q].socket]
      BY <1>2, <1>3, <2>2, OthersSocket
    <3>3. CrashTold(q)
      BY CrashByPane
    <3>4. Reported(view[q].socket) => Reported(view[q].socket)'
      BY <3>1 DEF Reported
    <3> QED BY <3>1, <3>2, <3>3, <3>4, CrashStays
  <2> QED BY <2>1, <2>2
<1>5. \A q \in Panes : CrashTold(q)'
  BY <1>4
<1> QED BY <1>5, CrashByPane

\* subscribe(): the same stream sends nothing; another one leaves a message on
\* its way, for the socket was asked for the stream the pane had
LEMMA SubscribeCrash ==
  ASSUME Inv, Typed, Sockets, CrashIsShown, NEW p \in Panes, NEW k \in Keys,
         Subscribe(p, k)
  PROVE CrashIsShown'
<1> DEFINE v == view[p]
           next == [(IF v.desired = k THEN v ELSE Rewound(v)) EXCEPT !.desired = k]
           sent == [next EXCEPT !.active = k]
<1>1. v \in View
  BY DEF Typed
<1>2. /\ next \in View /\ next.desired = k /\ next.active = v.active
      /\ next.socket = v.socket /\ sent.socket = v.socket
      /\ v.desired = k => sent.degraded = v.degraded
  BY <1>1, NextViewTyped
<1>3. UNCHANGED <<sessions, handler, tx>>
  BY DEF Subscribe, hub
<1>4. \/ /\ v.socket # None /\ v.open /\ view' = [view EXCEPT ![p] = sent]
         /\ wire' = wire /\ up' = [up EXCEPT ![v.socket] = @ \o Sent(next)]
      \/ /\ v.socket # None /\ ~v.open /\ view' = [view EXCEPT ![p] = next]
         /\ wire' = wire /\ up' = up
      \/ v.socket = None /\ Opens(p, next) /\ up' = up
  BY DEF Subscribe
<1> HIDE DEF next, sent
<1>5. CASE v.socket = None /\ Opens(p, next) /\ up' = up
  BY <1>2, <1>3, <1>5, OpensCrash
<1>6. ASSUME NEW w, view' = [view EXCEPT ![p] = w], w.socket = v.socket, wire' = wire,
             v.socket # None, \A d \in Conns : d # v.socket => up'[d] = up[d],
             CrashTold(p)'
      PROVE CrashIsShown'
  <2>1. ASSUME NEW q \in Panes, q # p PROVE CrashTold(q)'
    <3>1. view'[q] = view[q]
      BY <1>6, <2>1 DEF Typed
    <3>2. view[q].socket # None =>
            up'[view[q].socket] = up[view[q].socket]
      BY <1>6, <2>1, OthersSocket
    <3>3. CrashTold(q)
      BY CrashByPane
    <3>4. Reported(view[q].socket) => Reported(view[q].socket)'
      BY <1>3, <3>1 DEF Reported
    <3> QED BY <1>3, <1>6, <3>1, <3>2, <3>3, <3>4, CrashStays
  <2> QED BY <1>6, <2>1, CrashByPane
<1>7. ASSUME v.socket # None, v.open, view' = [view EXCEPT ![p] = sent],
             wire' = wire, up' = [up EXCEPT ![v.socket] = @ \o Sent(next)]
      PROVE CrashIsShown'
  <2>1. v.active = v.desired /\ v.socket \in Conns
    BY <1>1, <1>7, ViewFacts DEF Sockets
  <2>2. up \in [Conns -> Seq(Request)]
    BY DEF Inv, HubInv, Shape
  <2>3. view'[p] = sent
    BY <1>7 DEF Typed
  <2>4. CrashTold(p)'
    <3>1. CASE v.desired = k
      <4>1. Sent(next) = <<>>
        BY <1>2, <2>1, <3>1 DEF Sent
      <4>2. up'[v.socket] = up[v.socket]
        <5>1. up[v.socket] \in Seq(Request)
          BY <2>1, <2>2
        <5>2. up[v.socket] \o <<>> = up[v.socket]
          BY <5>1
        <5> QED BY <1>7, <2>1, <2>2, <4>1, <5>2
      <4>3. CrashTold(p)
        BY CrashByPane
      <4>4. Reported(view[p].socket) => Reported(view[p].socket)'
        BY <1>2, <1>3, <2>3 DEF Reported
      <4>5. view'[p].degraded = view[p].degraded
        BY <1>2, <2>3, <3>1
      <4>6. view[p].degraded => view'[p].degraded
        BY <4>5
      <4> QED BY <1>2, <1>3, <1>7, <2>3, <4>2, <4>3, <4>4, <4>6, CrashStays
    <3>2. CASE v.desired # k
      <4>1. k # None /\ k \in Keys
        BY FlowAssumption
      <4>2. Sent(next) \in Seq({Message("unsubscribe", None), Message("subscribe", k)})
            /\ Len(Sent(next)) > 0
        <5> DEFINE a == Message("unsubscribe", None)
                   b == Message("subscribe", k)
        <5>1. Sent(next) = (IF v.active = None THEN <<>> ELSE <<a>>) \o <<b>>
          BY <1>2, <2>1, <3>2, <4>1 DEF Sent
        <5> HIDE DEF a, b
        <5>2. Sent(next) \in Seq({a, b}) /\ Len(Sent(next)) > 0
          BY <5>1
        <5> QED BY <5>2 DEF a, b
      <4>3. up'[v.socket] # <<>>
        <5> DEFINE x == up[v.socket]
                   y == Sent(next)
        <5>1. x \in Seq(Request) /\ up'[v.socket] = x \o y
          BY <1>7, <2>1, <2>2
        <5>2. y \in Seq({Message("unsubscribe", None), Message("subscribe", k)})
              /\ Len(y) > 0
          BY <4>2
        <5> HIDE DEF x, y
        <5>3. Len(x \o y) = Len(x) + Len(y) /\ Len(x) \in Nat /\ Len(y) \in Nat
          BY <5>1, <5>2
        <5>4. Len(x \o y) # 0
          BY <5>2, <5>3
        <5>5. x \o y # <<>>
          BY <5>4
        <5> QED BY <5>1, <5>5
      <4> QED BY <1>2, <2>3, <4>3 DEF CrashTold, Watches
    <3> QED BY <3>1, <3>2
  <2>5. \A d \in Conns : d # v.socket => up'[d] = up[d]
    BY <1>7, <2>2
  <2> QED BY <1>2, <1>6, <1>7, <2>4, <2>5
<1>8. ASSUME v.socket # None, ~v.open, view' = [view EXCEPT ![p] = next],
             wire' = wire, up' = up
      PROVE CrashIsShown'
  <2>1. wire[v.socket] # "open"
    BY <1>8 DEF Sockets
  <2>2. view'[p].socket = v.socket
    BY <1>2, <1>8 DEF Typed
  <2>3. CrashTold(p)'
    BY <1>8, <2>1, <2>2 DEF CrashTold, Watches
  <2> QED BY <1>2, <1>6, <1>8, <2>3
<1> QED BY <1>4, <1>5, <1>7, <1>8

\* A step of one pane that leaves it without an open, attached socket
LEMMA QuietCrash ==
  ASSUME Typed, Sockets, CrashIsShown, NEW p \in Panes,
         \A q \in Panes : q # p => view'[q] = view[q],
         \A d \in Conns : d # view[p].socket =>
           handler'[d] = handler[d] /\ wire'[d] = wire[d] /\ up'[d] = up[d],
         UNCHANGED <<sessions, tx>>, CrashTold(p)'
  PROVE CrashIsShown'
<1>1. ASSUME NEW q \in Panes, q # p PROVE CrashTold(q)'
  <2>1. view[q].socket # None =>
          LET d == view[q].socket
          IN handler'[d] = handler[d] /\ wire'[d] = wire[d] /\ up'[d] = up[d]
    BY <1>1, OthersSocket
  <2>2. CrashTold(q)
    BY CrashByPane
  <2>3. view'[q] = view[q]
    BY <1>1
  <2>4. view[q].socket # None => (Reported(view[q].socket) => Reported(view[q].socket)')
    BY <2>1, <2>3 DEF Reported
  <2> QED BY <2>1, <2>2, <2>3, <2>4, CrashStays
<1> QED BY <1>1, CrashByPane

LEMMA CloseCrash ==
  ASSUME Inv, Typed, Sockets, CrashIsShown, NEW p \in Panes,
         Close(p) \/ SocketCloses(p)
  PROVE CrashIsShown'
<1>1. /\ UNCHANGED <<sessions, handler, tx, up>>
      /\ \A d \in Conns : d # view[p].socket => wire'[d] = wire[d]
  BY DEF Close, SocketCloses, hubVars, hub
<1>2. view'[p].socket = None /\ \A q \in Panes : q # p => view'[q] = view[q]
  <2>1. CASE Close(p)
    BY <2>1 DEF Close, Typed, NewConnection
  <2>2. CASE SocketCloses(p)
    BY <2>2 DEF SocketCloses, Typed, View
  <2> QED BY <2>1, <2>2
<1>3. CrashTold(p)'
  BY <1>2 DEF CrashTold, Watches
<1> QED BY <1>1, <1>2, <1>3, QuietCrash

LEMMA SocketOpensCrash ==
  ASSUME Inv, Typed, Sockets, CrashIsShown, NEW p \in Panes, SocketOpens(p)
  PROVE CrashIsShown'
<1> DEFINE c == view[p].socket
<1>1. /\ c # None /\ wire[c] = "opening" /\ wire' = [wire EXCEPT ![c] = "open"]
      /\ handler' = [handler EXCEPT ![c].pc = "idle"]
      /\ \E m : up' = [up EXCEPT ![c] = m]
      /\ UNCHANGED <<sessions, tx>>
  BY DEF SocketOpens, hub
<1>2. c \in Conns /\ view'[p].socket = c /\ \A q \in Panes : q # p => view'[q] = view[q]
  BY <1>1 DEF SocketOpens, Typed, View
<1>3. handler'[c].session = None
  <2>1. handler[c].pc = "absent"
    BY <1>1, <1>2 DEF Inv, HubInv, Handlers
  <2>2. handler[c].session = None
    BY <1>2, <2>1 DEF Inv, HubInv, Handlers
  <2> QED BY <1>1, <1>2, <2>2 DEF Inv, HubInv, Shape, Handler
<1>4. CrashTold(p)'
  BY <1>2, <1>3 DEF CrashTold, Watches, Owed
<1>5. \A d \in Conns : d # c =>
        handler'[d] = handler[d] /\ wire'[d] = wire[d] /\ up'[d] = up[d]
  BY <1>1 DEF Inv, HubInv, Shape
<1> QED BY <1>1, <1>2, <1>4, <1>5, QuietCrash

LEMMA CutCrash ==
  ASSUME Inv, Typed, Sockets, CrashIsShown, NEW c \in Conns, Cut(c)
  PROVE CrashIsShown'
<1>1. /\ UNCHANGED <<sessions, handler, tx, view>>
      /\ wire' = [wire EXCEPT ![c] = "cut"]
      /\ \E m : up' = [up EXCEPT ![c] = m]
  BY DEF Cut, hub
<1>2. \A d \in Conns : /\ d = c => wire'[d] = "cut"
                       /\ d # c => wire'[d] = wire[d] /\ up'[d] = up[d]
  BY <1>1 DEF Inv, HubInv, Shape
<1>3. ASSUME NEW q \in Panes PROVE CrashTold(q)'
  <2>1. view[q].socket \in Conns \cup {None} /\ CrashTold(q) /\ view'[q] = view[q]
    BY <1>1, CrashByPane DEF Typed, View
  <2>2. Reported(view[q].socket) => Reported(view[q].socket)'
    BY <1>1 DEF Reported
  <2> QED BY <1>1, <1>2, <2>1, <2>2, CrashStays
<1> QED BY <1>3, CrashByPane

LEMMA DeliverCrash ==
  ASSUME Inv, Typed, Sockets, CrashIsShown, NEW p \in Panes, Deliver(p)
  PROVE CrashIsShown'
<1> DEFINE c == view[p].socket
           f == Head(tx[c].queue)
<1>1. DeliverEffect(p, c, f)
  BY DeliverFacts
<1> HIDE DEF f
<1>2. /\ UNCHANGED <<sessions, handler, up, wire>> /\ c # None /\ c \in Conns
      /\ \A q \in Panes : q # p => view'[q] = view[q]
      /\ \A d \in Conns : d # c => tx'[d] = tx[d]
  BY <1>1 DEF DeliverEffect, hub
<1>3. view'[p].socket = c /\ (f.kind = "status" \/ view[p].degraded => view'[p].degraded)
  BY <1>1 DEF DeliverEffect, Delivers
<1>4. ASSUME Reported(c) PROVE view'[p].degraded \/ Reported(c)'
  <2> DEFINE Q == tx[c].queue
             T == Tail(Q)
  <2>1. PICK g \in Range(tx[c].queue) \cup tx[c].evicted :
          g.session = handler[c].session /\ g.kind = "status"
    BY <1>4 DEF Reported
  <2>2. /\ tx'[c].queue = T /\ tx'[c].evicted = tx[c].evicted
        /\ Q # <<>> /\ f = Q[1]
    BY <1>1 DEF DeliverEffect
  <2>3. Q \in Seq(WireFrame)
    BY <1>2 DEF Typed, Boxes, Box
  <2> HIDE DEF Q
  <2>4. Range(Q) \subseteq Range(T) \cup {f}
    <3>1. Len(T) = Len(Q) - 1 /\ \A i \in 1 .. Len(Q) - 1 : T[i] = Q[i + 1]
      BY <2>2, <2>3
    <3>2. \A i \in 1 .. Len(Q) : i = 1 \/ i - 1 \in 1 .. Len(Q) - 1
      BY <2>3
    <3>3. \A i \in 1 .. Len(Q) : i # 1 => T[i - 1] = Q[i]
      BY <2>3, <3>1, <3>2
    <3>4. DOMAIN Q = 1 .. Len(Q) /\ DOMAIN T = 1 .. Len(Q) - 1
      BY <2>2, <2>3, <3>1
    <3> HIDE DEF T
    <3> QED BY <2>2, <3>2, <3>3, <3>4 DEF Range
  <2>5. CASE g = f
    BY <1>3, <2>1, <2>5
  <2>6. CASE g # f
    <3>1. g \in Range(tx'[c].queue) \cup tx'[c].evicted
      BY <2>1, <2>2, <2>4, <2>6 DEF Q
    <3> QED BY <1>2, <1>3, <2>1, <3>1 DEF Reported
  <2> QED BY <2>5, <2>6
<1>5. CrashTold(p)'
  <2>1. CrashTold(p) /\ (view[p].degraded => view'[p].degraded)
    BY <1>3, CrashByPane
  <2> QED BY <1>2, <1>3, <1>4, <2>1, CrashStays
<1>6. ASSUME NEW q \in Panes, q # p PROVE CrashTold(q)'
  <2>1. view'[q] = view[q] /\ CrashTold(q)
    BY <1>2, <1>6, CrashByPane
  <2>2. view[q].socket # None => tx'[view[q].socket] = tx[view[q].socket]
    BY <1>2, <1>6, OthersSocket
  <2>3. view[q].socket # None => (Reported(view[q].socket) => Reported(view[q].socket)')
    BY <1>2, <2>1, <2>2 DEF Reported
  <2> QED BY <1>2, <2>1, <2>3, CrashStays
<1> QED BY <1>5, <1>6, CrashByPane

LEMMA CrashStep ==
  ASSUME Inv, Typed, Sockets, CrashIsShown, [Next]_vars PROVE CrashIsShown'
<1>1. CASE HubNext /\ UNCHANGED paneVars
  <2>1. view' = view
    BY <1>1 DEF paneVars
  <2>2. ASSUME NEW q \in Panes PROVE CrashTold(q)'
    <3> DEFINE d == view[q].socket
    <3>1. CrashTold(q) /\ d \in Conns \cup {None} /\ view'[q] = view[q]
      BY <2>1, CrashByPane DEF Typed, View
    <3>2. CASE d = None
      BY <3>1, <3>2 DEF CrashTold, Watches
    <3>3. CASE d # None
      <4>1. CrashKept(d)
        <5> HIDE DEF d
        <5> QED BY <1>1, <3>1, <3>3, HubCrash DEF Inv, Typed
      <4>2. CASE ~Owed(d)'
        BY <2>1, <3>1, <4>2, Zenon DEF CrashTold, Watches
      <4>3. CASE Reported(d)'
        BY <2>1, <3>1, <4>3, Zenon DEF CrashTold, Watches
      <4>4. CASE /\ Owed(d) /\ handler'[d] = handler[d] /\ tx'[d] = tx[d]
                 /\ up'[d] = up[d] /\ wire'[d] = wire[d]
        <5>1. Reported(d) => Reported(d)'
          BY <2>1, <4>4 DEF Reported
        <5>2. Watches(q)' => Watches(q)
          BY <2>1, <3>1, <4>4, Zenon DEF Watches
        <5> QED BY <2>1, <3>1, <5>1, <5>2, Zenon DEF CrashTold
      <4> QED BY <4>1, <4>2, <4>3, <4>4 DEF CrashKept
    <3> QED BY <3>1, <3>2, <3>3
  <2> QED BY <2>2, CrashByPane
<1>2. ASSUME NEW p \in Panes, PaneStep(p) PROVE CrashIsShown'
  <2>1. CASE ReconnectTimer(p)
    <3>1. view[p] \in View /\ Opens(p, view[p]) /\ UNCHANGED <<sessions, handler, tx, up>>
      BY <2>1 DEF ReconnectTimer, hub, Typed
    <3> QED BY <3>1, OpensCrash
  <2> QED BY <1>2, <2>1, SocketOpensCrash, CloseCrash, DeliverCrash DEF PaneStep
<1>3. ASSUME NEW p \in Panes, Close(p) PROVE CrashIsShown'
  BY <1>3, CloseCrash
<1>4. ASSUME NEW p \in Panes, NEW k \in Keys, Subscribe(p, k) PROVE CrashIsShown'
  BY <1>4, SubscribeCrash
<1>5. ASSUME NEW c \in Conns, Cut(c) PROVE CrashIsShown'
  BY <1>5, CutCrash
<1>6. CASE UNCHANGED vars
  BY <1>6 DEF CrashIsShown, vars, hubVars, hub, paneVars
<1> QED BY <1>1, <1>2, <1>3, <1>4, <1>5, <1>6 DEF Next

\* A pane that watches a feed when its run loop crashes is shown that the feed
\* is degraded, as RunCrashes has the clients told: the Status is still queued,
\* evicted, or has reached the pane, which forgets it only with its stream.
THEOREM CrashesAreShown == Spec => []CrashIsShown
<1>1. Init => CrashIsShown
  BY DEF Init, CrashIsShown, NewConnection
<1>2. Inv /\ (Typed /\ Sockets) /\ CrashIsShown /\ [Next]_vars => CrashIsShown'
  BY CrashStep
<1> QED BY <1>1, <1>2, Invariant, StreamTyped, PTL DEF Spec

----------------------------------------------------------------------------
(* EpochsAreKnown *)

\* The pane v learns of epoch e of session s before frame i of the queue q: a
\* frame before it tells, or an evicted one did, or v knows already.  A Hello
\* in between would hide what was told before it from a pane that rewinds.
Hello(f, s) == f.kind = "hello" /\ f.session = s
Announced(q, i, s, e) ==
  \E h \in 1 .. i - 1 :
    /\ q[h].session = s /\ e \in q[h].announces
    /\ \A g \in h + 1 .. i - 1 : ~Hello(q[g], s)
Lost(ev, s, e) == \E f \in ev : f.session = s /\ e \in f.announces
Told(q, i, v, s, e) ==
  /\ \A g \in 1 .. i - 1 : ~Hello(q[g], s)
  /\ v.session = s => e \in v.epochs
Covered(q, ev, v, i, s, e) ==
  Announced(q, i, s, e) \/ Lost(ev, s, e) \/ Told(q, i, v, s, e)

\* Of each queued column, and of the column the attached session makes next
EpochsCovered(box, v) ==
  \A i \in DOMAIN box.queue : \A j \in DOMAIN box.queue[i].columns :
    Covered(box.queue, box.evicted, v, i, box.queue[i].session,
            box.queue[i].columns[j].epoch)
NextCovered(box, v, s, e) == Covered(box.queue, box.evicted, v, Len(box.queue) + 1, s, e)

LEMMA CoveredSame ==
  ASSUME NEW q, NEW r, NEW ev, NEW v, NEW i \in Nat, NEW s, NEW e,
         \A g \in 1 .. i - 1 : r[g] = q[g], Covered(q, ev, v, i, s, e)
  PROVE Covered(r, ev, v, i, s, e)
BY DEF Covered, Announced, Told

LEMMA AppendCovered ==
  ASSUME NEW box \in Box, NEW f \in WireFrame, NEW v, EpochsCovered(box, v),
         \A j \in DOMAIN f.columns : NextCovered(box, v, f.session, f.columns[j].epoch)
  PROVE LET after == WithFrame(box, f)
        IN /\ EpochsCovered(after, v)
           /\ \A s, e : NextCovered(box, v, s, e) /\ ~Hello(f, s) => NextCovered(after, v, s, e)
           /\ \A e \in f.announces : NextCovered(after, v, f.session, e)
<1> DEFINE after == WithFrame(box, f)
           q == box.queue
           r == Append(q, f)
           ev == box.evicted
           n == Len(q)
<1>1. after.queue = r /\ after.evicted = ev
  BY DEF Box, WithFrame
<1>2. /\ q \in Seq(WireFrame) /\ n \in Nat /\ Len(r) = n + 1
      /\ DOMAIN q = 1 .. n /\ DOMAIN r = 1 .. n + 1
      /\ \A g \in 1 .. n : r[g] = q[g]
      /\ r[n + 1] = f
  BY DEF Box
<1> HIDE DEF after, r, q, n, ev
<1>3. ASSUME NEW i \in DOMAIN r, NEW j \in DOMAIN r[i].columns
      PROVE Covered(r, ev, v, i, r[i].session, r[i].columns[j].epoch)
  <2>1. \A g \in 1 .. i - 1 : r[g] = q[g]
    BY <1>2
  <2>2. CASE i \in 1 .. n
    <3>1. Covered(q, ev, v, i, q[i].session, q[i].columns[j].epoch)
      BY <1>2, <1>3, <2>2 DEF EpochsCovered, q, ev
    <3> QED BY <1>2, <2>1, <2>2, <3>1, CoveredSame
  <2>3. CASE i = n + 1
    <3>1. Covered(q, ev, v, n + 1, f.session, f.columns[j].epoch)
      BY <1>2, <1>3, <2>3 DEF NextCovered, q, ev, n
    <3> QED BY <1>2, <2>1, <2>3, <3>1, CoveredSame
  <2> QED BY <1>2, <2>2, <2>3
<1>4. ASSUME NEW s, NEW e, Covered(q, ev, v, n + 1, s, e), ~Hello(f, s)
      PROVE Covered(r, ev, v, n + 2, s, e)
  <2>1. \A g \in 1 .. n + 1 : r[g] = q[g] \/ g = n + 1
    BY <1>2
  <2>2. CASE Announced(q, n + 1, s, e)
    <3>1. PICK h \in 1 .. n : /\ q[h].session = s /\ e \in q[h].announces
                              /\ \A g \in h + 1 .. n : ~Hello(q[g], s)
      BY <1>2, <2>2 DEF Announced
    <3>2. \A g \in h + 1 .. n + 1 : ~Hello(r[g], s)
      BY <1>2, <1>4, <3>1
    <3>3. h \in 1 .. (n + 2) - 1 /\ r[h] = q[h] /\ (n + 2) - 1 = n + 1
      BY <1>2
    <3> QED BY <3>1, <3>2, <3>3 DEF Covered, Announced
  <2>3. CASE Lost(ev, s, e)
    BY <2>3 DEF Covered
  <2>4. CASE Told(q, n + 1, v, s, e)
    <3>1. \A g \in 1 .. n : ~Hello(q[g], s)
      BY <1>2, <2>4 DEF Told
    <3>2. \A g \in 1 .. (n + 2) - 1 : ~Hello(r[g], s)
      BY <1>2, <1>4, <3>1
    <3> QED BY <2>4, <3>2 DEF Covered, Told
  <2> QED BY <1>4, <2>2, <2>3, <2>4 DEF Covered
<1>5. ASSUME NEW e \in f.announces PROVE Covered(r, ev, v, n + 2, f.session, e)
  <2>1. n + 1 \in 1 .. (n + 2) - 1 /\ (n + 1) + 1 .. (n + 2) - 1 = {}
    BY <1>2
  <2> QED BY <1>2, <1>5, <2>1 DEF Covered, Announced
<1>6. EpochsCovered(after, v)
  BY <1>1, <1>3 DEF EpochsCovered
<1>7. \A s, e : NextCovered(after, v, s, e) <=> Covered(r, ev, v, n + 2, s, e)
  <2>1. Len(r) + 1 = n + 2
    BY <1>2
  <2> QED BY <1>1, <2>1 DEF NextCovered
<1>8. \A s, e : NextCovered(box, v, s, e) <=> Covered(q, ev, v, n + 1, s, e)
  BY DEF NextCovered, q, ev, n
<1> QED BY <1>4, <1>5, <1>6, <1>7, <1>8 DEF after

\* The eviction of a frame shifts what is behind it; what it told is lost
LEMMA CoveredShift ==
  ASSUME NEW q, NEW r, NEW n \in Nat, NEW k \in 1 .. n, NEW ev, NEW v, NEW s, NEW e,
         \A j \in 1 .. n - 1 : r[j] = IF j < k THEN q[j] ELSE q[j + 1],
         NEW i \in 1 .. n + 1, i # k, Covered(q, ev, v, i, s, e)
  PROVE Covered(r, ev \cup {q[k]}, v, IF i > k THEN i - 1 ELSE i, s, e)
<1> DEFINE m == IF i > k THEN i - 1 ELSE i
           at(g) == IF g < k THEN g ELSE g + 1
<1>1. m \in 1 .. n /\ i \in Nat /\ k \in Nat
  OBVIOUS
<1>2. \A g \in 1 .. m - 1 : at(g) \in 1 .. i - 1 /\ r[g] = q[at(g)] /\ g \in Nat
  OBVIOUS
<1>3. \A h \in 1 .. i - 1 : h # k => \E a \in 1 .. m - 1 : at(a) = h
  <2> TAKE h \in 1 .. i - 1
  <2> HAVE h # k
  <2>1. CASE h < k
    <3>1. h \in 1 .. m - 1 /\ at(h) = h
      BY <1>1, <2>1
    <3> QED BY <3>1
  <2>2. CASE h > k
    <3>1. h - 1 \in 1 .. m - 1 /\ at(h - 1) = h
      BY <1>1, <2>2
    <3> QED BY <3>1
  <2> QED BY <2>1, <2>2
<1>4. \A a, g \in Nat : a < g => at(a) < at(g)
  BY <1>1
<1> HIDE DEF m, at
<1>5. CASE Announced(q, i, s, e)
  <2>1. PICK h \in 1 .. i - 1 : /\ q[h].session = s /\ e \in q[h].announces
                                /\ \A g \in h + 1 .. i - 1 : ~Hello(q[g], s)
    BY <1>5 DEF Announced
  <2>2. CASE h = k
    BY <2>1, <2>2 DEF Covered, Lost
  <2>3. CASE h # k
    <3>1. PICK a \in 1 .. m - 1 : at(a) = h
      BY <1>3, <2>3
    <3>2. r[a].session = s /\ e \in r[a].announces
      BY <1>2, <2>1, <3>1
    <3>3. ASSUME NEW g \in a + 1 .. m - 1 PROVE ~Hello(r[g], s)
      <4>1. g \in 1 .. m - 1 /\ a \in Nat /\ g \in Nat /\ a < g
        BY <1>1, <3>1
      <4>2. at(g) \in 1 .. i - 1 /\ r[g] = q[at(g)]
        BY <1>2, <4>1
      <4>3. h < at(g)
        BY <1>4, <3>1, <4>1
      <4>4. at(g) \in h + 1 .. i - 1
        BY <4>2, <4>3
      <4> QED BY <2>1, <4>2, <4>4
    <3> QED BY <3>1, <3>2, <3>3 DEF Covered, Announced, m
  <2> QED BY <2>2, <2>3
<1>6. CASE Lost(ev, s, e)
  BY <1>6 DEF Covered, Lost
<1>7. CASE Told(q, i, v, s, e)
  <2>1. \A g \in 1 .. m - 1 : ~Hello(r[g], s)
    BY <1>2, <1>7 DEF Told
  <2> QED BY <1>7, <2>1 DEF Covered, Told, m
<1> QED BY <1>5, <1>6, <1>7 DEF Covered

LEMMA RemoveCovered ==
  ASSUME NEW box \in Box, NEW v, EpochsCovered(box, v), NEW k \in DOMAIN box.queue
  PROVE LET after == [queue |-> RemoveAt(box.queue, k),
                      evicted |-> box.evicted \cup {box.queue[k]}]
        IN /\ after \in Box /\ EpochsCovered(after, v)
           /\ \A s, e : NextCovered(box, v, s, e) => NextCovered(after, v, s, e)
<1> DEFINE q == box.queue
           r == RemoveAt(q, k)
           ev == box.evicted
           n == Len(q)
           after == [queue |-> r, evicted |-> ev \cup {q[k]}]
<1>1. /\ q \in Seq(WireFrame) /\ n \in Nat /\ DOMAIN q = 1 .. n /\ k \in 1 .. n
      /\ q[k] \in WireFrame /\ ev \in SUBSET WireFrame
  BY DEF Box
<1>2. /\ r \in Seq(WireFrame) /\ Len(r) = n - 1
      /\ \A j \in 1 .. n - 1 : r[j] = IF j < k THEN q[j] ELSE q[j + 1]
  BY <1>1, RemoveFacts
<1> HIDE DEF r
<1>3. DOMAIN r = 1 .. n - 1
  BY <1>2
<1>4. after \in Box
  BY <1>1, <1>2 DEF Box
<1> HIDE DEF q, n, ev
<1>5. ASSUME NEW i \in DOMAIN r, NEW j \in DOMAIN r[i].columns
      PROVE Covered(r, ev \cup {q[k]}, v, i, r[i].session, r[i].columns[j].epoch)
  <2> DEFINE h == IF i < k THEN i ELSE i + 1
  <2>1. h \in 1 .. n /\ h # k /\ r[i] = q[h] /\ (IF h > k THEN h - 1 ELSE h) = i
        /\ h \in 1 .. n + 1
    BY <1>1, <1>2, <1>3
  <2> HIDE DEF h
  <2>2. Covered(q, ev, v, h, q[h].session, q[h].columns[j].epoch)
    BY <1>1, <1>5, <2>1 DEF EpochsCovered, q, ev
  <2>3. Covered(r, ev \cup {q[k]}, v, IF h > k THEN h - 1 ELSE h,
                q[h].session, q[h].columns[j].epoch)
    BY <1>1, <1>2, <2>1, <2>2, CoveredShift
  <2> QED BY <2>1, <2>3
<1>6. EpochsCovered(after, v)
  BY <1>5 DEF EpochsCovered
<1>7. ASSUME NEW s, NEW e, NextCovered(box, v, s, e) PROVE NextCovered(after, v, s, e)
  <2>1. Covered(q, ev, v, n + 1, s, e)
    BY <1>7 DEF NextCovered, q, ev, n
  <2> DEFINE i == n + 1
  <2>2. i \in 1 .. n + 1 /\ i # k /\ (IF i > k THEN i - 1 ELSE i) = n
    BY <1>1
  <2>3. Covered(q, ev, v, i, s, e)
    BY <2>1
  <2> HIDE DEF i
  <2>4. Covered(r, ev \cup {q[k]}, v, IF i > k THEN i - 1 ELSE i, s, e)
    BY <1>1, <1>2, <2>2, <2>3, CoveredShift
  <2>5. Len(r) + 1 = n
    BY <1>1, <1>2
  <2> QED BY <2>2, <2>4, <2>5 DEF NextCovered
<1> QED BY <1>4, <1>6, <1>7 DEF q, r, ev

LEMMA OfferCovered ==
  ASSUME NEW box \in Box, NEW f \in WireFrame, NEW v, EpochsCovered(box, v),
         \A j \in DOMAIN f.columns : NextCovered(box, v, f.session, f.columns[j].epoch)
  PROVE /\ Offer(box, f) \in Box /\ EpochsCovered(Offer(box, f), v)
        /\ \A s, e : NextCovered(box, v, s, e) /\ ~Hello(f, s) => NextCovered(Offer(box, f), v, s, e)
        /\ \A e \in f.announces : NextCovered(Offer(box, f), v, f.session, e)
<1>1. CASE Offer(box, f) = [box EXCEPT !.queue = Append(@, f)]
  <2> DEFINE after == WithFrame(box, f)
  <2>1. /\ EpochsCovered(after, v)
        /\ \A s, e : NextCovered(box, v, s, e) /\ ~Hello(f, s) => NextCovered(after, v, s, e)
        /\ \A e \in f.announces : NextCovered(after, v, f.session, e)
    BY AppendCovered
  <2>2. Offer(box, f) = after /\ Offer(box, f) \in Box
    BY <1>1, OfferTyped DEF WithFrame
  <2> HIDE DEF after
  <2> QED BY <2>1, <2>2
<1>2. CASE ~(Offer(box, f) = [box EXCEPT !.queue = Append(@, f)])
  <2>1. PICK k \in DOMAIN box.queue :
          Offer(box, f) = [queue |-> Append(RemoveAt(box.queue, k), f),
                           evicted |-> box.evicted \cup {box.queue[k]}]
    BY <1>2, OfferCases
  <2> DEFINE less == [queue |-> RemoveAt(box.queue, k),
                      evicted |-> box.evicted \cup {box.queue[k]}]
  <2>2. Offer(box, f) = [less EXCEPT !.queue = Append(@, f)]
    <3> DEFINE r == RemoveAt(box.queue, k)
               ev == box.evicted \cup {box.queue[k]}
    <3>1. Offer(box, f) = [queue |-> Append(r, f), evicted |-> ev]
      BY <2>1
    <3>2. less = [queue |-> r, evicted |-> ev]
      OBVIOUS
    <3> HIDE DEF r, ev, less
    <3> QED BY <3>1, <3>2, SMTT(30)
  <2>3. /\ less \in Box /\ EpochsCovered(less, v)
        /\ \A s, e : NextCovered(box, v, s, e) => NextCovered(less, v, s, e)
    BY RemoveCovered
  <2> HIDE DEF less
  <2>4. \A j \in DOMAIN f.columns : NextCovered(less, v, f.session, f.columns[j].epoch)
    BY <2>3
  <2> DEFINE after == WithFrame(less, f)
  <2>5. /\ EpochsCovered(after, v)
        /\ \A s, e : NextCovered(less, v, s, e) /\ ~Hello(f, s) => NextCovered(after, v, s, e)
        /\ \A e \in f.announces : NextCovered(after, v, f.session, e)
    BY <2>3, <2>4, AppendCovered
  <2> HIDE DEF after
  <2>6. Offer(box, f) = after
    BY <2>2 DEF after, WithFrame
  <2> QED BY <2>3, <2>5, <2>6, OfferTyped
<1> QED BY <1>1, <1>2

LEMMA SnapshotCovered ==
  ASSUME NEW s \in 1 .. MaxStarts, NEW cols \in Seq(0 .. MaxEpoch),
         Len(cols) <= MaxColumns, NEW epoch \in 0 .. MaxEpoch, NEW box \in Box,
         NEW v, EpochsCovered(box, v)
  PROVE LET after == OfferAll(box, Snapshot(s, cols, epoch))
        IN EpochsCovered(after, v) /\ NextCovered(after, v, s, epoch)
<1> DEFINE after == OfferAll(box, Snapshot(s, cols, epoch))
           f == HelloFrame(s, cols, epoch)
           g == RecentFrame(s, cols)
           told == {Recent(cols)[i].epoch : i \in DOMAIN Recent(cols)} \cup {epoch}
           hello == WithFrame(box, f)
           last == WithFrame(hello, g)
<1>1. f \in WireFrame /\ g \in WireFrame /\ hello \in Box
  BY SnapshotFacts
<1>2. /\ f.columns = <<>> /\ f.session = s /\ f.announces = told
      /\ g.columns = Recent(cols) /\ g.session = s /\ ~Hello(g, s)
  BY DEF HelloFrame, RecentFrame, Frame, Hello
<1>3. DOMAIN f.columns = {}
  BY <1>2
<1>4. epoch \in told /\ \A j \in DOMAIN Recent(cols) : Recent(cols)[j].epoch \in told
  OBVIOUS
<1>5. (cols = <<>> => after = hello) /\ (cols # <<>> => after = last)
  BY SnapshotFacts
<1> HIDE DEF f, g, told, after
<1>6. EpochsCovered(hello, v) /\ \A e \in told : NextCovered(hello, v, s, e)
  <2>1. \A j \in DOMAIN f.columns : NextCovered(box, v, f.session, f.columns[j].epoch)
    BY <1>3
  <2>2. EpochsCovered(hello, v) /\ \A e \in f.announces : NextCovered(hello, v, f.session, e)
    BY <1>1, <2>1, AppendCovered
  <2> HIDE DEF hello
  <2> QED BY <1>2, <2>2
<1> HIDE DEF hello
<1>7. ASSUME cols = <<>> PROVE EpochsCovered(after, v) /\ NextCovered(after, v, s, epoch)
  BY <1>4, <1>5, <1>6, <1>7
<1>8. ASSUME cols # <<>> PROVE EpochsCovered(after, v) /\ NextCovered(after, v, s, epoch)
  <2>1. \A j \in DOMAIN g.columns : NextCovered(hello, v, g.session, g.columns[j].epoch)
    BY <1>2, <1>4, <1>6
  <2>2. /\ EpochsCovered(last, v)
        /\ \A t, e : NextCovered(hello, v, t, e) /\ ~Hello(g, t) => NextCovered(last, v, t, e)
    BY <1>1, <1>6, <2>1, AppendCovered
  <2>3. NextCovered(last, v, s, epoch)
    BY <1>2, <1>4, <1>6, <2>2
  <2> HIDE DEF last
  <2> QED BY <1>5, <1>8, <2>2, <2>3
<1> QED BY <1>7, <1>8 DEF after

\* A rewind forgets the session, and a covered epoch is told again
LEMMA MemoryCovered ==
  ASSUME NEW box \in Box, NEW v, NEW w, SameMemory(v, w) \/ NoMemory(w)
  PROVE /\ EpochsCovered(box, v) => EpochsCovered(box, w)
        /\ \A s, e : s # None /\ NextCovered(box, v, s, e) => NextCovered(box, w, s, e)
<1>1. ASSUME NEW q, NEW ev, NEW i, NEW s, NEW e, s # None, Covered(q, ev, v, i, s, e)
      PROVE Covered(q, ev, w, i, s, e)
  BY <1>1 DEF Covered, Told, SameMemory, NoMemory
<1>2. \A i \in DOMAIN box.queue : box.queue[i].session # None
  <2>1. \A i \in DOMAIN box.queue : box.queue[i] \in WireFrame
    BY DEF Box
  <2> QED BY <2>1, FrameFacts
<1> QED BY <1>1, <1>2 DEF EpochsCovered, NextCovered

\* The first frame reaches the pane
LEMMA TailCovered ==
  ASSUME NEW box \in Box, NEW v, NEW w, box.queue # <<>>, EpochsCovered(box, v),
         w.epochs = v.epochs \cup box.queue[1].announces,
         w.session = IF box.queue[1].kind = "hello" THEN box.queue[1].session
                                                   ELSE v.session
  PROVE LET after == [queue |-> Tail(box.queue), evicted |-> box.evicted]
        IN /\ EpochsCovered(after, w)
           /\ \A s, e : NextCovered(box, v, s, e) => NextCovered(after, w, s, e)
<1> DEFINE q == box.queue
           r == Tail(q)
           ev == box.evicted
           n == Len(q)
           f == q[1]
           after == [queue |-> r, evicted |-> ev]
<1>1. q \in Seq(WireFrame) /\ n \in Nat /\ DOMAIN q = 1 .. n /\ q # <<>>
  BY DEF Box
<1> HIDE DEF q
<1>2. /\ n >= 1 /\ Len(r) = n - 1 /\ r \in Seq(WireFrame)
      /\ \A j \in 1 .. n - 1 : r[j] = q[j + 1]
  BY <1>1
<1> HIDE DEF r
<1>3. DOMAIN r = 1 .. n - 1
  BY <1>2
<1> HIDE DEF n, ev, f
<1>4. /\ w.epochs = v.epochs \cup f.announces
      /\ w.session = IF f.kind = "hello" THEN f.session ELSE v.session
  BY DEF f, q
<1>5. ASSUME NEW i \in 2 .. n + 1, NEW s, NEW e, Covered(q, ev, v, i, s, e)
      PROVE Covered(r, ev, w, i - 1, s, e)
  <2>1. \A g \in 1 .. (i - 1) - 1 : r[g] = q[g + 1] /\ g + 1 \in 1 .. i - 1
    BY <1>1, <1>2
  <2>2. CASE Announced(q, i, s, e)
    <3>1. PICK h \in 1 .. i - 1 : /\ q[h].session = s /\ e \in q[h].announces
                                  /\ \A g \in h + 1 .. i - 1 : ~Hello(q[g], s)
      BY <2>2 DEF Announced
    <3>2. CASE h = 1
      <4>1. \A g \in 1 .. (i - 1) - 1 : ~Hello(r[g], s)
        BY <2>1, <3>1, <3>2
      <4>2. e \in w.epochs
        BY <1>4, <3>1, <3>2 DEF f
      <4> QED BY <4>1, <4>2 DEF Covered, Told
    <3>3. CASE h # 1
      <4>1. h - 1 \in 1 .. (i - 1) - 1 /\ r[h - 1] = q[h]
        BY <1>1, <1>2, <3>3
      <4>2. \A g \in (h - 1) + 1 .. (i - 1) - 1 : ~Hello(r[g], s)
        BY <2>1, <3>1, <3>3
      <4> QED BY <3>1, <4>1, <4>2 DEF Covered, Announced
    <3> QED BY <3>2, <3>3
  <2>3. CASE Lost(ev, s, e)
    BY <2>3 DEF Covered
  <2>4. CASE Told(q, i, v, s, e)
    <3>1. \A g \in 1 .. i - 1 : ~Hello(q[g], s)
      BY <2>4 DEF Told
    <3>2. ~Hello(f, s)
      BY <3>1 DEF f
    <3>3. w.session = s => v.session = s
      BY <1>4, <3>2 DEF Hello
    <3>4. \A g \in 1 .. (i - 1) - 1 : ~Hello(r[g], s)
      BY <2>1, <3>1
    <3> QED BY <1>4, <2>4, <3>3, <3>4 DEF Covered, Told
  <2> QED BY <1>5, <2>2, <2>3, <2>4 DEF Covered
<1>6. ASSUME NEW i \in DOMAIN r, NEW j \in DOMAIN r[i].columns
      PROVE Covered(r, ev, w, i, r[i].session, r[i].columns[j].epoch)
  <2> DEFINE h == i + 1
  <2>1. h \in 2 .. n + 1 /\ h \in DOMAIN q /\ r[i] = q[h] /\ h - 1 = i
    BY <1>1, <1>2, <1>3 DEF n
  <2> HIDE DEF h
  <2>2. Covered(q, ev, v, h, q[h].session, q[h].columns[j].epoch)
    BY <1>6, <2>1 DEF EpochsCovered, q, ev
  <2>3. Covered(r, ev, w, h - 1, q[h].session, q[h].columns[j].epoch)
    BY <1>5, <2>1, <2>2
  <2> QED BY <2>1, <2>3
<1>7. EpochsCovered(after, w)
  BY <1>6 DEF EpochsCovered
<1>8. ASSUME NEW s, NEW e, NextCovered(box, v, s, e) PROVE NextCovered(after, w, s, e)
  <2> DEFINE i == n + 1
  <2>1. Covered(q, ev, v, i, s, e)
    BY <1>8 DEF NextCovered, q, ev, n
  <2>2. i \in 2 .. n + 1 /\ i - 1 = n /\ Len(r) + 1 = n
    BY <1>1, <1>2 DEF n
  <2> HIDE DEF i
  <2>3. Covered(r, ev, w, i - 1, s, e)
    BY <1>5, <2>1, <2>2
  <2> QED BY <2>2, <2>3 DEF NextCovered
<1> QED BY <1>7, <1>8 DEF r, ev, q

LEMMA HubEvicts ==
  ASSUME Inv, Typed, HubEffect, NEW d \in Conns PROVE tx[d].evicted \subseteq tx'[d].evicted
<1>1. tx[d] \in Box
  BY DEF Typed, Boxes
<1>2. CASE Left(d)
  BY <1>1, <1>2 DEF Left, Box
<1>3. CASE Joined(d)
  <2> DEFINE s == handler'[d].session
             cols == sessions'[s].columns
             epoch == sessions'[s].epoch
             b == tx[d]
             f == HelloFrame(s, cols, epoch)
             g == RecentFrame(s, cols)
             hello == WithFrame(b, f)
             after == OfferAll(b, Snapshot(s, cols, epoch))
  <2>1. /\ s \in 1 .. MaxStarts /\ cols \in Seq(0 .. MaxEpoch)
        /\ Len(cols) <= MaxColumns /\ epoch \in 0 .. MaxEpoch /\ b \in Box
    BY <1>1, <1>3, JoinedFacts
  <2>2. tx'[d] = after
    BY <1>3 DEF Joined
  <2> HIDE DEF s, cols, epoch, b
  <2>3. /\ hello \in Box
        /\ cols = <<>> => after = hello
        /\ cols # <<>> => after = WithFrame(hello, g)
    BY <2>1, SnapshotFacts
  <2> HIDE DEF after
  <2>4. hello.evicted = b.evicted
    BY <2>1 DEF Box, WithFrame
  <2> HIDE DEF hello
  <2>5. WithFrame(hello, g).evicted = hello.evicted
    BY <2>3 DEF Box, WithFrame
  <2>6. tx'[d].evicted = b.evicted
    BY <2>2, <2>3, <2>4, <2>5
  <2> QED BY <2>6 DEF b
<1>4. CASE Idle(d)
  <2>1. CASE tx'[d] = tx[d]
    BY <2>1
  <2>2. CASE /\ handler[d].session # None
             /\ tx'[d] = Offer(tx[d], StatusFrame(handler[d].session))
    <3>1. handler[d].session \in Started
      BY <2>2 DEF Inv, HubInv, Handlers
    <3>2. StatusFrame(handler[d].session) \in WireFrame
      BY <3>1, FedFrames DEF Typed
    <3> QED BY <1>1, <2>2, <3>2, OfferKeepsFrames
  <2> QED BY <1>4, <2>1, <2>2 DEF Idle
<1>5. CASE Fed(d)
  <2> DEFINE s == handler[d].session
  <2>1. \/ FedColumn(d, s) /\ ColumnFrame(s) \in WireFrame
        \/ FedEpoch(d, s) /\ EpochFrame(s) \in WireFrame
        \/ /\ FedBoth(d, s) /\ ColumnFrame(s) \in WireFrame
           /\ EpochFrame(s) \in WireFrame
    BY <1>5, FedTyped
  <2> HIDE DEF s
  <2>2. CASE FedColumn(d, s) /\ ColumnFrame(s) \in WireFrame
    BY <1>1, <2>2, OfferKeepsFrames DEF FedColumn
  <2>3. CASE FedEpoch(d, s) /\ EpochFrame(s) \in WireFrame
    BY <1>1, <2>3, OfferKeepsFrames DEF FedEpoch
  <2>4. CASE /\ FedBoth(d, s) /\ ColumnFrame(s) \in WireFrame
             /\ EpochFrame(s) \in WireFrame
    <3> DEFINE box == Offer(tx[d], ColumnFrame(s))
    <3>1. box \in Box /\ tx[d].evicted \subseteq box.evicted
      BY <1>1, <2>4, OfferTyped, OfferKeepsFrames
    <3>2. tx'[d] = Offer(box, EpochFrame(s))
      BY <2>4 DEF FedBoth
    <3> HIDE DEF box
    <3> QED BY <2>4, <3>1, <3>2, OfferKeepsFrames
  <2> QED BY <2>1, <2>2, <2>3, <2>4
<1> QED BY <1>2, <1>3, <1>4, <1>5 DEF HubEffect

\* What was evicted is remembered
LEMMA EvictedGrows ==
  ASSUME Inv, Inv', Typed, Sockets, [Next]_vars
  PROVE /\ \A d \in Conns : tx[d].evicted \subseteq tx'[d].evicted
        /\ Evicted \subseteq Evicted'
<1>1. ASSUME NEW d \in Conns PROVE tx[d].evicted \subseteq tx'[d].evicted
  <2>1. CASE HubNext /\ HubEffect /\ UNCHANGED paneVars
    BY <2>1, HubEvicts
  <2>2. ASSUME NEW p \in Panes, PaneEffect(p) PROVE tx'[d] = tx[d]
    BY <2>2 DEF PaneEffect
  <2>3. ASSUME NEW p \in Panes, Deliver(p) PROVE tx'[d].evicted = tx[d].evicted
    <3> DEFINE c == view[p].socket
               f == Head(tx[c].queue)
    <3>1. DeliverEffect(p, c, f)
      BY <2>3, DeliverFacts
    <3> HIDE DEF c, f
    <3> QED BY <3>1 DEF DeliverEffect
  <2>4. CASE Stutters
    BY <2>4 DEF Stutters
  <2> QED BY <2>1, <2>2, <2>3, <2>4, StepEffect
<1> QED BY <1>1 DEF Evicted

LEMMA HubEpochs ==
  ASSUME Inv, Typed, HubEffect, NEW d \in Conns, NEW v, EpochsCovered(tx[d], v),
         LET s == handler[d].session
         IN s # None => NextCovered(tx[d], v, s, sessions[s].epoch)
  PROVE /\ EpochsCovered(tx'[d], v)
        /\ LET s == handler'[d].session
           IN s # None => NextCovered(tx'[d], v, s, sessions'[s].epoch)
<1>1. tx[d] \in Box
  BY DEF Typed, Boxes
<1>2. CASE Left(d)
  <2>1. DOMAIN <<>> = {}
    OBVIOUS
  <2>2. CASE tx'[d] = [tx[d] EXCEPT !.queue = <<>>]
    <3>1. tx'[d].queue = <<>>
      BY <1>1, <2>2 DEF Box
    <3> QED BY <1>2, <2>1, <3>1 DEF EpochsCovered, Left
  <2> QED BY <1>2, <2>2 DEF Left
<1>3. CASE Joined(d)
  <2> DEFINE s == handler'[d].session
             cols == sessions'[s].columns
             epoch == sessions'[s].epoch
             b == tx[d]
             after == OfferAll(b, Snapshot(s, cols, epoch))
  <2>1. /\ s \in 1 .. MaxStarts /\ cols \in Seq(0 .. MaxEpoch)
        /\ Len(cols) <= MaxColumns /\ epoch \in 0 .. MaxEpoch /\ b \in Box
        /\ EpochsCovered(b, v)
    BY <1>1, <1>3, JoinedFacts
  <2>2. tx'[d] = after
    BY <1>3 DEF Joined
  <2> HIDE DEF s, cols, epoch, b
  <2>3. EpochsCovered(after, v) /\ NextCovered(after, v, s, epoch)
    BY <2>1, SnapshotCovered
  <2> HIDE DEF after
  <2> QED BY <2>2, <2>3 DEF s, epoch
<1>4. CASE Idle(d)
  <2> DEFINE s == handler[d].session
             e == sessions[s].epoch
  <2>1. handler'[d].session = s
    BY <1>4 DEF Idle
  <2>4. s # None => sessions'[s].epoch = e /\ NextCovered(tx[d], v, s, e)
    BY <1>4 DEF Idle, SameStream
  <2>2. CASE tx'[d] = tx[d]
    <3>1. s # None => NextCovered(tx'[d], v, s, sessions'[s].epoch)
      <4> HIDE DEF s, e
      <4> QED BY <2>2, <2>4
    <3>2. EpochsCovered(tx'[d], v)
      BY <2>2
    <3> QED BY <2>1, <3>1, <3>2
  <2>3. CASE s # None /\ tx'[d] = Offer(tx[d], StatusFrame(s))
    <3>1. s \in Started
      BY <2>3 DEF Inv, HubInv, Handlers
    <3>2. StatusFrame(s) \in WireFrame
      BY <3>1, FedFrames DEF Typed
    <3>3. StatusFrame(s).columns = <<>> /\ ~Hello(StatusFrame(s), s)
      BY DEF StatusFrame, Frame, Hello
    <3> DEFINE f == StatusFrame(s)
    <3>4. f \in WireFrame /\ DOMAIN f.columns = {} /\ ~Hello(f, s)
      BY <3>2, <3>3
    <3>5. tx'[d] = Offer(tx[d], f)
      BY <2>3
    <3> HIDE DEF f
    <3>6. EpochsCovered(tx'[d], v) /\ NextCovered(tx'[d], v, s, sessions'[s].epoch)
      <4> HIDE DEF s, e
      <4> QED BY <1>1, <2>3, <2>4, <3>4, <3>5, OfferCovered
    <3> QED BY <2>1, <3>6
  <2> QED BY <1>4, <2>2, <2>3 DEF Idle
<1>5. CASE Fed(d)
  <2> DEFINE s == handler[d].session
             e == sessions[s].epoch
             cf == ColumnFrame(s)
             ef == EpochFrame(s)
             b == tx[d]
  <2>1. /\ s \in Started
        /\ \/ FedColumn(d, s) /\ cf \in WireFrame
           \/ FedEpoch(d, s) /\ ef \in WireFrame
           \/ FedBoth(d, s) /\ cf \in WireFrame /\ ef \in WireFrame
    BY <1>5, FedTyped
  <2>2. s # None /\ handler'[d].session = s /\ NextCovered(b, v, s, e) /\ EpochsCovered(b, v)
        /\ b \in Box
    BY <1>1, <1>5 DEF Fed
  <2>3. /\ cf.session = s /\ ~Hello(cf, s)
        /\ \A j \in DOMAIN cf.columns : cf.columns[j].epoch = e
    <3>1. cf.columns = <<Column(Len(sessions[s].columns) + 1, e)>>
      BY DEF ColumnFrame, Frame
    <3>2. \A x : DOMAIN <<x>> = {1} /\ <<x>>[1] = x
      OBVIOUS
    <3>3. Column(Len(sessions[s].columns) + 1, e).epoch = e
      BY DEF Column
    <3>4. cf.session = s /\ ~Hello(cf, s)
      BY DEF ColumnFrame, Frame, Hello
    <3> HIDE DEF cf, e, s
    <3> QED BY <3>1, <3>2, <3>3, <3>4
  <2>4. ef.session = s /\ DOMAIN ef.columns = {} /\ e + 1 \in ef.announces
    BY DEF EpochFrame, Frame
  <2>5. /\ FedColumn(d, s) => tx'[d] = Offer(b, cf) /\ sessions'[s].epoch = e
        /\ FedEpoch(d, s) => tx'[d] = Offer(b, ef) /\ sessions'[s].epoch = e + 1
        /\ FedBoth(d, s) => tx'[d] = Offer(Offer(b, cf), ef) /\ sessions'[s].epoch = e + 1
    BY DEF FedColumn, FedEpoch, FedBoth
  <2> HIDE DEF cf, ef, e, b
  <2>6. cf \in WireFrame =>
          /\ Offer(b, cf) \in Box /\ EpochsCovered(Offer(b, cf), v)
          /\ NextCovered(Offer(b, cf), v, s, e)
    BY <2>2, <2>3, OfferCovered
  <2>7. ASSUME NEW x \in Box, EpochsCovered(x, v), ef \in WireFrame
        PROVE EpochsCovered(Offer(x, ef), v) /\ NextCovered(Offer(x, ef), v, s, e + 1)
    BY <2>4, <2>7, OfferCovered
  <2>8. EpochsCovered(tx'[d], v) /\ NextCovered(tx'[d], v, s, sessions'[s].epoch)
    <3> HIDE DEF s
    <3>1. CASE FedColumn(d, s) /\ cf \in WireFrame
      BY <2>5, <2>6, <3>1
    <3>2. CASE FedEpoch(d, s) /\ ef \in WireFrame
      BY <2>2, <2>5, <2>7, <3>2
    <3>3. CASE FedBoth(d, s) /\ cf \in WireFrame /\ ef \in WireFrame
      BY <2>5, <2>6, <2>7, <3>3
    <3> QED BY <2>1, <3>1, <3>2, <3>3
  <2> QED BY <2>2, <2>8
<1> QED BY <1>2, <1>3, <1>4, <1>5 DEF HubEffect

\* What a pane's socket has for it
PaneEpochs(p) ==
  LET c == view[p].socket
      s == handler[c].session
  IN c # None => /\ EpochsCovered(tx[c], view[p])
                 /\ s # None => NextCovered(tx[c], view[p], s, sessions[s].epoch)
EpochInv == \A p \in Panes : PaneEpochs(p)

\* A pane whose queue and session stay: it may rewind
LEMMA EpochsStay ==
  ASSUME Typed, NEW p \in Panes, PaneEpochs(p), UNCHANGED sessions,
         view'[p].socket = view[p].socket,
         SameMemory(view[p], view'[p]) \/ NoMemory(view'[p]),
         view[p].socket # None =>
           /\ tx'[view[p].socket] = tx[view[p].socket]
           /\ handler'[view[p].socket].session = handler[view[p].socket].session
  PROVE PaneEpochs(p)'
<1> DEFINE c == view[p].socket
           s == handler[c].session
           e == sessions[s].epoch
           v == view[p]
           w == view'[p]
           b == tx[c]
<1> SUFFICES ASSUME c # None
             PROVE /\ EpochsCovered(tx'[c], w)
                   /\ LET t == handler'[c].session
                      IN t # None => NextCovered(tx'[c], w, t, sessions'[t].epoch)
  BY DEF PaneEpochs
<1>1. /\ b \in Box /\ EpochsCovered(b, v) /\ (s # None => NextCovered(b, v, s, e))
      /\ tx'[c] = b /\ handler'[c].session = s /\ sessions'[s].epoch = e
      /\ SameMemory(v, w) \/ NoMemory(w)
  BY ViewFacts DEF PaneEpochs, Typed, Boxes
<1> HIDE DEF v, w, b, e, s
<1>2. EpochsCovered(b, w) /\ (s # None => NextCovered(b, w, s, e))
  BY <1>1, MemoryCovered
<1> QED BY <1>1, <1>2

LEMMA PaneEpochsStep ==
  ASSUME Inv, Typed, Sockets, EpochInv, NEW p \in Panes, PaneEffect(p)
  PROVE EpochInv'
<1>1. UNCHANGED <<sessions, tx>> /\ \A d \in Conns : handler'[d].session = handler[d].session
  BY DEF PaneEffect
<1>2. ASSUME NEW q \in Panes, q # p PROVE PaneEpochs(q)'
  <2>1. view'[q] = view[q] /\ PaneEpochs(q) /\ view[q].socket \in Conns \cup {None}
    BY <1>2 DEF PaneEffect, EpochInv, Typed, View
  <2>2. SameMemory(view[q], view'[q])
    BY <2>1 DEF SameMemory
  <2> QED BY <1>1, <2>1, <2>2, EpochsStay
<1>3. PaneEpochs(p)'
  <2>1. SameMemory(view[p], view'[p]) \/ NoMemory(view'[p])
    BY DEF PaneEffect
  <2>2. CASE view'[p].socket = view[p].socket
    <3>1. PaneEpochs(p) /\ view[p].socket \in Conns \cup {None}
      BY DEF EpochInv, Typed, View
    <3> QED BY <1>1, <2>1, <2>2, <3>1, EpochsStay
  <2>3. CASE view'[p].socket = None
    BY <2>3 DEF PaneEpochs
  <2>4. CASE view'[p].socket \in Conns /\ wire[view'[p].socket] = "unused"
    <3> DEFINE c == view'[p].socket
    <3>1. tx[c] = EmptyTx /\ handler[c].session = None
      <4>1. handler[c].pc = "absent"
        BY <2>4 DEF Inv, HubInv, Handlers
      <4> QED BY <2>4, <4>1 DEF Inv, HubInv, Handlers, Typed, Unopened
    <3>2. tx'[c] = EmptyTx /\ handler'[c].session = None
      BY <1>1, <2>4, <3>1
    <3>3. tx'[c].queue = <<>> /\ DOMAIN <<>> = {}
      BY <3>2 DEF EmptyTx
    <3> QED BY <3>2, <3>3 DEF PaneEpochs, EpochsCovered
  <2> QED BY <2>2, <2>3, <2>4 DEF PaneEffect
<1> QED BY <1>2, <1>3 DEF EpochInv

LEMMA DeliverEpochs ==
  ASSUME Inv, Typed, Sockets, EpochInv, NEW p \in Panes, Deliver(p)
  PROVE EpochInv'
<1> DEFINE c == view[p].socket
           f == Head(tx[c].queue)
           s == handler[c].session
           e == sessions[s].epoch
           v == view[p]
           w == view'[p]
           b == tx[c]
           after == [queue |-> Tail(b.queue), evicted |-> b.evicted]
<1>1. DeliverEffect(p, c, f)
  BY DeliverFacts
<1> HIDE DEF f
<1>2. /\ UNCHANGED <<sessions, handler>> /\ c # None /\ c \in Conns
      /\ \A q \in Panes : q # p => view'[q] = view[q]
      /\ \A d \in Conns : d # c => tx'[d] = tx[d]
  BY <1>1 DEF DeliverEffect, hub
<1>3. PaneEpochs(p)'
  <2>1. /\ b \in Box /\ b.queue # <<>> /\ f = b.queue[1]
        /\ tx'[c].queue = Tail(b.queue) /\ tx'[c].evicted = b.evicted
    BY <1>1 DEF DeliverEffect, Typed, Boxes
  <2>2. /\ EpochsCovered(b, v) /\ (s # None => NextCovered(b, v, s, e))
    BY <1>2 DEF EpochInv, PaneEpochs
  <2>3. /\ w.epochs = v.epochs \cup f.announces /\ w.socket = c
        /\ w.session = IF f.kind = "hello" THEN f.session ELSE v.session
    BY <1>1 DEF DeliverEffect, Delivers
  <2>4. handler'[c].session = s /\ sessions'[s].epoch = e
    BY <1>2
  <2>5. PaneEpochs(p)' <=>
          /\ EpochsCovered(tx'[c], w)
          /\ s # None => NextCovered(tx'[c], w, s, e)
    BY <1>2, <2>3, <2>4 DEF PaneEpochs
  <2>6. /\ EpochsCovered(after, w) <=> EpochsCovered(tx'[c], w)
        /\ NextCovered(after, w, s, e) <=> NextCovered(tx'[c], w, s, e)
    BY <2>1 DEF EpochsCovered, NextCovered
  <2> HIDE DEF b, v, w, s, e
  <2>7. EpochsCovered(after, w) /\ (s # None => NextCovered(after, w, s, e))
    BY <2>1, <2>2, <2>3, TailCovered
  <2> QED BY <2>5, <2>6, <2>7
<1>4. ASSUME NEW q \in Panes, q # p PROVE PaneEpochs(q)'
  <2>1. view'[q] = view[q] /\ PaneEpochs(q)
    BY <1>2, <1>4 DEF EpochInv
  <2>2. view[q].socket # None => tx'[view[q].socket] = tx[view[q].socket]
    BY <1>2, <1>4, OthersSocket
  <2>3. SameMemory(view[q], view'[q])
    BY <2>1 DEF SameMemory
  <2> QED BY <1>2, <2>1, <2>2, <2>3, EpochsStay
<1> QED BY <1>3, <1>4 DEF EpochInv

LEMMA EpochInvStep ==
  ASSUME Inv, Inv', Typed, Sockets, EpochInv, [Next]_vars PROVE EpochInv'
<1>1. CASE HubNext /\ HubEffect /\ UNCHANGED paneVars
  <2>1. view' = view
    BY <1>1 DEF paneVars
  <2>2. ASSUME NEW p \in Panes PROVE PaneEpochs(p)'
    <3> DEFINE c == view[p].socket
               v == view[p]
    <3>1. c \in Conns \cup {None} /\ PaneEpochs(p)
      BY DEF Typed, View, EpochInv
    <3>2. c # None => /\ EpochsCovered(tx[c], v)
                      /\ LET s == handler[c].session
                         IN s # None => NextCovered(tx[c], v, s, sessions[s].epoch)
      BY <3>1 DEF PaneEpochs
    <3>3. PaneEpochs(p)' <=>
            (c # None => /\ EpochsCovered(tx'[c], v)
                         /\ LET s == handler'[c].session
                            IN s # None => NextCovered(tx'[c], v, s, sessions'[s].epoch))
      BY <2>1 DEF PaneEpochs
    <3> HIDE DEF v, c
    <3> QED BY <1>1, <3>1, <3>2, <3>3, HubEpochs
  <2> QED BY <2>2 DEF EpochInv
<1>2. ASSUME NEW p \in Panes, PaneEffect(p) PROVE EpochInv'
  BY <1>2, PaneEpochsStep
<1>3. ASSUME NEW p \in Panes, Deliver(p) PROVE EpochInv'
  BY <1>3, DeliverEpochs
<1>4. CASE Stutters
  <2>1. ASSUME NEW p \in Panes PROVE PaneEpochs(p)'
    <3>1. /\ view' = view /\ tx' = tx /\ UNCHANGED sessions
          /\ \A d \in Conns : handler'[d].session = handler[d].session
      BY <1>4 DEF Stutters
    <3>2. PaneEpochs(p) /\ view[p].socket \in Conns \cup {None}
      BY DEF EpochInv, Typed, View
    <3>3. SameMemory(view[p], view'[p])
      BY <3>1 DEF SameMemory
    <3> QED BY <3>1, <3>2, <3>3, EpochsStay
  <2> QED BY <2>1 DEF EpochInv
<1> QED BY <1>1, <1>2, <1>3, <1>4, StepEffect

LEMMA UnframedStep ==
  ASSUME Inv, Inv', Typed, Sockets, EpochInv, EpochsAreKnown, [Next]_vars
  PROVE EpochsAreKnown'
<1> DEFINE Forgone(u) == \E frame \in Evicted : frame.session = u[1] /\ u[2] \in frame.announces
<1>1. \A u : Forgone(u) => Forgone(u)'
  BY EvictedGrows
<1>2. ASSUME NEW q \in Panes, unframed'[q] \subseteq unframed[q], NEW u \in unframed'[q]
      PROVE Forgone(u)'
  BY <1>1, <1>2 DEF EpochsAreKnown
<1>3. CASE HubNext /\ HubEffect /\ UNCHANGED paneVars
  BY <1>2, <1>3 DEF paneVars, EpochsAreKnown
<1>4. ASSUME NEW p \in Panes, PaneEffect(p) PROVE EpochsAreKnown'
  <2>1. \A q \in Panes : unframed'[q] \subseteq unframed[q]
    BY <1>4 DEF PaneEffect
  <2> QED BY <1>2, <2>1 DEF EpochsAreKnown
<1>5. ASSUME NEW p \in Panes, Deliver(p) PROVE EpochsAreKnown'
  <2> DEFINE c == view[p].socket
             f == Head(tx[c].queue)
             v == view[p]
             w == view'[p]
  <2>1. DeliverEffect(p, c, f)
    BY <1>5, DeliverFacts
  <2> HIDE DEF f
  <2>2. \A q \in Panes : q # p => unframed'[q] = unframed[q]
    BY <2>1 DEF DeliverEffect
  <2>3. /\ c # None /\ f \in WireFrame /\ tx[c].queue # <<>> /\ f = tx[c].queue[1]
        /\ c \in Conns
        /\ w.epochs = v.epochs \cup f.announces
        /\ w.session = IF f.kind = "hello" THEN f.session ELSE v.session
    BY <2>1 DEF DeliverEffect, Delivers
  <2>4. ASSUME NEW u \in unframed'[p], u \notin unframed[p]
        PROVE \E j \in DOMAIN f.columns :
                /\ u = <<f.session, f.columns[j].epoch>>
                /\ w.session = f.session /\ f.columns[j].epoch \notin w.epochs
    BY <2>1, <2>4 DEF DeliverEffect, Delivers
  <2>5. ASSUME NEW u \in unframed'[p], u \notin unframed[p] PROVE Forgone(u)
    <3>1. PICK j \in DOMAIN f.columns :
            /\ u = <<f.session, f.columns[j].epoch>>
            /\ w.session = f.session /\ f.columns[j].epoch \notin w.epochs
      BY <2>4, <2>5
    <3> DEFINE e == f.columns[j].epoch
               q == tx[c].queue
    <3>2. 1 \in DOMAIN q
      <4>1. q \in Seq(WireFrame) /\ q # <<>>
        BY <2>3 DEF Typed, Boxes, Box
      <4> HIDE DEF q
      <4> QED BY <4>1
    <3>3. EpochsCovered(tx[c], v)
      BY <2>3 DEF EpochInv, PaneEpochs
    <3>4. Covered(q, tx[c].evicted, v, 1, f.session, e)
      BY <2>3, <3>1, <3>2, <3>3 DEF EpochsCovered
    <3>5. ~Announced(q, 1, f.session, e)
      BY DEF Announced
    <3>6. f.columns # <<>>
      <4>1. DOMAIN <<>> = {}
        OBVIOUS
      <4> QED BY <3>1, <4>1
    <3>7. f.kind = "columns"
      BY <2>3, <3>6, FrameFacts
    <3>8. ~Told(q, 1, v, f.session, e)
      BY <2>3, <3>1, <3>7 DEF Told
    <3>9. Lost(tx[c].evicted, f.session, e)
      BY <3>4, <3>5, <3>8 DEF Covered
    <3>10. u[1] = f.session /\ u[2] = e
      BY <3>1
    <3> QED BY <2>3, <3>9, <3>10 DEF Lost, Evicted
  <2>6. ASSUME NEW u \in unframed'[p] PROVE Forgone(u)'
    <3>1. CASE u \in unframed[p]
      BY <1>1, <3>1 DEF EpochsAreKnown
    <3>2. CASE u \notin unframed[p]
      BY <1>1, <2>5, <3>2
    <3> QED BY <3>1, <3>2
  <2>7. ASSUME NEW q \in Panes, NEW u \in unframed'[q] PROVE Forgone(u)'
    BY <1>2, <2>2, <2>6
  <2> QED BY <2>7 DEF EpochsAreKnown
<1>6. CASE Stutters
  BY <1>2, <1>6 DEF Stutters, EpochsAreKnown
<1> QED BY <1>3, <1>4, <1>5, <1>6, StepEffect

\* A column reaches the pane of its session after the EpochStart of its epoch,
\* through snapshots, re-anchors, switches and reconnects, unless the full
\* queue evicted that EpochStart: what is queued for a pane is covered, and so
\* is the epoch of the column the session makes next.
THEOREM EpochsKnown == Spec => []EpochsAreKnown
<1>1. Init => EpochInv /\ EpochsAreKnown
  BY DEF Init, EpochInv, PaneEpochs, NewConnection, EpochsAreKnown
<1>2. /\ Inv /\ Inv' /\ (Typed /\ Sockets) /\ EpochInv /\ EpochsAreKnown /\ [Next]_vars
      => EpochInv' /\ EpochsAreKnown'
  BY EpochInvStep, UnframedStep
<1> QED BY <1>1, <1>2, Invariant, StreamTyped, PTL DEF Spec

----------------------------------------------------------------------------
(* OwnCursorIsExact.  A column is a pair <<session, seq>> here              *)

Cols(f) == {<<f.session, f.columns[i].seq>> : i \in DOMAIN f.columns}
In(box) == UNION {Cols(box.queue[i]) : i \in DOMAIN box.queue}
LostIn(box) == UNION {Cols(f) : f \in box.evicted}
Earlier(a, b) == a[1] = b[1] /\ a[2] < b[2]

\* Of the columns P, those before a queued one are in K or queued no later
Ordered(q, P, K) ==
  \A i \in DOMAIN q : \A b \in Cols(q[i]) : \A a \in P :
    Earlier(a, b) => a \in K \/ \E h \in 1 .. i : a \in Cols(q[h])

LEMMA ColsTyped ==
  ASSUME NEW f \in WireFrame PROVE Cols(f) \subseteq Shown
BY FrameFacts DEF Cols, Shown

LEMMA InTyped ==
  ASSUME NEW box \in Box PROVE In(box) \subseteq Shown /\ LostIn(box) \subseteq Shown
<1>1. box.queue \in Seq(WireFrame) /\ box.evicted \in SUBSET WireFrame
  BY DEF Box
<1>2. \A i \in DOMAIN box.queue : box.queue[i] \in WireFrame
  BY <1>1
<1> QED BY <1>1, <1>2, ColsTyped DEF In, LostIn

LEMMA NoCols ==
  ASSUME NEW f, f.columns = <<>> PROVE Cols(f) = {}
<1>1. DOMAIN <<>> = {}
  OBVIOUS
<1> QED BY <1>1 DEF Cols

LEMMA AppendCols ==
  ASSUME NEW box \in Box, NEW f \in WireFrame
  PROVE /\ In(WithFrame(box, f)) = In(box) \cup Cols(f)
        /\ LostIn(WithFrame(box, f)) = LostIn(box)
        /\ \A P, K :
             /\ Ordered(box.queue, P, K)
             /\ \A b \in Cols(f) : \A a \in P :
                  Earlier(a, b) => a \in K \cup In(box) \cup Cols(f)
             => Ordered(WithFrame(box, f).queue, P, K)
<1> DEFINE after == WithFrame(box, f)
           q == box.queue
           r == Append(q, f)
           n == Len(q)
<1>1. after.queue = r /\ after.evicted = box.evicted
  BY DEF Box, WithFrame
<1>2. /\ q \in Seq(WireFrame) /\ n \in Nat /\ Len(r) = n + 1
      /\ DOMAIN q = 1 .. n /\ DOMAIN r = 1 .. n + 1
      /\ \A g \in 1 .. n : r[g] = q[g]
      /\ r[n + 1] = f
  BY DEF Box
<1> HIDE DEF after, r
<1>3. In(after) = In(box) \cup Cols(f)
  <2>1. \A i \in DOMAIN r : i \in DOMAIN q \/ i = n + 1
    BY <1>2
  <2>2. n + 1 \in DOMAIN r /\ \A i \in DOMAIN q : i \in DOMAIN r
    BY <1>2
  <2>3. In(box) = UNION {Cols(q[i]) : i \in DOMAIN q}
    BY DEF In
  <2>4. In(after) = UNION {Cols(r[i]) : i \in DOMAIN r}
    BY <1>1 DEF In
  <2> HIDE DEF q
  <2> QED BY <1>2, <2>1, <2>2, <2>3, <2>4
<1>4. LostIn(after) = LostIn(box)
  BY <1>1 DEF LostIn
<1>5. ASSUME NEW P, NEW K, Ordered(q, P, K),
             \A b \in Cols(f) : \A a \in P :
               Earlier(a, b) => a \in K \cup In(box) \cup Cols(f)
      PROVE Ordered(r, P, K)
  <2> SUFFICES ASSUME NEW i \in DOMAIN r, NEW b \in Cols(r[i]), NEW a \in P,
                      Earlier(a, b), a \notin K
               PROVE \E h \in 1 .. i : a \in Cols(r[h])
    BY DEF Ordered
  <2>0. In(box) = UNION {Cols(q[h]) : h \in DOMAIN q}
    BY DEF In
  <2> HIDE DEF q, n
  <2>1. CASE i \in 1 .. n
    <3>1. \E h \in 1 .. i : a \in Cols(q[h])
      BY <1>2, <1>5, <2>1 DEF Ordered
    <3> QED BY <1>2, <2>1, <3>1
  <2>2. CASE i = n + 1
    <3>1. a \in In(box) \cup Cols(f)
      BY <1>2, <1>5, <2>2
    <3>2. CASE a \in Cols(f)
      BY <1>2, <2>2, <3>2
    <3>3. CASE a \in In(box)
      <4>1. PICK h \in 1 .. n : a \in Cols(q[h])
        BY <1>2, <2>0, <3>3
      <4> QED BY <1>2, <2>2, <4>1
    <3> QED BY <3>1, <3>2, <3>3
  <2> QED BY <1>2, <2>1, <2>2
<1> QED BY <1>1, <1>3, <1>4, <1>5 DEF after

LEMMA RemoveCols ==
  ASSUME NEW box \in Box, NEW k \in DOMAIN box.queue
  PROVE LET less == [queue |-> RemoveAt(box.queue, k),
                     evicted |-> box.evicted \cup {box.queue[k]}]
        IN /\ In(less) \subseteq In(box)
           /\ In(box) \subseteq In(less) \cup Cols(box.queue[k])
           /\ LostIn(less) = LostIn(box) \cup Cols(box.queue[k])
           /\ \A P, K : Ordered(box.queue, P, K) =>
                          Ordered(less.queue, P, K \cup Cols(box.queue[k]))
<1> DEFINE q == box.queue
           r == RemoveAt(q, k)
           n == Len(q)
           less == [queue |-> r, evicted |-> box.evicted \cup {q[k]}]
           at(g) == IF g < k THEN g ELSE g + 1
<1>1. q \in Seq(WireFrame) /\ n \in Nat /\ DOMAIN q = 1 .. n /\ k \in 1 .. n
  BY DEF Box
<1>2. /\ r \in Seq(WireFrame) /\ Len(r) = n - 1
      /\ \A j \in 1 .. n - 1 : r[j] = IF j < k THEN q[j] ELSE q[j + 1]
  BY <1>1, RemoveFacts
<1> HIDE DEF r
<1>3. /\ DOMAIN r = 1 .. n - 1
      /\ \A j \in 1 .. n - 1 : r[j] = q[at(j)] /\ at(j) \in 1 .. n
  BY <1>1, <1>2
<1>4. \A i \in 1 .. n : i # k => \E j \in 1 .. n - 1 : at(j) = i /\ j <= i
  <2> TAKE i \in 1 .. n
  <2> HAVE i # k
  <2>1. CASE i < k
    <3>1. i \in 1 .. n - 1 /\ at(i) = i
      BY <1>1, <2>1
    <3> QED BY <3>1
  <2>2. CASE i > k
    <3>1. i - 1 \in 1 .. n - 1 /\ at(i - 1) = i /\ i - 1 <= i
      BY <1>1, <2>2
    <3> QED BY <3>1
  <2> QED BY <1>1, <2>1, <2>2
<1>5. In(box) = UNION {Cols(q[h]) : h \in DOMAIN q}
  BY DEF In
<1>6. In(less) = UNION {Cols(r[h]) : h \in DOMAIN r}
  BY DEF In
<1>7. LostIn(less) = LostIn(box) \cup Cols(q[k])
  BY DEF LostIn
<1>8. ASSUME NEW P, NEW K, Ordered(q, P, K) PROVE Ordered(r, P, K \cup Cols(q[k]))
  <2> SUFFICES ASSUME NEW i \in DOMAIN r, NEW b \in Cols(r[i]), NEW a \in P,
                      Earlier(a, b), a \notin K, a \notin Cols(q[k])
               PROVE \E j \in 1 .. i : a \in Cols(r[j])
    BY DEF Ordered
  <2>1. /\ at(i) \in DOMAIN q /\ r[i] = q[at(i)] /\ i \in Nat /\ k \in Nat
    BY <1>1, <1>3
  <2>2. PICK h \in 1 .. at(i) : a \in Cols(q[h])
    <3> HIDE DEF at, q
    <3> QED BY <1>8, <2>1 DEF Ordered
  <2>3. h # k /\ h \in 1 .. n
    BY <1>1, <2>1, <2>2
  <2>4. PICK j \in 1 .. n - 1 : at(j) = h
    BY <1>4, <2>3
  <2>5. j <= i
    BY <1>1, <2>1, <2>2, <2>4
  <2>6. r[j] = q[h] /\ j \in 1 .. i
    BY <1>1, <1>3, <2>1, <2>4, <2>5
  <2> QED BY <2>2, <2>6
<1> HIDE DEF q, n, at, less
<1>9. In(less) \subseteq In(box)
  BY <1>1, <1>3, <1>5, <1>6
<1>10. In(box) \subseteq In(less) \cup Cols(q[k])
  <2> SUFFICES ASSUME NEW i \in 1 .. n, NEW a \in Cols(q[i]), i # k PROVE a \in In(less)
    BY <1>1, <1>5
  <2>1. PICK j \in 1 .. n - 1 : at(j) = i
    BY <1>4
  <2> QED BY <1>3, <1>6, <2>1
<1>11. less.queue = r
  BY DEF less
<1> QED BY <1>7, <1>8, <1>9, <1>10, <1>11 DEF q, r, less

LEMMA OrderedKeeps ==
  ASSUME NEW q, NEW P, NEW K, Ordered(q, P, K)
  PROVE \A P2 \in SUBSET P : \A K2 : K \subseteq K2 => Ordered(q, P2, K2)
BY DEF Ordered

LEMMA OfferCols ==
  ASSUME NEW box \in Box, NEW f \in WireFrame
  PROVE LET after == Offer(box, f)
        IN /\ after \in Box
           /\ In(after) \subseteq In(box) \cup Cols(f)
           /\ In(box) \cup Cols(f) \subseteq In(after) \cup LostIn(after)
           /\ LostIn(box) \subseteq LostIn(after)
           /\ \A P, K :
                /\ Ordered(box.queue, P, K)
                /\ \A b \in Cols(f) : \A a \in P :
                     Earlier(a, b) => a \in K \cup In(box) \cup Cols(f)
                => Ordered(after.queue, P, K \cup LostIn(after))
<1> DEFINE after == Offer(box, f)
<1>1. after \in Box
  BY OfferTyped
<1>2. CASE after = WithFrame(box, f)
  <2> HIDE DEF after
  <2>1. /\ In(after) = In(box) \cup Cols(f) /\ LostIn(after) = LostIn(box)
        /\ \A P, K :
             /\ Ordered(box.queue, P, K)
             /\ \A b \in Cols(f) : \A a \in P :
                  Earlier(a, b) => a \in K \cup In(box) \cup Cols(f)
             => Ordered(after.queue, P, K)
    BY <1>2, AppendCols
  <2>2. \A P, K : Ordered(after.queue, P, K) =>
                    Ordered(after.queue, P, K \cup LostIn(after))
    BY DEF Ordered
  <2> QED BY <1>1, <2>1, <2>2 DEF after
<1>3. CASE after # WithFrame(box, f)
  <2>1. PICK k \in DOMAIN box.queue :
          after = [queue |-> Append(RemoveAt(box.queue, k), f),
                   evicted |-> box.evicted \cup {box.queue[k]}]
    BY <1>3, OfferCases DEF WithFrame
  <2> DEFINE less == [queue |-> RemoveAt(box.queue, k),
                      evicted |-> box.evicted \cup {box.queue[k]}]
             gone == Cols(box.queue[k])
  <2>2. after = WithFrame(less, f)
    <3> DEFINE r == RemoveAt(box.queue, k)
               ev == box.evicted \cup {box.queue[k]}
    <3>1. after = [queue |-> Append(r, f), evicted |-> ev]
      BY <2>1
    <3>2. less = [queue |-> r, evicted |-> ev]
      OBVIOUS
    <3> HIDE DEF r, ev, less, after
    <3> QED BY <3>1, <3>2, SMTT(30) DEF WithFrame
  <2>3. less \in Box
    <3>1. box.queue \in Seq(WireFrame) /\ box.evicted \in SUBSET WireFrame
      BY DEF Box
    <3>2. RemoveAt(box.queue, k) \in Seq(WireFrame) /\ box.queue[k] \in WireFrame
      BY <3>1, RemoveFacts
    <3> QED BY <3>1, <3>2 DEF Box
  <2>4. /\ In(less) \subseteq In(box) /\ In(box) \subseteq In(less) \cup gone
        /\ LostIn(less) = LostIn(box) \cup gone
        /\ \A P, K : Ordered(box.queue, P, K) => Ordered(less.queue, P, K \cup gone)
    BY RemoveCols
  <2> HIDE DEF less, gone, after
  <2>5. /\ In(after) = In(less) \cup Cols(f) /\ LostIn(after) = LostIn(less)
        /\ \A P, K :
             /\ Ordered(less.queue, P, K)
             /\ \A b \in Cols(f) : \A a \in P :
                  Earlier(a, b) => a \in K \cup In(less) \cup Cols(f)
             => Ordered(after.queue, P, K)
    BY <2>2, <2>3, AppendCols
  <2>6. ASSUME NEW P, NEW K, Ordered(box.queue, P, K),
               \A b \in Cols(f) : \A a \in P :
                 Earlier(a, b) => a \in K \cup In(box) \cup Cols(f)
        PROVE Ordered(after.queue, P, K \cup LostIn(after))
    <3>1. Ordered(less.queue, P, K \cup gone)
      BY <2>4, <2>6
    <3>2. \A b \in Cols(f) : \A a \in P :
            Earlier(a, b) => a \in (K \cup gone) \cup In(less) \cup Cols(f)
      BY <2>4, <2>6
    <3>3. Ordered(after.queue, P, K \cup gone)
      BY <2>5, <3>1, <3>2
    <3>4. K \cup gone \subseteq K \cup LostIn(after)
      BY <2>4, <2>5
    <3> QED BY <3>3, <3>4, OrderedKeeps
  <2>7. /\ In(after) \subseteq In(box) \cup Cols(f)
        /\ In(box) \cup Cols(f) \subseteq In(after) \cup LostIn(after)
        /\ LostIn(box) \subseteq LostIn(after)
    BY <2>4, <2>5
  <2> QED BY <1>1, <2>6, <2>7 DEF after
<1> QED BY <1>2, <1>3

LEMMA JoinCols ==
  ASSUME NEW s \in 1 .. MaxStarts, NEW cols \in Seq(0 .. MaxEpoch),
         Len(cols) <= MaxColumns, NEW epoch \in 0 .. MaxEpoch, NEW box \in Box
  PROVE LET after == OfferAll(box, Snapshot(s, cols, epoch))
            recent == Cols(RecentFrame(s, cols))
        IN /\ In(after) = In(box) \cup recent /\ LostIn(after) = LostIn(box)
           /\ \A P, K :
                /\ Ordered(box.queue, P, K)
                /\ \A b \in recent : \A a \in P :
                     Earlier(a, b) => a \in K \cup In(box) \cup recent
                => Ordered(after.queue, P, K)
<1> DEFINE after == OfferAll(box, Snapshot(s, cols, epoch))
           f == HelloFrame(s, cols, epoch)
           g == RecentFrame(s, cols)
           hello == WithFrame(box, f)
           last == WithFrame(hello, g)
<1>1. f \in WireFrame /\ g \in WireFrame /\ hello \in Box
  BY SnapshotFacts
<1>2. (cols = <<>> => after = hello) /\ (cols # <<>> => after = last)
  BY SnapshotFacts
<1>3. Cols(f) = {}
  <2>1. f.columns = <<>>
    BY DEF HelloFrame, Frame
  <2> QED BY <2>1, NoCols
<1>4. cols = <<>> => Cols(g) = {}
  <2>1. g.columns = Recent(cols)
    BY DEF RecentFrame, Frame
  <2>2. cols = <<>> => Recent(cols) = <<>>
    BY RecentFacts
  <2> HIDE DEF g
  <2> QED BY <2>1, <2>2, NoCols
<1> HIDE DEF f, g, after
<1>5. /\ In(hello) = In(box) /\ LostIn(hello) = LostIn(box)
      /\ \A P, K : Ordered(box.queue, P, K) => Ordered(hello.queue, P, K)
  BY <1>1, <1>3, AppendCols
<1> HIDE DEF hello
<1>6. /\ In(last) = In(hello) \cup Cols(g) /\ LostIn(last) = LostIn(hello)
      /\ \A P, K :
           /\ Ordered(hello.queue, P, K)
           /\ \A b \in Cols(g) : \A a \in P :
                Earlier(a, b) => a \in K \cup In(hello) \cup Cols(g)
           => Ordered(last.queue, P, K)
  BY <1>1, AppendCols
<1> HIDE DEF last
<1>7. In(after) = In(box) \cup Cols(g) /\ LostIn(after) = LostIn(box)
  BY <1>2, <1>4, <1>5, <1>6
<1>8. ASSUME NEW P, NEW K, Ordered(box.queue, P, K),
             \A b \in Cols(g) : \A a \in P :
               Earlier(a, b) => a \in K \cup In(box) \cup Cols(g)
      PROVE Ordered(after.queue, P, K)
  BY <1>2, <1>5, <1>6, <1>8
<1> QED BY <1>7, <1>8 DEF after, g

\* The columns that exist, and those a snapshot of now would hold
Made == {b \in Shown : b[1] \in Started /\ b[2] <= Len(sessions[b[1]].columns)}
Newest(s) == Cols(RecentFrame(s, sessions[s].columns))
Window == UNION {Newest(s) : s \in Started}

LEMMA RecentCols ==
  ASSUME NEW s \in 1 .. MaxStarts, NEW cols \in Seq(0 .. MaxEpoch),
         Len(cols) <= MaxColumns
  PROVE Cols(RecentFrame(s, cols)) =
          {b \in Shown : /\ b[1] = s /\ b[2] <= Len(cols)
                         /\ b[2] > Len(cols) - SnapshotCols}
<1> DEFINE r == Recent(cols)
           L == Len(cols)
           m == Len(r)
           B == {b \in Shown : b[1] = s /\ b[2] <= L /\ b[2] > L - SnapshotCols}
<1>1. /\ m \in Nat /\ DOMAIN r = 1 .. m
      /\ \A i \in 1 .. m : r[i].seq = L - m + i
      /\ m = IF L < SnapshotCols THEN L ELSE SnapshotCols
  BY RecentFacts
<1>2. L \in Nat /\ L <= MaxColumns /\ SnapshotCols \in Nat /\ SnapshotCols > 0
      /\ MaxColumns \in Nat
  BY FlowAssumption
<1>3. Cols(RecentFrame(s, cols)) = {<<s, r[i].seq>> : i \in 1 .. m}
  BY <1>1 DEF Cols, RecentFrame, Frame
<1> HIDE DEF r, L, m
<1>4. ASSUME NEW i \in 1 .. m PROVE <<s, r[i].seq>> \in B
  <2>1. r[i].seq = L - m + i /\ r[i].seq \in 1 .. MaxColumns
    BY <1>1, <1>2
  <2>2. r[i].seq <= L /\ r[i].seq > L - SnapshotCols
    BY <1>1, <1>2, <2>1
  <2> QED BY <2>1, <2>2 DEF Shown
<1>5. ASSUME NEW b \in B PROVE \E i \in 1 .. m : b = <<s, r[i].seq>>
  <2>1. b[2] \in 1 .. MaxColumns /\ b = <<b[1], b[2]>> /\ b[1] = s
        /\ b[2] <= L /\ b[2] > L - SnapshotCols
    BY DEF Shown
  <2> DEFINE i == b[2] - (L - m)
  <2>2. i \in 1 .. m /\ L - m + i = b[2]
    BY <1>1, <1>2, <2>1
  <2> HIDE DEF i
  <2>3. r[i].seq = b[2]
    BY <1>1, <2>2
  <2> QED BY <2>1, <2>2, <2>3
<1> HIDE DEF B
<1>6. Cols(RecentFrame(s, cols)) = B
  BY <1>3, <1>4, <1>5
<1> QED BY <1>6 DEF B, L

LEMMA NewestFacts ==
  ASSUME SessionsTyped, NEW s \in Started
  PROVE /\ Newest(s) = {b \in Shown : /\ b[1] = s
                                      /\ b[2] <= Len(sessions[s].columns)
                                      /\ b[2] > Len(sessions[s].columns) - SnapshotCols}
        /\ Newest(s) \subseteq Made
<1>1. /\ s \in 1 .. MaxStarts /\ sessions[s].columns \in Seq(0 .. MaxEpoch)
      /\ Len(sessions[s].columns) <= MaxColumns
  BY FlowSessionFacts
<1> DEFINE cols == sessions[s].columns
           B == {b \in Shown : /\ b[1] = s /\ b[2] <= Len(cols)
                               /\ b[2] > Len(cols) - SnapshotCols}
<1>2. cols \in Seq(0 .. MaxEpoch) /\ Len(cols) <= MaxColumns
  BY <1>1
<1>3. Newest(s) = Cols(RecentFrame(s, cols))
  BY DEF Newest
<1>4. B \subseteq Made
  BY DEF Made
<1> HIDE DEF cols
<1>5. Newest(s) = B
  BY <1>1, <1>2, <1>3, RecentCols
<1> QED BY <1>4, <1>5 DEF cols

\* What a step of the hub adds to a snapshot is new, and nothing is unmade
LEMMA WindowGrows ==
  ASSUME SessionsTyped, HubEffect
  PROVE /\ Made \subseteq Made'
        /\ \A b \in Window' : b \in Window \/ b \notin Made
        /\ \A s \in Started : \A b \in Newest(s)' : b \in Newest(s) \/ b \notin Made
        /\ Window' \subseteq Made'
<1>1. SessionsTyped' /\ \A s \in Started : s \in Started' /\ Grows(s)
  BY DEF HubEffect
<1>2. ASSUME NEW s \in Started'
      PROVE /\ sessions'[s].columns \in Seq(0 .. MaxEpoch)
            /\ Len(sessions'[s].columns) \in Nat
            /\ Len(sessions'[s].columns) <= MaxColumns /\ s \in 1 .. MaxStarts
  <2>1. sessions' \in Seq(FlowSession) /\ s \in 1 .. Len(sessions')
        /\ Len(sessions') <= MaxStarts
    BY <1>1 DEF SessionsTyped, Started
  <2>2. sessions'[s] \in FlowSession
    BY <2>1
  <2>3. sessions'[s].columns \in Seq(0 .. MaxEpoch) /\ Len(sessions'[s].columns) <= MaxColumns
    BY <2>2 DEF FlowSession
  <2> QED BY <2>1, <2>3, FlowAssumption
<1>3. ASSUME NEW s \in Started'
      PROVE Newest(s)' =
              {b \in Shown : /\ b[1] = s /\ b[2] <= Len(sessions'[s].columns)
                             /\ b[2] > Len(sessions'[s].columns) - SnapshotCols}
  <2> DEFINE cols == sessions'[s].columns
             B == {b \in Shown : /\ b[1] = s /\ b[2] <= Len(cols)
                                 /\ b[2] > Len(cols) - SnapshotCols}
  <2>1. cols \in Seq(0 .. MaxEpoch) /\ Len(cols) <= MaxColumns /\ s \in 1 .. MaxStarts
    BY <1>2
  <2>2. Newest(s)' = Cols(RecentFrame(s, cols))
    BY DEF Newest
  <2> HIDE DEF cols
  <2>3. Newest(s)' = B
    BY <2>1, <2>2, RecentCols
  <2> QED BY <2>3 DEF cols
<1>4. ASSUME NEW s \in Started
      PROVE /\ Len(sessions[s].columns) <= Len(sessions'[s].columns)
            /\ \/ Len(sessions'[s].columns) = Len(sessions[s].columns)
               \/ Len(sessions'[s].columns) = Len(sessions[s].columns) + 1
               \/ Len(sessions[s].columns) = 0
  <2>1. /\ sessions[s].columns \in Seq(0 .. MaxEpoch) /\ Len(sessions[s].columns) \in Nat
        /\ sessions[s].epoch \in 0 .. MaxEpoch
        /\ sessions[s].state = "booting" => sessions[s].columns = <<>>
    BY FlowSessionFacts
  <2>2. Len(sessions'[s].columns) \in Nat
    BY <1>1, <1>2
  <2>3. CASE SameStream(s)
    BY <2>1, <2>3 DEF SameStream
  <2>4. CASE sessions'[s].columns = Append(sessions[s].columns, sessions[s].epoch)
    <3> DEFINE cols == sessions[s].columns
               e == sessions[s].epoch
    <3>1. cols \in Seq(0 .. MaxEpoch) /\ e \in 0 .. MaxEpoch /\ Len(cols) \in Nat
      BY <2>1
    <3>2. sessions'[s].columns = Append(cols, e)
      BY <2>4
    <3> HIDE DEF cols, e
    <3>3. Len(Append(cols, e)) = Len(cols) + 1
      BY <3>1
    <3>4. Len(sessions'[s].columns) = Len(cols) + 1
      BY <3>2, <3>3
    <3> QED BY <3>1, <3>4 DEF cols
  <2>5. CASE sessions'[s].columns = sessions[s].columns
    BY <2>1, <2>5
  <2>6. CASE sessions[s].state = "booting"
    <3>1. Len(sessions[s].columns) = 0
      BY <2>1, <2>6
    <3> QED BY <2>2, <3>1
  <2> QED BY <1>1, <2>3, <2>4, <2>5, <2>6 DEF Grows
<1>5. Made \subseteq Made'
  <2> SUFFICES ASSUME NEW b \in Made PROVE b \in Made'
    OBVIOUS
  <2>1. b \in Shown /\ b[1] \in Started /\ b[2] <= Len(sessions[b[1]].columns)
        /\ b[2] \in Nat
    BY FlowAssumption DEF Made, Shown
  <2>2. b[1] \in Started' /\ Len(sessions[b[1]].columns) <= Len(sessions'[b[1]].columns)
        /\ Len(sessions[b[1]].columns) \in Nat /\ Len(sessions'[b[1]].columns) \in Nat
    BY <1>1, <1>2, <1>4, <2>1, FlowSessionFacts
  <2>3. b[2] <= Len(sessions'[b[1]].columns)
    BY <2>1, <2>2
  <2> QED BY <2>1, <2>2, <2>3 DEF Made
<1>6. ASSUME NEW s \in Started, NEW b \in Newest(s)', b \in Made PROVE b \in Newest(s)
  <2>1. /\ b \in Shown /\ b[1] = s /\ b[2] <= Len(sessions'[s].columns)
        /\ b[2] > Len(sessions'[s].columns) - SnapshotCols
    BY <1>1, <1>3, <1>6
  <2>2. b[2] <= Len(sessions[s].columns)
    BY <1>6, <2>1 DEF Made
  <2>3. b[2] \in Nat /\ b[2] >= 1 /\ SnapshotCols \in Nat
    BY <2>1, FlowAssumption DEF Shown
  <2>4. Len(sessions[s].columns) \in Nat /\ Len(sessions'[s].columns) \in Nat
    BY <1>1, <1>2, FlowSessionFacts
  <2>5. b[2] > Len(sessions[s].columns) - SnapshotCols
    BY <1>4, <2>1, <2>2, <2>3, <2>4, SMTT(30)
  <2> QED BY <2>1, <2>2, <2>5, NewestFacts
<1>7. Window' \subseteq Made'
  BY <1>3 DEF Window, Made
<1>8. ASSUME NEW b \in Window', b \in Made PROVE b \in Window
  <2>1. PICK s \in Started' : b \in Newest(s)'
    BY <1>8 DEF Window
  <2>2. b[1] = s /\ b[1] \in Started
    BY <1>3, <1>8, <2>1 DEF Made
  <2> QED BY <1>6, <1>8, <2>1, <2>2 DEF Window
<1> QED BY <1>5, <1>6, <1>7, <1>8

\* after holds what box held and C, but for what it evicted, in order
Extends(box, after, C) ==
  /\ In(after) \subseteq In(box) \cup C
  /\ In(box) \cup C \subseteq In(after) \cup LostIn(after)
  /\ \A P, K : /\ Ordered(box.queue, P, K)
               /\ \A b \in C : \A a \in P : Earlier(a, b) => a \in K \cup In(box) \cup C
               => Ordered(after.queue, P, K \cup LostIn(after))

LEMMA OfferExtends ==
  ASSUME NEW box \in Box, NEW f \in WireFrame
  PROVE Offer(box, f) \in Box /\ Extends(box, Offer(box, f), Cols(f))
        /\ LostIn(box) \subseteq LostIn(Offer(box, f))
<1> DEFINE after == Offer(box, f)
<1>1. /\ after \in Box
      /\ In(after) \subseteq In(box) \cup Cols(f)
      /\ In(box) \cup Cols(f) \subseteq In(after) \cup LostIn(after)
      /\ LostIn(box) \subseteq LostIn(after)
      /\ \A P, K :
           /\ Ordered(box.queue, P, K)
           /\ \A b \in Cols(f) : \A a \in P :
                Earlier(a, b) => a \in K \cup In(box) \cup Cols(f)
           => Ordered(after.queue, P, K \cup LostIn(after))
  BY OfferCols
<1> HIDE DEF after
<1>2. Extends(box, after, Cols(f))
  BY <1>1 DEF Extends
<1> QED BY <1>1, <1>2 DEF after

\* A frame without columns behind another
LEMMA ExtendsMore ==
  ASSUME NEW box \in Box, NEW mid \in Box, NEW C, Extends(box, mid, C),
         NEW f \in WireFrame, Cols(f) = {}
  PROVE Extends(box, Offer(mid, f), C)
<1> DEFINE after == Offer(mid, f)
<1>1. Extends(mid, after, {}) /\ LostIn(mid) \subseteq LostIn(after)
  BY OfferExtends
<1> HIDE DEF after
<1>2. ASSUME NEW P, NEW K, Ordered(box.queue, P, K),
             \A b \in C : \A a \in P : Earlier(a, b) => a \in K \cup In(box) \cup C
      PROVE Ordered(after.queue, P, K \cup LostIn(after))
  <2>1. Ordered(mid.queue, P, K \cup LostIn(mid))
    BY <1>2 DEF Extends
  <2> DEFINE K1 == K \cup LostIn(mid)
  <2>2. Ordered(after.queue, P, K1 \cup LostIn(after))
    BY <1>1, <2>1 DEF Extends
  <2>3. K1 \cup LostIn(after) = K \cup LostIn(after)
    BY <1>1
  <2> HIDE DEF K1
  <2> QED BY <2>2, <2>3
<1>3. /\ In(after) \subseteq In(box) \cup C
      /\ In(box) \cup C \subseteq In(after) \cup LostIn(after)
  BY <1>1 DEF Extends
<1> QED BY <1>2, <1>3 DEF Extends, after

\* What an attached connection is sent, and what its session has made
LEMMA OffersCols ==
  ASSUME Inv, Typed, HubEffect, NEW d \in Conns, handler[d].session # None,
         Idle(d) \/ Fed(d)
  PROVE LET s == handler[d].session
            n == Len(sessions[s].columns)
        IN /\ handler'[d].session = s
           /\ \E C : /\ Extends(tx[d], tx'[d], C)
                     /\ \/ C = {} /\ Len(sessions'[s].columns) = n
                        \/ C = {<<s, n + 1>>} /\ Len(sessions'[s].columns) = n + 1
<1> DEFINE s == handler[d].session
           n == Len(sessions[s].columns)
           b == tx[d]
           cf == ColumnFrame(s)
           ef == EpochFrame(s)
           sf == StatusFrame(s)
<1>1. b \in Box /\ s \in Started
  BY DEF Typed, Boxes, Inv, HubInv, Handlers
<1>2. /\ n \in Nat /\ sessions[s].columns \in Seq(0 .. MaxEpoch)
      /\ sessions[s].epoch \in 0 .. MaxEpoch
  BY <1>1, FlowSessionFacts DEF Typed
<1>3. handler'[d].session = s
  BY DEF Idle, Fed
<1>4. Cols(ef) = {} /\ Cols(sf) = {}
  <2>1. ef.columns = <<>> /\ sf.columns = <<>>
    BY DEF EpochFrame, StatusFrame, Frame
  <2> QED BY <2>1, NoCols
<1>5. Cols(cf) = {<<s, n + 1>>}
  <2> DEFINE col == Column(n + 1, sessions[s].epoch)
  <2>1. cf.session = s /\ cf.columns = <<col>>
    BY DEF ColumnFrame, Frame
  <2>2. col.seq = n + 1
    BY DEF Column
  <2> HIDE DEF col, cf
  <2>3. DOMAIN <<col>> = {1} /\ <<col>>[1] = col
    OBVIOUS
  <2> QED BY <2>1, <2>2, <2>3 DEF Cols
<1>6. Extends(b, b, {})
  <2>1. \A P, K : Ordered(b.queue, P, K) => Ordered(b.queue, P, K \cup LostIn(b))
    BY DEF Ordered
  <2> QED BY <2>1 DEF Extends
<1>7. Len(Append(sessions[s].columns, sessions[s].epoch)) = n + 1
  <2> DEFINE cols == sessions[s].columns
             e == sessions[s].epoch
  <2>1. cols \in Seq(0 .. MaxEpoch) /\ e \in 0 .. MaxEpoch
    BY <1>2
  <2> HIDE DEF cols, e
  <2> QED BY <2>1 DEF cols, e
<1>8. sf \in WireFrame
  BY <1>1, FedFrames DEF Typed
<1> DEFINE Goal(C) == /\ Extends(b, tx'[d], C)
                      /\ \/ C = {} /\ Len(sessions'[s].columns) = n
                         \/ C = {<<s, n + 1>>} /\ Len(sessions'[s].columns) = n + 1
<1>9. CASE Idle(d)
  <2>1. Len(sessions'[s].columns) = n
    BY <1>9 DEF Idle, SameStream
  <2>2. tx'[d] = b \/ tx'[d] = Offer(b, sf)
    BY <1>9 DEF Idle
  <2> HIDE DEF b, sf
  <2>3. Extends(b, Offer(b, sf), {})
    BY <1>1, <1>4, <1>8, OfferExtends
  <2>4. Goal({})
    BY <1>6, <2>1, <2>2, <2>3
  <2> QED BY <1>3, <2>4 DEF b
<1>10. CASE Fed(d)
  <2>1. \/ FedColumn(d, s) /\ cf \in WireFrame
        \/ FedEpoch(d, s) /\ ef \in WireFrame
        \/ FedBoth(d, s) /\ cf \in WireFrame /\ ef \in WireFrame
    BY <1>10, FedTyped
  <2>2. CASE FedColumn(d, s) /\ cf \in WireFrame
    <3>1. tx'[d] = Offer(b, cf) /\ Len(sessions'[s].columns) = n + 1
      BY <1>7, <2>2 DEF FedColumn
    <3>2. Extends(b, Offer(b, cf), {<<s, n + 1>>})
      <4> HIDE DEF b, cf, n, s
      <4> QED BY <1>1, <1>5, <2>2, OfferExtends
    <3>3. Goal({<<s, n + 1>>})
      BY <3>1, <3>2
    <3> QED BY <1>3, <3>3
  <2>3. CASE FedEpoch(d, s) /\ ef \in WireFrame
    <3>1. tx'[d] = Offer(b, ef) /\ Len(sessions'[s].columns) = n
      BY <2>3 DEF FedEpoch
    <3>2. Extends(b, Offer(b, ef), {})
      <4> HIDE DEF b, ef
      <4> QED BY <1>1, <1>4, <2>3, OfferExtends
    <3>3. Goal({})
      BY <3>1, <3>2
    <3> QED BY <1>3, <3>3
  <2>4. CASE FedBoth(d, s) /\ cf \in WireFrame /\ ef \in WireFrame
    <3>1. tx'[d] = Offer(Offer(b, cf), ef) /\ Len(sessions'[s].columns) = n + 1
      BY <1>7, <2>4 DEF FedBoth
    <3>2. Extends(b, Offer(Offer(b, cf), ef), {<<s, n + 1>>})
      <4> HIDE DEF b, cf, ef, n, s
      <4> DEFINE mid == Offer(b, cf)
      <4>1. mid \in Box /\ Extends(b, mid, {<<s, n + 1>>})
        BY <1>1, <1>5, <2>4, OfferExtends
      <4> HIDE DEF mid
      <4> QED BY <1>1, <1>4, <2>4, <4>1, ExtendsMore DEF mid
    <3>3. Goal({<<s, n + 1>>})
      BY <3>1, <3>2
    <3> QED BY <1>3, <3>3
  <2> QED BY <2>1, <2>2, <2>3, <2>4
<1> QED BY <1>9, <1>10

LEMMA EarlierMade ==
  ASSUME SessionsTyped, NEW a \in Shown, NEW b \in Made, Earlier(a, b) PROVE a \in Made
<1>1. /\ b[1] \in Started /\ b[2] <= Len(sessions[b[1]].columns)
      /\ a[1] = b[1] /\ a[2] < b[2] /\ a[2] \in Int /\ b[2] \in Int
  BY DEF Made, Earlier, Shown
<1>2. Len(sessions[b[1]].columns) \in Nat
  BY <1>1, FlowSessionFacts
<1> QED BY <1>1, <1>2 DEF Made

\* What a step of the hub queues for a connection, and in which order.  K are
\* columns that the connection's pane, say, has been dealt, or that are lost
LEMMA HubCols ==
  ASSUME Inv, Typed, HubEffect, NEW d \in Conns, In(tx[d]) \subseteq Made,
         NEW K, NEW K2, K \subseteq K2, LostIn(tx'[d]) \subseteq K2,
         \A s : handler[d].session = s /\ s # None => Newest(s) \subseteq K \cup In(tx[d]),
         Ordered(tx[d].queue, Window \cup In(tx[d]), K)
  PROVE /\ In(tx'[d]) \subseteq Made'
        /\ \A a \in In(tx'[d]) : a \in Window \cup In(tx[d]) \/ a \notin Made
        /\ \A s : handler'[d].session = s /\ s # None =>
                    Newest(s)' \subseteq K2 \cup In(tx'[d])
        /\ Ordered(tx'[d].queue, Window' \cup In(tx'[d]), K2)
<1> DEFINE box == tx[d]
           after == tx'[d]
           P == Window' \cup In(after)
<1>1. box \in Box /\ SessionsTyped /\ In(box) \subseteq Shown /\ In(box) \subseteq Made
  BY InTyped DEF Typed, Boxes
<1>2. /\ Made \subseteq Made' /\ Window' \subseteq Made'
      /\ \A b \in Window' : b \in Window \/ b \notin Made
      /\ \A s \in Started : \A b \in Newest(s)' : b \in Newest(s) \/ b \notin Made
  BY <1>1, WindowGrows
<1>3. Made' \subseteq Shown
  BY DEF Made
<1>4. ASSUME In(after) \subseteq Made',
             \A a \in In(after) : a \in Window \cup In(box) \/ a \notin Made
      PROVE Ordered(box.queue, P, K)
  <2> SUFFICES ASSUME NEW i \in DOMAIN box.queue, NEW b \in Cols(box.queue[i]),
                      NEW a \in P, Earlier(a, b)
               PROVE a \in K \/ \E h \in 1 .. i : a \in Cols(box.queue[h])
    BY DEF Ordered
  <2>1. b \in Made
    BY <1>1 DEF In
  <2>2. a \in Made
    BY <1>1, <1>2, <1>3, <1>4, <2>1, EarlierMade
  <2>3. a \in Window \cup In(box)
    BY <1>2, <1>4, <2>2
  <2> QED BY <2>3 DEF Ordered
<1>5. CASE Left(d)
  <2>1. (after.queue = box.queue \/ after.queue = <<>>) /\ handler'[d].session = None
    BY <1>1, <1>5 DEF Left, Box
  <2>2. DOMAIN <<>> = {}
    OBVIOUS
  <2> HIDE DEF after, box
  <2>3. In(after) \subseteq In(box)
    BY <2>1, <2>2 DEF In
  <2>4. Ordered(box.queue, P, K)
    BY <1>1, <1>2, <1>4, <2>3
  <2>5. Ordered(after.queue, P, K2)
    <3>1. CASE after.queue = box.queue
      BY <2>4, <3>1 DEF Ordered
    <3>2. CASE after.queue = <<>>
      BY <2>2, <3>2 DEF Ordered
    <3> QED BY <2>1, <3>1, <3>2
  <2> QED BY <1>1, <1>2, <2>1, <2>3, <2>5 DEF after, box
<1>6. CASE Joined(d)
  <2> DEFINE s == handler'[d].session
             cols == sessions'[s].columns
             epoch == sessions'[s].epoch
             recent == Cols(RecentFrame(s, cols))
  <2>1. /\ s \in 1 .. MaxStarts /\ cols \in Seq(0 .. MaxEpoch) /\ s \in Started
        /\ Len(cols) <= MaxColumns /\ epoch \in 0 .. MaxEpoch
    BY <1>6, JoinedFacts
  <2>2. after = OfferAll(box, Snapshot(s, cols, epoch))
    BY <1>6 DEF Joined
  <2>3. s \in Started'
    BY <2>1 DEF HubEffect
  <2>4. \A t : t = s => Newest(t)' = recent
    BY DEF Newest
  <2>5. recent \subseteq Window'
    BY <2>3, <2>4 DEF Window
  <2>6. \A b \in recent : b[1] = s
    BY DEF Cols, RecentFrame, Frame
  <2>7. \A t \in Started' : \A b \in Newest(t)' : b[1] = t
    BY DEF Newest, Cols, RecentFrame, Frame
  <2>8. \A a \in Window' : a[1] = s => a \in recent
    BY <2>4, <2>7 DEF Window
  <2> HIDE DEF after, box
  <2>9. /\ In(after) = In(box) \cup recent
        /\ \A Q, L : /\ Ordered(box.queue, Q, L)
                     /\ \A b \in recent : \A a \in Q :
                          Earlier(a, b) => a \in L \cup In(box) \cup recent
                     => Ordered(after.queue, Q, L)
    <3> HIDE DEF s, cols, epoch
    <3> QED BY <1>1, <2>1, <2>2, JoinCols
  <2> HIDE DEF recent, s, cols, epoch
  <2>10. In(after) \subseteq Made' /\ \A a \in In(after) : a \in Window \cup In(box) \/ a \notin Made
    BY <1>1, <1>2, <2>5, <2>9
  <2>11. Ordered(box.queue, P, K)
    BY <1>4, <2>10
  <2>12. \A b \in recent : \A a \in P : Earlier(a, b) => a \in K \cup In(box) \cup recent
    BY <2>6, <2>8, <2>9 DEF Earlier
  <2>13. Ordered(after.queue, P, K)
    BY <2>9, <2>11, <2>12
  <2>14. Ordered(after.queue, P, K2)
    BY <2>13 DEF Ordered
  <2>15. \A t : handler'[d].session = t /\ t # None => Newest(t)' \subseteq K2 \cup In(after)
    BY <2>4, <2>9 DEF s
  <2> QED BY <2>10, <2>14, <2>15 DEF after, box
<1>7. CASE handler[d].session # None /\ (Idle(d) \/ Fed(d))
  <2> DEFINE s == handler[d].session
             n == Len(sessions[s].columns)
             n2 == Len(sessions'[s].columns)
  <2>1. PICK C : /\ Extends(box, after, C)
                 /\ \/ C = {} /\ n2 = n
                    \/ C = {<<s, n + 1>>} /\ n2 = n + 1
    BY <1>7, OffersCols
  <2>2. handler'[d].session = s /\ s \in Started /\ s # None
    BY <1>7 DEF Idle, Fed, Inv, HubInv, Handlers
  <2>3. n \in Nat /\ n2 \in Nat /\ s \in Started' /\ SessionsTyped' /\ n2 <= MaxColumns
        /\ s \in 1 .. MaxStarts
    <3>1. s \in Started' /\ SessionsTyped'
      BY <2>2 DEF HubEffect
    <3>2. sessions'[s] \in FlowSession
      BY <3>1 DEF SessionsTyped, Started
    <3>3. n2 \in Nat /\ n2 <= MaxColumns
      BY <3>2 DEF FlowSession
    <3> QED BY <1>1, <2>2, <3>1, <3>3, FlowSessionFacts
  <2>4. \A t \in Started' : \A b \in Newest(t)' : b[1] = t
    BY DEF Newest, Cols, RecentFrame, Frame
  <2>5. \A t : t = s => Newest(t)' \subseteq Window'
    BY <2>3 DEF Window
  <2>6. \A b \in Made' : b[1] = s => b \in Shown /\ b[2] <= n2
    BY DEF Made
  <2>7. \A b \in Shown : b[1] = s /\ b[2] <= n => b \in Made
    BY <2>2 DEF Made
  <2>8. \A b \in Made' : b[1] = s => b \in Made \/ b \in C
    <3> SUFFICES ASSUME NEW b \in Made', b[1] = s, b \notin Made PROVE b \in C
      OBVIOUS
    <3>1. b \in Shown /\ b[2] <= n2 /\ ~(b[2] <= n) /\ b = <<b[1], b[2]>> /\ b[2] \in Int
      BY <2>6, <2>7 DEF Shown
    <3>2. n2 = n + 1 /\ b[2] = n + 1 /\ C = {<<s, n + 1>>}
      BY <2>1, <2>3, <3>1
    <3> QED BY <3>1, <3>2
  <2>9. C \subseteq Made' /\ \A b \in C : b \notin Made /\ b[1] = s
    <3>1. CASE C = {}
      BY <3>1
    <3>2. CASE C = {<<s, n + 1>>} /\ n2 = n + 1
      <4>1. <<s, n + 1>> \in Shown
        BY <2>3, <3>2 DEF Shown
      <4>2. <<s, n + 1>>[1] = s /\ <<s, n + 1>>[2] = n + 1
        OBVIOUS
      <4> DEFINE x == <<s, n + 1>>
      <4>3. x \in Shown /\ x[1] = s /\ x[2] = n2 /\ ~(x[2] <= n)
        BY <2>3, <3>2, <4>1, <4>2, SMTT(30)
      <4> HIDE DEF x
      <4>4. x \in Made' /\ x \notin Made
        BY <2>3, <4>3 DEF Made
      <4> QED BY <3>2, <4>3, <4>4 DEF x
    <3> QED BY <2>1, <3>1, <3>2
  <2>10. Newest(s) \subseteq K \cup In(box)
    BY <2>2
  <2>11. \A b \in Window' : b[1] = s => b \in Newest(s) \/ b \in C
    <3> SUFFICES ASSUME NEW b \in Window', b[1] = s PROVE b \in Newest(s) \/ b \in C
      OBVIOUS
    <3>1. PICK t \in Started' : b \in Newest(t)'
      BY DEF Window
    <3>2. t = s
      BY <2>4, <3>1
    <3>3. b \in Newest(s) \/ b \notin Made
      BY <1>2, <2>2, <3>1, <3>2
    <3> QED BY <1>2, <2>8, <3>3
  <2> HIDE DEF after, box, n, n2, s
  <2>12. /\ In(after) \subseteq In(box) \cup C
         /\ In(box) \cup C \subseteq In(after) \cup LostIn(after)
    BY <2>1 DEF Extends
  <2>13. In(after) \subseteq Made' /\ \A a \in In(after) : a \in Window \cup In(box) \/ a \notin Made
    BY <1>1, <1>2, <2>9, <2>12
  <2>14. Ordered(box.queue, P, K)
    BY <1>4, <2>13
  <2>15. \A b \in C : \A a \in P : Earlier(a, b) => a \in K \cup In(box) \cup C
    BY <2>9, <2>10, <2>11, <2>12 DEF Earlier
  <2>16. Ordered(after.queue, P, K \cup LostIn(after))
    BY <2>1, <2>14, <2>15 DEF Extends
  <2>17. Ordered(after.queue, P, K2)
    BY <2>16 DEF Ordered, after
  <2>18. \A t : t = s => Newest(t)' \subseteq K2 \cup In(after)
    <3> SUFFICES ASSUME NEW t, t = s, NEW b \in Newest(t)' PROVE b \in K2 \cup In(after)
      OBVIOUS
    <3>1. b \in Window' /\ b[1] = s
      BY <2>3, <2>4, <2>5
    <3>2. b \in K \cup In(box) \cup C
      BY <2>10, <2>11, <3>1
    <3> QED BY <2>12, <3>2 DEF after
  <2> QED BY <2>2, <2>13, <2>17, <2>18 DEF after, box
<1>8. CASE handler[d].session = None /\ Idle(d)
  <2>1. after = box /\ handler'[d].session = None
    BY <1>8 DEF Idle
  <2>2. Ordered(box.queue, P, K)
    BY <1>1, <1>2, <1>4, <2>1
  <2>3. Ordered(after.queue, P, K2)
    BY <2>1, <2>2 DEF Ordered
  <2> QED BY <1>1, <1>2, <2>1, <2>3
<1> QED BY <1>5, <1>6, <1>7, <1>8 DEF HubEffect, Fed

\* What the pane was dealt, what the full queues lost, and what the pane has
\* yet to come: queued for it, or in the snapshot of an attachment of now
Dealt(p) == shown[p] \cup {<<x.session, x.seq>> : x \in swallowed[p]}
Missed == UNION {LostIn(tx[c]) : c \in Conns}
Known(p) == Dealt(p) \cup Missed
Pending(p) ==
  Window \cup (IF view[p].socket = None THEN {} ELSE In(tx[view[p].socket]))

\* A cursor stands where a column was forwarded; of what is yet to come, what
\* is older than a dealt column is known; and so it will be along the queue,
\* which leaves nothing of the newest columns out
CursorShown(v, S) == \A e \in Epochs : v.cursor[e].of # None =>
                       <<v.cursor[e].of, v.cursor[e].seq>> \in S
NoneSkipped(P, D, K) == \A a \in P : \A b \in D : Earlier(a, b) => a \in K
PaneCols(p) ==
  LET c == view[p].socket
      s == handler[c].session
  IN /\ CursorShown(view[p], shown[p])
     /\ Dealt(p) \subseteq Made
     /\ NoneSkipped(Pending(p), Dealt(p), Known(p))
     /\ c # None => /\ Ordered(tx[c].queue, Pending(p), Known(p))
                    /\ s # None => Newest(s) \subseteq Known(p) \cup In(tx[c])
ColInv ==
  /\ \A c \in Conns : In(tx[c]) \subseteq Made
  /\ \A p \in Panes : PaneCols(p)

LEMMA MissedGrows ==
  ASSUME \A d \in Conns : tx[d].evicted \subseteq tx'[d].evicted
  PROVE Missed \subseteq Missed'
BY DEF Missed, LostIn

LEMMA SessionsSame ==
  ASSUME UNCHANGED sessions
  PROVE /\ Made' = Made /\ Window' = Window /\ Started' = Started
        /\ \A s : Newest(s)' = Newest(s)
BY DEF Made, Window, Newest, Started

\* The cursor after some columns of a frame: unmoved, or at a fresh one
LEMMA CursorMoves ==
  ASSUME NEW f \in WireFrame, NEW cursor \in Cursor, NEW i \in 0 .. Len(f.columns),
         NEW e \in Epochs
  PROVE \/ After(cursor, f, i)[e] = cursor[e]
        \/ \E j \in 1 .. i :
             /\ ~Duplicate(After(cursor, f, j - 1), f.columns[j])
             /\ After(cursor, f, i)[e] = [seq |-> f.columns[j].seq, of |-> f.session]
<1> DEFINE Moved(n) ==
             \/ After(cursor, f, n)[e] = cursor[e]
             \/ \E j \in 1 .. n :
                  /\ ~Duplicate(After(cursor, f, j - 1), f.columns[j])
                  /\ After(cursor, f, n)[e] = [seq |-> f.columns[j].seq, of |-> f.session]
           S == {n \in Nat : n <= Len(f.columns) => Moved(n)}
<1>1. 0 \in S
  <2>1. After(cursor, f, 0) = cursor
    BY FrameFacts, AfterZero
  <2> QED BY <2>1
<1>2. ASSUME NEW n \in Nat, n \in S PROVE n + 1 \in S
  <2> SUFFICES ASSUME n + 1 <= Len(f.columns) PROVE Moved(n + 1)
    OBVIOUS
  <2> DEFINE j == n + 1
             col == f.columns[j]
             old == After(cursor, f, n)
             new == After(cursor, f, j)
             at == [seq |-> col.seq, of |-> f.session]
  <2>1. j \in 1 .. Len(f.columns) /\ j - 1 = n /\ n <= Len(f.columns)
        /\ n \in 0 .. Len(f.columns)
    BY FrameFacts
  <2>2. f.columns \in Seq(Columns)
    BY FrameFacts
  <2> HIDE DEF j
  <2>3. new = Advance(old, f.session, col)
    <3>1. new = Advance(After(cursor, f, j - 1), f.session, f.columns[j])
      BY <2>1, <2>2, AfterNext
    <3> QED BY <2>1, <3>1
  <2>4. old \in Cursor
    BY <2>1, AfterTyped
  <2>5. Moved(n)
    BY <1>2, <2>1
  <2>6. Duplicate(old, col) => new = old
    BY <2>3 DEF Advance
  <2>7. ~Duplicate(old, col) =>
          new[e] = old[e] \/ (new[e] = at /\ ~Duplicate(After(cursor, f, j - 1), f.columns[j]))
    <3>1. ~Duplicate(old, col) => new = [old EXCEPT ![col.epoch] = at]
      BY <2>3 DEF Advance
    <3> HIDE DEF at, new, old
    <3>2. ~Duplicate(old, col) => new[e] = old[e] \/ new[e] = at
      BY <2>4, <3>1 DEF Cursor
    <3> QED BY <2>1, <3>2 DEF old
  <2>8. new[e] = old[e] => Moved(j)
    BY <2>1, <2>5 DEF j
  <2>9. new[e] = at /\ ~Duplicate(After(cursor, f, j - 1), f.columns[j]) => Moved(j)
    BY <2>1
  <2>10. Moved(j)
    BY <2>6, <2>7, <2>8, <2>9
  <2> QED BY <2>10 DEF j
<1>3. Nat \subseteq S
  <2> HIDE DEF S
  <2> QED BY <1>1, <1>2, NatSetInduction
<1>4. i \in Nat /\ i <= Len(f.columns)
  BY FrameFacts
<1> QED BY <1>3, <1>4

LEMMA PaneColsPrimed ==
  ASSUME NEW p \in Panes, NEW c, view'[p].socket = c,
         CursorShown(view'[p], shown'[p]), Dealt(p)' \subseteq Made',
         NoneSkipped(Pending(p)', Dealt(p)', Known(p)'),
         c # None =>
           /\ Ordered(tx'[c].queue, Pending(p)', Known(p)')
           /\ \A t : t = handler'[c].session /\ t # None =>
                Newest(t)' \subseteq Known(p)' \cup In(tx'[c])
  PROVE PaneCols(p)'
<1> DEFINE s == handler'[c].session
           PP == Pending(p)'
           KP == Known(p)'
           DP == Dealt(p)'
           MP == Made'
           new == Cols(RecentFrame(s, sessions'[s].columns))
<1>1. \A t : t = s => Newest(t)' = new
  BY DEF Newest
<1>2. c # None => Ordered(tx'[c].queue, PP, KP) /\ (s # None => new \subseteq KP \cup In(tx'[c]))
  BY <1>1
<1>3. PaneCols(p)' <=>
        /\ CursorShown(view'[p], shown'[p])
        /\ DP \subseteq MP
        /\ NoneSkipped(PP, DP, KP)
        /\ c # None => Ordered(tx'[c].queue, PP, KP) /\ (s # None => new \subseteq KP \cup In(tx'[c]))
  BY DEF PaneCols, Newest
<1> QED BY <1>2, <1>3

\* A pane whose queue, session and records stay: it may rewind
LEMMA ColsStay ==
  ASSUME Typed, NEW p \in Panes, PaneCols(p), UNCHANGED sessions, Missed \subseteq Missed',
         view'[p].socket = view[p].socket, shown'[p] = shown[p],
         swallowed'[p] = swallowed[p],
         SameMemory(view[p], view'[p]) \/ NoMemory(view'[p]),
         view[p].socket # None =>
           /\ tx'[view[p].socket] = tx[view[p].socket]
           /\ handler'[view[p].socket].session = handler[view[p].socket].session
  PROVE PaneCols(p)'
<1> DEFINE c == view[p].socket
           s == handler[c].session
           P == Pending(p)
           K == Known(p)
           K2 == Dealt(p) \cup Missed'
<1>1. /\ Made' = Made /\ Window' = Window /\ \A t : Newest(t)' = Newest(t)
  BY SessionsSame
<1>2. Dealt(p)' = Dealt(p) /\ Known(p)' = K2 /\ K \subseteq K2
  BY DEF Dealt, Known
<1>3. Pending(p)' = P
  BY <1>1 DEF Pending
<1>4. CursorShown(view'[p], shown[p])
  <2>1. CASE SameMemory(view[p], view'[p])
    BY <2>1 DEF PaneCols, CursorShown, SameMemory
  <2>2. CASE NoMemory(view'[p])
    <3>1. \A e \in Epochs : view'[p].cursor[e].of = None
      BY <2>2 DEF NoMemory, NewConnection
    <3> QED BY <3>1 DEF CursorShown
  <2> QED BY <2>1, <2>2
<1>5. Dealt(p) \subseteq Made /\ NoneSkipped(P, Dealt(p), K2)
  BY <1>2 DEF PaneCols, NoneSkipped
<1>6. c # None => /\ Ordered(tx[c].queue, P, K2)
                  /\ s # None => Newest(s) \subseteq K2 \cup In(tx[c])
  <2>1. c # None => /\ Ordered(tx[c].queue, P, K)
                    /\ s # None => Newest(s) \subseteq K \cup In(tx[c])
    BY DEF PaneCols
  <2> HIDE DEF P, K, K2, c, s
  <2> QED BY <1>2, <2>1, OrderedKeeps
<1>7. c # None =>
        /\ Ordered(tx'[c].queue, P, K2)
        /\ \A t : t = handler'[c].session /\ t # None =>
             Newest(t)' \subseteq K2 \cup In(tx'[c])
  <2>1. c # None => tx'[c] = tx[c] /\ handler'[c].session = s
    OBVIOUS
  <2>2. \A t : Newest(t)' = Newest(t)
    BY <1>1
  <2> HIDE DEF P, K2, c, s
  <2> QED BY <1>6, <2>1, <2>2
<1>8. /\ CursorShown(view'[p], shown'[p])
      /\ Dealt(p)' \subseteq Made'
      /\ NoneSkipped(Pending(p)', Dealt(p)', Known(p)')
  <2> HIDE DEF P, K2
  <2> QED BY <1>1, <1>2, <1>3, <1>4, <1>5
<1>9. c # None =>
        /\ Ordered(tx'[c].queue, Pending(p)', Known(p)')
        /\ \A t : t = handler'[c].session /\ t # None =>
             Newest(t)' \subseteq Known(p)' \cup In(tx'[c])
  <2> HIDE DEF P, K2, c
  <2> QED BY <1>2, <1>3, <1>7
<1> HIDE DEF P, K, K2, s
<1> QED BY <1>8, <1>9, PaneColsPrimed

\* A pane that drops its socket or takes an unused one, records kept or not
RecordsKept(p) == shown'[p] = shown[p] /\ swallowed'[p] = swallowed[p]
Forgets(p) == shown'[p] = {} /\ swallowed'[p] = {} /\ NoMemory(view'[p])

LEMMA ColsWithoutQueue ==
  ASSUME NEW p \in Panes, PaneCols(p), UNCHANGED sessions, Missed \subseteq Missed',
         SameMemory(view[p], view'[p]) \/ NoMemory(view'[p]),
         RecordsKept(p) \/ Forgets(p),
         NEW c, view'[p].socket = c,
         c # None => tx'[c].queue = <<>> /\ handler'[c].session = None
  PROVE PaneCols(p)'
<1>1. /\ Made' = Made /\ Window' = Window
  BY SessionsSame
<1>2. Dealt(p)' \subseteq Dealt(p)
  BY DEF Dealt, RecordsKept, Forgets
<1>3. DOMAIN <<>> = {}
  OBVIOUS
<1>4. c # None => In(tx[c])' = {}
  BY <1>3 DEF In
<1>5. Pending(p)' \subseteq Pending(p)
  BY <1>1, <1>4 DEF Pending
<1>6. CursorShown(view'[p], shown'[p])
  <2>1. CASE NoMemory(view'[p])
    <3>1. \A e \in Epochs : view'[p].cursor[e].of = None
      BY <2>1 DEF NoMemory, NewConnection
    <3> QED BY <3>1 DEF CursorShown
  <2>2. CASE SameMemory(view[p], view'[p]) /\ shown'[p] = shown[p]
    BY <2>2 DEF PaneCols, CursorShown, SameMemory
  <2> QED BY <2>1, <2>2 DEF RecordsKept, Forgets
<1>7. NoneSkipped(Pending(p)', Dealt(p)', Known(p)')
  <2>1. CASE shown'[p] = shown[p] /\ swallowed'[p] = swallowed[p]
    <3>1. Known(p) \subseteq Known(p)'
      BY <2>1 DEF Known, Dealt
    <3> QED BY <1>2, <1>5, <3>1 DEF PaneCols, NoneSkipped
  <2>2. CASE shown'[p] = {} /\ swallowed'[p] = {}
    <3>1. Dealt(p)' = {}
      BY <2>2 DEF Dealt
    <3> QED BY <3>1 DEF NoneSkipped
  <2> QED BY <2>1, <2>2 DEF RecordsKept, Forgets
<1>8. Dealt(p)' \subseteq Made'
  BY <1>1, <1>2 DEF PaneCols
<1>9. c # None => /\ Ordered(tx'[c].queue, Pending(p)', Known(p)')
                  /\ \A t : t = handler'[c].session /\ t # None =>
                       Newest(t)' \subseteq Known(p)' \cup In(tx'[c])
  BY <1>3 DEF Ordered
<1> QED BY <1>6, <1>7, <1>8, <1>9, PaneColsPrimed

LEMMA PaneColsStep ==
  ASSUME Inv, Typed, Sockets, ColInv, Missed \subseteq Missed',
         NEW p \in Panes, PaneEffect(p)
  PROVE ColInv'
<1>1. UNCHANGED <<sessions, tx>> /\ \A d \in Conns : handler'[d].session = handler[d].session
  BY DEF PaneEffect
<1>2. ASSUME NEW q \in Panes, q # p PROVE PaneCols(q)'
  <2>1. /\ view'[q] = view[q] /\ PaneCols(q) /\ view[q].socket \in Conns \cup {None}
        /\ shown'[q] = shown[q] /\ swallowed'[q] = swallowed[q]
    BY <1>2 DEF PaneEffect, ColInv, Typed, View
  <2>2. SameMemory(view[q], view'[q])
    BY <2>1 DEF SameMemory
  <2> QED BY <1>1, <2>1, <2>2, ColsStay
<1>3. PaneCols(p)'
  <2>1. /\ SameMemory(view[p], view'[p]) \/ NoMemory(view'[p])
        /\ PaneCols(p) /\ view[p].socket \in Conns \cup {None}
    BY DEF PaneEffect, ColInv, Typed, View
  <2>2. RecordsKept(p) \/ (Forgets(p) /\ view'[p].socket = None)
    BY DEF PaneEffect, RecordsKept, Forgets
  <2>3. CASE view'[p].socket = view[p].socket /\ RecordsKept(p)
    BY <1>1, <2>1, <2>3, ColsStay DEF RecordsKept
  <2>4. CASE view'[p].socket = None
    <3> DEFINE c == None
    <3>1. /\ view'[p].socket = c
          /\ c # None => tx'[c].queue = <<>> /\ handler'[c].session = None
      BY <2>4
    <3> HIDE DEF c
    <3> QED BY <1>1, <2>1, <2>2, <3>1, ColsWithoutQueue
  <2>5. CASE view'[p].socket \in Conns /\ wire[view'[p].socket] = "unused"
    <3> DEFINE c == view'[p].socket
    <3>1. tx[c] = EmptyTx /\ handler[c].session = None
      <4>1. handler[c].pc = "absent"
        BY <2>5 DEF Inv, HubInv, Handlers
      <4> QED BY <2>5, <4>1 DEF Inv, HubInv, Handlers, Typed, Unopened
    <3>2. tx'[c] = EmptyTx /\ handler'[c].session = None
      BY <1>1, <2>5, <3>1
    <3>3. tx'[c].queue = <<>> /\ handler'[c].session = None
      BY <3>2 DEF EmptyTx
    <3>4. view'[p].socket = c
      OBVIOUS
    <3> HIDE DEF c
    <3> QED BY <1>1, <2>1, <2>2, <3>3, <3>4, ColsWithoutQueue
  <2> QED BY <2>2, <2>3, <2>4, <2>5 DEF PaneEffect
<1>4. \A c \in Conns : In(tx'[c]) \subseteq Made'
  BY <1>1, SessionsSame DEF ColInv
<1>5. \A c \in Conns : In(tx[c])' \subseteq Made'
  BY <1>4 DEF In
<1> QED BY <1>2, <1>3, <1>5 DEF ColInv

\* A step of the hub: HubCols says it for a pane's queue, with what the pane
\* knows, and for any other, with everything
LEMMA HubColInv ==
  ASSUME Inv, Typed, HubEffect, ColInv, UNCHANGED paneVars,
         \A d \in Conns : tx[d].evicted \subseteq tx'[d].evicted
  PROVE ColInv'
<1>1. view' = view /\ shown' = shown /\ swallowed' = swallowed
  BY DEF paneVars
<1>2. Missed \subseteq Missed' /\ SessionsTyped
  BY MissedGrows DEF Typed
<1>3. ASSUME NEW d \in Conns PROVE In(tx'[d]) \subseteq Made'
  <2>1. In(tx[d]) \subseteq Shown /\ In(tx[d]) \subseteq Made /\ LostIn(tx'[d]) \subseteq LostIn(tx'[d]) \cup Shown
    BY InTyped DEF Typed, Boxes, ColInv
  <2> DEFINE K2 == LostIn(tx'[d]) \cup Shown
  <2>2. \A s : handler[d].session = s /\ s # None => Newest(s) \subseteq Shown \cup In(tx[d])
    <3>1. handler[d].session # None => handler[d].session \in Started
      BY DEF Inv, HubInv, Handlers
    <3>2. \A s \in Started : Newest(s) \subseteq Shown
      BY <1>2, NewestFacts
    <3> QED BY <3>1, <3>2
  <2>3. Ordered(tx[d].queue, Window \cup In(tx[d]), Shown)
    <3>1. Window \subseteq Shown
      BY <1>2, NewestFacts DEF Window
    <3> QED BY <2>1, <3>1 DEF Ordered
  <2>4. Shown \subseteq K2 /\ LostIn(tx'[d]) \subseteq K2
    OBVIOUS
  <2> HIDE DEF K2
  <2> QED BY <2>1, <2>2, <2>3, <2>4, HubCols
<1>4. ASSUME NEW p \in Panes PROVE PaneCols(p)'
  <2> DEFINE c == view[p].socket
             D == Dealt(p)
             K == Known(p)
             K2 == D \cup Missed'
             P == Pending(p)
             P2 == Window' \cup (IF c = None THEN {} ELSE In(tx'[c]))
  <2>1. /\ Dealt(p)' = D /\ Known(p)' = K2 /\ K \subseteq K2
        /\ c \in Conns \cup {None} /\ view'[p].socket = c
    BY <1>1, <1>2 DEF Dealt, Known, Typed, View
  <2>2. Pending(p)' = P2
    BY <1>1 DEF Pending, In
  <2>3. /\ CursorShown(view[p], shown[p]) /\ D \subseteq Made
        /\ NoneSkipped(P, D, K)
        /\ c # None => /\ Ordered(tx[c].queue, P, K)
                       /\ \A s : handler[c].session = s /\ s # None =>
                                   Newest(s) \subseteq K \cup In(tx[c])
    BY DEF ColInv, PaneCols
  <2>4. P = Window \cup (IF c = None THEN {} ELSE In(tx[c]))
    BY DEF Pending
  <2>5. c # None => LostIn(tx'[c]) \subseteq K2
    <3>1. \A d \in Conns : LostIn(tx'[d]) \subseteq Missed'
      BY DEF Missed, LostIn
    <3> QED BY <2>1, <3>1
  <2>6. c # None =>
          /\ \A a \in In(tx'[c]) : a \in Window \cup In(tx[c]) \/ a \notin Made
          /\ \A s : handler'[c].session = s /\ s # None =>
                      Newest(s)' \subseteq K2 \cup In(tx'[c])
          /\ Ordered(tx'[c].queue, Window' \cup In(tx'[c]), K2)
    <3> SUFFICES ASSUME c # None
                 PROVE /\ \A a \in In(tx'[c]) : a \in Window \cup In(tx[c]) \/ a \notin Made
                       /\ \A s : handler'[c].session = s /\ s # None =>
                                   Newest(s)' \subseteq K2 \cup In(tx'[c])
                       /\ Ordered(tx'[c].queue, Window' \cup In(tx'[c]), K2)
      OBVIOUS
    <3>1. c \in Conns /\ In(tx[c]) \subseteq Made
      BY <2>1 DEF ColInv
    <3> HIDE DEF c, K, K2, P
    <3>2. Ordered(tx[c].queue, Window \cup In(tx[c]), K)
      BY <2>3, <2>4
    <3> QED BY <2>1, <2>3, <2>5, <3>1, <3>2, HubCols
  <2>7. \A a \in P2 : a \in Shown /\ (a \in P \/ a \notin Made)
    <3>1. \A a \in Window' : a \in Window \/ a \notin Made
      BY <1>2, WindowGrows
    <3>2. P2 \subseteq Made'
      BY <1>2, <1>3, <2>1, WindowGrows
    <3>3. Made' \subseteq Shown
      BY DEF Made
    <3> HIDE DEF P, c
    <3> QED BY <2>4, <2>6, <3>1, <3>2, <3>3
  <2> HIDE DEF P, P2, K, K2, D, c
  <2>8. NoneSkipped(P2, D, K2)
    <3> SUFFICES ASSUME NEW a \in P2, NEW b \in D, Earlier(a, b) PROVE a \in K2
      BY DEF NoneSkipped
    <3>1. a \in Made
      BY <1>2, <2>3, <2>7, EarlierMade
    <3> QED BY <2>1, <2>3, <2>7, <3>1 DEF NoneSkipped
  <2>9. D \subseteq Made'
    BY <1>2, <2>3, WindowGrows
  <2>10. CursorShown(view'[p], shown'[p])
    BY <1>1, <2>3
  <2>11. c # None =>
           /\ Ordered(tx'[c].queue, Pending(p)', Known(p)')
           /\ \A t : t = handler'[c].session /\ t # None =>
                Newest(t)' \subseteq Known(p)' \cup In(tx'[c])
    <3>1. c # None => P2 = Window' \cup In(tx'[c])
      BY DEF P2, c
    <3> QED BY <2>1, <2>2, <2>6, <3>1
  <2>12. NoneSkipped(Pending(p)', Dealt(p)', Known(p)') /\ Dealt(p)' \subseteq Made'
    BY <2>1, <2>2, <2>8, <2>9
  <2> QED BY <2>1, <2>10, <2>11, <2>12, PaneColsPrimed
<1>5. \A c \in Conns : In(tx[c])' \subseteq Made'
  BY <1>3 DEF In
<1> QED BY <1>4, <1>5 DEF ColInv

\* A delivered frame: all its columns are dealt, and the cursor stands at one
LEMMA DeliverDealt ==
  ASSUME Typed, NEW p \in Panes, NEW c, NEW f \in WireFrame, Delivers(p, c, f),
         CursorShown(view[p], shown[p])
  PROVE /\ Dealt(p)' = Dealt(p) \cup Cols(f)
        /\ shown[p] \subseteq shown'[p] /\ swallowed[p] \subseteq swallowed'[p]
        /\ CursorShown(view'[p], shown'[p])
<1> DEFINE at(i) == After(view[p].cursor, f, i)
           fresh(i) == ~Duplicate(at(i - 1), f.columns[i])
           first == {<<f.session, f.columns[i].seq>> : i \in {j \in DOMAIN f.columns : fresh(j)}}
           again == {[session |-> f.session, seq |-> f.columns[i].seq,
                      of |-> at(i - 1)[f.columns[i].epoch].of] :
                       i \in {j \in DOMAIN f.columns : ~fresh(j)}}
<1>1. /\ shown'[p] = shown[p] \cup first /\ swallowed'[p] = swallowed[p] \cup again
      /\ view'[p].cursor = at(Len(f.columns))
  BY DEF Delivers
<1>2. first \cup {<<x.session, x.seq>> : x \in again} = Cols(f)
  <2>1. \A x \in again : \E i \in DOMAIN f.columns :
          ~fresh(i) /\ x.session = f.session /\ x.seq = f.columns[i].seq
    OBVIOUS
  <2>2. \A i \in DOMAIN f.columns : ~fresh(i) =>
          \E x \in again : x.session = f.session /\ x.seq = f.columns[i].seq
    <3> SUFFICES ASSUME NEW i \in DOMAIN f.columns, ~fresh(i)
                 PROVE \E x \in again : x.session = f.session /\ x.seq = f.columns[i].seq
      OBVIOUS
    <3> DEFINE x == [session |-> f.session, seq |-> f.columns[i].seq,
                     of |-> at(i - 1)[f.columns[i].epoch].of]
    <3>1. x \in again /\ x.session = f.session /\ x.seq = f.columns[i].seq
      OBVIOUS
    <3> QED BY <3>1
  <2>3. \A i \in DOMAIN f.columns : fresh(i) => <<f.session, f.columns[i].seq>> \in first
    OBVIOUS
  <2>4. \A a \in first : \E i \in DOMAIN f.columns : a = <<f.session, f.columns[i].seq>>
    OBVIOUS
  <2> HIDE DEF first, again, fresh
  <2> QED BY <2>1, <2>2, <2>3, <2>4 DEF Cols
<1>3. Dealt(p)' = Dealt(p) \cup Cols(f)
  <2> HIDE DEF first, again
  <2> QED BY <1>1, <1>2 DEF Dealt
<1>4. CursorShown(view'[p], shown'[p])
  <2> SUFFICES ASSUME NEW e \in Epochs, view'[p].cursor[e].of # None
               PROVE <<view'[p].cursor[e].of, view'[p].cursor[e].seq>> \in shown'[p]
    BY DEF CursorShown
  <2> DEFINE n == Len(f.columns)
             old == view[p].cursor[e]
             new == view'[p].cursor[e]
  <2>1. view[p].cursor \in Cursor /\ n \in 0 .. n /\ DOMAIN f.columns = 1 .. n
    BY FrameFacts, ViewFacts DEF Typed
  <2>2. \/ new = old
        \/ \E j \in 1 .. n : fresh(j) /\ new = [seq |-> f.columns[j].seq, of |-> f.session]
    <3> DEFINE u == view[p].cursor
    <3>1. u \in Cursor
      BY <2>1
    <3> HIDE DEF u, n
    <3>2. \/ After(u, f, n)[e] = u[e]
          \/ \E j \in 1 .. n :
               /\ ~Duplicate(After(u, f, j - 1), f.columns[j])
               /\ After(u, f, n)[e] = [seq |-> f.columns[j].seq, of |-> f.session]
      BY <2>1, <3>1, CursorMoves DEF n
    <3> QED BY <1>1, <3>2 DEF u, n
  <2>3. CASE new = old
    BY <1>1, <2>3 DEF CursorShown
  <2>4. ASSUME NEW j \in 1 .. n, fresh(j), new = [seq |-> f.columns[j].seq, of |-> f.session]
        PROVE <<new.of, new.seq>> \in shown'[p]
    <3>1. new.of = f.session /\ new.seq = f.columns[j].seq
      <4> HIDE DEF new
      <4> QED BY <2>4
    <3>2. <<f.session, f.columns[j].seq>> \in first
      BY <2>1, <2>4
    <3> QED BY <1>1, <3>1, <3>2
  <2> QED BY <2>2, <2>3, <2>4
<1> QED BY <1>1, <1>3, <1>4

Across(q) == UNION {Cols(q[i]) : i \in DOMAIN q}

LEMMA TailCols ==
  ASSUME NEW box \in Box, box.queue # <<>>, NEW rest, rest = Tail(box.queue),
         NEW left, left = Across(rest)
  PROVE /\ left \subseteq In(box) /\ Cols(box.queue[1]) \subseteq In(box)
        /\ In(box) \subseteq left \cup Cols(box.queue[1])
        /\ \A P, K : Ordered(box.queue, P, K) =>
             /\ \A b \in Cols(box.queue[1]) : \A a \in P :
                  Earlier(a, b) => a \in K \cup Cols(box.queue[1])
             /\ Ordered(rest, P, K \cup Cols(box.queue[1]))
<1> DEFINE q == box.queue
           n == Len(q)
<1>1. q \in Seq(WireFrame) /\ q # <<>>
  BY DEF Box
<1> HIDE DEF q
<1>2. /\ n \in Nat /\ n >= 1 /\ DOMAIN q = 1 .. n /\ q[1] \in WireFrame
      /\ DOMAIN rest = 1 .. n - 1
      /\ \A i \in 1 .. n - 1 : rest[i] = q[i + 1] /\ i + 1 \in 1 .. n
      /\ \A i \in 1 .. n : i # 1 => i - 1 \in 1 .. n - 1 /\ rest[i - 1] = q[i]
      /\ 1 \in 1 .. n
  BY <1>1 DEF q
<1> HIDE DEF n
<1>3. In(box) = UNION {Cols(q[i]) : i \in DOMAIN q}
  BY DEF In, q
<1>4. /\ left \subseteq In(box) /\ Cols(q[1]) \subseteq In(box)
      /\ In(box) \subseteq left \cup Cols(q[1])
  <2>1. ASSUME NEW a \in In(box), a \notin Cols(q[1]) PROVE a \in left
    <3>1. PICK i \in 1 .. n : a \in Cols(q[i])
      BY <1>2, <1>3
    <3>2. i - 1 \in 1 .. n - 1 /\ rest[i - 1] = q[i]
      BY <1>2, <2>1, <3>1
    <3> QED BY <1>2, <3>1, <3>2 DEF Across
  <2>2. ASSUME NEW a \in left PROVE a \in In(box)
    <3>1. PICK i \in 1 .. n - 1 : a \in Cols(rest[i])
      BY <1>2 DEF Across
    <3> QED BY <1>2, <1>3, <3>1
  <2> QED BY <1>2, <1>3, <2>1, <2>2
<1>5. ASSUME NEW P, NEW K, Ordered(q, P, K)
      PROVE /\ \A b \in Cols(q[1]) : \A a \in P : Earlier(a, b) => a \in K \cup Cols(q[1])
            /\ Ordered(rest, P, K \cup Cols(q[1]))
  <2>1. ASSUME NEW b \in Cols(q[1]), NEW a \in P, Earlier(a, b)
        PROVE a \in K \cup Cols(q[1])
    <3>1. a \in K \/ \E h \in 1 .. 1 : a \in Cols(q[h])
      BY <1>2, <1>5, <2>1 DEF Ordered
    <3> QED BY <3>1
  <2>2. ASSUME NEW i \in DOMAIN rest, NEW b \in Cols(rest[i]), NEW a \in P,
               Earlier(a, b), a \notin K, a \notin Cols(q[1])
        PROVE \E j \in 1 .. i : a \in Cols(rest[j])
    <3>1. rest[i] = q[i + 1] /\ i + 1 \in DOMAIN q /\ i \in Nat
      BY <1>2
    <3>2. PICK h \in 1 .. i + 1 : a \in Cols(q[h])
      BY <1>5, <2>2, <3>1 DEF Ordered
    <3>3. h # 1 /\ h \in 1 .. n /\ h - 1 \in 1 .. i
      BY <1>2, <2>2, <3>1, <3>2
    <3> QED BY <1>2, <3>2, <3>3
  <2> QED BY <2>1, <2>2 DEF Ordered
<1> QED BY <1>4, <1>5 DEF q

LEMMA DeliverColInv ==
  ASSUME Inv, Typed, Sockets, ColInv, Missed \subseteq Missed', NEW p \in Panes, Deliver(p)
  PROVE ColInv'
<1> DEFINE c == view[p].socket
           f == Head(tx[c].queue)
           b == tx[c]
           rest == Tail(b.queue)
           left == Across(rest)
           P == Pending(p)
           D == Dealt(p)
           K == Known(p)
           P2 == Window \cup left
           D2 == D \cup Cols(f)
           K2 == D2 \cup Missed'
<1>1. DeliverEffect(p, c, f)
  BY DeliverFacts
<1> HIDE DEF f
<1>2. /\ UNCHANGED <<sessions, handler>> /\ c # None /\ c \in Conns
      /\ \A q \in Panes : q # p => view'[q] = view[q]
      /\ \A d \in Conns : d # c => tx'[d] = tx[d]
  BY <1>1 DEF DeliverEffect, hub
<1>3. /\ b \in Box /\ b.queue # <<>> /\ f = b.queue[1] /\ f \in WireFrame
      /\ tx'[c].queue = rest
  BY <1>1 DEF DeliverEffect, Typed, Boxes
<1>4. /\ left \subseteq In(b) /\ Cols(f) \subseteq In(b) /\ In(b) \subseteq left \cup Cols(f)
      /\ \A Q, L : Ordered(b.queue, Q, L) =>
           /\ \A x \in Cols(f) : \A a \in Q : Earlier(a, x) => a \in L \cup Cols(f)
           /\ Ordered(rest, Q, L \cup Cols(f))
  <2>1. rest = Tail(b.queue) /\ left = Across(rest)
    OBVIOUS
  <2> HIDE DEF b, left, rest
  <2>2. /\ left \subseteq In(b) /\ Cols(b.queue[1]) \subseteq In(b)
        /\ In(b) \subseteq left \cup Cols(b.queue[1])
        /\ \A Q, L : Ordered(b.queue, Q, L) =>
             /\ \A x \in Cols(b.queue[1]) : \A a \in Q :
                  Earlier(a, x) => a \in L \cup Cols(b.queue[1])
             /\ Ordered(rest, Q, L \cup Cols(b.queue[1]))
    BY <1>3, <2>1, TailCols
  <2>3. Cols(b.queue[1]) = Cols(f)
    BY <1>3
  <2> DEFINE C == Cols(f)
  <2> HIDE DEF C
  <2> QED BY <2>2, <2>3 DEF C
<1>5. /\ CursorShown(view[p], shown[p]) /\ D \subseteq Made
      /\ NoneSkipped(P, D, K) /\ Ordered(b.queue, P, K)
      /\ handler[c].session # None => Newest(handler[c].session) \subseteq K \cup In(b)
      /\ In(b) \subseteq Made
  BY <1>2 DEF ColInv, PaneCols
<1>6. /\ Made' = Made /\ Window' = Window /\ \A t : Newest(t)' = Newest(t)
  BY <1>2, SessionsSame
<1>7. /\ Dealt(p)' = D2 /\ CursorShown(view'[p], shown'[p]) /\ view'[p].socket = c
  BY <1>1, <1>3, <1>5, DeliverDealt DEF DeliverEffect, Delivers
<1>8. In(tx'[c]) = left
  BY <1>3 DEF In, Across
<1>9. Pending(p)' = P2 /\ Known(p)' = K2
  <2>1. Pending(p)' = Window' \cup (IF view'[p].socket = None THEN {}
                                    ELSE In(tx'[view'[p].socket]))
    BY DEF Pending, In
  <2> HIDE DEF c, left
  <2> QED BY <1>2, <1>6, <1>7, <1>8, <2>1 DEF Known
<1>10. P = Window \cup In(b)
  BY <1>2 DEF Pending
<1>11. K = D \cup Missed
  BY DEF Known
<1>12. PaneCols(p)'
  <2> HIDE DEF P, D, K, left, b, rest
  <2>1. P2 \subseteq P /\ K \cup Cols(f) \subseteq K2
    BY <1>4, <1>10, <1>11
  <2> HIDE DEF P2
  <2>2. NoneSkipped(P2, D2, K2)
    <3> SUFFICES ASSUME NEW a \in P2, NEW x \in D2, Earlier(a, x) PROVE a \in K2
      BY DEF NoneSkipped
    <3>1. CASE x \in D
      BY <1>5, <2>1, <3>1 DEF NoneSkipped
    <3>2. CASE x \in Cols(f)
      BY <1>4, <1>5, <2>1, <3>2
    <3> QED BY <3>1, <3>2
  <2>3. Ordered(rest, P2, K2)
    <3>1. Ordered(rest, P, K \cup Cols(f))
      BY <1>4, <1>5
    <3> HIDE DEF K2
    <3> QED BY <2>1, <3>1, OrderedKeeps
  <2>4. \A t : t = handler'[c].session /\ t # None => Newest(t)' \subseteq K2 \cup In(tx'[c])
    <3>2. handler'[c].session = handler[c].session
      BY <1>2
    <3>3. K \cup In(b) \subseteq K2 \cup left
      BY <1>4, <2>1
    <3> QED BY <1>5, <1>6, <1>8, <3>2, <3>3
  <2>5. D2 \subseteq Made
    BY <1>4, <1>5
  <2> HIDE DEF K2, D2, c
  <2>6. /\ Dealt(p)' \subseteq Made' /\ NoneSkipped(Pending(p)', Dealt(p)', Known(p)')
        /\ Ordered(tx'[c].queue, Pending(p)', Known(p)')
        /\ \A t : t = handler'[c].session /\ t # None =>
             Newest(t)' \subseteq Known(p)' \cup In(tx'[c])
    BY <1>3, <1>6, <1>7, <1>9, <2>2, <2>3, <2>4, <2>5
  <2> QED BY <1>7, <2>6, PaneColsPrimed
<1>13. ASSUME NEW q \in Panes, q # p PROVE PaneCols(q)'
  <2>1. /\ view'[q] = view[q] /\ PaneCols(q) /\ shown'[q] = shown[q]
        /\ swallowed'[q] = swallowed[q]
    BY <1>1, <1>13 DEF ColInv, DeliverEffect
  <2>2. view[q].socket # None => tx'[view[q].socket] = tx[view[q].socket]
    BY <1>2, <1>13, OthersSocket
  <2>3. SameMemory(view[q], view'[q])
    BY <2>1 DEF SameMemory
  <2> QED BY <1>2, <2>1, <2>2, <2>3, ColsStay
<1>14. ASSUME NEW d \in Conns PROVE In(tx[d])' \subseteq Made'
  <2>1. CASE d # c
    <3>1. In(tx[d])' = In(tx[d])
      BY <1>2, <2>1 DEF In
    <3> QED BY <1>6, <3>1 DEF ColInv
  <2>2. CASE d = c
    <3>1. In(tx[d])' = left
      BY <1>8, <2>2 DEF In
    <3> QED BY <1>4, <1>5, <1>6, <3>1
  <2> QED BY <2>1, <2>2
<1> QED BY <1>12, <1>13, <1>14 DEF ColInv

LEMMA ColInvStep ==
  ASSUME Inv, Inv', Typed, Sockets, ColInv, [Next]_vars PROVE ColInv'
<1>1. /\ \A d \in Conns : tx[d].evicted \subseteq tx'[d].evicted
      /\ Missed \subseteq Missed'
  BY EvictedGrows, MissedGrows
<1>2. CASE HubNext /\ HubEffect /\ UNCHANGED paneVars
  BY <1>1, <1>2, HubColInv
<1>3. ASSUME NEW p \in Panes, PaneEffect(p) PROVE ColInv'
  BY <1>1, <1>3, PaneColsStep
<1>4. ASSUME NEW p \in Panes, Deliver(p) PROVE ColInv'
  BY <1>1, <1>4, DeliverColInv
<1>5. CASE Stutters
  <2>1. /\ UNCHANGED <<sessions, tx, view, shown, swallowed>>
        /\ \A d \in Conns : handler'[d].session = handler[d].session
    BY <1>5 DEF Stutters
  <2>2. ASSUME NEW p \in Panes PROVE PaneCols(p)'
    <3>1. PaneCols(p) /\ view[p].socket \in Conns \cup {None} /\ SameMemory(view[p], view'[p])
      BY <2>1 DEF ColInv, Typed, View, SameMemory
    <3> QED BY <1>1, <2>1, <3>1, ColsStay
  <2>3. ASSUME NEW c \in Conns PROVE In(tx[c])' \subseteq Made'
    BY <2>1, SessionsSame DEF In, ColInv
  <2> QED BY <2>2, <2>3 DEF ColInv
<1> QED BY <1>2, <1>3, <1>4, <1>5, StepEffect

\* What OwnCursorIsExact demands of a swallowed column
Accounted(p, w) ==
  \/ <<w.session, w.seq>> \in shown[p]
  \/ \E x \in swallowed[p] : x.session = w.session /\ x.seq = w.seq /\ x.of # x.session
  \/ \E frame \in Evicted : frame.session = w.session
       /\ \E i \in DOMAIN frame.columns : frame.columns[i].seq = w.seq

LEMMA MissedIsEvicted ==
  ASSUME NEW s, NEW n, <<s, n>> \in Missed
  PROVE \E frame \in Evicted : frame.session = s
          /\ \E i \in DOMAIN frame.columns : frame.columns[i].seq = n
<1>1. PICK f \in Evicted : <<s, n>> \in Cols(f)
  BY DEF Missed, LostIn, Evicted
<1>2. PICK i \in DOMAIN f.columns : <<s, n>> = <<f.session, f.columns[i].seq>>
  BY <1>1 DEF Cols
<1>3. f.session = s /\ f.columns[i].seq = n
  BY <1>2
<1> QED BY <1>3

\* A column that a cursor of its own session swallows is accounted for: the
\* cursor was not set within the frame, whose columns ascend, so it stood at
\* a forwarded column, and nothing older than that one may be missing
LEMMA SwallowedAccounted ==
  ASSUME Inv, Typed, Sockets, ColInv, OwnCursorIsExact, NEW p \in Panes, Deliver(p),
         NEW w \in swallowed'[p], w \notin swallowed[p], w.of = w.session
  PROVE Accounted(p, w)
<1> DEFINE c == view[p].socket
           f == Head(tx[c].queue)
           u == view[p].cursor
           at(i) == After(u, f, i)
<1>1. DeliverEffect(p, c, f)
  BY DeliverFacts
<1> HIDE DEF f
<1>2. /\ f \in WireFrame /\ u \in Cursor /\ c \in Conns /\ c # None
      /\ tx[c].queue # <<>> /\ f = tx[c].queue[1]
  BY <1>1, ViewFacts DEF DeliverEffect, Typed
<1> DEFINE n == Len(f.columns)
           swallow(i) == [session |-> f.session, seq |-> f.columns[i].seq,
                          of |-> at(i - 1)[f.columns[i].epoch].of]
<1>3. n \in Nat /\ DOMAIN f.columns = 1 .. n
  BY <1>2, FrameFacts
<1>4. PICK i \in 1 .. n : Duplicate(at(i - 1), f.columns[i]) /\ w = swallow(i)
  <2>1. swallowed'[p] = swallowed[p] \cup
          {swallow(i) : i \in {j \in DOMAIN f.columns :
                                 ~ ~Duplicate(at(j - 1), f.columns[j])}}
    BY <1>1 DEF DeliverEffect, Delivers
  <2> HIDE DEF swallow, at
  <2> QED BY <1>3, <2>1
<1> DEFINE e == f.columns[i].epoch
           s == f.session
           k == f.columns[i].seq
           stand == at(i - 1)[e]
<1>5. /\ e \in Epochs /\ k \in 1 .. MaxColumns /\ k \in Nat /\ s # None /\ s \in Nat
      /\ i - 1 \in 0 .. n /\ i \in Nat
  <2>1. i \in DOMAIN f.columns
    BY <1>3
  <2>2. e \in 0 .. MaxEpoch /\ k \in 1 .. MaxColumns /\ s # None /\ s \in Nat /\ k \in Nat
    BY <1>2, <2>1, FrameFacts
  <2>3. i - 1 \in 0 .. n /\ i \in Nat
    BY <1>3
  <2> QED BY <2>2, <2>3 DEF Epochs
<1>6. w.session = s /\ w.seq = k /\ stand.of = s
  BY <1>4
<1>7. stand.seq # None /\ k <= stand.seq
  BY <1>4 DEF Duplicate
<1>8. stand = u[e]
  <2>1. \/ at(i - 1)[e] = u[e]
        \/ \E j \in 1 .. i - 1 :
             /\ ~Duplicate(at(j - 1), f.columns[j])
             /\ at(i - 1)[e] = [seq |-> f.columns[j].seq, of |-> f.session]
    <3> DEFINE h == i - 1
    <3>1. h \in 0 .. Len(f.columns) /\ e \in Epochs
      BY <1>5
    <3> HIDE DEF h, e, u, n
    <3>2. \/ After(u, f, h)[e] = u[e]
          \/ \E j \in 1 .. h :
               /\ ~Duplicate(After(u, f, j - 1), f.columns[j])
               /\ After(u, f, h)[e] = [seq |-> f.columns[j].seq, of |-> f.session]
      BY <1>2, <3>1, CursorMoves
    <3> QED BY <3>2 DEF h
  <2>2. ASSUME NEW j \in 1 .. i - 1,
               at(i - 1)[e] = [seq |-> f.columns[j].seq, of |-> f.session]
        PROVE FALSE
    <3>1. stand.seq = f.columns[j].seq
      BY <2>2
    <3>2. j \in DOMAIN f.columns /\ j < i /\ j \in Nat /\ i \in Nat
      BY <1>3, <1>5
    <3>3. /\ f.columns[j].seq = f.columns[1].seq + j - 1
          /\ f.columns[i].seq = f.columns[1].seq + i - 1
          /\ f.columns[j].seq \in Nat /\ 1 \in DOMAIN f.columns
      <4>1. i \in DOMAIN f.columns /\ 1 \in DOMAIN f.columns
        BY <1>3, <1>5
      <4> QED BY <1>2, <3>2, <4>1, FrameFacts
    <3>4. f.columns[1].seq \in Nat
      BY <1>2, <3>3, FrameFacts
    <3> QED BY <1>7, <3>1, <3>2, <3>3, <3>4
  <2> QED BY <2>1, <2>2
<1>9. <<s, stand.seq>> \in shown[p]
  BY <1>5, <1>6, <1>8 DEF ColInv, PaneCols, CursorShown
<1>10. stand.seq \in Nat
  <2>1. u[e] \in [seq: 0 .. MaxColumns, of: 0 .. MaxStarts]
    <3> HIDE DEF e, u
    <3> QED BY <1>2, <1>5 DEF Cursor
  <2>2. stand \in [seq: 0 .. MaxColumns, of: 0 .. MaxStarts]
    BY <1>8, <2>1
  <2> HIDE DEF stand
  <2> QED BY <2>2
<1>11. CASE stand.seq = k
  BY <1>6, <1>9, <1>11 DEF Accounted
<1>12. CASE k < stand.seq
  <2> DEFINE a == <<s, k>>
             b == <<s, stand.seq>>
  <2>1. a \in Pending(p)
    <3>1. a \in Cols(f)
      BY <1>3 DEF Cols
    <3>2. Cols(f) \subseteq In(tx[c])
      <4>1. tx[c] \in Box
        BY <1>2 DEF Typed, Boxes
      <4> DEFINE box == tx[c]
                 rest == Tail(box.queue)
                 left == Across(rest)
      <4>2. box \in Box /\ box.queue # <<>> /\ f = box.queue[1]
        BY <1>2, <4>1
      <4> HIDE DEF box
      <4>3. Cols(box.queue[1]) \subseteq In(box)
        BY <4>2, TailCols
      <4> QED BY <4>2, <4>3 DEF box
    <3> QED BY <1>2, <3>1, <3>2 DEF Pending
  <2>2. b \in Dealt(p)
    BY <1>9 DEF Dealt
  <2>3. Earlier(a, b)
    BY <1>12 DEF Earlier
  <2>4. a \in Known(p)
    BY <2>1, <2>2, <2>3 DEF ColInv, PaneCols, NoneSkipped
  <2>5. CASE a \in shown[p]
    BY <1>6, <2>5 DEF Accounted
  <2>6. CASE a \in Missed
    <3> HIDE DEF s, k
    <3>1. \E frame \in Evicted : frame.session = s
            /\ \E h \in DOMAIN frame.columns : frame.columns[h].seq = k
      BY <2>6, MissedIsEvicted
    <3> QED BY <1>6, <3>1 DEF Accounted
  <2>7. CASE \E x \in swallowed[p] : <<x.session, x.seq>> = a
    <3>1. PICK x \in swallowed[p] : x.session = s /\ x.seq = k
      BY <2>7
    <3>2. x.of = x.session => Accounted(p, x)
      BY DEF OwnCursorIsExact, Accounted
    <3>3. x.of # x.session => Accounted(p, w)
      BY <1>6, <3>1 DEF Accounted
    <3>4. Accounted(p, x) => Accounted(p, w)
      BY <1>6, <3>1 DEF Accounted
    <3> QED BY <3>2, <3>3, <3>4
  <2> QED BY <2>4, <2>5, <2>6, <2>7 DEF Known, Dealt
<1> QED BY <1>5, <1>7, <1>10, <1>11, <1>12

LEMMA OwnCursorStep ==
  ASSUME Inv, Inv', Typed, Sockets, ColInv, OwnCursorIsExact, [Next]_vars
  PROVE OwnCursorIsExact'
<1> DEFINE WasLost(w) == \E frame \in Evicted : frame.session = w.session
             /\ \E i \in DOMAIN frame.columns : frame.columns[i].seq = w.seq
           Apart(S, w) == \E x \in S : x.session = w.session /\ x.seq = w.seq
                                       /\ x.of # x.session
           Accounts(S, T, w) == <<w.session, w.seq>> \in S \/ Apart(T, w)
<1>1. \A w : WasLost(w) => WasLost(w)'
  BY EvictedGrows
<1>2. \A p \in Panes : \A w \in swallowed[p] : w.of = w.session =>
        Accounts(shown[p], swallowed[p], w) \/ WasLost(w)
  BY DEF OwnCursorIsExact
<1>3. SUFFICES ASSUME NEW p \in Panes, NEW w \in swallowed'[p], w.of = w.session
               PROVE Accounts(shown'[p], swallowed'[p], w) \/ WasLost(w)'
  BY DEF OwnCursorIsExact
<1>4. CASE shown'[p] = shown[p] /\ swallowed'[p] = swallowed[p]
  <2> HIDE DEF WasLost, Accounts
  <2> QED BY <1>1, <1>2, <1>3, <1>4
<1>5. CASE swallowed'[p] = {}
  BY <1>5
<1>6. CASE Deliver(p)
  <2> DEFINE c == view[p].socket
             f == Head(tx[c].queue)
  <2>1. DeliverEffect(p, c, f)
    BY <1>6, DeliverFacts
  <2> HIDE DEF f
  <2>2. shown[p] \subseteq shown'[p] /\ swallowed[p] \subseteq swallowed'[p]
    BY <2>1 DEF DeliverEffect, Delivers
  <2>3. CASE w \in swallowed[p]
    <3>1. Accounts(shown[p], swallowed[p], w) \/ WasLost(w)
      BY <1>2, <1>3, <2>3
    <3>2. Accounts(shown[p], swallowed[p], w) => Accounts(shown'[p], swallowed'[p], w)
      BY <2>2
    <3> HIDE DEF WasLost, Accounts
    <3> QED BY <1>1, <3>1, <3>2
  <2>4. CASE w \notin swallowed[p]
    <3>1. Accounted(p, w)
      BY <1>3, <1>6, <2>4, SwallowedAccounted
    <3>2. Accounts(shown[p], swallowed[p], w) \/ WasLost(w)
      BY <3>1 DEF Accounted
    <3>3. Accounts(shown[p], swallowed[p], w) => Accounts(shown'[p], swallowed'[p], w)
      BY <2>2
    <3> HIDE DEF WasLost, Accounts
    <3> QED BY <1>1, <3>2, <3>3
  <2> QED BY <2>3, <2>4
<1>7. \/ shown'[p] = shown[p] /\ swallowed'[p] = swallowed[p]
      \/ swallowed'[p] = {}
      \/ Deliver(p)
  <2>1. CASE UNCHANGED paneVars
    BY <2>1 DEF paneVars
  <2>2. ASSUME NEW q \in Panes, PaneEffect(q)
        PROVE \/ shown'[p] = shown[p] /\ swallowed'[p] = swallowed[p]
              \/ swallowed'[p] = {}
    BY <2>2 DEF PaneEffect
  <2>3. ASSUME NEW q \in Panes, Deliver(q), q # p
        PROVE shown'[p] = shown[p] /\ swallowed'[p] = swallowed[p]
    <3> DEFINE c == view[q].socket
               f == Head(tx[c].queue)
    <3>1. DeliverEffect(q, c, f)
      BY <2>3, DeliverFacts
    <3> HIDE DEF f
    <3> QED BY <2>3, <3>1 DEF DeliverEffect
  <2>4. CASE Stutters
    BY <2>4 DEF Stutters
  <2> QED BY <2>1, <2>2, <2>3, <2>4, StepEffect
<1> QED BY <1>4, <1>5, <1>6, <1>7

\* Nothing older than a column a pane was dealt is still to come that it does
\* not know of, and its cursors stand at columns it has forwarded: the
\* invariant behind isDuplicateFinalizedDepth, through reconnects to sessions
\* another pane kept alive.
THEOREM ColumnsKnown == Spec => []ColInv
<1>1. Init => ColInv
  <2> SUFFICES ASSUME Init PROVE ColInv
    OBVIOUS
  <2>1. \A c \in Conns : In(tx[c]) = {}
    <3>1. DOMAIN <<>> = {}
      OBVIOUS
    <3> QED BY <3>1 DEF Init, HubInit, EmptyTx, In
  <2>2. ASSUME NEW p \in Panes PROVE PaneCols(p)
    <3>1. shown[p] = {} /\ swallowed[p] = {} /\ view[p].socket = None
          /\ view[p].cursor = NewConnection.cursor
      BY DEF Init, NewConnection
    <3>2. Dealt(p) = {}
      BY <3>1 DEF Dealt
    <3>3. \A e \in Epochs : view[p].cursor[e].of = None
      BY <3>1 DEF NewConnection
    <3> QED BY <3>1, <3>2, <3>3 DEF PaneCols, CursorShown, NoneSkipped
  <2> QED BY <2>1, <2>2 DEF ColInv
<1>2. /\ Inv /\ Inv' /\ (Typed /\ Sockets) /\ ColInv /\ [Next]_vars => ColInv'
  BY ColInvStep
<1> QED BY <1>1, <1>2, Invariant, StreamTyped, PTL DEF Spec

\* A column that a cursor of its own session swallows was forwarded before,
\* or swallowed by another session's cursor, or evicted: across reconnects
\* to sessions that another pane kept alive, and across re-anchors, nothing
\* older than a dealt column is still to come that the pane does not know of.
THEOREM CursorIsExact == Spec => []OwnCursorIsExact
<1>1. Init => OwnCursorIsExact
  BY DEF Init, OwnCursorIsExact
<1>2. /\ Inv /\ Inv' /\ (Typed /\ Sockets) /\ ColInv /\ OwnCursorIsExact /\ [Next]_vars
      => OwnCursorIsExact'
  BY OwnCursorStep
<1> QED BY <1>1, <1>2, Invariant, StreamTyped, ColumnsKnown, PTL DEF Spec

----------------------------------------------------------------------------
(* SeamIsExact.  The fold that lines up the columns of the frames that     *)
(* wait, as the function it is built from                                  *)

Joining(h, frames) ==
  h = [x \in SUBSET DOMAIN frames |->
         IF x = {} THEN <<>> ELSE h[x \ {Max(x)}] \o Seqs(frames[Max(x)])]

LEMMA FlatIsJoining ==
  ASSUME NEW frames
  PROVE Flat(frames) = (CHOOSE h : Joining(h, frames))[DOMAIN frames]
BY DEF Flat, FoldLeft, MapThenFoldSet, Joining

LEMMA JoiningExists ==
  ASSUME NEW X PROVE \A frames \in Seq(X) : \E h : Joining(h, frames)
<1> DEFINE S == {n \in Nat : \A frames \in Seq(X) :
                   Len(frames) = n => \E h : Joining(h, frames)}
<1>1. 0 \in S
  <2> SUFFICES ASSUME NEW frames \in Seq(X), Len(frames) = 0
               PROVE \E h : Joining(h, frames)
    OBVIOUS
  <2> DEFINE h == [x \in SUBSET DOMAIN frames |-> <<>>]
  <2>1. DOMAIN frames = {}
    OBVIOUS
  <2>2. \A x \in SUBSET DOMAIN frames : x = {}
    BY <2>1
  <2>3. Joining(h, frames)
    BY <2>2 DEF Joining
  <2> QED BY <2>3
<1>2. ASSUME NEW n \in Nat, n \in S PROVE n + 1 \in S
  <2> SUFFICES ASSUME NEW frames \in Seq(X), Len(frames) = n + 1
               PROVE \E h : Joining(h, frames)
    OBVIOUS
  <2> DEFINE front == SubSeq(frames, 1, n)
  <2>1. front \in Seq(X) /\ Len(front) = n /\ \A j \in 1 .. n : front[j] = frames[j]
    OBVIOUS
  <2>2. PICK g : Joining(g, front)
    BY <1>2, <2>1
  <2>3. DOMAIN front = 1 .. n /\ DOMAIN frames = 1 .. n + 1
    BY <2>1
  <2> HIDE DEF front
  <2> DEFINE h == [x \in SUBSET DOMAIN frames |->
                     IF n + 1 \in x THEN g[x \ {n + 1}] \o Seqs(frames[n + 1])
                                    ELSE g[x]]
  <2>4. ASSUME NEW x \in SUBSET DOMAIN frames
        PROVE h[x] = IF x = {} THEN <<>> ELSE h[x \ {Max(x)}] \o Seqs(frames[Max(x)])
    <3>1. CASE n + 1 \in x
      <4>1. Max(x) = n + 1
        BY <2>3, <3>1, MaxOf
      <4>2. h[x \ {n + 1}] = g[x \ {n + 1}]
        OBVIOUS
      <4> QED BY <3>1, <4>1, <4>2
    <3>2. CASE n + 1 \notin x
      <4>1. x \in SUBSET DOMAIN front
        BY <2>3, <3>2
      <4>2. g[x] = IF x = {} THEN <<>> ELSE g[x \ {Max(x)}] \o Seqs(front[Max(x)])
        BY <2>2, <4>1 DEF Joining
      <4>3. CASE x # {}
        <5>1. Max(x) \in x
          <6>1. \E m \in x : \A y \in x : m >= y
            BY <2>3, <4>1, <4>3, LargestOf
          <6> QED BY <6>1 DEF Max
        <5>2. front[Max(x)] = frames[Max(x)]
          BY <2>1, <2>3, <4>1, <5>1
        <5>3. h[x \ {Max(x)}] = g[x \ {Max(x)}] /\ h[x] = g[x]
          BY <3>2
        <5> QED BY <4>2, <4>3, <5>2, <5>3
      <4>4. CASE x = {}
        BY <3>2, <4>2, <4>4
      <4> QED BY <4>3, <4>4
    <3> QED BY <3>1, <3>2
  <2>5. Joining(h, frames)
    BY <2>4 DEF Joining
  <2> QED BY <2>5
<1>3. Nat \subseteq S
  <2> HIDE DEF S
  <2> QED BY <1>1, <1>2, NatSetInduction
<1> QED BY <1>3

LEMMA JoiningSteps ==
  ASSUME NEW X, NEW frames \in Seq(X), NEW h, Joining(h, frames)
  PROVE /\ h[1 .. 0] = <<>>
        /\ \A k \in 1 .. Len(frames) : h[1 .. k] = h[1 .. (k - 1)] \o Seqs(frames[k])
<1>1. DOMAIN frames = 1 .. Len(frames) /\ Len(frames) \in Nat
  OBVIOUS
<1>2. h[1 .. 0] = <<>>
  <2>1. 1 .. 0 = {} /\ {} \in SUBSET DOMAIN frames
    OBVIOUS
  <2>2. h[{}] = <<>>
    BY <2>1 DEF Joining
  <2> QED BY <2>1, <2>2
<1>3. ASSUME NEW k \in 1 .. Len(frames)
      PROVE h[1 .. k] = h[1 .. (k - 1)] \o Seqs(frames[k])
  <2>1. /\ (1 .. k) \in SUBSET DOMAIN frames /\ 1 .. k # {} /\ 1 .. k \subseteq Nat
        /\ k \in 1 .. k /\ \A x \in 1 .. k : k >= x
    <3>1. k \in 1 .. k /\ \A x \in 1 .. k : x \in Nat /\ k >= x /\ x \in DOMAIN frames
      BY <1>1
    <3> QED BY <3>1
  <2>2. Max(1 .. k) = k
    BY <2>1, MaxOf
  <2>3. (1 .. k) \ {k} = 1 .. (k - 1)
    BY <1>1
  <2>4. h[1 .. k] = h[(1 .. k) \ {Max(1 .. k)}] \o Seqs(frames[Max(1 .. k)])
    BY <2>1 DEF Joining
  <2> QED BY <2>2, <2>3, <2>4
<1> QED BY <1>2, <1>3

LEMMA JoinFacts ==
  ASSUME NEW a \in Seq(Nat), NEW b \in Seq(Nat)
  PROVE /\ a \o b \in Seq(Nat) /\ Len(a \o b) = Len(a) + Len(b)
        /\ \A j \in 1 .. Len(a) + Len(b) :
             /\ j <= Len(a) => (a \o b)[j] = a[j]
             /\ j > Len(a) => (a \o b)[j] = b[j - Len(a)]
OBVIOUS

\* Frames whose columns run on from one to the next: g is the seq that each
\* has to begin with
LEMMA FlatRuns ==
  ASSUME NEW frames \in Seq(WireFrame), NEW g \in [1 .. Len(frames) + 1 -> Nat],
         \A i \in 1 .. Len(frames) :
           /\ g[i + 1] = g[i] + Len(frames[i].columns)
           /\ frames[i].columns # <<>> => frames[i].columns[1].seq = g[i]
  PROVE LET seqs == Flat(frames)
        IN /\ seqs \in Seq(Nat) /\ Len(seqs) = g[Len(frames) + 1] - g[1]
           /\ \A j \in 1 .. Len(seqs) : seqs[j] = g[1] + j - 1
<1> DEFINE L == Len(frames)
           h == CHOOSE f : Joining(f, frames)
           Fits(x, k) == /\ x \in Seq(Nat) /\ Len(x) = g[k + 1] - g[1]
                         /\ \A j \in 1 .. Len(x) : x[j] = g[1] + j - 1
           S == {k \in Nat : k <= L => Fits(h[1 .. k], k)}
<1>1. L \in Nat /\ DOMAIN frames = 1 .. L
  OBVIOUS
<1>2. Joining(h, frames)
  BY JoiningExists
<1>3. /\ h[1 .. 0] = <<>>
      /\ \A k \in 1 .. L : h[1 .. k] = h[1 .. (k - 1)] \o Seqs(frames[k])
  <2> HIDE DEF h
  <2> QED BY <1>2, JoiningSteps
<1>4. Flat(frames) = h[1 .. L]
  BY <1>1, FlatIsJoining
<1> HIDE DEF h
<1>5. 0 \in S
  <2>1. g[1] \in Nat /\ g[0 + 1] = g[1]
    BY <1>1
  <2>2. Fits(<<>>, 0)
    BY <2>1
  <2> HIDE DEF Fits
  <2> QED BY <1>3, <2>2
<1>6. ASSUME NEW k \in Nat, k \in S PROVE k + 1 \in S
  <2> SUFFICES ASSUME k + 1 <= L PROVE Fits(h[1 .. (k + 1)], k + 1)
    OBVIOUS
  <2> DEFINE f == frames[k + 1]
             old == h[1 .. k]
             add == Seqs(f)
             m == Len(f.columns)
  <2>1. k + 1 \in 1 .. L /\ k <= L /\ (k + 1) - 1 = k
    BY <1>1
  <2>2. f \in WireFrame
    BY <2>1
  <2>3. Fits(old, k)
    BY <1>6, <2>1
  <2>4. h[1 .. (k + 1)] = old \o add
    BY <1>3, <2>1
  <2>5. /\ g[k + 1] \in Nat /\ g[(k + 1) + 1] = g[k + 1] + m /\ g[1] \in Nat
        /\ f.columns # <<>> => f.columns[1].seq = g[k + 1]
    BY <1>1, <2>1
  <2> HIDE DEF f
  <2>6. /\ add \in Seq(Nat) /\ Len(add) = m /\ m \in Nat
        /\ \A j \in 1 .. m : add[j] = g[k + 1] + j - 1
    <3>1. /\ DOMAIN f.columns = 1 .. m /\ m \in Nat /\ f.columns \in Seq(Columns)
          /\ \A j \in 1 .. m : /\ f.columns[j].seq \in Nat
                               /\ f.columns[j].seq = f.columns[1].seq + j - 1
      BY <2>2, FrameFacts
    <3>2. add = [j \in 1 .. m |-> f.columns[j].seq]
      BY <3>1 DEF Seqs
    <3>3. add \in Seq(Nat) /\ Len(add) = m /\ \A j \in 1 .. m : add[j] = f.columns[j].seq
      <4> HIDE DEF add, m
      <4> QED BY <3>1, <3>2
    <3>4. \A j \in 1 .. m : f.columns # <<>>
      BY <3>1
    <3> HIDE DEF add, m
    <3> QED BY <2>5, <3>1, <3>3, <3>4
  <2>7. old \in Seq(Nat) /\ Len(old) = g[k + 1] - g[1] /\ Len(old) \in Nat
        /\ \A j \in 1 .. Len(old) : old[j] = g[1] + j - 1
    BY <2>3
  <2> HIDE DEF add, old, m
  <2>8. /\ old \o add \in Seq(Nat) /\ Len(old \o add) = Len(old) + m
        /\ \A j \in 1 .. Len(old) + m :
             /\ j <= Len(old) => (old \o add)[j] = old[j]
             /\ j > Len(old) => (old \o add)[j] = add[j - Len(old)]
    BY <2>6, <2>7, JoinFacts
  <2> DEFINE new == old \o add
  <2> HIDE DEF new
  <2>9. \A j \in 1 .. Len(new) : new[j] = g[1] + j - 1
    <3> SUFFICES ASSUME NEW j \in 1 .. Len(old) + m PROVE new[j] = g[1] + j - 1
      BY <2>8 DEF new
    <3>1. CASE j <= Len(old)
      BY <2>6, <2>7, <2>8, <3>1 DEF new
    <3>2. CASE j > Len(old)
      <4>1. j - Len(old) \in 1 .. m
        BY <2>6, <2>7, <3>2
      <4>2. new[j] = add[j - Len(old)]
        BY <2>6, <2>7, <2>8, <3>2 DEF new
      <4> DEFINE i == j - Len(old)
      <4>3. i \in 1 .. m /\ j = i + Len(old)
        BY <2>7, <4>1
      <4> HIDE DEF i
      <4>4. new[j] = g[k + 1] + i - 1
        BY <2>6, <4>2, <4>3 DEF i
      <4>5. g[k + 1] \in Nat /\ g[1] \in Nat /\ Len(old) \in Nat /\ i \in Nat
            /\ Len(old) = g[k + 1] - g[1]
        BY <2>5, <2>7, <4>3
      <4> DEFINE x == g[k + 1]
                 y == g[1]
                 l == Len(old)
                 z == new[j]
      <4>6. /\ x \in Nat /\ y \in Nat /\ l \in Nat /\ i \in Nat
            /\ l = x - y /\ j = i + l /\ z = x + i - 1
        BY <4>3, <4>4, <4>5
      <4> HIDE DEF x, y, l, z
      <4>7. z = y + j - 1
        BY <4>6
      <4> QED BY <4>7 DEF y, z
    <3> QED BY <2>6, <2>7, <3>1, <3>2
  <2>10. new \in Seq(Nat) /\ Len(new) = g[(k + 1) + 1] - g[1]
    BY <2>5, <2>6, <2>7, <2>8 DEF new
  <2>11. Fits(new, k + 1)
    BY <2>9, <2>10
  <2> HIDE DEF Fits
  <2> QED BY <2>4, <2>11 DEF new
<1>7. Nat \subseteq S
  <2> HIDE DEF S
  <2> QED BY <1>5, <1>6, NatSetInduction
<1>8. Fits(h[1 .. L], L)
  BY <1>1, <1>7
<1> QED BY <1>4, <1>8

\* A frame behind which no hello waits.  The columns of such frames are of
\* session s and run on to its newest, n: g is the seq that each frame's
\* have to begin with
CurrentFrom(q, i) == \A k \in i + 1 .. Len(q) : q[k].kind # "hello"
Runs(q, s, n, g) ==
  /\ g \in [1 .. Len(q) + 1 -> Nat] /\ g[Len(q) + 1] = n + 1
  /\ \A i \in DOMAIN q : CurrentFrom(q, i) =>
       /\ g[i + 1] = g[i] + Len(q[i].columns)
       /\ q[i].columns # <<>> => q[i].session = s /\ q[i].columns[1].seq = g[i]
Drained(q) == \A i \in DOMAIN q : CurrentFrom(q, i) => q[i].columns = <<>>

LEMMA RunsAppend ==
  ASSUME NEW q \in Seq(WireFrame), NEW f \in WireFrame, f.kind # "hello", NEW s,
         NEW n \in Nat, NEW g, Runs(q, s, n, g),
         f.columns # <<>> => f.session = s /\ f.columns[1].seq = n + 1
  PROVE /\ \E h : Runs(Append(q, f), s, n + Len(f.columns), h)
        /\ Drained(Append(q, f)) => Drained(q) /\ f.columns = <<>>
<1> DEFINE L == Len(q)
           r == Append(q, f)
           m == Len(f.columns)
           h == [i \in 1 .. L + 2 |-> IF i = L + 2 THEN n + 1 + m ELSE g[i]]
<1>1. /\ L \in Nat /\ DOMAIN q = 1 .. L /\ DOMAIN r = 1 .. L + 1 /\ Len(r) = L + 1
      /\ \A i \in 1 .. L : r[i] = q[i]
      /\ r[L + 1] = f
  OBVIOUS
<1>2. m \in Nat
  BY FrameFacts
<1>3. /\ g \in [1 .. L + 1 -> Nat] /\ g[L + 1] = n + 1
      /\ \A i \in 1 .. L : CurrentFrom(q, i) =>
           /\ g[i + 1] = g[i] + Len(q[i].columns)
           /\ q[i].columns # <<>> => q[i].session = s /\ q[i].columns[1].seq = g[i]
  BY <1>1 DEF Runs
<1> HIDE DEF r, L, m
<1>4. /\ h \in [1 .. L + 2 -> Nat] /\ h[L + 2] = n + 1 + m
      /\ \A i \in 1 .. L + 1 : h[i] = g[i]
  BY <1>1, <1>2, <1>3
<1> HIDE DEF h
<1>5. \A i \in 1 .. L : CurrentFrom(r, i) <=> CurrentFrom(q, i)
  <2> TAKE i \in 1 .. L
  <2>1. ASSUME CurrentFrom(q, i), NEW k \in i + 1 .. L + 1 PROVE r[k].kind # "hello"
    <3>1. CASE k = L + 1
      BY <1>1, <3>1
    <3>2. CASE k # L + 1
      <4>1. k \in i + 1 .. L /\ k \in 1 .. L
        BY <1>1, <3>2
      <4> QED BY <1>1, <2>1, <4>1 DEF CurrentFrom, L
    <3> QED BY <3>1, <3>2
  <2>2. ASSUME CurrentFrom(r, i), NEW k \in i + 1 .. L PROVE q[k].kind # "hello"
    <3>1. k \in i + 1 .. L + 1 /\ k \in 1 .. L
      BY <1>1
    <3> QED BY <1>1, <2>2, <3>1 DEF CurrentFrom
  <2> QED BY <1>1, <2>1, <2>2 DEF CurrentFrom, L
<1>6. CurrentFrom(r, L + 1)
  BY <1>1 DEF CurrentFrom
<1>7. ASSUME NEW i \in 1 .. L + 1, CurrentFrom(r, i)
      PROVE /\ h[i + 1] = h[i] + Len(r[i].columns)
            /\ r[i].columns # <<>> => r[i].session = s /\ r[i].columns[1].seq = h[i]
  <2>1. CASE i = L + 1
    <3>1. h[i + 1] = n + 1 + m /\ h[i] = n + 1 /\ r[i] = f /\ i + 1 = L + 2
      BY <1>1, <1>3, <1>4, <2>1
    <3> QED BY <3>1, <1>2 DEF m
  <2>2. CASE i # L + 1
    <3>1. i \in 1 .. L /\ i + 1 \in 1 .. L + 1 /\ r[i] = q[i] /\ CurrentFrom(q, i)
      BY <1>1, <1>5, <1>7, <2>2
    <3>2. h[i] = g[i] /\ h[i + 1] = g[i + 1]
      BY <1>1, <1>4, <3>1
    <3> QED BY <1>3, <3>1, <3>2
  <2> QED BY <2>1, <2>2
<1>8. Runs(r, s, n + m, h)
  <2>1. Len(r) + 1 = L + 2 /\ n + 1 + m = (n + m) + 1
    BY <1>1, <1>2
  <2> QED BY <1>1, <1>4, <1>7, <2>1 DEF Runs
<1>9. Drained(r) => Drained(q) /\ f.columns = <<>>
  <2> SUFFICES ASSUME Drained(r) PROVE Drained(q) /\ f.columns = <<>>
    OBVIOUS
  <2>1. f.columns = <<>>
    <3>1. L + 1 \in DOMAIN r
      BY <1>1
    <3> QED BY <1>1, <1>6, <3>1 DEF Drained
  <2>2. ASSUME NEW i \in DOMAIN q, CurrentFrom(q, i) PROVE q[i].columns = <<>>
    <3>1. i \in 1 .. L /\ i \in DOMAIN r
      BY <1>1
    <3> QED BY <1>1, <1>5, <2>2, <3>1 DEF Drained
  <2> QED BY <2>1, <2>2 DEF Drained
<1> QED BY <1>8, <1>9 DEF r, m

LEMMA RunsHello ==
  ASSUME NEW q \in Seq(WireFrame), NEW f \in WireFrame, f.kind = "hello", NEW s,
         NEW n \in Nat
  PROVE \E h : Runs(Append(q, f), s, n, h)
<1> DEFINE L == Len(q)
           r == Append(q, f)
           h == [i \in 1 .. L + 2 |-> n + 1]
<1>1. /\ L \in Nat /\ DOMAIN r = 1 .. L + 1 /\ Len(r) = L + 1 /\ r[L + 1] = f
  OBVIOUS
<1>2. f.columns = <<>>
  BY FrameFacts
<1>3. Len(f.columns) = 0
  BY <1>2
<1> HIDE DEF L, r
<1>4. h \in [1 .. L + 2 -> Nat] /\ \A i \in 1 .. L + 2 : h[i] = n + 1
  OBVIOUS
<1> HIDE DEF h
<1>5. ASSUME NEW i \in 1 .. L + 1, CurrentFrom(r, i) PROVE i = L + 1
  <2> SUFFICES ASSUME i # L + 1 PROVE FALSE
    OBVIOUS
  <2>1. L + 1 \in i + 1 .. Len(r)
    BY <1>1
  <2> QED BY <1>1, <1>5, <2>1 DEF CurrentFrom
<1>6. ASSUME NEW i \in 1 .. L + 1, CurrentFrom(r, i)
      PROVE /\ h[i + 1] = h[i] + Len(r[i].columns)
            /\ r[i].columns # <<>> => r[i].session = s /\ r[i].columns[1].seq = h[i]
  <2>1. i = L + 1 /\ r[i] = f /\ i \in 1 .. L + 2 /\ i + 1 \in 1 .. L + 2
    BY <1>1, <1>5, <1>6
  <2>2. h[i] = n + 1 /\ h[i + 1] = n + 1
    BY <1>4, <2>1
  <2>3. r[i].columns = <<>> /\ Len(r[i].columns) = 0
    BY <1>2, <1>3, <2>1
  <2>4. h[i + 1] = h[i] + 0
    BY <2>2
  <2> QED BY <2>3, <2>4
<1>7. Runs(r, s, n, h)
  <2>1. Len(r) + 1 = L + 2 /\ L + 2 \in 1 .. L + 2
    BY <1>1
  <2> QED BY <1>1, <1>4, <1>6, <2>1 DEF Runs
<1> QED BY <1>7 DEF r

LEMMA RunsTail ==
  ASSUME NEW q \in Seq(WireFrame), q # <<>>, NEW s, NEW n \in Nat, NEW g, Runs(q, s, n, g)
  PROVE /\ \E h : Runs(Tail(q), s, n, h)
        /\ Drained(Tail(q)) => Drained(q) \/ <<s, n>> \in Cols(q[1])
<1> DEFINE L == Len(q)
           r == Tail(q)
           h == [i \in 1 .. L |-> g[i + 1]]
<1>1. /\ L \in Nat /\ L >= 1 /\ DOMAIN q = 1 .. L /\ DOMAIN r = 1 .. L - 1
      /\ Len(r) = L - 1 /\ q[1] \in WireFrame
      /\ \A i \in 1 .. L - 1 : r[i] = q[i + 1] /\ i + 1 \in 1 .. L
  OBVIOUS
<1>2. /\ g \in [1 .. L + 1 -> Nat] /\ g[L + 1] = n + 1
      /\ \A i \in 1 .. L : CurrentFrom(q, i) =>
           /\ g[i + 1] = g[i] + Len(q[i].columns)
           /\ q[i].columns # <<>> => q[i].session = s /\ q[i].columns[1].seq = g[i]
  BY <1>1 DEF Runs
<1> HIDE DEF r
<1>3. \A i \in 1 .. L - 1 : CurrentFrom(r, i) <=> CurrentFrom(q, i + 1)
  <2> TAKE i \in 1 .. L - 1
  <2>1. ASSUME CurrentFrom(r, i), NEW k \in (i + 1) + 1 .. L PROVE q[k].kind # "hello"
    <3>1. k - 1 \in i + 1 .. L - 1 /\ k - 1 \in 1 .. L - 1 /\ (k - 1) + 1 = k
      BY <1>1
    <3>2. r[k - 1] = q[k]
      BY <1>1, <3>1
    <3> QED BY <1>1, <2>1, <3>1, <3>2 DEF CurrentFrom
  <2>2. ASSUME CurrentFrom(q, i + 1), NEW k \in i + 1 .. L - 1 PROVE r[k].kind # "hello"
    <3>1. k + 1 \in (i + 1) + 1 .. L /\ k \in 1 .. L - 1
      BY <1>1
    <3> QED BY <1>1, <2>2, <3>1 DEF CurrentFrom
  <2> QED BY <1>1, <2>1, <2>2 DEF CurrentFrom
<1> HIDE DEF L
<1>4. h \in [1 .. L -> Nat] /\ \A i \in 1 .. L : h[i] = g[i + 1]
  <2>1. \A i \in 1 .. L : i + 1 \in 1 .. L + 1
    BY <1>1
  <2> QED BY <1>2, <2>1
<1> HIDE DEF h
<1>5. Runs(r, s, n, h)
  <2>1. Len(r) + 1 = L /\ L \in 1 .. L
    BY <1>1
  <2>2. ASSUME NEW i \in 1 .. L - 1, CurrentFrom(r, i)
        PROVE /\ h[i + 1] = h[i] + Len(r[i].columns)
              /\ r[i].columns # <<>> => r[i].session = s /\ r[i].columns[1].seq = h[i]
    <3>1. i + 1 \in 1 .. L /\ i \in 1 .. L /\ CurrentFrom(q, i + 1) /\ r[i] = q[i + 1]
      BY <1>1, <1>3, <2>2
    <3>2. h[i] = g[i + 1] /\ h[i + 1] = g[(i + 1) + 1]
      BY <1>4, <3>1
    <3> QED BY <1>2, <3>1, <3>2
  <2>3. h[L] = n + 1
    BY <1>2, <1>4, <2>1
  <2> QED BY <1>1, <1>4, <2>1, <2>2, <2>3 DEF Runs
<1>6. ASSUME Drained(r), ~Drained(q) PROVE <<s, n>> \in Cols(q[1])
  <2>1. PICK i \in 1 .. L : CurrentFrom(q, i) /\ q[i].columns # <<>>
    BY <1>1, <1>6 DEF Drained
  <2>2. i = 1
    <3> SUFFICES ASSUME i # 1 PROVE FALSE
      OBVIOUS
    <3> DEFINE j == i - 1
    <3>1. j \in 1 .. L - 1 /\ j + 1 = i
      BY <1>1
    <3> HIDE DEF j
    <3>2. CurrentFrom(r, j) /\ r[j] = q[i] /\ j \in DOMAIN r
      BY <1>1, <1>3, <2>1, <3>1
    <3> QED BY <1>6, <2>1, <3>2 DEF Drained
  <2>3. CurrentFrom(q, 1) /\ q[1].columns # <<>>
    BY <2>1, <2>2
  <2> DEFINE m == Len(q[1].columns)
             cols == q[1].columns
  <2>4. /\ g[2] = g[1] + m /\ q[1].session = s /\ cols[1].seq = g[1] /\ g[1] \in Nat
    BY <1>1, <1>2, <2>3
  <2>5. \A k \in {x \in Nat : x + 1 <= L} : g[k + 2] = g[2]
    <3> DEFINE S == {x \in Nat : x + 1 <= L => g[x + 2] = g[2]}
    <3>1. 0 \in S
      OBVIOUS
    <3>2. ASSUME NEW k \in Nat, k \in S PROVE k + 1 \in S
      <4> SUFFICES ASSUME (k + 1) + 1 <= L PROVE g[(k + 1) + 2] = g[2]
        OBVIOUS
      <4> DEFINE j == k + 2
                 h1 == k + 1
      <4>1. j \in 1 .. L /\ h1 \in 1 .. L - 1 /\ h1 + 1 = j /\ j + 1 = (k + 1) + 2
        BY <1>1
      <4>2. g[j] = g[2]
        BY <1>1, <3>2
      <4> HIDE DEF j, h1
      <4>3. CurrentFrom(q, j) /\ CurrentFrom(r, h1) /\ r[h1] = q[j]
        <5>1. CurrentFrom(q, j)
          <6>1. 2 <= j
            BY <4>1 DEF h1
          <6> QED BY <1>1, <2>3, <4>1, <6>1 DEF CurrentFrom, L
        <5> QED BY <1>1, <1>3, <4>1, <5>1
      <4>4. q[j].columns = <<>>
        BY <1>1, <1>6, <4>1, <4>3 DEF Drained
      <4>5. Len(q[j].columns) = 0
        BY <4>4
      <4>6. g[j + 1] = g[j]
        <5>1. g[j] \in Nat
          <6>1. j \in 1 .. L + 1
            BY <1>1, <4>1
          <6> QED BY <1>2, <6>1
        <5> QED BY <1>2, <4>1, <4>3, <4>5, <5>1
      <4> QED BY <4>1, <4>2, <4>6
    <3>3. Nat \subseteq S
      <4> HIDE DEF S
      <4> QED BY <3>1, <3>2, NatSetInduction
    <3> QED BY <3>3
  <2>6. g[2] = n + 1
    <3> DEFINE k == L - 1
    <3>1. k \in Nat /\ k + 1 <= L /\ k + 2 = L + 1
      BY <1>1
    <3> HIDE DEF k
    <3>2. g[k + 2] = g[2]
      BY <2>5, <3>1
    <3> QED BY <1>2, <3>1, <3>2
  <2>7. m \in Nat /\ DOMAIN cols = 1 .. m /\ m # 0
        /\ \A j \in 1 .. m : cols[j].seq = cols[1].seq + j - 1
    <3>1. m \in Nat /\ DOMAIN cols = 1 .. m /\ cols \in Seq(Columns)
      BY <1>1, FrameFacts
    <3>2. m # 0
      <4> HIDE DEF cols
      <4> QED BY <2>3, <3>1 DEF cols
    <3> QED BY <1>1, <3>1, <3>2, FrameFacts
  <2>8. m \in DOMAIN cols /\ cols[m].seq = n
    <3> HIDE DEF m, cols
    <3>1. m \in 1 .. m
      BY <2>7
    <3>2. cols[m].seq = cols[1].seq + m - 1
      BY <2>7, <3>1
    <3> QED BY <2>4, <2>6, <2>7, <3>1, <3>2
  <2> QED BY <2>4, <2>8 DEF Cols
<1> QED BY <1>5, <1>6 DEF r

\* What a queue that never had to evict is after offers: its columns still run
\* on, now to n2
RunsOn(box, after, s, n, n2) ==
  after.evicted = {} =>
    /\ box.evicted = {}
    /\ \A g : Runs(box.queue, s, n, g) =>
         /\ \E h : Runs(after.queue, s, n2, h)
         /\ Drained(after.queue) => Drained(box.queue) /\ n2 = n

LEMMA OfferRuns ==
  ASSUME NEW box \in Box, NEW f \in WireFrame, f.kind # "hello", NEW s, NEW n \in Nat,
         NEW n2, n2 = n + Len(f.columns),
         f.columns # <<>> => f.session = s /\ f.columns[1].seq = n + 1
  PROVE RunsOn(box, Offer(box, f), s, n, n2)
<1> DEFINE after == Offer(box, f)
           q == box.queue
<1> SUFFICES ASSUME after.evicted = {}
             PROVE /\ box.evicted = {}
                   /\ \A g : Runs(q, s, n, g) =>
                        /\ \E h : Runs(after.queue, s, n2, h)
                        /\ Drained(after.queue) => Drained(q) /\ n2 = n
  BY DEF RunsOn
<1>1. after = WithFrame(box, f)
  <2> SUFFICES ASSUME after # WithFrame(box, f) PROVE FALSE
    OBVIOUS
  <2>1. PICK i \in DOMAIN box.queue :
          after = [queue |-> Append(RemoveAt(box.queue, i), f),
                   evicted |-> box.evicted \cup {box.queue[i]}]
    BY OfferCases DEF WithFrame
  <2>2. box.queue[i] \in after.evicted
    BY <2>1
  <2> QED BY <2>2
<1>2. after.queue = Append(q, f) /\ after.evicted = box.evicted /\ q \in Seq(WireFrame)
  BY <1>1 DEF Box, WithFrame
<1> HIDE DEF after, q
<1>3. ASSUME NEW g, Runs(q, s, n, g)
      PROVE /\ \E h : Runs(after.queue, s, n2, h)
            /\ Drained(after.queue) => Drained(q) /\ n2 = n
  <2>1. /\ \E h : Runs(Append(q, f), s, n + Len(f.columns), h)
        /\ Drained(Append(q, f)) => Drained(q) /\ f.columns = <<>>
    BY <1>2, <1>3, RunsAppend
  <2>2. f.columns = <<>> => Len(f.columns) = 0
    OBVIOUS
  <2>3. f.columns = <<>> => n2 = n
    BY <2>2
  <2> QED BY <1>2, <2>1, <2>3
<1> QED BY <1>2, <1>3

\* A snapshot starts afresh
LEMMA JoinRuns ==
  ASSUME NEW s \in 1 .. MaxStarts, NEW cols \in Seq(0 .. MaxEpoch),
         Len(cols) <= MaxColumns, NEW epoch \in 0 .. MaxEpoch, NEW box \in Box
  PROVE LET after == OfferAll(box, Snapshot(s, cols, epoch))
        IN /\ \E h : Runs(after.queue, s, Len(cols), h)
           /\ Drained(after.queue) => Len(cols) = 0
<1> DEFINE after == OfferAll(box, Snapshot(s, cols, epoch))
           f == HelloFrame(s, cols, epoch)
           g == RecentFrame(s, cols)
           hello == WithFrame(box, f)
           last == WithFrame(hello, g)
           r == Recent(cols)
           L == Len(cols)
           m == Len(r)
           k == L - m
<1>1. f \in WireFrame /\ g \in WireFrame /\ hello \in Box
  BY SnapshotFacts
<1>2. (cols = <<>> => after = hello) /\ (cols # <<>> => after = last)
  BY SnapshotFacts
<1>3. f.kind = "hello" /\ g.kind = "columns" /\ g.columns = r /\ g.session = s
  BY DEF HelloFrame, RecentFrame, Frame
<1>4. /\ m \in Nat /\ m <= L /\ L \in Nat
      /\ \A i \in 1 .. m : r[i].seq = L - m + i
      /\ (r = <<>> <=> cols = <<>>)
      /\ r \in Seq(Columns)
  BY RecentFacts
<1> HIDE DEF f, g, r, after
<1>5. hello.queue = Append(box.queue, f) /\ box.queue \in Seq(WireFrame)
      /\ hello.queue \in Seq(WireFrame)
  BY <1>1 DEF WithFrame, Box
<1>6. last.queue = Append(hello.queue, g)
  BY <1>1 DEF WithFrame, Box
<1> HIDE DEF hello, last
<1>7. CASE cols = <<>>
  <2>1. L = 0
    BY <1>7
  <2>2. \E h : Runs(hello.queue, s, L, h)
    <3>1. L \in Nat
      BY <1>4
    <3> HIDE DEF L
    <3>2. \E h : Runs(Append(box.queue, f), s, L, h)
      BY <1>1, <1>3, <1>5, <3>1, RunsHello
    <3> QED BY <1>5, <3>2
  <2> QED BY <1>2, <1>7, <2>1, <2>2 DEF after
<1>8. CASE cols # <<>>
  <2>1. k \in Nat
    BY <1>4
  <2>2. PICK h : Runs(hello.queue, s, k, h)
    BY <1>1, <1>3, <1>5, <2>1, RunsHello, ZenonT(30)
  <2>3. m >= 1 /\ r[1].seq = k + 1
    <3>1. m # 0
      BY <1>4, <1>8 DEF m
    <3> HIDE DEF m
    <3>2. m >= 1 /\ 1 \in 1 .. m
      BY <1>4, <3>1
    <3> QED BY <1>4, <3>2
  <2>4. k + Len(g.columns) = L
    BY <1>3, <1>4
  <2>5. g.columns # <<>> /\ g.session = s /\ g.columns[1].seq = k + 1 /\ g.kind # "hello"
    BY <1>3, <1>4, <1>8, <2>3
  <2> HIDE DEF k, L, m
  <2>6. /\ \E i : Runs(last.queue, s, L, i)
        /\ Drained(last.queue) => g.columns = <<>>
    <3> DEFINE q == hello.queue
    <3>1. q \in Seq(WireFrame) /\ Runs(q, s, k, h)
      BY <1>5, <2>2
    <3> HIDE DEF q
    <3>2. /\ \E i : Runs(Append(q, g), s, k + Len(g.columns), i)
          /\ Drained(Append(q, g)) => Drained(q) /\ g.columns = <<>>
      BY <1>1, <2>1, <2>5, <3>1, RunsAppend
    <3> QED BY <1>6, <2>4, <3>2 DEF q
  <2> QED BY <1>2, <1>8, <2>5, <2>6 DEF after, L
<1> QED BY <1>7, <1>8

\* What an attached connection is sent runs on with what its session makes
LEMMA OffersRun ==
  ASSUME Inv, Typed, HubEffect, NEW d \in Conns, handler[d].session # None,
         Idle(d) \/ Fed(d)
  PROVE LET s == handler[d].session
        IN /\ handler'[d].session = s
           /\ RunsOn(tx[d], tx'[d], s, Len(sessions[s].columns), Len(sessions'[s].columns))
<1> DEFINE s == handler[d].session
           n == Len(sessions[s].columns)
           n2 == Len(sessions'[s].columns)
           b == tx[d]
           cf == ColumnFrame(s)
           ef == EpochFrame(s)
           sf == StatusFrame(s)
<1>1. b \in Box /\ s \in Started
  BY DEF Typed, Boxes, Inv, HubInv, Handlers
<1>2. n \in Nat /\ sessions[s].columns \in Seq(0 .. MaxEpoch)
      /\ sessions[s].epoch \in 0 .. MaxEpoch
  BY <1>1, FlowSessionFacts DEF Typed
<1>3. handler'[d].session = s
  BY DEF Idle, Fed
<1>4. /\ ef.columns = <<>> /\ sf.columns = <<>> /\ ef.kind # "hello" /\ sf.kind # "hello"
      /\ Len(ef.columns) = 0 /\ Len(sf.columns) = 0
  <2>1. ef.columns = <<>> /\ sf.columns = <<>> /\ ef.kind = "epoch" /\ sf.kind = "status"
    BY DEF EpochFrame, StatusFrame, Frame
  <2> HIDE DEF ef, sf
  <2> QED BY <2>1
<1>5. /\ cf.session = s /\ cf.kind # "hello" /\ Len(cf.columns) = 1
      /\ cf.columns[1].seq = n + 1
  <2> DEFINE col == Column(n + 1, sessions[s].epoch)
  <2>1. cf.session = s /\ cf.columns = <<col>> /\ cf.kind = "columns"
    BY DEF ColumnFrame, Frame
  <2>2. col.seq = n + 1
    BY DEF Column
  <2> HIDE DEF col, cf
  <2> QED BY <2>1, <2>2
<1>6. Len(Append(sessions[s].columns, sessions[s].epoch)) = n + 1
  <2> DEFINE cols == sessions[s].columns
             e == sessions[s].epoch
  <2>1. cols \in Seq(0 .. MaxEpoch) /\ e \in 0 .. MaxEpoch
    BY <1>2
  <2> HIDE DEF cols, e
  <2> QED BY <2>1 DEF cols, e
<1>7. sf \in WireFrame
  BY <1>1, FedFrames DEF Typed
<1>8. n + 0 = n
  BY <1>2
<1>9. CASE Idle(d)
  <2>1. n2 = n
    BY <1>9 DEF Idle, SameStream
  <2>2. tx'[d] = b \/ tx'[d] = Offer(b, sf)
    BY <1>9 DEF Idle
  <2> HIDE DEF b, sf, n, n2, s
  <2>3. RunsOn(b, Offer(b, sf), s, n, n)
    BY <1>1, <1>2, <1>4, <1>7, <1>8, OfferRuns
  <2>4. RunsOn(b, b, s, n, n)
    BY DEF RunsOn
  <2>5. RunsOn(b, tx'[d], s, n, n2)
    BY <2>1, <2>2, <2>3, <2>4
  <2> QED BY <1>3, <2>5 DEF b, n, n2, s
<1>10. CASE Fed(d)
  <2>1. \/ FedColumn(d, s) /\ cf \in WireFrame
        \/ FedEpoch(d, s) /\ ef \in WireFrame
        \/ FedBoth(d, s) /\ cf \in WireFrame /\ ef \in WireFrame
    BY <1>10, FedTyped
  <2>2. \/ tx'[d] = Offer(b, cf) /\ n2 = n + 1 /\ cf \in WireFrame
        \/ tx'[d] = Offer(b, ef) /\ n2 = n /\ ef \in WireFrame
        \/ /\ tx'[d] = Offer(Offer(b, cf), ef) /\ n2 = n + 1
           /\ cf \in WireFrame /\ ef \in WireFrame
    BY <1>6, <2>1 DEF FedColumn, FedEpoch, FedBoth
  <2> HIDE DEF b, cf, ef, n, n2, s
  <2>3. n + 1 \in Nat /\ (n + 1) + 0 = n + 1
    BY <1>2
  <2>4. cf \in WireFrame => RunsOn(b, Offer(b, cf), s, n, n + 1) /\ Offer(b, cf) \in Box
    BY <1>1, <1>2, <1>5, OfferRuns, OfferTyped
  <2>5. CASE tx'[d] = Offer(b, cf) /\ n2 = n + 1 /\ cf \in WireFrame
    BY <1>3, <2>4, <2>5 DEF b, n, n2, s
  <2>6. CASE tx'[d] = Offer(b, ef) /\ n2 = n /\ ef \in WireFrame
    <3>1. RunsOn(b, Offer(b, ef), s, n, n)
      BY <1>1, <1>2, <1>4, <1>8, <2>6, OfferRuns
    <3> QED BY <1>3, <2>6, <3>1 DEF b, n, n2, s
  <2>7. CASE /\ tx'[d] = Offer(Offer(b, cf), ef) /\ n2 = n + 1
             /\ cf \in WireFrame /\ ef \in WireFrame
    <3> DEFINE mid == Offer(b, cf)
               after == Offer(mid, ef)
    <3>1. mid \in Box /\ RunsOn(b, mid, s, n, n + 1)
      BY <2>4, <2>7
    <3> HIDE DEF mid
    <3>2. RunsOn(mid, after, s, n + 1, n + 1)
      BY <1>4, <2>3, <2>7, <3>1, OfferRuns
    <3> HIDE DEF after
    <3>3. RunsOn(b, after, s, n, n + 1)
      BY <3>1, <3>2 DEF RunsOn
    <3>4. tx'[d] = after
      BY <2>7 DEF after, mid
    <3>5. RunsOn(b, tx'[d], s, n, n2)
      BY <2>7, <3>3, <3>4
    <3> QED BY <1>3, <3>5 DEF b, n, n2, s
  <2> QED BY <2>2, <2>5, <2>6, <2>7
<1> QED BY <1>9, <1>10

Newer(s) == Len(sessions[s].columns)
\* The columns queued for an attached connection chain up to the newest
SeamConn(c) ==
  LET s == handler[c].session
  IN s # None /\ tx[c].evicted = {} => \E g : Runs(tx[c].queue, s, Newer(s), g)
\* A pane whose queue holds no column of its session has been dealt the newest
SeamPane(p) ==
  LET c == view[p].socket
      s == handler[c].session
  IN /\ c # None /\ s # None
     /\ tx[c].evicted = {} /\ Drained(tx[c].queue) /\ Newer(s) > 0
     => <<s, Newer(s)>> \in Dealt(p)
SeamInv == (\A c \in Conns : SeamConn(c)) /\ \A p \in Panes : SeamPane(p)

LEMMA HubSeam ==
  ASSUME Inv, Typed, HubEffect, NEW c \in Conns, SeamConn(c),
         handler'[c].session # None, tx'[c].evicted = {}
  PROVE LET s == handler'[c].session
            n2 == Len(sessions'[s].columns)
        IN /\ \E g : Runs(tx'[c].queue, s, n2, g)
           /\ Drained(tx'[c].queue) /\ n2 > 0 =>
                /\ handler[c].session = s /\ tx[c].evicted = {}
                /\ Drained(tx[c].queue) /\ Newer(s) = n2
<1> DEFINE s == handler'[c].session
           n2 == Len(sessions'[s].columns)
           q2 == tx'[c].queue
<1>1. CASE Joined(c)
  <2> DEFINE cols == sessions'[s].columns
             epoch == sessions'[s].epoch
             box == tx[c]
             after == OfferAll(box, Snapshot(s, cols, epoch))
  <2>1. /\ s \in 1 .. MaxStarts /\ cols \in Seq(0 .. MaxEpoch)
        /\ Len(cols) <= MaxColumns /\ epoch \in 0 .. MaxEpoch /\ box \in Box
    BY <1>1, JoinedFacts
  <2>2. tx'[c] = after
    BY <1>1 DEF Joined
  <2> HIDE DEF s, cols, epoch, box
  <2>3. /\ \E h : Runs(after.queue, s, Len(cols), h)
        /\ Drained(after.queue) => Len(cols) = 0
    BY <2>1, JoinRuns
  <2> HIDE DEF after
  <2>4. q2 = after.queue /\ n2 = Len(cols)
    BY <2>2 DEF cols
  <2>5. ~ (0 > 0)
    OBVIOUS
  <2> HIDE DEF n2
  <2>6. /\ \E g : Runs(q2, s, n2, g)
        /\ ~ (Drained(q2) /\ n2 > 0)
    BY <2>3, <2>4, <2>5
  <2> QED BY <2>6 DEF s, n2
<1>2. CASE handler[c].session # None /\ (Idle(c) \/ Fed(c))
  <2> DEFINE n == Newer(s)
             b == tx[c]
             after == tx'[c]
  <2>1. /\ handler[c].session = s
        /\ RunsOn(tx[c], tx'[c], handler[c].session, Len(sessions[handler[c].session].columns),
                  Len(sessions'[handler[c].session].columns))
    BY <1>2, OffersRun
  <2>2. RunsOn(b, after, s, n, n2)
    BY <2>1 DEF Newer
  <2>3. s # None /\ (b.evicted = {} => \E g : Runs(b.queue, s, n, g))
    BY <1>2, <2>1 DEF SeamConn
  <2>4. after.evicted = {} /\ q2 = after.queue
    OBVIOUS
  <2> HIDE DEF s, n, b, after, n2, q2
  <2>5. /\ b.evicted = {} /\ \E g : Runs(q2, s, n2, g)
        /\ Drained(q2) => Drained(b.queue) /\ n2 = n
    BY <2>2, <2>3, <2>4 DEF RunsOn
  <2> QED BY <2>1, <2>5 DEF s, n, b, n2, q2
<1> QED BY <1>1, <1>2 DEF HubEffect, Left, Idle, Fed

LEMMA SeamPanePrimed ==
  ASSUME NEW p \in Panes, NEW c, view'[p].socket = c,
         ASSUME c # None, handler'[c].session # None, tx'[c].evicted = {},
                Drained(tx'[c].queue), NEW s, s = handler'[c].session, Newer(s)' > 0
         PROVE  <<s, Newer(s)'>> \in Dealt(p)'
  PROVE SeamPane(p)'
<1> DEFINE s == handler'[c].session
           n == Len(sessions'[s].columns)
           D == Dealt(p)'
<1>1. \A t : t = s => Newer(t)' = n
  BY DEF Newer
<1>2. /\ c # None /\ s # None /\ tx'[c].evicted = {} /\ Drained(tx'[c].queue) /\ n > 0
      => <<s, n>> \in D
  BY <1>1
<1>3. SeamPane(p)' <=>
        (/\ c # None /\ s # None /\ tx'[c].evicted = {} /\ Drained(tx'[c].queue) /\ n > 0
         => <<s, n>> \in D)
  BY DEF SeamPane, Newer
<1> QED BY <1>2, <1>3

\* A pane whose records, queue and session stay
LEMMA SeamStays ==
  ASSUME NEW p \in Panes, SeamPane(p), UNCHANGED sessions,
         shown'[p] = shown[p], swallowed'[p] = swallowed[p],
         view'[p].socket = view[p].socket,
         view[p].socket # None =>
           /\ tx'[view[p].socket] = tx[view[p].socket]
           /\ handler'[view[p].socket].session = handler[view[p].socket].session
  PROVE SeamPane(p)'
<1> DEFINE c == view[p].socket
<1>1. Dealt(p)' = Dealt(p) /\ \A t : Newer(t)' = Newer(t)
  BY DEF Dealt, Newer
<1>2. ASSUME c # None, handler'[c].session # None, tx'[c].evicted = {},
             Drained(tx'[c].queue), NEW s, s = handler'[c].session, Newer(s)' > 0
      PROVE  <<s, Newer(s)'>> \in Dealt(p)'
  BY <1>1, <1>2 DEF SeamPane
<1>3. view'[p].socket = c
  OBVIOUS
<1> HIDE DEF c
<1> QED BY <1>2, <1>3, SeamPanePrimed

LEMMA SeamConnStays ==
  ASSUME NEW c \in Conns, SeamConn(c), UNCHANGED sessions, tx'[c] = tx[c],
         handler'[c].session = handler[c].session
  PROVE SeamConn(c)'
<1> DEFINE s == handler[c].session
<1>1. SeamConn(c)' <=>
        (s # None /\ tx[c].evicted = {} => \E g : Runs(tx[c].queue, s, Newer(s), g))
  BY DEF SeamConn, Newer
<1> QED BY <1>1 DEF SeamConn

LEMMA SeamConnPrimed ==
  ASSUME NEW c \in Conns,
         ASSUME handler'[c].session # None, tx'[c].evicted = {},
                NEW s, s = handler'[c].session
         PROVE  \E g : Runs(tx'[c].queue, s, Len(sessions'[s].columns), g)
  PROVE SeamConn(c)'
<1> DEFINE s == handler'[c].session
<1>1. s # None /\ tx'[c].evicted = {} =>
        \E g : Runs(tx'[c].queue, s, Len(sessions'[s].columns), g)
  OBVIOUS
<1>2. SeamConn(c)' <=>
        (s # None /\ tx'[c].evicted = {} =>
           \E g : Runs(tx'[c].queue, s, Len(sessions'[s].columns), g))
  BY DEF SeamConn, Newer
<1> QED BY <1>1, <1>2

LEMMA HubSeamInv ==
  ASSUME Inv, Typed, HubEffect, SeamInv, UNCHANGED paneVars PROVE SeamInv'
<1>1. view' = view /\ shown' = shown /\ swallowed' = swallowed
  BY DEF paneVars
<1>2. ASSUME NEW c \in Conns PROVE SeamConn(c)'
  <2>1. ASSUME handler'[c].session # None, tx'[c].evicted = {},
               NEW s, s = handler'[c].session
        PROVE  \E g : Runs(tx'[c].queue, s, Len(sessions'[s].columns), g)
    BY <2>1, HubSeam DEF SeamInv
  <2> QED BY <2>1, SeamConnPrimed
<1>3. ASSUME NEW p \in Panes PROVE SeamPane(p)'
  <2> DEFINE c == view[p].socket
  <2>1. c \in Conns \cup {None} /\ view'[p].socket = c /\ Dealt(p)' = Dealt(p)
    BY <1>1 DEF Typed, View, Dealt
  <2>2. ASSUME c # None, handler'[c].session # None, tx'[c].evicted = {},
               Drained(tx'[c].queue), NEW s, s = handler'[c].session, Newer(s)' > 0
        PROVE  <<s, Newer(s)'>> \in Dealt(p)'
    <3>1. c \in Conns /\ SeamConn(c)
      BY <2>1, <2>2 DEF SeamInv
    <3>2. Newer(s)' = Len(sessions'[s].columns)
      BY DEF Newer
    <3>3. /\ handler[c].session = s /\ tx[c].evicted = {}
          /\ Drained(tx[c].queue) /\ Newer(s) = Newer(s)'
      <4> HIDE DEF c
      <4> QED BY <2>2, <3>1, <3>2, HubSeam
    <3>4. <<s, Newer(s)>> \in Dealt(p)
      BY <2>2, <3>3 DEF SeamInv, SeamPane
    <3> QED BY <2>1, <3>3, <3>4
  <2> HIDE DEF c
  <2> QED BY <2>1, <2>2, SeamPanePrimed
<1> QED BY <1>2, <1>3 DEF SeamInv

LEMMA PaneSeamStep ==
  ASSUME Inv, Typed, Sockets, SeamInv, NEW p \in Panes, PaneEffect(p)
  PROVE SeamInv'
<1>1. UNCHANGED <<sessions, tx>> /\ \A d \in Conns : handler'[d].session = handler[d].session
  BY DEF PaneEffect
<1>2. ASSUME NEW c \in Conns PROVE SeamConn(c)'
  BY <1>1, SeamConnStays DEF SeamInv
<1>3. ASSUME NEW q \in Panes, q # p PROVE SeamPane(q)'
  <2>1. /\ view'[q] = view[q] /\ SeamPane(q) /\ view[q].socket \in Conns \cup {None}
        /\ shown'[q] = shown[q] /\ swallowed'[q] = swallowed[q]
    BY <1>3 DEF PaneEffect, SeamInv, Typed, View
  <2> QED BY <1>1, <2>1, SeamStays
<1>4. SeamPane(p)'
  <2>1. SeamPane(p) /\ view[p].socket \in Conns \cup {None}
    BY DEF SeamInv, Typed, View
  <2>2. RecordsKept(p) \/ view'[p].socket = None
    BY DEF PaneEffect, RecordsKept
  <2>3. CASE view'[p].socket = view[p].socket /\ RecordsKept(p)
    BY <1>1, <2>1, <2>3, SeamStays DEF RecordsKept
  <2>4. CASE view'[p].socket = None
    BY <2>4 DEF SeamPane
  <2>5. CASE view'[p].socket \in Conns /\ wire[view'[p].socket] = "unused"
    <3> DEFINE c == view'[p].socket
    <3>1. handler[c].session = None
      <4>1. handler[c].pc = "absent"
        BY <2>5 DEF Inv, HubInv, Handlers
      <4> QED BY <2>5, <4>1 DEF Inv, HubInv, Handlers
    <3>2. handler'[c].session = None
      BY <1>1, <2>5, <3>1
    <3> QED BY <3>2 DEF SeamPane
  <2> QED BY <2>2, <2>3, <2>4, <2>5 DEF PaneEffect
<1> QED BY <1>2, <1>3, <1>4 DEF SeamInv

LEMMA DeliverSeam ==
  ASSUME Inv, Typed, Sockets, ColInv, SeamInv, NEW p \in Panes, Deliver(p)
  PROVE SeamInv'
<1> DEFINE c == view[p].socket
           f == Head(tx[c].queue)
           q == tx[c].queue
           s == handler[c].session
           n == Newer(s)
<1>1. DeliverEffect(p, c, f)
  BY DeliverFacts
<1> HIDE DEF f
<1>2. /\ UNCHANGED <<sessions, handler>> /\ c # None /\ c \in Conns
      /\ \A r \in Panes : r # p =>
           /\ view'[r] = view[r] /\ shown'[r] = shown[r] /\ swallowed'[r] = swallowed[r]
      /\ \A d \in Conns : d # c => tx'[d] = tx[d]
      /\ view'[p].socket = c /\ f \in WireFrame
  BY <1>1 DEF DeliverEffect, Delivers, hub
<1>3. /\ q \in Seq(WireFrame) /\ q # <<>> /\ f = q[1]
      /\ tx'[c].queue = Tail(q) /\ tx'[c].evicted = tx[c].evicted
  BY <1>1 DEF DeliverEffect, Typed, Boxes, Box
<1>4. \A t : Newer(t)' = Newer(t) /\ Newer(t) = Len(sessions'[t].columns)
  BY <1>2 DEF Newer
<1>5. s # None => n \in Nat
  <2>1. s # None => s \in Started
    BY <1>2 DEF Inv, HubInv, Handlers
  <2> QED BY <2>1, FlowSessionFacts DEF Typed, Newer
<1>6. s # None /\ tx[c].evicted = {} =>
        /\ \E h : Runs(Tail(q), s, n, h)
        /\ Drained(Tail(q)) => Drained(q) \/ <<s, n>> \in Cols(f)
  <2> SUFFICES ASSUME s # None, tx[c].evicted = {}
               PROVE /\ \E h : Runs(Tail(q), s, n, h)
                     /\ Drained(Tail(q)) => Drained(q) \/ <<s, n>> \in Cols(f)
    OBVIOUS
  <2>1. PICK g : Runs(q, s, n, g)
    BY <1>2 DEF SeamInv, SeamConn
  <2> HIDE DEF q, s, n
  <2> QED BY <1>3, <1>5, <2>1, RunsTail
<1>7. ASSUME NEW d \in Conns PROVE SeamConn(d)'
  <2>1. CASE d # c
    BY <1>2, <1>7, <2>1, SeamConnStays DEF SeamInv
  <2>2. CASE d = c
    <3>1. ASSUME handler'[d].session # None, tx'[d].evicted = {},
                 NEW t, t = handler'[d].session
          PROVE  \E g : Runs(tx'[d].queue, t, Len(sessions'[t].columns), g)
      <4>1. t = s /\ Len(sessions'[t].columns) = n
        BY <1>2, <1>4, <2>2, <3>1
      <4> QED BY <1>3, <1>6, <2>2, <3>1, <4>1
    <3> QED BY <3>1, SeamConnPrimed
  <2> QED BY <2>1, <2>2
<1>8. ASSUME NEW r \in Panes, r # p PROVE SeamPane(r)'
  <2>1. view[r].socket # None => tx'[view[r].socket] = tx[view[r].socket]
    BY <1>2, <1>8, OthersSocket
  <2> QED BY <1>2, <1>8, <2>1, SeamStays DEF SeamInv
<1>9. SeamPane(p)'
  <2>1. Dealt(p)' = Dealt(p) \cup Cols(f)
    <3>1. CursorShown(view[p], shown[p]) /\ Delivers(p, c, f)
      BY <1>1 DEF ColInv, PaneCols, DeliverEffect
    <3> HIDE DEF c
    <3> QED BY <1>2, <3>1, DeliverDealt
  <2>2. ASSUME c # None, handler'[c].session # None, tx'[c].evicted = {},
               Drained(tx'[c].queue), NEW t, t = handler'[c].session, Newer(t)' > 0
        PROVE  <<t, Newer(t)'>> \in Dealt(p)'
    <3>1. t = s /\ Newer(t)' = n /\ s # None /\ tx[c].evicted = {} /\ n > 0
      BY <1>2, <1>3, <1>4, <2>2
    <3>2. Drained(q) \/ <<s, n>> \in Cols(f)
      BY <1>3, <1>6, <2>2, <3>1
    <3>3. Drained(q) => <<s, n>> \in Dealt(p)
      BY <1>2, <3>1 DEF SeamInv, SeamPane
    <3> QED BY <2>1, <3>1, <3>2, <3>3
  <2> HIDE DEF c
  <2> QED BY <1>2, <2>2, SeamPanePrimed
<1> QED BY <1>7, <1>8, <1>9 DEF SeamInv

LEMMA SeamInvStep ==
  ASSUME Inv, Inv', Typed, Sockets, ColInv, SeamInv, [Next]_vars PROVE SeamInv'
<1>1. CASE HubNext /\ HubEffect /\ UNCHANGED paneVars
  BY <1>1, HubSeamInv
<1>2. ASSUME NEW p \in Panes, PaneEffect(p) PROVE SeamInv'
  BY <1>2, PaneSeamStep
<1>3. ASSUME NEW p \in Panes, Deliver(p) PROVE SeamInv'
  BY <1>3, DeliverSeam
<1>4. CASE Stutters
  <2>1. /\ UNCHANGED <<sessions, tx, view, shown, swallowed>>
        /\ \A d \in Conns : handler'[d].session = handler[d].session
    BY <1>4 DEF Stutters
  <2>2. ASSUME NEW p \in Panes PROVE SeamPane(p)'
    <3>1. SeamPane(p) /\ view[p].socket \in Conns \cup {None}
      BY DEF SeamInv, Typed, View
    <3> QED BY <2>1, <3>1, SeamStays
  <2>3. ASSUME NEW c \in Conns PROVE SeamConn(c)'
    BY <2>1, SeamConnStays DEF SeamInv
  <2> QED BY <2>2, <2>3 DEF SeamInv
<1> QED BY <1>1, <1>2, <1>3, <1>4, StepEffect

\* From the queue's frames to their columns
LEMMA SeamFromRuns ==
  ASSUME NEW q \in Seq(WireFrame), NEW s, NEW n \in Nat, NEW g, Runs(q, s, n, g)
  PROVE LET seqs == Flat(Current(q))
        IN /\ \A j \in DOMAIN seqs : seqs[j] = n - Len(seqs) + j
           /\ seqs = <<>> => Drained(q)
<1> DEFINE L == Len(q)
           hellos == {i \in DOMAIN q : q[i].kind = "hello"}
           a == Max(hellos \cup {1})
           r == Current(q)
           R == Len(r)
           seqs == Flat(r)
           h == [i \in 1 .. R + 1 |-> g[i + a - 1]]
<1>1. L \in Nat /\ DOMAIN q = 1 .. L
  OBVIOUS
<1>2. /\ a \in hellos \cup {1} /\ \A y \in hellos \cup {1} : a >= y
  <2> DEFINE H == hellos \cup {1}
  <2>1. H \subseteq 1 .. L + 1 /\ H # {} /\ L + 1 \in Nat
    BY <1>1
  <2> HIDE DEF H
  <2>2. \E m \in H : \A y \in H : m >= y
    BY <2>1, LargestOf
  <2> QED BY <2>2 DEF Max, H
<1>3. r = SubSeq(q, a, L)
  BY DEF Current
<1> HIDE DEF a, r
<1>4. a \in Nat /\ a >= 1 /\ (a > L => L = 0 /\ a = 1) /\ a <= L + 1
  BY <1>1, <1>2
<1>5. /\ r \in Seq(WireFrame) /\ R = L - a + 1 /\ R \in Nat
      /\ \A i \in 1 .. R : r[i] = q[i + a - 1]
  <2>1. r \in Seq(WireFrame) /\ R = IF a <= L THEN L - a + 1 ELSE 0
    <3>1. \A i \in a .. L : i \in 1 .. L /\ q[i] \in WireFrame
      BY <1>1, <1>4
    <3> QED BY <1>1, <1>3, <1>4, <3>1
  <2>2. R = L - a + 1 /\ R \in Nat
    BY <1>1, <1>4, <2>1
  <2>3. \A i \in 1 .. R : r[i] = q[i + a - 1]
    BY <1>1, <1>3, <1>4, <2>1, <2>2
  <2> QED BY <2>1, <2>2, <2>3
<1>6. /\ g \in [1 .. L + 1 -> Nat] /\ g[L + 1] = n + 1
      /\ \A i \in 1 .. L : CurrentFrom(q, i) =>
           /\ g[i + 1] = g[i] + Len(q[i].columns)
           /\ q[i].columns # <<>> => q[i].session = s /\ q[i].columns[1].seq = g[i]
  BY <1>1 DEF Runs
<1>7. \A i \in 1 .. L : CurrentFrom(q, i) <=> i >= a
  <2> TAKE i \in 1 .. L
  <2>1. ASSUME i >= a, NEW k \in i + 1 .. L PROVE q[k].kind # "hello"
    <3>1. k \in 1 .. L /\ ~(a >= k)
      BY <1>1, <1>4, <2>1
    <3> QED BY <1>1, <1>2, <3>1
  <2>2. ASSUME CurrentFrom(q, i), ~(i >= a) PROVE FALSE
    <3>1. a # 1 /\ a \in i + 1 .. L
      BY <1>1, <1>4, <2>2
    <3>2. q[a].kind = "hello"
      BY <1>2, <3>1
    <3> QED BY <2>2, <3>1, <3>2 DEF CurrentFrom
  <2> QED BY <2>1, <2>2 DEF CurrentFrom
<1> HIDE DEF L, R
<1>8. /\ h \in [1 .. R + 1 -> Nat]
      /\ \A i \in 1 .. R + 1 : h[i] = g[i + a - 1]
  <2>1. \A i \in 1 .. R + 1 : i + a - 1 \in 1 .. L + 1
    BY <1>1, <1>4, <1>5
  <2> QED BY <1>6, <2>1
<1> HIDE DEF h
<1>9. ASSUME NEW i \in 1 .. R
      PROVE /\ h[i + 1] = h[i] + Len(r[i].columns)
            /\ r[i].columns # <<>> => r[i].columns[1].seq = h[i]
  <2> DEFINE k == i + a - 1
  <2>1. /\ k \in 1 .. L /\ k >= a /\ i \in 1 .. R + 1 /\ i + 1 \in 1 .. R + 1
        /\ (i + 1) + a - 1 = k + 1
    BY <1>1, <1>4, <1>5
  <2>2. h[i] = g[k] /\ h[i + 1] = g[k + 1] /\ r[i] = q[k]
    BY <1>5, <1>8, <2>1
  <2> HIDE DEF k
  <2>3. CurrentFrom(q, k)
    BY <1>7, <2>1
  <2> QED BY <1>6, <2>1, <2>2, <2>3
<1>10. h[R + 1] = n + 1 /\ h[1] \in Nat
  <2>1. R + 1 \in 1 .. R + 1 /\ (R + 1) + a - 1 = L + 1 /\ 1 \in 1 .. R + 1
    BY <1>1, <1>4, <1>5
  <2>2. h[R + 1] = g[(R + 1) + a - 1]
    BY <1>8, <2>1
  <2> QED BY <1>6, <1>8, <2>1, <2>2
<1>11. /\ seqs \in Seq(Nat) /\ Len(seqs) = h[R + 1] - h[1]
       /\ \A j \in 1 .. Len(seqs) : seqs[j] = h[1] + j - 1
  BY <1>5, <1>8, <1>9, FlatRuns DEF R
<1> HIDE DEF seqs
<1>12. \A j \in DOMAIN seqs : seqs[j] = n - Len(seqs) + j
  <2>1. DOMAIN seqs = 1 .. Len(seqs) /\ Len(seqs) \in Nat
    BY <1>11
  <2> DEFINE l == Len(seqs)
             x == h[1]
  <2>2. l = n + 1 - x /\ l \in Nat /\ x \in Nat
    BY <1>10, <1>11, <2>1
  <2> HIDE DEF l, x
  <2>3. \A j \in 1 .. l : x + j - 1 = n - l + j
    BY <2>2
  <2> QED BY <1>11, <2>1, <2>3 DEF l, x
<1>13. ASSUME seqs = <<>> PROVE Drained(q)
  <2>1. h[1] = n + 1
    <3>1. Len(seqs) = 0
      BY <1>13
    <3> QED BY <1>10, <1>11, <3>1
  <2>2. \A k \in Nat : k <= R => \A i \in 1 .. k + 1 : h[i] <= h[k + 1]
    <3> DEFINE S == {k \in Nat : k <= R => \A i \in 1 .. k + 1 : h[i] <= h[k + 1]}
    <3>1. 0 \in S
      <4>1. \A i \in 1 .. 0 + 1 : i = 1
        OBVIOUS
      <4> QED BY <1>10, <4>1
    <3>2. ASSUME NEW k \in Nat, k \in S PROVE k + 1 \in S
      <4> SUFFICES ASSUME k + 1 <= R, NEW i \in 1 .. (k + 1) + 1
                   PROVE h[i] <= h[(k + 1) + 1]
        OBVIOUS
      <4> DEFINE j == k + 1
                 m == Len(r[j].columns)
      <4>1. j \in 1 .. R /\ k <= R /\ j \in 1 .. R + 1 /\ j + 1 \in 1 .. R + 1
            /\ i \in 1 .. R + 1 /\ (i \in 1 .. j \/ i = j + 1)
        BY <1>5
      <4>2. m \in Nat
        <5>1. r[j] \in WireFrame
          BY <1>5, <4>1 DEF R
        <5> QED BY <5>1, FrameFacts
      <4>3. i \in 1 .. j => h[i] <= h[j]
        BY <3>2, <4>1
      <4>4. h[j + 1] = h[j] + m
        BY <1>9, <4>1
      <4>5. h[i] \in Nat /\ h[j] \in Nat /\ h[j + 1] \in Nat
        BY <1>8, <4>1
      <4> HIDE DEF j, m
      <4>6. h[i] <= h[j + 1]
        BY <4>1, <4>2, <4>3, <4>4, <4>5
      <4> QED BY <4>6 DEF j
    <3>3. Nat \subseteq S
      <4> HIDE DEF S
      <4> QED BY <3>1, <3>2, NatSetInduction
    <3> QED BY <3>3
  <2> SUFFICES ASSUME NEW b \in DOMAIN q, CurrentFrom(q, b) PROVE q[b].columns = <<>>
    BY DEF Drained
  <2> DEFINE i == b - a + 1
             k == i - 1
             cols == q[b].columns
             m == Len(cols)
  <2>3. /\ i \in 1 .. R /\ i + a - 1 = b /\ k \in Nat /\ k <= R /\ k + 1 = i
        /\ 1 \in 1 .. k + 1 /\ i + 1 \in 1 .. R + 1 /\ R <= R /\ i \in 1 .. R + 1
    BY <1>1, <1>4, <1>5, <1>7
  <2>4. m \in Nat /\ cols \in Seq(Columns)
    BY FrameFacts
  <2>5. r[i] = q[b]
    BY <1>5, <2>3
  <2> HIDE DEF i, k
  <2>6. h[i + 1] = h[i] + m
    BY <1>9, <2>3, <2>5
  <2> HIDE DEF m
  <2>7. h[1] <= h[i] /\ h[i + 1] <= h[R + 1] /\ h[i] \in Nat
    BY <1>5, <1>8, <2>2, <2>3
  <2>8. m = 0
    BY <1>10, <2>1, <2>4, <2>6, <2>7
  <2> HIDE DEF cols
  <2>9. cols = <<>>
    BY <2>4, <2>8 DEF m
  <2> QED BY <2>9 DEF cols
<1> QED BY <1>12, <1>13 DEF seqs, r

LEMMA SeamHolds == ASSUME Inv, Typed, SeamInv PROVE SeamIsExact
<1> SUFFICES ASSUME NEW c \in Conns, handler[c].session # None, tx[c].evicted = {}
             PROVE LET s == handler[c].session
                       seqs == Flat(Current(tx[c].queue))
                       newest == Len(sessions[s].columns)
                   IN /\ \A j \in DOMAIN seqs : seqs[j] = newest - Len(seqs) + j
                      /\ \A p \in Panes :
                           seqs = <<>> /\ newest > 0 /\ view[p].socket = c =>
                             \/ <<s, newest>> \in shown[p]
                             \/ \E w \in swallowed[p] : w.session = s /\ w.seq = newest
  BY DEF SeamIsExact
<1> DEFINE s == handler[c].session
           q == tx[c].queue
           seqs == Flat(Current(q))
           n == Newer(s)
<1>1. q \in Seq(WireFrame) /\ n \in Nat
  <2>1. s \in Started
    BY DEF Inv, HubInv, Handlers
  <2> QED BY <2>1, FlowSessionFacts DEF Typed, Boxes, Box, Newer
<1>2. PICK g : Runs(q, s, n, g)
  BY DEF SeamInv, SeamConn
<1>3. /\ \A j \in DOMAIN seqs : seqs[j] = n - Len(seqs) + j
      /\ seqs = <<>> => Drained(q)
  <2> HIDE DEF q, n, s
  <2> QED BY <1>1, <1>2, SeamFromRuns
<1>4. ASSUME NEW p \in Panes, seqs = <<>>, n > 0, view[p].socket = c
      PROVE \/ <<s, n>> \in shown[p]
            \/ \E w \in swallowed[p] : w.session = s /\ w.seq = n
  <2>1. Drained(q)
    BY <1>3, <1>4
  <2>2. c # None
    BY FlowAssumption DEF Conns, None
  <2> HIDE DEF seqs
  <2>3. <<s, n>> \in Dealt(p)
    BY <1>4, <2>1, <2>2 DEF SeamInv, SeamPane
  <2> HIDE DEF s, n
  <2>4. CASE <<s, n>> \in shown[p]
    BY <2>4
  <2>5. CASE \E w \in swallowed[p] : <<s, n>> = <<w.session, w.seq>>
    BY <2>5
  <2> QED BY <2>3, <2>4, <2>5 DEF Dealt
<1>5. n = Len(sessions[s].columns)
  BY DEF Newer
<1> HIDE DEF seqs, n
<1> QED BY <1>3, <1>4, <1>5 DEF seqs

\* As long as an attached client's queue has not had to evict, the columns
\* that wait for it run on without a gap to its session's newest, and when none
\* waits the pane has been dealt the newest: each frame has a seq to begin
\* with, and the seqs chain up to the newest column plus one.
THEOREM SeamExact == Spec => []SeamIsExact
<1>1. Init => SeamInv
  BY DEF Init, HubInit, Blank, SeamInv, SeamConn, SeamPane, NewConnection
<1>2. /\ Inv /\ Inv' /\ (Typed /\ Sockets) /\ ColInv /\ SeamInv /\ [Next]_vars
      => SeamInv'
  BY SeamInvStep
<1>3. Inv /\ (Typed /\ Sockets) /\ SeamInv => SeamIsExact
  BY SeamHolds
<1> QED BY <1>1, <1>2, <1>3, Invariant, StreamTyped, ColumnsKnown, PTL DEF Spec
=============================================================================
