------------------------- MODULE LogPipelineProofs -------------------------
(***************************************************************************)
(* The container's output reaches its log, for any output, any sizes of    *)
(* the pipes, the Copier's buffer and the ring, and any interleaving: in   *)
(* blocking mode byte for byte and in order, and through a ring in order,  *)
(* with at most the message lost that the ring's goroutine held when the   *)
(* ring was closed.                                                        *)
(*                                                                         *)
(* The two recursive definitions the model uses, the fold that fills a     *)
(* pipe and the flattening of a log, are unfolded by least counterexamples *)
(* in the natural numbers.                                                 *)
(***************************************************************************)
EXTENDS LogPipeline, SequenceTheorems, WellFoundedInduction, TLAPS

--------------------------------------------------------------------------------
(* Induction, and the recursive definitions *)

\* A set of natural numbers with an element has a least one.
LEMMA Least ==
  ASSUME NEW A, A \subseteq Nat, A # {}
  PROVE  \E m \in A : \A k \in A : m <= k
  <1> DEFINE R == OpToRel(<, Nat)
  <1>1. IsWellFoundedOn(R, Nat)
    BY NatLessThanWellFounded
  <1>2. \A k, m \in Nat : k < m => <<k, m>> \in R
    BY DEF OpToRel
  <1> HIDE DEF R
  <1>3. \E m \in A : \A k \in A : ~ (<<k, m>> \in R)
    BY <1>1, WFMin
  <1>4. PICK m \in A : \A k \in A : ~ (<<k, m>> \in R)
    BY <1>3
  <1>5. ASSUME NEW k \in A PROVE m <= k
    <2>1. k \in Nat /\ m \in Nat
      OBVIOUS
    <2>2. ~(k < m)
      BY <1>2, <1>4, <2>1
    <2> QED BY <2>1, <2>2
  <1> QED BY <1>4, <1>5

\* Induction up to n: a set that has 0 and with each number below n the next has them all.
LEMMA UpTo ==
  ASSUME NEW n \in Nat, NEW A, 0 \in A, \A k \in 0..n : k \in A /\ k < n => k + 1 \in A
  PROVE  0..n \subseteq A
  <1> SUFFICES ASSUME (0..n) \ A # {} PROVE FALSE
    OBVIOUS
  <1>1. PICK m \in (0..n) \ A : \A k \in (0..n) \ A : m <= k
    <2>1. (0..n) \ A \subseteq Nat
      OBVIOUS
    <2> QED BY <2>1, Least
  <1>2. m # 0 /\ m \in Nat
    OBVIOUS
  <1>3. m - 1 \in 0..n /\ m - 1 < n /\ ~(m <= m - 1)
    BY <1>2
  <1>4. m - 1 \in A
    BY <1>1, <1>3
  <1>5. (m - 1) + 1 \in A
    BY <1>3, <1>4
  <1>6. (m - 1) + 1 = m
    BY <1>2
  <1> QED BY <1>5, <1>6

\* The greatest number of a set that has the upper bound of an interval it lies in.
LEMMA MaxIs ==
  ASSUME NEW k \in Nat, NEW s \in SUBSET (1..k), k \in s
  PROVE  Max(s) = k
  <1>1. \A y \in s : k >= y
    OBVIOUS
  <1>2. \A x \in s : (\A y \in s : x >= y) => x = k
    OBVIOUS
  <1> QED BY <1>1, <1>2 DEF Max

\* The fold that fills a pipe.
Fill(base, p) == FoldLeft(Put, base, p)

\* What the fold that fills a pipe computes over the places in s, given g for fewer.
FillStep(g, s, base, p) ==
  IF s = {} THEN base ELSE Put(g[s \ {Max(s)}], p[Max(s)])

FillRec(g, base, p, k) == g = [s \in SUBSET (1..k) |-> FillStep(g, s, base, p)]

LEMMA FillDefined ==
  ASSUME NEW n \in Nat, NEW base, NEW p
  PROVE  \E g : FillRec(g, base, p, n)
  <1> DEFINE A == {k \in 0..n : \E g : FillRec(g, base, p, k)}
  <1>1. 0 \in A
    <2> DEFINE g == [s \in SUBSET (1..0) |-> base]
    <2>1. \A s \in SUBSET (1..0) : s = {}
      OBVIOUS
    <2>2. g = [s \in SUBSET (1..0) |-> FillStep(g, s, base, p)]
      BY <2>1 DEF FillStep
    <2> HIDE DEF g
    <2>3. FillRec(g, base, p, 0)
      BY <2>2 DEF FillRec
    <2>4. 0 \in 0..n
      OBVIOUS
    <2> QED BY <2>3, <2>4
  <1>2. ASSUME NEW k \in 0..n, k \in A, k < n PROVE k + 1 \in A
    <2>1. PICK g : g = [s \in SUBSET (1..k) |-> FillStep(g, s, base, p)]
      BY <1>2 DEF FillRec
    <2> DEFINE h == [s \in SUBSET (1..(k + 1)) |->
                       IF k + 1 \in s THEN Put(g[s \ {k + 1}], p[k + 1]) ELSE g[s]]
    <2>2. ASSUME NEW s \in SUBSET (1..(k + 1)), k + 1 \in s
          PROVE  h[s] = FillStep(h, s, base, p)
      <3>1. Max(s) = k + 1
        BY <2>2, MaxIs
      <3>2. s \ {k + 1} \in SUBSET (1..k) /\ s \ {k + 1} \in SUBSET (1..(k + 1)) /\ k + 1 \notin s \ {k + 1}
        OBVIOUS
      <3>3. h[s \ {k + 1}] = g[s \ {k + 1}]
        BY <3>2
      <3>4. h[s] = Put(g[s \ {k + 1}], p[k + 1])
        BY <2>2
      <3> HIDE DEF h
      <3> QED BY <2>2, <3>1, <3>3, <3>4 DEF FillStep
    <2>3. ASSUME NEW s \in SUBSET (1..(k + 1)), k + 1 \notin s
          PROVE  h[s] = FillStep(h, s, base, p)
      <3>1. \A x : s \ {x} \in SUBSET (1..k) /\ s \ {x} \in SUBSET (1..(k + 1))
        <4>1. ASSUME NEW y \in s PROVE y \in 1..k
          <5>1. y \in 1..(k + 1) /\ y # k + 1
            BY <2>3
          <5> QED BY <5>1
        <4>2. 1..k \subseteq 1..(k + 1)
          OBVIOUS
        <4> QED BY <4>1, <4>2
      <3>2. s \in SUBSET (1..k) /\ s \ {Max(s)} \in SUBSET (1..k) /\ s \ {Max(s)} \in SUBSET (1..(k + 1))
        <4>1. s \ {k + 1} = s
          BY <2>3
        <4> QED BY <3>1, <4>1
      <3>3. k + 1 \notin s \ {Max(s)}
        BY <3>2
      <3>4. h[s] = g[s] /\ h[s \ {Max(s)}] = g[s \ {Max(s)}]
        BY <2>3, <3>2, <3>3
      <3>5. g[s] = FillStep(g, s, base, p)
        BY <2>1, <3>2
      <3> HIDE DEF h
      <3> QED BY <3>4, <3>5 DEF FillStep
    <2>4. h = [s \in SUBSET (1..(k + 1)) |-> FillStep(h, s, base, p)]
      <3>1. \A s \in SUBSET (1..(k + 1)) : h[s] = FillStep(h, s, base, p)
        BY <2>2, <2>3
      <3>2. h = [s \in SUBSET (1..(k + 1)) |-> h[s]]
        OBVIOUS
      <3> HIDE DEF h
      <3>3. [s \in SUBSET (1..(k + 1)) |-> h[s]]
              = [s \in SUBSET (1..(k + 1)) |-> FillStep(h, s, base, p)]
        BY <3>1
      <3> QED BY <3>2, <3>3
    <2>5. k + 1 \in 0..n
      BY <1>2
    <2> HIDE DEF h
    <2> QED BY <2>4, <2>5 DEF FillRec
  <1> HIDE DEF A
  <1>3. 0..n \subseteq A
    BY <1>1, <1>2, UpTo
  <1> QED BY <1>3 DEF A

\* Filling takes one byte after the other.
Filling(n, base, p) ==
  \E it : /\ it[0] = base
          /\ \A i \in 1..n : it[i] = Put(it[i - 1], p[i])
          /\ Fill(base, p) = it[n]

LEMMA FillSteps ==
  ASSUME NEW n \in Nat, NEW base, NEW p, DOMAIN p = 1..n
  PROVE  Filling(n, base, p)
  <1> DEFINE g == CHOOSE g : FillRec(g, base, p, n)
             it == [i \in 0..n |-> g[1..i]]
  <1>1. Fill(base, p) = g[1..n]
    BY DEF Fill, FoldLeft, MapThenFoldSet, FillRec, FillStep
  <1>2. FillRec(g, base, p, n)
    BY FillDefined
  <1> HIDE DEF g
  <1>3. \A s \in SUBSET (1..n) : g[s] = FillStep(g, s, base, p)
    BY <1>2 DEF FillRec
  <1>4. it[0] = base
    <2>1. 1..0 = {} /\ 1..0 \in SUBSET (1..n) /\ 0 \in 0..n
      OBVIOUS
    <2>2. g[1..0] = base
      BY <1>3, <2>1 DEF FillStep
    <2> QED BY <2>1, <2>2
  <1>5. ASSUME NEW i \in 1..n PROVE it[i] = Put(it[i - 1], p[i])
    <2>1. 1..i \in SUBSET (1..n) /\ 1..i # {} /\ i \in 0..n /\ i - 1 \in 0..n
      OBVIOUS
    <2>2. Max(1..i) = i
      BY MaxIs
    <2>3. (1..i) \ {i} = 1..(i - 1)
      OBVIOUS
    <2>4. g[1..i] = Put(g[1..(i - 1)], p[i])
      BY <1>3, <2>1, <2>2, <2>3 DEF FillStep
    <2> QED BY <2>1, <2>4
  <1>6. Fill(base, p) = it[n]
    BY <1>1
  <1> HIDE DEF it
  <1> QED BY <1>4, <1>5, <1>6 DEF Filling
--------------------------------------------------------------------------------
(* Runs of bytes *)

\* The bytes after a, up to b.
LEMMA BytesAre ==
  ASSUME NEW a \in Nat, NEW b \in Nat, a <= b
  PROVE  /\ Bytes(a + 1, b) \in Seq(Nat)
         /\ Len(Bytes(a + 1, b)) = b - a
         /\ \A k \in 1..(b - a) : Bytes(a + 1, b)[k] = a + k
  <1>1. Bytes(a + 1, b) = [k \in 1..(b - a) |-> a + k]
    <2>1. b - (a + 1) + 1 = b - a /\ \A k \in 1..(b - a) : a + 1 + k - 1 = a + k
      OBVIOUS
    <2> QED BY <2>1 DEF Bytes
  <1>2. b - a \in Nat /\ \A k \in 1..(b - a) : a + k \in Nat
    OBVIOUS
  <1> QED BY <1>1, <1>2

\* Equal runs, element by element.
LEMMA BytesEqual ==
  ASSUME NEW a \in Nat, NEW b \in Nat, a <= b, NEW s \in Seq(Nat), Len(s) = b - a,
         \A k \in 1..(b - a) : s[k] = a + k
  PROVE  s = Bytes(a + 1, b)
  BY BytesAre, SeqEqual

LEMMA BytesEmpty ==
  ASSUME NEW a \in Nat, NEW b \in Nat, a <= b
  PROVE  Bytes(a + 1, b) = <<>> <=> a = b
  <1>1. \A s \in Seq(Nat) : s = <<>> <=> Len(s) = 0
    BY EmptySeq
  <1> QED BY <1>1, BytesAre

LEMMA BytesConcat ==
  ASSUME NEW a \in Nat, NEW b \in Nat, NEW c \in Nat, a <= b, b <= c
  PROVE  Bytes(a + 1, b) \o Bytes(b + 1, c) = Bytes(a + 1, c)
  <1> DEFINE s == Bytes(a + 1, b)
             t == Bytes(b + 1, c)
  <1>1. /\ s \in Seq(Nat) /\ Len(s) = b - a /\ \A k \in 1..(b - a) : s[k] = a + k
        /\ t \in Seq(Nat) /\ Len(t) = c - b /\ \A k \in 1..(c - b) : t[k] = b + k
    BY BytesAre
  <1> HIDE DEF s, t
  <1>2. /\ s \o t \in Seq(Nat) /\ Len(s \o t) = c - a
        /\ \A i \in 1..(c - a) : (s \o t)[i] = IF i <= b - a THEN s[i] ELSE t[i - (b - a)]
    <2>1. /\ s \o t \in Seq(Nat) /\ Len(s \o t) = Len(s) + Len(t)
          /\ \A i \in 1..(Len(s) + Len(t)) : (s \o t)[i] = IF i <= Len(s) THEN s[i] ELSE t[i - Len(s)]
      BY <1>1, ConcatProperties
    <2>2. Len(s) + Len(t) = c - a
      BY <1>1
    <2> QED BY <1>1, <2>1, <2>2
  <1>3. ASSUME NEW k \in 1..(c - a) PROVE (s \o t)[k] = a + k
    <2>1. CASE k <= b - a
      BY <1>1, <1>2, <2>1
    <2>2. CASE ~(k <= b - a)
      <3>1. k - (b - a) \in 1..(c - b)
        BY <2>2
      <3> QED BY <1>1, <1>2, <2>2, <3>1
    <2> QED BY <2>1, <2>2
  <1>4. s \o t = Bytes(a + 1, c)
    <2>1. a <= c /\ s \o t \in Seq(Nat) /\ Len(s \o t) = c - a
      BY <1>2
    <2> HIDE DEF s, t
    <2> QED BY <1>3, <2>1, BytesEqual
  <1> QED BY <1>4 DEF s, t

\* A run is cut in two after its first n bytes.
LEMMA BytesSplit ==
  ASSUME NEW a \in Nat, NEW b \in Nat, a <= b, NEW n \in 0..(b - a)
  PROVE  /\ SubSeq(Bytes(a + 1, b), 1, n) = Bytes(a + 1, a + n)
         /\ SubSeq(Bytes(a + 1, b), n + 1, Len(Bytes(a + 1, b))) = Bytes(a + n + 1, b)
  <1> DEFINE s == Bytes(a + 1, b)
  <1>1. s \in Seq(Nat) /\ Len(s) = b - a /\ \A k \in 1..(b - a) : s[k] = a + k
    BY BytesAre
  <1> HIDE DEF s
  <1>2. SubSeq(s, 1, n) = Bytes(a + 1, a + n)
    <2>1. \A i \in 1..n : s[i] \in Nat
      BY <1>1
    <2>2. /\ SubSeq(s, 1, n) \in Seq(Nat) /\ Len(SubSeq(s, 1, n)) = n
          /\ \A k \in 1..n : SubSeq(s, 1, n)[k] = s[k]
      BY <2>1, SubSeqProperties
    <2>3. a + n \in Nat /\ a <= a + n /\ (a + n) - a = n /\ \A k \in 1..n : s[k] = a + k
      BY <1>1
    <2> QED BY <2>2, <2>3, BytesEqual
  <1>3. SubSeq(s, n + 1, b - a) = Bytes(a + n + 1, b)
    <2>1. \A i \in (n + 1)..(b - a) : s[i] \in Nat
      BY <1>1
    <2>2. /\ SubSeq(s, n + 1, b - a) \in Seq(Nat)
          /\ Len(SubSeq(s, n + 1, b - a)) = b - (a + n)
          /\ \A k \in 1..(b - (a + n)) : SubSeq(s, n + 1, b - a)[k] = s[n + 1 + k - 1]
      <3>1. n + 1 \in Int /\ b - a \in Int /\ (b - a) - (n + 1) + 1 = b - (a + n)
            /\ (n + 1 <= b - a \/ b - (a + n) = 0)
        OBVIOUS
      <3> QED BY <2>1, <3>1, SubSeqProperties
    <2>3. \A k \in 1..(b - (a + n)) : n + 1 + k - 1 \in 1..(b - a) /\ a + (n + 1 + k - 1) = (a + n) + k
      OBVIOUS
    <2>4. \A k \in 1..(b - (a + n)) : SubSeq(s, n + 1, b - a)[k] = (a + n) + k
      BY <1>1, <2>2, <2>3
    <2>5. a + n \in Nat /\ a + n <= b
      OBVIOUS
    <2> QED BY <2>2, <2>4, <2>5, BytesEqual
  <1> QED BY <1>1, <1>2, <1>3 DEF s

\* The next byte makes a run longer.
LEMMA BytesAppend ==
  ASSUME NEW a \in Nat, NEW b \in Nat, a <= b
  PROVE  Append(Bytes(a + 1, b), b + 1) = Bytes(a + 1, b + 1)
  <1> DEFINE s == Bytes(a + 1, b)
  <1>1. s \in Seq(Nat) /\ Len(s) = b - a /\ \A k \in 1..(b - a) : s[k] = a + k
    BY BytesAre
  <1> HIDE DEF s
  <1>2. /\ Append(s, b + 1) \in Seq(Nat) /\ Len(Append(s, b + 1)) = (b + 1) - a
        /\ \A k \in 1..(b - a) : Append(s, b + 1)[k] = s[k]
        /\ Append(s, b + 1)[b - a + 1] = b + 1
    <2>1. b + 1 \in Nat /\ Len(s) + 1 = (b + 1) - a /\ Len(s) + 1 = b - a + 1
      BY <1>1
    <2>2. /\ Append(s, b + 1) \in Seq(Nat) /\ Len(Append(s, b + 1)) = Len(s) + 1
          /\ \A k \in 1..Len(s) : Append(s, b + 1)[k] = s[k]
          /\ Append(s, b + 1)[Len(s) + 1] = b + 1
      BY <1>1, <2>1, AppendProperties
    <2> QED BY <1>1, <2>1, <2>2
  <1>3. ASSUME NEW k \in 1..((b + 1) - a) PROVE Append(s, b + 1)[k] = a + k
    BY <1>1, <1>2
  <1>4. Append(s, b + 1) = Bytes(a + 1, b + 1)
    <2>1. b + 1 \in Nat /\ a <= b + 1
      OBVIOUS
    <2>2. Append(s, b + 1) \in Seq(Nat) /\ Len(Append(s, b + 1)) = (b + 1) - a
      BY <1>2
    <2> QED BY <1>3, <2>1, <2>2, BytesEqual
  <1> QED BY <1>4 DEF s
--------------------------------------------------------------------------------
(* Filling a pipe *)

\* A pipe's contents, the room in its last buffer and the size of it, and the bytes that
\* have to wait.
FillState == [data : Seq(Nat), room : Int, cap : Int, rest : Seq(Nat)]

\* The bytes after f, up to d, are in the pipe or wait.
Splits(s, f, d) ==
  \E e \in Nat : f <= e /\ e <= d /\ s.data = Bytes(f + 1, e) /\ s.rest = Bytes(e + 1, d)

LEMMA PutType ==
  ASSUME NEW s \in FillState, NEW b \in Nat
  PROVE  Put(s, b) \in FillState
  <1>1. Append(s.rest, b) \in Seq(Nat) /\ Append(s.data, b) \in Seq(Nat) /\ <<b>> \in Seq(Nat)
    BY DEF FillState
  <1>2. MinCap \in Int /\ MaxCap \in Int /\ MinCap - 1 \in Int /\ s.room - 1 \in Int
    BY SizesAssumption DEF FillState
  <1>3. Smaller(2 * s.cap, MaxCap) \in Int /\ Smaller(2 * s.cap, MaxCap) - 1 \in Int
    BY <1>2 DEF Smaller, FillState
  <1> QED BY <1>1, <1>2, <1>3 DEF Put, FillState

\* A byte goes to the end of what is in the pipe while nothing waits, and else to the end of
\* what waits.
LEMMA PutFlow ==
  ASSUME NEW s \in FillState, NEW f \in Nat, NEW c \in Nat, NEW d \in Nat, f <= c, c <= d,
         s.data = Bytes(f + 1, c), s.rest = Bytes(c + 1, d)
  PROVE  Splits(Put(s, d + 1), f, d + 1)
  <1>1. CASE s.rest # <<>>
    <2>1. Put(s, d + 1).data = s.data /\ Put(s, d + 1).rest = Append(s.rest, d + 1)
      BY <1>1 DEF Put, FillState
    <2>2. Append(s.rest, d + 1) = Bytes(c + 1, d + 1)
      BY BytesAppend
    <2>3. f <= c /\ c <= d + 1
      OBVIOUS
    <2> QED BY <2>1, <2>2, <2>3 DEF Splits
  <1>2. CASE s.rest = <<>>
    <2>1. c = d
      BY <1>2, BytesEmpty
    <2>2. Bytes(d + 1 + 1, d + 1) = <<>>
      <3>1. d + 1 \in Nat /\ d + 1 <= d + 1
        OBVIOUS
      <3> QED BY <3>1, BytesEmpty
    <2>3. Append(s.data, d + 1) = Bytes(f + 1, d + 1)
      BY <2>1, BytesAppend
    <2>4. <<d + 1>> = Bytes(d + 1, d + 1)
      <3>1. Append(Bytes(d + 1, d), d + 1) = Bytes(d + 1, d + 1)
        <4>1. d <= d
          OBVIOUS
        <4> QED BY <4>1, BytesAppend
      <3>2. Bytes(d + 1, d) = <<>>
        BY BytesEmpty
      <3>3. Append(<<>>, d + 1) = <<d + 1>>
        OBVIOUS
      <3> QED BY <3>1, <3>2, <3>3
    <2>5. \/ Put(s, d + 1).data = Append(s.data, d + 1) /\ Put(s, d + 1).rest = <<>>
          \/ Put(s, d + 1).data = s.data /\ Put(s, d + 1).rest = <<d + 1>>
      BY <1>2 DEF Put, FillState
    <2>6. CASE Put(s, d + 1).data = Append(s.data, d + 1) /\ Put(s, d + 1).rest = <<>>
      <3>1. f <= d + 1 /\ d + 1 <= d + 1 /\ d + 1 \in Nat
        OBVIOUS
      <3> QED BY <2>2, <2>3, <2>6, <3>1 DEF Splits
    <2>7. CASE Put(s, d + 1).data = s.data /\ Put(s, d + 1).rest = <<d + 1>>
      <3>1. f <= d /\ d <= d + 1
        OBVIOUS
      <3> QED BY <2>1, <2>4, <2>7, <3>1 DEF Splits
    <2> QED BY <2>5, <2>6, <2>7
  <1> QED BY <1>1, <1>2

\* What a write leaves behind is well formed, whatever is written.
LEMMA FilledType ==
  ASSUME NEW x, pipe[x].data \in Seq(Nat), NEW p \in Seq(Nat), NEW room \in Int, NEW cap \in Int
  PROVE  Filled(x, p, room, cap) \in FillState
  <1> DEFINE base == [data |-> pipe[x].data, room |-> room, cap |-> cap, rest |-> <<>>]
             n == Len(p)
  <1>1. n \in Nat /\ DOMAIN p = 1..n /\ \A i \in 1..n : p[i] \in Nat
    OBVIOUS
  <1>2. base \in FillState
    BY DEF FillState
  <1> HIDE DEF base, n
  <1>3. PICK it : /\ it[0] = base
                  /\ \A i \in 1..n : it[i] = Put(it[i - 1], p[i])
                  /\ Fill(base, p) = it[n]
    <2>1. Filling(n, base, p)
      BY <1>1, FillSteps
    <2> QED BY <2>1 DEF Filling
  <1> DEFINE A == {k \in 0..n : it[k] \in FillState}
  <1>4. 0 \in A
    BY <1>1, <1>2, <1>3
  <1>5. ASSUME NEW k \in 0..n, k \in A, k < n PROVE k + 1 \in A
    <2>1. k + 1 \in 1..n /\ k + 1 \in 0..n /\ (k + 1) - 1 = k
      BY <1>1, <1>5
    <2>2. it[k + 1] = Put(it[k], p[k + 1])
      BY <1>3, <2>1
    <2>3. it[k] \in FillState /\ p[k + 1] \in Nat
      BY <1>1, <1>5, <2>1
    <2> QED BY <2>1, <2>2, <2>3, PutType
  <1> HIDE DEF A
  <1>6. n \in A
    <2>1. 0..n \subseteq A
      BY <1>1, <1>4, <1>5, UpTo
    <2> QED BY <1>1, <2>1
  <1> QED BY <1>3, <1>6 DEF A, base, Filled, Fill

\* What is written comes behind what is in the pipe: as much of it as fits, and the rest waits.
LEMMA FilledFlow ==
  ASSUME NEW x, NEW f \in Nat, NEW c \in Nat, NEW d \in Nat, f <= c, c <= d,
         pipe[x].data = Bytes(f + 1, c), NEW room \in Int, NEW cap \in Int
  PROVE  Splits(Filled(x, Bytes(c + 1, d), room, cap), f, d)
  <1> DEFINE base == [data |-> pipe[x].data, room |-> room, cap |-> cap, rest |-> <<>>]
             p == Bytes(c + 1, d)
             n == d - c
  <1>1. n \in Nat /\ DOMAIN p = 1..n /\ \A i \in 1..n : p[i] = c + i
    <2>1. p \in Seq(Nat) /\ Len(p) = n /\ \A i \in 1..n : p[i] = c + i
      BY BytesAre
    <2> HIDE DEF p
    <2> QED BY <2>1
  <1>2. base \in FillState /\ base.data = Bytes(f + 1, c) /\ base.rest = <<>>
    BY BytesAre DEF FillState
  <1> HIDE DEF base, p, n
  <1>3. PICK it : /\ it[0] = base
                  /\ \A i \in 1..n : it[i] = Put(it[i - 1], p[i])
                  /\ Fill(base, p) = it[n]
    <2>1. Filling(n, base, p)
      BY <1>1, FillSteps
    <2> QED BY <2>1 DEF Filling
  <1> DEFINE A == {k \in 0..n : it[k] \in FillState /\ Splits(it[k], f, c + k)}
  <1>4. 0 \in A
    <2>1. Bytes(c + 1, c + 0) = <<>>
      BY BytesEmpty
    <2>2. f <= c /\ c <= c + 0 /\ 0 \in 0..n
      BY <1>1
    <2> QED BY <1>2, <1>3, <2>1, <2>2 DEF Splits
  <1>5. ASSUME NEW k \in 0..n, k \in A, k < n PROVE k + 1 \in A
    <2>1. k + 1 \in 1..n /\ k + 1 \in 0..n /\ (k + 1) - 1 = k /\ c + (k + 1) = (c + k) + 1
          /\ c + k \in Nat
      BY <1>1, <1>5
    <2>2. it[k + 1] = Put(it[k], c + k + 1)
      BY <1>1, <1>3, <2>1
    <2>3. it[k] \in FillState
      BY <1>5
    <2>4. PICK e \in Nat : /\ f <= e /\ e <= c + k
                           /\ it[k].data = Bytes(f + 1, e) /\ it[k].rest = Bytes(e + 1, c + k)
      BY <1>5 DEF Splits
    <2>5. Splits(it[k + 1], f, c + (k + 1))
      <3> DEFINE u == c + k
      <3>1. u \in Nat /\ e <= u /\ it[k].rest = Bytes(e + 1, u)
        BY <2>1, <2>4
      <3> HIDE DEF u
      <3>2. Splits(Put(it[k], u + 1), f, u + 1)
        BY <2>3, <2>4, <3>1, PutFlow
      <3> QED BY <2>1, <2>2, <3>2 DEF u
    <2>6. it[k + 1] \in FillState
      BY <2>1, <2>2, <2>3, PutType
    <2> QED BY <2>1, <2>5, <2>6
  <1> HIDE DEF A
  <1>6. n \in A
    <2>1. 0..n \subseteq A
      BY <1>1, <1>4, <1>5, UpTo
    <2> QED BY <1>1, <2>1
  <1>7. c + n = d
    BY DEF n
  <1>8. Filled(x, p, room, cap) = it[n]
    BY <1>3 DEF Filled, Fill, base
  <1>9. Splits(it[n], f, c + n)
    BY <1>6 DEF A
  <1>10. Splits(Filled(x, p, room, cap), f, d)
    BY <1>7, <1>8, <1>9
  <1> QED BY <1>10 DEF p
--------------------------------------------------------------------------------
(* Flattening a log *)

\* What FlattenSeq computes for the first i messages, given g for fewer.
FlatStep(g, i, l) == IF i = 1 THEN l[i] ELSE g[i - 1] \o l[i]

FlatRec(g, l, k) == g = [i \in 1..k |-> FlatStep(g, i, l)]

LEMMA FlatDefined ==
  ASSUME NEW n \in Nat, NEW l
  PROVE  \E g : FlatRec(g, l, n)
  <1> DEFINE A == {k \in 0..n : \E g : FlatRec(g, l, k)}
  <1>1. 0 \in A
    <2> DEFINE g == [i \in 1..0 |-> l]
    <2>1. g = [i \in 1..0 |-> FlatStep(g, i, l)]
      OBVIOUS
    <2> HIDE DEF g
    <2>2. FlatRec(g, l, 0)
      BY <2>1 DEF FlatRec
    <2>3. 0 \in 0..n
      OBVIOUS
    <2> QED BY <2>2, <2>3
  <1>2. ASSUME NEW k \in 0..n, k \in A, k < n PROVE k + 1 \in A
    <2>1. PICK g : g = [i \in 1..k |-> FlatStep(g, i, l)]
      BY <1>2 DEF FlatRec
    <2> DEFINE h == [i \in 1..(k + 1) |-> IF i = k + 1 THEN FlatStep(g, i, l) ELSE g[i]]
    <2>2. ASSUME NEW i \in 1..(k + 1) PROVE h[i] = FlatStep(h, i, l)
      <3>1. h[i] = FlatStep(g, i, l)
        <4>1. CASE i = k + 1
          BY <4>1
        <4>2. CASE i # k + 1
          <5>1. i \in 1..k
            BY <4>2
          <5> QED BY <2>1, <4>2, <5>1
        <4> QED BY <4>1, <4>2
      <3>2. i # 1 => h[i - 1] = g[i - 1]
        OBVIOUS
      <3> HIDE DEF h
      <3> QED BY <3>1, <3>2 DEF FlatStep
    <2>3. h = [i \in 1..(k + 1) |-> h[i]]
      OBVIOUS
    <2> HIDE DEF h
    <2>4. [i \in 1..(k + 1) |-> h[i]] = [i \in 1..(k + 1) |-> FlatStep(h, i, l)]
      BY <2>2
    <2>5. k + 1 \in 0..n
      BY <1>2
    <2>6. FlatRec(h, l, k + 1)
      BY <2>3, <2>4 DEF FlatRec
    <2> QED BY <2>5, <2>6
  <1> HIDE DEF A
  <1>3. 0..n \subseteq A
    BY <1>1, <1>2, UpTo
  <1> QED BY <1>3 DEF A

\* Flattening takes one message after the other.
Flattening(l, n) ==
  \E it : /\ it[1] = l[1]
          /\ \A i \in 2..n : it[i] = it[i - 1] \o l[i]
          /\ FlattenSeq(l) = it[n]

LEMMA FlatSteps ==
  ASSUME NEW l, NEW n \in Nat \ {0}, Len(l) = n
  PROVE  Flattening(l, n)
  <1> DEFINE g == CHOOSE g : FlatRec(g, l, n)
  <1>1. FlattenSeq(l) = g[n]
    <2>1. FlattenSeq(l) = IF Len(l) = 0 THEN l ELSE (CHOOSE h : FlatRec(h, l, Len(l)))[Len(l)]
      BY DEF FlattenSeq, FlatRec, FlatStep
    <2> QED BY <2>1
  <1>2. FlatRec(g, l, n)
    BY FlatDefined
  <1> HIDE DEF g
  <1>3. \A i \in 1..n : g[i] = FlatStep(g, i, l)
    BY <1>2 DEF FlatRec
  <1>4. g[1] = l[1] /\ \A i \in 2..n : g[i] = g[i - 1] \o l[i]
    <2>1. 1 \in 1..n /\ \A i \in 2..n : i \in 1..n /\ i # 1
      OBVIOUS
    <2> QED BY <1>3, <2>1 DEF FlatStep
  <1> QED BY <1>1, <1>4 DEF Flattening

LEMMA FlattenEmpty == FlattenSeq(<<>>) = <<>>
  BY DEF FlattenSeq

\* The text of a log with one message more.
LEMMA FlattenAppend ==
  ASSUME NEW l \in Seq(Seq(Nat)), NEW m \in Seq(Nat)
  PROVE  FlattenSeq(Append(l, m)) = FlattenSeq(l) \o m
  <1> DEFINE n == Len(l)
             k == Append(l, m)
  <1>1. /\ n \in Nat /\ Len(k) = n + 1 /\ n + 1 \in Nat \ {0}
        /\ \A i \in 1..n : k[i] = l[i]
        /\ k[n + 1] = m
    OBVIOUS
  <1>2. n = 0 => l = <<>>
    BY EmptySeq
  <1> HIDE DEF n, k
  <1>3. PICK jt : /\ jt[1] = k[1]
                  /\ \A i \in 2..(n + 1) : jt[i] = jt[i - 1] \o k[i]
                  /\ FlattenSeq(k) = jt[n + 1]
    <2>1. Flattening(k, n + 1)
      BY <1>1, FlatSteps
    <2> QED BY <2>1 DEF Flattening
  <1>4. CASE n = 0
    <2>1. FlattenSeq(k) = m
      BY <1>1, <1>3, <1>4
    <2>2. FlattenSeq(l) \o m = m
      BY <1>2, <1>4, FlattenEmpty, ConcatEmptySeq
    <2> QED BY <2>1, <2>2 DEF k
  <1>5. CASE n # 0
    <2>1. PICK it : /\ it[1] = l[1]
                    /\ \A i \in 2..n : it[i] = it[i - 1] \o l[i]
                    /\ FlattenSeq(l) = it[n]
      <3>1. n \in Nat \ {0} /\ Len(l) = n
        BY <1>1, <1>5 DEF n
      <3>2. Flattening(l, n)
        BY <3>1, FlatSteps
      <3> QED BY <3>2 DEF Flattening
    <2> DEFINE A == {i \in 0..n : i = 0 \/ it[i] = jt[i]}
    <2>2. 0 \in A
      BY <1>1
    <2>3. ASSUME NEW i \in 0..n, i \in A, i < n PROVE i + 1 \in A
      <3>1. CASE i = 0
        BY <1>1, <1>3, <2>1, <3>1, <2>3
      <3>2. CASE i # 0
        <4>1. i + 1 \in 2..n /\ i + 1 \in 2..(n + 1) /\ i + 1 \in 1..n /\ (i + 1) - 1 = i
          BY <1>1, <2>3, <3>2
        <4>2. it[i] = jt[i]
          BY <2>3, <3>2
        <4>3. it[i + 1] = it[i] \o l[i + 1] /\ jt[i + 1] = jt[i] \o k[i + 1]
          BY <1>3, <2>1, <4>1
        <4>4. it[i + 1] = jt[i + 1]
          BY <1>1, <4>1, <4>2, <4>3
        <4> QED BY <4>1, <4>4
      <3> QED BY <3>1, <3>2
    <2> HIDE DEF A
    <2>4. n \in A
      <3>1. 0..n \subseteq A
        BY <1>1, <2>2, <2>3, UpTo
      <3> QED BY <1>1, <3>1
    <2>5. it[n] = jt[n]
      BY <1>5, <2>4 DEF A
    <2>6. jt[n + 1] = jt[n] \o k[n + 1]
      <3>1. n + 1 \in 2..(n + 1) /\ (n + 1) - 1 = n
        BY <1>1, <1>5
      <3> QED BY <1>3, <3>1
    <2> QED BY <1>1, <1>3, <2>1, <2>5, <2>6 DEF k
  <1> QED BY <1>4, <1>5
--------------------------------------------------------------------------------
(* The inductive invariant *)

Messages == Seq(Nat) \ {<<>>}

PipeType == [data : Seq(Nat), room : Int, cap : Int, closed : BOOLEAN, asleep : SUBSET {"w", "r"}]
WriterType == [pc : {"idle", "write", "done"}, chunk : Seq(Nat), todo : Seq(Pipes), rest : Seq(Nat), cap : Int]
CopierType == [pc : {"read", "woken", "lines", "done"}, buf : Seq(Nat), cut : BOOLEAN, eof : BOOLEAN]
RingType == [queue : Seq(Messages), closed : BOOLEAN, flag : BOOLEAN, drained : Seq(Messages)]
RunType == [pc : {"check", "dequeue", "log", "done"}, msg : Seq(Nat)]

\* What the variables hold.
Types ==
  /\ mode \in Modes /\ taken \in Nat /\ end \in Nat
  /\ w \in WriterType
  /\ writers \in Seq(Pipes)
  /\ pipe \in [Pipes -> PipeType]
  /\ cp \in CopierType
  /\ ring \in RingType
  /\ run \in RunType
  /\ logged \in Seq(Messages)

\* The broadcaster writes to the log's pipe first; an attached client's comes behind it.
WriterLists == {<<>>, <<"log">>, <<"attach">>, <<"log", "attach">>}

\* The broadcaster has the log's pipe until StateChanged closes the streams, and that is
\* after the last byte was copied.
CopyInv ==
  /\ w.todo \in WriterLists
  /\ w.pc # "write" => w.todo = <<>>
  /\ hd \in {"idle", "wait", "clean"} =>
       /\ writers \in {<<"log">>, <<"log", "attach">>}
       /\ client = "out" => writers = <<"log">>
       /\ ~pipe["log"].closed
  /\ hd \notin {"idle", "wait"} => w.pc = "done"

\* What the Copier keeps fits its buffer, and it keeps nothing when it is done.
CopierInv ==
  /\ Len(cp.buf) <= BufSize
  /\ cp.pc = "done" => cp.buf = <<>>

\* The bytes up to cut have been logged; behind them come the Copier's buffer, the pipe and
\* what has still to be written to it, without a gap.
Flow(cut) ==
  \E b, c \in Nat :
    /\ cut <= b /\ b <= c /\ c <= taken
    /\ cp.buf = Bytes(cut + 1, b)
    /\ pipe["log"].data = Bytes(b + 1, c)
    /\ Unwritten = Bytes(c + 1, taken)

\* Only a RingLogger has a goroutine and is closed in steps.
BlockingInv(cut) ==
  mode = "blocking" =>
    /\ run.pc = "done"
    /\ hd \notin {"setclosed", "ringclose", "drain", "drainlog"}
    /\ lost = {} => FlattenSeq(logged) = Bytes(1, cut)

RingClosed == hd \in {"drain", "drainlog", "done"}

\* The messages that the ring has still to give to the driver.
Pending == IF hd = "drainlog" THEN ring.drained ELSE ring.queue

\* Every message in the ring or at the driver starts at or before the cut.
Accepted(cut) ==
  /\ \A i \in DOMAIN Pending : Head(Pending[i]) <= cut
  /\ \A i \in DOMAIN logged : Head(logged[i]) <= cut
  /\ run.pc = "log" => Head(run.msg) <= cut

\* Messages wait in the order in which they came, after all that were logged or are held.
OrderInv ==
  /\ \A i, j \in DOMAIN Pending : i < j => Before(Pending[i], Pending[j])
  /\ \A i \in DOMAIN logged, j \in DOMAIN Pending : Before(logged[i], Pending[j])
  /\ run.pc = "log" => \A j \in DOMAIN Pending : Before(run.msg, Pending[j])
  /\ late # <<>> => \A j \in DOMAIN Pending : Before(late, Pending[j])
  /\ \A i, j \in DOMAIN logged : i < j /\ logged[j] # late => Before(logged[i], logged[j])

\* Until the ring is closed the message the goroutine holds is the next and nothing is lost;
\* afterwards that message is the late one, and no other is taken.
HeldInv ==
  /\ run.pc = "log" <=> run.msg # <<>>
  /\ ring.closed <=> RingClosed
  /\ hd # "close"
  /\ hd \in {"drainlog", "done"} => ring.queue = <<>>
  /\ ~RingClosed => /\ late = <<>> /\ lost = {}
                    /\ run.pc = "log" => \A i \in DOMAIN logged : Before(logged[i], run.msg)
  /\ RingClosed /\ run.pc = "log" => run.msg = late
  /\ drv # "open" => hd = "done"
  /\ lost \subseteq {late}

RingInv(cut) == mode = "ring" => Accepted(cut) /\ OrderInv /\ HeldInv

CutInv == \E cut \in Nat : Flow(cut) /\ BlockingInv(cut) /\ RingInv(cut)

Inv == Types /\ CopyInv /\ CopierInv /\ CutInv
--------------------------------------------------------------------------------
(* Steps that leave the ring and the driver alone *)

\* The log's pipe is the next to be written to.
LogFirst == w.pc = "write" /\ w.todo # <<>> /\ Head(w.todo) = "log"

WaitingBytes == IF LogFirst THEN w.rest ELSE <<>>

LEMMA WaitingIs == CopyInv => Unwritten = WaitingBytes
  <1> SUFFICES ASSUME CopyInv PROVE Unwritten = WaitingBytes
    OBVIOUS
  <1>1. CASE w.todo \in {<<"log">>, <<"log", "attach">>}
    <2>1. Contains(w.todo, "log") /\ Head(w.todo) = "log" /\ w.todo # <<>>
      BY <1>1 DEF Contains
    <2> QED BY <2>1 DEF Unwritten, WaitingBytes, LogFirst
  <1>2. CASE w.todo \in {<<>>, <<"attach">>}
    <2>1. ~Contains(w.todo, "log") /\ ~LogFirst
      BY <1>2 DEF Contains, LogFirst
    <2> QED BY <2>1 DEF Unwritten, WaitingBytes
  <1> QED BY <1>1, <1>2 DEF CopyInv, WriterLists

LEMMA WaitingIsNext == (CopyInv => Unwritten = WaitingBytes)'
  BY WaitingIs, PTL

\* Up to the closing of the logger the handler does nothing to the ring and the driver.
EarlyHandler == {"idle", "wait", "clean", "copier"}

SameRing ==
  /\ UNCHANGED <<mode, ring, run, logged, drv, late, lost>>
  /\ hd' = hd \/ (hd \in EarlyHandler /\ hd' \in EarlyHandler \cup {CloseLogger})

LEMMA RingKeeps ==
  ASSUME NEW cut, SameRing, BlockingInv(cut), RingInv(cut)
  PROVE  BlockingInv(cut)' /\ RingInv(cut)'
  <1>1. Pending' = Pending /\ (RingClosed <=> RingClosed')
        /\ (mode = "ring" /\ hd' = "close" => hd = "close")
        /\ (hd \in {"drainlog", "done"} <=> hd' \in {"drainlog", "done"})
        /\ (hd = "done" <=> hd' = "done")
    BY DEF SameRing, EarlyHandler, CloseLogger, Pending, RingClosed
  <1>2. BlockingInv(cut)'
    BY DEF BlockingInv, SameRing, EarlyHandler, CloseLogger
  <1>3. ASSUME mode = "ring" PROVE (Accepted(cut) /\ OrderInv /\ HeldInv)'
    <2>1. Accepted(cut) /\ OrderInv /\ HeldInv
      BY <1>3 DEF RingInv
    <2>2. Accepted(cut)' /\ OrderInv'
      BY <1>1, <2>1 DEF Accepted, OrderInv, SameRing, Before
    <2>3. HeldInv'
      BY <1>1, <1>3, <2>1 DEF HeldInv, SameRing, Before
    <2> QED BY <2>2, <2>3
  <1>4. mode' = mode
    BY DEF SameRing
  <1> QED BY <1>2, <1>3, <1>4 DEF RingInv

\* The same bytes are on the way.
SameFlow ==
  /\ taken' = taken
  /\ cp'.buf = cp.buf
  /\ pipe'["log"].data = pipe["log"].data
  /\ WaitingBytes' = WaitingBytes

LEMMA FlowKeeps ==
  ASSUME NEW cut, CopyInv, CopyInv', SameFlow, Flow(cut)
  PROVE  Flow(cut)'
  <1>1. Unwritten' = Unwritten
    BY WaitingIs, WaitingIsNext DEF SameFlow
  <1> QED BY <1>1 DEF Flow, SameFlow

LEMMA BothKeep ==
  ASSUME CopyInv, CopyInv', SameFlow, SameRing, CutInv
  PROVE  CutInv'
  BY FlowKeeps, RingKeeps DEF CutInv

\* Initially nothing is on the way.
LEMMA InitInv == Init => Inv
  <1> SUFFICES ASSUME Init PROVE Inv
    OBVIOUS
  <1>1. Types
    <2>1. <<>> \in Seq(Nat) /\ <<>> \in Seq(Pipes) /\ <<>> \in Seq(Messages) /\ <<"log">> \in Seq(Pipes)
      BY DEF Pipes
    <2>2. NewPipe \in PipeType
      BY <2>1, SizesAssumption DEF NewPipe, PipeType
    <2>3. pipe \in [Pipes -> PipeType]
      BY <2>2 DEF Init
    <2>4. w \in WriterType /\ cp \in CopierType /\ ring \in RingType /\ run \in RunType
      BY <2>1 DEF Init, WriterType, CopierType, RingType, RunType
    <2> QED BY <2>1, <2>3, <2>4, SizesAssumption DEF Init, Types
  <1>2. CopyInv
    BY DEF Init, CopyInv, WriterLists, NewPipe, Pipes
  <1>3. CopierInv
    BY SizesAssumption DEF Init, CopierInv
  <1>4. Flow(0)
    <2>1. Bytes(0 + 1, 0) = <<>>
      BY BytesEmpty
    <2>2. Unwritten = <<>>
      BY <1>2, WaitingIs DEF WaitingBytes, LogFirst, Init
    <2>3. pipe["log"].data = <<>> /\ cp.buf = <<>> /\ taken = 0
      BY DEF Init, Pipes, NewPipe
    <2> QED BY <2>1, <2>2, <2>3 DEF Flow
  <1>5. BlockingInv(0)
    <2>1. Bytes(1, 0) = <<>>
      <3>1. Bytes(0 + 1, 0) = <<>> /\ 0 + 1 = 1
        BY BytesEmpty
      <3> QED BY <3>1
    <2> QED BY <2>1, FlattenEmpty DEF Init, BlockingInv
  <1>6. RingInv(0)
    <2>1. Pending = <<>> /\ DOMAIN <<>> = {} /\ logged = <<>>
      BY DEF Init, Pending
    <2>2. Accepted(0) /\ OrderInv
      BY <2>1 DEF Accepted, OrderInv, Init
    <2>3. HeldInv
      BY <2>1 DEF HeldInv, Init, RingClosed
    <2> QED BY <2>2, <2>3 DEF RingInv
  <1> QED BY <1>1, <1>2, <1>3, <1>4, <1>5, <1>6 DEF Inv, CutInv
--------------------------------------------------------------------------------
(* CopyToPipe and the broadcaster *)

\* Before the streams are closed the goroutine that copies has not ended, and the reverse.
LEMMA Copying ==
  ASSUME CopyInv, w.pc # "done"
  PROVE  hd \in {"idle", "wait"} /\ writers \in {<<"log">>, <<"log", "attach">>} /\ ~pipe["log"].closed
  BY DEF CopyInv

\* Nothing waits to be written: all bytes taken are in the pipe or beyond.
LEMMA NothingWaits ==
  ASSUME Types, CopyInv, ~LogFirst, NEW c \in Nat, c <= taken, Unwritten = Bytes(c + 1, taken)
  PROVE  c = taken
  <1>1. Bytes(c + 1, taken) = <<>>
    BY WaitingIs DEF WaitingBytes
  <1> QED BY <1>1, BytesEmpty DEF Types

LEMMA ProcessExitsInv ==
  ASSUME Inv, ProcessExits
  PROVE  Inv'
  <1>1. Types'
    <2>1. end' \in Nat
      BY SizesAssumption DEF ProcessExits, Inv, Types
    <2> QED BY <2>1 DEF ProcessExits, Inv, Types
  <1>2. CopyInv' /\ CopierInv'
    BY DEF ProcessExits, Inv, CopyInv, CopierInv
  <1>3. SameFlow /\ SameRing
    BY DEF ProcessExits, SameFlow, SameRing, WaitingBytes, LogFirst
  <1> QED BY <1>1, <1>2, <1>3, BothKeep DEF Inv

LEMMA CopyChunkInv ==
  ASSUME Inv, CopyChunk
  PROVE  Inv'
  <1>1. w.pc = "idle" /\ w.todo = <<>> /\ Types /\ CopyInv
    BY DEF CopyChunk, Inv, CopyInv
  <1>2. PICK n \in 1..ChunkSize :
          /\ taken' = taken + n
          /\ w' = [w EXCEPT !.pc = "write", !.chunk = Bytes(taken + 1, taken + n), !.todo = writers,
                            !.rest = Bytes(taken + 1, taken + n)]
    BY DEF CopyChunk
  <1>3. n \in Nat /\ taken \in Nat /\ taken + n \in Nat /\ taken <= taken + n
    BY <1>1, SizesAssumption DEF Types
  <1>4. Bytes(taken + 1, taken + n) \in Seq(Nat)
    BY <1>3, BytesAre
  <1>5. w' \in WriterType /\ w'.pc = "write" /\ w'.todo = writers /\ w'.rest = Bytes(taken + 1, taken + n)
    BY <1>1, <1>2, <1>4 DEF Types, WriterType
  <1>6. /\ UNCHANGED <<mode, end, exited, writers, pipe, cp, ring, run, logged, drv, hd, client, late, lost>>
    BY DEF CopyChunk
  <1>7. writers \in {<<"log">>, <<"log", "attach">>} /\ hd \in {"idle", "wait"} /\ ~pipe["log"].closed
    BY <1>1, Copying
  <1>8. Types'
    BY <1>1, <1>2, <1>3, <1>5, <1>6 DEF Types
  <1>9. CopyInv'
    BY <1>1, <1>5, <1>6, <1>7 DEF CopyInv, WriterLists
  <1>10. CopierInv'
    BY <1>6 DEF Inv, CopierInv
  <1>11. Unwritten' = Bytes(taken + 1, taken + n)
    <2>1. Unwritten' = WaitingBytes'
      BY <1>9, WaitingIsNext
    <2>2. LogFirst'
      BY <1>5, <1>7 DEF LogFirst
    <2> QED BY <1>5, <2>1, <2>2 DEF WaitingBytes
  <1>12. SameRing
    BY <1>6 DEF SameRing
  <1>13. CutInv'
    <2>1. PICK cut \in Nat : Flow(cut) /\ BlockingInv(cut) /\ RingInv(cut)
      BY DEF Inv, CutInv
    <2>2. PICK b, c \in Nat : /\ cut <= b /\ b <= c /\ c <= taken
                              /\ cp.buf = Bytes(cut + 1, b)
                              /\ pipe["log"].data = Bytes(b + 1, c)
                              /\ Unwritten = Bytes(c + 1, taken)
      BY <2>1 DEF Flow
    <2>3. c = taken
      <3>1. ~LogFirst
        BY <1>1 DEF LogFirst
      <3> QED BY <1>1, <2>2, <3>1, NothingWaits
    <2>4. Flow(cut)'
      BY <1>2, <1>3, <1>6, <1>11, <2>2, <2>3 DEF Flow
    <2> QED BY <1>12, <2>1, <2>4, RingKeeps DEF CutInv
  <1> QED BY <1>8, <1>9, <1>10, <1>13 DEF Inv

\* What is left of a sequence of one or two.
LEMMA Tails ==
  ASSUME NEW S, NEW x \in S, NEW y \in S
  PROVE  /\ Tail(<<x>>) = <<>> /\ Tail(<<x, y>>) = <<y>>
         /\ SubSeq(<<x, y>>, 1, 1) = <<x>> /\ SubSeq(<<x, y>>, 3, 2) = <<>>
  <1>1. <<x>> \in Seq(S) /\ <<y>> \in Seq(S) /\ <<x, y>> \in Seq(S)
    OBVIOUS
  <1>2. Tail(<<x>>) \in Seq(S) /\ Len(Tail(<<x>>)) = 0
    BY <1>1
  <1>3. Tail(<<x>>) = <<>>
    BY <1>2, EmptySeq
  <1>4. Tail(<<x, y>>) \in Seq(S) /\ Len(Tail(<<x, y>>)) = 1 /\ Tail(<<x, y>>)[1] = y
    BY <1>1
  <1>5. Len(<<y>>) = 1 /\ <<y>>[1] = y /\ Len(<<x>>) = 1 /\ <<x>>[1] = x
    OBVIOUS
  <1>6. Tail(<<x, y>>) = <<y>>
    BY <1>1, <1>4, <1>5, SeqEqual
  <1>7. SubSeq(<<x, y>>, 1, 1) \in Seq(S) /\ Len(SubSeq(<<x, y>>, 1, 1)) = 1
        /\ SubSeq(<<x, y>>, 1, 1)[1] = x
    BY <1>1
  <1>8. SubSeq(<<x, y>>, 1, 1) = <<x>>
    <2> DEFINE t == SubSeq(<<x, y>>, 1, 1)
               u == <<x>>
    <2>1. t \in Seq(S) /\ Len(t) = 1 /\ t[1] = x /\ u \in Seq(S) /\ Len(u) = 1 /\ u[1] = x
      BY <1>1, <1>5, <1>7
    <2> HIDE DEF t, u
    <2>2. t = u
      BY <2>1, SeqEqual
    <2> QED BY <2>2 DEF t, u
  <1>9. SubSeq(<<x, y>>, 3, 2) = <<>>
    BY SubSeqEmpty
  <1> QED BY <1>3, <1>6, <1>8, <1>9

\* The writer that is next, and those behind it.
LEMMA FirstWriter ==
  ASSUME Types, CopyInv, w.todo # <<>>
  PROVE  /\ Head(w.todo) \in Pipes
         /\ Tail(w.todo) \in Seq(Pipes) /\ Tail(w.todo) \in {<<>>, <<"attach">>}
         /\ Head(w.todo) = "attach" => w.todo = <<"attach">> /\ Tail(w.todo) = <<>>
  <1>1. /\ <<>> \in Seq(Pipes) /\ <<"attach">> \in Seq(Pipes)
        /\ Tail(<<"log">>) = <<>> /\ Tail(<<"attach">>) = <<>> /\ Tail(<<"log", "attach">>) = <<"attach">>
    BY Tails DEF Pipes
  <1>2. /\ Head(<<"log">>) = "log" /\ Head(<<"attach">>) = "attach"
        /\ Head(<<"log", "attach">>) = "log"
    OBVIOUS
  <1>3. w.todo \in {<<"log">>, <<"attach">>, <<"log", "attach">>}
    BY DEF CopyInv, WriterLists
  <1>4. CASE w.todo = <<"log">>
    BY <1>1, <1>2, <1>4 DEF Pipes
  <1>5. CASE w.todo = <<"attach">>
    BY <1>1, <1>2, <1>5 DEF Pipes
  <1>6. CASE w.todo = <<"log", "attach">>
    BY <1>1, <1>2, <1>6 DEF Pipes
  <1> QED BY <1>3, <1>4, <1>5, <1>6

\* Evicting the attached client leaves the log.
LEMMA Evicts ==
  /\ RemoveFirst(<<"log">>, "attach") = <<"log">>
  /\ RemoveFirst(<<"log", "attach">>, "attach") = <<"log">>
  <1>1. ~ \E i \in 1..Len(<<"log">>) : <<"log">>[i] = "attach"
    OBVIOUS
  <1>2. RemoveFirst(<<"log">>, "attach") = <<"log">>
    BY <1>1 DEF RemoveFirst
  <1> DEFINE s == <<"log", "attach">>
             I == {i \in 1..Len(s) : s[i] = "attach"}
  <1>3. I = {2}
    OBVIOUS
  <1>4. Min(I) = 2
    BY <1>3 DEF Min
  <1>5. SelectInSeq(s, LAMBDA v : v = "attach") = 2
    <2>1. SelectInSeq(s, LAMBDA v : v = "attach") = IF I # {} THEN Min(I) ELSE 0
      BY DEF SelectInSeq
    <2> HIDE DEF I
    <2> QED BY <1>3, <1>4, <2>1
  <1>6. RemoveFirst(s, "attach") = SubSeq(s, 1, 1) \o SubSeq(s, 3, 2)
    <2>1. \E i \in 1..Len(s) : s[i] = "attach"
      BY <1>3
    <2>2. RemoveFirst(s, "attach") = RemoveAt(s, SelectInSeq(s, LAMBDA v : v = "attach"))
      BY <2>1 DEF RemoveFirst
    <2>3. RemoveAt(s, 2) = SubSeq(s, 1, 1) \o SubSeq(s, 3, 2)
      BY DEF RemoveAt
    <2> QED BY <1>5, <2>2, <2>3
  <1>7. SubSeq(s, 1, 1) = <<"log">> /\ SubSeq(s, 3, 2) = <<>>
    <2>1. "log" \in Pipes /\ "attach" \in Pipes
      BY DEF Pipes
    <2> QED BY <2>1, Tails
  <1>8. <<"log">> \o <<>> = <<"log">>
    OBVIOUS
  <1> QED BY <1>2, <1>6, <1>7, <1>8

LEMMA NextWriterType ==
  ASSUME Types, CopyInv, w.todo # <<>>
  PROVE  /\ NextWriter \in WriterType
         /\ NextWriter.pc = w.pc /\ NextWriter.todo = Tail(w.todo)
  <1>1. w \in WriterType /\ w.chunk \in Seq(Nat) /\ Tail(w.todo) \in Seq(Pipes)
    BY FirstWriter DEF Types, WriterType
  <1> DEFINE t == Tail(w.todo)
             k == w.chunk
             z == 0
  <1>2. NextWriter = [w EXCEPT !.todo = t, !.rest = k, !.cap = z]
    BY DEF NextWriter
  <1>3. t \in Seq(Pipes) /\ k \in Seq(Nat) /\ z \in Int
    BY <1>1
  <1> HIDE DEF t, k, z
  <1>4. NextWriter \in WriterType /\ NextWriter.pc = w.pc /\ NextWriter.todo = t
    BY <1>1, <1>2, <1>3 DEF WriterType
  <1> QED BY <1>4 DEF t

LEMMA WriteClosedInv ==
  ASSUME Inv, WriteClosed
  PROVE  Inv'
  <1>1. Types /\ CopyInv /\ w.pc = "write" /\ w.todo # <<>> /\ pipe[Head(w.todo)].closed
    BY DEF WriteClosed, Inv
  <1>2. writers \in {<<"log">>, <<"log", "attach">>} /\ hd \in {"idle", "wait"} /\ ~pipe["log"].closed
    BY <1>1, Copying
  <1>3. Head(w.todo) = "attach" /\ w.todo = <<"attach">> /\ Tail(w.todo) = <<>>
    BY <1>1, <1>2, FirstWriter DEF Pipes
  <1>4. w' \in WriterType /\ w'.pc = "write" /\ w'.todo = <<>>
    BY <1>1, <1>3, NextWriterType DEF WriteClosed
  <1>5. writers' = <<"log">> /\ writers' \in Seq(Pipes)
    BY <1>2, <1>3, Evicts DEF WriteClosed, Pipes
  <1>6. UNCHANGED <<mode, taken, end, exited, pipe, cp, ring, run, logged, drv, hd, client, late, lost>>
    BY DEF WriteClosed
  <1>7. Types'
    BY <1>1, <1>4, <1>5, <1>6 DEF Types
  <1>8. CopyInv' /\ CopierInv'
    BY <1>1, <1>2, <1>4, <1>5, <1>6 DEF Inv, CopyInv, CopierInv, WriterLists
  <1>9. SameFlow /\ SameRing
    <2>1. ~LogFirst /\ ~LogFirst'
      BY <1>3, <1>4 DEF LogFirst
    <2> QED BY <1>6, <2>1 DEF SameFlow, SameRing, WaitingBytes
  <1> QED BY <1>7, <1>8, <1>9, BothKeep DEF Inv

\* What a write to the next pipe leaves in it and what has to wait.
WriteResult(x) ==
  IF ~(w.cap # 0) THEN Filled(x, w.rest, pipe[x].room, pipe[x].cap)
  ELSE IF Len(pipe[x].data) >= Threshold
         THEN [data |-> pipe[x].data, room |-> pipe[x].room, cap |-> pipe[x].cap, rest |-> w.rest]
         ELSE Filled(x, w.rest, Smaller(2 * w.cap, MaxCap), Smaller(2 * w.cap, MaxCap))

LEMMA NextSize ==
  ASSUME Types
  PROVE  Smaller(2 * w.cap, MaxCap) \in Int
  BY SizesAssumption DEF Types, WriterType, Smaller

LEMMA ResultType ==
  ASSUME Types, NEW x \in Pipes
  PROVE  WriteResult(x) \in FillState
  <1>1. /\ pipe[x] \in PipeType /\ w.rest \in Seq(Nat)
        /\ pipe[x].data \in Seq(Nat) /\ pipe[x].room \in Int /\ pipe[x].cap \in Int
    BY DEF Types, PipeType, WriterType
  <1>2. Filled(x, w.rest, pipe[x].room, pipe[x].cap) \in FillState
    BY <1>1, FilledType
  <1>3. Filled(x, w.rest, Smaller(2 * w.cap, MaxCap), Smaller(2 * w.cap, MaxCap)) \in FillState
    BY <1>1, NextSize, FilledType
  <1>4. [data |-> pipe[x].data, room |-> pipe[x].room, cap |-> pipe[x].cap, rest |-> w.rest] \in FillState
    BY <1>1 DEF FillState
  <1> QED BY <1>2, <1>3, <1>4 DEF WriteResult

LEMMA ResultFlow ==
  ASSUME Types, NEW x \in Pipes, NEW f \in Nat, NEW c \in Nat, f <= c, c <= taken,
         pipe[x].data = Bytes(f + 1, c), w.rest = Bytes(c + 1, taken)
  PROVE  Splits(WriteResult(x), f, taken)
  <1>1. pipe[x].room \in Int /\ pipe[x].cap \in Int /\ taken \in Nat
    BY DEF Types, PipeType
  <1>2. CASE ~(w.cap # 0)
    <2>1. WriteResult(x) = Filled(x, Bytes(c + 1, taken), pipe[x].room, pipe[x].cap)
      BY <1>2 DEF WriteResult
    <2>2. Splits(Filled(x, Bytes(c + 1, taken), pipe[x].room, pipe[x].cap), f, taken)
      BY <1>1, FilledFlow
    <2> QED BY <2>1, <2>2
  <1>3. CASE w.cap # 0 /\ Len(pipe[x].data) >= Threshold
    <2>1. WriteResult(x).data = pipe[x].data /\ WriteResult(x).rest = w.rest
      BY <1>3 DEF WriteResult
    <2> QED BY <2>1 DEF Splits
  <1>4. CASE w.cap # 0 /\ ~(Len(pipe[x].data) >= Threshold)
    <2>1. WriteResult(x) = Filled(x, Bytes(c + 1, taken), Smaller(2 * w.cap, MaxCap), Smaller(2 * w.cap, MaxCap))
      BY <1>4 DEF WriteResult
    <2>2. Splits(Filled(x, Bytes(c + 1, taken), Smaller(2 * w.cap, MaxCap), Smaller(2 * w.cap, MaxCap)), f, taken)
      BY <1>1, NextSize, FilledFlow
    <2> QED BY <2>1, <2>2
  <1> QED BY <1>2, <1>3, <1>4

\* A pipe is replaced by another.
LEMMA PipeReplaced ==
  ASSUME Types, NEW x \in Pipes, NEW r \in PipeType
  PROVE  /\ [pipe EXCEPT ![x] = r] \in [Pipes -> PipeType]
         /\ [pipe EXCEPT ![x] = r][x] = r
         /\ \A y \in Pipes : y # x => [pipe EXCEPT ![x] = r][y] = pipe[y]
  BY DEF Types

\* What WritePipe does: all is written, or the writer falls asleep with the rest.
LEMMA WritePipeIs ==
  ASSUME Inv, WritePipe
  PROVE  /\ Head(w.todo) \in Pipes /\ w.pc = "write" /\ w.todo # <<>>
         /\ \E r \in PipeType :
              /\ pipe' = [pipe EXCEPT ![Head(w.todo)] = r]
              /\ r.data = WriteResult(Head(w.todo)).data
              /\ r.closed = pipe[Head(w.todo)].closed
         /\ w' \in WriterType /\ w'.pc = "write"
         /\ \/ WriteResult(Head(w.todo)).rest = <<>> /\ w'.todo = Tail(w.todo)
            \/ w'.todo = w.todo /\ w'.rest = WriteResult(Head(w.todo)).rest
  <1> DEFINE x == Head(w.todo)
             s == WriteResult(x)
             new == [pipe[x] EXCEPT !.data = s.data, !.room = s.room, !.cap = s.cap]
  <1>1. w.pc = "write" /\ w.todo # <<>> /\ Types /\ CopyInv
    BY DEF WritePipe, Inv
  <1>2. x \in Pipes
    BY <1>1, FirstWriter
  <1>3. \/ /\ s.rest = <<>>
           /\ pipe' = [pipe EXCEPT ![x] = [new EXCEPT !.asleep = {}]]
           /\ w' = NextWriter
        \/ /\ s.rest # <<>>
           /\ pipe' = [pipe EXCEPT ![x] = [new EXCEPT !.asleep = @ \cup {"w"}]]
           /\ w' = [w EXCEPT !.rest = s.rest, !.cap = IF w.cap # 0 /\ s.rest = w.rest THEN @ ELSE s.cap]
    BY DEF WritePipe, WriteResult
  <1>4. s \in FillState
    BY <1>1, <1>2, ResultType
  <1>5. pipe[x] \in PipeType
    BY <1>1, <1>2 DEF Types
  <1> HIDE DEF s
  <1>6. new \in PipeType /\ new.data = s.data /\ new.closed = pipe[x].closed
    <2>1. s.data \in Seq(Nat) /\ s.room \in Int /\ s.cap \in Int
      BY <1>4 DEF FillState
    <2> HIDE DEF x
    <2> QED BY <1>5, <2>1 DEF PipeType
  <1> HIDE DEF new
  <1>7. CASE s.rest = <<>>
    <2> DEFINE r == [new EXCEPT !.asleep = {}]
    <2>1. r \in PipeType /\ r.data = s.data /\ r.closed = pipe[x].closed
      BY <1>6 DEF PipeType
    <2>2. pipe' = [pipe EXCEPT ![x] = r]
      BY <1>3, <1>7
    <2> HIDE DEF r
    <2>3. w' \in WriterType /\ w'.pc = "write" /\ w'.todo = Tail(w.todo)
      BY <1>1, <1>3, <1>7, NextWriterType
    <2> QED BY <1>1, <1>2, <1>7, <2>1, <2>2, <2>3 DEF s
  <1>8. CASE s.rest # <<>>
    <2> DEFINE r == [new EXCEPT !.asleep = @ \cup {"w"}]
               k == IF w.cap # 0 /\ s.rest = w.rest THEN w.cap ELSE s.cap
               q == s.rest
    <2>1. r \in PipeType /\ r.data = s.data /\ r.closed = pipe[x].closed
      BY <1>6 DEF PipeType
    <2>2. pipe' = [pipe EXCEPT ![x] = r]
      BY <1>3, <1>8
    <2> HIDE DEF r
    <2>3. w' = [w EXCEPT !.rest = q, !.cap = k]
      BY <1>3, <1>8
    <2>4. k \in Int /\ q \in Seq(Nat) /\ w \in WriterType
      BY <1>1, <1>4 DEF FillState, Types, WriterType
    <2> HIDE DEF k, q
    <2>5. w' \in WriterType /\ w'.pc = "write" /\ w'.todo = w.todo /\ w'.rest = q
      BY <1>1, <2>3, <2>4 DEF WriterType
    <2> QED BY <1>1, <1>2, <2>1, <2>2, <2>5 DEF s, q
  <1> QED BY <1>7, <1>8

LEMMA WritePipeInv ==
  ASSUME Inv, WritePipe
  PROVE  Inv'
  <1> DEFINE x == Head(w.todo)
             s == WriteResult(x)
  <1>1. x \in Pipes /\ w.pc = "write" /\ w.todo # <<>> /\ Types /\ CopyInv
    BY WritePipeIs DEF Inv
  <1>2. PICK r \in PipeType : /\ pipe' = [pipe EXCEPT ![x] = r]
                              /\ r.data = s.data /\ r.closed = pipe[x].closed
    BY WritePipeIs
  <1>3. w' \in WriterType /\ w'.pc = "write"
    BY WritePipeIs
  <1>4. \/ s.rest = <<>> /\ w'.todo = Tail(w.todo)
        \/ w'.todo = w.todo /\ w'.rest = s.rest
    BY WritePipeIs
  <1>5. UNCHANGED <<mode, taken, end, exited, writers, cp, ring, run, logged, drv, hd, client, late, lost>>
    BY DEF WritePipe
  <1>6. /\ Tail(w.todo) \in {<<>>, <<"attach">>}
        /\ x = "attach" => w.todo = <<"attach">> /\ Tail(w.todo) = <<>>
    BY <1>1, FirstWriter
  <1> HIDE DEF s
  <1>7. /\ pipe' \in [Pipes -> PipeType] /\ pipe'[x] = r
        /\ \A y \in Pipes : y # x => pipe'[y] = pipe[y]
    BY <1>1, <1>2, PipeReplaced
  <1>8. pipe'["log"].closed = pipe["log"].closed
    BY <1>2, <1>7 DEF Pipes
  <1>9. Types'
    BY <1>1, <1>3, <1>5, <1>7 DEF Types
  <1>10. w'.todo \in WriterLists
    BY <1>1, <1>4, <1>6 DEF CopyInv, WriterLists
  <1>11. CopyInv' /\ CopierInv'
    BY <1>1, <1>3, <1>5, <1>8, <1>10 DEF Inv, CopyInv, CopierInv
  <1>12. SameRing
    BY <1>5 DEF SameRing
  <1>13. CASE x = "log"
    <2>1. PICK cut \in Nat : Flow(cut) /\ BlockingInv(cut) /\ RingInv(cut)
      BY DEF Inv, CutInv
    <2>2. PICK b, c \in Nat : /\ cut <= b /\ b <= c /\ c <= taken
                              /\ cp.buf = Bytes(cut + 1, b)
                              /\ pipe["log"].data = Bytes(b + 1, c)
                              /\ Unwritten = Bytes(c + 1, taken)
      BY <2>1 DEF Flow
    <2>3. w.rest = Bytes(c + 1, taken)
      <3>1. LogFirst
        BY <1>1, <1>13 DEF LogFirst
      <3> QED BY <1>1, <2>2, <3>1, WaitingIs DEF WaitingBytes
    <2>4. PICK e \in Nat : /\ b <= e /\ e <= taken
                           /\ s.data = Bytes(b + 1, e)
                           /\ s.rest = Bytes(e + 1, taken)
      <3>1. Splits(WriteResult("log"), b, taken)
        BY <1>1, <1>13, <2>2, <2>3, ResultFlow
      <3> QED BY <1>13, <3>1 DEF s, Splits
    <2>5. Unwritten' = Bytes(e + 1, taken)
      <3>1. Unwritten' = WaitingBytes'
        BY <1>11, WaitingIsNext
      <3>2. CASE s.rest = <<>> /\ w'.todo = Tail(w.todo)
        <4>1. ~LogFirst'
          <5>1. w'.todo = <<>> \/ (w'.todo = <<"attach">> /\ Head(<<"attach">>) = "attach")
            BY <1>6, <3>2
          <5> QED BY <5>1 DEF LogFirst
        <4> QED BY <2>4, <3>1, <3>2, <4>1 DEF WaitingBytes
      <3>3. CASE w'.todo = w.todo /\ w'.rest = s.rest
        <4>1. LogFirst'
          BY <1>1, <1>3, <1>13, <3>3 DEF LogFirst
        <4> QED BY <2>4, <3>1, <3>3, <4>1 DEF WaitingBytes
      <3> QED BY <1>4, <3>2, <3>3
    <2>6. pipe'["log"].data = Bytes(b + 1, e)
      BY <1>2, <1>7, <1>13, <2>4
    <2>7. Flow(cut)'
      BY <1>5, <2>2, <2>4, <2>5, <2>6 DEF Flow
    <2>8. CutInv'
      BY <1>12, <2>1, <2>7, RingKeeps DEF CutInv
    <2> QED BY <1>9, <1>11, <2>8 DEF Inv
  <1>14. CASE x = "attach"
    <2>1. ~LogFirst /\ ~LogFirst'
      <3>1. w'.todo = <<>> \/ w'.todo = <<"attach">>
        BY <1>4, <1>6, <1>14
      <3> QED BY <1>14, <3>1 DEF LogFirst
    <2>2. pipe'["log"].data = pipe["log"].data
      BY <1>7, <1>14 DEF Pipes
    <2>3. SameFlow
      BY <1>5, <2>1, <2>2 DEF SameFlow, WaitingBytes
    <2> QED BY <1>9, <1>11, <1>12, <2>3, BothKeep DEF Inv
  <1> QED BY <1>1, <1>13, <1>14 DEF Pipes

LEMMA WriteDoneInv ==
  ASSUME Inv, WriteDone \/ CopyDone
  PROVE  Inv'
  <1>1. Types /\ CopyInv /\ w.todo = <<>> /\ w.pc # "done"
    BY DEF WriteDone, CopyDone, Inv, CopyInv
  <1>2. w' \in WriterType /\ w'.todo = <<>> /\ w'.pc \in {"idle", "done"}
    <2>1. CASE WriteDone
      <3> DEFINE z == <<>>
      <3>1. w' = [w EXCEPT !.pc = "idle", !.chunk = z, !.rest = z]
        BY <2>1 DEF WriteDone
      <3>2. z \in Seq(Nat) /\ w \in WriterType
        BY <1>1 DEF Types
      <3> HIDE DEF z
      <3> QED BY <1>1, <3>1, <3>2 DEF WriterType
    <2>2. CASE CopyDone
      <3>1. w' = [w EXCEPT !.pc = "done"] /\ w \in WriterType
        BY <1>1, <2>2 DEF CopyDone, Types
      <3> QED BY <1>1, <3>1 DEF WriterType
    <2> QED BY <2>1, <2>2
  <1>3. UNCHANGED <<mode, taken, end, exited, writers, pipe, cp, ring, run, logged, drv, hd, client, late, lost>>
    BY DEF WriteDone, CopyDone
  <1>4. hd \in {"idle", "wait"}
    BY <1>1, Copying
  <1>5. Types'
    BY <1>1, <1>2, <1>3 DEF Types
  <1>6. CopyInv' /\ CopierInv'
    BY <1>1, <1>2, <1>3, <1>4 DEF Inv, CopyInv, CopierInv, WriterLists
  <1>7. SameFlow /\ SameRing
    BY <1>1, <1>2, <1>3 DEF SameFlow, SameRing, WaitingBytes, LogFirst
  <1> QED BY <1>5, <1>6, <1>7, BothKeep DEF Inv
--------------------------------------------------------------------------------
(* The attached client and the handler up to the closing of the logger *)

\* A sequence of two, put together.
LEMMA Pair ==
  ASSUME NEW S, NEW x \in S, NEW y \in S
  PROVE  Append(<<x>>, y) = <<x, y>>
  <1> DEFINE s == Append(<<x>>, y)
             u == <<x, y>>
  <1>1. <<x>> \in Seq(S) /\ Len(<<x>>) = 1 /\ <<x>>[1] = x
    OBVIOUS
  <1>2. s \in Seq(S) /\ Len(s) = 2 /\ s[1] = x /\ s[2] = y
    BY <1>1
  <1>3. u \in Seq(S) /\ Len(u) = 2 /\ u[1] = x /\ u[2] = y
    OBVIOUS
  <1> HIDE DEF s, u
  <1>4. s = u
    BY <1>2, <1>3, SeqEqual
  <1> QED BY <1>4 DEF s, u

LEMMA AttachInv ==
  ASSUME Inv, Attach
  PROVE  Inv'
  <1>1. Types /\ CopyInv /\ client = "out" /\ hd \in {"idle", "wait"} /\ client' = "in"
    BY DEF Attach, Inv
  <1>2. writers = <<"log">>
    BY <1>1 DEF CopyInv
  <1>3. writers' = <<"log", "attach">>
    <2>1. "log" \in Pipes /\ "attach" \in Pipes
      BY DEF Pipes
    <2>2. Append(<<"log">>, "attach") = <<"log", "attach">>
      BY <2>1, Pair
    <2> QED BY <1>2, <2>2 DEF Attach
  <1>4. UNCHANGED <<mode, taken, end, exited, w, pipe, cp, ring, run, logged, drv, hd, late, lost>>
    BY DEF Attach
  <1>5. Types'
    BY <1>1, <1>3, <1>4 DEF Types, Pipes
  <1>6. CopyInv' /\ CopierInv'
    BY <1>1, <1>3, <1>4 DEF Inv, CopyInv, CopierInv
  <1>7. SameFlow /\ SameRing
    BY <1>4 DEF SameFlow, SameRing, WaitingBytes, LogFirst
  <1> QED BY <1>5, <1>6, <1>7, BothKeep DEF Inv

\* Reading from a pipe that has the bytes leaves one that is well formed.
LEMMA TakeType ==
  ASSUME Types, NEW x \in Pipes, NEW n \in 0..Len(pipe[x].data)
  PROVE  /\ Take(x, n) \in PipeType
         /\ Take(x, n).data = SubSeq(pipe[x].data, n + 1, Len(pipe[x].data))
         /\ Take(x, n).closed = pipe[x].closed
  <1> DEFINE left == SubSeq(pipe[x].data, n + 1, Len(pipe[x].data))
             d == pipe[x].data
  <1>1. pipe[x] \in PipeType /\ d \in Seq(Nat)
    BY DEF Types, PipeType
  <1>2. left \in Seq(Nat)
    <2>1. \A i \in (n + 1)..Len(d) : d[i] \in Nat
      BY <1>1
    <2>2. n + 1 \in Int /\ Len(d) \in Int
      BY <1>1
    <2> HIDE DEF d
    <2>3. SubSeq(d, n + 1, Len(d)) \in Seq(Nat)
      BY <2>1, <2>2, SubSeqProperties
    <2> QED BY <2>3 DEF d
  <1> HIDE DEF left, d
  <1> DEFINE k == Wake(x)
  <1>3. k \in PipeType /\ k.closed = pipe[x].closed
    BY <1>1 DEF Wake, PipeType
  <1>4. Take(x, n) = [k EXCEPT !.data = left, !.room = IF left = <<>> THEN 0 ELSE @,
                               !.cap = IF left = <<>> THEN 0 ELSE @]
    BY DEF Take, left
  <1> HIDE DEF k
  <1> DEFINE ro == IF left = <<>> THEN 0 ELSE k.room
             ca == IF left = <<>> THEN 0 ELSE k.cap
  <1>5. Take(x, n) = [k EXCEPT !.data = left, !.room = ro, !.cap = ca]
    BY <1>4
  <1>6. ro \in Int /\ ca \in Int
    BY <1>3 DEF PipeType
  <1> HIDE DEF ro, ca
  <1>7. Take(x, n) \in PipeType /\ Take(x, n).data = left /\ Take(x, n).closed = k.closed
    BY <1>2, <1>3, <1>5, <1>6 DEF PipeType
  <1> QED BY <1>3, <1>7 DEF left

\* Falling asleep on a pipe, and closing it.
LEMMA AsleepType ==
  ASSUME Types, NEW x \in Pipes
  PROVE  /\ [pipe[x] EXCEPT !.asleep = @ \cup {"r"}] \in PipeType
         /\ [pipe[x] EXCEPT !.asleep = @ \cup {"r"}].data = pipe[x].data
         /\ [pipe[x] EXCEPT !.asleep = @ \cup {"r"}].closed = pipe[x].closed
         /\ [Wake(x) EXCEPT !.closed = TRUE] \in PipeType
         /\ [Wake(x) EXCEPT !.closed = TRUE].data = pipe[x].data
  <1>1. pipe[x] \in PipeType
    BY DEF Types
  <1> QED BY <1>1 DEF PipeType, Wake

LEMMA ClientInv ==
  ASSUME Inv, ClientRead \/ ClientLeaves
  PROVE  Inv'
  <1>1. Types /\ CopyInv /\ client # "out"
    BY DEF ClientRead, ClientLeaves, Inv
  <1>2. pipe["attach"] \in PipeType /\ pipe["attach"].data \in Seq(Nat) /\ "attach" \in Pipes
    BY <1>1 DEF Types, PipeType, Pipes
  <1>3. /\ client' # "out"
        /\ pipe' = pipe \/ \E r \in PipeType : pipe' = [pipe EXCEPT !["attach"] = r]
    <2>1. CASE ClientRead
      <3>1. Take("attach", Len(pipe["attach"].data)) \in PipeType
        BY <1>1, <1>2, TakeType
      <3>2. \/ pipe' = pipe
            \/ pipe' = [pipe EXCEPT !["attach"].asleep = @ \cup {"r"}]
            \/ pipe' = [pipe EXCEPT !["attach"] = Take("attach", Len(pipe["attach"].data))]
        BY <2>1 DEF ClientRead
      <3>3. [pipe EXCEPT !["attach"].asleep = @ \cup {"r"}]
              = [pipe EXCEPT !["attach"] = [pipe["attach"] EXCEPT !.asleep = @ \cup {"r"}]]
        BY <1>1, <1>2 DEF Types
      <3>4. [pipe["attach"] EXCEPT !.asleep = @ \cup {"r"}] \in PipeType
        BY <1>1, <1>2, AsleepType
      <3>5. client' # "out"
        BY <1>1, <2>1 DEF ClientRead
      <3> QED BY <3>1, <3>2, <3>3, <3>4, <3>5
    <2>2. CASE ClientLeaves
      <3>1. [Wake("attach") EXCEPT !.closed = TRUE] \in PipeType
        BY <1>1, <1>2, AsleepType
      <3> QED BY <2>2, <3>1 DEF ClientLeaves
    <2> QED BY <2>1, <2>2
  <1>4. UNCHANGED <<mode, taken, end, exited, w, writers, cp, ring, run, logged, drv, hd, late, lost>>
    BY DEF ClientRead, ClientLeaves
  <1>5. pipe' \in [Pipes -> PipeType] /\ pipe'["log"] = pipe["log"]
    <2>1. CASE pipe' = pipe
      BY <1>1, <2>1 DEF Types
    <2>2. CASE \E r \in PipeType : pipe' = [pipe EXCEPT !["attach"] = r]
      BY <1>1, <1>2, <2>2, PipeReplaced DEF Pipes
    <2> QED BY <1>3, <2>1, <2>2
  <1>6. Types'
    BY <1>1, <1>4, <1>5 DEF Types
  <1>7. CopyInv' /\ CopierInv'
    BY <1>1, <1>3, <1>4, <1>5 DEF Inv, CopyInv, CopierInv
  <1>8. SameFlow /\ SameRing
    BY <1>4, <1>5 DEF SameFlow, SameRing, WaitingBytes, LogFirst
  <1> QED BY <1>6, <1>7, <1>8, BothKeep DEF Inv

LEMMA HandlerWaitsInv ==
  ASSUME Inv, HandleExit \/ StreamsWait \/ CopierDone \/ CopierTimeout
  PROVE  Inv'
  <1>1. /\ Types /\ CopyInv
        /\ UNCHANGED <<mode, taken, end, exited, w, writers, pipe, cp, ring, run, logged, drv, client, late, lost>>
    BY DEF HandleExit, StreamsWait, CopierDone, CopierTimeout, Handler, Inv
  <1>2. \/ hd = "idle" /\ hd' = "wait"
        \/ hd = "wait" /\ w.pc = "done" /\ hd' = "clean"
        \/ hd = "copier" /\ hd' = CloseLogger
    BY DEF HandleExit, StreamsWait, CopierDone, CopierTimeout, Handler
  <1>3. CloseLogger \in {"setclosed", "close"}
    BY DEF CloseLogger
  <1>4. Types'
    BY <1>1 DEF Types
  <1>5. CopyInv' /\ CopierInv'
    BY <1>1, <1>2, <1>3 DEF Inv, CopyInv, CopierInv
  <1>6. SameFlow /\ SameRing
    BY <1>1, <1>2 DEF SameFlow, SameRing, WaitingBytes, LogFirst, EarlyHandler
  <1> QED BY <1>4, <1>5, <1>6, BothKeep DEF Inv

LEMMA CleanStreamsInv ==
  ASSUME Inv, CleanStreams
  PROVE  Inv'
  <1>1. /\ Types /\ CopyInv /\ hd = "clean" /\ hd' = "copier" /\ writers' = <<>> /\ w.pc = "done"
        /\ UNCHANGED <<mode, taken, end, exited, w, cp, ring, run, logged, drv, client, late, lost>>
    BY DEF CleanStreams, Handler, Inv, CopyInv
  <1>2. pipe' = [x \in Pipes |-> IF Contains(writers, x) THEN [Wake(x) EXCEPT !.closed = TRUE] ELSE pipe[x]]
    BY DEF CleanStreams
  <1>3. ASSUME NEW x \in Pipes PROVE pipe'[x] \in PipeType /\ pipe'[x].data = pipe[x].data
    <2>1. pipe'[x] = pipe[x] \/ pipe'[x] = [Wake(x) EXCEPT !.closed = TRUE]
      BY <1>2
    <2>2. pipe[x] \in PipeType
      BY <1>1 DEF Types
    <2>3. CASE pipe'[x] = pipe[x]
      BY <2>2, <2>3
    <2>4. CASE pipe'[x] = [Wake(x) EXCEPT !.closed = TRUE]
      BY <1>1, <2>4, AsleepType
    <2> QED BY <2>1, <2>3, <2>4
  <1>4. pipe' \in [Pipes -> PipeType]
    BY <1>2, <1>3
  <1>5. Types'
    BY <1>1, <1>4 DEF Types
  <1>6. CopyInv' /\ CopierInv'
    BY <1>1 DEF Inv, CopyInv, CopierInv
  <1>7. SameFlow /\ SameRing
    BY <1>1, <1>3 DEF SameFlow, SameRing, WaitingBytes, LogFirst, EarlyHandler, Pipes
  <1> QED BY <1>5, <1>6, <1>7, BothKeep DEF Inv
--------------------------------------------------------------------------------
(* The Copier *)

\* A message that starts behind the cut, and its first byte.
LEMMA NextMessage ==
  ASSUME NEW cut \in Nat, NEW e \in Nat, cut < e
  PROVE  Bytes(cut + 1, e) \in Messages /\ Head(Bytes(cut + 1, e)) = cut + 1
  <1> DEFINE m == Bytes(cut + 1, e)
  <1>1. m \in Seq(Nat) /\ Len(m) = e - cut /\ m[1] = cut + 1
    <2>1. cut <= e /\ 1 \in 1..(e - cut)
      OBVIOUS
    <2> QED BY <2>1, BytesAre
  <1> HIDE DEF m
  <1>2. m # <<>> /\ Head(m) = m[1]
    BY <1>1
  <1> QED BY <1>1, <1>2 DEF m, Messages

\* The first bytes of messages can be compared.
LEMMA Heads ==
  ASSUME NEW m \in Messages
  PROVE  Head(m) \in Nat
  BY DEF Messages

\* What a list of messages holds when one more comes.
LEMMA OneMore ==
  ASSUME NEW q \in Seq(Messages), NEW m \in Messages
  PROVE  /\ Append(q, m) \in Seq(Messages)
         /\ \A i \in DOMAIN q : i \in DOMAIN Append(q, m) /\ Append(q, m)[i] = q[i] /\ q[i] \in Messages
         /\ Len(q) + 1 \in DOMAIN Append(q, m) /\ Append(q, m)[Len(q) + 1] = m
         /\ \A i \in DOMAIN Append(q, m) : (i \in DOMAIN q /\ i < Len(q) + 1) \/ i = Len(q) + 1
  OBVIOUS

\* The bytes up to e have been logged: to the driver, or to the ring, which may drop them.
LEMMA LogKeeps ==
  ASSUME Types, NEW cut \in Nat, NEW e \in Nat, cut < e, BlockingInv(cut), RingInv(cut),
         UNCHANGED <<mode, run, drv, hd, late>>, Log(Bytes(cut + 1, e))
  PROVE  ring' \in RingType /\ logged' \in Seq(Messages) /\ BlockingInv(e)' /\ RingInv(e)'
  <1> DEFINE m == Bytes(cut + 1, e)
  <1>1. m \in Messages /\ m \in Seq(Nat) /\ Head(m) = cut + 1
    BY NextMessage DEF Messages
  <1>2. \/ logged' = logged
        \/ mode = "blocking" /\ logged' = Append(logged, m) /\ lost' = lost
    BY DEF Log, DriverLog
  <1>3. \/ ring' = ring
        \/ mode # "blocking" /\ ~ring.closed /\ ring' = [ring EXCEPT !.queue = Append(@, m)]
    BY DEF Log
  <1>4. mode = "blocking" => (logged' = Append(logged, m) /\ lost' = lost) \/ lost' # {}
    BY DEF Log, DriverLog
  <1>5. mode # "blocking" => logged' = logged /\ lost' = lost
    BY DEF Log
  <1> HIDE DEF m
  <1>6. logged' \in Seq(Messages)
    <2>1. logged \in Seq(Messages)
      BY DEF Types
    <2>2. Append(logged, m) \in Seq(Messages)
      BY <1>1, <2>1, OneMore
    <2> QED BY <1>2, <2>1, <2>2
  <1>7. ring' \in RingType
    <2> DEFINE q == Append(ring.queue, m)
    <2>1. ring \in RingType /\ ring.queue \in Seq(Messages)
      BY DEF Types, RingType
    <2>2. q \in Seq(Messages)
      BY <1>1, <2>1, OneMore
    <2>3. ring' = ring \/ ring' = [ring EXCEPT !.queue = q]
      BY <1>3
    <2> HIDE DEF q
    <2> QED BY <2>1, <2>2, <2>3 DEF RingType
  <1>8. BlockingInv(e)'
    <2>1. ASSUME mode = "blocking", lost' = {} PROVE FlattenSeq(logged') = Bytes(1, e)
      <3>1. logged' = Append(logged, m) /\ lost = {}
        BY <1>4, <2>1
      <3>2. FlattenSeq(logged) = Bytes(1, cut)
        BY <2>1, <3>1 DEF BlockingInv
      <3>3. logged \in Seq(Seq(Nat))
        BY DEF Types, Messages
      <3>4. FlattenSeq(Append(logged, m)) = Bytes(1, cut) \o m
        BY <1>1, <3>2, <3>3, FlattenAppend
      <3>5. Bytes(0 + 1, cut) \o Bytes(cut + 1, e) = Bytes(0 + 1, e)
        <4>1. 0 \in Nat /\ 0 <= cut /\ cut <= e
          OBVIOUS
        <4> QED BY <4>1, BytesConcat
      <3>6. 0 + 1 = 1
        OBVIOUS
      <3> QED BY <3>1, <3>4, <3>5, <3>6 DEF m
    <2> QED BY <2>1 DEF BlockingInv
  <1>9. ASSUME mode = "ring" PROVE (Accepted(e) /\ OrderInv /\ HeldInv)'
    <2>1. Accepted(cut) /\ OrderInv /\ HeldInv /\ logged' = logged /\ lost' = lost
      BY <1>5, <1>9 DEF RingInv
    <2>2. /\ Pending \in Seq(Messages)
          /\ \A i \in DOMAIN Pending : Head(Pending[i]) \in Nat
          /\ \A i \in DOMAIN logged : Head(logged[i]) \in Nat
          /\ run.pc = "log" => Head(run.msg) \in Nat
      <3>1. Pending \in Seq(Messages) /\ logged \in Seq(Messages)
        BY DEF Types, RingType, Pending
      <3>2. run.pc = "log" => run.msg \in Messages
        BY <2>1 DEF Types, RunType, Messages, HeldInv
      <3> QED BY <3>1, <3>2, Heads
    <2>3. CASE ring' = ring
      <3>1. Pending' = Pending
        BY <2>3 DEF Pending
      <3>2. Accepted(e)'
        BY <2>1, <2>2, <3>1 DEF Accepted
      <3>3. OrderInv'
        BY <2>1, <3>1 DEF OrderInv, Before
      <3>4. HeldInv'
        BY <2>1, <2>3 DEF HeldInv, RingClosed, Before
      <3> QED BY <3>2, <3>3, <3>4
    <2>4. CASE ~ring.closed /\ ring' = [ring EXCEPT !.queue = Append(@, m)]
      <3>1. ~RingClosed /\ late = <<>>
        BY <2>1, <2>4 DEF HeldInv
      <3> DEFINE k == Len(Pending) + 1
      <3>2. ring'.queue = Append(ring.queue, m) /\ ring'.closed = ring.closed
        BY <2>4 DEF Types, RingType
      <3>3. Pending' = Append(Pending, m)
        BY <3>1, <3>2 DEF Pending, RingClosed
      <3>4. \A i \in DOMAIN Pending' : (i \in DOMAIN Pending /\ i < k /\ Pending'[i] = Pending[i])
                                         \/ (i = k /\ Pending'[i] = m)
        BY <1>1, <2>2, <3>3, OneMore
      <3>5. k \in Nat
        BY <2>2
      <3> HIDE DEF k
      <3>6. Accepted(e)'
        BY <1>1, <2>1, <2>2, <3>4 DEF Accepted
      <3>7. OrderInv'
        <4>1. ASSUME NEW i \in DOMAIN Pending', NEW j \in DOMAIN Pending', i < j
              PROVE  Head(Pending'[i]) < Head(Pending'[j])
          <5>1. i \in DOMAIN Pending /\ Pending'[i] = Pending[i]
            <6>1. i # k
              <7>1. DOMAIN Pending \subseteq Nat
                BY <2>2
              <7> QED BY <3>4, <3>5, <4>1, <7>1
            <6> QED BY <3>4, <6>1
          <5>2. CASE j \in DOMAIN Pending /\ Pending'[j] = Pending[j]
            BY <2>1, <4>1, <5>1, <5>2 DEF OrderInv, Before
          <5>3. CASE Pending'[j] = m
            BY <1>1, <2>1, <2>2, <5>1, <5>3 DEF Accepted
          <5> QED BY <3>4, <5>2, <5>3
        <4>2. ASSUME NEW i \in DOMAIN logged, NEW j \in DOMAIN Pending'
              PROVE  Head(logged[i]) < Head(Pending'[j])
          BY <1>1, <2>1, <2>2, <3>4 DEF Accepted, OrderInv, Before
        <4>3. ASSUME run.pc = "log", NEW j \in DOMAIN Pending'
              PROVE  Head(run.msg) < Head(Pending'[j])
          BY <1>1, <2>1, <2>2, <3>4, <4>3 DEF Accepted, OrderInv, Before
        <4> QED BY <2>1, <3>1, <4>1, <4>2, <4>3 DEF OrderInv, Before
      <3>8. HeldInv'
        BY <2>1, <3>1, <3>2 DEF HeldInv, RingClosed, Before
      <3> QED BY <3>6, <3>7, <3>8
    <2> QED BY <1>3, <2>3, <2>4
  <1> QED BY <1>6, <1>7, <1>8, <1>9 DEF RingInv

\* What a read or the logging of a line leaves of the other components.
CopierMoves ==
  /\ UNCHANGED <<mode, taken, end, exited, w, writers, run, drv, hd, client, late>>
  /\ cp' \in CopierType
  /\ pipe' \in [Pipes -> PipeType] /\ pipe'["log"].closed = pipe["log"].closed

LEMMA CopierKeeps ==
  ASSUME Inv, CopierMoves, ring' \in RingType, logged' \in Seq(Messages)
  PROVE  Types' /\ CopyInv' /\ Unwritten' = Unwritten
  <1>1. Types'
    BY DEF Inv, Types, CopierMoves
  <1>2. CopyInv'
    BY DEF Inv, CopyInv, CopierMoves
  <1>3. Unwritten' = Unwritten
    BY DEF CopierMoves, Unwritten
  <1> QED BY <1>1, <1>2, <1>3

\* Bytes move from the pipe to the Copier's buffer, as many as have room there.
LEMMA CopierTakes ==
  ASSUME Inv, NEW n \in 0..Len(pipe["log"].data), Len(cp.buf) + n <= BufSize,
         pipe' = [pipe EXCEPT !["log"] = Take("log", n)],
         cp' = [cp EXCEPT !.buf = @ \o SubSeq(pipe["log"].data, 1, n), !.pc = "lines"],
         UNCHANGED <<mode, taken, end, exited, w, writers, ring, run, logged, drv, hd, client, late, lost>>
  PROVE  Inv'
  <1>1. Types /\ "log" \in Pipes /\ taken \in Nat
    BY DEF Inv, Types, Pipes
  <1>2. /\ Take("log", n) \in PipeType
        /\ Take("log", n).data = SubSeq(pipe["log"].data, n + 1, Len(pipe["log"].data))
        /\ Take("log", n).closed = pipe["log"].closed
    BY <1>1, TakeType
  <1>3. /\ pipe' \in [Pipes -> PipeType]
        /\ pipe'["log"].data = SubSeq(pipe["log"].data, n + 1, Len(pipe["log"].data))
        /\ pipe'["log"].closed = pipe["log"].closed
    BY <1>1, <1>2, PipeReplaced
  <1>4. PICK cut \in Nat : Flow(cut) /\ BlockingInv(cut) /\ RingInv(cut)
    BY DEF Inv, CutInv
  <1>5. PICK b, c \in Nat : /\ cut <= b /\ b <= c /\ c <= taken
                            /\ cp.buf = Bytes(cut + 1, b)
                            /\ pipe["log"].data = Bytes(b + 1, c)
                            /\ Unwritten = Bytes(c + 1, taken)
    BY <1>4 DEF Flow
  <1>6. n \in 0..(c - b) /\ Len(cp.buf) = b - cut /\ n \in Nat
    BY <1>5, BytesAre
  <1>7. /\ SubSeq(pipe["log"].data, 1, n) = Bytes(b + 1, b + n)
        /\ SubSeq(pipe["log"].data, n + 1, Len(pipe["log"].data)) = Bytes(b + n + 1, c)
    <2>1. b <= c /\ n \in 0..(c - b)
      BY <1>5, <1>6
    <2>2. /\ SubSeq(Bytes(b + 1, c), 1, n) = Bytes(b + 1, b + n)
          /\ SubSeq(Bytes(b + 1, c), n + 1, Len(Bytes(b + 1, c))) = Bytes(b + n + 1, c)
      BY ONLY <2>1, BytesSplit
    <2> QED BY <1>5, <2>2
  <1> DEFINE g == b + n
             q == Bytes(cut + 1, g)
  <1>8. g \in Nat /\ cut <= g /\ b <= g /\ g <= c
    BY <1>5, <1>6
  <1>9. cp.buf \o SubSeq(pipe["log"].data, 1, n) = q
    <2> HIDE DEF g
    <2>1. Bytes(cut + 1, b) \o Bytes(b + 1, g) = Bytes(cut + 1, g)
      BY <1>5, <1>8, BytesConcat
    <2>2. SubSeq(pipe["log"].data, 1, n) = Bytes(b + 1, g)
      BY <1>7 DEF g
    <2> QED BY <1>5, <2>1, <2>2
  <1>10. cp' = [cp EXCEPT !.buf = q, !.pc = "lines"]
    BY <1>9
  <1>11. q \in Seq(Nat) /\ Len(q) = g - cut
    BY <1>8, BytesAre
  <1>12. Len(q) <= BufSize
    BY <1>6, <1>11, SizesAssumption
  <1>13. pipe'["log"].data = Bytes(g + 1, c)
    BY <1>3, <1>7
  <1> HIDE DEF q, g
  <1>14. cp' \in CopierType /\ cp'.buf = q /\ cp'.pc = "lines"
    BY <1>1, <1>10, <1>11 DEF Types, CopierType
  <1>15. Types' /\ CopyInv' /\ Unwritten' = Unwritten
    <2>1. CopierMoves
      BY <1>3, <1>14 DEF CopierMoves
    <2>2. ring' \in RingType /\ logged' \in Seq(Messages)
      BY <1>1 DEF Types
    <2> QED BY <2>1, <2>2, CopierKeeps
  <1>16. CopierInv'
    BY <1>12, <1>14 DEF CopierInv
  <1>17. Flow(cut)'
    BY <1>5, <1>8, <1>13, <1>14, <1>15 DEF Flow, q
  <1>18. SameRing
    BY DEF SameRing
  <1>19. CutInv'
    BY <1>4, <1>17, <1>18, RingKeeps DEF CutInv
  <1> QED BY <1>15, <1>16, <1>19 DEF Inv

LEMMA CopierReadInv ==
  ASSUME Inv, CopierRead
  PROVE  Inv'
  <1> DEFINE x == pipe["log"]
             n == Smaller(Smaller(ReadSize, BufSize - Len(cp.buf)), Len(x.data))
  <1>1. /\ UNCHANGED <<mode, taken, end, exited, w, writers, ring, run, logged, drv, hd, client, late, lost>>
        /\ cp.pc \in {"read", "woken"}
    BY DEF CopierRead, Copier
  <1>2. /\ Types /\ "log" \in Pipes /\ x \in PipeType /\ x.data \in Seq(Nat) /\ cp \in CopierType
        /\ cp.buf \in Seq(Nat) /\ Len(cp.buf) <= BufSize
    BY DEF Inv, CopierInv, Types, PipeType, CopierType, Pipes
  <1>3. n \in 0..Len(x.data) /\ Len(cp.buf) + n <= BufSize
    <2> DEFINE d == Len(x.data)
               l == Len(cp.buf)
    <2>1. d \in Nat /\ l \in Nat /\ l <= BufSize /\ ReadSize \in Nat /\ BufSize \in Nat
      BY <1>2, SizesAssumption
    <2>2. n = Smaller(Smaller(ReadSize, BufSize - l), d)
      OBVIOUS
    <2> HIDE DEF n, d, l
    <2>3. n \in 0..d /\ l + n <= BufSize
      BY <2>1, <2>2 DEF Smaller
    <2> QED BY <2>3 DEF d, l
  <1>4. CASE /\ pipe' = [pipe EXCEPT !["log"] = Take("log", n)]
             /\ cp' = [cp EXCEPT !.buf = @ \o SubSeq(x.data, 1, n), !.pc = "lines"]
    <2> HIDE DEF n
    <2> QED BY <1>1, <1>3, <1>4, CopierTakes
  <1>5. ASSUME cp' \in CopierType, cp'.buf = cp.buf, cp'.pc = "done" => cp.buf = <<>>,
               pipe' \in [Pipes -> PipeType], pipe'["log"].data = x.data, pipe'["log"].closed = x.closed
        PROVE  Inv'
    <2>1. CopierMoves /\ ring' \in RingType /\ logged' \in Seq(Messages)
      BY <1>1, <1>2, <1>5 DEF CopierMoves, Types
    <2>2. Types' /\ CopyInv'
      BY <2>1, CopierKeeps
    <2>3. CopierInv'
      BY <1>2, <1>5 DEF CopierInv
    <2>4. SameFlow /\ SameRing
      BY <1>1, <1>5 DEF SameFlow, SameRing, WaitingBytes, LogFirst
    <2> QED BY <2>2, <2>3, <2>4, BothKeep DEF Inv
  <1>6. CASE /\ pipe' = [pipe EXCEPT !["log"].asleep = @ \cup {"r"}]
             /\ cp' = [cp EXCEPT !.pc = "woken"]
    <2> DEFINE r == [pipe["log"] EXCEPT !.asleep = @ \cup {"r"}]
    <2>1. pipe' = [pipe EXCEPT !["log"] = r]
      BY <1>2, <1>6 DEF Types
    <2>2. r \in PipeType /\ r.data = x.data /\ r.closed = x.closed
      BY <1>2, AsleepType
    <2> HIDE DEF r
    <2>3. pipe' \in [Pipes -> PipeType] /\ pipe'["log"] = r
      BY <1>2, <2>1, <2>2, PipeReplaced
    <2>4. cp' \in CopierType /\ cp'.buf = cp.buf /\ cp'.pc = "woken"
      BY <1>2, <1>6 DEF CopierType
    <2> QED BY <1>5, <2>2, <2>3, <2>4
  <1>7. CASE /\ pipe' = pipe
             /\ cp' = [cp EXCEPT !.eof = TRUE, !.pc = IF cp.buf = <<>> THEN "done" ELSE "lines"]
    <2> DEFINE p == IF cp.buf = <<>> THEN "done" ELSE "lines"
               y == TRUE
    <2>1. cp' = [cp EXCEPT !.eof = y, !.pc = p]
      BY <1>7
    <2>2. p \in {"done", "lines"} /\ (p = "done" => cp.buf = <<>>) /\ y \in BOOLEAN
      OBVIOUS
    <2> HIDE DEF p, y
    <2>3. cp' \in CopierType /\ cp'.buf = cp.buf /\ cp'.pc = p
      BY <1>2, <2>1, <2>2 DEF CopierType
    <2>4. pipe' \in [Pipes -> PipeType]
      BY <1>2, <1>7 DEF Types
    <2> QED BY <1>5, <1>7, <2>2, <2>3, <2>4
  <1> HIDE DEF n
  <1>8. \/ /\ pipe' = [pipe EXCEPT !["log"].asleep = @ \cup {"r"}]
           /\ cp' = [cp EXCEPT !.pc = "woken"]
        \/ /\ pipe' = pipe
           /\ cp' = [cp EXCEPT !.eof = TRUE, !.pc = IF cp.buf = <<>> THEN "done" ELSE "lines"]
        \/ /\ pipe' = [pipe EXCEPT !["log"] = Take("log", n)]
           /\ cp' = [cp EXCEPT !.buf = @ \o SubSeq(x.data, 1, n), !.pc = "lines"]
    BY DEF CopierRead, Copier, n
  <1> QED BY <1>4, <1>6, <1>7, <1>8

\* The first bytes of the Copier's buffer are logged, and taken out of it.
LEMMA CopierCuts ==
  ASSUME Inv, NEW n \in 1..Len(cp.buf), Log(SubSeq(cp.buf, 1, n)),
         cp' \in CopierType, cp'.buf = SubSeq(cp.buf, n + 1, Len(cp.buf)),
         cp'.pc = "done" => cp'.buf = <<>>,
         UNCHANGED <<mode, taken, end, exited, w, writers, pipe, run, drv, hd, client, late>>
  PROVE  Inv'
  <1>1. Types /\ taken \in Nat
    BY DEF Inv, Types
  <1>2. PICK cut \in Nat : Flow(cut) /\ BlockingInv(cut) /\ RingInv(cut)
    BY DEF Inv, CutInv
  <1>3. PICK b, c \in Nat : /\ cut <= b /\ b <= c /\ c <= taken
                            /\ cp.buf = Bytes(cut + 1, b)
                            /\ pipe["log"].data = Bytes(b + 1, c)
                            /\ Unwritten = Bytes(c + 1, taken)
    BY <1>2 DEF Flow
  <1>4. n \in 0..(b - cut) /\ n \in 1..(b - cut) /\ Len(cp.buf) = b - cut /\ n \in Nat
    <2>1. Len(cp.buf) = b - cut
      BY <1>3, BytesAre
    <2> QED BY <1>3, <2>1
  <1> DEFINE e == cut + n
  <1>5. e \in Nat /\ cut < e /\ e <= b /\ e <= c
    BY <1>3, <1>4
  <1>6. SubSeq(cp.buf, 1, n) = Bytes(cut + 1, e) /\ cp'.buf = Bytes(e + 1, b)
    <2>1. cut <= b /\ n \in 0..(b - cut)
      BY <1>3, <1>4
    <2>2. /\ SubSeq(Bytes(cut + 1, b), 1, n) = Bytes(cut + 1, cut + n)
          /\ SubSeq(Bytes(cut + 1, b), n + 1, Len(Bytes(cut + 1, b))) = Bytes(cut + n + 1, b)
      BY ONLY <2>1, BytesSplit
    <2> QED BY <1>3, <2>2
  <1> HIDE DEF e
  <1>7. Log(Bytes(cut + 1, e))
    BY <1>6
  <1>8. ring' \in RingType /\ logged' \in Seq(Messages) /\ BlockingInv(e)' /\ RingInv(e)'
    BY <1>1, <1>2, <1>5, <1>7, LogKeeps
  <1>9. Types' /\ CopyInv' /\ Unwritten' = Unwritten
    <2>1. CopierMoves
      BY <1>1 DEF CopierMoves, Types
    <2> QED BY <1>8, <2>1, CopierKeeps
  <1>10. CopierInv'
    <2>1. Len(cp'.buf) = b - e
      BY <1>5, <1>6, BytesAre
    <2>2. Len(cp.buf) <= BufSize
      BY DEF Inv, CopierInv
    <2> QED BY <1>3, <1>4, <1>5, <2>1, <2>2, SizesAssumption DEF CopierInv
  <1>11. Flow(e)'
    BY <1>3, <1>5, <1>6, <1>9 DEF Flow
  <1> QED BY <1>5, <1>8, <1>9, <1>10, <1>11 DEF Inv, CutInv

LEMMA CopierLineInv ==
  ASSUME Inv, CopierLine
  PROVE  Inv'
  <1>1. /\ Log(SubSeq(cp.buf, 1, LineEnd)) /\ FirstNewline # {} /\ cp.pc = "lines"
        /\ cp' = [cp EXCEPT !.buf = SubSeq(@, LineEnd + 1, Len(@)), !.cut = TRUE]
        /\ UNCHANGED <<mode, taken, end, exited, w, writers, pipe, run, drv, hd, client, late>>
    BY DEF CopierLine, Copier
  <1>2. cp \in CopierType /\ cp.buf \in Seq(Nat)
    BY DEF Inv, Types, CopierType
  <1>3. LineEnd \in 1..Len(cp.buf)
    <2>1. FirstNewline \subseteq 1..Len(cp.buf)
      BY <1>2 DEF FirstNewline
    <2>2. FirstNewline \subseteq Nat
      BY <2>1
    <2>3. \E i \in FirstNewline : \A j \in FirstNewline : i <= j
      BY <1>1, <2>2, Least
    <2>4. LineEnd \in FirstNewline
      BY <2>3 DEF LineEnd
    <2> QED BY <2>1, <2>4
  <1> DEFINE n == LineEnd
             s == SubSeq(cp.buf, n + 1, Len(cp.buf))
             y == TRUE
  <1>4. cp' = [cp EXCEPT !.buf = s, !.cut = y] /\ y \in BOOLEAN
    BY <1>1
  <1>5. n \in 1..Len(cp.buf) /\ Log(SubSeq(cp.buf, 1, n))
    BY <1>1, <1>3
  <1> HIDE DEF n
  <1>6. s \in Seq(Nat)
    <2>1. \A i \in (n + 1)..Len(cp.buf) : cp.buf[i] \in Nat
      BY <1>2, <1>5
    <2>2. n + 1 \in Int /\ Len(cp.buf) \in Int
      BY <1>2, <1>5
    <2> QED BY <2>1, <2>2, SubSeqProperties
  <1> HIDE DEF s, y
  <1>7. cp' \in CopierType /\ cp'.buf = s /\ cp'.pc = "lines"
    BY <1>1, <1>2, <1>4, <1>6 DEF CopierType
  <1>8. cp'.buf = SubSeq(cp.buf, n + 1, Len(cp.buf))
    BY <1>7 DEF s
  <1> QED BY <1>1, <1>5, <1>7, <1>8, CopierCuts

LEMMA CopierRestInv ==
  ASSUME Inv, CopierRest
  PROVE  Inv'
  <1> DEFINE flush == cp.eof \/ (~cp.cut /\ Len(cp.buf) = BufSize)
             s == IF flush THEN <<>> ELSE cp.buf
             p == IF cp.eof THEN "done" ELSE "read"
             z == FALSE
  <1>1. /\ IF flush /\ cp.buf # <<>> THEN Log(cp.buf) ELSE UNCHANGED <<ring, logged, lost>>
        /\ cp' = [cp EXCEPT !.buf = s, !.cut = z, !.pc = p]
        /\ UNCHANGED <<mode, taken, end, exited, w, writers, pipe, run, drv, hd, client, late>>
    BY DEF CopierRest, Copier
  <1>2. /\ cp \in CopierType /\ cp.buf \in Seq(Nat) /\ Len(cp.buf) <= BufSize
        /\ Types /\ CopyInv
    BY DEF Inv, Types, CopierType, CopierInv
  <1>3. s \in Seq(Nat) /\ z \in BOOLEAN /\ p \in {"done", "read"} /\ (p = "done" => s = <<>>)
    BY <1>2
  <1>4. ~flush => s = cp.buf
    OBVIOUS
  <1>5. flush => s = <<>>
    OBVIOUS
  <1> HIDE DEF s, p, z, flush
  <1>6. cp' \in CopierType /\ cp'.buf = s /\ (cp'.pc = "done" => cp'.buf = <<>>)
    BY <1>1, <1>2, <1>3 DEF CopierType
  <1>7. CASE flush /\ cp.buf # <<>>
    <2> DEFINE n == Len(cp.buf)
    <2>1. n \in 1..Len(cp.buf)
      BY <1>2, <1>7, EmptySeq
    <2>2. SubSeq(cp.buf, 1, n) = cp.buf
      BY <1>2, SubSeqFull
    <2>3. SubSeq(cp.buf, n + 1, Len(cp.buf)) = <<>>
      BY <1>2, SubSeqEmpty
    <2>4. Log(SubSeq(cp.buf, 1, n)) /\ cp'.buf = SubSeq(cp.buf, n + 1, Len(cp.buf))
      BY <1>1, <1>5, <1>6, <1>7, <2>2, <2>3
    <2> HIDE DEF n
    <2> QED BY <1>1, <1>6, <2>1, <2>4, CopierCuts
  <1>8. CASE ~(flush /\ cp.buf # <<>>)
    <2>1. cp'.buf = cp.buf /\ UNCHANGED <<ring, logged, lost>>
      BY <1>1, <1>4, <1>5, <1>6, <1>8
    <2>2. CopierMoves /\ ring' \in RingType /\ logged' \in Seq(Messages)
      BY <1>1, <1>2, <1>6, <2>1 DEF CopierMoves, Types
    <2>3. Types' /\ CopyInv'
      BY <2>2, CopierKeeps
    <2>4. CopierInv'
      BY <1>2, <1>6, <2>1 DEF CopierInv
    <2>5. SameFlow /\ SameRing
      BY <1>1, <2>1 DEF SameFlow, SameRing, WaitingBytes, LogFirst
    <2> QED BY <2>3, <2>4, <2>5, BothKeep DEF Inv
  <1> QED BY <1>7, <1>8
--------------------------------------------------------------------------------
(* The ring, its goroutine and the driver *)

\* A step of the ring, its goroutine or the driver takes no part in the copying.
RingMoves ==
  /\ UNCHANGED <<mode, taken, end, exited, w, writers, pipe, cp, client>>
  /\ hd' = hd \/ {hd, hd'} \cap {"idle", "wait", "clean"} = {}

LEMMA RingStep ==
  ASSUME Inv, RingMoves, ring' \in RingType, run' \in RunType, logged' \in Seq(Messages),
         \A cut \in Nat : BlockingInv(cut) /\ RingInv(cut) => BlockingInv(cut)' /\ RingInv(cut)'
  PROVE  Inv'
  <1>1. Types /\ CopyInv
    BY DEF Inv
  <1>2. Types'
    BY <1>1 DEF Types, RingMoves
  <1>3. CopyInv'
    <2>1. hd' = hd \/ (hd \notin {"idle", "wait", "clean"} /\ hd' \notin {"idle", "wait", "clean"})
      BY DEF RingMoves
    <2> QED BY <1>1, <2>1 DEF CopyInv, RingMoves
  <1>4. CopierInv'
    BY DEF Inv, CopierInv, RingMoves
  <1>5. SameFlow
    BY DEF SameFlow, RingMoves, WaitingBytes, LogFirst
  <1>6. CutInv'
    <2>1. PICK cut \in Nat : Flow(cut) /\ BlockingInv(cut) /\ RingInv(cut)
      BY DEF Inv, CutInv
    <2>2. Flow(cut)'
      BY <1>1, <1>3, <1>5, <2>1, FlowKeeps
    <2> QED BY <2>1, <2>2 DEF CutInv
  <1> QED BY <1>2, <1>3, <1>4, <1>6 DEF Inv

\* The messages that wait, those at the driver and the one that is held.
LEMMA Held ==
  ASSUME Types, NEW cut, mode = "ring", RingInv(cut)
  PROVE  /\ Accepted(cut) /\ OrderInv /\ HeldInv
         /\ Pending \in Seq(Messages) /\ logged \in Seq(Messages)
         /\ \A i \in DOMAIN Pending : Pending[i] \in Messages /\ Head(Pending[i]) \in Nat
         /\ \A i \in DOMAIN logged : logged[i] \in Messages /\ Head(logged[i]) \in Nat
         /\ run.pc = "log" => run.msg \in Messages /\ Head(run.msg) \in Nat
  <1>1. Accepted(cut) /\ OrderInv /\ HeldInv
    BY DEF RingInv
  <1>2. Pending \in Seq(Messages) /\ logged \in Seq(Messages)
    BY DEF Types, RingType, Pending
  <1>3. run.pc = "log" => run.msg \in Messages
    BY <1>1 DEF Types, RunType, Messages, HeldInv
  <1> QED BY <1>1, <1>2, <1>3, Heads

\* The first message of a list, and the others.
LEMMA FirstAndRest ==
  ASSUME NEW q \in Seq(Messages), q # <<>>
  PROVE  /\ Head(q) \in Messages /\ 1 \in DOMAIN q /\ Head(q) = q[1]
         /\ Tail(q) \in Seq(Messages)
         /\ \A i \in DOMAIN Tail(q) : i \in Nat /\ 1 < i + 1 /\ i + 1 \in DOMAIN q /\ Tail(q)[i] = q[i + 1]
  OBVIOUS

\* A step that changes neither what waits nor what the goroutine holds.
LEMMA RingIdles ==
  ASSUME NEW cut, RingInv(cut), mode = "ring", mode' = mode, Pending' = Pending,
         UNCHANGED <<run, logged, late>>, HeldInv'
  PROVE  RingInv(cut)'
  BY DEF RingInv, Accepted, OrderInv, Before

LEMMA RunCheckInv ==
  ASSUME Inv, RunCheck
  PROVE  Inv'
  <1> DEFINE p == IF ring.flag THEN "done" ELSE "dequeue"
  <1>1. /\ run.pc = "check" /\ run' = [run EXCEPT !.pc = p] /\ Types
        /\ UNCHANGED <<mode, taken, end, exited, w, writers, pipe, cp, ring, logged, drv, hd, client, late, lost>>
    BY DEF RunCheck, Inv
  <1>2. p \in {"done", "dequeue"}
    OBVIOUS
  <1> HIDE DEF p
  <1>3. run' \in RunType /\ run'.msg = run.msg /\ run'.pc # "log"
    BY <1>1, <1>2 DEF Types, RunType
  <1>4. ASSUME NEW cut \in Nat, BlockingInv(cut), RingInv(cut) PROVE BlockingInv(cut)' /\ RingInv(cut)'
    <2>1. mode # "blocking"
      BY <1>1, <1>4 DEF BlockingInv
    <2>2. ASSUME mode = "ring" PROVE (Accepted(cut) /\ OrderInv /\ HeldInv)'
      <3>1. Accepted(cut) /\ OrderInv /\ HeldInv
        BY <1>4, <2>2 DEF RingInv
      <3>2. Pending' = Pending
        BY <1>1 DEF Pending
      <3>3. Accepted(cut)' /\ OrderInv'
        BY <1>1, <1>3, <3>1, <3>2 DEF Accepted, OrderInv, Before
      <3>4. HeldInv'
        BY <1>1, <1>3, <3>1 DEF HeldInv, RingClosed
      <3> QED BY <3>3, <3>4
    <2> QED BY <1>1, <2>1, <2>2 DEF BlockingInv, RingInv
  <1>5. RingMoves /\ ring' \in RingType /\ logged' \in Seq(Messages)
    BY <1>1 DEF RingMoves, Types
  <1> QED BY <1>3, <1>4, <1>5, RingStep

LEMMA RunDequeueInv ==
  ASSUME Inv, RunDequeue
  PROVE  Inv'
  <1>1. /\ run.pc = "dequeue" /\ Types
        /\ UNCHANGED <<mode, taken, end, exited, w, writers, pipe, cp, logged, drv, hd, client, late, lost>>
    BY DEF RunDequeue, Inv
  <1>2. RingMoves /\ logged' \in Seq(Messages)
    BY <1>1 DEF RingMoves, Types
  <1>3. CASE ring.closed /\ run' = [run EXCEPT !.pc = "done"] /\ ring' = ring
    <2>1. run' \in RunType /\ run'.msg = run.msg /\ run'.pc = "done" /\ ring' \in RingType
      BY <1>1, <1>3 DEF Types, RunType
    <2>2. ASSUME NEW cut \in Nat, BlockingInv(cut), RingInv(cut) PROVE BlockingInv(cut)' /\ RingInv(cut)'
      <3>1. mode # "blocking"
        BY <1>1, <2>2 DEF BlockingInv
      <3>2. ASSUME mode = "ring" PROVE (Accepted(cut) /\ OrderInv /\ HeldInv)'
        <4>1. Accepted(cut) /\ OrderInv /\ HeldInv
          BY <2>2, <3>2 DEF RingInv
        <4>2. Pending' = Pending
          BY <1>1, <1>3 DEF Pending
        <4>3. Accepted(cut)' /\ OrderInv'
          BY <1>1, <2>1, <4>1, <4>2 DEF Accepted, OrderInv, Before
        <4>4. HeldInv'
          BY <1>1, <1>3, <2>1, <4>1 DEF HeldInv, RingClosed
        <4> QED BY <4>3, <4>4
      <3> QED BY <1>1, <3>1, <3>2 DEF BlockingInv, RingInv
    <2> QED BY <1>2, <2>1, <2>2, RingStep
  <1>4. CASE /\ ~ring.closed /\ ring.queue # <<>>
             /\ run' = [pc |-> "log", msg |-> Head(ring.queue)]
             /\ ring' = [ring EXCEPT !.queue = Tail(@)]
    <2> DEFINE q == ring.queue
               h == Head(q)
               t == Tail(q)
    <2>1. ring \in RingType /\ q \in Seq(Messages) /\ q # <<>>
      BY <1>1, <1>4 DEF Types, RingType
    <2>2. /\ h \in Messages /\ 1 \in DOMAIN q /\ h = q[1]
          /\ t \in Seq(Messages)
          /\ \A i \in DOMAIN t : i \in Nat /\ 1 < i + 1 /\ i + 1 \in DOMAIN q /\ t[i] = q[i + 1]
      BY <2>1, FirstAndRest
    <2>3. run' = [pc |-> "log", msg |-> h] /\ ring' = [ring EXCEPT !.queue = t]
      BY <1>4
    <2> HIDE DEF h, t
    <2>4. /\ ring' \in RingType /\ ring'.queue = t /\ ring'.closed = ring.closed
          /\ run' \in RunType /\ run'.pc = "log" /\ run'.msg = h /\ h # <<>>
      BY <2>1, <2>2, <2>3 DEF RingType, RunType, Messages
    <2> HIDE DEF q
    <2>5. ASSUME NEW cut \in Nat, BlockingInv(cut), RingInv(cut) PROVE BlockingInv(cut)' /\ RingInv(cut)'
      <3>1. mode # "blocking"
        BY <1>1, <2>5 DEF BlockingInv
      <3>2. ASSUME mode = "ring" PROVE (Accepted(cut) /\ OrderInv /\ HeldInv)'
        <4>1. /\ Accepted(cut) /\ OrderInv /\ HeldInv
              /\ \A i \in DOMAIN Pending : Head(Pending[i]) \in Nat
              /\ \A i \in DOMAIN logged : Head(logged[i]) \in Nat
          BY <1>1, <2>5, <3>2, Held
        <4>2. ~RingClosed /\ late = <<>>
          BY <1>4, <4>1 DEF HeldInv
        <4>3. Pending = q /\ Pending' = t
          BY <1>1, <2>4, <4>2 DEF Pending, RingClosed, q
        <4>4. Accepted(cut)'
          BY <1>1, <2>2, <2>4, <4>1, <4>3 DEF Accepted
        <4>5. ASSUME NEW i \in DOMAIN t, NEW j \in DOMAIN t, i < j
              PROVE  Head(t[i]) < Head(t[j])
          <5>1. i + 1 < j + 1 /\ i + 1 \in DOMAIN q /\ j + 1 \in DOMAIN q
            BY <2>2, <4>5
          <5> QED BY <2>2, <4>1, <4>3, <5>1 DEF OrderInv, Before
        <4>6. \A i \in DOMAIN logged, j \in DOMAIN t : Head(logged[i]) < Head(t[j])
          BY <2>2, <4>1, <4>3 DEF OrderInv, Before
        <4>7. \A j \in DOMAIN t : Head(h) < Head(t[j])
          BY <2>2, <4>1, <4>3 DEF OrderInv, Before
        <4>8. OrderInv'
          BY <1>1, <2>4, <4>1, <4>2, <4>3, <4>5, <4>6, <4>7 DEF OrderInv, Before
        <4>9. \A i \in DOMAIN logged : Head(logged[i]) < Head(h)
          BY <2>2, <4>1, <4>3 DEF OrderInv, Before
        <4>10. HeldInv'
          BY <1>1, <2>4, <4>1, <4>2, <4>9 DEF HeldInv, RingClosed, Before
        <4> QED BY <4>4, <4>8, <4>10
      <3> QED BY <1>1, <3>1, <3>2 DEF BlockingInv, RingInv
    <2> QED BY <1>2, <2>4, <2>5, RingStep
  <1> QED BY <1>3, <1>4 DEF RunDequeue

\* The driver writes m, which comes behind what it has written unless it is the late one.
LEMMA DriverWrites ==
  ASSUME NEW q \in Seq(Messages), NEW m \in Messages, logged \in Seq(Messages), logged' = Append(logged, m),
         late' = late, m = late \/ \A i \in DOMAIN logged : Before(logged[i], m),
         \A i, j \in DOMAIN logged : i < j /\ logged[j] # late => Before(logged[i], logged[j]),
         \A i \in DOMAIN logged, j \in DOMAIN q : Before(logged[i], q[j]),
         \A j \in DOMAIN q : Before(m, q[j])
  PROVE  /\ \A i \in DOMAIN logged' : (i \in DOMAIN logged /\ logged'[i] = logged[i]) \/ logged'[i] = m
         /\ \A i, j \in DOMAIN logged' : i < j /\ logged'[j] # late => Before(logged'[i], logged'[j])
         /\ \A i \in DOMAIN logged', j \in DOMAIN q : Before(logged'[i], q[j])
  <1> DEFINE k == Len(logged) + 1
             l == logged'
  <1>1. /\ k \in Nat /\ DOMAIN logged \subseteq Nat
        /\ \A i \in DOMAIN l : (i \in DOMAIN logged /\ i < k /\ l[i] = logged[i]) \/ (i = k /\ l[i] = m)
    BY OneMore
  <1> HIDE DEF k, l
  <1>2. ASSUME NEW i \in DOMAIN l, NEW j \in DOMAIN l, i < j, l[j] # late
        PROVE  Before(l[i], l[j])
    <2>1. i \in DOMAIN logged /\ l[i] = logged[i]
      BY <1>1, <1>2
    <2>2. CASE j \in DOMAIN logged /\ l[j] = logged[j]
      BY <1>2, <2>1, <2>2
    <2>3. CASE l[j] = m
      BY <1>2, <2>1, <2>3
    <2> QED BY <1>1, <2>2, <2>3
  <1>3. \A i \in DOMAIN l, j \in DOMAIN q : Before(l[i], q[j])
    BY <1>1
  <1>4. \A i \in DOMAIN l : (i \in DOMAIN logged /\ l[i] = logged[i]) \/ l[i] = m
    BY <1>1
  <1> QED BY <1>2, <1>3, <1>4 DEF l

LEMMA RunLogInv ==
  ASSUME Inv, RunLog
  PROVE  Inv'
  <1> DEFINE z == <<>>
  <1>1. /\ run.pc = "log" /\ DriverLog(run.msg) /\ run' = [pc |-> "check", msg |-> z] /\ Types
        /\ UNCHANGED <<mode, taken, end, exited, w, writers, pipe, cp, ring, drv, hd, client, late>>
    BY DEF RunLog, Inv
  <1>2. z \in Seq(Nat) /\ z = <<>>
    OBVIOUS
  <1> HIDE DEF z
  <1>3. run' \in RunType /\ run'.pc = "check" /\ run'.msg = z
    BY <1>1, <1>2 DEF RunType
  <1>4. RingMoves /\ ring' \in RingType
    BY <1>1 DEF RingMoves, Types
  <1>5. PICK cut \in Nat : Flow(cut) /\ BlockingInv(cut) /\ RingInv(cut)
    BY DEF Inv, CutInv
  <1>6. mode # "blocking"
    BY <1>1, <1>5 DEF BlockingInv
  <1>7. run.msg \in Seq(Nat)
    BY <1>1 DEF Types, RunType
  <1>8. \/ drv = "open" /\ logged' = Append(logged, run.msg) /\ lost' = lost
        \/ drv # "open" /\ logged' = logged /\ lost' = lost \cup {run.msg}
    BY <1>1 DEF DriverLog
  <1>9. ASSUME NEW c \in Nat, RingInv(c), mode = "ring" PROVE (Accepted(c) /\ OrderInv /\ HeldInv)'
    <2>1. /\ Accepted(c) /\ OrderInv /\ HeldInv
          /\ Pending \in Seq(Messages) /\ logged \in Seq(Messages) /\ run.msg \in Messages
      BY <1>1, <1>9, Held
    <2>2. Pending' = Pending
      BY <1>1 DEF Pending
    <2>3. RingClosed => run.msg = late
      BY <1>1, <2>1 DEF HeldInv
    <2>4. CASE drv # "open" /\ logged' = logged /\ lost' = lost \cup {run.msg}
      <3>1. RingClosed
        BY <2>1, <2>4 DEF HeldInv, RingClosed
      <3>2. Accepted(c)' /\ OrderInv'
        BY <1>1, <1>3, <2>1, <2>2, <2>4 DEF Accepted, OrderInv, Before
      <3>3. HeldInv'
        BY <1>1, <1>2, <1>3, <2>1, <2>3, <2>4, <3>1 DEF HeldInv, RingClosed
      <3> QED BY <3>2, <3>3
    <2>5. CASE drv = "open" /\ logged' = Append(logged, run.msg) /\ lost' = lost
      <3>1. run.msg = late \/ \A i \in DOMAIN logged : Before(logged[i], run.msg)
        BY <1>1, <2>1, <2>3 DEF HeldInv
      <3>2. /\ \A i, j \in DOMAIN logged : i < j /\ logged[j] # late => Before(logged[i], logged[j])
            /\ \A i \in DOMAIN logged, j \in DOMAIN Pending : Before(logged[i], Pending[j])
            /\ \A j \in DOMAIN Pending : Before(run.msg, Pending[j])
        BY <1>1, <2>1 DEF OrderInv
      <3>3. late' = late
        BY <1>1
      <3>4. /\ \A i \in DOMAIN logged' : (i \in DOMAIN logged /\ logged'[i] = logged[i]) \/ logged'[i] = run.msg
            /\ \A i, j \in DOMAIN logged' : i < j /\ logged'[j] # late => Before(logged'[i], logged'[j])
            /\ \A i \in DOMAIN logged', j \in DOMAIN Pending : Before(logged'[i], Pending[j])
        BY <2>1, <2>5, <3>1, <3>2, <3>3, DriverWrites
      <3>5. Accepted(c)'
        BY <1>1, <1>3, <2>1, <2>2, <3>4 DEF Accepted
      <3>6. OrderInv'
        BY <1>1, <1>3, <2>1, <2>2, <3>4 DEF OrderInv, Before
      <3>7. HeldInv'
        BY <1>1, <1>2, <1>3, <2>1, <2>5 DEF HeldInv, RingClosed
      <3> QED BY <3>5, <3>6, <3>7
    <2> QED BY <1>8, <2>4, <2>5
  <1>10. logged' \in Seq(Messages)
    <2>1. logged \in Seq(Messages)
      BY <1>1 DEF Types
    <2>2. CASE mode = "ring"
      <3>1. run.msg \in Messages
        BY <1>1, <1>5, <2>2, Held
      <3>2. Append(logged, run.msg) \in Seq(Messages)
        BY <2>1, <3>1, OneMore
      <3> QED BY <1>8, <2>1, <3>2
    <2> QED BY <1>1, <1>6, <2>2, SizesAssumption DEF Types
  <1>11. \A c \in Nat : BlockingInv(c) /\ RingInv(c) => BlockingInv(c)' /\ RingInv(c)'
    BY <1>1, <1>6, <1>9 DEF BlockingInv, RingInv
  <1> QED BY <1>3, <1>4, <1>10, <1>11, RingStep

LEMMA RingSetClosedInv ==
  ASSUME Inv, RingSetClosed
  PROVE  Inv'
  <1> DEFINE y == TRUE
  <1>1. /\ hd = "setclosed" /\ hd' = "ringclose" /\ ring' = [ring EXCEPT !.flag = y] /\ Types
        /\ UNCHANGED <<mode, taken, end, exited, w, writers, pipe, cp, run, logged, drv, client, late, lost>>
    BY DEF RingSetClosed, Handler, Inv
  <1>2. y \in BOOLEAN
    OBVIOUS
  <1> HIDE DEF y
  <1>3. ring' \in RingType /\ ring'.queue = ring.queue /\ ring'.closed = ring.closed
    BY <1>1, <1>2 DEF Types, RingType
  <1>4. ASSUME NEW cut \in Nat, BlockingInv(cut), RingInv(cut) PROVE BlockingInv(cut)' /\ RingInv(cut)'
    <2>1. mode # "blocking"
      BY <1>1, <1>4 DEF BlockingInv
    <2>2. CASE mode = "ring"
      <3>1. HeldInv
        BY <1>4, <2>2 DEF RingInv
      <3>2. Pending' = Pending
        BY <1>1, <1>3 DEF Pending
      <3>3. HeldInv'
        BY <1>1, <1>3, <3>1 DEF HeldInv, RingClosed
      <3> QED BY <1>1, <1>4, <2>1, <2>2, <3>2, <3>3, RingIdles DEF BlockingInv
    <2> QED BY <1>1, <2>1, <2>2 DEF BlockingInv, RingInv
  <1>5. RingMoves /\ run' \in RunType /\ logged' \in Seq(Messages)
    BY <1>1 DEF RingMoves, Types
  <1> QED BY <1>3, <1>4, <1>5, RingStep

\* The message that is held becomes the late one: nothing that was logged is it.
LEMMA RingCloseInv ==
  ASSUME Inv, RingClose
  PROVE  Inv'
  <1> DEFINE y == TRUE
  <1>1. /\ hd = "ringclose" /\ hd' = "drain" /\ ring' = [ring EXCEPT !.closed = y] /\ late' = run.msg /\ Types
        /\ UNCHANGED <<mode, taken, end, exited, w, writers, pipe, cp, run, logged, drv, client, lost>>
    BY DEF RingClose, Handler, Inv
  <1>2. y \in BOOLEAN /\ y
    OBVIOUS
  <1> HIDE DEF y
  <1>3. ring' \in RingType /\ ring'.queue = ring.queue /\ ring'.closed = y
    BY <1>1, <1>2 DEF Types, RingType
  <1>4. ASSUME NEW cut \in Nat, BlockingInv(cut), RingInv(cut) PROVE BlockingInv(cut)' /\ RingInv(cut)'
    <2>1. mode # "blocking"
      BY <1>1, <1>4 DEF BlockingInv
    <2>2. ASSUME mode = "ring" PROVE (Accepted(cut) /\ OrderInv /\ HeldInv)'
      <3>1. /\ Accepted(cut) /\ OrderInv /\ HeldInv
            /\ \A i \in DOMAIN logged : logged[i] \in Messages
        BY <1>1, <1>4, <2>2, Held
      <3>2. Pending' = Pending
        BY <1>1, <1>3 DEF Pending
      <3>3. late = <<>> /\ lost = {}
        BY <1>1, <3>1 DEF HeldInv, RingClosed
      <3>4. \A j \in DOMAIN logged : logged[j] # late
        BY <3>1, <3>3 DEF Messages
      <3>5. Accepted(cut)'
        BY <1>1, <3>1, <3>2 DEF Accepted
      <3>6. OrderInv'
        <4>1. late' # <<>> => run.pc = "log"
          BY <1>1, <3>1 DEF HeldInv
        <4> QED BY <1>1, <3>1, <3>2, <3>4, <4>1 DEF OrderInv, Before
      <3>7. HeldInv'
        BY <1>1, <1>2, <1>3, <3>1, <3>3 DEF HeldInv, RingClosed
      <3> QED BY <3>5, <3>6, <3>7
    <2> QED BY <1>1, <2>1, <2>2 DEF BlockingInv, RingInv
  <1>5. RingMoves /\ run' \in RunType /\ logged' \in Seq(Messages)
    BY <1>1 DEF RingMoves, Types
  <1> QED BY <1>3, <1>4, <1>5, RingStep

LEMMA RingDrainInv ==
  ASSUME Inv, RingDrain
  PROVE  Inv'
  <1> DEFINE z == <<>>
             q == ring.queue
  <1>1. /\ hd = "drain" /\ hd' = "drainlog" /\ ring' = [ring EXCEPT !.drained = q, !.queue = z] /\ Types
        /\ UNCHANGED <<mode, taken, end, exited, w, writers, pipe, cp, run, logged, drv, client, late, lost>>
    BY DEF RingDrain, Handler, Inv
  <1>2. z \in Seq(Messages) /\ z = <<>> /\ q \in Seq(Messages) /\ q = ring.queue
    BY <1>1 DEF Types, RingType
  <1> HIDE DEF z, q
  <1>3. ring' \in RingType /\ ring'.queue = z /\ ring'.drained = q /\ ring'.closed = ring.closed
    BY <1>1, <1>2 DEF Types, RingType
  <1>4. ASSUME NEW cut \in Nat, BlockingInv(cut), RingInv(cut) PROVE BlockingInv(cut)' /\ RingInv(cut)'
    <2>1. mode # "blocking"
      BY <1>1, <1>4 DEF BlockingInv
    <2>2. CASE mode = "ring"
      <3>1. HeldInv
        BY <1>4, <2>2 DEF RingInv
      <3>2. Pending' = Pending
        BY <1>1, <1>2, <1>3 DEF Pending
      <3>3. HeldInv'
        BY <1>1, <1>2, <1>3, <3>1 DEF HeldInv, RingClosed
      <3> QED BY <1>1, <1>4, <2>1, <2>2, <3>2, <3>3, RingIdles DEF BlockingInv
    <2> QED BY <1>1, <2>1, <2>2 DEF BlockingInv, RingInv
  <1>5. RingMoves /\ run' \in RunType /\ logged' \in Seq(Messages)
    BY <1>1 DEF RingMoves, Types
  <1> QED BY <1>3, <1>4, <1>5, RingStep

LEMMA RingDrainLogInv ==
  ASSUME Inv, RingDrainLog
  PROVE  Inv'
  <1> DEFINE q == ring.drained
             h == Head(q)
             t == Tail(q)
  <1>1. /\ hd = "drainlog" /\ hd' = hd /\ q # <<>> /\ DriverLog(h) /\ ring' = [ring EXCEPT !.drained = t] /\ Types
        /\ UNCHANGED <<mode, taken, end, exited, w, writers, pipe, cp, run, drv, client, late>>
    BY DEF RingDrainLog, Handler, Inv
  <1>2. ring \in RingType /\ q \in Seq(Messages) /\ logged \in Seq(Messages)
    BY <1>1 DEF Types, RingType
  <1>3. /\ h \in Messages /\ 1 \in DOMAIN q /\ h = q[1]
        /\ t \in Seq(Messages)
        /\ \A i \in DOMAIN t : i \in Nat /\ 1 < i + 1 /\ i + 1 \in DOMAIN q /\ t[i] = q[i + 1]
    BY <1>1, <1>2, FirstAndRest
  <1>4. /\ logged' = Append(logged, h) \/ logged' = logged
        /\ drv = "open" => logged' = Append(logged, h) /\ lost' = lost
    BY <1>1 DEF DriverLog
  <1>5. Append(logged, h) \in Seq(Messages)
    BY <1>2, <1>3, OneMore
  <1> HIDE DEF h, t
  <1>6. logged' \in Seq(Messages)
    BY <1>2, <1>4, <1>5
  <1>7. ring' \in RingType /\ ring'.drained = t /\ ring'.queue = ring.queue /\ ring'.closed = ring.closed
    BY <1>1, <1>2, <1>3 DEF RingType
  <1>8. Pending = q /\ Pending' = t
    BY <1>1, <1>7 DEF Pending
  <1> HIDE DEF q
  <1>9. ASSUME NEW cut \in Nat, BlockingInv(cut), RingInv(cut) PROVE BlockingInv(cut)' /\ RingInv(cut)'
    <2>1. mode # "blocking"
      BY <1>1, <1>9 DEF BlockingInv
    <2>2. ASSUME mode = "ring" PROVE (Accepted(cut) /\ OrderInv /\ HeldInv)'
      <3>1. Accepted(cut) /\ OrderInv /\ HeldInv
        BY <1>9, <2>2 DEF RingInv
      <3>2. logged' = Append(logged, h) /\ lost' = lost
        BY <1>1, <1>4, <3>1 DEF HeldInv
      <3>3. /\ \A i \in DOMAIN logged : Before(logged[i], h)
            /\ \A i \in DOMAIN logged, j \in DOMAIN t : Before(logged[i], t[j])
            /\ \A j \in DOMAIN t : Before(h, t[j])
        BY <1>3, <1>8, <3>1 DEF OrderInv
      <3>4. \A i, j \in DOMAIN logged : i < j /\ logged[j] # late => Before(logged[i], logged[j])
        BY <3>1 DEF OrderInv
      <3>5. late' = late
        BY <1>1
      <3>6. /\ \A i \in DOMAIN logged' : (i \in DOMAIN logged /\ logged'[i] = logged[i]) \/ logged'[i] = h
            /\ \A i, j \in DOMAIN logged' : i < j /\ logged'[j] # late => Before(logged'[i], logged'[j])
            /\ \A i \in DOMAIN logged', j \in DOMAIN t : Before(logged'[i], t[j])
        BY <1>2, <1>3, <3>2, <3>3, <3>4, <3>5, DriverWrites
      <3>7. Accepted(cut)'
        BY <1>1, <1>3, <1>8, <3>1, <3>6 DEF Accepted
      <3>8. ASSUME NEW i \in DOMAIN t, NEW j \in DOMAIN t, i < j
            PROVE  Before(t[i], t[j])
        <4>1. i + 1 < j + 1 /\ i + 1 \in DOMAIN q /\ j + 1 \in DOMAIN q
          BY <1>3, <3>8
        <4> QED BY <1>3, <1>8, <3>1, <4>1 DEF OrderInv
      <3>9. /\ run.pc = "log" => \A j \in DOMAIN t : Before(run.msg, t[j])
            /\ late # <<>> => \A j \in DOMAIN t : Before(late, t[j])
        BY <1>3, <1>8, <3>1 DEF OrderInv
      <3>10. OrderInv'
        BY <1>1, <1>8, <3>6, <3>8, <3>9 DEF OrderInv, Before
      <3>11. HeldInv'
        BY <1>1, <1>7, <3>1, <3>2 DEF HeldInv, RingClosed
      <3> QED BY <3>7, <3>10, <3>11
    <2> QED BY <1>1, <2>1, <2>2 DEF BlockingInv, RingInv
  <1>10. RingMoves /\ run' \in RunType
    BY <1>1 DEF RingMoves, Types
  <1> QED BY <1>6, <1>7, <1>9, <1>10, RingStep

LEMMA DriverCloseInv ==
  ASSUME Inv, DriverClose
  PROVE  Inv'
  <1>1. /\ hd = "close" \/ (hd = "drainlog" /\ ring.drained = <<>>)
        /\ hd' = "done" /\ Types
        /\ UNCHANGED <<mode, taken, end, exited, w, writers, pipe, cp, ring, run, logged, client, late, lost>>
    BY DEF DriverClose, Handler, Inv
  <1>2. ASSUME NEW cut \in Nat, BlockingInv(cut), RingInv(cut) PROVE BlockingInv(cut)' /\ RingInv(cut)'
    <2>1. BlockingInv(cut)'
      BY <1>1, <1>2 DEF BlockingInv
    <2>2. CASE mode = "ring"
      <3>1. HeldInv
        BY <1>2, <2>2 DEF RingInv
      <3>2. Pending = <<>> /\ Pending' = <<>>
        BY <1>1, <3>1 DEF HeldInv, Pending
      <3>3. HeldInv'
        BY <1>1, <3>1 DEF HeldInv, RingClosed
      <3> QED BY <1>1, <1>2, <2>1, <2>2, <3>2, <3>3, RingIdles
    <2> QED BY <1>1, <2>1, <2>2 DEF RingInv
  <1>3. RingMoves /\ ring' \in RingType /\ run' \in RunType /\ logged' \in Seq(Messages)
    BY <1>1 DEF RingMoves, Types
  <1> QED BY <1>2, <1>3, RingStep
--------------------------------------------------------------------------------
(* The theorems *)

LEMMA NextInv ==
  ASSUME Inv, [Next]_vars
  PROVE  Inv'
  <1>1. CASE ProcessExits
    BY <1>1, ProcessExitsInv
  <1>2. CASE CopyStep
    BY <1>2, CopyChunkInv, WriteClosedInv, WritePipeInv, WriteDoneInv DEF CopyStep
  <1>3. CASE CopierStep
    BY <1>3, CopierReadInv, CopierLineInv, CopierRestInv DEF CopierStep
  <1>4. CASE RunStep
    BY <1>4, RunCheckInv, RunDequeueInv, RunLogInv DEF RunStep
  <1>5. CASE ClientStep
    BY <1>5, AttachInv, ClientInv DEF ClientStep
  <1>6. CASE HandlerStep
    BY <1>6, HandlerWaitsInv, CleanStreamsInv, RingSetClosedInv, RingCloseInv, RingDrainInv,
       RingDrainLogInv, DriverCloseInv DEF HandlerStep
  <1>7. CASE UNCHANGED vars
    <2>1. /\ UNCHANGED <<mode, taken, end, exited, w, writers, pipe, cp, ring, run, logged, drv, hd, client, late, lost>>
      BY <1>7 DEF vars
    <2>2. Types' /\ CopyInv' /\ CopierInv'
      BY <2>1 DEF Inv, Types, CopyInv, CopierInv
    <2>3. SameFlow /\ SameRing
      BY <2>1 DEF SameFlow, SameRing, WaitingBytes, LogFirst
    <2> QED BY <2>2, <2>3, BothKeep DEF Inv
  <1> QED BY <1>1, <1>2, <1>3, <1>4, <1>5, <1>6, <1>7 DEF Next

\* From the process to the log there is no gap: the Copier's buffer, the log's pipe and what
\* the broadcaster has still to write follow each other, in every state.
THEOREM LogInvariant == Spec => []Inv
  <1>1. Init => Inv
    BY InitInv
  <1>2. Inv /\ [Next]_vars => Inv'
    BY NextInv
  <1> QED BY <1>1, <1>2, PTL DEF Spec

\* In blocking mode the log, the Copier's buffer, the pipe and what is being written hold what
\* the process wrote, byte for byte, unless Reset gave the Copier up: OutputReachesLog.
THEOREM OutputIsLogged == Spec => []OutputReachesLog
  <1>1. Inv => OutputReachesLog
    <2> SUFFICES ASSUME Inv, mode = "blocking", lost = {}
                 PROVE  FlattenSeq(logged) \o (IF cp.pc = "done" THEN <<>> ELSE cp.buf)
                          \o pipe["log"].data \o Unwritten = Bytes(1, taken)
      BY DEF OutputReachesLog
    <2>1. PICK cut \in Nat : Flow(cut) /\ BlockingInv(cut)
      BY DEF Inv, CutInv
    <2>2. PICK b, c \in Nat : /\ cut <= b /\ b <= c /\ c <= taken
                              /\ cp.buf = Bytes(cut + 1, b)
                              /\ pipe["log"].data = Bytes(b + 1, c)
                              /\ Unwritten = Bytes(c + 1, taken)
      BY <2>1 DEF Flow
    <2>3. FlattenSeq(logged) = Bytes(0 + 1, cut)
      BY <2>1 DEF BlockingInv
    <2>4. (IF cp.pc = "done" THEN <<>> ELSE cp.buf) = cp.buf
      BY DEF Inv, CopierInv
    <2>5. taken \in Nat
      BY DEF Inv, Types
    <2>6. /\ Bytes(0 + 1, cut) \o Bytes(cut + 1, b) = Bytes(0 + 1, b)
          /\ Bytes(0 + 1, b) \o Bytes(b + 1, c) = Bytes(0 + 1, c)
          /\ Bytes(0 + 1, c) \o Bytes(c + 1, taken) = Bytes(0 + 1, taken)
      <3>1. 0 \in Nat /\ 0 <= cut /\ 0 <= b /\ 0 <= c
        OBVIOUS
      <3> QED BY <2>2, <2>5, <3>1, BytesConcat
    <2>7. 0 + 1 = 1
      OBVIOUS
    <2> QED BY <2>2, <2>3, <2>4, <2>6, <2>7
  <1> QED BY <1>1, LogInvariant, PTL

\* A RingLogger that is closed loses, or puts out of order, at most the message its goroutine
\* held at that time: RingLosesOne.
THEOREM RingKeepsOrder == Spec => []RingLosesOne
  <1>1. Inv => RingLosesOne
    BY DEF Inv, CutInv, RingInv, OrderInv, HeldInv, RingLosesOne
  <1> QED BY <1>1, LogInvariant, PTL
================================================================================
