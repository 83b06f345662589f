---------------------------- MODULE Parts_proofs ----------------------------
(***************************************************************************)
(* The parts that touch no other: trees of nodes, the packing of images,   *)
(* fields that are kept raw, the supervisor's pace, the idle lifetime and  *)
(* the formats of the wire.  Each is proved by itself, for every value of  *)
(* its constants.                                                          *)
(***************************************************************************)
EXTENDS NodeTree, ImageBatch, DeferredObject, Recycling,
        IdleLifetime, WireDecoder, FiniteSetTheorems, SequenceTheorems,
        WellFoundedInduction, TLAPS

-----------------------------------------------------------------------------
(* Numbers. *)

\* Induction, by way of least elements.
LEMMA LeastNumber ==
    ASSUME NEW S, S \subseteq Nat, S # {}
    PROVE  \E m \in S : \A n \in S : m <= n
<1> DEFINE Less == OpToRel(<, Nat)
<1>1. \A a, b \in Nat : <<a, b>> \in Less <=> a < b
  BY SMT DEF OpToRel
<1>2. PICK m \in S : \A n \in S : <<n, m>> \notin Less
  BY NatLessThanWellFounded, WFMin
<1> HIDE DEF Less
<1>3. ASSUME NEW n \in S PROVE m <= n
  <2>1. m \in Nat /\ n \in Nat /\ <<n, m>> \notin Less
    BY <1>2
  <2>2. ~(n < m)
    BY <1>1, <2>1
  <2> QED BY <2>1, <2>2
<1> QED BY <1>3

LEMMA LastNumber ==
    ASSUME NEW top \in Nat, NEW S, S \subseteq 1 .. top, S # {}
    PROVE  \E m \in S : \A n \in S : n <= m
<1> DEFINE T == {k \in Nat : top - k \in S}
<1>1. PICK n \in S : TRUE
  OBVIOUS
<1>2. top - n \in T
  <2>1. top - n \in Nat /\ top - (top - n) = n
    OBVIOUS
  <2> QED BY <2>1
<1>3. PICK k \in T : \A j \in T : k <= j
  BY <1>2, LeastNumber
<1>4. ASSUME NEW j \in S PROVE j <= top - k
  <2>1. top - j \in Nat /\ top - (top - j) = j
    OBVIOUS
  <2>2. top - j \in T
    BY <2>1
  <2>3. k <= top - j /\ k \in Nat /\ j \in 1 .. top
    BY <1>3, <2>2
  <2> QED BY <2>3
<1>5. top - k \in S
  BY <1>3
<1> QED BY <1>4, <1>5

LEMMA SetInduction ==
    ASSUME NEW S, 0 \in S, \A n \in Nat : n \in S => n + 1 \in S
    PROVE  Nat \subseteq S
<1> SUFFICES ASSUME NEW k \in Nat, k \notin S PROVE FALSE
  OBVIOUS
<1>1. PICK m \in Nat \ S : \A n \in Nat \ S : m <= n
  BY LeastNumber
<1>2. m - 1 \in Nat /\ m - 1 < m /\ m = (m - 1) + 1
  BY <1>1
<1>3. m - 1 \in S
  BY <1>1, <1>2
<1> QED BY <1>1, <1>2, <1>3

\* A sequence with one more element.
LEMMA OneMoreAtTheEnd ==
    ASSUME NEW T, NEW s \in Seq(T), NEW e \in T
    PROVE  /\ Len(s) \in Nat /\ DOMAIN s = 1 .. Len(s)
           /\ Append(s, e) \in Seq(T) /\ Len(Append(s, e)) = Len(s) + 1
           /\ Append(s, e) # <<>>
           /\ DOMAIN Append(s, e) = 1 .. Len(s) + 1
           /\ \A i \in 1 .. Len(s) : Append(s, e)[i] = s[i]
           /\ Append(s, e)[Len(s) + 1] = e
<1>1. Len(s) \in Nat /\ DOMAIN s = 1 .. Len(s)
  OBVIOUS
<1>2. /\ Append(s, e) \in Seq(T) /\ Len(Append(s, e)) = Len(s) + 1
      /\ \A i \in 1 .. Len(s) : Append(s, e)[i] = s[i]
      /\ Append(s, e)[Len(s) + 1] = e
  BY AppendProperties
<1>3. DOMAIN Append(s, e) = 1 .. Len(s) + 1
  BY <1>1, <1>2
<1>4. Append(s, e) # <<>>
  BY <1>1, <1>2
<1> QED BY <1>1, <1>2, <1>3, <1>4

LEMMA SubSeqOfAppend ==
    ASSUME NEW T, NEW s \in Seq(T), NEW e \in T, NEW i \in 1 .. Len(s) + 1
    PROVE  SubSeq(Append(s, e), 1, i - 1) = SubSeq(s, 1, i - 1)
<1>1. /\ Len(s) \in Nat /\ Append(s, e) \in Seq(T) /\ Len(Append(s, e)) = Len(s) + 1
      /\ \A j \in 1 .. Len(s) : Append(s, e)[j] = s[j]
  BY OneMoreAtTheEnd
<1>2. i - 1 \in 0 .. Len(s)
  BY <1>1
<1>3. SubSeq(s, 1, i - 1) = [j \in 1 .. i - 1 |-> s[j]]
  BY <1>1, <1>2
<1>4. SubSeq(Append(s, e), 1, i - 1) = [j \in 1 .. i - 1 |-> Append(s, e)[j]]
  BY <1>1, <1>2
<1>5. \A j \in 1 .. i - 1 : j \in 1 .. Len(s)
  BY <1>1, <1>2
<1> QED BY <1>1, <1>3, <1>4, <1>5

LEMMA RangeGrows ==
    ASSUME NEW T, NEW s \in Seq(T), NEW e \in T
    PROVE  Range(Append(s, e)) = Range(s) \cup {e}
<1>1. /\ Len(s) \in Nat /\ DOMAIN s = 1 .. Len(s)
      /\ DOMAIN Append(s, e) = 1 .. Len(s) + 1
      /\ \A i \in 1 .. Len(s) : Append(s, e)[i] = s[i]
      /\ Append(s, e)[Len(s) + 1] = e
  BY OneMoreAtTheEnd
<1>2. 1 .. Len(s) + 1 = (1 .. Len(s)) \cup {Len(s) + 1}
  BY <1>1
<1> QED BY <1>1, <1>2 DEF Range

LEMMA ProductsGrow ==
    ASSUME NEW a \in Nat, NEW b \in Nat, NEW c \in Nat
    PROVE  /\ a * b \in Nat
           /\ b <= c => a * b <= a * c
           /\ c # 0 => a <= a * c
<1>1. a * b \in Nat /\ a * c \in Nat
  OBVIOUS
<1>2. ASSUME b <= c PROVE a * b <= a * c
  <2>1. PICK d \in Nat : c = b + d
    <3>1. c - b \in Nat /\ c = b + (c - b)
      BY <1>2
    <3> QED BY <3>1
  <2>2. a * c = a * b + a * d /\ a * d \in Nat
    BY <2>1
  <2> QED BY <1>1, <2>2
<1>3. ASSUME c # 0 PROVE a <= a * c
  <2>1. PICK d \in Nat : c = 1 + d
    <3>1. c - 1 \in Nat /\ c = 1 + (c - 1)
      BY <1>3
    <3> QED BY <3>1
  <2>2. a * c = a + a * d /\ a * d \in Nat
    BY <2>1
  <2> QED BY <2>2
<1> QED BY <1>1, <1>2, <1>3

LEMMA ProductsStep ==
    ASSUME NEW h \in Nat, NEW p \in Nat, NEW q \in Nat, p < q PROVE h * p + h <= h * q
<1>1. PICK d \in Nat : q = p + 1 + d
  <2>1. q - p - 1 \in Nat /\ q = p + 1 + (q - p - 1)
    OBVIOUS
  <2> QED BY <2>1
<1>2. h * q = h * p + h + h * d /\ h * d \in Nat /\ h * p \in Nat
  BY <1>1
<1> QED BY <1>2

\* The next remainder.
LEMMA NextRemainder ==
    ASSUME NEW a \in Nat, NEW h \in Nat \ {0}
    PROVE  /\ a % h \in 0 .. h - 1
           /\ (a + 1) % h = IF (a % h) + 1 = h THEN 0 ELSE (a % h) + 1
<1> DEFINE q == a \div h
           r == a % h
           p == (a + 1) \div h
           s == (a + 1) % h
<1>1. /\ q \in Nat /\ r \in 0 .. h - 1 /\ a = h * q + r
      /\ p \in Nat /\ s \in 0 .. h - 1 /\ a + 1 = h * p + s
  OBVIOUS
<1> HIDE DEF q, r, p, s
<1>2. h * q \in Nat /\ h * p \in Nat /\ h * (q + 1) = h * q + h
  BY <1>1
<1>3. CASE r + 1 = h
  <2>1. h * (q + 1) = h * p + s
    BY <1>1, <1>2, <1>3
  <2>2. ~(p < q + 1) \/ s = 0
    <3>1. ASSUME p < q + 1 PROVE FALSE
      <4>1. h * p + h <= h * (q + 1)
        BY <1>1, <3>1, ProductsStep
      <4> QED BY <1>1, <1>2, <2>1, <4>1
    <3> QED BY <3>1
  <2>3. ~(q + 1 < p)
    <3>1. ASSUME q + 1 < p PROVE FALSE
      <4>1. h * (q + 1) + h <= h * p
        BY <1>1, <3>1, ProductsStep
      <4> QED BY <1>1, <1>2, <2>1, <4>1
    <3> QED BY <3>1
  <2>4. s = 0
    BY <1>1, <1>2, <2>1, <2>2, <2>3
  <2> QED BY <1>1, <1>3, <2>4 DEF r, s
<1>4. CASE r + 1 # h
  <2>1. h * q + (r + 1) = h * p + s /\ r + 1 \in 0 .. h - 1
    BY <1>1, <1>2, <1>4
  <2>2. ~(p < q)
    <3>1. ASSUME p < q PROVE FALSE
      <4>1. h * p + h <= h * q
        BY <1>1, <3>1, ProductsStep
      <4> QED BY <1>1, <1>2, <2>1, <4>1
    <3> QED BY <3>1
  <2>3. ~(q < p)
    <3>1. ASSUME q < p PROVE FALSE
      <4>1. h * q + h <= h * p
        BY <1>1, <3>1, ProductsStep
      <4> QED BY <1>1, <1>2, <2>1, <4>1
    <3> QED BY <3>1
  <2>4. p = q /\ s = r + 1
    BY <1>1, <1>2, <2>1, <2>2, <2>3
  <2> QED BY <1>1, <1>4, <2>4 DEF r, s
<1> QED BY <1>3, <1>4

\* Recursion over the numbers defines a function, when each value is a function
\* of the one before.
Computes(f, T, base, step) ==
    /\ f \in [Nat -> T]
    /\ f[0] = base
    /\ \A n \in Nat : f[n + 1] = step[<<n, f[n]>>]

LEMMA Recursion ==
    ASSUME NEW T, NEW base \in T, NEW step \in [Nat \X T -> T]
    PROVE  \E f : Computes(f, T, base, step)
<1> DEFINE Upto(n, g) == /\ g \in [0 .. n -> T] /\ g[0] = base
                         /\ \A i \in 0 .. n - 1 : g[i + 1] = step[<<i, g[i]>>]
           Reached == {n \in Nat : \E g : Upto(n, g)}
           Agreed == {k \in Nat : \A m, n \in Nat : \A g, h :
                         k <= m /\ k <= n /\ Upto(m, g) /\ Upto(n, h) => g[k] = h[k]}
<1>1. 0 \in Reached
  <2>1. Upto(0, [i \in 0 .. 0 |-> base])
    OBVIOUS
  <2> QED BY <2>1
<1>2. ASSUME NEW n \in Nat, n \in Reached PROVE n + 1 \in Reached
  <2>1. PICK g : Upto(n, g)
    BY <1>2
  <2> DEFINE h == [i \in 0 .. n + 1 |-> IF i = n + 1 THEN step[<<n, g[n]>>] ELSE g[i]]
  <2>2. g[n] \in T /\ \A i \in 0 .. n : g[i] \in T
    BY <2>1
  <2>3. h \in [0 .. n + 1 -> T] /\ h[0] = base
    BY <2>1, <2>2
  <2>4. ASSUME NEW i \in 0 .. (n + 1) - 1 PROVE h[i + 1] = step[<<i, h[i]>>]
    <3>1. CASE i = n
      <4>1. n \in 0 .. n + 1 /\ n + 1 \in 0 .. n + 1 /\ n # n + 1
        OBVIOUS
      <4>2. h[n] = g[n] /\ h[n + 1] = step[<<n, g[n]>>]
        BY <4>1
      <4> QED BY <3>1, <4>2
    <3>2. CASE i # n
      <4>1. i \in 0 .. n - 1 /\ i + 1 \in 0 .. n /\ i + 1 # n + 1
        BY <3>2
      <4> QED BY <2>1, <4>1
    <3> QED BY <3>1, <3>2
  <2>5. Upto(n + 1, h)
    BY <2>3, <2>4
  <2>6. n + 1 \in Nat
    OBVIOUS
  <2> HIDE DEF Upto, h
  <2> QED BY <2>5, <2>6
<1>3. 0 \in Agreed
  OBVIOUS
<1>4. ASSUME NEW k \in Nat, k \in Agreed PROVE k + 1 \in Agreed
  <2> HIDE DEF Upto
  <2> SUFFICES ASSUME NEW m \in Nat, NEW n \in Nat, NEW g, NEW h,
                      k + 1 <= m, k + 1 <= n, Upto(m, g), Upto(n, h)
               PROVE  g[k + 1] = h[k + 1]
    OBVIOUS
  <2>1. g[k] = h[k]
    <3>1. k <= m /\ k <= n
      OBVIOUS
    <3> QED BY <1>4, <3>1
  <2> USE DEF Upto
  <2>2. k \in 0 .. m - 1 /\ k \in 0 .. n - 1
    OBVIOUS
  <2> QED BY <2>1, <2>2
<1>5. Nat \subseteq Reached /\ Nat \subseteq Agreed
  <2> HIDE DEF Reached, Agreed
  <2> QED BY <1>1, <1>2, <1>3, <1>4, SetInduction
<1> DEFINE G(n) == CHOOSE g : Upto(n, g)
           f == [n \in Nat |-> G(n)[n]]
<1>6. ASSUME NEW n \in Nat PROVE Upto(n, G(n))
  BY <1>5
<1>7. f \in [Nat -> T]
  <2> SUFFICES ASSUME NEW n \in Nat PROVE G(n)[n] \in T
    OBVIOUS
  <2> HIDE DEF G
  <2> QED BY <1>6
<1>8. f[0] = base
  <2>1. Upto(0, G(0))
    BY <1>6
  <2> HIDE DEF G
  <2> QED BY <2>1
<1>9. ASSUME NEW n \in Nat PROVE f[n + 1] = step[<<n, f[n]>>]
  <2>1. Upto(n, G(n)) /\ Upto(n + 1, G(n + 1)) /\ n + 1 \in Nat
    <3>1. n + 1 \in Nat
      OBVIOUS
    <3> HIDE DEF Upto, G
    <3> QED BY <1>6, <3>1
  <2>2. n \in Agreed
    BY <1>5
  <2>3. f[n] = G(n)[n] /\ f[n + 1] = G(n + 1)[n + 1]
    BY <2>1
  <2> HIDE DEF G, f
  <2>4. G(n)[n] = G(n + 1)[n]
    <3>1. n <= n /\ n <= n + 1
      OBVIOUS
    <3> HIDE DEF Upto
    <3> QED BY <2>1, <2>2, <3>1
  <2>5. G(n + 1)[n + 1] = step[<<n, G(n + 1)[n]>>]
    BY <2>1
  <2> QED BY <2>3, <2>4, <2>5
<1> QED BY <1>7, <1>8, <1>9 DEF Computes
-----------------------------------------------------------------------------
(* Trees of nodes (NodeTree). *)

DocumentKinds == {"none", "node", "forest", "batch"}
Verdicts == {"reading", "accepted", "refused"}

TreeTyped ==
    /\ kind \in DocumentKinds /\ verdict \in Verdicts
    /\ sent \in Seq(0 .. MAX_DEPTH + 2)
    /\ lists \in Seq(Nat)
    /\ remaining \in Nat

\* The documents within the limits.
Within ==
    /\ Cardinality(Nodes) <= MAX_RETURNED_NODES
    /\ \A i \in Nodes : sent[i] <= MAX_DEPTH
    /\ kind = "batch" => Cardinality(Items) <= MAX_INPUT_IDS

\* Only a batch has items that failed.
OnlyBatchesFail == kind # "batch" => \A i \in DOMAIN sent : sent[i] # Failed

\* No list is longer than there are nodes, so one that has its maximum has used
\* up the nodes; the list of a batch counts its items instead.
ListsAreShort ==
    \A l \in DOMAIN lists : (l = 1 /\ kind = "batch") \/ lists[l] <= Cardinality(Nodes)
ItemsAreListed == kind = "batch" /\ lists # <<>> => lists[1] = Cardinality(Items)

\* The inductive invariant: at every element the decoder has drawn the line
\* where it will be drawn when the whole document is known.
TreeInv ==
    /\ TreeTyped
    /\ kind = "none" => lists = <<>> /\ sent = <<>> /\ verdict = "reading"
    /\ OnlyBatchesFail /\ ListsAreShort /\ ItemsAreListed
    /\ verdict # "refused" => Within /\ remaining = MAX_RETURNED_NODES - Cardinality(Nodes)
    /\ verdict = "refused" => ~Within
    /\ verdict = "accepted" => lists = <<>>
    /\ verdict = "reading" => kind = "none" \/ lists # <<>>

LEMMA InitTree == TreeInit => TreeInv
<1> SUFFICES ASSUME TreeInit PROVE TreeInv
  OBVIOUS
<1>1. Nodes = {} /\ Items = {}
  BY DEF TreeInit, Nodes, Items
<1>2. Cardinality(Nodes) = 0 /\ Cardinality(Items) = 0
  BY <1>1, FS_EmptySet
<1> QED BY <1>1, <1>2, LimitsAssumption
        DEF TreeInit, TreeInv, TreeTyped, DocumentKinds, Verdicts, Within, OnlyBatchesFail,
            ListsAreShort, ItemsAreListed

\* The sets a maker counts are finite.
LEMMA TreeCounts ==
    ASSUME sent \in Seq(0 .. MAX_DEPTH + 2)
    PROVE  /\ IsFiniteSet(Nodes) /\ Cardinality(Nodes) \in Nat
           /\ IsFiniteSet(Items) /\ Cardinality(Items) \in Nat
           /\ Len(sent) \in Nat /\ DOMAIN sent = 1 .. Len(sent)
<1>1. Len(sent) \in Nat /\ DOMAIN sent = 1 .. Len(sent)
  OBVIOUS
<1>2. IsFiniteSet(1 .. Len(sent))
  BY <1>1, FS_Interval
<1>3. Nodes \subseteq 1 .. Len(sent) /\ Items \subseteq 1 .. Len(sent)
  BY <1>1 DEF Nodes, Items
<1> QED BY <1>1, <1>2, <1>3, FS_Subset, FS_CardinalityType

\* What one more element adds to them.
LEMMA OneMoreElement ==
    ASSUME sent \in Seq(0 .. MAX_DEPTH + 2), NEW d \in 0 .. MAX_DEPTH + 2,
           sent' = Append(sent, d)
    PROVE  /\ sent' \in Seq(0 .. MAX_DEPTH + 2)
           /\ DOMAIN sent' = DOMAIN sent \cup {Len(sent) + 1}
           /\ \A i \in DOMAIN sent : sent'[i] = sent[i]
           /\ sent'[Len(sent) + 1] = d
           /\ Nodes' = IF d = Failed THEN Nodes ELSE Nodes \cup {Len(sent) + 1}
           /\ Cardinality(Nodes') = IF d = Failed THEN Cardinality(Nodes) ELSE Cardinality(Nodes) + 1
           /\ Cardinality(Items') = IF d \in {0, Failed} THEN Cardinality(Items) + 1 ELSE Cardinality(Items)
<1>1. /\ sent' \in Seq(0 .. MAX_DEPTH + 2)
      /\ Len(sent) \in Nat /\ DOMAIN sent = 1 .. Len(sent) /\ Len(sent') = Len(sent) + 1
      /\ \A i \in DOMAIN sent : sent'[i] = sent[i]
      /\ sent'[Len(sent) + 1] = d
  OBVIOUS
<1>2. DOMAIN sent' = DOMAIN sent \cup {Len(sent) + 1} /\ Len(sent) + 1 \notin DOMAIN sent
  BY <1>1
<1>3. Nodes' = IF d = Failed THEN Nodes ELSE Nodes \cup {Len(sent) + 1}
  BY <1>1, <1>2 DEF Nodes, Failed
<1>4. Items' = IF d \in {0, Failed} THEN Items \cup {Len(sent) + 1} ELSE Items
  BY <1>1, <1>2 DEF Items, Failed
<1>5. Len(sent) + 1 \notin Nodes /\ Len(sent) + 1 \notin Items
  BY <1>2 DEF Nodes, Items
<1>6. /\ Cardinality(Nodes \cup {Len(sent) + 1}) = Cardinality(Nodes) + 1
      /\ Cardinality(Items \cup {Len(sent) + 1}) = Cardinality(Items) + 1
  BY <1>5, TreeCounts, FS_AddElement
<1> QED BY <1>1, <1>2, <1>3, <1>4, <1>6

\* A step within a document that adds an element: what the decoder has to decide.
LEMMA ElementKeepsTree ==
    ASSUME TreeInv, NEW d \in 0 .. MAX_DEPTH + 2, sent' = Append(sent, d),
           lists # <<>>, kind' = kind,
           d = Failed => kind = "batch",
           lists' \in Seq(Nat), lists' # <<>>,
           kind = "batch" => lists'[1] = IF d \in {0, Failed} THEN lists[1] + 1 ELSE lists[1],
           \A l \in DOMAIN lists' :
              \/ l = 1 /\ kind = "batch"
              \/ lists'[l] <= IF d = Failed THEN Cardinality(Nodes) ELSE Cardinality(Nodes) + 1,
           verdict # "reading" => UNCHANGED <<verdict, remaining>>,
           verdict = "reading" =>
              \/ verdict' = "refused" /\ ~Within' /\ remaining' \in Nat
              \/ verdict' = "reading" /\ Within'
                 /\ remaining' = IF d = Failed THEN remaining ELSE remaining - 1
    PROVE  TreeInv'
<1>1. sent \in Seq(0 .. MAX_DEPTH + 2) /\ verdict \in {"reading", "refused"} /\ kind # "none"
  BY DEF TreeInv, TreeTyped, Verdicts
<1>2. /\ sent' \in Seq(0 .. MAX_DEPTH + 2)
      /\ DOMAIN sent' = DOMAIN sent \cup {Len(sent) + 1}
      /\ \A i \in DOMAIN sent : sent'[i] = sent[i]
      /\ sent'[Len(sent) + 1] = d
      /\ Nodes \subseteq Nodes'
      /\ Cardinality(Nodes') = IF d = Failed THEN Cardinality(Nodes) ELSE Cardinality(Nodes) + 1
      /\ Cardinality(Items') = IF d \in {0, Failed} THEN Cardinality(Items) + 1 ELSE Cardinality(Items)
  BY <1>1, OneMoreElement
<1>3. Cardinality(Nodes) \in Nat /\ Cardinality(Items) \in Nat
  BY <1>1, TreeCounts
<1>4. OnlyBatchesFail'
  BY <1>2 DEF TreeInv, OnlyBatchesFail, Failed
<1>5. ListsAreShort'
  BY <1>2 DEF ListsAreShort
<1>6. ItemsAreListed'
  BY <1>2 DEF TreeInv, ItemsAreListed
<1>7. CASE verdict = "refused"
  <2>1. ~Within'
    <3>1. \A i \in Nodes : sent'[i] = sent[i]
      BY <1>2 DEF Nodes
    <3>2. ~Within /\ MAX_RETURNED_NODES \in Nat /\ MAX_INPUT_IDS \in Nat
      BY <1>7, LimitsAssumption DEF TreeInv
    <3>3. CASE Cardinality(Nodes) > MAX_RETURNED_NODES
      BY <1>2, <1>3, <3>2, <3>3 DEF Within
    <3>4. CASE \E i \in Nodes : ~(sent[i] <= MAX_DEPTH)
      BY <1>2, <3>1, <3>4 DEF Within
    <3>5. CASE kind = "batch" /\ Cardinality(Items) > MAX_INPUT_IDS
      BY <1>2, <1>3, <3>2, <3>5 DEF Within
    <3>6. \/ ~(Cardinality(Nodes) <= MAX_RETURNED_NODES)
          \/ \E i \in Nodes : ~(sent[i] <= MAX_DEPTH)
          \/ kind = "batch" /\ ~(Cardinality(Items) <= MAX_INPUT_IDS)
      BY <3>2 DEF Within
    <3> QED BY <1>3, <3>2, <3>3, <3>4, <3>5, <3>6
  <2> QED BY <1>1, <1>2, <1>4, <1>5, <1>6, <1>7, <2>1 DEF TreeInv, TreeTyped
<1>8. CASE verdict = "reading"
  <2>1. remaining = MAX_RETURNED_NODES - Cardinality(Nodes) /\ MAX_RETURNED_NODES \in Nat
    BY <1>8, LimitsAssumption DEF TreeInv
  <2>2. verdict' # "refused" =>
           remaining' = MAX_RETURNED_NODES - Cardinality(Nodes') /\ remaining' \in Nat
    <3>1. /\ Cardinality(Nodes') \in Nat
          /\ Cardinality(Nodes') = IF d = Failed THEN Cardinality(Nodes) ELSE Cardinality(Nodes) + 1
      BY <1>2, <1>3
    <3>2. Within' => Cardinality(Nodes') <= MAX_RETURNED_NODES
      BY DEF Within
    <3>3. verdict' # "refused" =>
             /\ Within'
             /\ remaining' = IF d = Failed THEN remaining ELSE remaining - 1
      BY <1>8
    <3> DEFINE before == Cardinality(Nodes)
               after == Cardinality(Nodes')
    <3>4. before \in Nat
      BY <1>3
    <3> HIDE DEF before, after
    <3>5. CASE d = Failed
      BY <2>1, <3>1, <3>2, <3>3, <3>4, <3>5 DEF before, after
    <3>6. CASE d # Failed
      BY <2>1, <3>1, <3>2, <3>3, <3>4, <3>6 DEF before, after
    <3> QED BY <3>5, <3>6
  <2>3. TreeTyped'
    BY <1>1, <1>2, <1>8, <2>2 DEF TreeInv, TreeTyped, Verdicts
  <2> QED BY <1>1, <1>4, <1>5, <1>6, <1>8, <2>2, <2>3 DEF TreeInv
<1> QED BY <1>1, <1>7, <1>8

\* The lists after a step: `OneMore' counts it in the innermost one.
LEMMA OneMoreInList ==
    ASSUME lists \in Seq(Nat), lists # <<>>
    PROVE  /\ OneMore \in Seq(Nat) /\ Append(OneMore, 0) \in Seq(Nat)
           /\ Len(lists) \in Nat \ {0} /\ DOMAIN lists = 1 .. Len(lists)
           /\ DOMAIN OneMore = 1 .. Len(lists)
           /\ OneMore # <<>> /\ Append(OneMore, 0) # <<>>
           /\ \A l \in 1 .. Len(lists) :
                 OneMore[l] = (IF l = Len(lists) THEN lists[l] + 1 ELSE lists[l])
           /\ DOMAIN Append(OneMore, 0) = 1 .. Len(lists) + 1
           /\ \A l \in 1 .. Len(lists) : Append(OneMore, 0)[l] = OneMore[l]
           /\ Append(OneMore, 0)[Len(lists) + 1] = 0
<1>1. Len(lists) \in Nat \ {0} /\ DOMAIN lists = 1 .. Len(lists)
  OBVIOUS
<1>2. /\ OneMore \in Seq(Nat) /\ DOMAIN OneMore = 1 .. Len(lists) /\ Len(OneMore) = Len(lists)
      /\ \A l \in 1 .. Len(lists) :
            OneMore[l] = (IF l = Len(lists) THEN lists[l] + 1 ELSE lists[l])
  <2>1. lists[Len(lists)] + 1 \in Nat /\ lists \in [1 .. Len(lists) -> Nat]
    BY <1>1
  <2>2. OneMore = [l \in 1 .. Len(lists) |-> IF l = Len(lists) THEN lists[l] + 1 ELSE lists[l]]
    BY <1>1, <2>1 DEF OneMore
  <2>3. OneMore \in [1 .. Len(lists) -> Nat]
    BY <2>1, <2>2
  <2>4. OneMore \in Seq(Nat) /\ Len(OneMore) = Len(lists)
    BY <1>1, <2>3
  <2> QED BY <2>2, <2>3, <2>4
<1> DEFINE more == OneMore
<1>3. /\ more \in Seq(Nat) /\ 0 \in Nat /\ Len(more) = Len(lists) /\ more # <<>>
      /\ DOMAIN more = 1 .. Len(lists)
  BY <1>1, <1>2
<1> HIDE DEF more
<1>4. /\ Append(more, 0) \in Seq(Nat) /\ Append(more, 0) # <<>>
      /\ DOMAIN Append(more, 0) = 1 .. Len(lists) + 1
      /\ \A l \in 1 .. Len(lists) : Append(more, 0)[l] = more[l]
      /\ Append(more, 0)[Len(lists) + 1] = 0
  BY <1>3, OneMoreAtTheEnd
<1> QED BY <1>1, <1>2, <1>3, <1>4 DEF more

\* A list that is full has used up the nodes, and the list of a batch the items.
LEMMA FullListsAreFull ==
    ASSUME TreeInv, lists # <<>>, verdict = "reading"
    PROVE  /\ Depth \in Nat /\ InnerLength \in Nat /\ InnerLength = lists[Len(lists)]
           /\ kind = "batch" /\ Depth = 0 =>
                 InnerLength = Cardinality(Items) /\ InnerLength <= MAX_INPUT_IDS
           /\ ~(kind = "batch" /\ Depth = 0) =>
                 InnerLength <= Cardinality(Nodes) /\ InnerLength <= MAX_RETURNED_NODES
<1>1. lists \in Seq(Nat) /\ Len(lists) \in Nat \ {0} /\ DOMAIN lists = 1 .. Len(lists)
  BY DEF TreeInv, TreeTyped
<1>2. sent \in Seq(0 .. MAX_DEPTH + 2) /\ Within /\ ListsAreShort /\ ItemsAreListed
  BY DEF TreeInv, TreeTyped
<1>3. MAX_RETURNED_NODES \in Nat /\ MAX_INPUT_IDS \in Nat
  BY LimitsAssumption
<1>4. Cardinality(Nodes) \in Nat /\ Cardinality(Items) \in Nat
  BY <1>2, TreeCounts
<1>5. Depth \in Nat /\ InnerLength \in Nat /\ (Depth = 0 <=> Len(lists) = 1)
  BY <1>1 DEF Depth, InnerLength
<1>6. CASE kind = "batch" /\ Depth = 0
  BY <1>1, <1>2, <1>5, <1>6 DEF ItemsAreListed, InnerLength, Within
<1>7. CASE ~(kind = "batch" /\ Depth = 0)
  <2>1. InnerLength <= Cardinality(Nodes)
    BY <1>1, <1>2, <1>5, <1>7 DEF ListsAreShort, InnerLength
  <2> QED BY <1>2, <1>3, <1>4, <1>5, <1>7, <2>1 DEF Within, InnerLength
<1> QED BY <1>5, <1>6, <1>7 DEF InnerLength

LEMMA NodeKeepsTree == TreeInv /\ Node => TreeInv'
<1> SUFFICES ASSUME TreeInv, Node PROVE TreeInv'
  OBVIOUS
<1> DEFINE d == Depth
<1>1. /\ lists # <<>> /\ sent' = Append(sent, d) /\ kind' = kind
      /\ lists' = Append(OneMore, 0) /\ d <= MAX_DEPTH + 1
  BY DEF Node, MayGoOn
<1>2. /\ sent \in Seq(0 .. MAX_DEPTH + 2) /\ lists \in Seq(Nat) /\ remaining \in Nat
      /\ MAX_DEPTH \in Nat /\ MAX_RETURNED_NODES \in Nat /\ MAX_INPUT_IDS \in Nat
  BY LimitsAssumption DEF TreeInv, TreeTyped
<1>3. /\ Len(lists) \in Nat \ {0} /\ d = Len(lists) - 1
      /\ d \in 0 .. MAX_DEPTH + 2 /\ d # Failed
  BY <1>1, <1>2 DEF Depth, Failed
<1>4. /\ lists' \in Seq(Nat) /\ lists' # <<>> /\ DOMAIN lists' = 1 .. Len(lists) + 1
      /\ DOMAIN lists = 1 .. Len(lists)
      /\ lists'[Len(lists)] = lists[Len(lists)] + 1
      /\ \A l \in 1 .. Len(lists) : l # Len(lists) => lists'[l] = lists[l]
      /\ lists'[Len(lists) + 1] = 0
  <2>1. Len(lists) \in 1 .. Len(lists)
    BY <1>3
  <2> QED BY <1>1, <1>2, <2>1, OneMoreInList
<1>5. /\ Cardinality(Nodes) \in Nat /\ Cardinality(Items) \in Nat
      /\ Nodes' = Nodes \cup {Len(sent) + 1}
      /\ sent'[Len(sent) + 1] = d /\ (\A i \in Nodes : sent'[i] = sent[i])
      /\ Cardinality(Nodes') = Cardinality(Nodes) + 1
      /\ Cardinality(Items') = IF d = 0 THEN Cardinality(Items) + 1 ELSE Cardinality(Items)
  BY <1>1, <1>2, <1>3, TreeCounts, OneMoreElement DEF Nodes
<1>6. kind = "batch" => lists'[1] = IF d \in {0, Failed} THEN lists[1] + 1 ELSE lists[1]
  <2>1. d \in {0, Failed} <=> d = 0
    BY <1>3
  <2>2. d = 0 <=> Len(lists) = 1
    BY <1>3
  <2>3. 1 \in 1 .. Len(lists)
    BY <1>3
  <2>4. lists'[1] = IF Len(lists) = 1 THEN lists[1] + 1 ELSE lists[1]
    <3> HIDE DEF d
    <3> QED BY <1>4, <2>3
  <2> HIDE DEF d
  <2> QED BY <2>1, <2>2, <2>4
<1>7. \A l \in DOMAIN lists' : (l = 1 /\ kind = "batch") \/ lists'[l] <= Cardinality(Nodes) + 1
  <2>1. \A l \in DOMAIN lists : (l = 1 /\ kind = "batch") \/ lists[l] <= Cardinality(Nodes)
    BY DEF TreeInv, ListsAreShort
  <2>2. SUFFICES ASSUME NEW l \in 1 .. Len(lists) + 1, ~(l = 1 /\ kind = "batch")
                 PROVE  lists'[l] <= Cardinality(Nodes) + 1
    BY <1>4
  <2>3. CASE l = Len(lists) + 1
    <3>1. lists'[l] = 0
      BY <1>4, <2>3
    <3> QED BY <1>5, <3>1
  <2>4. CASE l \in 1 .. Len(lists)
    <3>1. lists[l] \in Nat /\ lists[l] <= Cardinality(Nodes)
      <4>1. l \in DOMAIN lists /\ ~(l = 1 /\ kind = "batch")
        BY <1>4, <2>2, <2>4
      <4> QED BY <1>2, <2>1, <4>1
    <3>2. lists'[l] = lists[l] \/ lists'[l] = lists[l] + 1
      BY <1>4, <2>4
    <3> QED BY <1>5, <3>1, <3>2
  <2> QED BY <1>3, <2>2, <2>3, <2>4
<1>8. ASSUME verdict = "reading"
      PROVE  \/ verdict' = "refused" /\ ~Within' /\ remaining' \in Nat
             \/ verdict' = "reading" /\ Within' /\ remaining' = remaining - 1
  <2>1. /\ Within /\ remaining = MAX_RETURNED_NODES - Cardinality(Nodes)
    BY <1>8 DEF TreeInv
  <2>2. Within' <=> /\ Cardinality(Nodes) + 1 <= MAX_RETURNED_NODES
                    /\ d <= MAX_DEPTH
                    /\ kind = "batch" /\ d = 0 => Cardinality(Items) + 1 <= MAX_INPUT_IDS
    BY <1>1, <1>2, <1>5, <2>1 DEF Within
  <2>3. ListIsFull => ~Within'
    BY <1>1, <1>2, <1>5, <1>8, <2>1, <2>2, FullListsAreFull DEF ListIsFull, MaximumItems, Within
  <2>4. ListIsFull \/ d > MAX_DEPTH \/ remaining = 0 => ~Within'
    BY <1>2, <1>3, <1>5, <2>1, <2>2, <2>3
  <2>5. ASSUME ~(ListIsFull \/ d > MAX_DEPTH \/ remaining = 0) PROVE Within'
    <3>1. d <= MAX_DEPTH
      BY <1>2, <1>3, <2>5
    <3>2. Cardinality(Nodes) + 1 <= MAX_RETURNED_NODES
      BY <1>2, <1>5, <2>1, <2>5 DEF Within
    <3>3. ASSUME kind = "batch", d = 0 PROVE Cardinality(Items) + 1 <= MAX_INPUT_IDS
      <4>1. InnerLength = Cardinality(Items) /\ InnerLength <= MAX_INPUT_IDS
        BY <1>1, <1>8, <3>3, FullListsAreFull
      <4>2. InnerLength # MAX_INPUT_IDS
        BY <2>5, <3>3 DEF ListIsFull, MaximumItems
      <4> QED BY <1>2, <1>5, <4>1, <4>2
    <3> QED BY <2>2, <3>1, <3>2, <3>3
  <2> QED BY <1>2, <1>8, <2>4, <2>5 DEF Node, Refuse
<1>9. verdict # "reading" => UNCHANGED <<verdict, remaining>>
  BY DEF Node
<1> HIDE DEF d
<1> QED BY <1>1, <1>3, <1>4, <1>6, <1>7, <1>8, <1>9, ElementKeepsTree

LEMMA FailedItemKeepsTree == TreeInv /\ FailedItem => TreeInv'
<1> SUFFICES ASSUME TreeInv, FailedItem PROVE TreeInv'
  OBVIOUS
<1>1. /\ lists # <<>> /\ sent' = Append(sent, Failed) /\ kind' = kind /\ kind = "batch"
      /\ lists' = OneMore /\ Depth = 0
  BY DEF FailedItem, MayGoOn
<1>2. /\ sent \in Seq(0 .. MAX_DEPTH + 2) /\ lists \in Seq(Nat) /\ remaining \in Nat
      /\ MAX_DEPTH \in Nat /\ MAX_RETURNED_NODES \in Nat /\ MAX_INPUT_IDS \in Nat
      /\ Failed \in 0 .. MAX_DEPTH + 2
  BY LimitsAssumption DEF TreeInv, TreeTyped, Failed
<1>3. Len(lists) = 1
  BY <1>1, <1>2 DEF Depth
<1>4. /\ lists' \in Seq(Nat) /\ lists' # <<>> /\ DOMAIN lists' = 1 .. 1
      /\ lists'[1] = lists[1] + 1
  BY <1>1, <1>2, <1>3, OneMoreInList
<1>5. /\ Cardinality(Nodes) \in Nat /\ Cardinality(Items) \in Nat
      /\ Nodes' = Nodes /\ (\A i \in Nodes : sent'[i] = sent[i])
      /\ Cardinality(Items') = Cardinality(Items) + 1
  BY <1>1, <1>2, TreeCounts, OneMoreElement DEF Nodes
<1>6. ASSUME verdict = "reading"
      PROVE  \/ verdict' = "refused" /\ ~Within' /\ remaining' \in Nat
             \/ verdict' = "reading" /\ Within' /\ remaining' = remaining
  <2>1. Within /\ InnerLength = Cardinality(Items) /\ InnerLength <= MAX_INPUT_IDS
    BY <1>1, <1>6, FullListsAreFull DEF TreeInv
  <2>2. Within' <=> Cardinality(Items) + 1 <= MAX_INPUT_IDS
    BY <1>1, <1>5, <2>1 DEF Within
  <2>3. Within' <=> ~ListIsFull
    BY <1>1, <1>2, <1>5, <2>1, <2>2 DEF ListIsFull, MaximumItems
  <2> QED BY <1>2, <1>6, <2>3 DEF FailedItem, Refuse
<1>7. verdict # "reading" => UNCHANGED <<verdict, remaining>>
  BY DEF FailedItem
<1>8. \A l \in DOMAIN lists' : l = 1 /\ kind = "batch"
  BY <1>1, <1>4
<1> QED BY <1>1, <1>2, <1>4, <1>6, <1>7, <1>8, ElementKeepsTree

LEMMA EndListKeepsTree == TreeInv /\ EndList => TreeInv'
<1> SUFFICES ASSUME TreeInv, EndList PROVE TreeInv'
  OBVIOUS
<1>1. /\ lists \in Seq(Nat) /\ lists # <<>> /\ kind # "none" /\ verdict # "accepted"
      /\ verdict \in Verdicts
      /\ UNCHANGED <<kind, sent, remaining>>
      /\ lists' = SubSeq(lists, 1, Len(lists) - 1)
      /\ verdict' = IF verdict = "reading" /\ Depth = 0 THEN "accepted" ELSE verdict
  BY DEF TreeInv, TreeTyped, EndList
<1>2. Len(lists) \in Nat \ {0} /\ DOMAIN lists = 1 .. Len(lists)
  BY <1>1
<1>3. /\ lists' \in Seq(Nat) /\ DOMAIN lists' = 1 .. Len(lists) - 1
      /\ \A l \in 1 .. Len(lists) - 1 : lists'[l] = lists[l]
      /\ lists' = <<>> <=> Depth = 0
  <2>1. Len(lists) - 1 \in 0 .. Len(lists)
    BY <1>2
  <2>2. /\ lists' \in Seq(Nat) /\ DOMAIN lists' = 1 .. Len(lists) - 1
        /\ \A l \in 1 .. Len(lists) - 1 : lists'[l] = lists[l]
        /\ Len(lists') = Len(lists) - 1
    BY <1>1, <1>2, <2>1
  <2>3. lists' = <<>> <=> Len(lists) - 1 = 0
    BY <1>2, <2>2
  <2> QED BY <2>2, <2>3 DEF Depth
<1>4. Nodes' = Nodes /\ Items' = Items
  BY <1>1 DEF Nodes, Items
<1>5. ListsAreShort' /\ ItemsAreListed' /\ OnlyBatchesFail' /\ (Within' <=> Within)
  <2>1. ListsAreShort'
    BY <1>1, <1>2, <1>3, <1>4 DEF TreeInv, ListsAreShort
  <2>2. ItemsAreListed'
    BY <1>1, <1>2, <1>3, <1>4 DEF TreeInv, ItemsAreListed
  <2> QED BY <1>1, <1>4, <2>1, <2>2 DEF TreeInv, OnlyBatchesFail, Within
<1>6. TreeTyped'
  BY <1>1, <1>3 DEF TreeInv, TreeTyped, Verdicts
<1> QED BY <1>1, <1>3, <1>4, <1>5, <1>6 DEF TreeInv, Verdicts

LEMMA StepKeepsTree == TreeInv /\ [TreeNext]_treeVars => TreeInv'
<1> SUFFICES ASSUME TreeInv, [TreeNext]_treeVars PROVE TreeInv'
  OBVIOUS
<1>1. ASSUME NEW k \in {"node", "forest", "batch"}, BeginTree(k) PROVE TreeInv'
  <2>1. /\ kind = "none" /\ lists = <<>> /\ sent = <<>> /\ verdict = "reading"
        /\ kind' = k /\ lists' = <<0>> /\ UNCHANGED <<sent, remaining, verdict>>
    BY <1>1 DEF BeginTree, TreeInv
  <2>2. Nodes' = Nodes /\ Items' = Items /\ Nodes = {} /\ Items = {}
    BY <2>1 DEF Nodes, Items
  <2>3. Cardinality(Nodes) = 0 /\ Cardinality(Items) = 0
    BY <2>2, FS_EmptySet
  <2>4. DOMAIN lists' = {1} /\ lists'[1] = 0 /\ lists' \in Seq(Nat) /\ lists' # <<>>
    BY <2>1
  <2>5. ListsAreShort' /\ ItemsAreListed' /\ OnlyBatchesFail'
    BY <2>1, <2>2, <2>3, <2>4 DEF ListsAreShort, ItemsAreListed, OnlyBatchesFail
  <2>6. Within' /\ remaining' = MAX_RETURNED_NODES - Cardinality(Nodes')
    BY <2>1, <2>2, <2>3, LimitsAssumption DEF TreeInv, Within
  <2> QED BY <2>1, <2>4, <2>5, <2>6 DEF TreeInv, TreeTyped, DocumentKinds
<1>2. CASE UNCHANGED treeVars
  BY <1>2 DEF treeVars, TreeInv, TreeTyped, Within, OnlyBatchesFail, ListsAreShort, ItemsAreListed,
              Nodes, Items
<1> QED BY <1>1, <1>2, NodeKeepsTree, FailedItemKeepsTree, EndListKeepsTree DEF TreeNext

\* What the maker counts as its recursion goes from node to node is what the
\* whole document has: the last node has counted them all, and at every node its
\* children are still to come.
LEMMA CountingIsWithin == TreeInv => (TryFrom <=> Within)
<1> SUFFICES ASSUME TreeInv PROVE TryFrom <=> Within
  OBVIOUS
<1> DEFINE UpTo(i) == {j \in Nodes : j <= i}
<1>1. /\ sent \in Seq(0 .. MAX_DEPTH + 2)
      /\ MAX_RETURNED_NODES \in Nat /\ MAX_INPUT_IDS \in Nat /\ MAX_DEPTH \in Nat
  BY LimitsAssumption DEF TreeInv, TreeTyped
<1>2. /\ IsFiniteSet(Nodes) /\ Cardinality(Nodes) \in Nat
      /\ IsFiniteSet(Items) /\ Cardinality(Items) \in Nat
      /\ Nodes \subseteq 1 .. Len(sent) /\ Len(sent) \in Nat
  BY <1>1, TreeCounts DEF Nodes
<1>3. kind # "batch" => Cardinality(Items) <= Cardinality(Nodes)
  <2>1. kind # "batch" => Items \subseteq Nodes
    BY DEF TreeInv, OnlyBatchesFail, Items, Nodes
  <2> QED BY <1>2, <2>1, FS_Subset
<1>4. ASSUME TryFrom PROVE Within
  <2>1. CASE Nodes = {}
    BY <1>1, <1>4, <2>1, FS_EmptySet DEF TryFrom, Within
  <2>2. CASE Nodes # {}
    <3>1. PICK i \in Nodes : \A j \in Nodes : j <= i
      BY <1>2, <2>2, LastNumber
    <3>2. UpTo(i) = Nodes
      BY <3>1
    <3>3. Cardinality(Nodes) <= MAX_RETURNED_NODES
      BY <1>4, <3>1, <3>2 DEF TryFrom, validate_node_roots, validate_node, CountAt
    <3> QED BY <1>4, <3>3 DEF TryFrom, Within, validate_node_roots, validate_node
  <2> QED BY <2>1, <2>2
<1>5. ASSUME Within PROVE TryFrom
  <2>1. ASSUME NEW i \in Nodes PROVE validate_node(i)
    <3>1. /\ UpTo(i) \subseteq Nodes /\ Children(i) \subseteq Nodes
          /\ UpTo(i) \cap Children(i) = {}
      <4>1. Children(i) \subseteq Nodes /\ \A j \in Children(i) : j > i
        BY DEF Children
      <4>2. \A j \in UpTo(i) : ~(j > i)
        BY <1>2
      <4> QED BY <4>1, <4>2
    <3>2. /\ IsFiniteSet(UpTo(i)) /\ IsFiniteSet(Children(i))
          /\ UpTo(i) \cup Children(i) \subseteq Nodes
      BY <1>2, <3>1, FS_Subset
    <3>3. /\ Cardinality(UpTo(i)) \in Nat /\ Cardinality(Children(i)) \in Nat
          /\ Cardinality(UpTo(i) \cup Children(i))
                = Cardinality(UpTo(i)) + Cardinality(Children(i))
      <4> HIDE DEF UpTo
      <4>1. /\ Cardinality(UpTo(i)) \in Nat /\ Cardinality(Children(i)) \in Nat
            /\ Cardinality(UpTo(i) \cap Children(i)) = 0
        BY <3>1, <3>2, FS_EmptySet, FS_CardinalityType
      <4>2. Cardinality(UpTo(i) \cup Children(i))
               = Cardinality(UpTo(i)) + Cardinality(Children(i)) - Cardinality(UpTo(i) \cap Children(i))
        BY <3>2, FS_Union
      <4> QED BY <4>1, <4>2
    <3>4. Cardinality(UpTo(i) \cup Children(i)) <= Cardinality(Nodes)
      BY <1>2, <3>2, FS_Subset
    <3> HIDE DEF UpTo
    <3>5. Cardinality(UpTo(i)) + Cardinality(Children(i)) <= MAX_RETURNED_NODES
      BY <1>1, <1>2, <1>5, <3>3, <3>4 DEF Within
    <3>6. CountAt(i) = Cardinality(UpTo(i))
      BY DEF CountAt, UpTo
    <3> QED BY <1>1, <1>5, <3>3, <3>5, <3>6 DEF validate_node, Within
  <2>2. Cardinality(Items) <= (IF kind = "batch" THEN MAX_INPUT_IDS ELSE MAX_RETURNED_NODES)
    BY <1>1, <1>2, <1>3, <1>5 DEF Within
  <2> QED BY <2>1, <2>2 DEF TryFrom, validate_node_roots
<1> QED BY <1>4, <1>5

\* Whoever reads a tree, a forest or a batch off the wire accepts exactly what
\* its maker may make, whatever its shape and whatever the limits.
THEOREM DecodersMatchMakers == TreeSpec => []SameTrees
<1>1. TreeInv => SameTrees
  <2> SUFFICES ASSUME TreeInv, Ended PROVE SameTrees
    BY DEF SameTrees
  <2>1. verdict = "accepted" <=> Within
    BY DEF TreeInv, TreeTyped, Verdicts, Ended
  <2> QED BY <2>1, CountingIsWithin DEF SameTrees, Within
<1> QED BY <1>1, InitTree, StepKeepsTree, PTL DEF TreeSpec

-----------------------------------------------------------------------------
(* The packing of images (ImageBatch). *)

BatchTyped ==
    /\ screenshot \in BOOLEAN /\ overflow \in BOOLEAN
    /\ assets \in Seq(Assets)
    /\ kept \in Seq(Assets \cup {Refused})
    /\ images \in Seq(Nat)

\* The flag of the loop is exactly that some asset did not fit.
OverflowIsCut == overflow <=> \E j \in DOMAIN assets : Overflows(j)

BatchInv ==
    /\ BatchTyped
    /\ packed = "none" => assets = <<>> /\ kept = <<>> /\ images = <<>>
    /\ OverflowIsCut /\ EveryItem /\ ImagesOfItems
    /\ packed = "sent" => Accounts(screenshot, kept)

LEMMA InitBatch == BatchInit => BatchInv
<1> SUFFICES ASSUME BatchInit PROVE BatchInv
  OBVIOUS
<1>1. /\ DOMAIN assets = {} /\ DOMAIN kept = {} /\ DOMAIN images = {}
      /\ Len(kept) = Len(assets)
  BY DEF BatchInit
<1>2. Range(images) = {}
  BY <1>1 DEF Range
<1>3. OverflowIsCut /\ EveryItem /\ ImagesOfItems
  BY <1>1, <1>2 DEF BatchInit, OverflowIsCut, EveryItem, ImagesOfItems
<1>4. BatchTyped /\ packed # "sent" /\ assets = <<>> /\ kept = <<>> /\ images = <<>>
  BY EmptySeq DEF BatchInit, BatchTyped
<1> QED BY <1>3, <1>4 DEF BatchInv

LEMMA NewestOverflows ==
    ASSUME NEW k, NEW asset, screenshot' = screenshot,
           assets'[k] = asset, SubSeq(kept', 1, k - 1) = kept
    PROVE  Overflows(k)' <=> /\ ~asset.failed /\ ItemAllowed(screenshot, asset)
                             /\ ~Accounts(screenshot, Append(kept, asset))
  BY DEF Overflows

\* What is asked of an asset depends on those up to it only.
LEMMA EarlierStay ==
    ASSUME BatchTyped, NEW n \in Nat, Len(assets) = n, Len(kept) = n,
           NEW asset \in Assets, NEW item \in Assets \cup {Refused},
           assets' = Append(assets, asset), kept' = Append(kept, item),
           screenshot' = screenshot
    PROVE  /\ DOMAIN assets = 1 .. n /\ DOMAIN kept = 1 .. n
           /\ Len(assets') = n + 1 /\ Len(kept') = n + 1
           /\ DOMAIN assets' = 1 .. n + 1 /\ DOMAIN kept' = 1 .. n + 1
           /\ assets' \in Seq(Assets) /\ kept' \in Seq(Assets \cup {Refused})
           /\ \A i \in 1 .. n : assets'[i] = assets[i] /\ kept'[i] = kept[i]
           /\ assets'[n + 1] = asset /\ kept'[n + 1] = item
           /\ \A i \in 1 .. n : Overflows(i)' <=> Overflows(i)
           /\ Overflows(n + 1)' <=> /\ ~asset.failed /\ ItemAllowed(screenshot, asset)
                                    /\ ~Accounts(screenshot, Append(kept, asset))
<1>1. assets \in Seq(Assets) /\ kept \in Seq(Assets \cup {Refused})
  BY DEF BatchTyped
<1>2. /\ DOMAIN assets = 1 .. n
      /\ assets' \in Seq(Assets) /\ Len(assets') = n + 1 /\ DOMAIN assets' = 1 .. n + 1
      /\ \A i \in 1 .. n : assets'[i] = assets[i]
      /\ assets'[n + 1] = asset
  BY <1>1, OneMoreAtTheEnd
<1>3. /\ DOMAIN kept = 1 .. n
      /\ kept' \in Seq(Assets \cup {Refused}) /\ Len(kept') = n + 1 /\ DOMAIN kept' = 1 .. n + 1
      /\ \A i \in 1 .. n : kept'[i] = kept[i]
      /\ kept'[n + 1] = item
  BY <1>1, OneMoreAtTheEnd
<1>4. \A i \in 1 .. n + 1 : SubSeq(kept', 1, i - 1) = SubSeq(kept, 1, i - 1)
  BY <1>1, <1>2, <1>3, SubSeqOfAppend
<1>5. SubSeq(kept, 1, n) = kept
  BY <1>1, SubSeqFull
<1>6. ASSUME NEW i \in 1 .. n PROVE Overflows(i)' <=> Overflows(i)
  <2>1. SubSeq(kept', 1, i - 1) = SubSeq(kept, 1, i - 1) /\ assets'[i] = assets[i]
    BY <1>2, <1>4
  <2> QED BY <2>1 DEF Overflows
<1>7. Overflows(n + 1)' <=> /\ ~asset.failed /\ ItemAllowed(screenshot, asset)
                            /\ ~Accounts(screenshot, Append(kept, asset))
  <2>1. SubSeq(kept', 1, n + 1 - 1) = kept
    BY <1>2, <1>4, <1>5
  <2> DEFINE k == n + 1
  <2>2. SubSeq(kept', 1, k - 1) = kept /\ assets'[k] = asset
    BY <1>2, <2>1
  <2> HIDE DEF k
  <2>3. Overflows(k)' <=> /\ ~asset.failed /\ ItemAllowed(screenshot, asset)
                          /\ ~Accounts(screenshot, Append(kept, asset))
    BY <2>2, NewestOverflows
  <2> QED BY <2>3, Zenon DEF k
<1> QED BY <1>1, <1>2, <1>3, <1>6, <1>7

\* One more asset and its item.
LEMMA AssetKeepsBatch ==
    ASSUME BatchInv, NEW asset \in Assets, NEW item \in Assets \cup {Refused},
           packed = "packing", packed' = packed, screenshot' = screenshot,
           assets' = Append(assets, asset), kept' = Append(kept, item),
           overflow' = (overflow \/ (/\ ~asset.failed /\ ItemAllowed(screenshot, asset)
                                     /\ ~Accounts(screenshot, Append(kept, asset)))),
           item = (IF asset.failed \/ (~overflow' /\ ItemAllowed(screenshot, asset))
                   THEN asset ELSE Refused),
           images' = (IF item.failed THEN images ELSE Append(images, Len(assets')))
    PROVE  BatchInv'
<1>1. /\ BatchTyped /\ EveryItem /\ ImagesOfItems /\ OverflowIsCut
      /\ images \in Seq(Nat) /\ assets \in Seq(Assets)
  BY DEF BatchInv, BatchTyped
<1>n. PICK n \in Nat : Len(assets) = n /\ Len(kept) = n
  BY <1>1 DEF EveryItem
<1>2. /\ DOMAIN assets = 1 .. n /\ DOMAIN kept = 1 .. n
      /\ Len(assets') = n + 1 /\ Len(kept') = n + 1
      /\ DOMAIN assets' = 1 .. n + 1 /\ DOMAIN kept' = 1 .. n + 1
      /\ assets' \in Seq(Assets) /\ kept' \in Seq(Assets \cup {Refused})
      /\ \A i \in 1 .. n : assets'[i] = assets[i] /\ kept'[i] = kept[i]
      /\ assets'[n + 1] = asset /\ kept'[n + 1] = item
      /\ \A i \in 1 .. n : Overflows(i)' <=> Overflows(i)
      /\ Overflows(n + 1)' <=> /\ ~asset.failed /\ ItemAllowed(screenshot, asset)
                               /\ ~Accounts(screenshot, Append(kept, asset))
  BY <1>1, <1>n, EarlierStay
<1>3. OverflowIsCut'
  <2>1. overflow' <=> overflow \/ Overflows(n + 1)'
    BY <1>2
  <2>2. (\E j \in 1 .. n + 1 : Overflows(j)') <=> (\E j \in 1 .. n : Overflows(j)) \/ Overflows(n + 1)'
    BY <1>2
  <2> QED BY <1>1, <1>2, <2>1, <2>2 DEF OverflowIsCut
<1>4. \A i \in 1 .. n : BeforeCut(i)' <=> BeforeCut(i)
  BY <1>2 DEF BeforeCut
<1>5. BeforeCut(n + 1)' <=> ~overflow'
  BY <1>2, <1>3 DEF BeforeCut, OverflowIsCut
<1>6. EveryItem'
  <2> SUFFICES ASSUME NEW i \in 1 .. n + 1
               PROVE  kept'[i] = IF \/ assets'[i].failed
                                    \/ BeforeCut(i)' /\ ItemAllowed(screenshot, assets'[i])
                                 THEN assets'[i] ELSE Refused
    BY <1>2 DEF EveryItem
  <2>1. CASE i \in 1 .. n
    BY <1>1, <1>2, <1>4, <2>1 DEF EveryItem
  <2>2. CASE i = n + 1
    BY <1>2, <1>5, <2>2
  <2> QED BY <1>2, <2>1, <2>2
<1>7. images' \in Seq(Nat) /\ ImagesOfItems'
  <2>1. {i \in DOMAIN kept' : ~kept'[i].failed}
           = {i \in DOMAIN kept : ~kept[i].failed} \cup (IF item.failed THEN {} ELSE {n + 1})
    BY <1>2
  <2>2. CASE item.failed
    BY <1>1, <2>1, <2>2 DEF ImagesOfItems
  <2>3. CASE ~item.failed
    <3>1. images' = Append(images, n + 1) /\ n + 1 \in Nat
      BY <1>2, <2>3
    <3>2. /\ Len(images) \in Nat /\ DOMAIN images = 1 .. Len(images)
          /\ images' \in Seq(Nat) /\ DOMAIN images' = 1 .. Len(images) + 1
          /\ \A i \in 1 .. Len(images) : images'[i] = images[i]
          /\ images'[Len(images) + 1] = n + 1
      BY <1>1, <3>1, OneMoreAtTheEnd
    <3>3. Range(images') = Range(images) \cup {n + 1}
      <4> DEFINE e == n + 1
      <4>1. images \in Seq(Nat) /\ e \in Nat
        BY <1>1
      <4> HIDE DEF e
      <4>2. Range(Append(images, e)) = Range(images) \cup {e}
        BY <4>1, RangeGrows
      <4> QED BY <3>1, <4>2 DEF e
    <3>4. \A i \in DOMAIN images : images[i] \in 1 .. n
      BY <1>1, <1>2 DEF ImagesOfItems, Range
    <3>5. ASSUME NEW i \in DOMAIN images', NEW j \in DOMAIN images', i < j
          PROVE  images'[i] < images'[j]
      <4>1. i \in 1 .. Len(images)
        BY <3>2, <3>5
      <4>2. CASE j \in 1 .. Len(images)
        BY <1>1, <3>2, <3>5, <4>1, <4>2 DEF ImagesOfItems
      <4>3. CASE j = Len(images) + 1
        <5>1. images'[i] \in 1 .. n /\ images'[j] = n + 1
          BY <3>2, <3>4, <4>1, <4>3
        <5> QED BY <1>2, <5>1
      <4> QED BY <3>2, <4>2, <4>3
    <3> QED BY <1>1, <2>1, <2>3, <3>2, <3>3, <3>5 DEF ImagesOfItems
  <2> QED BY <2>2, <2>3
<1>8. BatchTyped'
  BY <1>1, <1>2, <1>7 DEF BatchTyped
<1> QED BY <1>3, <1>6, <1>7, <1>8 DEF BatchInv

LEMMA StepKeepsBatch == BatchInv /\ [BatchNext]_batchVars => BatchInv'
<1> SUFFICES ASSUME BatchInv, [BatchNext]_batchVars PROVE BatchInv'
  OBVIOUS
<1>1. ASSUME NEW asset \in Assets, TakeError(asset) PROVE BatchInv'
  <2>1. /\ asset.failed /\ packed = "packing"
        /\ assets' = Append(assets, asset) /\ kept' = Append(kept, asset)
        /\ UNCHANGED <<screenshot, images, overflow, packed>>
    BY <1>1 DEF TakeError, Packing
  <2>2. overflow \in BOOLEAN
    BY DEF BatchInv, BatchTyped
  <2> QED BY <2>1, <2>2, AssetKeepsBatch
<1>2. ASSUME NEW asset \in Assets, TakeImage(asset) PROVE BatchInv'
  <2> DEFINE allowed == ItemAllowed(screenshot, asset)
             accounts == Accounts(screenshot, Append(kept, asset))
             fits == ~overflow /\ allowed /\ accounts
             item == IF fits THEN asset ELSE Refused
  <2>1. /\ ~asset.failed /\ packed = "packing"
        /\ assets' = Append(assets, asset) /\ kept' = Append(kept, item)
        /\ images' = IF fits THEN Append(images, Len(assets')) ELSE images
        /\ overflow' = (overflow \/ (~overflow /\ allowed /\ ~accounts))
        /\ UNCHANGED <<screenshot, packed>>
    BY <1>2 DEF TakeImage, Packing
  <2>2. overflow \in BOOLEAN
    BY DEF BatchInv, BatchTyped
  <2>3. item.failed <=> ~fits
    BY <2>1 DEF Refused
  <2>4. overflow' = (overflow \/ (~asset.failed /\ allowed /\ ~accounts))
    BY <2>1, <2>2
  <2>5. item = IF asset.failed \/ (~overflow' /\ allowed) THEN asset ELSE Refused
    BY <2>1, <2>2, <2>4
  <2>6. images' = IF item.failed THEN images ELSE Append(images, Len(assets'))
    BY <2>1, <2>3
  <2>7. item \in Assets \cup {Refused}
    OBVIOUS
  <2> HIDE DEF fits, item
  <2> QED BY <2>1, <2>4, <2>5, <2>6, <2>7, AssetKeepsBatch
<1>3. CASE \E s \in BOOLEAN : BeginBatch(s)
  <2>1. /\ assets = <<>> /\ kept = <<>> /\ images = <<>> /\ screenshot' \in BOOLEAN
        /\ packed' = "packing" /\ UNCHANGED <<assets, kept, images, overflow>>
    BY <1>3 DEF BeginBatch, BatchInv
  <2>2. DOMAIN assets = {} /\ DOMAIN kept = {}
    BY <2>1
  <2> QED BY <2>1, <2>2
          DEF BatchInv, BatchTyped, OverflowIsCut, EveryItem, ImagesOfItems
<1>4. CASE SendBatch \/ UNCHANGED batchVars
  <2>1. /\ UNCHANGED <<screenshot, assets, kept, images, overflow>>
        /\ packed' = "none" => packed = "none"
        /\ packed' = "sent" => Accounts(screenshot, kept)
    BY <1>4 DEF SendBatch, batchVars, BatchInv
  <2>2. \A i : (Overflows(i)' <=> Overflows(i)) /\ (BeforeCut(i)' <=> BeforeCut(i))
    BY <2>1 DEF Overflows, BeforeCut
  <2> QED BY <2>1, <2>2 DEF BatchInv, BatchTyped, OverflowIsCut, EveryItem, ImagesOfItems
<1> QED BY <1>1, <1>2, <1>3, <1>4 DEF BatchNext

\* A result that is sent is within its limits and faithful to the assets, whatever
\* their number, their sizes and the limits.
THEOREM BatchesAreFaithful == BatchSpec => []BatchIsFaithful
<1>1. BatchInv => BatchIsFaithful
  BY DEF BatchInv, BatchIsFaithful
<1> QED BY <1>1, InitBatch, StepKeepsBatch, PTL DEF BatchSpec

-----------------------------------------------------------------------------
(* Objects whose fields are kept raw (DeferredObject). *)

Fields == [name : Names, value : ValueLengths]
Letters == {"{", "}", ",", "quote", ":", "n", "v"}

\* What the loop of `decode' has written after each field.
Spells(fs, text) ==
    /\ text \in [0 .. Len(fs) -> Seq(Letters)]
    /\ text[0] = <<>>
    /\ \A i \in 0 .. Len(fs) - 1 :
          text[i + 1] = text[i] \o (IF i = 0 THEN <<>> ELSE <<",">>) \o Written(fs[i + 1])

LEMMA RepeatIs ==
    ASSUME NEW T, NEW c \in T, NEW n \in Nat
    PROVE  Repeat(c, n) \in Seq(T) /\ Len(Repeat(c, n)) = n
<1>1. Repeat(c, n) \in [1 .. n -> T]
  BY DEF Repeat
<1>2. Repeat(c, n) \in Seq(T)
  BY <1>1, SeqDef, Zenon
<1>3. /\ DOMAIN Repeat(c, n) = 1 .. n /\ DOMAIN Repeat(c, n) = 1 .. Len(Repeat(c, n))
      /\ Len(Repeat(c, n)) \in Nat
  BY <1>1, <1>2, LenProperties
<1>4. Len(Repeat(c, n)) = n
  BY <1>3
<1> QED BY <1>2, <1>4

LEMMA Joined ==
    ASSUME NEW T, NEW s \in Seq(T), NEW t \in Seq(T)
    PROVE  s \o t \in Seq(T) /\ Len(s \o t) = Len(s) + Len(t) /\ Len(s) \in Nat /\ Len(t) \in Nat
  BY ConcatProperties, LenProperties

LEMMA Punctuation ==
    /\ <<"quote">> \in Seq(Letters) /\ Len(<<"quote">>) = 1
    /\ <<"quote", ":">> \in Seq(Letters) /\ Len(<<"quote", ":">>) = 2
    /\ <<",">> \in Seq(Letters) /\ Len(<<",">>) = 1
    /\ <<"{">> \in Seq(Letters) /\ Len(<<"{">>) = 1
    /\ <<"}">> \in Seq(Letters) /\ Len(<<"}">>) = 1
    /\ <<>> \in Seq(Letters) /\ Len(<<>>) = 0
    /\ "n" \in Letters /\ "v" \in Letters
  BY DEF Letters

LEMMA FieldLengths ==
    ASSUME NEW f \in Fields PROVE NameLength[f.name] \in Nat /\ f.value \in Nat
<1>1. f.name \in Names /\ f.value \in ValueLengths
  BY DEF Fields
<1> QED BY <1>1, FieldsAssumption

LEMMA WrittenIs ==
    ASSUME NEW f \in Fields
    PROVE  Written(f) \in Seq(Letters) /\ Len(Written(f)) = NameLength[f.name] + 3 + f.value
<1> DEFINE n == NameLength[f.name]
           v == f.value
           a == Repeat("n", n)
           b == Repeat("v", v)
           q == <<"quote">>
           c == <<"quote", ":">>
<1>1. n \in Nat /\ v \in Nat
  BY FieldLengths
<1>2. Written(f) = ((q \o a) \o c) \o b
  BY DEF Written
<1> HIDE DEF n, v
<1>3. a \in Seq(Letters) /\ Len(a) = n /\ b \in Seq(Letters) /\ Len(b) = v
  BY <1>1, Punctuation, RepeatIs
<1>4. q \in Seq(Letters) /\ Len(q) = 1 /\ c \in Seq(Letters) /\ Len(c) = 2
  BY Punctuation
<1> HIDE DEF a, b, q, c
<1>5. q \o a \in Seq(Letters) /\ Len(q \o a) = 1 + n
  BY <1>3, <1>4, Joined
<1>6. (q \o a) \o c \in Seq(Letters) /\ Len((q \o a) \o c) = 1 + n + 2
  <2> DEFINE p == q \o a
  <2>1. p \in Seq(Letters) /\ Len(p) = 1 + n
    BY <1>5
  <2> HIDE DEF p
  <2>2. p \o c \in Seq(Letters) /\ Len(p \o c) = Len(p) + Len(c)
    BY <1>4, <2>1, Joined
  <2> QED BY <1>4, <2>1, <2>2 DEF p
<1>7. ((q \o a) \o c) \o b \in Seq(Letters) /\ Len(((q \o a) \o c) \o b) = 1 + n + 2 + v
  BY <1>3, <1>6, Joined
<1>8. 1 + n + 2 + v = n + 3 + v
  BY <1>1
<1> QED BY <1>2, <1>7, <1>8 DEF n, v

\* One more field after a text.
LEMMA TextAndField ==
    ASSUME NEW t \in Seq(Letters), NEW f \in Fields, NEW i \in Nat
    PROVE  /\ t \o (IF i = 0 THEN <<>> ELSE <<",">>) \o Written(f) \in Seq(Letters)
           /\ Len(t \o (IF i = 0 THEN <<>> ELSE <<",">>) \o Written(f))
                = Len(t) + (NameLength[f.name] + 3 + f.value + (IF i = 0 THEN 0 ELSE 1))
<1> DEFINE comma == IF i = 0 THEN <<>> ELSE <<",">>
           w == Written(f)
           sep == IF i = 0 THEN 0 ELSE 1
           n == NameLength[f.name]
<1>1. comma \in Seq(Letters) /\ Len(comma) = sep /\ sep \in Nat
  <2>1. CASE i = 0
    <3>1. comma = <<>> /\ sep = 0
      BY <2>1
    <3> HIDE DEF comma, sep
    <3> QED BY <3>1, Punctuation
  <2>2. CASE i # 0
    BY <2>2, Punctuation
  <2> QED BY <2>1, <2>2
<1>2. w \in Seq(Letters) /\ Len(w) = n + 3 + f.value
  BY WrittenIs
<1>3. n \in Nat /\ f.value \in Nat
  BY FieldLengths
<1> HIDE DEF comma, w, sep, n
<1>4. t \o comma \in Seq(Letters) /\ Len(t \o comma) = Len(t) + sep /\ Len(t) \in Nat
  BY <1>1, Joined
<1>5. /\ (t \o comma) \o w \in Seq(Letters)
      /\ Len((t \o comma) \o w) = Len(t) + sep + (n + 3 + f.value)
  <2> DEFINE p == t \o comma
  <2>1. p \in Seq(Letters) /\ Len(p) = Len(t) + sep
    BY <1>4
  <2> HIDE DEF p
  <2>2. p \o w \in Seq(Letters) /\ Len(p \o w) = Len(p) + Len(w)
    BY <1>2, <2>1, Joined
  <2> QED BY <1>2, <2>1, <2>2 DEF p
<1>6. Len((t \o comma) \o w) = Len(t) + (n + 3 + f.value + sep)
  BY <1>1, <1>3, <1>4, <1>5
<1> QED BY <1>5, <1>6 DEF comma, w, n, sep

\* The recursive function of Text is what it says.
LEMMA TextIsWritten ==
    ASSUME NEW fs \in Seq(Fields)
    PROVE  \E text : Spells(fs, text) /\ Text(fs) = text[Len(fs)]
<1> DEFINE step == [p \in Nat \X Seq(Letters) |->
                      IF p[1] + 1 \in 1 .. Len(fs)
                      THEN p[2] \o (IF p[1] = 0 THEN <<>> ELSE <<",">>) \o Written(fs[p[1] + 1])
                      ELSE p[2]]
           Body(text) == [n \in 0 .. Len(fs) |->
                            IF n = 0 THEN <<>>
                            ELSE text[n - 1] \o (IF n = 1 THEN <<>> ELSE <<",">>) \o Written(fs[n])]
<1>1. ASSUME NEW n \in Nat, NEW t \in Seq(Letters) PROVE step[<<n, t>>] \in Seq(Letters)
  <2>1. CASE n + 1 \in 1 .. Len(fs)
    <3>1. fs[n + 1] \in Fields
      BY <2>1
    <3>2. t \o (IF n = 0 THEN <<>> ELSE <<",">>) \o Written(fs[n + 1]) \in Seq(Letters)
      BY <3>1, TextAndField
    <3> QED BY <2>1, <3>2
  <2>2. CASE n + 1 \notin 1 .. Len(fs)
    BY <2>2
  <2> QED BY <2>1, <2>2
<1>2. step \in [Nat \X Seq(Letters) -> Seq(Letters)]
  BY <1>1
<1>3. ASSUME NEW n \in 0 .. Len(fs) - 1, NEW t \in Seq(Letters)
      PROVE  step[<<n, t>>] = t \o (IF n = 0 THEN <<>> ELSE <<",">>) \o Written(fs[n + 1])
  <2>1. n \in Nat /\ n + 1 \in 1 .. Len(fs)
    OBVIOUS
  <2> QED BY <2>1
<1> HIDE DEF step
<1>4. PICK f : Computes(f, Seq(Letters), <<>>, step)
  <2>1. <<>> \in Seq(Letters)
    OBVIOUS
  <2> QED BY <1>2, <2>1, Recursion
<1>5. /\ \A n \in Nat : f[n] \in Seq(Letters)
      /\ f[0] = <<>>
      /\ \A n \in Nat : f[n + 1] = step[<<n, f[n]>>]
  BY <1>4 DEF Computes
<1> DEFINE g == [n \in 0 .. Len(fs) |-> f[n]]
<1>6. Len(fs) \in Nat
  OBVIOUS
<1>7. Spells(fs, g)
  <2>1. g \in [0 .. Len(fs) -> Seq(Letters)] /\ g[0] = <<>>
    BY <1>5, <1>6
  <2>2. ASSUME NEW i \in 0 .. Len(fs) - 1
        PROVE  g[i + 1] = g[i] \o (IF i = 0 THEN <<>> ELSE <<",">>) \o Written(fs[i + 1])
    <3>1. i \in Nat /\ i \in 0 .. Len(fs) /\ i + 1 \in 0 .. Len(fs)
      BY <1>6
    <3>2. g[i] = f[i] /\ g[i + 1] = f[i + 1] /\ f[i] \in Seq(Letters)
      BY <1>5, <3>1
    <3>3. f[i + 1] = f[i] \o (IF i = 0 THEN <<>> ELSE <<",">>) \o Written(fs[i + 1])
      BY <1>3, <1>5, <3>1
    <3> QED BY <3>2, <3>3
  <2> HIDE DEF g
  <2> QED BY <2>1, <2>2 DEF Spells
<1> HIDE DEF g
<1>8. ASSUME NEW text, text = Body(text) PROVE Spells(fs, text)
  <2> DEFINE At(n) == IF n = 0 THEN <<>>
                      ELSE text[n - 1] \o (IF n = 1 THEN <<>> ELSE <<",">>) \o Written(fs[n])
  <2>1. DOMAIN text = 0 .. Len(fs) /\ \A n \in 0 .. Len(fs) : text[n] = At(n)
    BY <1>8
  <2>2. text = [n \in 0 .. Len(fs) |-> text[n]]
    BY <1>8
  <2>3. ASSUME NEW i \in 0 .. Len(fs) - 1
        PROVE  text[i + 1] = text[i] \o (IF i = 0 THEN <<>> ELSE <<",">>) \o Written(fs[i + 1])
    <3>1. i + 1 \in 0 .. Len(fs) /\ (i + 1) - 1 = i /\ i + 1 # 0 /\ (i + 1 = 1 <=> i = 0)
      BY <1>6
    <3>2. text[i + 1] = At(i + 1)
      BY <2>1, <3>1
    <3> QED BY <3>1, <3>2
  <2> DEFINE S == {n \in Nat : n <= Len(fs) => text[n] \in Seq(Letters)}
  <2>4. text[0] = <<>>
    <3>1. 0 \in 0 .. Len(fs) /\ At(0) = <<>>
      BY <1>6
    <3> HIDE DEF At
    <3> QED BY <2>1, <3>1
  <2>5. Nat \subseteq S
    <3>1. 0 \in S
      BY <2>4, Punctuation
    <3>2. ASSUME NEW n \in Nat, n \in S PROVE n + 1 \in S
      <4> SUFFICES ASSUME n + 1 <= Len(fs) PROVE text[n + 1] \in Seq(Letters)
        OBVIOUS
      <4>1. n \in 0 .. Len(fs) - 1 /\ n <= Len(fs) /\ n + 1 \in 1 .. Len(fs)
        BY <1>6
      <4>2. text[n] \in Seq(Letters) /\ fs[n + 1] \in Fields
        BY <3>2, <4>1
      <4>3. text[n + 1] = text[n] \o (IF n = 0 THEN <<>> ELSE <<",">>) \o Written(fs[n + 1])
        BY <2>3, <4>1
      <4> HIDE DEF S, At
      <4> QED BY <4>2, <4>3, TextAndField
    <3> HIDE DEF S
    <3> QED BY <3>1, <3>2, SetInduction
  <2>6. \A n \in 0 .. Len(fs) : text[n] \in Seq(Letters)
    BY <1>6, <2>5
  <2>7. text \in [0 .. Len(fs) -> Seq(Letters)]
    BY <2>2, <2>6
  <2> HIDE DEF At, S
  <2> QED BY <2>3, <2>4, <2>7 DEF Spells
<1>9. g = Body(g)
  <2>1. ASSUME NEW n \in 0 .. Len(fs)
        PROVE  g[n] = IF n = 0 THEN <<>>
                      ELSE g[n - 1] \o (IF n = 1 THEN <<>> ELSE <<",">>) \o Written(fs[n])
    <3>1. CASE n = 0
      BY <1>7, <3>1 DEF Spells
    <3>2. CASE n # 0
      <4>1. n - 1 \in 0 .. Len(fs) - 1 /\ (n - 1) + 1 = n /\ (n - 1 = 0 <=> n = 1)
        BY <1>6, <3>2
      <4>2. g[(n - 1) + 1]
              = g[n - 1] \o (IF n - 1 = 0 THEN <<>> ELSE <<",">>) \o Written(fs[(n - 1) + 1])
        BY <1>7, <4>1 DEF Spells
      <4> QED BY <3>2, <4>1, <4>2
    <3> QED BY <3>1, <3>2
  <2>2. g = [n \in 0 .. Len(fs) |-> g[n]]
    BY <1>7 DEF Spells
  <2> QED BY <2>1, <2>2
<1> DEFINE text == CHOOSE t : t = Body(t)
<1>10. text = Body(text)
  <2> HIDE DEF Body
  <2> QED BY <1>9
<1>11. Text(fs) = text[Len(fs)]
  BY DEF Text
<1> HIDE DEF text, Body
<1> QED BY <1>8, <1>10, <1>11

\* Two writers of the same fields have written the same so far.
LEMMA SameText ==
    ASSUME NEW fs \in Seq(Fields), NEW gs \in Seq(Fields), Len(fs) <= Len(gs),
           \A i \in 1 .. Len(fs) : gs[i] = fs[i],
           NEW text, Spells(fs, text), NEW more, Spells(gs, more)
    PROVE  more[Len(fs)] = text[Len(fs)]
<1> DEFINE S == {k \in Nat : k <= Len(fs) => more[k] = text[k]}
<1>1. Len(fs) \in Nat /\ Len(gs) \in Nat
  OBVIOUS
<1>2. 0 \in S
  BY DEF Spells
<1>3. ASSUME NEW k \in Nat, k \in S PROVE k + 1 \in S
  <2> SUFFICES ASSUME k + 1 <= Len(fs) PROVE more[k + 1] = text[k + 1]
    OBVIOUS
  <2>1. /\ k \in 0 .. Len(fs) - 1 /\ k \in 0 .. Len(gs) - 1 /\ k <= Len(fs)
        /\ k + 1 \in 1 .. Len(fs)
    BY <1>1
  <2>2. more[k] = text[k] /\ gs[k + 1] = fs[k + 1]
    BY <1>3, <2>1
  <2> HIDE DEF S
  <2> QED BY <2>1, <2>2 DEF Spells
<1>4. Nat \subseteq S
  <2> HIDE DEF S
  <2> QED BY <1>2, <1>3, SetInduction
<1> QED BY <1>1, <1>4

LEMMA EncodingIs ==
    ASSUME NEW fs \in Seq(Fields)
    PROVE  /\ Text(fs) \in Seq(Letters) /\ Len(Text(fs)) \in Nat
           /\ Len(Encoding(fs)) = Len(Text(fs)) + 2
<1> DEFINE open == <<"{">>
           close == <<"}">>
           t == Text(fs)
<1>1. t \in Seq(Letters)
  <2>1. PICK text : Spells(fs, text) /\ t = text[Len(fs)]
    BY TextIsWritten
  <2>2. Len(fs) \in 0 .. Len(fs)
    OBVIOUS
  <2> HIDE DEF t
  <2> QED BY <2>1, <2>2 DEF Spells
<1>2. open \in Seq(Letters) /\ Len(open) = 1 /\ close \in Seq(Letters) /\ Len(close) = 1
  BY Punctuation
<1>3. Encoding(fs) = (open \o t) \o close
  BY DEF Encoding
<1> HIDE DEF open, close, t
<1>4. open \o t \in Seq(Letters) /\ Len(open \o t) = 1 + Len(t) /\ Len(t) \in Nat
  BY <1>1, <1>2, Joined
<1>5. Len((open \o t) \o close) = (1 + Len(t)) + 1
  BY <1>2, <1>4, Joined
<1>6. Len(Encoding(fs)) = Len(t) + 2
  BY <1>3, <1>4, <1>5
<1> QED BY <1>1, <1>4, <1>6 DEF t

\* What the estimate adds for a field is what the field adds to the encoding.
LEMMA EncodingGrows ==
    ASSUME NEW fs \in Seq(Fields), NEW f \in Fields
    PROVE  Len(Encoding(Append(fs, f)))
             = Len(Encoding(fs)) + field_cost(NameLength[f.name], f.value, fs = <<>>)
<1> DEFINE gs == Append(fs, f)
           n == Len(fs)
<1>1. PICK text : Spells(fs, text) /\ Text(fs) = text[n]
  BY TextIsWritten
<1>2. /\ n \in Nat /\ gs \in Seq(Fields) /\ Len(gs) = n + 1 /\ gs[n + 1] = f
      /\ \A i \in 1 .. n : gs[i] = fs[i]
  BY OneMoreAtTheEnd
<1>3. fs = <<>> <=> n = 0
  BY EmptySeq
<1> HIDE DEF gs
<1>4. PICK more : Spells(gs, more) /\ Text(gs) = more[n + 1]
  BY <1>2, TextIsWritten
<1>5. more[n] = text[n]
  <2>1. n <= Len(gs)
    BY <1>2
  <2> QED BY <1>1, <1>2, <1>4, <2>1, SameText
<1>6. Text(gs) = Text(fs) \o (IF n = 0 THEN <<>> ELSE <<",">>) \o Written(f)
  <2>1. n \in 0 .. Len(gs) - 1
    BY <1>2
  <2> HIDE DEF n
  <2>2. more[n + 1] = more[n] \o (IF n = 0 THEN <<>> ELSE <<",">>) \o Written(gs[n + 1])
    BY <1>4, <2>1 DEF Spells
  <2> QED BY <1>1, <1>2, <1>4, <1>5, <2>2
<1> DEFINE t == Text(fs)
           cost == NameLength[f.name] + 3 + f.value + (IF n = 0 THEN 0 ELSE 1)
<1>7. t \in Seq(Letters) /\ Len(t) \in Nat /\ Len(Encoding(fs)) = Len(t) + 2
  BY EncodingIs
<1>8. Len(Encoding(gs)) = Len(Text(gs)) + 2
  BY <1>2, EncodingIs
<1>9. cost \in Nat
  <2>1. NameLength[f.name] \in Nat /\ f.value \in Nat
    BY FieldLengths
  <2> QED BY <2>1
<1>10. Len(Text(gs)) = Len(t) + cost
  <2>1. Text(gs) = t \o (IF n = 0 THEN <<>> ELSE <<",">>) \o Written(f)
    BY <1>6
  <2> HIDE DEF t, n
  <2>2. Len(t \o (IF n = 0 THEN <<>> ELSE <<",">>) \o Written(f)) = Len(t) + cost
    <3>1. n \in Nat /\ t \in Seq(Letters)
      BY <1>2, <1>7
    <3> QED BY <3>1, TextAndField, Zenon
  <2> QED BY <2>1, <2>2
<1>11. cost = field_cost(NameLength[f.name], f.value, fs = <<>>)
  BY <1>3 DEF field_cost, separator
<1> HIDE DEF cost, t
<1>12. Len(Encoding(gs)) = Len(Encoding(fs)) + cost
  BY <1>7, <1>8, <1>9, <1>10
<1> QED BY <1>11, <1>12 DEF gs

LEMMA EmptyEncoding == Len(Encoding(<<>>)) = 2
<1>1. <<>> \in Seq(Fields) /\ Len(<<>>) = 0
  OBVIOUS
<1>2. Text(<<>>) = <<>>
  <2>1. PICK text : Spells(<<>>, text) /\ Text(<<>>) = text[Len(<<>>)]
    BY <1>1, TextIsWritten
  <2> QED BY <1>1, <2>1 DEF Spells
<1> DEFINE none == <<>>
<1>3. Len(Encoding(none)) = Len(Text(none)) + 2
  BY <1>1, EncodingIs
<1>4. Text(none) = none /\ Len(none) = 0
  BY <1>1, <1>2
<1> HIDE DEF none
<1>5. Len(Encoding(none)) = 2
  BY <1>3, <1>4
<1> QED BY <1>5 DEF none

\* The inductive invariant: the estimate counts what is kept, and what is kept is
\* what was offered but for the field that ended it.
DeferredInv ==
    /\ fields \in Seq(Fields)
    /\ encoded_bytes = Len(Encoding(fields))
    /\ encoded_bytes <= MAX_ENVELOPE_BYTES
    /\ progress \in {"reading", "duplicate", "too_large", "decoded"}
    /\ progress \in {"reading", "decoded"} => offered = fields
    /\ progress = "too_large" => Len(Encoding(offered)) > MAX_ENVELOPE_BYTES

LEMMA InsertKeepsEstimate ==
    ASSUME DeferredInv, NEW n \in Names, NEW v \in ValueLengths, Insert(n, v)
    PROVE  DeferredInv'
<1> DEFINE f == Field(n, v)
           cost == field_cost(NameLength[n], v, fields = <<>>)
           next == encoded_bytes + cost
<1>1. f \in Fields /\ f.name = n /\ f.value = v
  BY DEF Field, Fields
<1>2. fields \in Seq(Fields) /\ progress = "reading" /\ offered = fields
      /\ encoded_bytes = Len(Encoding(fields)) /\ encoded_bytes <= MAX_ENVELOPE_BYTES
  BY DEF DeferredInv, Insert
<1>3. Len(Encoding(Append(fields, f))) = next
  BY <1>1, <1>2, EncodingGrows
<1>4. Append(fields, f) \in Seq(Fields) /\ offered' = Append(fields, f)
  BY <1>1, <1>2, OneMoreAtTheEnd DEF Insert
<1>5. next \in Nat
  <2>1. Len(Encoding(fields)) \in Nat
    BY <1>2, EncodingIs
  <2>2. NameLength[n] \in Nat /\ v \in Nat
    BY <1>1, FieldLengths
  <2> QED BY <1>2, <2>1, <2>2 DEF field_cost, separator
<1>6. CASE UNCHANGED <<fields, encoded_bytes>> /\ progress' = "duplicate"
  BY <1>2, <1>6 DEF DeferredInv
<1>7. CASE UNCHANGED <<fields, encoded_bytes>> /\ progress' = "too_large" /\ next > MAX_ENVELOPE_BYTES
  BY <1>2, <1>3, <1>4, <1>7 DEF DeferredInv
<1>8. CASE /\ encoded_bytes' = next /\ fields' = Append(fields, f) /\ progress' = progress
           /\ ~(next > MAX_ENVELOPE_BYTES)
  <2>1. next <= MAX_ENVELOPE_BYTES
    BY <1>5, <1>8, LimitsAssumption
  <2> HIDE DEF next, f
  <2> QED BY <1>2, <1>3, <1>4, <1>8, <2>1 DEF DeferredInv
<1>9. \/ UNCHANGED <<fields, encoded_bytes>> /\ progress' = "duplicate"
      \/ UNCHANGED <<fields, encoded_bytes>> /\ progress' = "too_large" /\ next > MAX_ENVELOPE_BYTES
      \/ /\ encoded_bytes' = next /\ fields' = Append(fields, f) /\ progress' = progress
         /\ ~(next > MAX_ENVELOPE_BYTES)
  BY Zenon DEF Insert
<1> HIDE DEF next, f
<1> QED BY <1>6, <1>7, <1>8, <1>9

\* The estimate is the size of what is written: a field too many is refused before
\* it is held, and an object that was held is never refused for its size, however
\* long its fields and their names are (deferred.rs, `insert' and `decode').
THEOREM EstimatesAreExact == DeferredSpec => []EstimateIsExact
<1>1. DeferredInit => DeferredInv
  <2> SUFFICES ASSUME DeferredInit PROVE DeferredInv
    OBVIOUS
  <2>1. fields = <<>> /\ offered = <<>> /\ encoded_bytes = 2 /\ progress = "reading"
    BY DEF DeferredInit
  <2>2. <<>> \in Seq(Fields)
    OBVIOUS
  <2> QED BY <2>1, <2>2, EmptyEncoding, FieldsAssumption DEF DeferredInv
<1>2. DeferredInv /\ [DeferredNext]_deferredVars => DeferredInv'
  <2> SUFFICES ASSUME DeferredInv, [DeferredNext]_deferredVars PROVE DeferredInv'
    OBVIOUS
  <2>1. CASE Decode
    <3>1. progress' \in {"decoded", "refused_late"} /\ UNCHANGED <<fields, encoded_bytes, offered>>
          /\ progress = "reading"
      BY <2>1 DEF Decode
    <3>2. ~(Len(Encoding(fields)) > MAX_ENVELOPE_BYTES)
      <4>1. encoded_bytes \in Nat
        BY EncodingIs DEF DeferredInv
      <4> QED BY <4>1, LimitsAssumption DEF DeferredInv
    <3>3. progress' = "decoded"
      BY <2>1, <3>2 DEF Decode
    <3> QED BY <3>1, <3>3 DEF DeferredInv
  <2>2. CASE UNCHANGED deferredVars
    BY <2>2 DEF deferredVars, DeferredInv
  <2> QED BY <2>1, <2>2, InsertKeepsEstimate DEF DeferredNext
<1>3. DeferredInv => EstimateIsExact
  <2> SUFFICES ASSUME DeferredInv PROVE EstimateIsExact
    OBVIOUS
  <2> QED BY DEF DeferredInv, EstimateIsExact
<1> QED BY <1>1, <1>2, <1>3, PTL DEF DeferredSpec
-----------------------------------------------------------------------------
(* The supervisor's pace (Recycling). *)

\* A shift by one more is a doubling; the recursive function is what it says.
LEMMA PowersDouble ==
    /\ PowerOfTwo \in [Nat -> Nat \ {0}]
    /\ PowerOfTwo[0] = 1
    /\ \A n \in Nat : PowerOfTwo[n + 1] = 2 * PowerOfTwo[n]
<1> DEFINE step == [p \in Nat \X Nat |-> 2 * p[2]]
<1>1. step \in [Nat \X Nat -> Nat]
  OBVIOUS
<1> HIDE DEF step
<1>2. PICK f : Computes(f, Nat, 1, step)
  <2>1. 1 \in Nat
    OBVIOUS
  <2> QED BY <1>1, <2>1, Recursion
<1> USE DEF Computes
<1>3. \A n \in Nat : f[n] \in Nat /\ step[<<n, f[n]>>] = 2 * f[n]
  BY <1>2 DEF step
<1>4. ASSUME NEW n \in Nat PROVE f[n] = IF n = 0 THEN 1 ELSE 2 * f[n - 1]
  <2>1. CASE n = 0
    BY <1>2, <2>1
  <2>2. CASE n # 0
    <3>1. n - 1 \in Nat /\ (n - 1) + 1 = n
      BY <2>2
    <3> QED BY <1>2, <1>3, <2>2, <3>1
  <2> QED BY <2>1, <2>2
<1>5. f = [n \in Nat |-> IF n = 0 THEN 1 ELSE 2 * f[n - 1]]
  BY <1>2, <1>4
<1>6. PowerOfTwo = [n \in Nat |-> IF n = 0 THEN 1 ELSE 2 * PowerOfTwo[n - 1]]
  BY <1>5 DEF PowerOfTwo
<1>7. PowerOfTwo[0] = 1
  BY <1>6
<1>8. \A n \in Nat : PowerOfTwo[n + 1] = 2 * PowerOfTwo[n]
  <2> SUFFICES ASSUME NEW n \in Nat PROVE PowerOfTwo[n + 1] = 2 * PowerOfTwo[n]
    OBVIOUS
  <2>1. n + 1 \in Nat /\ n + 1 # 0 /\ (n + 1) - 1 = n
    OBVIOUS
  <2> QED BY <1>6, <2>1
<1> DEFINE S == {n \in Nat : PowerOfTwo[n] \in Nat \ {0}}
<1>9. Nat \subseteq S
  <2>1. 0 \in S
    BY <1>7
  <2>2. ASSUME NEW n \in Nat, n \in S PROVE n + 1 \in S
    BY <1>8, <2>2
  <2> QED BY <2>1, <2>2, SetInduction
<1>10. PowerOfTwo \in [Nat -> Nat \ {0}]
  BY <1>6, <1>9
<1> QED BY <1>7, <1>8, <1>10

\* ... so a larger shift gives no less.
LEMMA PowersGrow ==
    ASSUME NEW m \in Nat, NEW n \in Nat, m <= n PROVE PowerOfTwo[m] <= PowerOfTwo[n]
<1> DEFINE S == {k \in Nat : PowerOfTwo[m] <= PowerOfTwo[m + k]}
<1>1. 0 \in S
  BY PowersDouble
<1>2. ASSUME NEW k \in Nat, k \in S PROVE k + 1 \in S
  <2>1. m + k \in Nat /\ m + (k + 1) = (m + k) + 1
    OBVIOUS
  <2>2. PowerOfTwo[m + (k + 1)] = 2 * PowerOfTwo[m + k] /\ PowerOfTwo[m + k] \in Nat
    BY <2>1, PowersDouble
  <2>3. PowerOfTwo[m] <= PowerOfTwo[m + k] /\ PowerOfTwo[m] \in Nat
    BY <1>2, PowersDouble
  <2> QED BY <2>2, <2>3
<1>3. n - m \in S /\ m + (n - m) = n
  <2>1. n - m \in Nat /\ m + (n - m) = n
    OBVIOUS
  <2>2. Nat \subseteq S
    BY <1>1, <1>2, SetInduction
  <2> QED BY <2>1, <2>2
<1> QED BY <1>3

LEMMA LesserIs == ASSUME NEW a \in Nat, NEW b \in Nat PROVE Lesser(a, b) = IF a <= b THEN a ELSE b
<1>1. Lesser(a, b) = CHOOSE x \in {a, b} : \A y \in {a, b} : x <= y
  BY DEF Lesser, Min
<1>2. ASSUME NEW x \in {a, b}, \A y \in {a, b} : x <= y PROVE x = IF a <= b THEN a ELSE b
  BY <1>2
<1>3. \E x \in {a, b} : \A y \in {a, b} : x <= y
  OBVIOUS
<1> QED BY <1>1, <1>2, <1>3

\* The loop of an election doubles its delay along the curve ...
LEMMA CurveDoubles ==
    ASSUME NEW n \in Nat
    PROVE  /\ Curve(n) \in Nat
           /\ Curve(1) = RETRY_DELAY_BASE
           /\ n # 0 => Lesser(Curve(n) * 2, RETRY_DELAY_CAP) = Curve(n + 1)
<1> DEFINE base == RETRY_DELAY_BASE
           cap == RETRY_DELAY_CAP
           p == PowerOfTwo[n - 1]
<1>1. base \in Nat /\ cap \in Nat /\ base <= cap
  BY PaceAssumption
<1>2. ASSUME NEW k \in Nat \ {0} PROVE base * PowerOfTwo[k - 1] \in Nat
  <2>1. k - 1 \in Nat
    OBVIOUS
  <2> QED BY <1>1, <2>1, PowersDouble
<1>3. ASSUME NEW k \in Nat \ {0}
      PROVE  Curve(k) = IF base * PowerOfTwo[k - 1] <= cap THEN base * PowerOfTwo[k - 1] ELSE cap
  BY <1>1, <1>2, LesserIs DEF Curve
<1>4. Curve(n) \in Nat
  BY <1>1, <1>2, <1>3 DEF Curve
<1>5. Curve(1) = base
  BY <1>1, <1>3, PowersDouble
<1>6. ASSUME n # 0 PROVE Lesser(Curve(n) * 2, cap) = Curve(n + 1)
  <2>1. p \in Nat /\ PowerOfTwo[(n + 1) - 1] = 2 * p
    <3>1. n - 1 \in Nat /\ (n - 1) + 1 = (n + 1) - 1
      BY <1>6
    <3> QED BY <3>1, PowersDouble
  <2>2. base * p \in Nat /\ base * (2 * p) = 2 * (base * p)
    BY <1>1, <2>1
  <2>3. Curve(n) = IF base * p <= cap THEN base * p ELSE cap
    BY <1>3, <1>6
  <2>4. Curve(n + 1) = IF 2 * (base * p) <= cap THEN 2 * (base * p) ELSE cap
    BY <1>3, <2>1, <2>2
  <2>5. Lesser(Curve(n) * 2, cap) = IF Curve(n) * 2 <= cap THEN Curve(n) * 2 ELSE cap
    <3>1. Curve(n) * 2 \in Nat
      BY <1>4
    <3> QED BY <1>1, <3>1, LesserIs
  <2> HIDE DEF base, cap, p
  <2> QED BY <1>1, <2>2, <2>3, <2>4, <2>5
<1> QED BY <1>4, <1>5, <1>6

\* ... and the supervisor computes its own from the same curve: the clamp of its
\* shift changes nothing.
LEMMA RecycleDelayIsCurve == ASSUME NEW n \in Nat PROVE recycle_delay(n) = Curve(n)
<1>1. CASE n = 0
  BY <1>1 DEF recycle_delay, Curve
<1>2. CASE n # 0
  <2> DEFINE base == RETRY_DELAY_BASE
             cap == RETRY_DELAY_CAP
  <2>1. /\ n - 1 \in Nat
        /\ recycle_delay(n) = Lesser(base * PowerOfTwo[Lesser(n - 1, 16)], cap)
        /\ Curve(n) = Lesser(base * PowerOfTwo[n - 1], cap)
    BY <1>2 DEF recycle_delay, Curve, MIN_ELECTION_INTERVAL
  <2>2. CASE n - 1 <= 16
    BY <2>1, <2>2, LesserIs
  <2>3. CASE n - 1 > 16
    <3>1. Lesser(n - 1, 16) = 16
      BY <2>1, <2>3, LesserIs
    <3>2. /\ PowerOfTwo[16] \in Nat /\ PowerOfTwo[n - 1] \in Nat
          /\ PowerOfTwo[16] <= PowerOfTwo[n - 1]
      BY <2>1, <2>3, PowersDouble, PowersGrow
    <3>3. base \in Nat /\ cap \in Nat /\ cap <= base * PowerOfTwo[16]
      BY PaceAssumption
    <3>4. /\ base * PowerOfTwo[16] \in Nat /\ base * PowerOfTwo[n - 1] \in Nat
          /\ base * PowerOfTwo[16] <= base * PowerOfTwo[n - 1]
      BY <3>2, <3>3, ProductsGrow
    <3>5. Lesser(base * PowerOfTwo[16], cap) = cap
      BY <3>3, <3>4, LesserIs
    <3>6. Lesser(base * PowerOfTwo[n - 1], cap) = cap
      BY <3>3, <3>4, LesserIs
    <3> QED BY <2>1, <3>1, <3>5, <3>6
  <2> QED BY <2>1, <2>2, <2>3
<1> QED BY <1>1, <1>2

\* A retry within `elect' stays between its bounds, whatever the process.
LEMMA RetryIsBounded ==
    ASSUME NEW n \in Nat, NEW pid \in Nat
    PROVE  retry_delay(n, pid) \in MIN_RETRY_DELAY_MS .. MAX_RETRY_DELAY_MS
<1> DEFINE low == MIN_RETRY_DELAY_MS
           high == MAX_RETRY_DELAY_MS
           k == Lesser(n, 4)
           base == Lesser(low * PowerOfTwo[k], high)
           jitter == (pid + n) % (base \div 2 + 1)
<1>1. low \in Nat /\ high \in Nat /\ low <= high
  BY PaceAssumption
<1>2. PowerOfTwo[k] \in Nat \ {0}
  BY LesserIs, PowersDouble
<1>3. low * PowerOfTwo[k] \in Nat /\ low <= low * PowerOfTwo[k]
  BY <1>1, <1>2, ProductsGrow
<1>4. base \in low .. high
  BY <1>1, <1>3, LesserIs
<1> HIDE DEF base
<1>5. base \div 2 + 1 \in Nat \ {0}
  BY <1>1, <1>4
<1>6. jitter \in Nat
  BY <1>5
<1> HIDE DEF jitter
<1>7. Lesser(base + jitter, high) \in low .. high
  <2>1. base \in Nat /\ base + jitter \in Nat /\ low <= base + jitter
    BY <1>1, <1>4, <1>6
  <2>2. Lesser(base + jitter, high) = IF base + jitter <= high THEN base + jitter ELSE high
    BY <1>1, <2>1, LesserIs
  <2> QED BY <1>1, <2>1, <2>2
<1> QED BY <1>7 DEF retry_delay, base, jitter


Stages == {"electing", "serving", "ending", "dead"}

PaceTyped ==
    /\ stage \in Stages
    /\ since \in Nat /\ lifetime \in Nat /\ consecutive \in Nat
    /\ delay \in Nat /\ young \in Nat /\ silence \in Nat
    /\ attempt \in Nat \ {0}

\* What the next election will count is settled when the role dies.
Earned ==
    /\ stage = "electing" => since >= Curve(young) /\ delay = Curve(attempt)
    /\ stage \in {"electing", "serving"} => consecutive = young
    /\ stage \in {"ending", "dead"} =>
          young = IF lifetime >= HEALTHY_ROLE_LIFETIME THEN 0 ELSE consecutive + 1

\* The rounds since the last heartbeat: of the deaths in a row, each worth an
\* election, and of the attempts of this one.
Rounds(deaths) ==
    IF deaths = 0 THEN 0
    ELSE QUIET_HEARTBEAT_ATTEMPTS * ((deaths - 1) % QUIET_HEARTBEAT_RECYCLES)

Told ==
    /\ stage = "electing" =>
          silence <= Rounds(consecutive) + ((attempt - 1) % QUIET_HEARTBEAT_ATTEMPTS)
    /\ stage = "serving" =>
          silence + 1 <= Rounds(consecutive) + QUIET_HEARTBEAT_ATTEMPTS
    /\ stage \in {"ending", "dead"} =>
          IF lifetime >= HEALTHY_ROLE_LIFETIME THEN silence = 0
          ELSE silence <= QUIET_HEARTBEAT_ATTEMPTS * (consecutive % QUIET_HEARTBEAT_RECYCLES)

PaceInv == PaceTyped /\ Earned /\ Told

LEMMA RoundsGrow ==
    ASSUME NEW n \in Nat
    PROVE  /\ Rounds(n) \in Nat
           /\ Rounds(n + 1) = QUIET_HEARTBEAT_ATTEMPTS * (n % QUIET_HEARTBEAT_RECYCLES)
           /\ Rounds(n) + QUIET_HEARTBEAT_ATTEMPTS
                 <= QUIET_HEARTBEAT_RECYCLES * QUIET_HEARTBEAT_ATTEMPTS
           /\ n % QUIET_HEARTBEAT_RECYCLES # 0 =>
                 Rounds(n) + QUIET_HEARTBEAT_ATTEMPTS = Rounds(n + 1)
<1> DEFINE ha == QUIET_HEARTBEAT_ATTEMPTS
           hr == QUIET_HEARTBEAT_RECYCLES
<1>1. ha \in Nat /\ hr \in Nat \ {0}
  BY PaceAssumption
<1>2. Rounds(n + 1) = ha * (n % hr)
  <2>1. n + 1 # 0 /\ (n + 1) - 1 = n
    OBVIOUS
  <2> QED BY <2>1 DEF Rounds
<1>3. CASE n = 0
  <2>1. 0 % hr = 0
    <3> DEFINE q == 0 \div hr
               r == 0 % hr
    <3>1. q \in Nat /\ r \in 0 .. hr - 1 /\ 0 = hr * q + r
      BY <1>1
    <3> HIDE DEF q, r
    <3>2. hr * q \in Nat
      BY <1>1, <3>1
    <3>3. r = 0
      BY <1>1, <3>1, <3>2
    <3> QED BY <3>3 DEF r
  <2>2. ha <= ha * hr /\ ha * hr = hr * ha
    BY <1>1, ProductsGrow
  <2>3. Rounds(n) = 0
    BY <1>3 DEF Rounds
  <2> QED BY <1>1, <1>2, <1>3, <2>1, <2>2, <2>3
<1>4. CASE n # 0
  <2> DEFINE r == (n - 1) % hr
  <2>1. n - 1 \in Nat /\ (n - 1) + 1 = n
    BY <1>4
  <2>2. r \in 0 .. hr - 1 /\ n % hr = IF r + 1 = hr THEN 0 ELSE r + 1
    BY <1>1, <2>1, NextRemainder
  <2>3. Rounds(n) = ha * r
    BY <1>4 DEF Rounds
  <2> HIDE DEF r
  <2>4. r \in Nat /\ r + 1 \in Nat /\ r + 1 <= hr
    BY <1>1, <2>2
  <2>5. ha * r \in Nat /\ ha * (r + 1) = ha * r + ha
    BY <1>1, <2>4
  <2>6. ha * (r + 1) <= ha * hr /\ ha * hr = hr * ha
    BY <1>1, <2>4, ProductsGrow
  <2>7. Rounds(n) \in Nat /\ Rounds(n) + ha <= hr * ha
    BY <2>3, <2>5, <2>6
  <2>8. n % hr # 0 => Rounds(n) + ha = Rounds(n + 1)
    BY <1>2, <2>2, <2>3, <2>5
  <2> QED BY <1>2, <2>7, <2>8
<1> QED BY <1>3, <1>4

LEMMA PaceStarts == RecycleInit => PaceInv
<1> SUFFICES ASSUME RecycleInit PROVE PaceInv
  OBVIOUS
<1>1. PaceTyped
  BY PaceAssumption DEF RecycleInit, PaceTyped, Stages
<1>2. Earned
  BY CurveDoubles, PaceAssumption DEF RecycleInit, Earned, Curve
<1>3. Told
  <2>1. (1 - 1) % QUIET_HEARTBEAT_ATTEMPTS \in Nat
    BY PaceAssumption
  <2> QED BY <2>1 DEF RecycleInit, Told, Rounds
<1> QED BY <1>1, <1>2, <1>3 DEF PaceInv

LEMMA AttemptKeepsPace == PaceInv /\ AttemptFails => PaceInv'
<1> SUFFICES ASSUME PaceInv, AttemptFails PROVE PaceInv'
  OBVIOUS
<1> DEFINE ha == QUIET_HEARTBEAT_ATTEMPTS
           r == (attempt - 1) % ha
<1>1. PaceTyped /\ Earned /\ Told
  BY DEF PaceInv
<1>2. ha \in Nat \ {0}
  BY PaceAssumption
<1>3. attempt - 1 \in Nat /\ (attempt - 1) + 1 = attempt /\ attempt' = attempt + 1
      /\ attempt' - 1 = attempt
  BY <1>1 DEF PaceTyped, AttemptFails
<1>4. Lesser(delay * 2, RETRY_DELAY_CAP) = Curve(attempt + 1) /\ Curve(attempt + 1) \in Nat
  <2>1. delay = Curve(attempt) /\ attempt \in Nat \ {0} /\ attempt + 1 \in Nat
    BY <1>1 DEF Earned, PaceTyped, AttemptFails
  <2> QED BY <2>1, CurveDoubles
<1>5. silence' \in {0, silence + 1}
  BY DEF AttemptFails, Says
<1>6. PaceTyped'
  BY <1>1, <1>3, <1>4, <1>5 DEF PaceTyped, AttemptFails
<1>7. Earned'
  <2>1. since' = since /\ young' = young /\ stage' = stage /\ consecutive' = consecutive
        /\ stage = "electing" /\ delay' = Curve(attempt') /\ Curve(young)' = Curve(young)
    BY <1>4 DEF AttemptFails, Curve
  <2>2. Curve(attempt') = Curve(attempt)'
    BY DEF Curve
  <2> QED BY <1>1, <2>1, <2>2 DEF Earned
<1>8. Told'
  <2>1. r \in 0 .. ha - 1 /\ attempt % ha = IF r + 1 = ha THEN 0 ELSE r + 1
    <3> DEFINE a == attempt - 1
    <3>1. a \in Nat /\ a + 1 = attempt
      BY <1>3
    <3> HIDE DEF a
    <3>2. a % ha \in 0 .. ha - 1 /\ (a + 1) % ha = IF (a % ha) + 1 = ha THEN 0 ELSE (a % ha) + 1
      BY <1>2, <3>1, NextRemainder
    <3>3. attempt % ha = (a + 1) % ha
      BY <3>1
    <3> QED BY <3>2, <3>3 DEF a
  <2>2. silence <= Rounds(consecutive) + r /\ Rounds(consecutive) \in Nat /\ silence \in Nat
    BY <1>1, RoundsGrow DEF Told, AttemptFails, PaceTyped
  <2>3. ASSUME attempt % ha = 0 PROVE silence' = 0
    <3>1. ~(attempt <= FULL_LOG_ATTEMPTS)
      <4>1. attempt \in Nat \ {0} /\ FULL_LOG_ATTEMPTS \in Nat /\ FULL_LOG_ATTEMPTS < ha
        BY <1>1, PaceAssumption DEF PaceTyped
      <4>2. r + 1 = ha
        BY <1>2, <2>1, <2>3
      <4>3. ASSUME attempt <= FULL_LOG_ATTEMPTS PROVE FALSE
        <5>1. attempt < ha
          BY <1>2, <4>1, <4>3
        <5>2. attempt \div ha \in Nat /\ attempt = ha * (attempt \div ha)
          BY <1>2, <2>3, <4>1
        <5>3. attempt \div ha # 0
          BY <1>2, <4>1, <5>2
        <5>4. ha <= attempt
          BY <1>2, <5>2, <5>3, ProductsGrow
        <5> QED BY <1>2, <4>1, <5>1, <5>4
      <4> QED BY <4>3
    <3>2. verbosity = "heartbeat"
      BY <2>3, <3>1 DEF verbosity, election_log, Level
    <3> QED BY <3>2 DEF AttemptFails, Says
  <2>4. silence' <= Rounds(consecutive) + (attempt % ha)
    <3> HIDE DEF r
    <3>1. CASE attempt % ha = 0
      BY <2>2, <2>3, <3>1
    <3>2. CASE attempt % ha # 0
      BY <1>5, <2>1, <2>2, <3>2
    <3> QED BY <3>1, <3>2
  <2>5. stage' = "electing" /\ Rounds(consecutive') = Rounds(consecutive)
    BY DEF AttemptFails
  <2> QED BY <1>3, <2>4, <2>5 DEF Told, Rounds
<1> QED BY <1>6, <1>7, <1>8 DEF PaceInv

LEMMA EntryKeepsPace == PaceInv /\ EnterRole => PaceInv'
<1> SUFFICES ASSUME PaceInv, EnterRole PROVE PaceInv'
  OBVIOUS
<1> DEFINE ha == QUIET_HEARTBEAT_ATTEMPTS
           r == (attempt - 1) % ha
<1>1. PaceTyped /\ Earned /\ Told
  BY DEF PaceInv
<1>2. ha \in Nat \ {0}
  BY PaceAssumption
<1>3. silence' \in {0, silence}
  BY DEF EnterRole
<1>4. PaceTyped'
  BY <1>1, <1>3 DEF PaceTyped, Stages, EnterRole
<1>5. Earned'
  BY <1>1 DEF Earned, EnterRole
<1>6. Told'
  <2>1. r \in 0 .. ha - 1
    <3>1. attempt - 1 \in Nat
      BY <1>1 DEF PaceTyped
    <3> QED BY <1>2, <3>1, NextRemainder
  <2>2. silence <= Rounds(consecutive) + r /\ Rounds(consecutive) \in Nat /\ silence \in Nat
    BY <1>1, RoundsGrow DEF Told, EnterRole, PaceTyped
  <2>3. silence' + 1 <= Rounds(consecutive) + ha
    <3> HIDE DEF r
    <3> QED BY <1>2, <1>3, <2>1, <2>2
  <2>4. stage' = "serving" /\ Rounds(consecutive)' = Rounds(consecutive)
    BY DEF EnterRole, Rounds
  <2> QED BY <2>3, <2>4 DEF Told
<1> QED BY <1>4, <1>5, <1>6 DEF PaceInv

LEMMA DeathKeepsPace == ASSUME PaceInv, NEW l \in Spans, RoleDies(l) PROVE PaceInv'
<1> DEFINE ha == QUIET_HEARTBEAT_ATTEMPTS
           hr == QUIET_HEARTBEAT_RECYCLES
<1>1. PaceTyped /\ Earned /\ Told
  BY DEF PaceInv
<1>2. ha \in Nat \ {0} /\ hr \in Nat \ {0} /\ FULL_LOG_RECYCLES \in Nat /\ l \in Nat
  BY PaceAssumption
<1>3. silence' = IF death_log(l) = "quiet" THEN silence + 1 ELSE 0
  BY DEF RoleDies, Says
<1>4. PaceTyped'
  BY <1>1, <1>2, <1>3 DEF PaceTyped, Stages, RoleDies
<1>5. Earned'
  BY <1>1 DEF Earned, RoleDies, HEALTHY_ROLE_LIFETIME
<1>6. CASE l >= HEALTHY_ROLE_LIFETIME
  <2>1. silence' = 0 /\ stage' = "ending" /\ lifetime' >= HEALTHY_ROLE_LIFETIME
    BY <1>3, <1>6 DEF RoleDies, death_log
  <2>2. Told'
    BY <2>1 DEF Told, HEALTHY_ROLE_LIFETIME
  <2> QED BY <1>4, <1>5, <2>2 DEF PaceInv
<1>7. CASE ~(l >= HEALTHY_ROLE_LIFETIME)
  <2> DEFINE k == consecutive % hr
  <2>1. consecutive \in Nat /\ silence \in Nat
    BY <1>1 DEF PaceTyped
  <2>2. k \in 0 .. hr - 1
    BY <1>2, <2>1, NextRemainder
  <2>3. silence' <= ha * k
    <3>1. CASE death_log(l) = "quiet"
      <4>1. k # 0
        BY <1>7, <3>1 DEF death_log, recycle_log, Level
      <4>2. silence + 1 <= Rounds(consecutive) + ha
        BY <1>1 DEF Told, RoleDies
      <4>3. Rounds(consecutive) + ha = ha * k
        BY <2>1, <4>1, RoundsGrow
      <4> QED BY <1>3, <3>1, <4>2, <4>3
    <3>2. CASE death_log(l) # "quiet"
      <4>1. ha * k \in Nat
        BY <1>2, <2>2, ProductsGrow
      <4> QED BY <1>3, <3>2, <4>1
    <3> QED BY <3>1, <3>2
  <2>4. stage' = "ending" /\ ~(lifetime' >= HEALTHY_ROLE_LIFETIME) /\ consecutive' = consecutive
    BY <1>7 DEF RoleDies
  <2>5. Told'
    BY <2>3, <2>4 DEF Told, HEALTHY_ROLE_LIFETIME
  <2> QED BY <1>4, <1>5, <2>5 DEF PaceInv
<1> QED BY <1>6, <1>7

LEMMA TearingDownKeepsPace == ASSUME PaceInv, NEW d \in Spans, TearDown(d) PROVE PaceInv'
<1>1. PaceTyped /\ Earned /\ Told
  BY DEF PaceInv
<1>2. d \in Nat
  BY PaceAssumption
<1>3. PaceTyped'
  BY <1>1, <1>2 DEF PaceTyped, Stages, TearDown
<1>4. Earned'
  BY <1>1 DEF Earned, TearDown, HEALTHY_ROLE_LIFETIME
<1>5. Told'
  BY <1>1 DEF Told, TearDown, HEALTHY_ROLE_LIFETIME
<1> QED BY <1>3, <1>4, <1>5 DEF PaceInv

LEMMA ElectionKeepsPace == PaceInv /\ ElectNext => PaceInv'
<1> SUFFICES ASSUME PaceInv, ElectNext PROVE PaceInv'
  OBVIOUS
<1> DEFINE n == IF lifetime >= HEALTHY_ROLE_LIFETIME THEN 0 ELSE consecutive + 1
<1>1. PaceTyped /\ Earned /\ Told
  BY DEF PaceInv
<1>2. stage = "dead" /\ young = n /\ n \in Nat
  BY <1>1 DEF ElectNext, Earned, PaceTyped
<1>3. Curve(n) = recycle_delay(n) /\ Curve(n) \in Nat
  BY <1>2, RecycleDelayIsCurve, CurveDoubles
<1>4. /\ stage' = "electing" /\ consecutive' = n /\ young' = young
      /\ attempt' = 1 /\ delay' = RETRY_DELAY_BASE /\ lifetime' = lifetime
      /\ since' = IF Curve(n) > since THEN Curve(n) ELSE since
      /\ silence' \in {0, silence}
  BY <1>3 DEF ElectNext
<1>5. PaceTyped'
  BY <1>1, <1>2, <1>3, <1>4, PaceAssumption DEF PaceTyped, Stages
<1>6. Earned'
  <2>1. since' >= Curve(n)
    BY <1>1, <1>3, <1>4 DEF PaceTyped
  <2>2. Curve(young)' = Curve(n) /\ Curve(attempt)' = Curve(1)
    BY <1>2, <1>4 DEF Curve
  <2>3. Curve(1) = RETRY_DELAY_BASE
    BY CurveDoubles
  <2> QED BY <1>2, <1>4, <2>1, <2>2, <2>3 DEF Earned
<1>7. Told'
  <2>1. silence <= Rounds(n) /\ Rounds(n) \in Nat
    <3>1. Rounds(n) \in Nat
      BY <1>2, RoundsGrow
    <3>2. CASE lifetime >= HEALTHY_ROLE_LIFETIME
      <4>1. silence = 0
        BY <1>1, <1>2, <3>2 DEF Told
      <4> QED BY <3>1, <4>1
    <3>3. CASE ~(lifetime >= HEALTHY_ROLE_LIFETIME)
      <4>1. silence <= QUIET_HEARTBEAT_ATTEMPTS * (consecutive % QUIET_HEARTBEAT_RECYCLES)
        BY <1>1, <1>2, <3>3 DEF Told
      <4>2. consecutive \in Nat /\ n = consecutive + 1
        BY <1>1, <3>3 DEF PaceTyped
      <4> QED BY <3>1, <4>1, <4>2, RoundsGrow
    <3> QED BY <3>2, <3>3
  <2>2. silence' <= Rounds(n)
    BY <1>1, <1>4, <2>1 DEF PaceTyped
  <2>3. (1 - 1) % QUIET_HEARTBEAT_ATTEMPTS \in Nat
    BY PaceAssumption
  <2>4. Rounds(consecutive)' = Rounds(n)
    BY <1>4 DEF Rounds
  <2>5. silence' \in Nat
    BY <1>5 DEF PaceTyped
  <2>6. silence' <= Rounds(n) + ((1 - 1) % QUIET_HEARTBEAT_ATTEMPTS)
    BY <2>1, <2>2, <2>3, <2>5
  <2> QED BY <1>4, <2>4, <2>6 DEF Told
<1> QED BY <1>5, <1>6, <1>7 DEF PaceInv

LEMMA PaceIsKept == PaceInv /\ [RecycleNext]_recycleVars => PaceInv'
<1> SUFFICES ASSUME PaceInv, [RecycleNext]_recycleVars PROVE PaceInv'
  OBVIOUS
<1>1. CASE RecycleNext
  BY <1>1, AttemptKeepsPace, EntryKeepsPace, DeathKeepsPace, TearingDownKeepsPace,
     ElectionKeepsPace DEF RecycleNext
<1>2. CASE UNCHANGED recycleVars
  BY <1>2 DEF recycleVars, PaceInv, PaceTyped, Earned, Told, Curve, Rounds
<1> QED BY <1>1, <1>2

\* A supervisor waits as its roles have earned it: however long a dead role took to
\* wind down, the next election keeps the distance of the young deaths in a row, and
\* its own attempts keep the same distances (supervisor.rs, `elect_next').
THEOREM RolesWaitAsEarned == RecycleSpec => []WaitsAreEarned
<1>1. PaceInv => WaitsAreEarned
  <2> SUFFICES ASSUME PaceInv PROVE WaitsAreEarned
    OBVIOUS
  <2>1. PaceTyped /\ Earned
    BY DEF PaceInv
  <2>2. \A pid \in 0 .. MAX_RETRY_DELAY_MS :
           retry_delay(attempt, pid) \in MIN_RETRY_DELAY_MS .. MAX_RETRY_DELAY_MS
    <3> SUFFICES ASSUME NEW pid \in 0 .. MAX_RETRY_DELAY_MS
                 PROVE  retry_delay(attempt, pid) \in MIN_RETRY_DELAY_MS .. MAX_RETRY_DELAY_MS
      OBVIOUS
    <3>1. attempt \in Nat /\ pid \in Nat
      BY <2>1 DEF PaceTyped
    <3> QED BY <3>1, RetryIsBounded
  <2> QED BY <2>1, <2>2 DEF Earned, WaitsAreEarned
<1> QED BY <1>1, PaceStarts, PaceIsKept, PTL DEF RecycleSpec

\* Whatever keeps a process from getting anywhere, its log says so within so many
\* rounds: the heartbeats of the attempts and of the deaths cannot both be missed
\* for longer (supervisor.rs, `election_log', `recycle_log', `death_log').
THEOREM SilenceEnds == RecycleSpec => []NeverSilent
<1>1. PaceInv => NeverSilent
  <2> SUFFICES ASSUME PaceInv PROVE NeverSilent
    OBVIOUS
  <2> DEFINE ha == QUIET_HEARTBEAT_ATTEMPTS
             hr == QUIET_HEARTBEAT_RECYCLES
  <2>1. PaceTyped /\ Told
    BY DEF PaceInv
  <2>2. ha \in Nat \ {0} /\ hr \in Nat \ {0} /\ hr * ha \in Nat
    <3>1. ha \in Nat \ {0} /\ hr \in Nat \ {0}
      BY PaceAssumption
    <3> QED BY <3>1, ProductsGrow
  <2>3. consecutive \in Nat /\ silence \in Nat /\ attempt - 1 \in Nat
    BY <2>1 DEF PaceTyped
  <2>4. Rounds(consecutive) \in Nat /\ Rounds(consecutive) + ha <= hr * ha
    BY <2>3, RoundsGrow
  <2>5. CASE stage = "electing"
    <3>1. (attempt - 1) % ha \in 0 .. ha - 1
      BY <2>2, <2>3, NextRemainder
    <3>2. silence <= Rounds(consecutive) + ((attempt - 1) % ha)
      BY <2>1, <2>5 DEF Told
    <3>3. silence <= hr * ha
      BY <2>2, <2>3, <2>4, <3>1, <3>2
    <3> QED BY <2>5, <3>3 DEF NeverSilent
  <2>6. CASE stage = "serving"
    <3>1. silence + 1 <= Rounds(consecutive) + ha
      BY <2>1, <2>6 DEF Told
    <3>2. silence <= hr * ha
      BY <2>2, <2>3, <2>4, <3>1
    <3> QED BY <2>6, <3>2 DEF NeverSilent
  <2>7. CASE stage \in {"ending", "dead"}
    <3>1. CASE lifetime >= HEALTHY_ROLE_LIFETIME
      <4>1. silence = 0
        BY <2>1, <2>7, <3>1 DEF Told
      <4> QED BY <2>2, <4>1 DEF NeverSilent
    <3>2. CASE ~(lifetime >= HEALTHY_ROLE_LIFETIME)
      <4>1. silence <= ha * (consecutive % hr)
        BY <2>1, <2>7, <3>2 DEF Told
      <4>2. consecutive % hr \in 0 .. hr - 1
        BY <2>2, <2>3, NextRemainder
      <4>3. ha * (consecutive % hr) <= ha * hr /\ ha * (consecutive % hr) \in Nat
        BY <2>2, <4>2, ProductsGrow
      <4>4. ha * hr = hr * ha
        BY <2>2
      <4>5. silence <= hr * ha
        BY <2>2, <2>3, <4>1, <4>3, <4>4
      <4> QED BY <3>2, <4>5 DEF NeverSilent
    <3> QED BY <3>1, <3>2
  <2> QED BY <2>1, <2>5, <2>6, <2>7 DEF PaceTyped, Stages
<1> QED BY <1>1, PaceStarts, PaceIsKept, PTL DEF RecycleSpec

-----------------------------------------------------------------------------
(* The idle lifetime (IdleLifetime), for any number of frontends and plugins. *)

\* The holders of one kind whose lease is counted.
CountedOf(S) == {h \in S : Counted(h)}

\* The inductive invariant.  That closing is decided on an empty broker needs
\* the counters to be exact, because the code looks at nothing else.
IInv == TypeOK /\ CountsAreLeases /\ ClosingIsEmpty

\* The counters, before and after a step, in terms of CountedOf.
LEMMA CountsRestated ==
  /\ CountsAreLeases <=> /\ frontends = Cardinality(CountedOf(Frontends))
                         /\ plugins = Cardinality(CountedOf(Plugins))
  /\ CountsAreLeases' <=> /\ frontends' = Cardinality(CountedOf(Frontends)')
                          /\ plugins' = Cardinality(CountedOf(Plugins)')
  BY DEF CountsAreLeases, CountedOf

\* `Activity::default` and an idle waiter satisfy the invariant.
LEMMA InitIInv == Init => IInv
<1> SUFFICES ASSUME Init PROVE IInv
  OBVIOUS
<1>1. CountedOf(Frontends) = {} /\ CountedOf(Plugins) = {}
  BY DEF Init, CountedOf, Counted, Holders
<1>2. CountsAreLeases
  BY <1>1, FS_EmptySet DEF Init, CountsAreLeases, CountedOf
<1> QED BY <1>2 DEF Init, IInv, TypeOK, ClosingIsEmpty, Counted, Holders

\* A lease that is newly counted adds one to its kind.
LEMMA CountOneMore ==
  ASSUME NEW S, IsFiniteSet(S), NEW h \in S, ~Counted(h),
         \A g \in S : Counted(g)' <=> Counted(g) \/ g = h
  PROVE  Cardinality(CountedOf(S)') = Cardinality(CountedOf(S)) + 1
<1>1. IsFiniteSet(CountedOf(S))
  BY FS_Subset DEF CountedOf
<1>2. CountedOf(S)' = CountedOf(S) \cup {h} /\ h \notin CountedOf(S)
  BY DEF CountedOf
<1> QED BY <1>1, <1>2, FS_AddElement

\* A lease that is no longer counted takes one from its kind.
LEMMA CountOneLess ==
  ASSUME NEW S, IsFiniteSet(S), NEW h \in S, Counted(h),
         \A g \in S : Counted(g)' <=> Counted(g) /\ g # h
  PROVE  Cardinality(CountedOf(S)') = Cardinality(CountedOf(S)) - 1 /\ Cardinality(CountedOf(S)) > 0
<1>1. IsFiniteSet(CountedOf(S)) /\ h \in CountedOf(S)
  BY FS_Subset DEF CountedOf
<1>2. CountedOf(S)' = CountedOf(S) \ {h}
  BY DEF CountedOf
<1>3. Cardinality(CountedOf(S)) # 0 /\ Cardinality(CountedOf(S)) \in Nat
  BY <1>1, FS_EmptySet, FS_CardinalityType
<1>4. Cardinality(CountedOf(S)) > 0
  BY <1>3
<1>5. Cardinality(CountedOf(S) \ {h}) = Cardinality(CountedOf(S)) - 1
  BY <1>1, FS_RemoveElement
<1> QED BY <1>2, <1>4, <1>5

\* `frontend_lease` and `plugin_lease` of a broker that is not closing.
LEMMA TakeLeaseIInv == ASSUME NEW h \in Holders, IInv, TakeLease(h) PROVE IInv'
<1>1. ~Counted(h) /\ \A g \in Holders : Counted(g)' <=> Counted(g) \/ g = h
  BY DEF IInv, TypeOK, TakeLease, Counted
<1>2. CASE h \in Frontends
  <2>1. CountedOf(Plugins)' = CountedOf(Plugins)
    BY <1>1, <1>2, HoldersAssumption DEF CountedOf, Holders
  <2>2. Cardinality(CountedOf(Frontends)') = Cardinality(CountedOf(Frontends)) + 1
    BY <1>1, <1>2, HoldersAssumption, CountOneMore DEF Holders
  <2>3. CountsAreLeases' /\ frontends' \in Nat /\ plugins' \in Nat
    BY <1>2, <2>1, <2>2, CountsRestated DEF IInv, TypeOK, TakeLease, Add
  <2> QED BY <1>1, <2>3 DEF IInv, TypeOK, ClosingIsEmpty, TakeLease
<1>3. CASE h \notin Frontends
  <2>1. CountedOf(Frontends)' = CountedOf(Frontends)
    BY <1>1, <1>3 DEF CountedOf, Holders
  <2>2. Cardinality(CountedOf(Plugins)') = Cardinality(CountedOf(Plugins)) + 1
    BY <1>1, <1>3, HoldersAssumption, CountOneMore DEF Holders
  <2>3. CountsAreLeases' /\ frontends' \in Nat /\ plugins' \in Nat
    BY <1>3, <2>1, <2>2, CountsRestated DEF IInv, TypeOK, TakeLease, Add
  <2> QED BY <1>1, <2>3 DEF IInv, TypeOK, ClosingIsEmpty, TakeLease
<1> QED BY <1>2, <1>3

\* The drop of a lease: its counter is positive, so nothing saturates.
LEMMA DropLeaseIInv == ASSUME NEW h \in Holders, IInv, DropLease(h) PROVE IInv'
<1>1. Counted(h) /\ \A g \in Holders : Counted(g)' <=> Counted(g) /\ g # h
  BY DEF IInv, TypeOK, DropLease, Counted
<1>2. CASE h \in Frontends
  <2>1. CountedOf(Plugins)' = CountedOf(Plugins)
    BY <1>1, <1>2, HoldersAssumption DEF CountedOf, Holders
  <2>2. /\ Cardinality(CountedOf(Frontends)') = Cardinality(CountedOf(Frontends)) - 1
        /\ Cardinality(CountedOf(Frontends)) > 0
    BY <1>1, <1>2, HoldersAssumption, CountOneLess DEF Holders
  <2>3. CountsAreLeases' /\ frontends' \in Nat /\ plugins' \in Nat
    BY <1>2, <2>1, <2>2, CountsRestated DEF IInv, TypeOK, DropLease, Sub
  <2> QED BY <1>1, <2>3 DEF IInv, TypeOK, ClosingIsEmpty, DropLease
<1>3. CASE h \notin Frontends
  <2>1. CountedOf(Frontends)' = CountedOf(Frontends)
    BY <1>1, <1>3 DEF CountedOf, Holders
  <2>2. /\ Cardinality(CountedOf(Plugins)') = Cardinality(CountedOf(Plugins)) - 1
        /\ Cardinality(CountedOf(Plugins)) > 0
    BY <1>1, <1>3, HoldersAssumption, CountOneLess DEF Holders
  <2>3. CountsAreLeases' /\ frontends' \in Nat /\ plugins' \in Nat
    BY <1>3, <2>1, <2>2, CountsRestated DEF IInv, TypeOK, DropLease, Sub
  <2> QED BY <1>1, <2>3 DEF IInv, TypeOK, ClosingIsEmpty, DropLease
<1> QED BY <1>2, <1>3

\* Steps that change no counter and count the same leases: the notification
\* and every step of the waiter but the one that closes.
LEMMA SameLeases ==
  ASSUME IInv, TypeOK', UNCHANGED <<counts, closing>>,
         \A h \in Holders : Counted(h)' <=> Counted(h),
         waiter' = "returned" => waiter = "returned"
  PROVE  IInv'
<1>1. CountedOf(Frontends)' = CountedOf(Frontends) /\ CountedOf(Plugins)' = CountedOf(Plugins)
  BY DEF CountedOf, Holders
<1> QED BY <1>1 DEF IInv, CountsAreLeases, ClosingIsEmpty, counts, CountedOf

\* `begin_closing_if_idle`: both counters are zero, so nobody is counted.
LEMMA GraceElapsedIInv == IInv /\ GraceElapsed => IInv'
<1> SUFFICES ASSUME IInv, GraceElapsed PROVE IInv'
  OBVIOUS
<1>1. TypeOK' /\ \A h \in Holders : Counted(h)' <=> Counted(h)
  BY DEF IInv, TypeOK, GraceElapsed, Counted, counts
<1>2. CASE MustStay
  BY <1>1, <1>2, SameLeases DEF GraceElapsed
<1>3. CASE ~MustStay
  <2>1. Cardinality(CountedOf(Frontends)) = 0 /\ Cardinality(CountedOf(Plugins)) = 0
    BY <1>3 DEF IInv, CountsAreLeases, MustStay, AnyLease, CountedOf
  <2>2. IsFiniteSet(CountedOf(Frontends)) /\ IsFiniteSet(CountedOf(Plugins))
    BY HoldersAssumption, FS_Subset DEF CountedOf
  <2>3. CountedOf(Frontends) = {} /\ CountedOf(Plugins) = {}
    BY <2>1, <2>2, FS_EmptySet
  <2>4. \A h \in Holders : ~Counted(h)
    BY <2>3 DEF CountedOf, Holders
  <2>5. CountedOf(Frontends)' = CountedOf(Frontends) /\ CountedOf(Plugins)' = CountedOf(Plugins)
    BY <1>1 DEF CountedOf, Holders
  <2> QED BY <1>1, <1>3, <2>4, <2>5
          DEF IInv, CountsAreLeases, ClosingIsEmpty, GraceElapsed, counts, CountedOf
<1> QED BY <1>2, <1>3

\* Every step of a connection, the waiter or its timer keeps the invariant.
LEMMA StepIInv == IInv /\ [Next]_vars => IInv'
<1> SUFFICES ASSUME IInv, [Next]_vars PROVE IInv'
  OBVIOUS
<1> USE DEF TypeOK, IInv, Counted, counts
<1>1. ASSUME NEW h \in Holders, Changed(h) PROVE IInv'
  <2>1. TypeOK' /\ \A g \in Holders : Counted(g)' <=> Counted(g)
    BY <1>1 DEF Changed
  <2> QED BY <1>1, <2>1, SameLeases DEF Changed
<1>2. CASE Subscribe \/ ReadCounts \/ TimerFires \/ SeesChange
  <2>1. TypeOK' /\ \A g \in Holders : Counted(g)' <=> Counted(g)
    BY <1>2 DEF Subscribe, ReadCounts, TimerFires, SeesChange
  <2> QED BY <1>2, <2>1, SameLeases DEF Subscribe, ReadCounts, TimerFires, SeesChange
<1>3. CASE UNCHANGED vars
  <2>1. TypeOK' /\ \A g \in Holders : Counted(g)' <=> Counted(g)
    BY <1>3 DEF vars
  <2> QED BY <1>3, <2>1, SameLeases DEF vars
<1> QED BY <1>1, <1>2, <1>3, TakeLeaseIInv, DropLeaseIInv, GraceElapsedIInv DEF Next

-----------------------------------------------------------------------------
\* The inductive invariant holds in every reachable state of the lifetime.
THEOREM Invariance == Spec => []IInv
  BY InitIInv, StepIInv, PTL DEF Spec

\* The counters are exact for any number of connections, so the debug
\* assertions "lease count underflow" hold.
THEOREM CountsStayExact == Spec => []CountsAreLeases
  BY Invariance, PTL DEF IInv

\* A broker that is closing has no lease and grants none.
THEOREM ClosesEmpty == Spec => []ClosingIsEmpty
  BY Invariance, PTL DEF IInv
-----------------------------------------------------------------------------
(* The objects on the wire (WireFormats, WireDecoder).                     *)
(*                                                                         *)
(* Most formats are regular: every variant has an arm of its own, named by *)
(* the tag, which needs and keeps what the variant has and bars the rest.  *)

FitsArm(F, s) ==
    LET w == F.sends[s]
        a == F.arms[s]
    IN /\ a.needs \subseteq w.must /\ w.must \subseteq a.needs \cup F.defaults
       /\ a.needs \cup a.keeps = w.must \cup w.may
       /\ a.bars \cap (w.must \cup w.may) = {} /\ F.tag \notin a.bars
       /\ F.tag \notin w.must \cup w.may
       /\ a.needs \cap F.nullable = {}
       /\ \A f \in DOMAIN w.kinds : f \in F.late /\ w.kinds[f] # "null"

Regular(F) ==
    /\ F.single = FALSE /\ F.tag # NoTag
    /\ F.tag \notin F.late \cup F.nullable
    /\ "null" \notin DOMAIN F.sends
    /\ \A s \in DOMAIN F.sends : FitsArm(F, s)

\* No arm lets a field of another variant pass.
Shut(F) ==
    \A s, t \in DOMAIN F.sends :
       F.sends[t].must \cup F.sends[t].may
          \subseteq F.arms[s].needs \cup F.arms[s].keeps \cup F.arms[s].bars

LEMMA AdjacentIsRegular ==
    ASSUME NEW tag, NEW content, NEW payloads, tag # NoTag, tag # content,
           "null" \notin DOMAIN payloads, \A t \in DOMAIN payloads : payloads[t] # "null"
    PROVE  Regular(Adjacent(tag, content, payloads)) /\ Shut(Adjacent(tag, content, payloads))
<1> DEFINE F == Adjacent(tag, content, payloads)
<1>1. /\ F.single = FALSE /\ F.tag = tag /\ F.late = {content} /\ F.nullable = {}
      /\ F.defaults = {}
      /\ DOMAIN F.sends = DOMAIN payloads
      /\ \A t \in DOMAIN payloads :
            /\ F.sends[t].must = {content} /\ F.sends[t].may = {}
            /\ DOMAIN F.sends[t].kinds = {content} /\ F.sends[t].kinds[content] = payloads[t]
            /\ F.arms[t].needs = {content} /\ F.arms[t].keeps = {} /\ F.arms[t].bars = {}
  BY DEF Adjacent, Object, SendsKinds, Arm
<1> HIDE DEF F
<1>2. ASSUME NEW s \in DOMAIN payloads PROVE FitsArm(F, s)
  <2>1. \A f \in DOMAIN F.sends[s].kinds : f \in F.late /\ F.sends[s].kinds[f] # "null"
    <3>1. DOMAIN F.sends[s].kinds = {content} /\ F.sends[s].kinds[content] = payloads[s]
      BY <1>1
    <3>2. payloads[s] # "null" /\ F.late = {content}
      BY <1>1
    <3> QED BY <3>1, <3>2
  <2> QED BY <1>1, <2>1 DEF FitsArm
<1>3. Shut(F)
  BY <1>1 DEF Shut
<1> QED BY <1>1, <1>2, <1>3 DEF Regular, F

LEMMA DeferredIsRegular ==
    ASSUME NEW structs, "null" \notin DOMAIN structs,
           \A t \in DOMAIN structs :
              /\ structs[t].must \cup structs[t].may \subseteq MessageFields
              /\ structs[t].must \cap {"fileKey", "total", "message"} = {}
              /\ structs[t].kinds = <<>>
    PROVE  Regular(DeferredMessage(structs)) /\ Shut(DeferredMessage(structs))
<1> DEFINE F == DeferredMessage(structs)
<1>1. /\ F.single = FALSE /\ F.tag = "type" /\ F.late = MessageFields
      /\ F.nullable = {"fileKey", "total", "message"} /\ F.defaults = {}
      /\ F.sends = structs
      /\ \A t \in DOMAIN structs :
            /\ F.arms[t].needs = structs[t].must /\ F.arms[t].keeps = structs[t].may
            /\ F.arms[t].bars = MessageFields \ (structs[t].must \cup structs[t].may)
  BY DEF DeferredMessage, Object, ClosedStruct, Arm
<1>2. "type" \notin MessageFields
  BY DEF MessageFields
<1> HIDE DEF F
<1>3. ASSUME NEW s \in DOMAIN structs PROVE FitsArm(F, s)
  <2>1. DOMAIN structs[s].kinds = {}
    OBVIOUS
  <2> QED BY <1>1, <1>2, <2>1 DEF FitsArm
<1>4. Shut(F)
  BY <1>1 DEF Shut
<1> QED BY <1>1, <1>2, <1>3, <1>4 DEF Regular, NoTag, F

LEMMA PluginMessagesAreRegular ==
    /\ Regular(PluginToBroker) /\ Shut(PluginToBroker)
    /\ Regular(BrokerToPlugin) /\ Shut(BrokerToPlugin)
<1>1. /\ DOMAIN PluginStructs = {"hello", "progress", "response", "error", "pong"}
      /\ DOMAIN BrokerStructs = {"request", "cancel", "ping"}
  BY DEF PluginStructs, BrokerStructs
<1>2. \A t \in DOMAIN PluginStructs :
         /\ PluginStructs[t].must \cup PluginStructs[t].may \subseteq MessageFields
         /\ PluginStructs[t].must \cap {"fileKey", "total", "message"} = {}
         /\ PluginStructs[t].kinds = <<>>
  BY <1>1 DEF PluginStructs, Sends, MessageFields
<1>3. \A t \in DOMAIN BrokerStructs :
         /\ BrokerStructs[t].must \cup BrokerStructs[t].may \subseteq MessageFields
         /\ BrokerStructs[t].must \cap {"fileKey", "total", "message"} = {}
         /\ BrokerStructs[t].kinds = <<>>
  BY <1>1 DEF BrokerStructs, Sends, MessageFields
<1>4. "null" \notin DOMAIN PluginStructs /\ "null" \notin DOMAIN BrokerStructs
  BY <1>1
<1> QED BY <1>2, <1>3, <1>4, DeferredIsRegular DEF PluginToBroker, BrokerToPlugin

LEMMA AdjacentTypesAreRegular ==
    /\ Regular(ReadOperation) /\ Shut(ReadOperation)
    /\ Regular(ReadResult) /\ Shut(ReadResult)
    /\ Regular(BrokerResult) /\ Shut(BrokerResult)
    /\ Regular(ComponentPropertyValue) /\ Shut(ComponentPropertyValue)
    /\ Regular(VariableValue) /\ Shut(VariableValue)
<1>1. Regular(ReadOperation) /\ Shut(ReadOperation)
  BY AdjacentIsRegular DEF ReadOperation, ReadTags, NoTag
<1>2. Regular(ReadResult) /\ Shut(ReadResult)
  BY AdjacentIsRegular DEF ReadResult, ReadTags, NoTag
<1>3. Regular(BrokerResult) /\ Shut(BrokerResult)
  <2> DEFINE p == [files |-> "files", invocation |-> "invocation"]
  <2>1. "null" \notin DOMAIN p /\ \A t \in DOMAIN p : p[t] # "null"
    OBVIOUS
  <2> HIDE DEF p
  <2>2. Regular(Adjacent("kind", "result", p)) /\ Shut(Adjacent("kind", "result", p))
    BY <2>1, AdjacentIsRegular DEF NoTag
  <2> QED BY <2>2 DEF BrokerResult, p
<1>4. Regular(ComponentPropertyValue) /\ Shut(ComponentPropertyValue)
  <2> DEFINE p == [text |-> "string", boolean |-> "bool", instanceSwap |-> "string",
                   variant |-> "string"]
  <2>1. "null" \notin DOMAIN p /\ \A t \in DOMAIN p : p[t] # "null"
    OBVIOUS
  <2> HIDE DEF p
  <2>2. Regular(Adjacent("kind", "value", p)) /\ Shut(Adjacent("kind", "value", p))
    BY <2>1, AdjacentIsRegular DEF NoTag
  <2> QED BY <2>2 DEF ComponentPropertyValue, p
<1>5. Regular(VariableValue) /\ Shut(VariableValue)
  <2> DEFINE p == [boolean |-> "bool", float |-> "number", string |-> "string",
                   color |-> "color", alias |-> "string"]
  <2>1. "null" \notin DOMAIN p /\ \A t \in DOMAIN p : p[t] # "null"
    OBVIOUS
  <2> HIDE DEF p
  <2>2. Regular(Adjacent("kind", "value", p)) /\ Shut(Adjacent("kind", "value", p))
    BY <2>1, AdjacentIsRegular DEF NoTag
  <2> QED BY <2>2 DEF VariableValue, p
<1> QED BY <1>1, <1>2, <1>3, <1>4, <1>5

\* A variant and its arm, when nothing is kept for later and nothing defaulted.
Suits(tag, w, a) ==
    /\ w.kinds = <<>>
    /\ a.needs \subseteq w.must /\ w.must \subseteq a.needs
    /\ a.keeps \subseteq w.may /\ w.may \subseteq a.keeps
    /\ a.bars \cap (w.must \cup w.may \cup {tag}) = {}
    /\ tag \notin w.must \cup w.may

LEMMA TaggedIsRegular ==
    ASSUME NEW tag, NEW sends, NEW arms, tag # NoTag, "null" \notin DOMAIN sends,
           \A s \in DOMAIN sends : Suits(tag, sends[s], arms[s])
    PROVE  Regular(Tagged(tag, sends, arms))
<1> DEFINE F == Tagged(tag, sends, arms)
<1>1. /\ F.single = FALSE /\ F.tag = tag /\ F.late = {} /\ F.nullable = {} /\ F.defaults = {}
      /\ F.sends = sends /\ F.arms = arms
  BY DEF Tagged, Object
<1> HIDE DEF F
<1>2. ASSUME NEW s \in DOMAIN sends PROVE FitsArm(F, s)
  <2> DEFINE w == sends[s]
             a == arms[s]
  <2>1. Suits(tag, w, a) /\ F.sends[s] = w /\ F.arms[s] = a
    BY <1>1
  <2> HIDE DEF w, a
  <2>2. DOMAIN w.kinds = {}
    BY <2>1 DEF Suits
  <2> QED BY <1>1, <2>1, <2>2 DEF FitsArm, Suits
<1> QED BY <1>1, <1>2 DEF Regular, F

LEMMA TaggedIsShut ==
    ASSUME NEW tag, NEW sends, NEW arms,
           \A s, t \in DOMAIN sends :
              sends[t].must \cup sends[t].may
                 \subseteq arms[s].needs \cup arms[s].keeps \cup arms[s].bars
    PROVE  Shut(Tagged(tag, sends, arms))
<1> DEFINE F == Tagged(tag, sends, arms)
<1>1. F.sends = sends /\ F.arms = arms
  BY DEF Tagged, Object
<1> HIDE DEF F
<1>2. Shut(F)
  BY <1>1 DEF Shut
<1> QED BY <1>2 DEF F

LEMMA CallsAreRegular ==
    /\ Regular(FrontendToLeader) /\ Shut(FrontendToLeader)
    /\ Regular(BrokerCall) /\ Shut(BrokerCall)
<1>1. Regular(FrontendToLeader) /\ Shut(FrontendToLeader)
  <2> DEFINE w == [request |-> Sends({"rpcRequestId", "call"}, {}),
                   cancel  |-> Sends({"rpcRequestId"}, {})]
             a == [request |-> Arm({"rpcRequestId", "call"}, {}, {}),
                   cancel  |-> Arm({"rpcRequestId"}, {}, {"call"})]
  <2>1. \A s \in DOMAIN w : Suits("type", w[s], a[s])
    BY DEF Suits, Sends, Arm
  <2>2. \A s, t \in DOMAIN w : w[t].must \cup w[t].may
                                  \subseteq a[s].needs \cup a[s].keeps \cup a[s].bars
    BY DEF Sends, Arm
  <2>3. FrontendToLeader = Tagged("type", w, a) /\ "null" \notin DOMAIN w /\ "type" # NoTag
    BY DEF FrontendToLeader, NoTag
  <2> HIDE DEF w, a
  <2> QED BY <2>1, <2>2, <2>3, TaggedIsRegular, TaggedIsShut
<1>2. Regular(BrokerCall) /\ Shut(BrokerCall)
  <2> DEFINE w == [listFiles |-> Sends({}, {}),
                   invoke    |-> Sends({"invocation"}, {"connectionId"})]
             a == [listFiles |-> Arm({}, {}, {"connectionId", "invocation"}),
                   invoke    |-> Arm({"invocation"}, {"connectionId"}, {})]
  <2>1. \A s \in DOMAIN w : Suits("call", w[s], a[s])
    BY DEF Suits, Sends, Arm
  <2>2. \A s, t \in DOMAIN w : w[t].must \cup w[t].may
                                  \subseteq a[s].needs \cup a[s].keeps \cup a[s].bars
    BY DEF Sends, Arm
  <2>3. BrokerCall = Tagged("call", w, a) /\ "null" \notin DOMAIN w /\ "call" # NoTag
    BY DEF BrokerCall, NoTag
  <2> HIDE DEF w, a
  <2> QED BY <2>1, <2>2, <2>3, TaggedIsRegular, TaggedIsShut
<1> QED BY <1>1, <1>2

LEMMA AnswersAreRegular == Regular(LeaderToFrontend) /\ Shut(LeaderToFrontend)
<1> DEFINE payload == [progress |-> "progress", response |-> "result", error |-> "error"]
           payloads == {"progress", "result", "error"}
           w == [t \in DOMAIN payload |-> Sends({"rpcRequestId", payload[t]}, {})]
           a == [t \in DOMAIN payload |-> Arm({"rpcRequestId", payload[t]}, {},
                                              payloads \ {payload[t]})]
<1>1. /\ LeaderToFrontend = Tagged("type", w, a) /\ "null" \notin DOMAIN w /\ "type" # NoTag
      /\ DOMAIN w = DOMAIN payload
  BY DEF LeaderToFrontend, NoTag
<1>2. \A t \in DOMAIN payload : payload[t] \in payloads
  OBVIOUS
<1> HIDE DEF payload
<1>3. \A t \in DOMAIN payload :
         /\ w[t].must = {"rpcRequestId", payload[t]} /\ w[t].may = {} /\ w[t].kinds = <<>>
         /\ a[t].needs = {"rpcRequestId", payload[t]} /\ a[t].keeps = {}
         /\ a[t].bars = payloads \ {payload[t]}
  BY DEF Sends, Arm
<1> HIDE DEF w, a
<1>4. \A s \in DOMAIN w : Suits("type", w[s], a[s])
  BY <1>1, <1>2, <1>3 DEF Suits
<1>5. \A s, t \in DOMAIN w : w[t].must \cup w[t].may
                                \subseteq a[s].needs \cup a[s].keeps \cup a[s].bars
  BY <1>1, <1>2, <1>3
<1> QED BY <1>1, <1>4, <1>5, TaggedIsRegular, TaggedIsShut

LEMMA SmallTypesAreRegular ==
    /\ Regular(CornerRadiusValue) /\ Shut(CornerRadiusValue)
    /\ Regular(ItemResult) /\ Shut(ItemResult)
<1>1. Regular(CornerRadiusValue) /\ Shut(CornerRadiusValue)
  <2> DEFINE w == [uniform |-> Sends({"radius"}, {}), perCorner |-> Sends(Corners, {})]
             a == [uniform   |-> Arm({"radius"}, {}, Corners),
                   perCorner |-> Arm(Corners, {}, {"radius"})]
  <2>1. \A s \in DOMAIN w : Suits("kind", w[s], a[s])
    BY DEF Suits, Sends, Arm, Corners
  <2>2. \A s, t \in DOMAIN w : w[t].must \cup w[t].may
                                  \subseteq a[s].needs \cup a[s].keeps \cup a[s].bars
    BY DEF Sends, Arm
  <2>3. CornerRadiusValue = Tagged("kind", w, a) /\ "null" \notin DOMAIN w /\ "kind" # NoTag
    BY DEF CornerRadiusValue, NoTag
  <2> HIDE DEF w, a
  <2> QED BY <2>1, <2>2, <2>3, TaggedIsRegular, TaggedIsShut
<1>2. Regular(ItemResult) /\ Shut(ItemResult)
  <2> DEFINE w == [success |-> Sends({"value"}, {}), error |-> Sends({"error"}, {})]
             a == [success |-> Arm({"value"}, {}, {"error"}), error |-> Arm({"error"}, {}, {"value"})]
  <2>1. \A s \in DOMAIN w : Suits("status", w[s], a[s])
    BY DEF Suits, Sends, Arm
  <2>2. \A s, t \in DOMAIN w : w[t].must \cup w[t].may
                                  \subseteq a[s].needs \cup a[s].keeps \cup a[s].bars
    BY DEF Sends, Arm
  <2>3. ItemResult = Tagged("status", w, a) /\ "null" \notin DOMAIN w /\ "status" # NoTag
    BY DEF ItemResult, NoTag
  <2> HIDE DEF w, a
  <2> QED BY <2>1, <2>2, <2>3, TaggedIsRegular, TaggedIsShut
<1> QED BY <1>1, <1>2

LEMMA StylesAreRegular == Regular(StyleValue) /\ Shut(StyleValue)
<1>1. DOMAIN StyleSends = {"paint", "text", "effect", "grid"}
  BY DEF StyleSends
<1>2. \A s \in DOMAIN StyleSends : Suits("styleType", StyleSends[s], StyleArms[s])
  BY DEF StyleSends, StyleArms, StyleCommon, Suits, Sends, Arm
<1>3. \A s, t \in DOMAIN StyleSends :
         StyleSends[t].must \cup StyleSends[t].may
            \subseteq StyleArms[s].needs \cup StyleArms[s].keeps \cup StyleArms[s].bars
  BY DEF StyleSends, StyleArms, Sends, Arm
<1>4. "null" \notin DOMAIN StyleSends /\ "styleType" # NoTag
  BY <1>1 DEF NoTag
<1> QED BY <1>2, <1>3, <1>4, TaggedIsRegular, TaggedIsShut DEF StyleValue

LEMMA MergeIs ==
    ASSUME NEW f, NEW g
    PROVE  /\ DOMAIN Merge(f, g) = DOMAIN f \cup DOMAIN g
           /\ \A x \in DOMAIN f : Merge(f, g)[x] = f[x]
           /\ \A x \in DOMAIN g : x \notin DOMAIN f => Merge(f, g)[x] = g[x]
  BY DEF Merge

LEMMA PaintsAreRegular == Regular(PaintValue) /\ Shut(PaintValue)
<1> DEFINE Named == {"solid", "image", "mixed", "unsupported"}
<1>1. /\ DOMAIN PaintSends = Named \cup Gradients
      /\ PaintSends["solid"] = Sends({"color", "opacity"}, {})
      /\ PaintSends["image"] = Sends({"imageRef", "scaleMode", "opacity"}, {})
      /\ PaintSends["mixed"] = Sends({}, {})
      /\ PaintSends["unsupported"] = Sends({"figmaType"}, {})
      /\ \A g \in Gradients :
            PaintSends[g] = Sends({"stops", "gradientTransform", "opacity"}, {})
  BY DEF PaintSends, Merge, Gradients
<1>2. /\ PaintArms["solid"] = Arm({"color", "opacity"}, {},
                         {"stops", "gradientTransform", "imageRef", "scaleMode", "figmaType"})
      /\ PaintArms["image"] = Arm({"imageRef", "scaleMode", "opacity"}, {},
                         {"color", "stops", "gradientTransform", "figmaType"})
      /\ PaintArms["mixed"] = Arm({}, {}, {"color", "opacity", "stops", "gradientTransform",
                                  "imageRef", "scaleMode", "figmaType"})
      /\ PaintArms["unsupported"] = Arm({"figmaType"}, {},
                         {"color", "opacity", "stops", "gradientTransform", "imageRef",
                          "scaleMode"})
      /\ \A g \in Gradients :
            PaintArms[g] = Arm({"stops", "gradientTransform", "opacity"}, {},
                               {"color", "imageRef", "scaleMode", "figmaType"})
  BY DEF PaintArms, Merge, Gradients
<1>3. "null" \notin DOMAIN PaintSends /\ "type" # NoTag
  BY <1>1 DEF Gradients, NoTag
<1>4. \A s \in DOMAIN PaintSends : Suits("type", PaintSends[s], PaintArms[s])
  BY <1>1, <1>2 DEF Suits, Sends, Arm
<1>5. ASSUME NEW s \in DOMAIN PaintSends, NEW t \in DOMAIN PaintSends
      PROVE  PaintSends[t].must \cup PaintSends[t].may
                \subseteq PaintArms[s].needs \cup PaintArms[s].keeps \cup PaintArms[s].bars
  <2> DEFINE All == {"color", "opacity", "stops", "gradientTransform", "imageRef", "scaleMode",
                     "figmaType"}
  <2>1. PaintSends[t].must \cup PaintSends[t].may \subseteq All
    BY <1>1 DEF Sends
  <2>2. All \subseteq PaintArms[s].needs \cup PaintArms[s].keeps \cup PaintArms[s].bars
    BY <1>1, <1>2 DEF Arm
  <2> QED BY <2>1, <2>2
<1> QED BY <1>3, <1>4, <1>5, TaggedIsRegular, TaggedIsShut DEF PaintValue

LEMMA EffectsAreRegular == Regular(EffectValue) /\ Shut(EffectValue)
<1>1. /\ DOMAIN EffectSends = {"unsupported"} \cup Shadows \cup Blurs
      /\ EffectSends["unsupported"] = Sends({"figmaType"}, {})
      /\ \A e \in Shadows :
            EffectSends[e] = Sends({"color", "offsetX", "offsetY", "radius", "spread"}, {})
      /\ \A e \in Blurs : EffectSends[e] = Sends({"radius"}, {})
  BY DEF EffectSends, Merge, Shadows, Blurs
<1>2. /\ EffectArms["unsupported"] = Arm({"figmaType"}, {},
                                         {"color", "offsetX", "offsetY", "radius", "spread"})
      /\ \A e \in Shadows :
            EffectArms[e] = Arm({"color", "offsetX", "offsetY", "radius", "spread"}, {},
                                {"figmaType"})
      /\ \A e \in Blurs :
            EffectArms[e] = Arm({"radius"}, {}, {"color", "offsetX", "offsetY", "spread",
                                                 "figmaType"})
  BY DEF EffectArms, Merge, Shadows, Blurs
<1>3. "null" \notin DOMAIN EffectSends /\ "type" # NoTag
  BY <1>1 DEF Shadows, Blurs, NoTag
<1>4. \A s \in DOMAIN EffectSends : Suits("type", EffectSends[s], EffectArms[s])
  BY <1>1, <1>2 DEF Suits, Sends, Arm
<1>5. ASSUME NEW s \in DOMAIN EffectSends, NEW t \in DOMAIN EffectSends
      PROVE  EffectSends[t].must \cup EffectSends[t].may
                \subseteq EffectArms[s].needs \cup EffectArms[s].keeps \cup EffectArms[s].bars
  <2> DEFINE All == {"color", "offsetX", "offsetY", "radius", "spread", "figmaType"}
  <2>1. EffectSends[t].must \cup EffectSends[t].may \subseteq All
    BY <1>1 DEF Sends
  <2>2. All \subseteq EffectArms[s].needs \cup EffectArms[s].keeps \cup EffectArms[s].bars
    BY <1>1, <1>2 DEF Arm
  <2> QED BY <2>1, <2>2
<1> QED BY <1>3, <1>4, <1>5, TaggedIsRegular, TaggedIsShut DEF EffectValue

\* The actions on a reaction; their arms bar few fields.
LEMMA ReactionsAreRegular == Regular(ReactionAction)
<1> DEFINE Media == {"destinationId", "amountToSkip", "newTimestamp"}
           Mode == {"variableCollectionId", "variableModeId"}
<1>1. /\ DOMAIN ReactionSends = {"openLink", "setVariable", "setVariableMode",
                                 "updateMediaRuntime"} \cup ToDestination \cup NoFields
      /\ ReactionSends["openLink"] = Sends({"uri"}, {})
      /\ ReactionSends["setVariable"] = Sends({}, {"variableId"})
      /\ ReactionSends["setVariableMode"] = Sends({}, Mode)
      /\ ReactionSends["updateMediaRuntime"] = Sends({"mediaAction"}, Media)
      /\ \A a \in ToDestination : ReactionSends[a] = Sends({}, {"destinationId"})
      /\ \A a \in NoFields : ReactionSends[a] = Sends({}, {})
  BY DEF ReactionSends, Merge, ToDestination, NoFields
<1>2. /\ ReactionArms["openLink"] = Arm({"uri"}, {}, {"destinationId"})
      /\ ReactionArms["setVariable"] = Arm({}, {"variableId"}, {})
      /\ ReactionArms["setVariableMode"] = Arm({}, Mode, {})
      /\ ReactionArms["updateMediaRuntime"] = Arm({"mediaAction"}, Media, {})
      /\ \A a \in ToDestination : ReactionArms[a] = Arm({}, {"destinationId"}, {"uri"})
      /\ \A a \in NoFields :
            ReactionArms[a] = Arm({}, {}, IF a = "conditional" THEN {}
                                          ELSE {"destinationId", "uri"})
  BY DEF ReactionArms, Merge, ToDestination, NoFields
<1>3. "null" \notin DOMAIN ReactionSends /\ "type" # NoTag
  BY <1>1 DEF ToDestination, NoFields, NoTag
<1>4. ASSUME NEW s \in DOMAIN ReactionSends
      PROVE  Suits("type", ReactionSends[s], ReactionArms[s])
  <2>1. CASE s \in {"openLink", "setVariable", "setVariableMode", "updateMediaRuntime"}
    BY <1>1, <1>2, <2>1 DEF Suits, Sends, Arm
  <2>2. CASE s \in ToDestination
    BY <1>1, <1>2, <2>2 DEF Suits, Sends, Arm
  <2>3. CASE s \in NoFields
    <3> DEFINE a == ReactionArms[s]
               w == ReactionSends[s]
               b == IF s = "conditional" THEN {} ELSE {"destinationId", "uri"}
    <3>1. w = Sends({}, {})
      BY <1>1, <2>3
    <3>2. a.needs = {} /\ a.keeps = {} /\ "type" \notin a.bars
      <4>1. a = Arm({}, {}, b)
        BY <1>2, <2>3
      <4>2. "type" \notin b
        OBVIOUS
      <4> HIDE DEF a, b
      <4> QED BY <4>1, <4>2 DEF Arm
    <3> HIDE DEF a, w
    <3>3. w.must = {} /\ w.may = {} /\ w.kinds = <<>>
      BY <3>1 DEF Sends
    <3>4. Suits("type", w, a)
      BY <3>2, <3>3 DEF Suits
    <3> QED BY <3>4 DEF w, a
  <2> QED BY <1>1, <2>1, <2>2, <2>3
<1> QED BY <1>3, <1>4, TaggedIsRegular DEF ReactionAction

LEMMA DetailIsRegular ==
    ASSUME NEW payload, NEW may, "null" \notin may,
           payload \notin {"truncated", "observation", "truncation", "detail"} \cup may,
           may \cap {"truncated", "observation", "truncation", "detail"} = {}
    PROVE  Regular(DetailResult(payload, may)) /\ Shut(DetailResult(payload, may))
<1> DEFINE F == DetailResult(payload, may)
           must == {payload, "truncated", "observation"}
<1>1. /\ F.single = FALSE /\ F.tag = "detail" /\ F.late = {payload}
      /\ F.nullable = {"truncation"} /\ F.defaults = {}
      /\ DOMAIN F.sends = Details
      /\ \A d \in Details :
            /\ F.sends[d].must = must /\ F.sends[d].may = {"truncation"} \cup may
            /\ DOMAIN F.sends[d].kinds = {payload} /\ F.sends[d].kinds[payload] = d
            /\ F.arms[d].needs = must /\ F.arms[d].keeps = {"truncation"} \cup may
            /\ F.arms[d].bars = {}
  BY DEF DetailResult, Object, SendsKinds, Arm
<1>2. "null" \notin Details
  BY DEF Details
<1> HIDE DEF F
<1>3. ASSUME NEW s \in Details PROVE FitsArm(F, s)
  <2>1. \A f \in DOMAIN F.sends[s].kinds : f \in F.late /\ F.sends[s].kinds[f] # "null"
    <3>1. DOMAIN F.sends[s].kinds = {payload} /\ F.sends[s].kinds[payload] = s
      BY <1>1
    <3> QED BY <1>1, <1>2, <3>1
  <2> QED BY <1>1, <2>1 DEF FitsArm
<1>4. Shut(F)
  BY <1>1 DEF Shut
<1> QED BY <1>1, <1>2, <1>3, <1>4 DEF Regular, NoTag, F

LEMMA DetailsAreRegular ==
    /\ Regular(GetNodesResult) /\ Shut(GetNodesResult)
    /\ Regular(GetDesignContextResult) /\ Shut(GetDesignContextResult)
<1>1. Regular(GetNodesResult) /\ Shut(GetNodesResult)
  BY DetailIsRegular DEF GetNodesResult
<1>2. Regular(GetDesignContextResult) /\ Shut(GetDesignContextResult)
  BY DetailIsRegular DEF GetDesignContextResult
<1> QED BY <1>1, <1>2

LEMMA ScreenshotInputIsRegular == Regular(GetScreenshotInput) /\ Shut(GetScreenshotInput)
<1> DEFINE F == GetScreenshotInput
<1>1. /\ F.single = FALSE /\ F.tag = "format" /\ F.late = {}
      /\ F.nullable = {"connectionId", "scale"} /\ F.defaults = SvgOptions
      /\ DOMAIN F.sends = {"svg"} \cup Rasters
  BY DEF GetScreenshotInput, Object, Merge
<1>2. /\ F.sends["svg"] = Sends({"selector"} \cup SvgOptions, {"connectionId"})
      /\ F.arms["svg"] = Arm({"selector"}, {"connectionId"} \cup SvgOptions, {"scale"})
  BY DEF GetScreenshotInput, Object, Merge
<1>3. /\ \A r \in Rasters : F.sends[r] = Sends({"selector"}, {"connectionId", "scale"})
      /\ \A r \in Rasters : F.arms[r] = Arm({"selector"}, {"connectionId", "scale"}, SvgOptions)
  BY DEF GetScreenshotInput, Object, Merge, Rasters
<1> HIDE DEF F
<1>4. ASSUME NEW s \in DOMAIN F.sends PROVE FitsArm(F, s)
  <2>1. CASE s = "svg"
    BY <1>1, <1>2, <2>1 DEF FitsArm, Sends, Arm, SvgOptions
  <2>2. CASE s \in Rasters
    BY <1>1, <1>3, <2>2 DEF FitsArm, Sends, Arm, SvgOptions
  <2> QED BY <1>1, <2>1, <2>2
<1>5. Shut(F)
  BY <1>1, <1>2, <1>3 DEF Shut, Sends, Arm
<1>6. "null" \notin DOMAIN F.sends
  BY <1>1 DEF Rasters
<1> QED BY <1>1, <1>4, <1>5, <1>6 DEF Regular, NoTag, F

-----------------------------------------------------------------------------
(* What the visitor makes of the slots.                                    *)

Returned == [f \in NonNull \cap (TagField \cup ArmOf(Selected).needs \cup ArmOf(Selected).keeps)
               |-> slots[f]]

\* Whatever is in a slot was let in.
SlotsTyped ==
    /\ \A f \in DOMAIN slots : f \in Known /\ Takes(f, slots[f])
    /\ DOMAIN slots = {} => slots = <<>>
    /\ Format.single => slots = <<>> \/ \E f : DOMAIN slots = {f}

\* The sender has not deviated.
AsWritten ==
    /\ todo \subseteq Writes(shape) /\ DOMAIN slots \subseteq Writes(shape)
    /\ todo \cap DOMAIN slots = {}
    /\ Format.sends[shape].must \cup TagField \subseteq todo \cup DOMAIN slots
    /\ \A f \in DOMAIN slots : slots[f] = Kind(shape, f)

\* What a visitor of a regular format makes of an object as it was sent.
LEMMA RegularWhole ==
    ASSUME Regular(Format), shape \in Shapes, AsWritten, todo = {}, Sound
    PROVE  Complete /\ Encodes(shape, Returned)
<1> DEFINE t == Format.tag
           w == Format.sends[shape]
           a == Format.arms[shape]
<1>1. /\ Format.single = FALSE /\ t # NoTag /\ t \notin Format.late \cup Format.nullable
      /\ shape # "null" /\ FitsArm(Format, shape)
  BY DEF Regular, Shapes
<1>2. TagField = {t}
  BY <1>1 DEF TagField
<1>3. Writes(shape) = w.must \cup w.may \cup {t}
  BY <1>2 DEF Writes
<1>4. /\ a.needs \subseteq w.must /\ a.needs \cup a.keeps = w.must \cup w.may
      /\ a.bars \cap (w.must \cup w.may) = {} /\ t \notin a.bars
      /\ \A f \in DOMAIN w.kinds : f \in Format.late /\ w.kinds[f] # "null"
  BY <1>1 DEF FitsArm
<1>5. Kind(shape, t) = shape /\ \A f : Kind(shape, f) # "null"
  BY <1>1, <1>4 DEF Kind
<1>6. /\ DOMAIN slots \subseteq w.must \cup w.may \cup {t}
      /\ w.must \cup {t} \subseteq DOMAIN slots
      /\ \A f \in DOMAIN slots : slots[f] = Kind(shape, f)
  BY <1>2, <1>3 DEF AsWritten
<1>7. Selected = shape /\ ArmOf(Selected) = a
  BY <1>1, <1>5, <1>6 DEF Selected, ArmOf
<1> HIDE DEF a, t, w
<1>8. Complete
  <2>1. a.needs \subseteq DOMAIN slots /\ a.bars \cap DOMAIN slots = {}
    BY <1>4, <1>6
  <2>2. LateFieldsFit(Selected)
    BY <1>6, <1>7 DEF LateFieldsFit
  <2> QED BY <1>1, <1>2, <1>6, <1>7, <2>1, <2>2 DEF Complete
<1>9. NonNull = DOMAIN slots
  BY <1>5, <1>6 DEF NonNull
<1>10. NonNull \cap (TagField \cup a.needs \cup a.keeps) = DOMAIN slots
  BY <1>2, <1>4, <1>6, <1>9
<1>11. Returned = [f \in DOMAIN slots |-> slots[f]]
  BY <1>7, <1>10 DEF Returned
<1>12. DOMAIN Returned = DOMAIN slots /\ \A f \in DOMAIN slots : Returned[f] = slots[f]
  BY <1>11
<1>13. Encodes(shape, Returned)
  BY <1>2, <1>3, <1>6, <1>12 DEF Encodes, w
<1> QED BY <1>8, <1>13

\* What it takes is what the variant that the tag names is made of.
LEMMA RegularTaken ==
    ASSUME Regular(Format), SlotsTyped, Complete
    PROVE  /\ \E s \in Shapes : Encodes(s, Returned)
           /\ Shut(Format) => DOMAIN Returned = NonNull
<1> DEFINE t == Format.tag
           s == slots[t]
           w == Format.sends[s]
           a == Format.arms[s]
<1>1. /\ Format.single = FALSE /\ t # NoTag /\ t \notin Format.late /\ t \notin Format.nullable
      /\ "null" \notin Shapes
      /\ \A u \in Shapes : FitsArm(Format, u)
  BY DEF Regular, Shapes
<1>2. TagField = {t} /\ t \in DOMAIN slots
  BY <1>1 DEF TagField, Complete
<1>3. \A u \in Shapes : \A f \in DOMAIN Format.sends[u].kinds :
         f \in Format.late /\ Format.sends[u].kinds[f] # "null"
  BY <1>1 DEF FitsArm
<1>4. \A u \in Shapes : Kind(u, t) = u
  BY <1>1, <1>3 DEF Kind
<1>5. s \in Shapes
  <2>1. s \in Kinds(t)
    BY <1>1, <1>2 DEF SlotsTyped, Takes
  <2>2. PICK u \in Shapes : s = Kind(u, t)
    BY <2>1 DEF Kinds
  <2> QED BY <1>4, <2>2
<1>6. /\ a.needs \subseteq w.must /\ w.must \subseteq a.needs \cup Format.defaults
      /\ a.needs \cup a.keeps = w.must \cup w.may
      /\ t \notin w.must \cup w.may
      /\ a.needs \cap Format.nullable = {}
  BY <1>1, <1>5 DEF FitsArm
<1>7. Selected = s /\ ArmOf(Selected) = a
  BY <1>1 DEF Selected, ArmOf
<1>8. /\ a.needs \subseteq DOMAIN slots /\ a.bars \cap DOMAIN slots = {}
      /\ LateFieldsFit(s)
  BY <1>7 DEF Complete
<1>9. ASSUME NEW f \in DOMAIN slots, f # t, slots[f] # "null" \/ f \notin Format.nullable
      PROVE  slots[f] = Kind(s, f) /\ slots[f] # "null"
  <2>1. Kind(s, f) # "null"
    BY <1>3, <1>5, <1>9 DEF Kind
  <2>2. CASE f \in Format.late
    BY <1>8, <1>9, <2>1, <2>2 DEF LateFieldsFit
  <2>3. CASE f \notin Format.late
    <3>1. f \in Known /\ Takes(f, slots[f])
      BY DEF SlotsTyped
    <3>2. slots[f] \in Kinds(f)
      BY <1>9, <2>3, <3>1 DEF Takes
    <3>3. PICK u \in Shapes : slots[f] = Kind(u, f)
      BY <3>2 DEF Kinds
    <3>4. Kind(u, f) = "good" /\ Kind(s, f) = "good"
      BY <1>3, <1>5, <1>9, <2>3 DEF Kind
    <3> QED BY <3>3, <3>4
  <2> QED BY <2>2, <2>3
<1>10. /\ DOMAIN Returned = NonNull \cap ({t} \cup a.needs \cup a.keeps)
       /\ \A f \in DOMAIN Returned : Returned[f] = slots[f]
  BY <1>2, <1>7 DEF Returned
<1>11. t \in NonNull
  BY <1>1, <1>2, <1>5 DEF NonNull
<1> HIDE DEF t, a, w, s
<1>12. Encodes(s, Returned)
  <2>1. Writes(s) = w.must \cup w.may \cup {t}
    BY <1>2 DEF Writes, w
  <2>2. DOMAIN Returned \subseteq Writes(s)
    BY <1>6, <1>10, <2>1
  <2>3. ASSUME NEW f \in DOMAIN Returned PROVE Returned[f] = Kind(s, f)
    <3>1. f \in DOMAIN slots /\ slots[f] # "null" /\ Returned[f] = slots[f]
      BY <1>10 DEF NonNull
    <3>2. CASE f = t
      BY <1>4, <1>5, <3>1, <3>2 DEF s
    <3> QED BY <1>9, <3>1, <3>2
  <2>4. ASSUME NEW f \in w.must, f \notin Format.defaults PROVE f \in DOMAIN Returned
    <3>1. f \in a.needs /\ f # t /\ f \notin Format.nullable /\ f \in DOMAIN slots
      BY <1>6, <1>8, <2>4
    <3> QED BY <1>9, <1>10, <3>1 DEF NonNull
  <2>5. t \in DOMAIN Returned
    BY <1>10, <1>11
  <2> QED BY <1>2, <2>2, <2>3, <2>4, <2>5 DEF Encodes, w
<1>13. ASSUME Shut(Format), NEW f \in NonNull PROVE f \in DOMAIN Returned
  <2>1. f \in DOMAIN slots /\ f \in Known
    BY DEF NonNull, SlotsTyped
  <2>2. PICK u \in Shapes : f \in Writes(u)
    BY <2>1 DEF Known
  <2>3. f = t \/ f \in Format.sends[u].must \cup Format.sends[u].may
    BY <1>2, <2>2 DEF Writes
  <2>4. f \in Format.sends[u].must \cup Format.sends[u].may
           => f \in a.needs \cup a.keeps \cup a.bars
    BY <1>5, <1>13, <2>2 DEF Shut, Shapes, a
  <2> QED BY <1>8, <1>10, <1>13, <2>1, <2>3, <2>4
<1>14. DOMAIN Returned \subseteq NonNull
  BY <1>10
<1> QED BY <1>5, <1>12, <1>13, <1>14

\* A format without a tag: its variants have the same fields.
Plain(must, may) ==
    /\ Format.single = FALSE /\ Format.tag = NoTag /\ Format.late = {}
    /\ Format.nullable = may /\ Format.defaults = {}
    /\ NoTag \notin must \cup may /\ must \cap may = {}
    /\ Format.arms[NoTag].needs = must /\ Format.arms[NoTag].keeps = may
    /\ Format.arms[NoTag].bars = {}
    /\ \A s \in Shapes : Format.sends[s].must = must /\ Format.sends[s].may = may
    /\ \A s \in Shapes : \A f : Kind(s, f) # "null"

LEMMA PlainWhole ==
    ASSUME NEW must, NEW may, Plain(must, may), shape \in Shapes, AsWritten, todo = {}, Sound
    PROVE  Complete /\ Encodes(shape, Returned)
<1>1. TagField = {} /\ Selected = NoTag /\ ArmOf(Selected) = Format.arms[NoTag]
  BY DEF Plain, TagField, Selected, ArmOf
<1>2. Writes(shape) = must \cup may
  BY <1>1 DEF Plain, Writes
<1>3. /\ DOMAIN slots \subseteq must \cup may /\ must \subseteq DOMAIN slots
      /\ \A f \in DOMAIN slots : slots[f] = Kind(shape, f)
  BY <1>1, <1>2 DEF AsWritten, Plain
<1>4. LateFieldsFit(Selected)
  BY DEF LateFieldsFit, Plain
<1>5. Complete
  BY <1>1, <1>3, <1>4 DEF Complete, Plain
<1>6. NonNull = DOMAIN slots
  BY <1>3 DEF NonNull, Plain
<1>7. DOMAIN Returned = DOMAIN slots /\ \A f \in DOMAIN slots : Returned[f] = slots[f]
  <2>1. NonNull \cap (TagField \cup ArmOf(Selected).needs \cup ArmOf(Selected).keeps)
           = DOMAIN slots
    BY <1>1, <1>3, <1>6 DEF Plain
  <2>2. Returned = [f \in DOMAIN slots |-> slots[f]]
    BY <2>1 DEF Returned
  <2> QED BY <2>2
<1>8. Encodes(shape, Returned)
  BY <1>1, <1>2, <1>3, <1>7 DEF Encodes, Plain
<1> QED BY <1>5, <1>8

LEMMA PlainTaken ==
    ASSUME NEW must, NEW may, Plain(must, may), SlotsTyped, Complete, NEW s \in Shapes,
           \A f \in DOMAIN slots : slots[f] = Kind(s, f) \/ slots[f] = "null"
    PROVE  Encodes(s, Returned) /\ DOMAIN Returned = NonNull
<1>1. TagField = {} /\ Selected = NoTag /\ ArmOf(Selected) = Format.arms[NoTag]
  BY DEF Plain, TagField, Selected, ArmOf
<1>2. \A u \in Shapes : Writes(u) = must \cup may
  BY <1>1 DEF Plain, Writes
<1>3. must \subseteq DOMAIN slots
  BY <1>1 DEF Complete, Plain
<1>4. DOMAIN slots \subseteq must \cup may
  BY <1>2 DEF SlotsTyped, Known
<1>5. ASSUME NEW f \in must PROVE f \in NonNull
  <2>1. f \in DOMAIN slots /\ f \notin Format.nullable /\ Format.late = {}
    BY <1>3 DEF Plain
  <2>2. slots[f] \in Kinds(f)
    BY <2>1 DEF SlotsTyped, Takes
  <2>3. slots[f] # "null"
    BY <2>2 DEF Kinds, Plain
  <2> QED BY <2>1, <2>3 DEF NonNull
<1>6. NonNull \subseteq must \cup may
  BY <1>4 DEF NonNull
<1>7. DOMAIN Returned = NonNull /\ \A f \in NonNull : Returned[f] = slots[f]
  <2>1. NonNull \cap (TagField \cup ArmOf(Selected).needs \cup ArmOf(Selected).keeps) = NonNull
    BY <1>1, <1>6 DEF Plain
  <2>2. Returned = [f \in NonNull |-> slots[f]]
    BY <2>1 DEF Returned
  <2> QED BY <2>2
<1>8. \A f \in NonNull : slots[f] = Kind(s, f)
  BY DEF NonNull
<1>9. Encodes(s, Returned)
  BY <1>1, <1>2, <1>5, <1>6, <1>7, <1>8 DEF Encodes, Plain
<1> QED BY <1>7, <1>9

\* A format that is one of several fields.
Choice(names) == Format = ExactlyOne(names) /\ NoTag \notin names

LEMMA ChoiceIs ==
    ASSUME NEW names, Choice(names)
    PROVE  /\ Format.single = TRUE /\ Format.tag = NoTag /\ Format.late = {}
           /\ Format.nullable = {} /\ Format.defaults = {}
           /\ TagField = {} /\ Shapes = names /\ NoTag \notin Shapes
           /\ \A s \in Shapes : Format.sends[s].must = {s} /\ Writes(s) = {s}
           /\ \A s \in Shapes : \A f : f # NoTag => Kind(s, f) = "good"
<1>1. /\ Format.single = TRUE /\ Format.tag = NoTag /\ Format.late = {}
      /\ Format.nullable = {} /\ Format.defaults = {}
      /\ Format.sends = [f \in names |-> Sends({f}, {})]
  BY DEF Choice, ExactlyOne, Tagged, Object
<1>2. TagField = {} /\ Shapes = names /\ NoTag \notin Shapes
  BY <1>1 DEF TagField, Shapes, Choice
<1>3. \A s \in Shapes : /\ Format.sends[s].must = {s} /\ Format.sends[s].may = {}
                        /\ Format.sends[s].kinds = <<>>
  BY <1>1, <1>2 DEF Sends
<1>4. \A s \in Shapes : DOMAIN Format.sends[s].kinds = {}
  BY <1>3
<1>5. \A s \in Shapes : Writes(s) = {s}
  BY <1>2, <1>3 DEF Writes
<1>6. \A s \in Shapes : \A f : f # NoTag => Kind(s, f) = "good"
  BY <1>1, <1>4 DEF Kind
<1> QED BY <1>1, <1>2, <1>3, <1>5, <1>6

LEMMA ChoiceReturns ==
    ASSUME NEW names, Choice(names), NEW s \in Shapes, DOMAIN slots = {s}, slots[s] = "good"
    PROVE  /\ Selected = s /\ ArmOf(Selected).needs = {s} /\ ArmOf(Selected).bars = {}
           /\ NonNull = {s} /\ DOMAIN Returned = {s} /\ Encodes(s, Returned)
<1>1. Selected = s
  BY ChoiceIs DEF Selected
<1>2. ArmOf(Selected).needs = {s} /\ ArmOf(Selected).keeps = {} /\ ArmOf(Selected).bars = {}
  BY <1>1, ChoiceIs DEF ArmOf, Arm
<1>3. NonNull = {s}
  BY DEF NonNull
<1>4. DOMAIN Returned = {s} /\ Returned[s] = "good"
  <2>1. NonNull \cap (TagField \cup ArmOf(Selected).needs \cup ArmOf(Selected).keeps) = {s}
    BY <1>2, <1>3
  <2>2. Returned = [f \in {s} |-> slots[f]]
    BY <2>1 DEF Returned
  <2> QED BY <2>2
<1>5. s # NoTag
  BY ChoiceIs
<1>6. /\ Format.sends[s].must = {s} /\ TagField = {} /\ Writes(s) = {s} /\ Format.defaults = {}
      /\ Kind(s, s) = "good"
  BY <1>5, ChoiceIs
<1>7. Encodes(s, Returned)
  BY <1>4, <1>6 DEF Encodes
<1> QED BY <1>1, <1>2, <1>3, <1>4, <1>7

LEMMA ChoiceWhole ==
    ASSUME NEW names, Choice(names), shape \in Shapes, AsWritten, todo = {}, Sound
    PROVE  Complete /\ Encodes(shape, Returned)
<1>1. shape # NoTag
  BY ChoiceIs
<1>2. /\ Format.sends[shape].must = {shape} /\ Writes(shape) = {shape}
      /\ Kind(shape, shape) = "good" /\ TagField = {} /\ Format.late = {}
  BY <1>1, ChoiceIs
<1>3. DOMAIN slots = {shape} /\ slots[shape] = "good"
  BY <1>2 DEF AsWritten
<1>4. slots # <<>>
  BY <1>3
<1>5. /\ Selected = shape /\ ArmOf(Selected).needs = {shape} /\ ArmOf(Selected).bars = {}
      /\ Encodes(shape, Returned)
  BY <1>3, ChoiceReturns
<1>6. LateFieldsFit(Selected)
  BY <1>2 DEF LateFieldsFit
<1> QED BY <1>2, <1>3, <1>4, <1>5, <1>6 DEF Complete

LEMMA ChoiceTaken ==
    ASSUME NEW names, Choice(names), SlotsTyped, Complete
    PROVE  (\E s \in Shapes : Encodes(s, Returned)) /\ DOMAIN Returned = NonNull
<1>1. /\ Format.single = TRUE /\ Format.late = {} /\ Format.nullable = {}
      /\ \A s \in Shapes : Writes(s) = {s}
      /\ \A s \in Shapes : \A f : f # NoTag => Kind(s, f) = "good"
  BY ChoiceIs
<1>2. PICK s : DOMAIN slots = {s}
  BY <1>1 DEF SlotsTyped, Complete
<1>3. s \in Known /\ slots[s] \in Kinds(s)
  BY <1>1, <1>2 DEF SlotsTyped, Takes
<1>4. s \in Shapes /\ s # NoTag
  <2>1. PICK u \in Shapes : s \in Writes(u)
    BY <1>3 DEF Known
  <2>2. s \in Shapes
    BY <1>1, <2>1
  <2> QED BY <2>2, ChoiceIs
<1>5. slots[s] = "good"
  BY <1>1, <1>3, <1>4 DEF Kinds
<1> QED BY <1>2, <1>4, <1>5, ChoiceReturns

\* The four errors.
LEMMA ErrorIs ==
    ASSUME NEW must, NEW may, Format = ErrorObject(must, may), must \cap may = {},
           {"code", "message"} \cap may = {}, NoTag \notin must \cup may, "code" \in must
    PROVE  /\ Plain(must, may) /\ Shapes = Codes
           /\ \A c \in Codes :
                 /\ Kind(c, "code") = c
                 /\ "message" \in must => Kind(c, "message") = canonical_message(c)
                 /\ \A f : f \notin {"code", "message", NoTag} => Kind(c, f) = "good"
<1> DEFINE own == (must \cup may) \cap {"code", "message"}
<1>1. /\ Format.single = FALSE /\ Format.tag = NoTag /\ Format.late = {}
      /\ Format.nullable = may /\ Format.defaults = {}
      /\ Format.arms[NoTag].needs = must /\ Format.arms[NoTag].keeps = may
      /\ Format.arms[NoTag].bars = {}
  BY DEF ErrorObject, Object, Arm
<1>2. Format.sends = [c \in Codes |-> SendsKinds(must, may, [f \in own |-> CodeKinds[c][f]])]
  BY DEF ErrorObject, Object
<1> HIDE DEF own
<1>3. Shapes = Codes
  BY <1>2 DEF Shapes
<1>4. ASSUME NEW c \in Codes
      PROVE  /\ Format.sends[c].must = must /\ Format.sends[c].may = may
             /\ DOMAIN Format.sends[c].kinds = own
             /\ \A f \in own : Format.sends[c].kinds[f] = CodeKinds[c][f]
  <2>1. Format.sends[c] = SendsKinds(must, may, [f \in own |-> CodeKinds[c][f]])
    BY <1>2
  <2>2. Format.sends[c].kinds = [f \in own |-> CodeKinds[c][f]]
    BY <2>1 DEF SendsKinds
  <2> QED BY <2>1, <2>2 DEF SendsKinds
<1>5. "code" \in own /\ ("message" \in own <=> "message" \in must) /\ own \subseteq {"code", "message"}
  BY DEF own
<1>6. ASSUME NEW c \in Codes
      PROVE  CodeKinds[c]["code"] = c /\ CodeKinds[c]["message"] = canonical_message(c)
  BY DEF CodeKinds
<1>7. ASSUME NEW c \in Codes
      PROVE  /\ Kind(c, "code") = c
             /\ "message" \in must => Kind(c, "message") = canonical_message(c)
             /\ \A f : f \notin {"code", "message", NoTag} => Kind(c, f) = "good"
             /\ \A f : Kind(c, f) \in {c, canonical_message(c), "good"}
  <2>1. \A f \in own : Kind(c, f) = CodeKinds[c][f]
    BY <1>4 DEF Kind
  <2>2. \A f : f \notin own /\ f # NoTag => Kind(c, f) = "good"
    BY <1>1, <1>4 DEF Kind
  <2>3. NoTag \notin own /\ Kind(c, NoTag) = c
    <3>1. NoTag \notin own
      BY <1>5 DEF NoTag
    <3> QED BY <1>1, <1>4, <3>1 DEF Kind
  <2>4. Kind(c, "code") = c /\ ("message" \in own => Kind(c, "message") = canonical_message(c))
    BY <1>5, <1>6, <2>1
  <2>5. ASSUME NEW f PROVE Kind(c, f) \in {c, canonical_message(c), "good"}
    BY <1>5, <2>2, <2>3, <2>4
  <2> QED BY <1>5, <2>2, <2>4, <2>5
<1>8. ASSUME NEW c \in Codes PROVE c # "null" /\ canonical_message(c) # "null"
  BY DEF Codes, canonical_message
<1>9. \A c \in Codes : \A f : Kind(c, f) # "null"
  BY <1>7, <1>8
<1>10. Plain(must, may)
  BY <1>1, <1>3, <1>4, <1>9 DEF Plain
<1> QED BY <1>3, <1>7, <1>10

LEMMA ErrorWhole ==
    ASSUME NEW must, NEW may, Format = ErrorObject(must, may), must \cap may = {},
           {"code", "message"} \cap may = {}, NoTag \notin must \cup may, "code" \in must,
           type # "ScreenshotAsset", type \in {"ItemError", "ToolError"} => "message" \in must,
           shape \in Shapes, AsWritten, todo = {}
    PROVE  Complete /\ Encodes(shape, Returned)
<1>1. Plain(must, may) /\ shape \in Codes /\ Kind(shape, "code") = shape
      /\ ("message" \in must => Kind(shape, "message") = canonical_message(shape))
  BY ErrorIs
<1>2. must \subseteq DOMAIN slots /\ \A f \in DOMAIN slots : slots[f] = Kind(shape, f)
  BY <1>1 DEF AsWritten, Plain
<1>3. Sound
  <2>1. CASE type \in {"ItemError", "ToolError"}
    <3>1. slots["message"] = canonical_message(slots["code"])
      BY <1>1, <1>2, <2>1
    <3> QED BY <2>1, <3>1 DEF Sound
  <2>2. CASE type \notin {"ItemError", "ToolError"}
    BY <2>2 DEF Sound
  <2> QED BY <2>1, <2>2
<1> QED BY <1>1, <1>3, PlainWhole

LEMMA ErrorTaken ==
    ASSUME NEW must, NEW may, Format = ErrorObject(must, may), must \cap may = {},
           {"code", "message"} \cap may = {}, NoTag \notin must \cup may, "code" \in must,
           type # "ScreenshotAsset", "message" \in must => type \in {"ItemError", "ToolError"},
           SlotsTyped, Complete
    PROVE  (\E s \in Shapes : Encodes(s, Returned)) /\ DOMAIN Returned = NonNull
<1> DEFINE s == slots["code"]
<1>1. /\ Plain(must, may) /\ Shapes = Codes
      /\ \A c \in Codes : /\ Kind(c, "code") = c
                          /\ "message" \in must => Kind(c, "message") = canonical_message(c)
                          /\ \A f : f \notin {"code", "message", NoTag} => Kind(c, f) = "good"
  BY ErrorIs
<1>2. TagField = {} /\ Selected = NoTag /\ ArmOf(Selected) = Format.arms[NoTag]
  BY <1>1 DEF Plain, TagField, Selected, ArmOf
<1>3. must \subseteq DOMAIN slots /\ Sound
  BY <1>1, <1>2 DEF Complete, Plain
<1>4. DOMAIN slots \subseteq must \cup may
  BY <1>1, <1>2 DEF SlotsTyped, Known, Writes, Plain
<1>5. \A f \in DOMAIN slots : slots[f] \in Kinds(f) \/ (slots[f] = "null" /\ f \in may)
  BY <1>1 DEF SlotsTyped, Takes, Plain
<1>6. s \in Codes
  <2>1. s \in Kinds("code")
    BY <1>3, <1>5
  <2> QED BY <1>1, <2>1 DEF Kinds
<1>7. ASSUME NEW f \in DOMAIN slots PROVE slots[f] = Kind(s, f) \/ slots[f] = "null"
  <2>1. CASE f = "code"
    BY <1>1, <1>6, <2>1
  <2>2. CASE f = "message"
    <3>1. type \in {"ItemError", "ToolError"} /\ "message" \in must
      BY <1>4, <2>2
    <3>2. slots["message"] = canonical_message(s)
      BY <1>3, <3>1 DEF Sound
    <3> QED BY <1>1, <1>6, <2>2, <3>1, <3>2
  <2>3. CASE f \notin {"code", "message"}
    <3>1. f # NoTag
      BY <1>4
    <3>2. slots[f] = "null" \/ \E c \in Codes : slots[f] = Kind(c, f)
      BY <1>1, <1>5 DEF Kinds
    <3> HIDE DEF s
    <3> QED BY <1>1, <1>6, <2>3, <3>1, <3>2
  <2> QED BY <2>1, <2>2, <2>3
<1> HIDE DEF s
<1>8. Encodes(s, Returned) /\ DOMAIN Returned = NonNull
  BY <1>1, <1>6, <1>7, PlainTaken
<1> QED BY <1>1, <1>6, <1>8

\* A node has one variant, and no tag.
NodeMust == {"summary", "data", "children", "childrenTruncated"}
NodeMay == {"childrenTruncation"}

LEMMA NodeIs ==
    ASSUME Format = DesignNode
    PROVE  Plain(NodeMust, NodeMay) /\ Shapes = {"node"}
<1>1. /\ Format.single = FALSE /\ Format.tag = NoTag /\ Format.late = {}
      /\ Format.nullable = NodeMay /\ Format.defaults = {}
      /\ Format.arms[NoTag].needs = NodeMust /\ Format.arms[NoTag].keeps = NodeMay
      /\ Format.arms[NoTag].bars = {}
  BY DEF DesignNode, Object, Arm, NodeMust, NodeMay
<1>2. Format.sends = [node |-> Sends(NodeMust, NodeMay)]
  BY DEF DesignNode, Object, NodeMust, NodeMay
<1>3. Shapes = {"node"}
  BY <1>2 DEF Shapes
<1>4. /\ Format.sends["node"].must = NodeMust /\ Format.sends["node"].may = NodeMay
      /\ Format.sends["node"].kinds = <<>>
  BY <1>2 DEF Sends
<1>5. DOMAIN Format.sends["node"].kinds = {}
  BY <1>4
<1>6. \A f : Kind("node", f) # "null"
  BY <1>5 DEF Kind
<1>7. NoTag \notin NodeMust \cup NodeMay /\ NodeMust \cap NodeMay = {}
  BY DEF NodeMust, NodeMay, NoTag
<1>8. Plain(NodeMust, NodeMay)
  BY <1>1, <1>3, <1>4, <1>6, <1>7 DEF Plain
<1> QED BY <1>3, <1>8

LEMMA NodeTaken ==
    ASSUME Format = DesignNode, SlotsTyped, Complete
    PROVE  (\E s \in Shapes : Encodes(s, Returned)) /\ DOMAIN Returned = NonNull
<1>1. Plain(NodeMust, NodeMay) /\ Shapes = {"node"}
  BY NodeIs
<1>2. ASSUME NEW f \in DOMAIN slots PROVE slots[f] = Kind("node", f) \/ slots[f] = "null"
  BY <1>1 DEF SlotsTyped, Takes, Kinds, Plain
<1>3. Encodes("node", Returned) /\ DOMAIN Returned = NonNull
  BY <1>1, <1>2, PlainTaken
<1> QED BY <1>1, <1>3

\* An asset of a screenshot: six kinds of raster, two of SVG.
RasterShapes == {"smallPng", "widePng", "tallPng", "smallJpeg", "wideJpeg", "tallJpeg"}
SvgShapes == {"safeSvg", "unsafeSvg"}
SvgFields == {"nodeId", "source", "safe"}

LEMMA AssetIs ==
    ASSUME Format = ScreenshotAsset
    PROVE  /\ Format.single = FALSE /\ Format.tag = "format" /\ Format.late = {}
           /\ Format.nullable = {} /\ Format.defaults = {} /\ TagField = {"format"}
           /\ Shapes = RasterShapes \cup SvgShapes
           /\ Format.sends["smallPng"]  = RasterAsset("png", "short", "short")
           /\ Format.sends["widePng"]   = RasterAsset("png", "long", "short")
           /\ Format.sends["tallPng"]   = RasterAsset("png", "short", "long")
           /\ Format.sends["smallJpeg"] = RasterAsset("jpeg", "short", "short")
           /\ Format.sends["wideJpeg"]  = RasterAsset("jpeg", "long", "short")
           /\ Format.sends["tallJpeg"]  = RasterAsset("jpeg", "short", "long")
           /\ Format.sends["safeSvg"]   = SvgAsset("true", {})
           /\ Format.sends["unsafeSvg"] = SvgAsset("false", {"rejection"})
           /\ Format.arms["svg"] = Arm(SvgFields, {"rejection"}, {"dataBase64", "width", "height"})
           /\ \A r \in Rasters :
                 Format.arms[r] = Arm(RasterFields, {}, {"source", "safe", "rejection"})
<1>1. /\ Format.single = FALSE /\ Format.tag = "format" /\ Format.late = {}
      /\ Format.nullable = {} /\ Format.defaults = {}
  BY DEF ScreenshotAsset, Tagged, Object
<1>2. TagField = {"format"}
  BY <1>1 DEF TagField, NoTag
<1>3. /\ Shapes = RasterShapes \cup SvgShapes
      /\ Format.sends["smallPng"]  = RasterAsset("png", "short", "short")
      /\ Format.sends["widePng"]   = RasterAsset("png", "long", "short")
      /\ Format.sends["tallPng"]   = RasterAsset("png", "short", "long")
      /\ Format.sends["smallJpeg"] = RasterAsset("jpeg", "short", "short")
      /\ Format.sends["wideJpeg"]  = RasterAsset("jpeg", "long", "short")
      /\ Format.sends["tallJpeg"]  = RasterAsset("jpeg", "short", "long")
      /\ Format.sends["safeSvg"]   = SvgAsset("true", {})
      /\ Format.sends["unsafeSvg"] = SvgAsset("false", {"rejection"})
  BY DEF ScreenshotAsset, Tagged, Object, Shapes, RasterShapes, SvgShapes
<1>4. Format.arms["svg"] = Arm(SvgFields, {"rejection"}, {"dataBase64", "width", "height"})
  BY DEF ScreenshotAsset, Tagged, Object, Merge, SvgFields
<1>5. \A r \in Rasters : Format.arms[r] = Arm(RasterFields, {}, {"source", "safe", "rejection"})
  BY DEF ScreenshotAsset, Tagged, Object, Merge, Rasters
<1> QED BY <1>1, <1>2, <1>3, <1>4, <1>5

\* Which kinds the fields of a raster have.
LEMMA RasterIs ==
    ASSUME Format = ScreenshotAsset, NEW s \in Shapes, NEW r, NEW x, NEW y,
           Format.sends[s] = RasterAsset(r, x, y)
    PROVE  /\ Format.sends[s].must = RasterFields /\ Format.sends[s].may = {}
           /\ Writes(s) = RasterFields \cup {"format"}
           /\ Kind(s, "format") = r /\ Kind(s, "width") = x /\ Kind(s, "height") = y
           /\ \A f : f \notin {"format", "width", "height"} => Kind(s, f) = "good"
<1> DEFINE k == [format |-> r, width |-> x, height |-> y]
<1>1. /\ Format.sends[s].must = RasterFields /\ Format.sends[s].may = {}
      /\ Format.sends[s].kinds = k
  BY DEF RasterAsset, SendsKinds
<1>2. /\ DOMAIN k = {"format", "width", "height"}
      /\ k["format"] = r /\ k["width"] = x /\ k["height"] = y
  OBVIOUS
<1> HIDE DEF k
<1>3. Format.tag = "format" /\ TagField = {"format"}
  BY AssetIs
<1>4. Writes(s) = RasterFields \cup {"format"}
  BY <1>1, <1>3 DEF Writes
<1>5. /\ Kind(s, "format") = r /\ Kind(s, "width") = x /\ Kind(s, "height") = y
      /\ \A f : f \notin {"format", "width", "height"} => Kind(s, f) = "good"
  BY <1>1, <1>2, <1>3 DEF Kind
<1> QED BY <1>1, <1>4, <1>5

LEMMA SvgIs ==
    ASSUME Format = ScreenshotAsset, NEW s \in Shapes, NEW safe, NEW must,
           Format.sends[s] = SvgAsset(safe, must)
    PROVE  /\ Format.sends[s].must = SvgFields \cup must /\ Format.sends[s].may = {}
           /\ Writes(s) = SvgFields \cup must \cup {"format"}
           /\ Kind(s, "format") = "svg" /\ Kind(s, "safe") = safe
           /\ \A f : f \notin {"format", "safe"} => Kind(s, f) = "good"
<1> DEFINE k == [format |-> "svg", safe |-> safe]
<1>1. /\ Format.sends[s].must = SvgFields \cup must /\ Format.sends[s].may = {}
      /\ Format.sends[s].kinds = k
  BY DEF SvgAsset, SendsKinds, SvgFields
<1>2. DOMAIN k = {"format", "safe"} /\ k["format"] = "svg" /\ k["safe"] = safe
  OBVIOUS
<1> HIDE DEF k
<1>3. Format.tag = "format" /\ TagField = {"format"}
  BY AssetIs
<1>4. Writes(s) = SvgFields \cup must \cup {"format"}
  BY <1>1, <1>3 DEF Writes
<1>5. /\ Kind(s, "format") = "svg" /\ Kind(s, "safe") = safe
      /\ \A f : f \notin {"format", "safe"} => Kind(s, f) = "good"
  BY <1>1, <1>2, <1>3 DEF Kind
<1> QED BY <1>1, <1>4, <1>5

\* The shapes of an asset, one by one.
AssetShape(s, r, x, y) ==
    /\ s \in Shapes /\ Format.sends[s].must = RasterFields /\ Format.sends[s].may = {}
    /\ Writes(s) = RasterFields \cup {"format"}
    /\ Kind(s, "format") = r /\ Kind(s, "width") = x /\ Kind(s, "height") = y
    /\ \A f : f \notin {"format", "width", "height"} => Kind(s, f) = "good"

LEMMA RasterShapesAre ==
    ASSUME Format = ScreenshotAsset
    PROVE  /\ AssetShape("smallPng", "png", "short", "short")
           /\ AssetShape("widePng", "png", "long", "short")
           /\ AssetShape("tallPng", "png", "short", "long")
           /\ AssetShape("smallJpeg", "jpeg", "short", "short")
           /\ AssetShape("wideJpeg", "jpeg", "long", "short")
           /\ AssetShape("tallJpeg", "jpeg", "short", "long")
<1>1. RasterShapes \subseteq Shapes
  BY AssetIs
<1>2. AssetShape("smallPng", "png", "short", "short")
  <2>1. "smallPng" \in Shapes /\ Format.sends["smallPng"] = RasterAsset("png", "short", "short")
    BY <1>1, AssetIs DEF RasterShapes
  <2> QED BY <2>1, RasterIs DEF AssetShape
<1>3. AssetShape("widePng", "png", "long", "short")
  <2>1. "widePng" \in Shapes /\ Format.sends["widePng"] = RasterAsset("png", "long", "short")
    BY <1>1, AssetIs DEF RasterShapes
  <2> QED BY <2>1, RasterIs DEF AssetShape
<1>4. AssetShape("tallPng", "png", "short", "long")
  <2>1. "tallPng" \in Shapes /\ Format.sends["tallPng"] = RasterAsset("png", "short", "long")
    BY <1>1, AssetIs DEF RasterShapes
  <2> QED BY <2>1, RasterIs DEF AssetShape
<1>5. AssetShape("smallJpeg", "jpeg", "short", "short")
  <2>1. "smallJpeg" \in Shapes /\ Format.sends["smallJpeg"] = RasterAsset("jpeg", "short", "short")
    BY <1>1, AssetIs DEF RasterShapes
  <2> QED BY <2>1, RasterIs DEF AssetShape
<1>6. AssetShape("wideJpeg", "jpeg", "long", "short")
  <2>1. "wideJpeg" \in Shapes /\ Format.sends["wideJpeg"] = RasterAsset("jpeg", "long", "short")
    BY <1>1, AssetIs DEF RasterShapes
  <2> QED BY <2>1, RasterIs DEF AssetShape
<1>7. AssetShape("tallJpeg", "jpeg", "short", "long")
  <2>1. "tallJpeg" \in Shapes /\ Format.sends["tallJpeg"] = RasterAsset("jpeg", "short", "long")
    BY <1>1, AssetIs DEF RasterShapes
  <2> QED BY <2>1, RasterIs DEF AssetShape
<1> QED BY <1>2, <1>3, <1>4, <1>5, <1>6, <1>7

LEMMA SvgShapesAre ==
    ASSUME Format = ScreenshotAsset, NEW s \in SvgShapes
    PROVE  /\ s \in Shapes /\ Format.sends[s].may = {}
           /\ Format.sends[s].must = SvgFields \cup (IF s = "safeSvg" THEN {} ELSE {"rejection"})
           /\ Writes(s) = SvgFields \cup (IF s = "safeSvg" THEN {} ELSE {"rejection"}) \cup {"format"}
           /\ Kind(s, "format") = "svg"
           /\ Kind(s, "safe") = IF s = "safeSvg" THEN "true" ELSE "false"
           /\ \A f : f \notin {"format", "safe"} => Kind(s, f) = "good"
<1>1. s \in Shapes
  BY AssetIs
<1>2. CASE s = "safeSvg"
  <2>1. Format.sends[s] = SvgAsset("true", {})
    BY <1>2, AssetIs
  <2>2. /\ Format.sends[s].must = SvgFields \cup {} /\ Format.sends[s].may = {}
        /\ Writes(s) = SvgFields \cup {} \cup {"format"}
        /\ Kind(s, "format") = "svg" /\ Kind(s, "safe") = "true"
        /\ \A f : f \notin {"format", "safe"} => Kind(s, f) = "good"
    BY <1>1, <2>1, SvgIs
  <2> QED BY <1>1, <1>2, <2>2
<1>3. CASE s = "unsafeSvg"
  <2>1. Format.sends[s] = SvgAsset("false", {"rejection"}) /\ s # "safeSvg"
    BY <1>3, AssetIs
  <2>2. /\ Format.sends[s].must = SvgFields \cup {"rejection"} /\ Format.sends[s].may = {}
        /\ Writes(s) = SvgFields \cup {"rejection"} \cup {"format"}
        /\ Kind(s, "format") = "svg" /\ Kind(s, "safe") = "false"
        /\ \A f : f \notin {"format", "safe"} => Kind(s, f) = "good"
    BY <1>1, <2>1, SvgIs
  <2> QED BY <1>1, <1>3, <2>1, <2>2
<1> QED BY <1>2, <1>3 DEF SvgShapes

LEMMA AssetWhole ==
    ASSUME Format = ScreenshotAsset, type = "ScreenshotAsset", shape \in Shapes, AsWritten, todo = {}
    PROVE  Complete /\ Encodes(shape, Returned)
<1>1. /\ Format.single = FALSE /\ Format.tag = "format" /\ Format.late = {}
      /\ Format.nullable = {} /\ Format.defaults = {} /\ TagField = {"format"}
      /\ Shapes = RasterShapes \cup SvgShapes
  BY AssetIs
<1>2. /\ DOMAIN slots \subseteq Writes(shape) /\ Format.sends[shape].must \cup {"format"} \subseteq DOMAIN slots
      /\ \A f \in DOMAIN slots : slots[f] = Kind(shape, f)
  BY <1>1 DEF AsWritten
<1>3. Selected = slots["format"] /\ ArmOf(Selected) = Format.arms[Selected]
  BY <1>1 DEF Selected, ArmOf, NoTag
<1>4. LateFieldsFit(Selected)
  BY <1>1 DEF LateFieldsFit
<1>5. SUFFICES /\ Sound
               /\ ArmOf(Selected).needs \subseteq DOMAIN slots
               /\ ArmOf(Selected).bars \cap DOMAIN slots = {}
               /\ DOMAIN slots \subseteq {"format"} \cup ArmOf(Selected).needs \cup ArmOf(Selected).keeps
               /\ \A f \in DOMAIN slots : slots[f] # "null"
  <2>1. Complete
    BY <1>1, <1>2, <1>4, <1>5 DEF Complete
  <2>2. NonNull = DOMAIN slots
    BY <1>5 DEF NonNull
  <2>3. NonNull \cap (TagField \cup ArmOf(Selected).needs \cup ArmOf(Selected).keeps) = DOMAIN slots
    BY <1>1, <1>5, <2>2
  <2>4. Returned = [f \in DOMAIN slots |-> slots[f]]
    BY <2>3 DEF Returned
  <2>5. DOMAIN Returned = DOMAIN slots /\ \A f \in DOMAIN slots : Returned[f] = slots[f]
    BY <2>4
  <2>6. Encodes(shape, Returned)
    BY <1>1, <1>2, <2>5 DEF Encodes
  <2> QED BY <2>1, <2>6
<1>6. CASE shape \in RasterShapes
  <2>1. PICK r \in Rasters, x \in {"short", "long"}, y \in {"short", "long"} :
           AssetShape(shape, r, x, y) /\ ~(x = "long" /\ y = "long")
    BY <1>6, RasterShapesAre DEF RasterShapes, Rasters
  <2>2. DOMAIN slots = RasterFields \cup {"format"}
    BY <1>2, <2>1 DEF AssetShape
  <2>3. slots["format"] = r /\ slots["width"] = x /\ slots["height"] = y /\ r # "svg"
    BY <1>2, <2>1, <2>2 DEF AssetShape, RasterFields, Rasters
  <2>4. Sound
    BY <2>1, <2>3 DEF Sound
  <2>5. /\ ArmOf(Selected).needs = RasterFields
        /\ ArmOf(Selected).bars = {"source", "safe", "rejection"}
    BY <1>3, <2>3, AssetIs DEF Arm
  <2>6. \A f \in DOMAIN slots : slots[f] \in {r, x, y, "good"}
    BY <1>2, <2>1 DEF AssetShape
  <2>7. \A f \in DOMAIN slots : slots[f] # "null"
    BY <2>6 DEF Rasters
  <2>8. {"source", "safe", "rejection"} \cap (RasterFields \cup {"format"}) = {}
    BY DEF RasterFields
  <2> QED BY <2>2, <2>4, <2>5, <2>7, <2>8
<1>7. CASE shape \in SvgShapes
  <2> DEFINE rejects == IF shape = "safeSvg" THEN {} ELSE {"rejection"}
             safe == IF shape = "safeSvg" THEN "true" ELSE "false"
  <2>1. /\ Format.sends[shape].must = SvgFields \cup rejects
        /\ Writes(shape) = SvgFields \cup rejects \cup {"format"}
        /\ Kind(shape, "format") = "svg" /\ Kind(shape, "safe") = safe
        /\ \A f : f \notin {"format", "safe"} => Kind(shape, f) = "good"
    BY <1>7, SvgShapesAre
  <2>2. /\ safe = "true" <=> "rejection" \notin rejects
        /\ safe # "null" /\ rejects \subseteq {"rejection"}
    OBVIOUS
  <2> HIDE DEF rejects, safe
  <2>3. DOMAIN slots = SvgFields \cup rejects \cup {"format"}
    BY <1>2, <2>1
  <2>4. slots["format"] = "svg" /\ slots["safe"] = safe
    BY <1>2, <2>1, <2>3 DEF SvgFields
  <2>5. "rejection" \in DOMAIN slots <=> "rejection" \in rejects
    BY <2>3 DEF SvgFields
  <2>6. Sound
    BY <2>2, <2>4, <2>5 DEF Sound
  <2>7. /\ ArmOf(Selected).needs = SvgFields /\ ArmOf(Selected).keeps = {"rejection"}
        /\ ArmOf(Selected).bars = {"dataBase64", "width", "height"}
    BY <1>3, <2>4, AssetIs DEF Arm
  <2>8. \A f \in DOMAIN slots : slots[f] # "null"
    BY <1>2, <2>1, <2>2
  <2>9. {"dataBase64", "width", "height"} \cap (SvgFields \cup rejects \cup {"format"}) = {}
    BY <2>2 DEF SvgFields
  <2> QED BY <2>2, <2>3, <2>6, <2>7, <2>8, <2>9
<1> QED BY <1>1, <1>6, <1>7

LEMMA AssetTaken ==
    ASSUME Format = ScreenshotAsset, type = "ScreenshotAsset", SlotsTyped, Complete
    PROVE  (\E s \in Shapes : Encodes(s, Returned)) /\ DOMAIN Returned = NonNull
<1>1. /\ Format.single = FALSE /\ Format.tag = "format" /\ Format.late = {}
      /\ Format.nullable = {} /\ Format.defaults = {} /\ TagField = {"format"}
      /\ Shapes = RasterShapes \cup SvgShapes
  BY AssetIs
<1>2. Selected = slots["format"] /\ ArmOf(Selected) = Format.arms[Selected]
  BY <1>1 DEF Selected, ArmOf, NoTag
<1>3. \A f \in DOMAIN slots : f \in Known /\ slots[f] \in Kinds(f)
  BY <1>1 DEF SlotsTyped, Takes
<1>4. /\ "format" \in DOMAIN slots /\ Sound
      /\ ArmOf(Selected).needs \subseteq DOMAIN slots
      /\ ArmOf(Selected).bars \cap DOMAIN slots = {}
  BY <1>1 DEF Complete
<1>5. ASSUME NEW s \in Shapes
      PROVE  \/ s \in SvgShapes
             \/ \E r \in Rasters, x \in {"short", "long"}, y \in {"short", "long"} :
                   AssetShape(s, r, x, y)
  BY <1>1, RasterShapesAre DEF RasterShapes, Rasters
<1>6. Known \subseteq RasterFields \cup SvgFields \cup {"format", "rejection"}
  <2> SUFFICES ASSUME NEW s \in Shapes
               PROVE  Writes(s) \subseteq RasterFields \cup SvgFields \cup {"format", "rejection"}
    BY DEF Known
  <2>1. CASE s \in SvgShapes
    BY <2>1, SvgShapesAre
  <2>2. CASE s \notin SvgShapes
    BY <1>5, <2>2 DEF AssetShape
  <2> QED BY <2>1, <2>2
<1>7. ASSUME NEW s \in Shapes
      PROVE  /\ Kind(s, "format") \in {"png", "jpeg", "svg"}
             /\ s \in SvgShapes => Kind(s, "safe") \in {"true", "false"}
             /\ "width" \in Writes(s) => Kind(s, "width") \in {"short", "long"}
             /\ "height" \in Writes(s) => Kind(s, "height") \in {"short", "long"}
             /\ "safe" \in Writes(s) => Kind(s, "safe") \in {"true", "false"}
             /\ \A f : f \notin {"format", "width", "height", "safe"} => Kind(s, f) = "good"
  <2>1. CASE s \in SvgShapes
    <3>1. /\ Kind(s, "format") = "svg" /\ Kind(s, "safe") \in {"true", "false"}
          /\ Writes(s) \subseteq SvgFields \cup {"rejection", "format"}
          /\ \A f : f \notin {"format", "safe"} => Kind(s, f) = "good"
      BY <2>1, SvgShapesAre
    <3> QED BY <3>1 DEF SvgFields
  <2>2. CASE s \notin SvgShapes
    <3>1. PICK r \in Rasters, x \in {"short", "long"}, y \in {"short", "long"} :
             AssetShape(s, r, x, y)
      BY <1>5, <2>2
    <3>2. /\ Kind(s, "format") = r /\ Kind(s, "width") = x /\ Kind(s, "height") = y
          /\ Writes(s) = RasterFields \cup {"format"}
          /\ \A f : f \notin {"format", "width", "height"} => Kind(s, f) = "good"
      BY <3>1 DEF AssetShape
    <3> QED BY <2>2, <3>2 DEF RasterFields, Rasters
  <2> QED BY <2>1, <2>2
<1>8. /\ slots["format"] \in {"png", "jpeg", "svg"}
      /\ "width" \in DOMAIN slots => slots["width"] \in {"short", "long"}
      /\ "height" \in DOMAIN slots => slots["height"] \in {"short", "long"}
      /\ "safe" \in DOMAIN slots => slots["safe"] \in {"true", "false"}
      /\ \A f \in DOMAIN slots :
            f \notin {"format", "width", "height", "safe"} => slots[f] = "good"
  BY <1>3, <1>4, <1>7 DEF Kinds
<1>9. \A f \in DOMAIN slots : slots[f] # "null"
  <2>1. \A f \in DOMAIN slots :
           slots[f] \in {"png", "jpeg", "svg", "short", "long", "true", "false", "good"}
    BY <1>8
  <2> QED BY <2>1
<1>10. NonNull = DOMAIN slots
  BY <1>9 DEF NonNull
<1>11. ASSUME NEW s \in Shapes, DOMAIN slots = Writes(s),
              DOMAIN slots \subseteq {"format"} \cup ArmOf(Selected).needs \cup ArmOf(Selected).keeps,
              \A f \in DOMAIN slots : slots[f] = Kind(s, f)
       PROVE  Encodes(s, Returned) /\ DOMAIN Returned = NonNull
  <2>1. NonNull \cap (TagField \cup ArmOf(Selected).needs \cup ArmOf(Selected).keeps) = DOMAIN slots
    BY <1>1, <1>10, <1>11
  <2>2. Returned = [f \in DOMAIN slots |-> slots[f]]
    BY <2>1 DEF Returned
  <2>3. DOMAIN Returned = DOMAIN slots /\ \A f \in DOMAIN slots : Returned[f] = slots[f]
    BY <2>2
  <2>4. Format.sends[s].must \cup TagField \subseteq Writes(s)
    BY DEF Writes
  <2>5. Encodes(s, Returned)
    BY <1>11, <2>3, <2>4 DEF Encodes
  <2> QED BY <1>10, <2>3, <2>5
<1>12. CASE slots["format"] \in Rasters
  <2>1. /\ ArmOf(Selected).needs = RasterFields
        /\ ArmOf(Selected).bars = {"source", "safe", "rejection"}
    BY <1>2, <1>12, AssetIs DEF Arm
  <2>2. DOMAIN slots = RasterFields \cup {"format"}
    <3>1. RasterFields \cup {"format"} \subseteq DOMAIN slots
      BY <1>4, <2>1
    <3>2. ASSUME NEW f \in DOMAIN slots PROVE f \in RasterFields \cup {"format"}
      <4>1. f \in RasterFields \cup SvgFields \cup {"format", "rejection"}
        BY <1>3, <1>6
      <4>2. f \notin {"source", "safe", "rejection"}
        BY <1>4, <2>1
      <4> QED BY <4>1, <4>2 DEF RasterFields, SvgFields
    <3> QED BY <3>1, <3>2
  <2>3. /\ slots["width"] \in {"short", "long"} /\ slots["height"] \in {"short", "long"}
        /\ ~(slots["width"] = "long" /\ slots["height"] = "long")
    <3>1. slots["format"] # "svg"
      BY <1>12 DEF Rasters
    <3>2. "width" \in DOMAIN slots /\ "height" \in DOMAIN slots
      BY <2>2 DEF RasterFields
    <3> QED BY <1>4, <1>8, <3>1, <3>2 DEF Sound
  <2>4. PICK s : AssetShape(s, slots["format"], slots["width"], slots["height"])
    BY <1>12, <2>3, RasterShapesAre DEF Rasters
  <2>5. \A f \in DOMAIN slots : slots[f] = Kind(s, f)
    <3>1. "safe" \notin DOMAIN slots
      BY <2>2 DEF RasterFields
    <3> QED BY <1>8, <2>4, <3>1 DEF AssetShape
  <2>6. s \in Shapes /\ DOMAIN slots = Writes(s)
    BY <2>2, <2>4 DEF AssetShape
  <2> QED BY <1>11, <2>1, <2>2, <2>5, <2>6
<1>13. CASE slots["format"] = "svg"
  <2> DEFINE rejects == IF slots["safe"] = "true" THEN {} ELSE {"rejection"}
             s == IF slots["safe"] = "true" THEN "safeSvg" ELSE "unsafeSvg"
  <2>1. /\ ArmOf(Selected).needs = SvgFields /\ ArmOf(Selected).keeps = {"rejection"}
        /\ ArmOf(Selected).bars = {"dataBase64", "width", "height"}
    BY <1>2, <1>13, AssetIs DEF Arm
  <2>2. SvgFields \cup {"format"} \subseteq DOMAIN slots /\ "safe" \in DOMAIN slots
    BY <1>4, <2>1 DEF SvgFields
  <2>3. slots["safe"] \in {"true", "false"} /\ (slots["safe"] = "true" <=> "rejection" \notin DOMAIN slots)
    BY <1>4, <1>8, <1>13, <2>2 DEF Sound
  <2>4. DOMAIN slots \subseteq SvgFields \cup {"format", "rejection"}
    <3> SUFFICES ASSUME NEW f \in DOMAIN slots PROVE f \in SvgFields \cup {"format", "rejection"}
      OBVIOUS
    <3>1. f \in RasterFields \cup SvgFields \cup {"format", "rejection"}
      BY <1>3, <1>6
    <3>2. f \notin {"dataBase64", "width", "height"}
      BY <1>4, <2>1
    <3> QED BY <3>1, <3>2 DEF RasterFields, SvgFields
  <2>5. rejects = IF "rejection" \in DOMAIN slots THEN {"rejection"} ELSE {}
    BY <2>3
  <2>6. /\ s \in SvgShapes /\ rejects = IF s = "safeSvg" THEN {} ELSE {"rejection"}
        /\ slots["safe"] = IF s = "safeSvg" THEN "true" ELSE "false"
    BY <2>3 DEF SvgShapes
  <2> HIDE DEF rejects, s
  <2>7. DOMAIN slots = SvgFields \cup rejects \cup {"format"}
    BY <2>2, <2>4, <2>5
  <2>8. /\ s \in Shapes /\ Writes(s) = SvgFields \cup rejects \cup {"format"}
        /\ Kind(s, "format") = "svg" /\ Kind(s, "safe") = slots["safe"]
        /\ \A f : f \notin {"format", "safe"} => Kind(s, f) = "good"
    BY <2>6, SvgShapesAre
  <2>9. \A f \in DOMAIN slots : slots[f] = Kind(s, f)
    <3>1. "width" \notin DOMAIN slots /\ "height" \notin DOMAIN slots
      BY <1>4, <2>1
    <3> QED BY <1>8, <1>13, <2>8, <3>1
  <2> QED BY <1>11, <2>1, <2>4, <2>7, <2>8, <2>9
<1> QED
  <2>1. slots["format"] \in Rasters \/ slots["format"] = "svg"
    BY <1>8 DEF Rasters
  <2>2. CASE slots["format"] \in Rasters
    BY <1>12, <2>2
  <2>3. CASE slots["format"] = "svg"
    BY <1>13, <2>3
  <2> QED BY <2>1, <2>2, <2>3

-----------------------------------------------------------------------------
(* Every type has one of these formats.                                    *)

RegularTypes ==
    {"PluginToBroker", "BrokerToPlugin", "ReadOperation", "ReadResult",
     "FrontendToLeader", "LeaderToFrontend", "BrokerCall", "BrokerResult", "PaintValue",
     "EffectValue", "CornerRadiusValue", "ComponentPropertyValue", "VariableValue",
     "StyleValue", "ItemResult", "GetNodesResult", "GetDesignContextResult",
     "GetScreenshotInput", "ReactionAction"}

ErrorTypes == {"ItemError", "ToolError", "PluginFailure", "PluginItemFailure"}

ChoiceTypes == {"Selector", "ScreenshotSelector", "SearchScope"}

LEMMA TypesAre ==
    DOMAIN Formats = RegularTypes \cup ErrorTypes \cup ChoiceTypes
                        \cup {"DesignNode", "ScreenshotAsset"}
  BY DEF Formats, RegularTypes, ErrorTypes, ChoiceTypes

LEMMA FormatsAre ==
    /\ Formats["PluginToBroker"] = PluginToBroker
    /\ Formats["BrokerToPlugin"] = BrokerToPlugin
    /\ Formats["ReadOperation"] = ReadOperation
    /\ Formats["ReadResult"] = ReadResult
    /\ Formats["FrontendToLeader"] = FrontendToLeader
    /\ Formats["LeaderToFrontend"] = LeaderToFrontend
    /\ Formats["BrokerCall"] = BrokerCall
    /\ Formats["BrokerResult"] = BrokerResult
    /\ Formats["ItemError"] = ItemError
    /\ Formats["ToolError"] = ToolError
    /\ Formats["PluginFailure"] = PluginFailure
    /\ Formats["PluginItemFailure"] = PluginItemFailure
    /\ Formats["Selector"] = Selector
    /\ Formats["ScreenshotSelector"] = ScreenshotSelector
    /\ Formats["SearchScope"] = SearchScope
    /\ Formats["PaintValue"] = PaintValue
    /\ Formats["EffectValue"] = EffectValue
    /\ Formats["CornerRadiusValue"] = CornerRadiusValue
    /\ Formats["ComponentPropertyValue"] = ComponentPropertyValue
    /\ Formats["VariableValue"] = VariableValue
    /\ Formats["StyleValue"] = StyleValue
    /\ Formats["DesignNode"] = DesignNode
    /\ Formats["ItemResult"] = ItemResult
    /\ Formats["GetNodesResult"] = GetNodesResult
    /\ Formats["GetDesignContextResult"] = GetDesignContextResult
    /\ Formats["GetScreenshotInput"] = GetScreenshotInput
    /\ Formats["ScreenshotAsset"] = ScreenshotAsset
    /\ Formats["ReactionAction"] = ReactionAction
  BY DEF Formats

LEMMA RegularTypesAre ==
    ASSUME NEW ty \in RegularTypes
    PROVE  Regular(Formats[ty]) /\ (ty # "ReactionAction" => Shut(Formats[ty]))
<1>1. CASE ty \in {"PluginToBroker", "BrokerToPlugin"}
  BY <1>1, FormatsAre, PluginMessagesAreRegular
<1>2. CASE ty \in {"ReadOperation", "ReadResult", "BrokerResult", "ComponentPropertyValue",
                  "VariableValue"}
  BY <1>2, FormatsAre, AdjacentTypesAreRegular
<1>3. CASE ty \in {"FrontendToLeader", "LeaderToFrontend", "BrokerCall"}
  BY <1>3, FormatsAre, CallsAreRegular, AnswersAreRegular
<1>4. CASE ty \in {"CornerRadiusValue", "ItemResult", "StyleValue"}
  BY <1>4, FormatsAre, SmallTypesAreRegular, StylesAreRegular
<1>5. CASE ty \in {"PaintValue", "EffectValue", "ReactionAction"}
  BY <1>5, FormatsAre, PaintsAreRegular, EffectsAreRegular, ReactionsAreRegular
<1>6. CASE ty \in {"GetNodesResult", "GetDesignContextResult", "GetScreenshotInput"}
  BY <1>6, FormatsAre, DetailsAreRegular, ScreenshotInputIsRegular
<1> QED BY <1>1, <1>2, <1>3, <1>4, <1>5, <1>6 DEF RegularTypes

LEMMA ErrorTypesAre ==
    ASSUME type \in ErrorTypes
    PROVE  \E must, may :
              /\ Format = ErrorObject(must, may) /\ must \cap may = {}
              /\ {"code", "message"} \cap may = {} /\ NoTag \notin must \cup may /\ "code" \in must
              /\ type # "ScreenshotAsset"
              /\ ("message" \in must <=> type \in {"ItemError", "ToolError"})
<1> DEFINE P(must, may) == /\ Format = ErrorObject(must, may) /\ must \cap may = {}
                           /\ {"code", "message"} \cap may = {} /\ NoTag \notin must \cup may
                           /\ "code" \in must /\ type # "ScreenshotAsset"
                           /\ ("message" \in must <=> type \in {"ItemError", "ToolError"})
<1>1. CASE type = "ItemError"
  <2>1. P({"index", "code", "message", "retryable"}, {"id"})
    BY <1>1, FormatsAre DEF Format, ItemError, NoTag
  <2> QED BY <2>1
<1>2. CASE type = "ToolError"
  <2>1. P({"code", "message", "retryable"}, {"items"})
    BY <1>2, FormatsAre DEF Format, ToolError, NoTag
  <2> QED BY <2>1
<1>3. CASE type = "PluginFailure"
  <2>1. P({"code", "retryable"}, {"items"})
    BY <1>3, FormatsAre DEF Format, PluginFailure, NoTag
  <2> QED BY <2>1
<1>4. CASE type = "PluginItemFailure"
  <2>1. P({"index", "code", "retryable"}, {"id"})
    BY <1>4, FormatsAre DEF Format, PluginItemFailure, NoTag
  <2> QED BY <2>1
<1> QED BY <1>1, <1>2, <1>3, <1>4 DEF ErrorTypes

LEMMA ChoiceTypesAre ==
    ASSUME type \in ChoiceTypes
    PROVE  \E names : Choice(names)
<1>1. CASE type = "Selector"
  <2>1. Choice({"selection", "pageId", "pageIds", "nodeId", "nodeIds"})
    BY <1>1, FormatsAre DEF Choice, Format, Selector, NoTag
  <2> QED BY <2>1
<1>2. CASE type = "ScreenshotSelector"
  <2>1. Choice({"selection", "nodeId", "nodeIds"})
    BY <1>2, FormatsAre DEF Choice, Format, ScreenshotSelector, NoTag
  <2> QED BY <2>1
<1>3. CASE type = "SearchScope"
  <2>1. Choice({"pageId", "nodeId"})
    BY <1>3, FormatsAre DEF Choice, Format, SearchScope, NoTag
  <2> QED BY <2>1
<1> QED BY <1>1, <1>2, <1>3 DEF ChoiceTypes

\* Whatever the type, an object as it was sent is taken for what it is.
LEMMA WholeIsTaken ==
    ASSUME type \in DOMAIN Formats, shape \in Shapes, AsWritten, todo = {}
    PROVE  Complete /\ Encodes(shape, Returned)
<1>1. CASE type \in RegularTypes
  <2>1. Sound
    BY <1>1 DEF Sound, RegularTypes
  <2> QED BY <1>1, <2>1, RegularTypesAre, RegularWhole DEF Format
<1>2. CASE type \in ErrorTypes
  BY <1>2, ErrorTypesAre, ErrorWhole
<1>3. CASE type \in ChoiceTypes
  <2>1. Sound
    BY <1>3 DEF Sound, ChoiceTypes
  <2> QED BY <1>3, <2>1, ChoiceTypesAre, ChoiceWhole
<1>4. CASE type = "DesignNode"
  <2>1. Sound /\ Format = DesignNode
    BY <1>4, FormatsAre DEF Sound, Format
  <2> QED BY <2>1, NodeIs, PlainWhole
<1>5. CASE type = "ScreenshotAsset"
  <2>1. Format = ScreenshotAsset
    BY <1>5, FormatsAre DEF Format
  <2> QED BY <1>5, <2>1, AssetWhole
<1> QED BY <1>1, <1>2, <1>3, <1>4, <1>5, TypesAre

\* Whatever the type, what is taken is something that may be sent.
LEMMA TakenIsWhole ==
    ASSUME type \in DOMAIN Formats, SlotsTyped, Complete
    PROVE  /\ \E s \in Shapes : Encodes(s, Returned)
           /\ DOMAIN Returned = NonNull \/ type = "ReactionAction"
<1>1. CASE type \in RegularTypes
  BY <1>1, RegularTypesAre, RegularTaken DEF Format
<1>2. CASE type \in ErrorTypes
  BY <1>2, ErrorTypesAre, ErrorTaken
<1>3. CASE type \in ChoiceTypes
  BY <1>3, ChoiceTypesAre, ChoiceTaken
<1>4. CASE type = "DesignNode"
  BY <1>4, FormatsAre, NodeTaken DEF Format
<1>5. CASE type = "ScreenshotAsset"
  BY <1>5, FormatsAre, AssetTaken DEF Format
<1> QED BY <1>1, <1>2, <1>3, <1>4, <1>5, TypesAre

\* Where there is room for one field, one is sent.
LEMMA SingleSendsOne ==
    ASSUME type \in DOMAIN Formats, Format.single = TRUE
    PROVE  \A s \in Shapes : Writes(s) = {s}
<1>1. CASE type \in RegularTypes
  BY <1>1, RegularTypesAre DEF Format, Regular
<1>2. CASE type \in ErrorTypes
  BY <1>2, ErrorTypesAre, ErrorIs DEF Plain
<1>3. CASE type \in ChoiceTypes
  BY <1>3, ChoiceTypesAre, ChoiceIs
<1>4. CASE type = "DesignNode"
  BY <1>4, FormatsAre, NodeIs DEF Format, Plain
<1>5. CASE type = "ScreenshotAsset"
  BY <1>5, FormatsAre, AssetIs DEF Format
<1> QED BY <1>1, <1>2, <1>3, <1>4, <1>5, TypesAre

LEMMA SingleIsBoolean ==
    ASSUME type \in DOMAIN Formats
    PROVE  Format.single \in BOOLEAN
<1>1. CASE type \in RegularTypes
  BY <1>1, RegularTypesAre DEF Format, Regular
<1>2. CASE type \in ErrorTypes
  BY <1>2, ErrorTypesAre, ErrorIs DEF Plain
<1>3. CASE type \in ChoiceTypes
  BY <1>3, ChoiceTypesAre, ChoiceIs
<1>4. CASE type = "DesignNode"
  BY <1>4, FormatsAre, NodeIs DEF Format, Plain
<1>5. CASE type = "ScreenshotAsset"
  BY <1>5, FormatsAre, AssetIs DEF Format
<1> QED BY <1>1, <1>2, <1>3, <1>4, <1>5, TypesAre

-----------------------------------------------------------------------------
(* One object, from its beginning to its verdict.                          *)

\* The visitor has been let down only by a sender that deviated, and it never
\* goes on after a field that came twice or is nobody's.
WireInv ==
    /\ faults \in Nat /\ outcome \in {"reading", "accepted", "rejected"}
    /\ spoilt \in BOOLEAN
    /\ type = Start => slots = <<>> /\ outcome = "reading" /\ spoilt = FALSE
    /\ type # Start =>
          /\ type \in DOMAIN Formats /\ shape \in Shapes /\ SlotsTyped
          /\ spoilt => outcome = "rejected"
          /\ outcome = "accepted" => Complete /\ value = Returned
          /\ faults = 0 => AsWritten /\ outcome # "rejected"
          /\ faults = 0 /\ outcome = "accepted" => todo = {}

LEMMA InitWire == WireInit => WireInv
<1> SUFFICES ASSUME WireInit PROVE WireInv
  OBVIOUS
<1>1. type = Start /\ slots = <<>> /\ outcome = "reading" /\ spoilt = FALSE /\ faults = 0
  BY DEF WireInit
<1>2. ~(type # Start)
  BY <1>1
<1>3. faults \in Nat /\ outcome \in {"reading", "accepted", "rejected"} /\ spoilt \in BOOLEAN
  BY <1>1
<1> QED BY <1>1, <1>2, <1>3, Zenon DEF WireInv

LEMMA BeginKeepsWire ==
    ASSUME WireInv, NEW ty \in DOMAIN Formats, NEW s \in DOMAIN Formats[ty].sends,
           NEW absent, Begin(ty, s, absent)
    PROVE  WireInv'
<1>1. /\ type' = ty /\ shape' = s /\ slots' = <<>> /\ outcome' = "reading" /\ spoilt' = FALSE
      /\ faults' \in Nat /\ DOMAIN slots' = {}
  BY DEF Begin, WireInv
<1>2. ty # Start
  BY TypesAre DEF Start, RegularTypes, ErrorTypes, ChoiceTypes
<1>3. shape' \in Shapes'
  BY <1>1 DEF Shapes, Format
<1>4. SlotsTyped'
  BY <1>1 DEF SlotsTyped
<1>5. AsWritten'
  <2> DEFINE F == Formats[ty]
             own == {F.tag} \ {NoTag}
  <2>1. Format' = F /\ TagField' = own
    BY <1>1 DEF Format, TagField
  <2>2. todo' = F.sends[s].must \cup own \cup (F.sends[s].may \ absent)
    BY DEF Begin
  <2> HIDE DEF F, own
  <2>3. Writes(shape)' = F.sends[s].must \cup F.sends[s].may \cup own
    BY <1>1, <2>1 DEF Writes
  <2> QED BY <1>1, <2>1, <2>2, <2>3 DEF AsWritten
<1> QED BY <1>1, <1>2, <1>3, <1>4, <1>5 DEF WireInv

LEMMA SameFormat ==
    ASSUME type' = type
    PROVE  /\ Format' = Format /\ Shapes' = Shapes /\ Known' = Known
           /\ \A g, v : Takes(g, v)' <=> Takes(g, v)
  BY DEF Format, Known, Takes, Kinds, Kind, Shapes, Writes, TagField

\* What a field adds to the slots, or spoils.
LEMMA ReadKeepsSlots ==
    ASSUME type \in DOMAIN Formats, SlotsTyped, outcome = "reading", type' = type,
           NEW f, NEW k, Read(f, k)
    PROVE  /\ SlotsTyped' /\ outcome' \in {"reading", "rejected"} /\ value' = value
           /\ f \notin Known \/ f \in DOMAIN slots => outcome' = "rejected"
           /\ f \in Known /\ f \notin DOMAIN slots /\ Takes(f, k) /\ (Format.single => slots = <<>>)
                 => /\ outcome' = "reading" /\ DOMAIN slots' = DOMAIN slots \cup {f}
                    /\ slots'[f] = k /\ \A g \in DOMAIN slots : slots'[g] = slots[g]
<1> DEFINE Fits == /\ f \in Known /\ f \notin DOMAIN slots
                   /\ Format.single => slots = <<>>
                   /\ Takes(f, k)
<1>1. Format' = Format /\ Known' = Known /\ \A g, v : Takes(g, v)' <=> Takes(g, v)
  BY SameFormat
<1>2. CASE Fits
  <2>1. slots' = Merge(slots, [g \in {f} |-> k]) /\ outcome' = outcome /\ value' = value
    BY <1>2 DEF Read
  <2>2. /\ DOMAIN slots' = DOMAIN slots \cup {f}
        /\ slots'[f] = k /\ \A g \in DOMAIN slots : slots'[g] = slots[g]
    BY <1>2, <2>1 DEF Merge
  <2>3. DOMAIN slots' # {}
    BY <2>2
  <2>4. Format.single => DOMAIN slots' = {f}
    BY <1>2, <2>2
  <2>5. \A g \in DOMAIN slots' : g \in Known /\ Takes(g, slots'[g])
    BY <1>2, <2>2 DEF SlotsTyped
  <2>6. SlotsTyped'
    BY <1>1, <2>3, <2>4, <2>5 DEF SlotsTyped
  <2> QED BY <1>2, <2>1, <2>2, <2>6
<1>3. CASE ~Fits
  <2>1. outcome' = "rejected" /\ slots' = slots /\ value' = value
    BY <1>3 DEF Read
  <2>2. SlotsTyped'
    BY <1>1, <2>1 DEF SlotsTyped
  <2> QED BY <1>3, <2>1, <2>2
<1> QED BY <1>2, <1>3

LEMMA WriteKeepsWire == ASSUME WireInv, NEW f \in todo, Write(f) PROVE WireInv'
<1>1. /\ type # Start /\ outcome = "reading" /\ Read(f, Kind(shape, f))
      /\ todo' = todo \ {f} /\ type' = type /\ shape' = shape /\ faults' = faults
      /\ spoilt' = (spoilt \/ f \in DOMAIN slots)
  BY DEF Write, Reading
<1>2. type \in DOMAIN Formats /\ shape \in Shapes /\ SlotsTyped /\ spoilt = FALSE
      /\ faults \in Nat
  BY <1>1 DEF WireInv
<1>3. /\ SlotsTyped' /\ outcome' \in {"reading", "rejected"} /\ value' = value
      /\ f \in DOMAIN slots => outcome' = "rejected"
  BY <1>1, <1>2, ReadKeepsSlots
<1>4. /\ Format' = Format /\ Shapes' = Shapes /\ Writes(shape)' = Writes(shape)
      /\ TagField' = TagField /\ \A g : Kind(shape, g)' = Kind(shape, g)
  BY <1>1 DEF Format, Shapes, Writes, Kind, TagField
<1>5. ASSUME faults = 0 PROVE AsWritten' /\ outcome' = "reading"
  <2>1. AsWritten
    BY <1>1, <1>5 DEF WireInv
  <2>2. f \in Writes(shape) /\ f \notin DOMAIN slots
    BY <2>1 DEF AsWritten
  <2>3. f \in Known /\ Takes(f, Kind(shape, f))
    BY <1>2, <2>2 DEF Known, Takes, Kinds
  <2>4. Format.single => slots = <<>>
    <3> SUFFICES ASSUME Format.single = TRUE PROVE slots = <<>>
      BY <1>2, SingleIsBoolean
    <3>1. Writes(shape) = {shape}
      BY <1>2, SingleSendsOne
    <3>2. DOMAIN slots = {}
      BY <2>1, <2>2, <3>1 DEF AsWritten
    <3> QED BY <1>2, <3>2 DEF SlotsTyped
  <2>5. /\ outcome' = "reading" /\ DOMAIN slots' = DOMAIN slots \cup {f}
        /\ slots'[f] = Kind(shape, f) /\ \A g \in DOMAIN slots : slots'[g] = slots[g]
    BY <1>1, <1>2, <2>2, <2>3, <2>4, ReadKeepsSlots
  <2>6. AsWritten'
    BY <1>1, <1>4, <2>1, <2>2, <2>5 DEF AsWritten
  <2> QED BY <2>5, <2>6
<1> QED BY <1>1, <1>2, <1>3, <1>4, <1>5 DEF WireInv

\* A deviation spends a fault, after which less is promised.
LEMMA SkipKeepsWire == ASSUME WireInv, NEW f, Skip(f) PROVE WireInv'
<1>1. /\ type # Start /\ outcome = "reading" /\ faults' = faults + 1
      /\ UNCHANGED <<type, shape, slots, spoilt, outcome, value>>
  BY DEF Skip, Deviate, Reading
<1>2. type \in DOMAIN Formats /\ shape \in Shapes /\ SlotsTyped /\ spoilt = FALSE
      /\ faults' \in Nat /\ faults' # 0
  BY <1>1 DEF WireInv
<1>3. SlotsTyped' /\ Shapes' = Shapes
  <2>1. /\ Format' = Format /\ Shapes' = Shapes /\ Known' = Known
        /\ \A g, v : Takes(g, v)' <=> Takes(g, v)
    BY <1>1, SameFormat
  <2> QED BY <1>1, <1>2, <2>1 DEF SlotsTyped
<1> QED BY <1>1, <1>2, <1>3 DEF WireInv

LEMMA StrayKeepsWire == ASSUME WireInv, NEW f, NEW k, Stray(f, k) PROVE WireInv'
<1>1. /\ type # Start /\ outcome = "reading" /\ faults' = faults + 1 /\ Read(f, k)
      /\ type' = type /\ shape' = shape
      /\ spoilt' = (spoilt \/ f \notin Known \/ f \in DOMAIN slots)
  BY DEF Stray, Deviate, Reading
<1>2. type \in DOMAIN Formats /\ shape \in Shapes /\ SlotsTyped /\ spoilt = FALSE
      /\ faults' \in Nat /\ faults' # 0
  BY <1>1 DEF WireInv
<1>3. /\ SlotsTyped' /\ outcome' \in {"reading", "rejected"}
      /\ f \notin Known \/ f \in DOMAIN slots => outcome' = "rejected"
  BY <1>1, <1>2, ReadKeepsSlots
<1>4. Shapes' = Shapes
  BY <1>1, SameFormat
<1> QED BY <1>1, <1>2, <1>3, <1>4 DEF WireInv

\* When nothing moves but the verdict.
LEMMA SameSlots ==
    ASSUME UNCHANGED <<type, shape, todo, slots>>
    PROVE  /\ SlotsTyped' <=> SlotsTyped
           /\ AsWritten' <=> AsWritten
           /\ Complete' <=> Complete
           /\ Returned' = Returned /\ Shapes' = Shapes
  BY DEF SlotsTyped, AsWritten, Complete, Returned, NonNull, Selected, ArmOf, LateFieldsFit, Sound,
         Known, Takes, Kinds, Kind, Shapes, Writes, TagField, Format

LEMMA FinishKeepsWire == ASSUME WireInv, Finish PROVE WireInv'
<1>1. /\ type # Start /\ outcome = "reading" /\ todo = {}
      /\ UNCHANGED <<type, shape, todo, slots, spoilt, faults>>
  BY DEF Finish
<1>2. \/ Complete /\ outcome' = "accepted" /\ value' = Returned
      \/ ~Complete /\ outcome' = "rejected"
  BY DEF Finish, Returned
<1>3. /\ SlotsTyped' <=> SlotsTyped
      /\ AsWritten' <=> AsWritten
      /\ Complete' <=> Complete
      /\ Returned' = Returned /\ Shapes' = Shapes
  BY <1>1, SameSlots
<1>4. faults = 0 => Complete
  BY <1>1, WholeIsTaken DEF WireInv
<1>5. /\ type \in DOMAIN Formats /\ shape \in Shapes /\ SlotsTyped /\ spoilt = FALSE
      /\ faults \in Nat /\ (faults = 0 => AsWritten)
  BY <1>1 DEF WireInv
<1> QED BY <1>1, <1>2, <1>3, <1>4, <1>5 DEF WireInv

LEMMA StepKeepsWire == WireInv /\ [WireNext]_wireVars => WireInv'
<1> SUFFICES ASSUME WireInv, [WireNext]_wireVars PROVE WireInv'
  OBVIOUS
<1>1. CASE UNCHANGED wireVars
  <2>1. UNCHANGED <<type, shape, todo, slots, spoilt, faults, outcome, value>>
    BY <1>1 DEF wireVars
  <2>2. /\ SlotsTyped' <=> SlotsTyped
        /\ AsWritten' <=> AsWritten
        /\ Complete' <=> Complete
        /\ Returned' = Returned /\ Shapes' = Shapes
    BY <2>1, SameSlots
  <2> QED BY <2>1, <2>2 DEF WireInv
<1>2. ASSUME NEW ty \in DOMAIN Formats, NEW s \in DOMAIN Formats[ty].sends,
             NEW absent \in SUBSET Formats[ty].sends[s].may, Begin(ty, s, absent)
      PROVE  WireInv'
  BY <1>2, BeginKeepsWire
<1>3. ASSUME NEW f \in todo, Write(f) \/ Skip(f) PROVE WireInv'
  BY <1>3, WriteKeepsWire, SkipKeepsWire
<1>4. ASSUME NEW f, NEW k, Stray(f, k) PROVE WireInv'
  BY <1>4, StrayKeepsWire
<1>5. CASE Finish
  BY <1>5, FinishKeepsWire
<1> QED BY <1>1, <1>2, <1>3, <1>4, <1>5 DEF WireNext

LEMMA WireInvariance == WireSpec => []WireInv
  BY InitWire, StepKeepsWire, PTL DEF WireSpec

\* Whatever an encoder of any of these types writes, in whatever order its fields
\* arrive, the visitor written for the type takes, and takes for what it is.
THEOREM EncodingsAreTaken == WireSpec => []EveryEncoding
<1>1. WireInv => EveryEncoding
  <2> SUFFICES ASSUME WireInv, faults = 0
               PROVE  /\ outcome # "rejected"
                      /\ outcome = "accepted" =>
                            DOMAIN value \subseteq Writes(shape) /\ Encodes(shape, value)
    BY DEF EveryEncoding
  <2>1. CASE type = Start
    BY <2>1 DEF WireInv
  <2>2. CASE type # Start
    <3>1. outcome # "rejected"
      BY <2>2 DEF WireInv
    <3>2. ASSUME outcome = "accepted"
          PROVE  DOMAIN value \subseteq Writes(shape) /\ Encodes(shape, value)
      <4>1. /\ type \in DOMAIN Formats /\ shape \in Shapes /\ AsWritten /\ todo = {}
            /\ value = Returned
        BY <2>2, <3>2 DEF WireInv
      <4>2. Encodes(shape, value)
        BY <4>1, WholeIsTaken
      <4> QED BY <4>2 DEF Encodes
    <3> QED BY <3>1, <3>2
  <2> QED BY <2>1, <2>2
<1> QED BY <1>1, WireInvariance, PTL

\* Whatever the visitor takes, however far its sender deviated, is what some
\* encoder writes, and it keeps all of it; reactions excepted, which drop fields
\* of other variants.
THEOREM OnlyEncodingsAreTaken == WireSpec => []OnlyEncodings
<1>1. WireInv => OnlyEncodings
  <2> SUFFICES ASSUME WireInv, outcome = "accepted"
               PROVE  /\ ~spoilt
                      /\ \E s \in Shapes : Encodes(s, value)
                      /\ DOMAIN value = NonNull \/ type = "ReactionAction"
    BY DEF OnlyEncodings
  <2>1. type # Start
    BY DEF WireInv
  <2>2. ~spoilt /\ type \in DOMAIN Formats /\ SlotsTyped /\ Complete /\ value = Returned
    BY <2>1 DEF WireInv
  <2> QED BY <2>2, TakenIsWhole
<1> QED BY <1>1, WireInvariance, PTL
=============================================================================
