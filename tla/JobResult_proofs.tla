-------------------------- MODULE JobResult_proofs --------------------------
(***************************************************************************)
(* Proofs about JobResult, for every set of environments, every size of    *)
(* chunks, windows, batches and budgets, and any names there may be: that  *)
(* the result is about the document, and that it says exactly when it is   *)
(* degraded.                                                               *)
(***************************************************************************)
EXTENDS JobResult, TLAPS, FiniteSetTheorems, SequenceTheorems

---------------------------------------------------------------------------
(* Recursion and induction, without an operator as a parameter.            *)

(* A set of numbers with 0 and every successor has all of them: otherwise  *)
(* the successor would map those below the missing one into themselves and *)
(* miss 0, which no injection of a finite set does.                        *)
LEMMA SetInduction ==
    ASSUME NEW S \in SUBSET Nat, 0 \in S, \A n \in S : n + 1 \in S
    PROVE  S = Nat
<1> SUFFICES ASSUME NEW n \in Nat, n \notin S PROVE FALSE
  OBVIOUS
<1> DEFINE T == S \cap (0 .. n)
           f == [k \in T |-> k + 1]
<1>1. \A k \in T : k + 1 \in T
  BY SMT
<1>2. f \in Injection(T, T)
  BY <1>1 DEF Injection, IsInjective
<1>3. IsFiniteSet(T)
  <2>1. IsFiniteSet(0 .. n) /\ T \in SUBSET (0 .. n)
    BY FS_Interval
  <2> QED BY <2>1, FS_Subset
<1>4. f \in Surjection(T, T)
  BY <1>2, <1>3, FS_Injection
<1>5. 0 \in T
  OBVIOUS
<1>6. PICK k \in T : f[k] = 0
  BY <1>4, <1>5 DEF Surjection
<1> QED BY <1>6

(* What holds at first and is kept by each of n steps holds after each.    *)
LEMMA StaysIn ==
    ASSUME NEW n \in Nat, NEW f, NEW D, f[0] \in D,
           \A i \in 1 .. n : f[i - 1] \in D => f[i] \in D
    PROVE  \A i \in 0 .. n : f[i] \in D
<1> DEFINE S == {i \in Nat : i =< n => f[i] \in D}
<1>1. 0 \in S
  OBVIOUS
<1>2. ASSUME NEW i \in S PROVE i + 1 \in S
  <2> SUFFICES ASSUME i + 1 =< n PROVE f[i + 1] \in D
    OBVIOUS
  <2>1. i + 1 \in 1 .. n /\ (i + 1) - 1 = i /\ f[i] \in D
    OBVIOUS
  <2> QED BY <2>1
<1> HIDE DEF S
<1>3. S = Nat
  <2>1. S \in SUBSET Nat
    BY DEF S
  <2> QED BY <2>1, <1>1, <1>2, SetInduction
<1> QED BY <1>3 DEF S

(* n steps, each of them a function on D; what they go through from b.     *)
StepsOn(n, D) == [1 .. n -> [D -> D]]
Walks(n, D, b, g) == {f \in [0 .. n -> D] : f[0] = b /\ \A i \in 1 .. n : f[i] = g[i][f[i - 1]]}

LEMMA Iteration ==
    ASSUME NEW n \in Nat, NEW D, NEW b \in D, NEW g \in StepsOn(n, D)
    PROVE  Walks(n, D, b, g) # {}
<1> USE DEF StepsOn
<1> SUFFICES \E f \in [0 .. n -> D] : f[0] = b /\ \A i \in 1 .. n : f[i] = g[i][f[i - 1]]
  BY DEF Walks
<1> DEFINE Path(f, m) == f[0] = b /\ \A i \in 1 .. m : f[i] = g[i][f[i - 1]]
           S == {m \in Nat : m =< n => \E f \in [0 .. m -> D] : Path(f, m)}
<1>1. 0 \in S
  <2>1. [i \in 0 .. 0 |-> b] \in [0 .. 0 -> D] /\ Path([i \in 0 .. 0 |-> b], 0)
    OBVIOUS
  <2> QED BY <2>1
<1>2. ASSUME NEW m \in S PROVE m + 1 \in S
  <2> SUFFICES ASSUME m + 1 =< n PROVE \E f \in [0 .. m + 1 -> D] : Path(f, m + 1)
    <3> HIDE DEF Path
    <3> QED OBVIOUS
  <2>1. PICK f \in [0 .. m -> D] : Path(f, m)
    OBVIOUS
  <2> DEFINE h == [i \in 0 .. m + 1 |-> IF i = m + 1 THEN g[m + 1][f[m]] ELSE f[i]]
  <2>2. f[m] \in D /\ g[m + 1] \in [D -> D]
    BY <2>1
  <2>3. h \in [0 .. m + 1 -> D]
    BY <2>1, <2>2
  <2>4. h[0] = b
    BY <2>1
  <2>5. ASSUME NEW i \in 1 .. m + 1 PROVE h[i] = g[i][h[i - 1]]
    <3>1. i - 1 \in 0 .. m /\ h[i - 1] = f[i - 1]
      OBVIOUS
    <3>2. CASE i = m + 1
      <4>1. h[i] = g[m + 1][f[m]] /\ i - 1 = m
        BY <3>2
      <4> QED BY <4>1, <3>1, <3>2
    <3>3. CASE i # m + 1
      <4>1. i \in 1 .. m /\ h[i] = f[i]
        BY <3>3
      <4> QED BY <4>1, <3>1, <2>1
    <3> QED BY <3>2, <3>3
  <2> QED BY <2>3, <2>4, <2>5
<1> HIDE DEF S
<1>3. S = Nat
  <2>1. S \in SUBSET Nat
    BY DEF S
  <2> QED BY <2>1, <1>1, <1>2, SetInduction
<1> QED BY <1>3 DEF S

(* A set of numbers none of which is above n has a largest one.            *)
LEMMA Largest ==
    ASSUME NEW n \in Nat, NEW S \in SUBSET (0 .. n), S # {}
    PROVE  \E m \in S : \A k \in S : k =< m
<1> DEFINE T == {m \in Nat : \A U \in SUBSET (0 .. m) : U # {} => \E i \in U : \A k \in U : k =< i}
<1>1. 0 \in T
  <2> SUFFICES ASSUME NEW U \in SUBSET (0 .. 0), U # {} PROVE \E i \in U : \A k \in U : k =< i
    OBVIOUS
  <2>1. \A k \in U : k = 0
    OBVIOUS
  <2>2. 0 \in U
    BY <2>1
  <2> QED BY <2>1, <2>2
<1>2. ASSUME NEW m \in T PROVE m + 1 \in T
  <2> SUFFICES ASSUME NEW U \in SUBSET (0 .. m + 1), U # {} PROVE \E i \in U : \A k \in U : k =< i
    OBVIOUS
  <2>1. CASE m + 1 \in U
    BY <2>1
  <2>2. CASE m + 1 \notin U
    <3>1. U \in SUBSET (0 .. m)
      BY <2>2
    <3> QED BY <3>1
  <2> QED BY <2>1, <2>2
<1> HIDE DEF T
<1>3. T = Nat
  <2>1. T \in SUBSET Nat
    BY DEF T
  <2> QED BY <2>1, <1>1, <1>2, SetInduction
<1> QED BY <1>3 DEF T

(* And a set of numbers that is not empty has a least one.                 *)
LEMMA Least ==
    ASSUME NEW S \in SUBSET Nat, S # {}
    PROVE  \E m \in S : \A k \in S : m =< k
<1>1. PICK n \in S : TRUE
  OBVIOUS
<1> DEFINE U == {n - k : k \in S \cap (0 .. n)}
<1>2. U \in SUBSET (0 .. n) /\ n - n \in U
  BY <1>1
<1>3. PICK u \in U : \A k \in U : k =< u
  BY <1>1, <1>2, Largest
<1>4. PICK m \in S \cap (0 .. n) : u = n - m
  BY <1>3
<1>5. ASSUME NEW k \in S PROVE m =< k
  <2>1. CASE k > n
    BY <2>1, <1>4
  <2>2. CASE k =< n
    <3>1. n - k \in U
      BY <2>2
    <3>2. n - k =< n - m
      <4> HIDE DEF U
      <4> QED BY <3>1, <1>3, <1>4
    <3> QED BY <3>2, <1>4
  <2> QED BY <2>1, <2>2
<1> QED BY <1>4, <1>5

---------------------------------------------------------------------------
(* The operators on sequences that the stages are built from.              *)

(* FlattenSeq goes through its sequence from the left.                     *)
LEMMA Flattening ==
    ASSUME NEW T, NEW seqs \in Seq(Seq(T)), Len(seqs) # 0
    PROVE  \E f \in [1 .. Len(seqs) -> Seq(T)] :
              /\ FlattenSeq(seqs) = f[Len(seqs)]
              /\ \A i \in 1 .. Len(seqs) : f[i] = IF i = 1 THEN seqs[i] ELSE f[i - 1] \o seqs[i]
<1> DEFINE n == Len(seqs)
           Step(f, i) == IF i = 1 THEN seqs[i] ELSE f[i - 1] \o seqs[i]
           g == [i \in 1 .. n |-> [d \in Seq(T) |-> IF i = 1 THEN seqs[i] ELSE d \o seqs[i]]]
<1>1. n \in Nat /\ n # 0 /\ \A i \in 1 .. n : seqs[i] \in Seq(T)
  BY LenProperties
<1>2. g \in [1 .. n -> [Seq(T) -> Seq(T)]]
  <2>1. \A i \in 1 .. n, d \in Seq(T) : d \o seqs[i] \in Seq(T)
    BY <1>1, ConcatProperties
  <2> QED BY <1>1, <2>1
<1>3. PICK h \in [0 .. n -> Seq(T)] : h[0] = <<>> /\ \A i \in 1 .. n : h[i] = g[i][h[i - 1]]
  <2>1. <<>> \in Seq(T) /\ g \in StepsOn(n, Seq(T))
    BY <1>2 DEF StepsOn
  <2>2. Walks(n, Seq(T), <<>>, g) # {}
    <3> HIDE DEF g, n
    <3> QED BY <2>1, <1>1, Iteration
  <2> HIDE DEF g, n
  <2> QED BY <2>2 DEF Walks
<1>4. \E f : f = [i \in 1 .. n |-> Step(f, i)]
  <2> DEFINE f == [i \in 1 .. n |-> h[i]]
  <2>1. \A i \in 1 .. n : f[i] = Step(f, i)
    <3> TAKE i \in 1 .. n
    <3>1. i - 1 \in 0 .. n /\ (i # 1 => i - 1 \in 1 .. n)
      BY <1>1
    <3>2. h[i - 1] \in Seq(T)
      BY <3>1, <1>3
    <3>3. h[i] = IF i = 1 THEN seqs[i] ELSE h[i - 1] \o seqs[i]
      BY <3>2, <1>3
    <3> QED BY <3>1, <3>3
  <2>2. f = [i \in 1 .. n |-> Step(f, i)]
    BY <2>1
  <2> QED BY <2>2
<1> DEFINE f == CHOOSE f : f = [i \in 1 .. n |-> Step(f, i)]
<1>5. f = [i \in 1 .. n |-> Step(f, i)]
  BY <1>4
<1>6. FlattenSeq(seqs) = f[n]
  BY DEF FlattenSeq
<1> HIDE DEF f
<1>7. \A i \in 1 .. n : f[i] = Step(f, i)
  BY <1>5
<1>8. \A i \in 0 .. n - 1 : f[i + 1] \in Seq(T)
  <2> DEFINE k == [i \in 0 .. n - 1 |-> f[i + 1]]
  <2>1. n - 1 \in Nat /\ k[0] = f[1] /\ f[1] \in Seq(T)
    BY <1>1, <1>7
  <2>2. ASSUME NEW i \in 1 .. n - 1, k[i - 1] \in Seq(T) PROVE k[i] \in Seq(T)
    <3>1. k[i - 1] = f[i] /\ k[i] = f[i + 1] /\ i + 1 \in 1 .. n /\ i + 1 # 1 /\ (i + 1) - 1 = i
      BY <1>1
    <3>2. f[i + 1] = f[i] \o seqs[i + 1] /\ seqs[i + 1] \in Seq(T)
      BY <3>1, <1>7, <1>1
    <3>3. f[i] \in Seq(T)
      BY <2>2, <3>1
    <3>4. f[i] \o seqs[i + 1] \in Seq(T)
      BY <3>2, <3>3, ConcatProperties
    <3> QED BY <3>1, <3>2, <3>4
  <2> HIDE DEF k
  <2>3. \A i \in 0 .. n - 1 : k[i] \in Seq(T)
    BY <2>1, <2>2, StaysIn
  <2> QED BY <2>3 DEF k
<1>9. f \in [1 .. n -> Seq(T)]
  <2>1. ASSUME NEW i \in 1 .. n PROVE f[i] \in Seq(T)
    <3>1. i - 1 \in 0 .. n - 1 /\ (i - 1) + 1 = i
      BY <1>1
    <3> QED BY <3>1, <1>8
  <2> QED BY <2>1, <1>5
<1> QED BY <1>6, <1>7, <1>9

LEMMA FlattenType ==
    ASSUME NEW T, NEW seqs \in Seq(Seq(T))
    PROVE  FlattenSeq(seqs) \in Seq(T)
<1>1. CASE Len(seqs) = 0
  <2>1. FlattenSeq(seqs) = seqs /\ seqs = <<>>
    BY <1>1, EmptySeq DEF FlattenSeq
  <2> QED BY <2>1
<1>2. CASE Len(seqs) # 0
  <2>1. Len(seqs) \in 1 .. Len(seqs)
    BY <1>2, LenProperties
  <2> QED BY <2>1, <1>2, Flattening
<1> QED BY <1>1, <1>2

(* It has whatever one of its sequences has.                               *)
LEMMA FlattenHas ==
    ASSUME NEW T, NEW seqs \in Seq(Seq(T)), NEW j \in 1 .. Len(seqs)
    PROVE  Range(seqs[j]) \subseteq Range(FlattenSeq(seqs))
<1>1. Len(seqs) \in Nat /\ Len(seqs) # 0 /\ \A i \in 1 .. Len(seqs) : seqs[i] \in Seq(T)
  BY LenProperties
<1>2. PICK f \in [1 .. Len(seqs) -> Seq(T)] :
              /\ FlattenSeq(seqs) = f[Len(seqs)]
              /\ \A i \in 1 .. Len(seqs) : f[i] = IF i = 1 THEN seqs[i] ELSE f[i - 1] \o seqs[i]
  BY <1>1, Flattening
<1> DEFINE D == {s \in Seq(T) : Range(seqs[j]) \subseteq Range(s)}
           k == [i \in 0 .. Len(seqs) - j |-> f[j + i]]
<1>3. \A s, t \in Seq(T) : Range(s) \subseteq Range(s \o t) /\ Range(t) \subseteq Range(s \o t)
  BY RangeConcatenation
<1>4. k[0] \in D
  <2>1. k[0] = f[j] /\ j \in 1 .. Len(seqs) /\ (j # 1 => j - 1 \in 1 .. Len(seqs))
    BY <1>1
  <2>4. f[j] \in Seq(T) /\ (j # 1 => f[j - 1] \in Seq(T))
    BY <2>1, <1>2
  <2>2. f[j] = seqs[j] \/ (j # 1 /\ f[j] = f[j - 1] \o seqs[j])
    BY <1>2
  <2>3. Range(seqs[j]) \subseteq Range(f[j])
    BY <2>4, <2>2, <1>1, <1>3
  <2> HIDE DEF k
  <2> QED BY <2>1, <2>3, <2>4
<1>5. ASSUME NEW i \in 1 .. Len(seqs) - j, k[i - 1] \in D PROVE k[i] \in D
  <2>1. /\ i - 1 \in 0 .. Len(seqs) - j /\ i \in 0 .. Len(seqs) - j
        /\ j + i \in 1 .. Len(seqs) /\ j + i # 1 /\ (j + i) - 1 = j + (i - 1)
    BY <1>1
  <2>6. k[i - 1] = f[j + (i - 1)] /\ k[i] = f[j + i]
    BY <2>1
  <2>2. f[j + i] = f[j + (i - 1)] \o seqs[j + i] /\ f[j + i] \in Seq(T)
    BY <2>1, <1>2
  <2>3. k[i - 1] \in Seq(T) /\ Range(seqs[j]) \subseteq Range(k[i - 1])
    BY <1>5
  <2>4. Range(k[i - 1]) \subseteq Range(k[i])
    BY <2>1, <2>2, <2>3, <2>6, <1>1, <1>3
  <2>5. k[i] \in Seq(T) /\ Range(seqs[j]) \subseteq Range(k[i])
    BY <2>2, <2>3, <2>4, <2>6
  <2> HIDE DEF k
  <2> QED BY <2>5
<1>6. k[Len(seqs) - j] \in D
  <2>1. Len(seqs) - j \in Nat /\ Len(seqs) - j \in 0 .. Len(seqs) - j
    BY <1>1
  <2> HIDE DEF k, D
  <2> QED BY <2>1, <1>4, <1>5, StaysIn
<1>7. k[Len(seqs) - j] = FlattenSeq(seqs)
  BY <1>1, <1>2
<1> QED BY <1>6, <1>7

(* What is chosen from a sequence is in it, and in the set.                *)
LEMMA ChosenType ==
    ASSUME NEW T, NEW seq \in Seq(T), NEW S
    PROVE  Chosen(seq, S) \in Seq(S \cap Range(seq))
<1> DEFINE U == S \cap Range(seq)
           picks == [i \in DOMAIN seq |-> IF seq[i] \in S THEN <<seq[i]>> ELSE <<>>]
<1>1. Len(seq) \in Nat /\ DOMAIN seq = 1 .. Len(seq)
  BY LenProperties
<1>2. \A i \in 1 .. Len(seq) : picks[i] \in Seq(U)
  <2> TAKE i \in 1 .. Len(seq)
  <2>1. seq[i] \in Range(seq)
    BY <1>1 DEF Range
  <2>2. CASE seq[i] \in S
    <3>1. picks[i] = <<seq[i]>> /\ seq[i] \in U
      BY <2>1, <2>2, <1>1
    <3> HIDE DEF picks, U
    <3> QED BY <3>1
  <2>3. CASE seq[i] \notin S
    <3>1. picks[i] = <<>>
      BY <2>3, <1>1
    <3> HIDE DEF picks, U
    <3> QED BY <3>1
  <2> QED BY <2>2, <2>3
<1>3. picks \in Seq(Seq(U))
  BY <1>1, <1>2
<1> HIDE DEF picks, U
<1>4. FlattenSeq(picks) \in Seq(U)
  BY <1>3, FlattenType
<1> QED BY <1>4 DEF Chosen, picks, U

LEMMA PlacesType ==
    ASSUME NEW T, NEW seq \in Seq(T)
    PROVE  Places(seq) \in Seq(1 .. Len(seq)) /\ Len(Places(seq)) = Len(seq)
BY LenProperties DEF Places

(* Part of a sequence from one of its places on.                           *)
LEMMA PartType ==
    ASSUME NEW T, NEW words \in Seq(T), NEW s \in Nat, NEW size \in Nat
    PROVE  Part(words, s, size) \in Seq(T)
<1>1. Len(words) \in Nat /\ \A i \in 1 .. Len(words) : words[i] \in T
  BY LenProperties
<1> DEFINE e == IF s + size < Len(words) THEN s + size ELSE Len(words)
<1>2. s + 1 \in Int /\ e \in Int /\ \A i \in s + 1 .. e : words[i] \in T
  BY <1>1
<1> HIDE DEF e
<1>3. SubSeq(words, s + 1, e) \in Seq(T)
  BY <1>2, SubSeqProperties
<1> QED BY <1>3 DEF Part, e

(* A text is cut into texts.                                               *)
LEMMA ChunksAtType ==
    ASSUME NEW T, NEW words \in Seq(T), NEW starts, NEW size \in Nat
    PROVE  ChunksAt(words, starts, size) \in Seq(Seq(T))
<1> DEFINE parts == [i \in DOMAIN words |-> IF i - 1 \in starts THEN <<Part(words, i - 1, size)>> ELSE <<>>]
<1>1. Len(words) \in Nat /\ DOMAIN words = 1 .. Len(words)
  BY LenProperties
<1>2. \A i \in 1 .. Len(words) : parts[i] \in Seq(Seq(T))
  <2> TAKE i \in 1 .. Len(words)
  <2>1. Part(words, i - 1, size) \in Seq(T)
    BY <1>1, PartType
  <2> QED BY <2>1, <1>1
<1>3. parts \in Seq(Seq(Seq(T)))
  BY <1>1, <1>2
<1> HIDE DEF parts
<1>4. FlattenSeq(parts) \in Seq(Seq(T))
  BY <1>3, FlattenType
<1> QED BY <1>4 DEF ChunksAt, parts

(* A part has the words at its places.                                     *)
LEMMA PartHas ==
    ASSUME NEW T, NEW words \in Seq(T), NEW s \in Nat, NEW size \in Nat,
           NEW i \in 1 .. Len(words), s < i, i =< s + size
    PROVE  words[i] \in Range(Part(words, s, size))
<1>1. Len(words) \in Nat /\ \A k \in 1 .. Len(words) : words[k] \in T
  BY LenProperties
<1> DEFINE e == IF s + size < Len(words) THEN s + size ELSE Len(words)
           part == SubSeq(words, s + 1, e)
<1>2. s + 1 \in Int /\ e \in Int /\ i =< e /\ \A k \in s + 1 .. e : words[k] \in T
  BY <1>1
<1> HIDE DEF e
<1>3. /\ part \in Seq(T) /\ Len(part) = e - s
      /\ \A k \in 1 .. e - s : part[k] = words[s + k]
  BY <1>2, SubSeqProperties
<1>4. i - s \in 1 .. e - s /\ s + (i - s) = i
  BY <1>1, <1>2
<1>5. part[i - s] = words[i] /\ i - s \in DOMAIN part
  <2> HIDE DEF part
  <2> QED BY <1>3, <1>4, LenProperties
<1>6. part[i - s] \in Range(part)
  BY <1>5 DEF Range
<1> QED BY <1>5, <1>6 DEF Part, e

(* The multiples of a step reach every number.                             *)
LEMMA Multiples ==
    ASSUME NEW step \in Nat \ {0}, NEW n \in Nat
    PROVE  \E k \in Nat : step * k =< n /\ n < step * k + step
<1> DEFINE S == {m \in Nat : \E k \in Nat : step * k =< m /\ m < step * k + step}
<1>1. 0 \in S
  <2>1. step * 0 = 0
    OBVIOUS
  <2> QED BY <2>1
<1>2. ASSUME NEW m \in S PROVE m + 1 \in S
  <2>1. PICK k \in Nat : step * k =< m /\ m < step * k + step
    OBVIOUS
  <2> DEFINE a == step * k
  <2>2. a \in Nat /\ k + 1 \in Nat /\ step * (k + 1) = a + step
    OBVIOUS
  <2>3. a =< m /\ m < a + step
    BY <2>1
  <2>4. m \in Nat
    OBVIOUS
  <2>5. CASE m + 1 < a + step
    <3>1. a =< m + 1
      <4> HIDE DEF a, S
      <4> QED BY <2>2, <2>3, <2>4
    <3> QED BY <3>1, <2>4, <2>5
  <2>6. CASE ~(m + 1 < a + step)
    <3>1. a + step =< m + 1 /\ m + 1 < (a + step) + step
      <4> HIDE DEF a, S
      <4> QED BY <2>2, <2>3, <2>4, <2>6
    <3>2. step * (k + 1) =< m + 1 /\ m + 1 < step * (k + 1) + step
      <4> HIDE DEF a, S
      <4> QED BY <2>2, <3>1
    <3>3. \E l \in Nat : step * l =< m + 1 /\ m + 1 < step * l + step
      <4> HIDE DEF a, S
      <4> QED BY <2>2, <3>2, Zenon
    <3> QED BY <2>4, <3>3
  <2> QED BY <2>5, <2>6
<1> HIDE DEF S
<1>3. S = Nat
  <2>1. S \in SUBSET Nat
    BY DEF S
  <2> QED BY <2>1, <1>1, <1>2, SetInduction
<1> QED BY <1>3 DEF S

(* The cuts leave no place out: it is in the part from the last multiple   *)
(* of the step before it, or in the first part that reaches the end.       *)
LEMMA CutsCover ==
    ASSUME NEW len \in Nat, NEW size \in Nat, NEW step \in Nat \ {0}, step =< size, NEW i \in 1 .. len
    PROVE  \E s \in Cuts(len, size, step) : s < i /\ i =< s + size
<1>1. PICK j \in Nat : step * j =< i - 1 /\ i - 1 < step * j + step
  <2>1. i - 1 \in Nat
    OBVIOUS
  <2> QED BY <2>1, Multiples
<1> DEFINE K == {k \in Nat : step * k < i /\ (k = j \/ step * k + size >= len)}
<1>2. K \in SUBSET Nat /\ j \in K
  BY <1>1
<1>3. PICK k \in K : \A m \in K : k =< m
  <2> HIDE DEF K
  <2> QED BY <1>2, Least
<1> DEFINE s == step * k
<1>4. s \in Nat /\ s < i /\ s % step = 0
  BY <1>3
<1>5. i =< s + size
  <2>1. CASE k = j
    BY <2>1, <1>1, <1>4
  <2>2. CASE k # j
    BY <2>2, <1>3, <1>4
  <2> QED BY <2>1, <2>2
<1>6. s = 0 \/ s - step + size < len
  <2>1. CASE k = 0
    BY <2>1
  <2>2. CASE k # 0
    <3>1. k - 1 \in Nat /\ step * (k - 1) = s - step /\ ~(k =< k - 1) /\ step * (k - 1) \in Nat
      BY <2>2
    <3>2. k - 1 \notin K
      <4> HIDE DEF K
      <4> QED BY <1>3, <3>1
    <3>3. step * (k - 1) < i
      <4> HIDE DEF s
      <4> QED BY <3>1, <1>4
    <3>4. ~(step * (k - 1) + size >= len)
      BY <3>1, <3>2, <3>3
    <3> HIDE DEF s
    <3> QED BY <3>1, <3>4, <1>4
  <2> QED BY <2>1, <2>2
<1> HIDE DEF s
<1>7. s \in 0 .. len - 1
  BY <1>4
<1> QED BY <1>4, <1>5, <1>6, <1>7 DEF Cuts

(* Every word of a text is in one of the parts it is cut into.             *)
LEMMA ChunksAtHave ==
    ASSUME NEW T, NEW words \in Seq(T), NEW size \in Nat, NEW step \in Nat \ {0}, step =< size,
           NEW i \in 1 .. Len(words)
    PROVE  \E c \in Range(ChunksAt(words, Cuts(Len(words), size, step), size)) : words[i] \in Range(c)
<1> DEFINE starts == Cuts(Len(words), size, step)
           parts == [k \in DOMAIN words |-> IF k - 1 \in starts THEN <<Part(words, k - 1, size)>> ELSE <<>>]
<1>1. Len(words) \in Nat /\ DOMAIN words = 1 .. Len(words)
  BY LenProperties
<1>2. PICK s \in starts : s < i /\ i =< s + size
  BY <1>1, CutsCover
<1>3. s \in Nat /\ s + 1 \in 1 .. Len(words) /\ (s + 1) - 1 = s
  BY <1>1, <1>2 DEF Cuts
<1>4. words[i] \in Range(Part(words, s, size))
  BY <1>2, <1>3, PartHas
<1> HIDE DEF starts
<1>5. parts \in Seq(Seq(Seq(T))) /\ Len(parts) = Len(words)
  <2>1. \A k \in 1 .. Len(words) : parts[k] \in Seq(Seq(T))
    <3> TAKE k \in 1 .. Len(words)
    <3>1. Part(words, k - 1, size) \in Seq(T)
      BY <1>1, PartType
    <3> QED BY <3>1, <1>1
  <2> QED BY <1>1, <2>1
<1>6. parts[s + 1] = <<Part(words, s, size)>>
  BY <1>1, <1>2, <1>3
<1>7. Part(words, s, size) \in Range(parts[s + 1])
  <2>1. 1 \in DOMAIN <<Part(words, s, size)>> /\ <<Part(words, s, size)>>[1] = Part(words, s, size)
    OBVIOUS
  <2> HIDE DEF parts
  <2> QED BY <1>6, <2>1 DEF Range
<1> HIDE DEF parts
<1>8. Range(parts[s + 1]) \subseteq Range(FlattenSeq(parts))
  BY <1>3, <1>5, FlattenHas
<1>9. Part(words, s, size) \in Range(ChunksAt(words, starts, size))
  BY <1>7, <1>8 DEF ChunksAt, parts
<1> QED BY <1>4, <1>9 DEF starts

---------------------------------------------------------------------------
(* The loops over a recording's segments and over entities.                *)

Turn == [speaker : STRING, words : Seq(STRING)]

LEMMA AddSegmentType ==
    ASSUME NEW turns \in Seq(Turn), NEW seg \in Turn
    PROVE  AddSegment(turns, seg) \in Seq(Turn)
<1>1. Append(turns, seg) \in Seq(Turn)
  BY AppendProperties
<1>2. CASE /\ turns # <<>> /\ Last(turns).speaker = seg.speaker
           /\ Len(Last(turns).words) + Len(seg.words) =< MaxChars
  <2>1. Len(turns) \in 1 .. Len(turns)
    BY <1>2, EmptySeq
  <2>2. turns[Len(turns)] \in Turn
    BY <2>1, ElementOfSeq
  <2> DEFINE new == [turns[Len(turns)] EXCEPT !.words = @ \o seg.words]
  <2>3. new \in Turn
    <3>1. turns[Len(turns)].words \o seg.words \in Seq(STRING)
      BY <2>2, ConcatProperties DEF Turn
    <3> QED BY <2>2, <3>1 DEF Turn
  <2>4. AddSegment(turns, seg) = [turns EXCEPT ![Len(turns)] = new]
    BY <1>2 DEF AddSegment
  <2> HIDE DEF new
  <2> QED BY <2>1, <2>3, <2>4, ExceptSeq
<1> QED BY <1>1, <1>2 DEF AddSegment

LEMMA TurnsLoop ==
    ASSUME NEW segments \in Seq(Turn)
    PROVE  \E f \in [0 .. Len(segments) -> Seq(Turn)] :
               /\ Turns(segments) = f[Len(segments)]
               /\ f[0] = <<>>
               /\ \A i \in 1 .. Len(segments) : f[i] = AddSegment(f[i - 1], segments[i])
<1> DEFINE n == Len(segments)
           Step(f, i) == IF i = 0 THEN <<>> ELSE AddSegment(f[i - 1], segments[i])
           g == [i \in 1 .. n |-> [d \in Seq(Turn) |-> AddSegment(d, segments[i])]]
<1>1. n \in Nat /\ \A i \in 1 .. n : segments[i] \in Turn
  BY LenProperties
<1>2. g \in StepsOn(n, Seq(Turn))
  BY <1>1, AddSegmentType DEF StepsOn
<1>3. PICK h \in [0 .. n -> Seq(Turn)] : h[0] = <<>> /\ \A i \in 1 .. n : h[i] = g[i][h[i - 1]]
  <2>1. Walks(n, Seq(Turn), <<>>, g) # {}
    <3>1. <<>> \in Seq(Turn)
      OBVIOUS
    <3> HIDE DEF g, n
    <3> QED BY <3>1, <1>1, <1>2, Iteration
  <2> HIDE DEF g, n
  <2> QED BY <2>1 DEF Walks
<1>4. h = [i \in 0 .. n |-> Step(h, i)]
  <2>1. \A i \in 0 .. n : h[i] = Step(h, i)
    <3> TAKE i \in 0 .. n
    <3>1. CASE i = 0
      BY <3>1, <1>3
    <3>2. CASE i # 0
      <4>1. i \in 1 .. n /\ i - 1 \in 0 .. n
        BY <3>2, <1>1
      <4>2. h[i] = g[i][h[i - 1]] /\ h[i - 1] \in Seq(Turn)
        BY <4>1, <1>3
      <4> QED BY <4>1, <4>2, <3>2
    <3> QED BY <3>1, <3>2
  <2> QED BY <2>1
<1> DEFINE after == CHOOSE f : f = [i \in 0 .. n |-> Step(f, i)]
<1>5. after = [i \in 0 .. n |-> Step(after, i)]
  BY <1>4
<1>6. Turns(segments) = after[n]
  BY DEF Turns
<1> HIDE DEF after
<1>7. after[0] = <<>> /\ \A i \in 1 .. n : after[i] = AddSegment(after[i - 1], segments[i])
  <2>1. \A i \in 0 .. n : after[i] = Step(after, i)
    BY <1>5
  <2> QED BY <1>1, <2>1
<1>8. \A i \in 0 .. n : after[i] \in Seq(Turn)
  <2>1. after[0] \in Seq(Turn)
    BY <1>7
  <2>2. \A i \in 1 .. n : after[i - 1] \in Seq(Turn) => after[i] \in Seq(Turn)
    BY <1>1, <1>7, AddSegmentType
  <2> HIDE DEF n
  <2> QED BY <2>1, <2>2, <1>1, StaysIn
<1>9. after \in [0 .. n -> Seq(Turn)]
  <2> HIDE DEF n
  <2> QED BY <1>5, <1>8
<1> QED BY <1>6, <1>7, <1>9

LEMMA TurnsType ==
    ASSUME NEW segments \in Seq(Turn)
    PROVE  Turns(segments) \in Seq(Turn)
<1>1. Len(segments) \in Nat
  BY LenProperties
<1> QED BY <1>1, TurnsLoop

(* A segment is in a turn from when it is added to the end of the loop.    *)
Says(turns, words) == \E t \in Range(turns) : Range(words) \subseteq Range(t.words)

LEMMA AddSegmentSays ==
    ASSUME NEW turns \in Seq(Turn), NEW seg \in Turn
    PROVE  /\ Says(AddSegment(turns, seg), seg.words)
           /\ \A words : Says(turns, words) => Says(AddSegment(turns, seg), words)
<1>1. CASE /\ turns # <<>> /\ Last(turns).speaker = seg.speaker
           /\ Len(Last(turns).words) + Len(seg.words) =< MaxChars
  <2>1. Len(turns) \in 1 .. Len(turns) /\ DOMAIN turns = 1 .. Len(turns)
    BY <1>1, EmptySeq, LenProperties
  <2>0. turns[Len(turns)] \in Turn
    BY <2>1, ElementOfSeq
  <2>2. turns[Len(turns)] \in Turn /\ seg.words \in Seq(STRING) /\ turns[Len(turns)].words \in Seq(STRING)
    BY <2>0 DEF Turn
  <2> DEFINE old == turns[Len(turns)].words
             all == old \o seg.words
             new == [turns EXCEPT ![Len(turns)].words = @ \o seg.words]
  <2>3. Range(old) \subseteq Range(all) /\ Range(seg.words) \subseteq Range(all)
    BY <2>2, RangeConcatenation
  <2>4. /\ DOMAIN new = 1 .. Len(turns) /\ new[Len(turns)].words = all
        /\ \A k \in 1 .. Len(turns) : k # Len(turns) => new[k] = turns[k]
    BY <2>1, <2>2 DEF Turn
  <2> HIDE DEF new, all
  <2>5. new[Len(turns)] \in Range(new)
    BY <2>1, <2>4 DEF Range
  <2>6. Says(new, seg.words)
    BY <2>3, <2>4, <2>5 DEF Says
  <2>7. ASSUME NEW words, Says(turns, words) PROVE Says(new, words)
    <3>1. PICK t \in Range(turns) : Range(words) \subseteq Range(t.words)
      BY <2>7 DEF Says
    <3>2. \E k \in 1 .. Len(turns) : t = turns[k]
      BY <2>1, <3>1 DEF Range
    <3>3. PICK k \in 1 .. Len(turns) : Range(words) \subseteq Range(turns[k].words)
      BY <3>1, <3>2
    <3>4. CASE k = Len(turns)
      BY <3>3, <3>4, <2>3, <2>4, <2>5 DEF Says
    <3>5. CASE k # Len(turns)
      <4>1. new[k] = turns[k] /\ new[k] \in Range(new)
        BY <3>5, <2>4 DEF Range
      <4> QED BY <4>1, <3>3 DEF Says
    <3> QED BY <3>4, <3>5
  <2>8. AddSegment(turns, seg) = new
    BY <1>1 DEF AddSegment, new
  <2> QED BY <2>6, <2>7, <2>8
<1>2. CASE ~(/\ turns # <<>> /\ Last(turns).speaker = seg.speaker
             /\ Len(Last(turns).words) + Len(seg.words) =< MaxChars)
  <2>1. AddSegment(turns, seg) = Append(turns, seg)
    BY <1>2 DEF AddSegment
  <2>2. /\ Len(turns) \in Nat /\ DOMAIN turns = 1 .. Len(turns)
        /\ DOMAIN Append(turns, seg) = 1 .. Len(turns) + 1
        /\ Append(turns, seg)[Len(turns) + 1] = seg
        /\ \A k \in 1 .. Len(turns) : Append(turns, seg)[k] = turns[k]
    BY LenProperties, AppendProperties
  <2>3. seg \in Range(Append(turns, seg)) /\ Range(turns) \subseteq Range(Append(turns, seg))
    BY <2>2 DEF Range
  <2> QED BY <2>1, <2>3 DEF Says
<1> QED BY <1>1, <1>2

LEMMA TurnsSay ==
    ASSUME NEW segments \in Seq(Turn), NEW j \in 1 .. Len(segments)
    PROVE  Says(Turns(segments), segments[j].words)
<1>1. Len(segments) \in Nat /\ \A i \in 1 .. Len(segments) : segments[i] \in Turn
  BY LenProperties
<1>2. PICK f \in [0 .. Len(segments) -> Seq(Turn)] :
              /\ Turns(segments) = f[Len(segments)]
              /\ \A i \in 1 .. Len(segments) : f[i] = AddSegment(f[i - 1], segments[i])
  BY TurnsLoop
<1> DEFINE D == {turns \in Seq(Turn) : Says(turns, segments[j].words)}
           k == [i \in 0 .. Len(segments) - j |-> f[j + i]]
<1>3. \A i \in 1 .. Len(segments) : f[i - 1] \in Seq(Turn) /\ f[i] \in Seq(Turn)
  <2>1. \A i \in 1 .. Len(segments) : i - 1 \in 0 .. Len(segments) /\ i \in 0 .. Len(segments)
    BY <1>1
  <2>2. \A i \in 0 .. Len(segments) : f[i] \in Seq(Turn)
    BY <1>2
  <2> QED BY <2>1, <2>2
<1>4. k[0] \in D
  <2>1. j \in 1 .. Len(segments) /\ k[0] = f[j]
    BY <1>1
  <2>2. f[j - 1] \in Seq(Turn) /\ f[j] \in Seq(Turn) /\ segments[j] \in Turn
    BY <1>1, <1>3
  <2>3. f[j] = AddSegment(f[j - 1], segments[j])
    BY <1>2
  <2> HIDE DEF k
  <2> QED BY <2>1, <2>2, <2>3, AddSegmentSays
<1>5. ASSUME NEW i \in 1 .. Len(segments) - j, k[i - 1] \in D PROVE k[i] \in D
  <2>1. j + i \in 1 .. Len(segments) /\ (j + i) - 1 = j + (i - 1)
    BY <1>1
  <2>2. k[i - 1] = f[(j + i) - 1] /\ k[i] = f[j + i]
    BY <1>1, <2>1
  <2>3. f[j + i] = AddSegment(f[(j + i) - 1], segments[j + i])
    BY <1>2, <2>1
  <2>4. Says(f[j + i], segments[j].words)
    <3> HIDE DEF k
    <3> QED BY <1>1, <1>3, <1>5, <2>1, <2>2, <2>3, AddSegmentSays
  <2> HIDE DEF k
  <2> QED BY <1>3, <2>1, <2>2, <2>4
<1>6. k[Len(segments) - j] \in D
  <2>1. Len(segments) - j \in Nat /\ Len(segments) - j \in 0 .. Len(segments) - j
    BY <1>1
  <2> HIDE DEF k, D
  <2> QED BY <2>1, <1>4, <1>5, StaysIn
<1>7. k[Len(segments) - j] = Turns(segments)
  BY <1>1, <1>2
<1> QED BY <1>6, <1>7

LEMMA SimpleChunksType ==
    ASSUME NEW words \in Seq(STRING)
    PROVE  SimpleChunks(words) \in Seq(Seq(STRING))
BY ChunksAtType, ChunkAssumption DEF SimpleChunks

LEMMA SpeakerChunksType ==
    ASSUME NEW segments \in Seq(Turn)
    PROVE  SpeakerChunks(segments) \in Seq(Seq(STRING))
<1> DEFINE turns == Turns(segments)
           cut == [i \in DOMAIN turns |-> SimpleChunks(Spoken(turns[i]))]
<1>1. turns \in Seq(Turn) /\ Len(turns) \in Nat /\ DOMAIN turns = 1 .. Len(turns)
  BY TurnsType, LenProperties
<1> HIDE DEF turns
<1>2. \A i \in 1 .. Len(turns) : cut[i] \in Seq(Seq(STRING))
  <2> TAKE i \in 1 .. Len(turns)
  <2>1. turns[i] \in Turn
    BY <1>1, ElementOfSeq
  <2>2. turns[i].words \in Seq(STRING) /\ <<turns[i].speaker>> \in Seq(STRING)
    BY <2>1 DEF Turn
  <2>3. Spoken(turns[i]) \in Seq(STRING)
    BY <2>2, ConcatProperties DEF Spoken
  <2> QED BY <1>1, <2>3, SimpleChunksType
<1>3. cut \in Seq(Seq(Seq(STRING)))
  BY <1>1, <1>2
<1> HIDE DEF cut
<1>4. FlattenSeq(cut) \in Seq(Seq(STRING))
  BY <1>3, FlattenType
<1> QED BY <1>4 DEF SpeakerChunks, cut, turns

(* Every word is in a chunk, of a text that is cut ...                     *)
LEMMA ChunksHave ==
    ASSUME NEW words \in Seq(STRING), NEW i \in 1 .. Len(words)
    PROVE  /\ \E c \in Range(ChunkText(words)) : words[i] \in Range(c)
           /\ \E c \in Range(SimpleChunks(words)) : words[i] \in Range(c)
<1>1. /\ ChunkSize \in Nat /\ ChunkSize - ChunkOverlap \in Nat \ {0} /\ ChunkSize - ChunkOverlap =< ChunkSize
      /\ MaxChars \in Nat \ {0} /\ MaxChars =< MaxChars
  BY ChunkAssumption
<1> QED BY <1>1, ChunksAtHave DEF ChunkText, SimpleChunks

(* ... and of what is said in a recording.                                 *)
LEMMA SpeakerChunksHave ==
    ASSUME NEW segments \in Seq(Turn), NEW j \in 1 .. Len(segments), NEW word \in Range(segments[j].words)
    PROVE  \E c \in Range(SpeakerChunks(segments)) : word \in Range(c)
<1> DEFINE turns == Turns(segments)
           cut == [i \in DOMAIN turns |-> SimpleChunks(Spoken(turns[i]))]
<1>1. turns \in Seq(Turn) /\ Len(turns) \in Nat /\ DOMAIN turns = 1 .. Len(turns)
  BY TurnsType, LenProperties
<1>2. PICK t \in Range(turns) : word \in Range(t.words)
  BY TurnsSay DEF Says
<1> HIDE DEF turns
<1>3. PICK k \in 1 .. Len(turns) : t = turns[k]
  BY <1>1, <1>2 DEF Range
<1>4. \A i \in 1 .. Len(turns) : Spoken(turns[i]) \in Seq(STRING) /\ cut[i] \in Seq(Seq(STRING))
  <2> TAKE i \in 1 .. Len(turns)
  <2>1. turns[i] \in Turn
    BY <1>1, ElementOfSeq
  <2>2. turns[i].words \in Seq(STRING) /\ <<turns[i].speaker>> \in Seq(STRING)
    BY <2>1 DEF Turn
  <2>3. Spoken(turns[i]) \in Seq(STRING)
    BY <2>2, ConcatProperties DEF Spoken
  <2> QED BY <1>1, <2>3, SimpleChunksType
<1>5. word \in Range(Spoken(t))
  <2>1. t \in Turn
    BY <1>1, <1>3, ElementOfSeq
  <2>2. t.words \in Seq(STRING) /\ <<t.speaker>> \in Seq(STRING)
    BY <2>1 DEF Turn
  <2>3. \A u, v \in Seq(STRING) : Range(v) \subseteq Range(u \o v)
    BY RangeConcatenation
  <2>4. Range(t.words) \subseteq Range(<<t.speaker>> \o t.words)
    BY <2>2, <2>3
  <2> QED BY <2>4, <1>2 DEF Spoken
<1>6. PICK i \in 1 .. Len(Spoken(t)) : word = Spoken(t)[i]
  <2>1. DOMAIN Spoken(t) = 1 .. Len(Spoken(t))
    BY <1>3, <1>4, LenProperties
  <2> QED BY <2>1, <1>5 DEF Range
<1>7. PICK c \in Range(SimpleChunks(Spoken(t))) : word \in Range(c)
  BY <1>3, <1>4, <1>6, ChunksHave
<1>8. cut \in Seq(Seq(Seq(STRING))) /\ Len(cut) = Len(turns) /\ cut[k] = SimpleChunks(Spoken(t))
  BY <1>1, <1>3, <1>4
<1> HIDE DEF cut
<1>9. Range(cut[k]) \subseteq Range(FlattenSeq(cut))
  BY <1>3, <1>8, FlattenHas
<1> QED BY <1>7, <1>8, <1>9 DEF SpeakerChunks, cut, turns

(* The text of a recording has no words but those of its segments.         *)
LEMMA SegmentsHave ==
    ASSUME NEW segments \in Seq(Turn)
    PROVE  LET all == FlattenSeq([i \in DOMAIN segments |-> segments[i].words])
           IN  \A i \in DOMAIN all : \E j \in 1 .. Len(segments) : all[i] \in Range(segments[j].words)
<1> DEFINE each == [i \in DOMAIN segments |-> segments[i].words]
           said == {word \in STRING : \E j \in 1 .. Len(segments) : word \in Range(segments[j].words)}
<1>1. /\ Len(segments) \in Nat /\ DOMAIN segments = 1 .. Len(segments)
      /\ \A j \in 1 .. Len(segments) : segments[j].words \in Seq(STRING)
  <2>1. \A j \in 1 .. Len(segments) : segments[j] \in Turn
    BY LenProperties
  <2> QED BY <2>1, LenProperties DEF Turn
<1>2. \A j \in 1 .. Len(segments) : segments[j].words \in Seq(said)
  <2> TAKE j \in 1 .. Len(segments)
  <2> DEFINE w == segments[j].words
  <2>1. w \in Seq(STRING) /\ Len(w) \in Nat /\ DOMAIN w = 1 .. Len(w) /\ \A k \in 1 .. Len(w) : w[k] \in STRING
    BY <1>1, LenProperties
  <2>2. \A k \in 1 .. Len(w) : w[k] \in Range(w)
    BY <2>1 DEF Range
  <2>3. \A k \in 1 .. Len(w) : w[k] \in said
    BY <2>1, <2>2
  <2> HIDE DEF said, w
  <2>4. w \in Seq(said)
    BY <2>1, <2>3
  <2> QED BY <2>4 DEF w
<1>3. each \in Seq(Seq(said))
  <2> HIDE DEF said
  <2> QED BY <1>1, <1>2
<1> HIDE DEF each, said
<1>4. FlattenSeq(each) \in Seq(said)
  BY <1>3, FlattenType
<1>5. \A i \in DOMAIN FlattenSeq(each) : FlattenSeq(each)[i] \in said
  BY <1>4, LenProperties, ElementOfSeq
<1> QED BY <1>5 DEF each, said

(* A dict has the pairs it had and the pair that is put into it.           *)
LEMMA PutType ==
    ASSUME NEW A, NEW B, NEW dict \in Seq(A \X B), NEW key \in A, NEW value \in B
    PROVE  Put(dict, key, value) \in Seq(A \X B)
<1>1. Len(dict) \in Nat /\ DOMAIN dict = 1 .. Len(dict) /\ \A i \in 1 .. Len(dict) : dict[i] \in A \X B
  BY LenProperties
<1>2. <<key, value>> \in A \X B
  OBVIOUS
<1>3. Append(dict, <<key, value>>) \in Seq(A \X B)
  BY <1>2, AppendProperties
<1>4. [i \in DOMAIN dict |-> IF dict[i][1] = key THEN <<key, value>> ELSE dict[i]] \in Seq(A \X B)
  <2> DEFINE new == [i \in DOMAIN dict |-> IF dict[i][1] = key THEN <<key, value>> ELSE dict[i]]
             P == A \X B
  <2>1. \A i \in 1 .. Len(dict) : new[i] \in P
    BY <1>1, <1>2
  <2>2. new \in [1 .. Len(dict) -> P]
    BY <1>1, <2>1
  <2> HIDE DEF new, P
  <2>3. new \in Seq(P)
    BY <1>1, <2>2
  <2> QED BY <2>3 DEF new, P
<1> QED BY <1>3, <1>4 DEF Put

LEMMA MergeType ==
    ASSUME NEW A, NEW B, NEW dict \in Seq(A \X B), NEW key \in A, NEW e \in B, NEW placed
    PROVE  Merge(dict, key, e, placed) \in Seq(A \X B)
<1> DEFINE same == {i \in DOMAIN dict : Same(e, dict[i][2], placed)}
           first == CHOOSE j \in same : \A k \in same : j =< k
<1>1. Len(dict) \in Nat /\ DOMAIN dict = 1 .. Len(dict) /\ \A i \in 1 .. Len(dict) : dict[i] \in A \X B
  BY LenProperties
<1>2. CASE same = {}
  <2>1. Merge(dict, key, e, placed) = Put(dict, key, e)
    BY <1>2 DEF Merge
  <2> QED BY <2>1, PutType
<1>3. CASE same # {}
  <2>1. same \in SUBSET Nat
    BY <1>1
  <2>2. first \in same
    <3> HIDE DEF same
    <3>1. \E j \in same : \A k \in same : j =< k
      BY <1>3, <2>1, Least
    <3> QED BY <3>1
  <2>3. dict[first] \in A \X B
    <3> HIDE DEF first
    <3> QED BY <2>2, <1>1
  <2>4. dict[first][1] \in A
    <3> HIDE DEF first
    <3> QED BY <2>3
  <2>5. Put(dict, dict[first][1], e) \in Seq(A \X B)
    <3> HIDE DEF first
    <3> QED BY <2>4, PutType
  <2>6. Merge(dict, key, e, placed) \in {Put(dict, dict[first][1], e), dict}
    BY <1>3 DEF Merge
  <2> QED BY <2>5, <2>6
<1> QED BY <1>2, <1>3

(* The merged entities are some of those there were, each under a key that *)
(* there was.                                                              *)
LEMMA MergeAllType ==
    ASSUME NEW A, NEW B, NEW keyed \in Seq(A \X B), NEW placed
    PROVE  MergeAll(keyed, placed) \in Seq(A \X B)
<1> DEFINE n == Len(keyed)
           D == Seq(A \X B)
           Joined(d, i) == Merge(d, keyed[i][1], keyed[i][2], placed)
           Step(f, i) == IF i = 0 THEN <<>> ELSE Joined(f[i - 1], i)
           g == [i \in 1 .. n |-> [d \in D |-> Joined(d, i)]]
<1>1. n \in Nat /\ \A i \in 1 .. n : keyed[i] \in A \X B
  BY LenProperties
<1>9. ASSUME NEW d \in D, NEW i \in 1 .. n PROVE Joined(d, i) \in D
  <2>1. keyed[i][1] \in A /\ keyed[i][2] \in B
    BY <1>1
  <2> QED BY <2>1, MergeType
<1> HIDE DEF Joined
<1>2. g \in StepsOn(n, D)
  BY <1>9 DEF StepsOn
<1>0. <<>> \in D
  OBVIOUS
<1>3. PICK h \in [0 .. n -> D] : h[0] = <<>> /\ \A i \in 1 .. n : h[i] = g[i][h[i - 1]]
  <2>1. Walks(n, D, <<>>, g) # {}
    <3> HIDE DEF g, n, D
    <3> QED BY <1>0, <1>1, <1>2, Iteration
  <2> HIDE DEF g, n, D
  <2> QED BY <2>1 DEF Walks
<1>4. h = [i \in 0 .. n |-> Step(h, i)]
  <2>1. \A i \in 0 .. n : h[i] = Step(h, i)
    <3> TAKE i \in 0 .. n
    <3>1. CASE i = 0
      BY <3>1, <1>3
    <3>2. CASE i # 0
      <4>1. i \in 1 .. n /\ i - 1 \in 0 .. n
        BY <3>2, <1>1
      <4>2. h[i] = g[i][h[i - 1]] /\ h[i - 1] \in D
        <5> HIDE DEF D, g, n
        <5> QED BY <4>1, <1>3
      <4>3. g[i][h[i - 1]] = Joined(h[i - 1], i)
        <5> HIDE DEF D, n
        <5> QED BY <4>1, <4>2
      <4> QED BY <4>2, <4>3, <3>2
    <3> QED BY <3>1, <3>2
  <2> HIDE DEF Step, D, n
  <2> QED BY <2>1, <1>3
<1> DEFINE after == CHOOSE f : f = [i \in 0 .. n |-> Step(f, i)]
<1>5. after = [i \in 0 .. n |-> Step(after, i)]
  BY <1>4
<1>6. MergeAll(keyed, placed) = after[n]
  BY DEF MergeAll, Joined
<1> HIDE DEF after
<1>7. after[0] = <<>> /\ \A i \in 1 .. n : after[i] = Joined(after[i - 1], i)
  <2>1. \A i \in 0 .. n : after[i] = Step(after, i)
    BY <1>5
  <2> QED BY <1>1, <2>1
<1>8. \A i \in 0 .. n : after[i] \in D
  <2>1. after[0] \in D
    BY <1>7
  <2>2. \A i \in 1 .. n : after[i - 1] \in D => after[i] \in D
    <3> HIDE DEF D, n
    <3> QED BY <1>7, <1>9
  <2> HIDE DEF n, D
  <2> QED BY <2>1, <2>2, <1>1, StaysIn
<1>10. n \in 0 .. n
  BY <1>1
<1> QED BY <1>6, <1>8, <1>10

---------------------------------------------------------------------------
(* What is found in a text is named in it.                                 *)

FoundIn(T)         == [word : T, label : STRING, score : Nat, start : Nat]
KeptIn(T, chunk)   == [word : T, label : STRING, score : Nat, chunk : {chunk}]

LEMMA PredictType ==
    ASSUME NEW T \in SUBSET STRING, NEW words \in Seq(T)
    PROVE  Predict(words) \in Seq(FoundIn(T))
<1> DEFINE good  == {i \in DOMAIN words : words[i] \in DOMAIN Names}
           named == Chosen(Places(words), good)
           E(i)  == [word |-> words[i], label |-> Names[words[i]].label,
                     score |-> Names[words[i]].score, start |-> i]
<1>1. Len(words) \in Nat /\ DOMAIN words = 1 .. Len(words) /\ \A i \in 1 .. Len(words) : words[i] \in T
  BY LenProperties
<1>2. named \in Seq(good)
  <2>1. named \in Seq(good \cap Range(Places(words)))
    BY PlacesType, ChosenType
  <2> HIDE DEF named, good
  <2> QED BY <2>1, SeqMonotonic
<1>3. \A i \in good : E(i) \in FoundIn(T)
  BY <1>1, NamesAssumption DEF FoundIn
<1>4. Len(named) \in Nat /\ DOMAIN named = 1 .. Len(named) /\ \A k \in 1 .. Len(named) : named[k] \in good
  <2> HIDE DEF named, good
  <2> QED BY <1>2, LenProperties
<1>5. Predict(words) = [k \in DOMAIN named |-> E(named[k])]
  BY DEF Predict
<1> HIDE DEF named, good, E
<1>6. [k \in DOMAIN named |-> E(named[k])] \in Seq(FoundIn(T))
  BY <1>3, <1>4
<1> QED BY <1>5, <1>6

LEMMA KeptType ==
    ASSUME NEW T \in SUBSET STRING, NEW entities \in Seq(FoundIn(T)), NEW chunk
    PROVE  Kept(entities, chunk) \in Seq(KeptIn(T, chunk))
<1> DEFINE sure == {e \in Range(entities) : e.score >= Threshold(e.label)}
           good == Chosen(entities, sure)
           E(e) == [word |-> e.word, label |-> e.label, score |-> e.score, chunk |-> chunk]
<1>1. good \in Seq(FoundIn(T))
  <2>1. good \in Seq(sure \cap Range(entities))
    BY ChosenType
  <2>2. Range(entities) \subseteq FoundIn(T)
    BY RangeOfSeq
  <2> HIDE DEF good, sure
  <2> QED BY <2>1, <2>2, SeqMonotonic
<1>2. Len(good) \in Nat /\ DOMAIN good = 1 .. Len(good) /\ \A k \in 1 .. Len(good) : good[k] \in FoundIn(T)
  <2> HIDE DEF good
  <2> QED BY <1>1, LenProperties
<1>3. \A e \in FoundIn(T) : E(e) \in KeptIn(T, chunk)
  BY DEF FoundIn, KeptIn
<1>4. Kept(entities, chunk) = [k \in DOMAIN good |-> E(good[k])]
  BY DEF Kept
<1> HIDE DEF good, E
<1>5. [k \in DOMAIN good |-> E(good[k])] \in Seq(KeptIn(T, chunk))
  BY <1>2, <1>3
<1> QED BY <1>4, <1>5

LEMMA MergeWindowsType ==
    ASSUME NEW T \in SUBSET STRING, NEW words \in Seq(T), NEW heard
    PROVE  MergeWindows(words, heard) \in Seq(FoundIn(T))
<1> DEFINE F          == FoundIn(T)
           in(s)      == Predict(Part(words, s, WindowSize))
           Shifted(s) == [k \in DOMAIN in(s) |-> [in(s)[k] EXCEPT !.start = @ + s]]
           each       == [i \in DOMAIN words |-> IF i - 1 \in heard THEN Shifted(i - 1) ELSE <<>>]
           all        == FlattenSeq(each)
           Key(e)     == <<e.label, e.start, e.word>>
           keyed      == [k \in DOMAIN all |-> <<Key(all[k]), all[k]>>]
           merged     == MergeAll(keyed, TRUE)
           Keys       == {Key(e) : e \in F}
<1>1. Len(words) \in Nat /\ DOMAIN words = 1 .. Len(words)
  BY LenProperties
<1>2. ASSUME NEW s \in Nat PROVE Shifted(s) \in Seq(F)
  <2>1. in(s) \in Seq(F)
    <3>1. Part(words, s, WindowSize) \in Seq(T)
      BY WindowAssumption, PartType
    <3> QED BY <3>1, PredictType
  <2> HIDE DEF in
  <2>2. Len(in(s)) \in Nat /\ DOMAIN in(s) = 1 .. Len(in(s)) /\ \A k \in 1 .. Len(in(s)) : in(s)[k] \in F
    <3> HIDE DEF F
    <3> QED BY <2>1, LenProperties
  <2>3. \A e \in F : [e EXCEPT !.start = @ + s] \in F
    BY DEF FoundIn
  <2> HIDE DEF F
  <2> QED BY <2>2, <2>3
<1>3. all \in Seq(F)
  <2>1. \A i \in 1 .. Len(words) : each[i] \in Seq(F)
    <3> TAKE i \in 1 .. Len(words)
    <3>1. i - 1 \in Nat /\ each[i] = IF i - 1 \in heard THEN Shifted(i - 1) ELSE <<>>
      BY <1>1
    <3>2. Shifted(i - 1) \in Seq(F)
      BY <3>1, <1>2
    <3> HIDE DEF Shifted, each, F
    <3> QED BY <3>1, <3>2
  <2>2. each \in Seq(Seq(F))
    <3> HIDE DEF Shifted, F
    <3>1. each \in [1 .. Len(words) -> Seq(F)]
      BY <1>1, <2>1
    <3> HIDE DEF each
    <3> QED BY <3>1, <1>1
  <2> HIDE DEF each, F
  <2> QED BY <2>2, FlattenType
<1>4. Len(all) \in Nat /\ DOMAIN all = 1 .. Len(all) /\ \A k \in 1 .. Len(all) : all[k] \in F
  <2> HIDE DEF all, F
  <2> QED BY <1>3, LenProperties
<1>5. keyed \in Seq(Keys \X F)
  <2> HIDE DEF all, F, Key
  <2>1. \A k \in 1 .. Len(all) : <<Key(all[k]), all[k]>> \in Keys \X F
    BY <1>4
  <2> HIDE DEF Keys
  <2>2. keyed \in [1 .. Len(all) -> Keys \X F]
    BY <1>4, <2>1
  <2> HIDE DEF keyed
  <2> QED BY <2>2, <1>4
<1>6. merged \in Seq(Keys \X F)
  <2> HIDE DEF keyed, Keys, F
  <2> QED BY <1>5, MergeAllType
<1>7. Len(merged) \in Nat /\ DOMAIN merged = 1 .. Len(merged) /\ \A k \in 1 .. Len(merged) : merged[k] \in Keys \X F
  <2> HIDE DEF merged, Keys, F
  <2> QED BY <1>6, LenProperties
<1>8. Values(merged) \in Seq(F)
  <2> HIDE DEF merged, Keys, F
  <2>1. \A k \in 1 .. Len(merged) : merged[k][2] \in F
    BY <1>7
  <2> QED BY <1>7, <2>1 DEF Values
<1>9. MergeWindows(words, heard) = Values(merged)
  BY DEF MergeWindows
<1> QED BY <1>8, <1>9

LEMMA ByRulesType ==
    ASSUME NEW words \in Seq(STRING)
    PROVE  ByRules(words) \in Seq(KeptIn(STRING, 0))
<1> DEFINE found == Chosen(words, Rules)
           E(w)  == [word |-> w, label |-> Names[w].label, score |-> 10, chunk |-> 0]
<1>1. found \in Seq(Rules \cap STRING)
  <2>1. found \in Seq(Rules \cap Range(words)) /\ Range(words) \subseteq STRING
    BY ChosenType, RangeOfSeq
  <2> HIDE DEF found
  <2> QED BY <2>1, SeqMonotonic
<1>2. Len(found) \in Nat /\ DOMAIN found = 1 .. Len(found) /\ \A k \in 1 .. Len(found) : found[k] \in Rules \cap STRING
  <2> HIDE DEF found
  <2> QED BY <1>1, LenProperties
<1>3. \A w \in Rules \cap STRING : E(w) \in KeptIn(STRING, 0)
  BY NamesAssumption DEF KeptIn
<1>4. ByRules(words) = [k \in DOMAIN found |-> E(found[k])]
  BY DEF ByRules
<1> HIDE DEF found, E
<1> QED BY <1>2, <1>3, <1>4

LEMMA DeduplicateType ==
    ASSUME NEW B, NEW entities \in Seq(B)
    PROVE  Deduplicate(entities) \in Seq({EntityId(e) : e \in B} \X B)
<1> DEFINE A     == {EntityId(e) : e \in B}
           keyed == [k \in DOMAIN entities |-> <<EntityId(entities[k]), entities[k]>>]
<1>1. Len(entities) \in Nat /\ DOMAIN entities = 1 .. Len(entities) /\ \A k \in 1 .. Len(entities) : entities[k] \in B
  BY LenProperties
<1>2. keyed \in Seq(A \X B)
  <2>1. \A k \in 1 .. Len(entities) : <<EntityId(entities[k]), entities[k]>> \in A \X B
    BY <1>1
  <2> HIDE DEF A
  <2>2. keyed \in [1 .. Len(entities) -> A \X B]
    BY <1>1, <2>1
  <2> HIDE DEF keyed
  <2> QED BY <2>2, <1>1
<1> HIDE DEF A, keyed
<1>3. MergeAll(keyed, FALSE) \in Seq(A \X B)
  BY <1>2, MergeAllType
<1> QED BY <1>3 DEF Deduplicate, A, keyed

---------------------------------------------------------------------------
(* The invariant.                                                          *)

Text        == Seq(STRING)
FactOf(T)   == [of : T, nth : Nat, confidence : Nat]
Named       == [word : STRING, label : STRING, score : Nat, chunk : Nat]
MaybeVector == {None} \cup {Vec(t) : t \in Text} \cup {Vec(f) : f \in FactOf(Text)}
Item        == [page : Nat, words : Seq(STRING)]
Hows        == {"pass", "degraded", "fallback", "vision_empty", "vision_error"}
Stages      == {"entry", "embeddings", "entities", "inferences"}

(* The types of what the entry leaves to the others, and of its state.     *)
Flows    == [at : {"idle", "gate", "pages", "text", "looked", "stored", "published"},
             kept : Seq(Text), report : Seq(Hows), used : Nat, late : BOOLEAN, text : Text]
Writings == [text : Text, chunks : Seq(Text), report : Seq(Hows)]

EntryTypes ==
    /\ env \in Environments
    /\ text \in Text /\ chunks \in Seq(Text)
    /\ repeated \in BOOLEAN
    /\ queue \in [Stages -> Nat]
    /\ written \subseteq Writings
    /\ flow \in Flows

(* W is what was stored: the texts that were stored as the chunk i, and    *)
(* vectors, facts and entities that are of such texts.                     *)
TextsAt(W, i)       == {w.chunks[i] : w \in {v \in W : i \in DOMAIN v.chunks}}
OfChunks(v, W)      == \A i \in DOMAIN v : v[i] \in {None} \cup {Vec(t) : t \in TextsAt(W, i)}
FactsOfChunks(s, W) == \A i \in DOMAIN s : \A f \in Range(s[i]) :
                          f.of \in TextsAt(W, i) /\ f.confidence >= MinConfidence
Mentioned(W)        == {e \in Named : e.chunk = 0 \/ \E t \in TextsAt(W, e.chunk) : e.word \in Range(t)}
Stored(s, W)        == s = None \/ \E w \in W : w.chunks = s

(* Each of the pages that were gone through has kept what Docling placed   *)
(* on it, or was replaced, and one was if and only if the budget was used; *)
(* a text that is about to be stored keeps its pages, and so do those that *)
(* were stored.  What is under :chunks was stored together with a text.    *)
PagesKept ==
    /\ Len(flow.kept) = Len(flow.report)
    /\ Len(flow.kept) =< NPages
    /\ \A p \in 1 .. Len(flow.kept) :
          flow.kept[p] = IF flow.report[p] = "fallback" THEN document.pages[p] ELSE PageText(p)
    /\ flow.used = 0 <=> Replaced(flow) = {}

EntryKeeps ==
    /\ flow.at \in {"gate", "pages"} => PagesKept
    /\ flow.at = "gate" => Replaced(flow) = {}
    /\ document.kind = "document" =>
          /\ flow.at \in {"text", "looked"} => Keeps(flow)
          /\ \A w \in written : Keeps(w)
    /\ Stored(chunks, written)

(* What is said in a recording is all its text; every word of a text that  *)
(* was stored is in a chunk that was stored with it.                       *)
Speech == FlattenSeq([i \in DOMAIN document.segments |-> document.segments[i].words])

ChunksKept ==
    /\ flow.at \in {"pages", "looked"} => document.kind = "document"
    /\ document.kind = "audio" /\ flow.at = "text" => flow.text = Speech
    /\ \A w \in written : IsChunked(w)

EntryInv == EntryTypes /\ EntryKeeps /\ ChunksKept

(* The embeddings worker works on stored texts, and its vectors are those  *)
(* of the texts in their places, whatever the order of the answers and     *)
(* whoever has filled the cache.                                           *)
Embs == [at : {"idle", "asking", "marked", "stored", "inferring", "told"}, texts : Seq(Text),
         got : Seq(MaybeVector), left : Seq(Nat), infs : Seq(Seq(FactOf(Text))), ivecs : Seq(Seq(MaybeVector))]

EmbInv ==
    /\ emb \in Embs
    /\ degraded \in BOOLEAN /\ touched \in BOOLEAN
    /\ vectors \in Seq(MaybeVector) /\ inferenceVectors \in Seq(Seq(MaybeVector))
    /\ Len(emb.got) = Len(emb.texts)
    /\ Stored(emb.texts, written)
    /\ \A t \in DOMAIN cache : cache[t] = Vec(t)
    /\ OfChunks(emb.got, written) /\ OfChunks(vectors, written)

(* The inference worker's facts are those of the texts in their places,    *)
(* and those that are remembered are the model's about the text.           *)
Infs == [at : {"idle", "ready", "asking", "alone"}, texts : Seq(Text),
         got : Seq(Seq(FactOf(Text))), left : Seq(Nat)]

InfInv ==
    /\ inf \in Infs
    /\ inferences \in Seq(Seq(FactOf(Text)))
    /\ inf.left \in Seq(1 .. Len(inf.texts)) /\ Len(inf.got) =< Len(inf.texts)
    /\ inf.at = "alone" => inf.left # <<>>
    /\ Stored(inf.texts, written)
    /\ \A t \in DOMAIN memo : memo[t] \in Seq(FactOf({t}))
    /\ FactsOfChunks(inf.got, written) /\ FactsOfChunks(inferences, written)

(* An entity of a chunk is named in it.                                    *)
Ents == [at : {"idle", "predicting", "found"}, chunks : Seq(Text), text : Text,
         small : Seq(Nat), large : Seq(Nat), found : Seq(Named)]

EntInv ==
    /\ ent \in Ents
    /\ ent.small \in Seq(1 .. Len(ent.chunks)) /\ ent.large \in Seq(1 .. Len(ent.chunks))
    /\ Stored(ent.chunks, written)
    /\ ent.found \in Seq(Mentioned(written)) /\ raw \in Seq(Mentioned(written))

(* What the completion worker has read is as good as what it read.         *)
Fins == [at : {"idle", "read", "vectors", "inferred"}, chunks : Seq(Text), raw : Seq(Named),
         infs : Seq(Seq(FactOf(Text))), vectors : Seq(MaybeVector), ivecs : Seq(Seq(MaybeVector))]

FinInv ==
    /\ fin \in Fins
    /\ fin.raw \in Seq(Mentioned(written)) /\ OfChunks(fin.vectors, written) /\ FactsOfChunks(fin.infs, written)
    /\ \A r \in Range(result) : \A i \in DOMAIN r.chunks : IsAbout(r, i)

(* As long as no stage was delivered twice: the entry stores once, before  *)
(* the others have begun ...                                               *)
NotStored   == queue["entry"] > 0 \/ flow.at \notin {"idle", "published", "stored"}
Unpublished == queue["entry"] > 0 \/ flow.at \notin {"idle", "published"}

EntryOnce ==
    /\ queue["entry"] \in {0, 1} /\ (queue["entry"] = 1 => flow.at = "idle")
    /\ NotStored => chunks = None /\ written = {}
    /\ \A w \in written : w.chunks = chunks
    /\ Unpublished =>
          /\ queue["embeddings"] = 0 /\ emb.at = "idle" /\ "embeddings" \notin steps
          /\ queue["inferences"] = 0 /\ inf.at = "idle"
          /\ inferences = None /\ inferenceVectors = None

(* ... the vectors of the chunks are made once, and the flag says whether  *)
(* one is missing, until it is used for inferences ...                     *)
Lacks(v) == \E i \in DOMAIN v : v[i] = None

EmbOnce ==
    /\ queue["embeddings"] \in {0, 1} /\ (queue["embeddings"] = 1 => emb.at = "idle")
    /\ queue["embeddings"] = 1 \/ emb.at \in {"asking", "marked"} => "embeddings" \notin steps
    /\ emb.at \in {"asking", "marked"} => emb.texts = chunks
    /\ emb.at \in {"asking", "marked", "stored"} => emb.ivecs = <<>>
    /\ emb.at = "marked" /\ ~touched => (degraded <=> Lacks(emb.got))
    /\ "embeddings" \in steps =>
          /\ Len(vectors) = Len(chunks)
          /\ ~touched => (degraded <=> Lacks(vectors))

(* ... the inferences are made once, and their vectors, whoever makes them *)
(* and when, are theirs ...                                                *)
Aligned(v, infs) ==
    \A i \in DOMAIN v \cap DOMAIN infs : \A k \in DOMAIN v[i] \cap DOMAIN infs[i] :
        v[i][k] \in {None, Vec(infs[i][k])}

InfOnce ==
    /\ queue["inferences"] \in {0, 1} /\ (queue["inferences"] = 1 => inf.at = "idle")
    /\ inferences # None => queue["inferences"] = 0 /\ inf.at = "idle"
    /\ inferences = None => inferenceVectors = None
    /\ Aligned(inferenceVectors, inferences)
    /\ emb.at = "inferring" =>
          /\ emb.infs = inferences /\ inferences # None
          /\ Aligned(emb.ivecs, inferences)

(* ... and what the completion worker has read is still what there is.     *)
FinOnce ==
    /\ fin.at # "idle" => "embeddings" \in steps /\ fin.chunks = chunks
    /\ fin.at \in {"vectors", "inferred"} => fin.vectors = vectors
    /\ fin.infs = None \/ fin.infs = inferences
    /\ Aligned(fin.ivecs, fin.infs)
    /\ ~touched => \A r \in Range(result) :
          r.degraded <=> \E i \in DOMAIN r.chunks : r.chunks[i].vector = None

OnceInv == ~repeated => EntryOnce /\ EmbOnce /\ InfOnce /\ FinOnce

Inv == EntryInv /\ EmbInv /\ InfInv /\ EntInv /\ FinInv /\ OnceInv

---------------------------------------------------------------------------
(* What was stored only grows, and with it what vectors, facts and         *)
(* entities may be of.                                                     *)

LEMMA StoredGrows ==
    ASSUME NEW V, NEW W, V \subseteq W
    PROVE  /\ \A i : TextsAt(V, i) \subseteq TextsAt(W, i)
           /\ \A v : OfChunks(v, V) => OfChunks(v, W)
           /\ \A s : FactsOfChunks(s, V) => FactsOfChunks(s, W)
           /\ \A s : Stored(s, V) => Stored(s, W)
           /\ \A s : s \in Seq(Mentioned(V)) => s \in Seq(Mentioned(W))
<1>1. \A i : TextsAt(V, i) \subseteq TextsAt(W, i)
  BY DEF TextsAt
<1>2. \A v : OfChunks(v, V) => OfChunks(v, W)
  BY <1>1 DEF OfChunks
<1>3. \A s : FactsOfChunks(s, V) => FactsOfChunks(s, W)
  BY <1>1 DEF FactsOfChunks
<1>4. \A s : Stored(s, V) => Stored(s, W)
  BY DEF Stored
<1>5. Mentioned(V) \subseteq Mentioned(W)
  BY <1>1 DEF Mentioned
<1>6. \A s : s \in Seq(Mentioned(V)) => s \in Seq(Mentioned(W))
  BY <1>5, SeqMonotonic
<1> QED BY <1>1, <1>2, <1>3, <1>4, <1>6

(* A stored sequence of chunks has a stored text in every place.           *)
LEMMA StoredTexts ==
    ASSUME NEW W, NEW s, Stored(s, W), NEW i \in DOMAIN s
    PROVE  s[i] \in TextsAt(W, i)
BY DEF Stored, TextsAt, None

(* Each environment is one that the assumption describes.                  *)
LEMMA DocumentType ==
    ASSUME env \in Environments
    PROVE  /\ document.kind \in {"document", "audio", "image"}
           /\ NPages \in Nat
           /\ \A p \in 1 .. NPages : document.pages[p] \in Text
           /\ document.markdown \in Text /\ document.items \in Seq(Item)
           /\ document.kind = "image" => 1 \in 1 .. NPages
           /\ document.segments \in Seq(Turn)
           /\ "embeddings" \in env.stages
<1>1. /\ document.kind \in {"document", "audio", "image"} /\ document.pages \in Seq(Text)
      /\ document.kind = "image" => document.pages # <<>>
      /\ document.markdown \in Text /\ document.items \in Seq(Item)
      /\ document.segments \in Seq(Turn) /\ "embeddings" \in env.stages
  BY EnvironmentAssumption DEF document, Turn, Text, Item
<1>2. NPages \in Nat /\ \A p \in 1 .. NPages : document.pages[p] \in Text
  BY <1>1, LenProperties DEF NPages
<1>4. document.pages # <<>> => Len(document.pages) \in Nat \ {0}
  BY <1>1, EmptySeq
<1>5. document.kind = "image" => 1 \in 1 .. NPages
  BY <1>1, <1>4 DEF NPages
<1> QED BY <1>1, <1>2, <1>5

(* What is on a page is a text: it is put together from those of its items.*)
LEMMA PageTextType ==
    ASSUME env \in Environments, NEW p
    PROVE  PageText(p) \in Text
<1> DEFINE each == [i \in DOMAIN document.items |->
                       IF document.items[i].page = p THEN document.items[i].words ELSE <<>>]
<1>1. /\ Len(document.items) \in Nat /\ DOMAIN document.items = 1 .. Len(document.items)
      /\ \A i \in 1 .. Len(document.items) : document.items[i] \in Item
  BY DocumentType, LenProperties
<1>2. <<>> \in Seq(STRING)
  OBVIOUS
<1>3. \A i \in 1 .. Len(document.items) : each[i] \in Seq(STRING)
  BY <1>1, <1>2 DEF Item
<1>4. each \in [1 .. Len(document.items) -> Seq(STRING)]
  BY <1>1, <1>3
<1> HIDE DEF each
<1>5. each \in Seq(Seq(STRING))
  BY <1>1, <1>4
<1>6. FlattenSeq(each) \in Seq(STRING)
  BY <1>5, FlattenType
<1> QED BY <1>6 DEF PageText, Text, each

(* The text of a document, of a recording and of an image.                 *)
LEMMA EntryTexts ==
    ASSUME EntryTypes
    PROVE  /\ DoclingText \in Text
           /\ FlattenSeq(flow.kept) \in Text
           /\ FlattenSeq([i \in DOMAIN document.segments |-> document.segments[i].words]) \in Text
           /\ document.kind = "image" => document.pages[1] \in Text
           /\ NewChunks \in Seq(Text)
<1>1. env \in Environments /\ flow.kept \in Seq(Seq(STRING)) /\ flow.text \in Seq(STRING)
  BY DEF EntryTypes, Text, Flows
<1>2. /\ document.kind \in {"document", "audio", "image"} /\ document.segments \in Seq(Turn)
      /\ document.kind = "image" => document.pages[1] \in Text
  BY <1>1, DocumentType
<1>3. FlattenSeq([i \in DOMAIN document.segments |-> document.segments[i].words]) \in Text
  <2> DEFINE each == [i \in DOMAIN document.segments |-> document.segments[i].words]
  <2>1. /\ Len(document.segments) \in Nat /\ DOMAIN document.segments = 1 .. Len(document.segments)
        /\ \A i \in 1 .. Len(document.segments) : document.segments[i] \in Turn
    BY <1>2, LenProperties
  <2>2. each \in Seq(Seq(STRING))
    BY <2>1 DEF Turn
  <2> HIDE DEF each
  <2>3. FlattenSeq(each) \in Seq(STRING)
    BY <2>2, FlattenType
  <2> QED BY <2>3 DEF each, Text
<1>4. ChunkText(flow.text) \in Seq(Text) /\ SimpleChunks(flow.text) \in Seq(Text)
  BY <1>1, ChunkAssumption, ChunksAtType, SimpleChunksType DEF ChunkText, Text
<1>5. SpeakerChunks(document.segments) \in Seq(Text)
  BY <1>2, SpeakerChunksType DEF Text
<1>6. NewChunks \in Seq(Text)
  BY <1>2, <1>4, <1>5 DEF NewChunks
<1> QED BY <1>1, <1>2, <1>3, <1>6, DocumentType, FlattenType DEF DoclingText, Text

---------------------------------------------------------------------------
(* The entry.                                                              *)

LEMMA TakesType ==
    ASSUME queue \in [Stages -> Nat], NEW s \in Stages, Takes(s)
    PROVE  queue' \in [Stages -> Nat]
BY DEF Takes

LEMMA ComesBackType ==
    ASSUME queue \in [Stages -> Nat], NEW s \in Stages, ComesBack(s)
    PROVE  queue' \in [Stages -> Nat] /\ repeated' = TRUE
BY DEF ComesBack

(* The steps of the others.                                                *)
LEMMA EntryInvFrame ==
    ASSUME EntryInv, UNCHANGED <<env, text, chunks, written, flow>>,
           queue' \in [Stages -> Nat], repeated' \in BOOLEAN
    PROVE  EntryInv'
BY DEF EntryInv, EntryTypes, EntryKeeps, ChunksKept, Speech, PagesKept, Keeps, Replaced,
       DoclingText, PageText, NPages, document

LEMMA RestType == Rest \in Flows
BY DEF Rest, Flows, None, Text

LEMMA EntryTypesStep ==
    ASSUME EntryInv, EntryNext, UNCHANGED env
    PROVE  EntryTypes'
<1> USE DEF jobVars, keyVars
<1>0. /\ env \in Environments /\ text \in Text /\ chunks \in Seq(Text) /\ repeated \in BOOLEAN
      /\ queue \in [Stages -> Nat] /\ written \subseteq Writings /\ flow \in Flows /\ EntryTypes
  BY DEF EntryInv, EntryTypes
<1>01. page # 0 /\ page \in Nat /\ NPages \in Nat
  <2>1. Len(flow.kept) \in Nat
    BY <1>0, LenProperties DEF Flows
  <2> QED BY <1>0, <2>1, DocumentType DEF page
<1>02. AtPage => page \in 1 .. NPages
  BY <1>01 DEF AtPage
<1>1. CASE Begins
  <2>1. queue' \in [Stages -> Nat]
    BY <1>0, <1>1, TakesType DEF Begins, Stages
  <2>2. flow' \in Flows
    <3>1. [Rest EXCEPT !.at = "gate"] \in Flows
      BY RestType DEF Flows
    <3> QED BY <1>1, <3>1 DEF Begins
  <2> QED BY <1>0, <1>1, <2>1, <2>2 DEF Begins, EntryTypes
<1>2. ASSUME NEW words \in Text, Ends(words), UNCHANGED <<text, chunks, queue, repeated, written>>
      PROVE  EntryTypes'
  <2>1. flow' \in Flows
    BY <1>0, <1>2 DEF Ends, Flows
  <2> QED BY <1>0, <1>2, <2>1 DEF EntryTypes
<1>3. CASE KeepsWhole \/ Assembles \/ Hears \/ Reads
  <2>1. \E words \in Text : Ends(words)
    BY <1>0, <1>3, EntryTexts DEF KeepsWhole, Assembles, Hears, Reads
  <2>2. UNCHANGED <<text, chunks, queue, repeated, written>>
    BY <1>3 DEF KeepsWhole, Assembles, Hears, Reads
  <2> QED BY <2>1, <2>2, <1>2
<1>4. CASE OpensPdf \/ TimeRunsOut \/ LooksAgain \/ Acks
  <2>1. flow' \in Flows
    <3>1. CASE OpensPdf \/ TimeRunsOut \/ LooksAgain
      BY <1>0, <3>1 DEF OpensPdf, TimeRunsOut, LooksAgain, Flows
    <3>2. CASE Acks
      BY <3>2, RestType DEF Acks
    <3> QED BY <1>4, <3>1, <3>2
  <2>2. UNCHANGED <<text, chunks, queue, repeated, written>>
    BY <1>4 DEF OpensPdf, TimeRunsOut, LooksAgain, Acks
  <2> QED BY <1>0, <2>1, <2>2 DEF EntryTypes
<1>5. CASE FlowErrs
  <2>1. DoclingText \in Text /\ <<>> \in Seq(Hows)
    BY <1>0, EntryTexts
  <2>2. flow' \in Flows
    BY <1>0, <1>5, <2>1 DEF FlowErrs, Flows
  <2> QED BY <1>0, <1>5, <2>2 DEF FlowErrs, EntryTypes
<1>6. ASSUME NEW words, NEW how \in Hows, AtPage, words = PageText(page), Goes(words, how),
             UNCHANGED <<text, chunks, queue, repeated, written>>
      PROVE  EntryTypes'
  <2>1. PageText(page) \in Text
    BY <1>0, PageTextType
  <2>2. Append(flow.kept, words) \in Seq(Text) /\ Append(flow.report, how) \in Seq(Hows)
    BY <1>0, <1>6, <2>1, AppendProperties DEF Flows
  <2>3. flow' \in Flows
    BY <1>0, <1>6, <2>2 DEF Flows, Goes
  <2> QED BY <1>0, <1>6, <2>3 DEF EntryTypes
<1>7. CASE KeepsGoodPage \/ KeepsPageOverBudget \/ SeesNothing \/ CannotSee
  <2>1. AtPage /\ UNCHANGED <<text, chunks, queue, repeated, written>>
    BY <1>7 DEF KeepsGoodPage, KeepsPageOverBudget, SeesNothing, CannotSee, AsksVision
  <2>2. \/ Goes(PageText(page), "pass") \/ Goes(PageText(page), "degraded")
        \/ Goes(PageText(page), "vision_empty") \/ Goes(PageText(page), "vision_error")
    BY <1>7 DEF KeepsGoodPage, KeepsPageOverBudget, SeesNothing, CannotSee
  <2> QED BY <2>1, <2>2, <1>6 DEF Hows
<1>8. CASE Replaces
  <2>1. AtPage /\ UNCHANGED <<text, chunks, queue, repeated, written>>
    BY <1>8 DEF Replaces, AsksVision
  <2>2. document.pages[page] \in Text
    BY <1>0, <1>02, <2>1, DocumentType
  <2>3. /\ flow.used + 1 \in Nat
        /\ Append(flow.kept, document.pages[page]) \in Seq(Text)
        /\ Append(flow.report, "fallback") \in Seq(Hows)
    BY <1>0, <2>2, AppendProperties DEF Flows, Hows
  <2>4. flow' \in Flows
    BY <1>0, <1>8, <2>3 DEF Replaces, Flows
  <2> QED BY <1>0, <2>1, <2>4 DEF EntryTypes
<1>9. CASE StoresText \/ StoresMedia
  <2>1. Stores /\ UNCHANGED <<queue, repeated>>
    BY <1>9 DEF StoresText, StoresMedia, Stores
  <2>2. NewChunks \in Seq(Text) /\ flow.text \in Text /\ flow.report \in Seq(Hows)
    BY <1>0, EntryTexts DEF Flows
  <2>3. [text |-> flow.text, chunks |-> NewChunks, report |-> flow.report] \in Writings
    BY <2>2 DEF Writings
  <2>4. flow' \in Flows
    BY <1>0, <2>1 DEF Stores, Flows
  <2> QED BY <1>0, <2>1, <2>2, <2>3, <2>4 DEF Stores, EntryTypes
<1>10. CASE Publishes
  <2>1. flow' \in Flows
    BY <1>0, <1>10 DEF Publishes, Flows
  <2>2. queue' \in [Stages -> Nat]
    BY <1>0, <1>10 DEF Publishes
  <2> QED BY <1>0, <1>10, <2>1, <2>2 DEF Publishes, EntryTypes
<1>11. CASE CannotHear \/ CannotRead \/ FindsNoText \/ StopsCancelled
  <2>1. flow' = Rest /\ UNCHANGED <<text, chunks, queue, repeated, written>>
    BY <1>11 DEF CannotHear, CannotRead, FindsNoText, StopsCancelled, Fails
  <2> QED BY <1>0, <2>1, RestType DEF EntryTypes
<1>12. CASE EntryDies
  <2>1. queue' \in [Stages -> Nat] /\ repeated' = TRUE
    BY <1>0, <1>12, ComesBackType DEF EntryDies, Stages
  <2>2. flow' = Rest /\ UNCHANGED <<text, chunks, written>>
    BY <1>12 DEF EntryDies
  <2> QED BY <1>0, <2>1, <2>2, RestType DEF EntryTypes
<1> QED BY <1>1, <1>3, <1>4, <1>5, <1>7, <1>8, <1>9, <1>10, <1>11, <1>12 DEF EntryNext

LEMMA EntryKeepsStep ==
    ASSUME EntryInv, EntryNext, UNCHANGED env
    PROVE  EntryKeeps'
<1> USE DEF jobVars, keyVars
<1>0. /\ env \in Environments /\ flow \in Flows /\ EntryTypes /\ EntryKeeps
      /\ Len(flow.kept) \in Nat /\ Len(flow.report) \in Nat
      /\ flow.kept \in Seq(Text) /\ flow.report \in Seq(Hows) /\ NPages \in Nat
  <2>1. env \in Environments /\ flow \in Flows /\ EntryTypes /\ EntryKeeps
    BY DEF EntryInv, EntryTypes
  <2>2. flow.kept \in Seq(Text) /\ flow.report \in Seq(Hows)
    BY <2>1 DEF Flows
  <2> QED BY <2>1, <2>2, LenProperties, DocumentType
<1>01. /\ document' = document /\ NPages' = NPages /\ DoclingText' = DoclingText
       /\ \A p : PageText(p)' = PageText(p)
       /\ \A w : Keeps(w)' <=> Keeps(w)
  BY DEF document, NPages, DoclingText, PageText, Replaced, Keeps
<1>02. AtPage => page \in 1 .. NPages /\ page = Len(flow.kept) + 1
  BY <1>0 DEF AtPage, page
<1>03. Replaced(flow)' = Replaced(flow') /\ (Keeps(flow') => Keeps(flow)')
  BY <1>01 DEF Keeps, Replaced
<1> DEFINE Pages == /\ Len(flow'.kept) = Len(flow'.report) /\ Len(flow'.kept) =< NPages
                    /\ \A p \in 1 .. Len(flow'.kept) :
                          flow'.kept[p] = IF flow'.report[p] = "fallback" THEN document.pages[p] ELSE PageText(p)
                    /\ flow'.used = 0 <=> Replaced(flow') = {}
           Both  == /\ flow'.at \in {"gate", "pages"} => Pages
                    /\ flow'.at = "gate" => Replaced(flow') = {}
                    /\ document.kind = "document" /\ flow'.at \in {"text", "looked"} => Keeps(flow')
<1>04. Pages => PagesKept'
  BY <1>01, <1>03 DEF PagesKept
<1>05. ASSUME Both, UNCHANGED <<chunks, written>> PROVE EntryKeeps'
  <2> HIDE DEF Pages
  <2>1. Stored(chunks, written)'
    BY <1>0, <1>05 DEF EntryKeeps
  <2> QED BY <1>0, <1>01, <1>03, <1>04, <1>05, <2>1 DEF EntryKeeps
<1>1. CASE Begins
  <2>1. flow' = [Rest EXCEPT !.at = "gate"] /\ UNCHANGED <<chunks, written>>
    BY <1>1 DEF Begins
  <2>2. flow'.at = "gate" /\ flow'.kept = <<>> /\ flow'.report = <<>> /\ flow'.used = 0
    BY <2>1 DEF Rest
  <2>3. Replaced(flow') = {}
    BY <2>2 DEF Replaced
  <2>4. Both
    BY <2>2, <2>3, <1>0
  <2> QED BY <2>1, <2>4, <1>05
<1>2. CASE KeepsWhole \/ FlowErrs
  <2>1. flow'.at = "text" /\ flow'.text = DoclingText /\ UNCHANGED <<chunks, written>>
    BY <1>2, <1>0 DEF KeepsWhole, FlowErrs, Ends, Flows
  <2>2. Replaced(flow') = {}
    <3>1. CASE KeepsWhole
      <4>1. flow'.report = flow.report /\ Replaced(flow) = {}
        BY <3>1, <1>0 DEF KeepsWhole, Ends, Flows, EntryKeeps
      <4> QED BY <4>1 DEF Replaced
    <3>2. CASE FlowErrs
      <4>1. flow'.report = <<>>
        BY <3>2, <1>0 DEF FlowErrs, Flows
      <4> QED BY <4>1 DEF Replaced
    <3> QED BY <1>2, <3>1, <3>2
  <2>3. Keeps(flow')
    BY <2>1, <2>2 DEF Keeps
  <2> QED BY <2>1, <2>3, <1>05
<1>3. CASE Hears \/ Reads
  <2>1. PICK words : flow' = [flow EXCEPT !.at = "text", !.text = words]
    BY <1>3 DEF Hears, Reads, Ends
  <2>2. flow'.at = "text" /\ document.kind # "document" /\ UNCHANGED <<chunks, written>>
    BY <2>1, <1>3, <1>0 DEF Hears, Reads, Flows
  <2> QED BY <2>2, <1>05
<1>4. CASE Assembles
  <2> DEFINE words == IF flow.used = 0 THEN DoclingText ELSE FlattenSeq(flow.kept)
             each  == [p \in 1 .. NPages |-> IF p \in Replaced(flow) THEN document.pages[p] ELSE PageText(p)]
  <2>1. flow' = [flow EXCEPT !.at = "text", !.text = words] /\ UNCHANGED <<chunks, written>>
    BY <1>4 DEF Assembles, Ends
  <2>2. flow'.at = "text" /\ flow'.text = words /\ flow'.report = flow.report
    BY <2>1, <1>0 DEF Flows
  <2>3. PagesKept /\ Len(flow.kept) = NPages /\ Len(flow.report) = NPages
    BY <1>4, <1>0 DEF Assembles, EntryKeeps, PagesKept, page
  <2>4. flow.kept = each
    <3>1. \A p \in 1 .. NPages : p \in Replaced(flow) <=> flow.report[p] = "fallback"
      BY <2>3, <1>0 DEF Replaced
    <3>2. \A p \in 1 .. NPages : flow.kept[p] = each[p]
      BY <2>3, <3>1 DEF PagesKept
    <3>3. DOMAIN flow.kept = 1 .. NPages /\ flow.kept = [p \in DOMAIN flow.kept |-> flow.kept[p]]
      BY <2>3, <1>0
    <3> QED BY <3>2, <3>3
  <2>5. Replaced(flow') = Replaced(flow)
    BY <2>2 DEF Replaced
  <2>6. flow.used = 0 <=> Replaced(flow) = {}
    BY <2>3 DEF PagesKept
  <2>7. Keeps(flow')
    BY <2>2, <2>4, <2>5, <2>6 DEF Keeps
  <2> HIDE DEF words, each
  <2> QED BY <2>1, <2>2, <2>7, <1>05
<1>5. ASSUME NEW words \in Text, NEW how \in Hows, AtPage, flow.at = "pages",
             flow'.at = "pages", flow'.kept = Append(flow.kept, words), flow'.report = Append(flow.report, how),
             words = IF how = "fallback" THEN document.pages[page] ELSE PageText(page),
             flow'.used = IF how = "fallback" THEN flow.used + 1 ELSE flow.used, UNCHANGED <<chunks, written>>
      PROVE  EntryKeeps'
  <2>1. PagesKept /\ flow.used \in Nat
    BY <1>5, <1>0 DEF EntryKeeps, Flows
  <2>2. Len(flow'.kept) = page /\ Len(flow'.report) = page /\ page \in 1 .. NPages
    BY <1>5, <1>0, <1>02, <2>1, AppendProperties DEF PagesKept
  <2>3. flow'.kept[page] = words /\ flow'.report[page] = how
    <3>1. page = Len(flow.kept) + 1 /\ page = Len(flow.report) + 1
      BY <1>5, <1>02, <2>1 DEF PagesKept
    <3>2. /\ Append(flow.kept, words)[Len(flow.kept) + 1] = words
          /\ Append(flow.report, how)[Len(flow.report) + 1] = how
      BY <1>5, <1>0, AppendProperties
    <3> QED BY <1>5, <3>1, <3>2
  <2>4. /\ \A p \in 1 .. page : p # page => p \in 1 .. Len(flow.kept)
        /\ \A p \in 1 .. Len(flow.kept) :
              p \in 1 .. page /\ p # page /\ flow'.kept[p] = flow.kept[p] /\ flow'.report[p] = flow.report[p]
    BY <1>02, <1>5, <1>0, <2>1, AppendProperties DEF PagesKept
  <2>5. ASSUME NEW p \in 1 .. page
        PROVE  flow'.kept[p] = IF flow'.report[p] = "fallback" THEN document.pages[p] ELSE PageText(p)
    <3>1. CASE p = page
      BY <3>1, <2>3, <1>5
    <3>2. CASE p # page
      BY <3>2, <2>1, <2>4 DEF PagesKept
    <3> QED BY <3>1, <3>2
  <2>6. flow'.used = 0 <=> Replaced(flow') = {}
    <3>1. DOMAIN flow.report = 1 .. Len(flow.kept) /\ DOMAIN flow'.report = 1 .. page
      <4>1. flow'.report \in Seq(Hows)
        BY <1>0, <1>5, AppendProperties
      <4> QED BY <4>1, <1>0, <2>1, <2>2, LenProperties DEF PagesKept
    <3>2. Replaced(flow') = IF how = "fallback" THEN Replaced(flow) \cup {page} ELSE Replaced(flow)
      BY <3>1, <2>2, <2>3, <2>4 DEF Replaced
    <3>3. flow.used = 0 <=> Replaced(flow) = {}
      BY <2>1 DEF PagesKept
    <3>4. CASE how = "fallback"
      <4>1. flow'.used # 0
        BY <3>4, <2>1, <1>5
      <4> QED BY <4>1, <3>2, <3>4
    <3>5. CASE how # "fallback"
      BY <3>2, <3>3, <3>5, <1>5
    <3> QED BY <3>4, <3>5
  <2>7. Both
    BY <2>2, <2>5, <2>6, <1>5, <1>0
  <2> HIDE DEF Both
  <2> QED BY <2>7, <1>5, <1>05
<1>6. CASE KeepsGoodPage \/ KeepsPageOverBudget \/ SeesNothing \/ CannotSee
  <2>1. PICK how \in Hows : Goes(PageText(page), how) /\ how # "fallback"
    BY <1>6 DEF KeepsGoodPage, KeepsPageOverBudget, SeesNothing, CannotSee, Hows
  <2>2. AtPage /\ flow.at = "pages" /\ UNCHANGED <<chunks, written>>
    BY <1>6 DEF KeepsGoodPage, KeepsPageOverBudget, SeesNothing, CannotSee, AsksVision, AtPage
  <2>3. PageText(page) \in Text
    BY <1>0, PageTextType
  <2>4. /\ flow'.at = "pages" /\ flow'.kept = Append(flow.kept, PageText(page))
        /\ flow'.report = Append(flow.report, how) /\ flow'.used = flow.used
    BY <2>1, <2>2, <1>0 DEF Goes, Flows
  <2> QED BY <2>1, <2>2, <2>3, <2>4, <1>5
<1>7. CASE Replaces
  <2>1. AtPage /\ flow.at = "pages" /\ UNCHANGED <<chunks, written>>
    BY <1>7 DEF Replaces, AsksVision, AtPage
  <2>2. document.pages[page] \in Text /\ "fallback" \in Hows
    BY <1>0, <1>02, <2>1, DocumentType DEF Hows
  <2>3. /\ flow'.at = "pages" /\ flow'.kept = Append(flow.kept, document.pages[page])
        /\ flow'.report = Append(flow.report, "fallback") /\ flow'.used = flow.used + 1
    BY <1>7, <2>1, <1>0 DEF Replaces, Flows
  <2> QED BY <2>1, <2>2, <2>3, <1>5
<1>8. CASE OpensPdf \/ TimeRunsOut \/ LooksAgain
  <2>1. /\ flow'.kept = flow.kept /\ flow'.report = flow.report /\ flow'.text = flow.text
        /\ flow'.used = flow.used /\ UNCHANGED <<chunks, written>>
    BY <1>8, <1>0 DEF OpensPdf, TimeRunsOut, LooksAgain, Flows
  <2>2. \/ flow.at \in {"gate", "pages"} /\ flow'.at = "pages"
        \/ flow.at = "text" /\ flow'.at = "looked"
    BY <1>8, <1>0 DEF OpensPdf, TimeRunsOut, LooksAgain, Flows
  <2>3. Replaced(flow') = Replaced(flow)
    BY <2>1 DEF Replaced
  <2>4. CASE flow.at \in {"gate", "pages"} /\ flow'.at = "pages"
    <3>1. Pages
      BY <2>1, <2>3, <2>4, <1>0 DEF EntryKeeps, PagesKept
    <3> HIDE DEF Pages
    <3> QED BY <3>1, <2>1, <2>4, <1>05
  <2>5. CASE flow.at = "text" /\ flow'.at = "looked"
    <3>1. ASSUME document.kind = "document" PROVE Keeps(flow')
      <4>1. Keeps(flow)
        BY <3>1, <2>5, <1>0 DEF EntryKeeps
      <4> QED BY <4>1, <2>1, <2>3 DEF Keeps
    <3> QED BY <3>1, <2>1, <2>5, <1>05
  <2> QED BY <2>2, <2>4, <2>5
<1>9. CASE StoresText \/ StoresMedia
  <2> DEFINE new == [text |-> flow.text, chunks |-> NewChunks, report |-> flow.report]
  <2>1. /\ flow' = [flow EXCEPT !.at = "stored"] /\ chunks' = NewChunks /\ written' = written \cup {new}
        /\ flow.at = "looked" \/ document.kind # "document"
    BY <1>9 DEF StoresText, StoresMedia, Stores
  <2>2. flow'.at = "stored"
    BY <2>1, <1>0 DEF Flows
  <2>3. Stored(chunks, written)'
    <3>1. new \in written' /\ new.chunks = chunks'
      BY <2>1
    <3> QED BY <3>1 DEF Stored
  <2>4. ASSUME document.kind = "document", NEW w \in written' PROVE Keeps(w)
    <3>1. CASE w \in written
      BY <3>1, <2>4, <1>0 DEF EntryKeeps
    <3>2. CASE w = new
      <4>1. Keeps(flow) /\ w.text = flow.text /\ w.report = flow.report
        BY <2>1, <2>4, <3>2, <1>0 DEF EntryKeeps
      <4> QED BY <4>1 DEF Keeps, Replaced
    <3> QED BY <2>1, <3>1, <3>2
  <2> HIDE DEF new
  <2> QED BY <2>2, <2>3, <2>4, <1>01 DEF EntryKeeps
<1>10. CASE Publishes
  <2>1. flow'.at = "published" /\ UNCHANGED <<chunks, written>>
    BY <1>10, <1>0 DEF Publishes, Flows
  <2> QED BY <2>1, <1>05
<1>11. CASE Acks \/ CannotHear \/ CannotRead \/ FindsNoText \/ StopsCancelled \/ EntryDies
  <2>1. flow' = Rest /\ UNCHANGED <<chunks, written>>
    BY <1>11 DEF Acks, CannotHear, CannotRead, FindsNoText, StopsCancelled, Fails, EntryDies
  <2>2. flow'.at = "idle"
    BY <2>1 DEF Rest
  <2> QED BY <2>1, <2>2, <1>05
<1> QED BY <1>1, <1>2, <1>3, <1>4, <1>6, <1>7, <1>8, <1>9, <1>10, <1>11 DEF EntryNext

(* Whatever its kind, the document is stored with all of its text in chunks.*)
LEMMA NewChunksHave ==
    ASSUME EntryTypes, ChunksKept, flow.at = "looked" \/ (flow.at = "text" /\ document.kind # "document"),
           NEW i \in DOMAIN flow.text
    PROVE  \E c \in Range(NewChunks) : flow.text[i] \in Range(c)
<1>1. /\ env \in Environments /\ flow.text \in Seq(STRING)
      /\ document.kind \in {"document", "audio", "image"} /\ document.segments \in Seq(Turn)
  BY DocumentType DEF EntryTypes, Flows, Text
<1>2. i \in 1 .. Len(flow.text)
  BY <1>1, LenProperties
<1>3. CASE document.kind = "document"
  BY <1>1, <1>2, <1>3, ChunksHave DEF NewChunks
<1>4. CASE document.kind = "image"
  BY <1>1, <1>2, <1>4, ChunksHave DEF NewChunks
<1>5. CASE document.kind = "audio"
  <2>1. flow.text = Speech
    BY <1>5 DEF ChunksKept
  <2>2. PICK j \in 1 .. Len(document.segments) : flow.text[i] \in Range(document.segments[j].words)
    BY <1>1, <2>1, SegmentsHave DEF Speech
  <2>3. \E c \in Range(SpeakerChunks(document.segments)) : flow.text[i] \in Range(c)
    BY <1>1, <2>2, SpeakerChunksHave
  <2>4. NewChunks = SpeakerChunks(document.segments)
    BY <1>5 DEF NewChunks
  <2> QED BY <2>3, <2>4
<1> QED BY <1>1, <1>3, <1>4, <1>5

LEMMA ChunksKeptStep ==
    ASSUME EntryInv, EntryNext, UNCHANGED env
    PROVE  ChunksKept'
<1> USE DEF jobVars, keyVars
<1>0. env \in Environments /\ flow \in Flows /\ EntryTypes /\ ChunksKept
  BY DEF EntryInv, EntryTypes
<1>01. document' = document /\ Speech' = Speech
  BY DEF document, Speech
<1>02. ASSUME flow'.at \in {"pages", "looked"} => document.kind = "document",
              document.kind = "audio" /\ flow'.at = "text" => flow'.text = Speech,
              UNCHANGED written
       PROVE  ChunksKept'
  BY <1>0, <1>01, <1>02 DEF ChunksKept
<1>1. CASE KeepsWhole \/ FlowErrs \/ Assembles
  <2>1. document.kind = "document" /\ UNCHANGED written
    BY <1>0, <1>1 DEF KeepsWhole, FlowErrs, Assembles, ChunksKept
  <2> QED BY <2>1, <1>02
<1>2. CASE Reads
  <2>1. document.kind = "image" /\ flow'.at = "text" /\ UNCHANGED written
    BY <1>0, <1>2 DEF Reads, Ends, Flows
  <2> QED BY <2>1, <1>02
<1>3. CASE Hears
  <2>1. flow'.at = "text" /\ flow'.text = Speech /\ UNCHANGED written
    BY <1>0, <1>3 DEF Hears, Ends, Flows, Speech
  <2> QED BY <2>1, <1>02
<1>4. CASE OpensPdf \/ LooksAgain
  <2>1. document.kind = "document" /\ UNCHANGED written
    BY <1>4 DEF OpensPdf, LooksAgain
  <2> QED BY <2>1, <1>02
<1>5. CASE \/ KeepsGoodPage \/ KeepsPageOverBudget \/ TimeRunsOut
           \/ Replaces \/ SeesNothing \/ CannotSee
  <2>1. flow.at = "pages" /\ UNCHANGED written
    BY <1>5 DEF KeepsGoodPage, KeepsPageOverBudget, TimeRunsOut, Replaces, SeesNothing, CannotSee, AsksVision, AtPage
  <2>2. document.kind = "document"
    BY <1>0, <2>1 DEF ChunksKept
  <2> QED BY <2>1, <2>2, <1>02
<1>6. CASE StoresText \/ StoresMedia
  <2> DEFINE new == [text |-> flow.text, chunks |-> NewChunks, report |-> flow.report]
  <2>1. /\ flow' = [flow EXCEPT !.at = "stored"] /\ written' = written \cup {new}
        /\ flow.at = "looked" \/ (flow.at = "text" /\ document.kind # "document")
    BY <1>6 DEF StoresText, StoresMedia, Stores
  <2>2. flow'.at = "stored"
    BY <2>1, <1>0 DEF Flows
  <2>3. IsChunked(new)
    <3>1. \A i \in DOMAIN flow.text : \E c \in Range(NewChunks) : flow.text[i] \in Range(c)
      BY <1>0, <2>1, NewChunksHave
    <3> QED BY <3>1 DEF IsChunked
  <2>4. \A w \in written : IsChunked(w)
    BY <1>0 DEF ChunksKept
  <2> HIDE DEF new
  <2>5. \A w \in written' : IsChunked(w)
    BY <2>1, <2>3, <2>4
  <2> QED BY <2>2, <2>5 DEF ChunksKept
<1>7. CASE Publishes
  <2>1. flow'.at = "published" /\ UNCHANGED written
    BY <1>0, <1>7 DEF Publishes, Flows
  <2> QED BY <2>1, <1>02
<1>8. CASE Begins \/ Acks \/ CannotHear \/ CannotRead \/ FindsNoText \/ StopsCancelled \/ EntryDies
  <2>1. flow' \in {Rest, [Rest EXCEPT !.at = "gate"]} /\ UNCHANGED written
    BY <1>8 DEF Begins, Acks, CannotHear, CannotRead, FindsNoText, StopsCancelled, Fails, EntryDies
  <2>2. flow'.at \in {"idle", "gate"}
    BY <2>1 DEF Rest
  <2> QED BY <2>1, <2>2, <1>02
<1> QED BY <1>1, <1>2, <1>3, <1>4, <1>5, <1>6, <1>7, <1>8 DEF EntryNext

(* What the workers of the other stages leave alone.                       *)
LEMMA OthersKeepTexts ==
    ASSUME EntryTypes, EmbNext \/ EntNext \/ InfNext
    PROVE  /\ UNCHANGED <<text, chunks, written>>
           /\ queue' \in [Stages -> Nat] /\ repeated' \in BOOLEAN
<1> USE DEF jobVars, keyVars
<1>0. queue \in [Stages -> Nat] /\ repeated \in BOOLEAN
  BY DEF EntryTypes
<1>1. CASE EmbTakes \/ EntTakes \/ EntStopsCancelled \/ InfTakes
  <2>1. \E s \in Stages : Takes(s)
    BY <1>1 DEF EmbTakes, EntTakes, EntStopsCancelled, InfTakes, Stages
  <2>2. UNCHANGED <<text, chunks, written, repeated>>
    BY <1>1 DEF EmbTakes, EntTakes, EntStopsCancelled, InfTakes
  <2> QED BY <2>1, <2>2, <1>0, TakesType
<1>2. CASE EmbDies \/ EntDies \/ InfDies
  <2>1. \E s \in Stages : ComesBack(s)
    BY <1>2 DEF EmbDies, EntDies, InfDies, Stages
  <2>2. UNCHANGED <<text, chunks, written>>
    BY <1>2 DEF EmbDies, EntDies, InfDies
  <2> QED BY <2>1, <2>2, <1>0, ComesBackType
<1>3. CASE \/ EmbIsAnswered \/ EmbIsRefused \/ EmbFails \/ EmbMarks \/ EmbStores
           \/ EmbLooksForInferences \/ EmbInfers \/ EmbStoresInferences \/ EmbTells \/ CacheExpires
  <2>1. UNCHANGED <<text, chunks, written, queue, repeated>>
    BY <1>3 DEF EmbIsAnswered, EmbIsRefused, EmbFails, EmbMarks, EmbStores,
           EmbLooksForInferences, EmbInfers, EmbStoresInferences, EmbTells, CacheExpires
  <2> QED BY <2>1, <1>0
<1>4. CASE PredictsLarge \/ PredictsBatch \/ AddsRules \/ EntStores
  <2>1. UNCHANGED <<text, chunks, written, queue, repeated>>
    BY <1>4 DEF PredictsLarge, PredictsBatch, AddsRules, EntStores
  <2> QED BY <2>1, <1>0
<1>5. CASE \/ LooksUp \/ AnswersBatch \/ HasNothingToAsk \/ CannotAskBatch
           \/ TakesOne \/ RecallsOne \/ AnswersOne \/ CannotAskOne \/ Assembled \/ MemoExpires
  <2>1. UNCHANGED <<text, chunks, written, queue, repeated>>
    BY <1>5 DEF LooksUp, AnswersBatch, HasNothingToAsk, CannotAskBatch,
           TakesOne, RecallsOne, AnswersOne, CannotAskOne, Assembled, MemoExpires
  <2> QED BY <2>1, <1>0
<1> QED BY <1>1, <1>2, <1>3, <1>4, <1>5 DEF EmbNext, EntNext, InfNext

LEMMA EndKeepsTexts ==
    ASSUME Finishing \/ IsCancelled
    PROVE  UNCHANGED <<text, chunks, written, queue, repeated>>
BY DEF Finishing, Ignores, FinReads, FinReadsVectors, FinInfers, FinHasThem, FinFails, FinWrites,
       IsCancelled, othersThanFin

LEMMA EntryStep ==
    ASSUME EntryInv, [Next]_vars
    PROVE  EntryInv'
<1>0. EntryTypes /\ queue \in [Stages -> Nat] /\ repeated \in BOOLEAN
  BY DEF EntryInv, EntryTypes
<1>1. CASE Entry
  BY <1>1, EntryTypesStep, EntryKeepsStep, ChunksKeptStep DEF Entry, EntryInv
<1>2. CASE Embedding \/ Entities \/ Inferring
  <2>1. UNCHANGED <<env, flow>> /\ (EmbNext \/ EntNext \/ InfNext)
    BY <1>2 DEF Embedding, Entities, Inferring, flowVars
  <2> QED BY <1>0, <2>1, OthersKeepTexts, EntryInvFrame
<1>3. CASE Finishing \/ (IsCancelled /\ UNCHANGED env)
  <2>1. UNCHANGED <<env, flow>>
    BY <1>3 DEF Finishing, Ignores, FinReads, FinReadsVectors, FinInfers, FinHasThem, FinFails, FinWrites,
       IsCancelled, othersThanFin, flowVars
  <2> QED BY <1>0, <1>3, <2>1, EndKeepsTexts, EntryInvFrame
<1>4. CASE UNCHANGED vars
  <2>1. UNCHANGED <<env, text, chunks, written, flow, queue, repeated>>
    BY <1>4 DEF vars, jobVars, keyVars, flowVars
  <2> QED BY <1>0, <2>1, EntryInvFrame
<1> QED BY <1>1, <1>2, <1>3, <1>4 DEF Next

(* Texts are only ever added to what was stored.                           *)
LEMMA WrittenGrows ==
    ASSUME EntryInv, [Next]_vars
    PROVE  written \subseteq written'
<1>0. EntryTypes
  BY DEF EntryInv
<1>1. CASE Entry
  <2>1. CASE StoresText \/ StoresMedia
    BY <2>1 DEF StoresText, StoresMedia, Stores
  <2>2. CASE ~(StoresText \/ StoresMedia)
    BY <1>1, <2>2 DEF Entry, EntryNext, Begins, KeepsWhole, OpensPdf, FlowErrs,
        KeepsGoodPage, KeepsPageOverBudget, TimeRunsOut, Replaces, SeesNothing, CannotSee, Assembles,
        Hears, Reads, CannotHear, CannotRead, LooksAgain, Publishes, Acks, FindsNoText,
        StopsCancelled, EntryDies, Fails, jobVars
  <2> QED BY <2>1, <2>2
<1>2. CASE Embedding \/ Entities \/ Inferring
  BY <1>0, <1>2, OthersKeepTexts DEF Embedding, Entities, Inferring
<1>3. CASE Finishing \/ (IsCancelled /\ UNCHANGED env)
  BY <1>3, EndKeepsTexts
<1>4. CASE UNCHANGED vars
  BY <1>4 DEF vars, jobVars
<1> QED BY <1>1, <1>2, <1>3, <1>4 DEF Next

---------------------------------------------------------------------------
(* The embeddings.                                                         *)

(* In a good answer the vector with the index i is that of the text i.     *)
LEMMA AnswersByPlace ==
    ASSUME NEW texts, NEW data \in Answers(texts), NEW i \in DOMAIN texts
    PROVE  VectorAt(data, i) = Vec(texts[i])
<1>1. PICK order \in [DOMAIN texts -> DOMAIN texts] :
         /\ data = [k \in DOMAIN texts |-> [index |-> order[k], embedding |-> Vec(texts[order[k]])]]
         /\ \A j \in DOMAIN texts : \E k \in DOMAIN texts : order[k] = j
  BY DEF Answers
<1>2. DOMAIN data = DOMAIN texts /\ \A k \in DOMAIN texts : data[k].index = order[k] /\ data[k].embedding = Vec(texts[order[k]])
  BY <1>1
<1> DEFINE at == CHOOSE k \in DOMAIN data : data[k].index = i
<1>3. at \in DOMAIN texts /\ data[at].index = i
  BY <1>1, <1>2
<1>4. data[at].embedding = Vec(texts[order[at]]) /\ order[at] = i
  <2> HIDE DEF at
  <2> QED BY <1>2, <1>3
<1> QED BY <1>4 DEF VectorAt

LEMMA VecType ==
    /\ None \in MaybeVector /\ \A t \in Text : Vec(t) \in MaybeVector
    /\ \A f \in FactOf(Text) : Vec(f) \in MaybeVector
BY DEF MaybeVector

LEMMA EmbIdleType == EmbIdle \in Embs /\ EmbIdle.at = "idle" /\ EmbIdle.got = <<>> /\ EmbIdle.texts = <<>>
BY DEF EmbIdle, Embs

LEMMA EmptyOf ==
    ASSUME NEW W
    PROVE  OfChunks(<<>>, W) /\ FactsOfChunks(<<>>, W) /\ Stored(<<>>, W) /\ <<>> \in Seq(Mentioned(W))
BY DEF OfChunks, FactsOfChunks, Stored, None

LEMMA VectorsOfType ==
    ASSUME NEW facts \in Seq(FactOf(Text)), NEW heard
    PROVE  VectorsOf(facts, heard) \in Seq(MaybeVector)
<1>1. Len(facts) \in Nat /\ DOMAIN facts = 1 .. Len(facts) /\ \A k \in 1 .. Len(facts) : facts[k] \in FactOf(Text)
  BY LenProperties
<1> QED BY <1>1, VecType DEF VectorsOf

(* The steps that leave the worker idle or as it was, and the cache right. *)
LEMMA EmbInvFrame ==
    ASSUME EmbInv, written \subseteq written',
           emb' = EmbIdle \/ emb' = emb,
           \A t \in DOMAIN cache' : cache'[t] = Vec(t),
           UNCHANGED <<degraded, touched, vectors>>,
           inferenceVectors' \in Seq(Seq(MaybeVector))
    PROVE  EmbInv'
<1>1. OfChunks(emb.got, written') /\ OfChunks(vectors, written') /\ Stored(emb.texts, written')
  BY StoredGrows DEF EmbInv
<1>2. OfChunks(EmbIdle.got, written') /\ Stored(EmbIdle.texts, written')
  BY EmbIdleType, EmptyOf
<1> QED BY <1>1, <1>2, EmbIdleType DEF EmbInv

LEMMA EmbInvStep ==
    ASSUME EntryInv, EmbInv, InfInv, EmbNext
    PROVE  EmbInv'
<1> USE DEF jobVars, keyVars, vectorVars
<1>0. /\ emb \in Embs /\ degraded \in BOOLEAN /\ touched \in BOOLEAN
      /\ vectors \in Seq(MaybeVector) /\ inferenceVectors \in Seq(Seq(MaybeVector))
      /\ Len(emb.got) = Len(emb.texts) /\ Stored(emb.texts, written)
      /\ \A t \in DOMAIN cache : cache[t] = Vec(t)
      /\ OfChunks(emb.got, written) /\ OfChunks(vectors, written)
      /\ chunks \in Seq(Text) /\ Stored(chunks, written)
      /\ inferences \in Seq(Seq(FactOf(Text)))
  BY DEF EntryInv, EntryTypes, EntryKeeps, EmbInv, InfInv
<1>01. UNCHANGED <<text, chunks, written>>
  BY OthersKeepTexts DEF EntryInv
<1>02. /\ emb.texts \in Seq(Text) /\ emb.got \in Seq(MaybeVector) /\ emb.left \in Seq(Nat)
       /\ emb.infs \in Seq(Seq(FactOf(Text))) /\ emb.ivecs \in Seq(Seq(MaybeVector))
  BY <1>0 DEF Embs
<1>1. CASE EmbTakes
  <2> DEFINE got  == [i \in DOMAIN chunks |-> FromCache(chunks[i])]
             left == Chosen(Places(chunks), {i \in DOMAIN chunks : FromCache(chunks[i]) = None})
             new  == [EmbIdle EXCEPT !.at = "asking", !.texts = chunks, !.got = got, !.left = left]
  <2>1. Len(chunks) \in Nat /\ DOMAIN chunks = 1 .. Len(chunks) /\ \A i \in 1 .. Len(chunks) : chunks[i] \in Text
    BY <1>0, LenProperties
  <2>2. \A i \in 1 .. Len(chunks) : FromCache(chunks[i]) \in {None, Vec(chunks[i])}
    BY <1>0 DEF FromCache
  <2>3. got \in Seq(MaybeVector) /\ Len(got) = Len(chunks)
    <3>1. got \in [1 .. Len(chunks) -> MaybeVector]
      BY <2>1, <2>2, VecType
    <3> HIDE DEF got
    <3> QED BY <3>1, <2>1
  <2>4. OfChunks(got, written)
    <3>1. \A i \in DOMAIN got : chunks[i] \in TextsAt(written, i)
      BY <1>0, StoredTexts
    <3> QED BY <2>1, <2>2, <3>1 DEF OfChunks
  <2>5. left \in Seq(Nat)
    <3>1. Places(chunks) \in Seq(1 .. Len(chunks))
      BY <1>0, PlacesType
    <3>2. Range(Places(chunks)) \subseteq Nat
      <4>1. Range(Places(chunks)) \subseteq 1 .. Len(chunks)
        BY <3>1, RangeOfSeq
      <4> QED BY <4>1, <2>1
    <3>3. left \in Seq({i \in DOMAIN chunks : FromCache(chunks[i]) = None} \cap Range(Places(chunks)))
      BY <3>1, ChosenType
    <3> HIDE DEF left
    <3> QED BY <3>2, <3>3, SeqMonotonic
  <2>6. emb' = new /\ UNCHANGED <<cache, degraded, vectors, inferenceVectors, touched>>
    BY <1>1 DEF EmbTakes
  <2> HIDE DEF got, left
  <2>7. new \in Embs /\ new.texts = chunks /\ new.got = got
    BY <1>0, <2>3, <2>5, EmbIdleType DEF Embs
  <2> HIDE DEF new
  <2> QED BY <1>0, <1>01, <2>3, <2>4, <2>6, <2>7 DEF EmbInv
<1>2. CASE EmbIsAnswered
  <2> DEFINE batch == Batch
             texts == [k \in DOMAIN batch |-> emb.texts[batch[k]]]
             New(data, t) == VectorAt(data, CHOOSE k \in DOMAIN texts : texts[k] = t)
             Got(data, i) == VectorAt(data, CHOOSE k \in DOMAIN batch : batch[k] = i)
             got(data) == [i \in DOMAIN emb.got |-> IF i \in Range(batch) THEN Got(data, i) ELSE emb.got[i]]
  <2>1. PICK data \in Answers(texts) :
            /\ emb' = [emb EXCEPT !.left = Beyond(@, Len(batch)), !.got = got(data)]
            /\ cache' = [t \in DOMAIN cache \cup Range(texts) |-> IF t \in Range(texts) THEN New(data, t) ELSE cache[t]]
    BY <1>2 DEF EmbIsAnswered
  <2>2. UNCHANGED <<degraded, vectors, inferenceVectors, touched>>
    BY <1>2 DEF EmbIsAnswered
  <2>3. DOMAIN texts = DOMAIN batch
    OBVIOUS
  <2>4. \A t \in Range(texts) : New(data, t) = Vec(t)
    <3> TAKE t \in Range(texts)
    <3> DEFINE k == CHOOSE k \in DOMAIN texts : texts[k] = t
    <3>1. k \in DOMAIN texts /\ texts[k] = t
      <4> HIDE DEF texts
      <4> QED BY DEF Range
    <3> HIDE DEF texts, k
    <3>2. VectorAt(data, k) = Vec(t)
      BY <3>1, AnswersByPlace
    <3> QED BY <3>2 DEF k
  <2>5. \A i \in Range(batch) : Got(data, i) = Vec(emb.texts[i])
    <3> TAKE i \in Range(batch)
    <3> DEFINE k == CHOOSE k \in DOMAIN batch : batch[k] = i
    <3>1. k \in DOMAIN batch /\ batch[k] = i
      <4> HIDE DEF batch
      <4> QED BY DEF Range
    <3>2. k \in DOMAIN texts /\ texts[k] = emb.texts[i]
      <4> HIDE DEF k, batch
      <4> QED BY <3>1
    <3> HIDE DEF texts, k
    <3>3. VectorAt(data, k) = Vec(emb.texts[i])
      BY <3>2, AnswersByPlace
    <3> QED BY <3>3 DEF k
  <2>6. /\ Len(emb.got) \in Nat /\ DOMAIN emb.got = 1 .. Len(emb.got) /\ DOMAIN emb.texts = DOMAIN emb.got
        /\ \A i \in DOMAIN emb.got : emb.got[i] \in MaybeVector
        /\ \A i \in DOMAIN emb.texts : emb.texts[i] \in Text
    BY <1>0, <1>02, LenProperties
  <2> HIDE DEF texts, batch, New, Got
  <2>7. \A t \in DOMAIN cache' : cache'[t] = Vec(t)
    BY <2>1, <2>4, <1>0
  <2>8. got(data) \in Seq(MaybeVector) /\ Len(got(data)) = Len(emb.got)
    <3>1. \A i \in DOMAIN emb.got : got(data)[i] \in MaybeVector
      BY <2>5, <2>6, VecType
    <3>2. got(data) \in [1 .. Len(emb.got) -> MaybeVector]
      BY <2>6, <3>1
    <3> HIDE DEF got
    <3> QED BY <2>6, <3>2
  <2>9. OfChunks(got(data), written)
    <3>1. \A i \in DOMAIN emb.got : emb.texts[i] \in TextsAt(written, i)
      BY <1>0, <2>6, StoredTexts
    <3> QED BY <2>5, <3>1, <1>0 DEF OfChunks
  <2>10. Beyond(emb.left, Len(batch)) \in Seq(Nat)
    <3>1. Len(batch) \in Nat
      <4>1. Len(emb.left) \in Nat /\ \A i \in 1 .. Len(emb.left) : emb.left[i] \in Nat
        BY <1>02, LenProperties
      <4>2. batch \in Seq(Nat)
        BY <4>1, BatchAssumption, SubSeqProperties DEF batch, Batch
      <4> QED BY <4>2, LenProperties
    <3>2. Len(emb.left) \in Nat /\ \A i \in 1 .. Len(emb.left) : emb.left[i] \in Nat
      BY <1>02, LenProperties
    <3> QED BY <3>1, <3>2, SubSeqProperties DEF Beyond
  <2> HIDE DEF got
  <2>11. emb' \in Embs /\ emb'.texts = emb.texts /\ emb'.got = got(data)
    BY <1>0, <2>1, <2>8, <2>10 DEF Embs
  <2> QED BY <1>0, <1>01, <2>2, <2>7, <2>8, <2>9, <2>11 DEF EmbInv
<1>3. CASE EmbIsRefused
  <2>1. Beyond(emb.left, Len(Batch)) \in Seq(Nat)
    <3>1. Len(emb.left) \in Nat /\ \A i \in 1 .. Len(emb.left) : emb.left[i] \in Nat
      BY <1>02, LenProperties
    <3>2. Len(Batch) \in Nat
      <4>1. Batch \in Seq(Nat)
        BY <3>1, BatchAssumption, SubSeqProperties DEF Batch
      <4> QED BY <4>1, LenProperties
    <3> QED BY <3>1, <3>2, SubSeqProperties DEF Beyond
  <2>2. emb' \in Embs /\ emb'.texts = emb.texts /\ emb'.got = emb.got
    BY <1>0, <1>3, <2>1 DEF EmbIsRefused, Embs
  <2>3. UNCHANGED <<cache, degraded, vectors, inferenceVectors, touched>>
    BY <1>3 DEF EmbIsRefused
  <2> QED BY <1>0, <1>01, <2>2, <2>3 DEF EmbInv
<1>4. CASE EmbFails \/ EmbTells \/ EmbDies \/ CacheExpires
  <2>1. emb' = EmbIdle \/ emb' = emb
    BY <1>4 DEF EmbFails, EmbTells, EmbDies, CacheExpires
  <2>2. \A t \in DOMAIN cache' : cache'[t] = Vec(t)
    BY <1>0, <1>4 DEF EmbFails, EmbTells, EmbDies, CacheExpires
  <2>3. UNCHANGED <<degraded, touched, vectors, inferenceVectors>>
    BY <1>4 DEF EmbFails, EmbTells, EmbDies, CacheExpires
  <2> QED BY <1>0, <1>01, <2>1, <2>2, <2>3, EmbInvFrame
<1>5. CASE EmbMarks
  <2>1. emb' \in Embs /\ emb'.texts = emb.texts /\ emb'.got = emb.got
    BY <1>0, <1>5 DEF EmbMarks, Embs
  <2>2. degraded' \in BOOLEAN /\ UNCHANGED <<cache, vectors, inferenceVectors, touched>>
    BY <1>5 DEF EmbMarks
  <2> QED BY <1>0, <1>01, <2>1, <2>2 DEF EmbInv
<1>6. CASE EmbStores
  <2>1. emb' \in Embs /\ emb'.texts = emb.texts /\ emb'.got = emb.got
    BY <1>0, <1>6 DEF EmbStores, Embs
  <2>2. vectors' = emb.got /\ UNCHANGED <<cache, degraded, inferenceVectors, touched>>
    BY <1>6 DEF EmbStores
  <2> QED BY <1>0, <1>01, <1>02, <2>1, <2>2 DEF EmbInv
<1>7. CASE EmbLooksForInferences
  <2>1. emb' \in Embs /\ emb'.texts = emb.texts /\ emb'.got = emb.got
    BY <1>0, <1>7 DEF EmbLooksForInferences, Embs
  <2>2. UNCHANGED <<cache, degraded, vectors, inferenceVectors, touched>>
    BY <1>7 DEF EmbLooksForInferences
  <2> QED BY <1>0, <1>01, <2>1, <2>2 DEF EmbInv
<1>8. CASE EmbInfers
  <2> DEFINE facts == emb.infs[Len(emb.ivecs) + 1]
  <2>1. PICK heard \in SUBSET DOMAIN facts :
            /\ degraded' = IF heard = {} THEN degraded ELSE heard # DOMAIN facts
            /\ emb' = [emb EXCEPT !.ivecs = Append(@, IF heard = {} THEN None ELSE VectorsOf(facts, heard))]
            /\ touched' = (touched \/ heard # {})
    BY <1>8 DEF EmbInfers
  <2>2. facts \in Seq(FactOf(Text))
    <3>1. Len(emb.ivecs) + 1 \in 1 .. Len(emb.infs)
      BY <1>8, <1>02, LenProperties DEF EmbInfers
    <3> QED BY <3>1, <1>02, ElementOfSeq
  <2>3. VectorsOf(facts, heard) \in Seq(MaybeVector) /\ None \in Seq(MaybeVector)
    BY <2>2, VectorsOfType DEF None
  <2>4. (IF heard = {} THEN None ELSE VectorsOf(facts, heard)) \in Seq(MaybeVector)
    BY <2>3
  <2>5. Append(emb.ivecs, IF heard = {} THEN None ELSE VectorsOf(facts, heard)) \in Seq(Seq(MaybeVector))
    BY <2>4, <1>02, AppendProperties
  <2>6. emb' \in Embs /\ emb'.texts = emb.texts /\ emb'.got = emb.got
    BY <1>0, <2>1, <2>5 DEF Embs
  <2>7. degraded' \in BOOLEAN /\ touched' \in BOOLEAN
    BY <1>0, <2>1
  <2>8. UNCHANGED <<cache, vectors, inferenceVectors>>
    BY <1>8 DEF EmbInfers
  <2> QED BY <1>0, <1>01, <2>6, <2>7, <2>8 DEF EmbInv
<1>9. CASE EmbStoresInferences
  <2>1. emb' \in Embs /\ emb'.texts = emb.texts /\ emb'.got = emb.got
    BY <1>0, <1>9 DEF EmbStoresInferences, Embs
  <2>2. inferenceVectors' \in Seq(Seq(MaybeVector)) /\ UNCHANGED <<cache, degraded, vectors, touched>>
    BY <1>0, <1>02, <1>9 DEF EmbStoresInferences
  <2> QED BY <1>0, <1>01, <2>1, <2>2 DEF EmbInv
<1> QED BY <1>1, <1>2, <1>3, <1>4, <1>5, <1>6, <1>7, <1>8, <1>9 DEF EmbNext

---------------------------------------------------------------------------
(* The inferences.                                                         *)

LEMMA SureType ==
    ASSUME NEW T, NEW facts \in Seq(FactOf(T))
    PROVE  /\ Sure(facts) \in Seq(FactOf(T))
           /\ \A f \in Range(Sure(facts)) : f.of \in T /\ f.confidence >= MinConfidence
<1> DEFINE S == {f \in Range(facts) : f.confidence >= MinConfidence}
<1>1. Sure(facts) \in Seq(S \cap Range(facts))
  BY ChosenType DEF Sure
<1>2. Range(facts) \subseteq FactOf(T)
  BY RangeOfSeq
<1>3. Range(Sure(facts)) \subseteq S
  <2> HIDE DEF S
  <2> QED BY <1>1, RangeOfSeq
<1>4. Sure(facts) \in Seq(FactOf(T))
  <2> HIDE DEF S
  <2> QED BY <1>1, <1>2, SeqMonotonic
<1> QED BY <1>2, <1>3, <1>4 DEF FactOf

LEMMA FactsType ==
    ASSUME NEW t
    PROVE  Facts(t) \in Seq(FactOf({t}))
BY DEF Facts, FactOf

(* Facts about a text are facts about texts.                               *)
LEMMA FactsWiden ==
    ASSUME NEW t \in Text, NEW s \in Seq(FactOf({t}))
    PROVE  s \in Seq(FactOf(Text))
<1>1. FactOf({t}) \subseteq FactOf(Text)
  BY DEF FactOf
<1> QED BY <1>1, SeqMonotonic

(* What is said of t, or nothing.                                          *)
SureOf(t) == {s \in Seq(FactOf(Text)) : \A f \in Range(s) : f.of = t /\ f.confidence >= MinConfidence}

LEMMA SureOfType ==
    ASSUME NEW t \in Text
    PROVE  /\ <<>> \in SureOf(t) /\ Sure(Facts(t)) \in SureOf(t)
           /\ \A s \in Seq(FactOf({t})) : Sure(s) \in SureOf(t)
<1>1. <<>> \in SureOf(t)
  BY DEF SureOf, Range
<1>2. ASSUME NEW s \in Seq(FactOf({t})) PROVE Sure(s) \in SureOf(t)
  <2>1. Sure(s) \in Seq(FactOf({t})) /\ \A f \in Range(Sure(s)) : f.of = t /\ f.confidence >= MinConfidence
    BY SureType
  <2> QED BY <2>1, FactsWiden DEF SureOf
<1> QED BY <1>1, <1>2, FactsType

LEMMA InfIdleType == InfIdle \in Infs /\ InfIdle.at = "idle" /\ InfIdle.got = <<>> /\ InfIdle.texts = <<>> /\ InfIdle.left = <<>>
BY DEF InfIdle, Infs

LEMMA InfInvFrame ==
    ASSUME InfInv, written \subseteq written',
           inf' = InfIdle \/ inf' = inf,
           \A t \in DOMAIN memo' : memo'[t] \in Seq(FactOf({t})),
           inferences' = inferences \/ inferences' = inf.got
    PROVE  InfInv'
<1>1. FactsOfChunks(inf.got, written') /\ FactsOfChunks(inferences, written') /\ Stored(inf.texts, written')
  BY StoredGrows DEF InfInv
<1>2. FactsOfChunks(InfIdle.got, written') /\ Stored(InfIdle.texts, written')
  BY InfIdleType, EmptyOf
<1>3. inferences' \in Seq(Seq(FactOf(Text)))
  BY DEF InfInv, Infs
<1>4. CASE inf' = InfIdle
  <2>1. InfIdle.left \in Seq(1 .. Len(InfIdle.texts)) /\ Len(InfIdle.got) =< Len(InfIdle.texts)
    BY InfIdleType
  <2> QED BY <1>1, <1>2, <1>3, <1>4, <2>1, InfIdleType DEF InfInv
<1>5. CASE inf' = inf
  BY <1>1, <1>3, <1>5 DEF InfInv
<1> QED BY <1>4, <1>5

LEMMA NextFit ==
    ASSUME NEW all \in Nat, NEW done \in Nat, NEW most \in Nat, done =< all
    PROVE  LET n == IF all - done < most THEN all - done ELSE most
           IN  n \in Nat /\ done + n =< all
OBVIOUS

LEMMA InfInvStep ==
    ASSUME EntryInv, InfInv, InfNext
    PROVE  InfInv'
<1> USE DEF jobVars, keyVars
<1>0. /\ inf \in Infs /\ inferences \in Seq(Seq(FactOf(Text)))
      /\ inf.left \in Seq(1 .. Len(inf.texts)) /\ Len(inf.got) =< Len(inf.texts)
      /\ (inf.at = "alone" => inf.left # <<>>)
      /\ Stored(inf.texts, written)
      /\ \A t \in DOMAIN memo : memo[t] \in Seq(FactOf({t}))
      /\ FactsOfChunks(inf.got, written) /\ FactsOfChunks(inferences, written)
      /\ written \subseteq Writings
  BY DEF EntryInv, EntryTypes, InfInv
<1>01. UNCHANGED written
  BY OthersKeepTexts DEF EntryInv
<1>02. inf.texts \in Seq(Text) /\ inf.got \in Seq(Seq(FactOf(Text))) /\ inf.left \in Seq(Nat)
  BY <1>0 DEF Infs
<1>03. /\ Len(inf.texts) \in Nat /\ DOMAIN inf.texts = 1 .. Len(inf.texts)
       /\ \A i \in 1 .. Len(inf.texts) : inf.texts[i] \in Text /\ inf.texts[i] \in TextsAt(written, i)
       /\ Len(inf.got) \in Nat /\ DOMAIN inf.got = 1 .. Len(inf.got)
       /\ \A i \in 1 .. Len(inf.got) : inf.got[i] \in Seq(FactOf(Text))
       /\ Len(inf.left) \in Nat /\ DOMAIN inf.left = 1 .. Len(inf.left)
       /\ \A k \in 1 .. Len(inf.left) : inf.left[k] \in 1 .. Len(inf.texts)
       /\ Len(inf.got) =< Len(inf.texts)
  BY <1>0, <1>02, LenProperties, StoredTexts
(* Results that are of the texts in their places.                          *)
<1>04. ASSUME NEW got \in Seq(Seq(FactOf(Text))), Len(got) =< Len(inf.texts),
              \A i \in 1 .. Len(got) : got[i] \in SureOf(inf.texts[i]) \/ (i \in DOMAIN inf.got /\ got[i] = inf.got[i])
       PROVE  FactsOfChunks(got, written)
  <2>1. Len(got) \in Nat /\ DOMAIN got = 1 .. Len(got)
    BY LenProperties
  <2> SUFFICES ASSUME NEW i \in 1 .. Len(got), NEW f \in Range(got[i])
               PROVE  f.of \in TextsAt(written, i) /\ f.confidence >= MinConfidence
    BY <2>1 DEF FactsOfChunks
  <2>2. CASE got[i] \in SureOf(inf.texts[i])
    <3>1. i \in 1 .. Len(inf.texts)
      BY <1>03, <1>04, <2>1
    <3> QED BY <2>2, <3>1, <1>03 DEF SureOf
  <2>3. CASE i \in DOMAIN inf.got /\ got[i] = inf.got[i]
    BY <2>3, <1>0 DEF FactsOfChunks
  <2> QED BY <2>2, <2>3, <1>04
<1>1. CASE InfTakes
  <2>1. PICK w \in written : inf' = [InfIdle EXCEPT !.at = "ready", !.texts = w.chunks]
    BY <1>1 DEF InfTakes
  <2>2. w.chunks \in Seq(Text) /\ Stored(w.chunks, written)
    BY <1>0 DEF Writings, Stored
  <2>3. inf' \in Infs /\ inf'.at = "ready" /\ inf'.texts = w.chunks /\ inf'.got = <<>> /\ inf'.left = <<>>
    BY <2>1, <2>2, InfIdleType DEF Infs
  <2>4. Len(w.chunks) \in Nat /\ FactsOfChunks(<<>>, written)
    BY <2>2, LenProperties, EmptyOf
  <2>5. memo' = memo /\ inferences' = inferences
    BY <1>1 DEF InfTakes
  <2> QED BY <1>0, <1>01, <2>2, <2>3, <2>4, <2>5 DEF InfInv
<1>2. CASE LooksUp
  <2> DEFINE at == NextOnes
             one(k) == IF Remembers(inf.texts[at[k]]) THEN Sure(memo[inf.texts[at[k]]]) ELSE <<>>
             more == [k \in DOMAIN at |-> one(k)]
             left == Chosen(at, {i \in Range(at) : ~Remembers(inf.texts[i])})
             new == [inf EXCEPT !.at = "asking", !.got = @ \o more, !.left = left]
  <2>1. inf' = new /\ memo' = memo /\ inferences' = inferences
    BY <1>2 DEF LooksUp
  <2> DEFINE n == IF Len(inf.texts) - Len(inf.got) < InferBatch THEN Len(inf.texts) - Len(inf.got) ELSE InferBatch
  <2>2. n \in Nat /\ Len(inf.got) + n =< Len(inf.texts)
    <3>1. /\ Len(inf.texts) \in Nat /\ Len(inf.got) \in Nat /\ InferBatch \in Nat
          /\ Len(inf.got) =< Len(inf.texts)
      BY <1>03, InferAssumption
    <3> QED BY <3>1, NextFit
  <2>3. at = [k \in 1 .. n |-> Len(inf.got) + k]
    BY DEF NextOnes
  <2> HIDE DEF n, at
  <2>4. at \in Seq(1 .. Len(inf.texts)) /\ DOMAIN at = 1 .. n
    BY <2>2, <2>3, <1>03
  <2>5. \A k \in 1 .. n : one(k) \in SureOf(inf.texts[at[k]])
    <3> TAKE k \in 1 .. n
    <3>1. inf.texts[at[k]] \in Text
      <4>1. at[k] = Len(inf.got) + k
        BY <2>3
      <4>2. Len(inf.got) + k \in 1 .. Len(inf.texts)
        BY <2>2, <1>03
      <4> QED BY <4>1, <4>2, <1>03
    <3> DEFINE t == inf.texts[at[k]]
    <3> HIDE DEF t
    <3>2. CASE Remembers(t)
      BY <3>1, <3>2, <1>0, SureOfType DEF Remembers, t
    <3>3. CASE ~Remembers(t)
      BY <3>1, <3>3, SureOfType DEF t
    <3> QED BY <3>2, <3>3
  <2>6. more \in Seq(Seq(FactOf(Text))) /\ Len(more) = n
    <3>1. \A k \in 1 .. n : one(k) \in Seq(FactOf(Text))
      BY <2>5 DEF SureOf
    <3> HIDE DEF one
    <3>2. more \in [1 .. n -> Seq(FactOf(Text))]
      BY <3>1, <2>4
    <3> HIDE DEF more
    <3> QED BY <3>2, <2>2
  <2>7. \A k \in 1 .. n : more[k] = one(k)
    BY <2>4
  <2>8. left \in Seq(1 .. Len(inf.texts)) /\ left \in Seq(Nat)
    <3>1. left \in Seq({i \in Range(at) : ~Remembers(inf.texts[i])} \cap Range(at))
      BY <2>4, ChosenType
    <3>2. Range(at) \subseteq 1 .. Len(inf.texts)
      BY <2>4, RangeOfSeq
    <3> HIDE DEF left
    <3>3. left \in Seq(1 .. Len(inf.texts))
      BY <3>1, <3>2, SeqMonotonic
    <3>4. 1 .. Len(inf.texts) \subseteq Nat
      BY <1>03
    <3> QED BY <3>3, <3>4, SeqMonotonic
  <2> HIDE DEF more, left, one
  <2> DEFINE got == inf.got \o more
  <2>9. /\ got \in Seq(Seq(FactOf(Text))) /\ Len(got) = Len(inf.got) + n
        /\ \A i \in 1 .. Len(inf.got) + n : got[i] = IF i =< Len(inf.got) THEN inf.got[i] ELSE more[i - Len(inf.got)]
    BY <1>02, <2>6, ConcatProperties
  <2>10. FactsOfChunks(got, written)
    <3>1. ASSUME NEW i \in 1 .. Len(inf.got) + n
          PROVE  got[i] \in SureOf(inf.texts[i]) \/ (i \in DOMAIN inf.got /\ got[i] = inf.got[i])
      <4>1. CASE i =< Len(inf.got)
        BY <4>1, <2>9, <1>03
      <4>2. CASE ~(i =< Len(inf.got))
        <5>1. i - Len(inf.got) \in 1 .. n /\ at[i - Len(inf.got)] = i
          BY <4>2, <2>2, <2>3, <1>03
        <5>2. got[i] = more[i - Len(inf.got)]
          <6> HIDE DEF got
          <6> QED BY <4>2, <2>9
        <5> QED BY <5>1, <5>2, <2>5, <2>7
      <4> QED BY <4>1, <4>2
    <3> HIDE DEF got
    <3> QED BY <3>1, <2>2, <2>9, <1>04
  <2> HIDE DEF got
  <2>11. inf' \in Infs /\ inf'.at = "asking" /\ inf'.texts = inf.texts /\ inf'.got = got /\ inf'.left = left
    BY <2>1, <2>8, <2>9, <1>0 DEF Infs, got
  <2> QED BY <1>0, <1>01, <2>1, <2>2, <2>8, <2>9, <2>10, <2>11 DEF InfInv
<1>3. CASE AnswersBatch
  <2> DEFINE asked == Range(inf.left)
             Of(given, i) == IF i \in given THEN Sure(Facts(inf.texts[i])) ELSE <<>>
             With(t) == {i \in asked : inf.texts[i] = t}
             got(given) == [i \in DOMAIN inf.got |-> IF i \in asked THEN Of(given, i) ELSE inf.got[i]]
  <2>1. PICK given \in SUBSET asked :
            /\ inf' = [inf EXCEPT !.at = "ready", !.left = <<>>, !.got = got(given)]
            /\ memo' = [t \in DOMAIN memo \cup {inf.texts[i] : i \in asked} |->
                          IF With(t) = {} THEN memo[t]
                          ELSE Of(given, CHOOSE i \in With(t) : \A j \in With(t) : j =< i)]
    BY <1>3 DEF AnswersBatch
  <2>2. inferences' = inferences
    BY <1>3 DEF AnswersBatch
  <2>3. asked \subseteq 1 .. Len(inf.texts)
    BY <1>0, RangeOfSeq
  <2>4. \A i \in asked : Of(given, i) \in SureOf(inf.texts[i])
    BY <2>3, <1>03, SureOfType
  <2>5. \A i \in asked : Of(given, i) \in Seq(FactOf({inf.texts[i]}))
    <3> TAKE i \in asked
    <3>1. Sure(Facts(inf.texts[i])) \in Seq(FactOf({inf.texts[i]}))
      BY SureType, FactsType
    <3> QED BY <3>1
  <2> HIDE DEF asked, Of
  <2>6. ASSUME NEW t \in DOMAIN memo' PROVE memo'[t] \in Seq(FactOf({t}))
    <3>1. CASE With(t) = {}
      <4>1. t \in DOMAIN memo /\ memo'[t] = memo[t]
        BY <3>1, <2>1, <2>6
      <4> QED BY <4>1, <1>0
    <3>2. CASE With(t) # {}
      <4> DEFINE i == CHOOSE i \in With(t) : \A j \in With(t) : j =< i
      <4>1. With(t) \in SUBSET (0 .. Len(inf.texts))
        <5>1. 1 .. Len(inf.texts) \subseteq 0 .. Len(inf.texts)
          BY <1>03
        <5>2. With(t) \subseteq asked
          OBVIOUS
        <5> QED BY <5>1, <5>2, <2>3
      <4>2. \E j \in With(t) : \A k \in With(t) : k =< j
        <5> HIDE DEF With
        <5> QED BY <3>2, <4>1, <1>03, Largest
      <4>3. i \in With(t)
        <5> HIDE DEF With
        <5> QED BY <4>2
      <4>4. memo'[t] = Of(given, i)
        <5> HIDE DEF With
        <5> QED BY <3>2, <2>1, <2>6
      <4> HIDE DEF i
      <4>5. i \in asked /\ inf.texts[i] = t
        BY <4>3
      <4> QED BY <4>4, <4>5, <2>5
    <3> QED BY <3>1, <3>2
  <2>7. \A i \in 1 .. Len(inf.got) : got(given)[i] \in SureOf(inf.texts[i]) \/ (i \in DOMAIN inf.got /\ got(given)[i] = inf.got[i])
    BY <2>4, <1>03
  <2>8. got(given) \in Seq(Seq(FactOf(Text))) /\ Len(got(given)) = Len(inf.got)
    <3>1. \A i \in 1 .. Len(inf.got) : got(given)[i] \in Seq(FactOf(Text))
      BY <2>7, <1>03 DEF SureOf
    <3>2. got(given) \in [1 .. Len(inf.got) -> Seq(FactOf(Text))]
      BY <3>1, <1>03
    <3> HIDE DEF got
    <3> QED BY <3>2, <1>03
  <2> HIDE DEF got
  <2>9. FactsOfChunks(got(given), written)
    BY <2>7, <2>8, <1>0, <1>04
  <2>11. <<>> \in Seq(1 .. Len(inf.texts)) /\ <<>> \in Seq(Nat)
    OBVIOUS
  <2>10. inf' \in Infs /\ inf'.at = "ready" /\ inf'.texts = inf.texts /\ inf'.got = got(given) /\ inf'.left = <<>>
    <3> DEFINE g == got(given)
               none == <<>>
    <3>1. inf' = [inf EXCEPT !.at = "ready", !.left = none, !.got = g]
      BY <2>1
    <3>2. g \in Seq(Seq(FactOf(Text))) /\ none \in Seq(Nat)
      BY <2>8, <2>11
    <3> HIDE DEF g, none
    <3>3. inf' \in Infs /\ inf'.at = "ready" /\ inf'.texts = inf.texts /\ inf'.got = g /\ inf'.left = none
      BY <3>1, <3>2, <1>0 DEF Infs
    <3> QED BY <3>3 DEF g, none
  <2> QED BY <1>0, <1>01, <2>2, <2>6, <2>8, <2>9, <2>10, <2>11 DEF InfInv
<1>4. CASE HasNothingToAsk \/ CannotAskBatch
  <2>1. inf' \in Infs /\ inf'.texts = inf.texts /\ inf'.got = inf.got /\ inf'.left = inf.left
    BY <1>4, <1>0 DEF HasNothingToAsk, CannotAskBatch, Infs
  <2>2. inf'.at = "ready" \/ inf.left # <<>>
    BY <1>4, <1>0 DEF HasNothingToAsk, CannotAskBatch, Infs
  <2>3. memo' = memo /\ inferences' = inferences
    BY <1>4 DEF HasNothingToAsk, CannotAskBatch
  <2> QED BY <1>0, <1>01, <2>1, <2>2, <2>3 DEF InfInv
<1>5. CASE TakesOne
  <2> DEFINE got == Append(inf.got, <<>>)
             left == <<Len(inf.got) + 1>>
  <2>1. inf' = [inf EXCEPT !.at = "alone", !.got = got, !.left = left] /\ memo' = memo /\ inferences' = inferences
    BY <1>5 DEF TakesOne
  <2>2. Len(inf.got) + 1 \in 1 .. Len(inf.texts)
    BY <1>5, <1>03 DEF TakesOne
  <2>3. /\ got \in Seq(Seq(FactOf(Text))) /\ Len(got) = Len(inf.got) + 1 /\ got[Len(inf.got) + 1] = <<>>
        /\ \A i \in 1 .. Len(inf.got) : got[i] = inf.got[i]
    <3>1. <<>> \in Seq(FactOf(Text))
      OBVIOUS
    <3> QED BY <3>1, <1>02, AppendProperties
  <2>4. left \in Seq(1 .. Len(inf.texts)) /\ left \in Seq(Nat) /\ left # <<>>
    BY <2>2
  <2> HIDE DEF got, left
  <2>5. FactsOfChunks(got, written)
    <3>1. ASSUME NEW i \in 1 .. Len(got)
          PROVE  got[i] \in SureOf(inf.texts[i]) \/ (i \in DOMAIN inf.got /\ got[i] = inf.got[i])
      <4>1. CASE i = Len(inf.got) + 1
        <5>1. got[i] = <<>> /\ inf.texts[i] \in Text
          BY <4>1, <2>2, <2>3, <1>03
        <5> QED BY <5>1, SureOfType
      <4>2. CASE i # Len(inf.got) + 1
        <5>1. Len(inf.got) \in Nat /\ Len(got) = Len(inf.got) + 1 /\ i \in 1 .. Len(got)
          BY <2>3, <1>03
        <5>2. i \in 1 .. Len(inf.got)
          BY ONLY <4>2, <5>1
        <5> QED BY <5>2, <2>3, <1>03
      <4> QED BY <4>1, <4>2
    <3> QED BY <3>1, <2>2, <2>3, <1>04
  <2>6. inf' \in Infs /\ inf'.at = "alone" /\ inf'.texts = inf.texts /\ inf'.got = got /\ inf'.left = left
    BY <2>1, <2>3, <2>4, <1>0 DEF Infs
  <2>7. Len(got) =< Len(inf.texts)
    BY <2>2, <2>3, <1>03
  <2> QED BY <1>0, <1>01, <2>1, <2>3, <2>4, <2>5, <2>6, <2>7 DEF InfInv
<1>6. ASSUME NEW facts \in SureOf(One), inf.at = "alone", Gets(facts),
             \A t \in DOMAIN memo' : memo'[t] \in Seq(FactOf({t})), inferences' = inferences
      PROVE  InfInv'
  <2> DEFINE i == Head(inf.left)
             got == [inf.got EXCEPT ![i] = facts]
             at == IF Len(inf.left) = 1 THEN "ready" ELSE "alone"
  <2>1. inf' = [inf EXCEPT !.at = at, !.left = Tail(@), !.got = got]
    BY <1>6 DEF Gets
  <2>2. inf.left # <<>>
    BY <1>0, <1>6
  <2>3. /\ Tail(inf.left) \in Seq(Nat) /\ Tail(inf.left) \in Seq(1 .. Len(inf.texts))
        /\ Len(Tail(inf.left)) = Len(inf.left) - 1
        /\ Len(inf.left) # 0
    BY <2>2, <1>0, <1>02, HeadTailProperties, EmptySeq
  <2>4. at = "alone" => Tail(inf.left) # <<>>
    <3>1. CASE Len(inf.left) = 1
      BY <3>1
    <3>2. CASE Len(inf.left) # 1
      <4>1. Len(Tail(inf.left)) # 0
        BY <3>2, <2>3, <1>03
      <4>2. Len(<<>>) = 0
        OBVIOUS
      <4> HIDE DEF i, got, at
      <4> QED BY ONLY <4>1, <4>2
    <3> QED BY <3>1, <3>2
  <2>5. got \in Seq(Seq(FactOf(Text))) /\ Len(got) = Len(inf.got)
    <3>1. got \in [1 .. Len(inf.got) -> Seq(FactOf(Text))]
      BY <1>6, <1>03 DEF SureOf
    <3> HIDE DEF got
    <3> QED BY <3>1, <1>03
  <2>6. FactsOfChunks(got, written)
    <3>1. \A j \in 1 .. Len(got) : got[j] \in SureOf(inf.texts[j]) \/ (j \in DOMAIN inf.got /\ got[j] = inf.got[j])
      <4>1. \A j \in 1 .. Len(inf.got) : got[j] = IF j = i THEN facts ELSE inf.got[j]
        BY <1>03
      <4>2. facts \in SureOf(inf.texts[i])
        BY <1>6 DEF One
      <4> HIDE DEF got, i
      <4> QED BY <4>1, <4>2, <2>5, <1>03
    <3> HIDE DEF got
    <3> QED BY <3>1, <2>5, <1>0, <1>04
  <2> HIDE DEF got, i
  <2>7. inf' \in Infs /\ inf'.at = at /\ inf'.texts = inf.texts /\ inf'.got = got /\ inf'.left = Tail(inf.left)
    BY <2>1, <2>3, <2>5, <1>0 DEF Infs
  <2> HIDE DEF at
  <2> QED BY <1>0, <1>01, <1>6, <2>3, <2>4, <2>5, <2>6, <2>7 DEF InfInv
<1>07. inf.at = "alone" => One \in Text
  <2> SUFFICES ASSUME inf.at = "alone" PROVE One \in Text
    OBVIOUS
  <2>1. Head(inf.left) \in 1 .. Len(inf.texts)
    BY <1>0, HeadTailProperties
  <2> QED BY <2>1, <1>03 DEF One
<1>7. CASE RecallsOne
  <2>1. inf.at = "alone" /\ memo' = memo /\ inferences' = inferences
    BY <1>7 DEF RecallsOne
  <2>2. CASE Model = "none"
    BY <2>1, <2>2, <1>0, <1>07, <1>7, <1>6, SureOfType DEF RecallsOne
  <2>3. CASE Model # "none"
    <3>1. One \in DOMAIN memo /\ Gets(Sure(memo[One]))
      BY <2>3, <1>7 DEF RecallsOne, Remembers
    <3>2. Sure(memo[One]) \in SureOf(One)
      BY <2>1, <3>1, <1>0, <1>07, SureOfType
    <3> QED BY <2>1, <3>1, <3>2, <1>0, <1>6
  <2> QED BY <2>2, <2>3
<1>8. CASE AnswersOne
  <2>1. inf.at = "alone" /\ Gets(Sure(Facts(One))) /\ inferences' = inferences
    BY <1>8 DEF AnswersOne
  <2>2. memo' = [u \in DOMAIN memo \cup {One} |-> IF u = One THEN Facts(One) ELSE memo[u]]
    BY <1>8 DEF AnswersOne, Remember
  <2>3. \A t \in DOMAIN memo' : memo'[t] \in Seq(FactOf({t}))
    BY <2>2, <1>0, FactsType
  <2>4. Sure(Facts(One)) \in SureOf(One)
    BY <2>1, <1>07, SureOfType
  <2> QED BY <2>1, <2>3, <2>4, <1>6
<1>9. CASE CannotAskOne
  <2>1. inf.at = "alone" /\ Gets(<<>>) /\ memo' = memo /\ inferences' = inferences
    BY <1>9 DEF CannotAskOne
  <2>2. <<>> \in SureOf(One)
    BY <2>1, <1>07, SureOfType
  <2> QED BY <2>1, <2>2, <1>0, <1>6
<1>10. CASE Assembled \/ InfDies \/ MemoExpires
  <2>1. inf' = InfIdle \/ inf' = inf
    BY <1>10 DEF Assembled, InfDies, MemoExpires
  <2>2. \A t \in DOMAIN memo' : memo'[t] \in Seq(FactOf({t}))
    BY <1>0, <1>10 DEF Assembled, InfDies, MemoExpires
  <2>3. inferences' = inferences \/ inferences' = inf.got
    BY <1>10 DEF Assembled, InfDies, MemoExpires
  <2> QED BY <1>01, <2>1, <2>2, <2>3, InfInvFrame
<1> QED BY <1>1, <1>2, <1>3, <1>4, <1>5, <1>7, <1>8, <1>9, <1>10 DEF InfNext

---------------------------------------------------------------------------
(* What a step of the others does to these.                                *)

(* The vectors that the completion worker asks for are those of its facts. *)
LEMMA FinInfersType ==
    ASSUME FinInfers, fin.infs \in Seq(Seq(FactOf(Text)))
    PROVE  \E v \in Seq(Seq(MaybeVector)) :
              /\ Aligned(v, fin.infs)
              /\ fin' = [fin EXCEPT !.at = "inferred", !.ivecs = v]
              /\ inferenceVectors' = v
<1> DEFINE Of(heard, i) == {k \in DOMAIN fin.infs[i] : <<i, k>> \in heard}
           V(heard) == [i \in DOMAIN fin.infs |->
                           IF Of(heard, i) = {} THEN None ELSE VectorsOf(fin.infs[i], Of(heard, i))]
<1>1. PICK heard : fin' = [fin EXCEPT !.at = "inferred", !.ivecs = V(heard)] /\ inferenceVectors' = V(heard)
  BY ZenonT(30) DEF FinInfers
<1>2. /\ Len(fin.infs) \in Nat /\ DOMAIN fin.infs = 1 .. Len(fin.infs)
      /\ \A i \in 1 .. Len(fin.infs) : fin.infs[i] \in Seq(FactOf(Text))
  BY LenProperties
<1>3. \A i \in 1 .. Len(fin.infs) : V(heard)[i] \in Seq(MaybeVector)
  <2> TAKE i \in 1 .. Len(fin.infs)
  <2>1. VectorsOf(fin.infs[i], Of(heard, i)) \in Seq(MaybeVector) /\ None \in Seq(MaybeVector)
    BY <1>2, VectorsOfType DEF None
  <2> HIDE DEF Of
  <2> QED BY <2>1, <1>2
<1>4. V(heard) \in Seq(Seq(MaybeVector))
  <2> DEFINE n == Len(fin.infs)
             D == Seq(MaybeVector)
             W == V(heard)
  <2>1. W \in [1 .. n -> D]
    BY <1>2, <1>3
  <2>2. n \in Nat
    BY <1>2
  <2> HIDE DEF n, D, W
  <2>3. W \in Seq(D)
    BY ONLY <2>1, <2>2
  <2> QED BY <2>3 DEF D, W
<1>5. Aligned(V(heard), fin.infs)
  <2> SUFFICES ASSUME NEW i \in DOMAIN fin.infs, NEW k \in DOMAIN V(heard)[i] \cap DOMAIN fin.infs[i]
               PROVE  V(heard)[i][k] \in {None, Vec(fin.infs[i][k])}
    BY DEF Aligned
  <2>1. CASE Of(heard, i) = {}
    BY <2>1 DEF None
  <2>2. CASE Of(heard, i) # {}
    <3>1. V(heard)[i] = VectorsOf(fin.infs[i], Of(heard, i))
      BY <2>2
    <3> HIDE DEF V, Of
    <3> QED BY <3>1 DEF VectorsOf
  <2> QED BY <2>1, <2>2
<1> HIDE DEF V
<1> QED BY <1>1, <1>4, <1>5

(* Who has what to do with the vectors, and with the inferences.           *)
LEMMA EmbStep ==
    ASSUME EntryInv, EmbInv, InfInv, FinInv, [Next]_vars
    PROVE  EmbInv'
<1>0. written \subseteq written' /\ (\A t \in DOMAIN cache : cache[t] = Vec(t)) /\ inferenceVectors \in Seq(Seq(MaybeVector))
  BY WrittenGrows DEF EmbInv
<1>1. CASE Embedding
  BY <1>1, EmbInvStep DEF Embedding
<1>2. CASE Entry \/ Entities \/ Inferring \/ IsCancelled \/ UNCHANGED vars
  <2>1. UNCHANGED embVars
    BY <1>2 DEF Entry, Entities, Inferring, IsCancelled, vars
  <2> QED BY <1>0, <2>1, EmbInvFrame DEF embVars, vectorVars
<1>3. CASE Finishing
  <2>1. UNCHANGED <<emb, cache, degraded, touched, vectors>>
    BY <1>3 DEF Finishing, Ignores, FinReads, FinReadsVectors, FinInfers, FinHasThem, FinFails, FinWrites,
                othersThanFin, vectorVars
  <2>2. inferenceVectors' \in Seq(Seq(MaybeVector))
    <3>1. CASE FinInfers
      <4>1. fin.infs \in Seq(Seq(FactOf(Text)))
        BY DEF FinInv, Fins
      <4> QED BY <3>1, <4>1, FinInfersType
    <3>2. CASE ~FinInfers
      BY <1>0, <1>3, <3>2 DEF Finishing, Ignores, FinReads, FinReadsVectors, FinHasThem, FinFails, FinWrites, vectorVars
    <3> QED BY <3>1, <3>2
  <2> QED BY <1>0, <2>1, <2>2, EmbInvFrame
<1> QED BY <1>1, <1>2, <1>3 DEF Next

LEMMA InfStep ==
    ASSUME EntryInv, InfInv, [Next]_vars
    PROVE  InfInv'
<1>1. CASE Inferring
  BY <1>1, InfInvStep DEF Inferring
<1>2. CASE ~Inferring
  <2>1. written \subseteq written' /\ \A t \in DOMAIN memo : memo[t] \in Seq(FactOf({t}))
    BY WrittenGrows DEF InfInv
  <2>2. UNCHANGED infVars
    BY <1>2 DEF Next, Entry, Embedding, Entities, Finishing, Ignores, FinReads, FinReadsVectors, FinInfers,
                FinHasThem, FinFails, FinWrites, IsCancelled, vars, othersThanFin
  <2>3. UNCHANGED inferences
    <3>1. CASE Entry
      BY <3>1 DEF Entry, EntryNext, Begins, KeepsWhole, OpensPdf, FlowErrs,
        KeepsGoodPage, KeepsPageOverBudget, TimeRunsOut, Replaces, SeesNothing, CannotSee, Assembles,
        Hears, Reads, CannotHear, CannotRead, LooksAgain, StoresText, StoresMedia, Stores, Publishes, Acks,
        FindsNoText, StopsCancelled, EntryDies, Fails, jobVars, keyVars
    <3>2. CASE Embedding
      BY <3>2 DEF Embedding, EmbNext, EmbTakes, EmbIsAnswered, EmbIsRefused, EmbFails, EmbMarks, EmbStores,
        EmbLooksForInferences, EmbInfers, EmbStoresInferences, EmbTells, EmbDies, CacheExpires, jobVars, keyVars
    <3>3. CASE Entities
      BY <3>3 DEF Entities, EntNext, EntTakes, PredictsLarge, PredictsBatch, AddsRules, EntStores,
        EntStopsCancelled, EntDies, jobVars, keyVars
    <3>4. CASE Finishing \/ IsCancelled \/ UNCHANGED vars
      BY <3>4 DEF Finishing, Ignores, FinReads, FinReadsVectors, FinInfers, FinHasThem, FinFails, FinWrites,
        IsCancelled, vars, othersThanFin, jobVars, keyVars
    <3> QED BY <1>2, <3>1, <3>2, <3>3, <3>4 DEF Next
  <2> QED BY <2>1, <2>2, <2>3, InfInvFrame DEF infVars
<1> QED BY <1>1, <1>2

---------------------------------------------------------------------------
(* The entities.                                                           *)

LEMMA EntIdleType ==
    /\ EntIdle \in Ents
    /\ EntIdle.at = "idle" /\ EntIdle.chunks = <<>> /\ EntIdle.small = <<>> /\ EntIdle.large = <<>> /\ EntIdle.found = <<>>
BY DEF EntIdle, Ents, None, Text

LEMMA EntInvFrame ==
    ASSUME EntInv, written \subseteq written',
           ent' = EntIdle \/ ent' = ent, raw' = raw \/ raw' = ent.found
    PROVE  EntInv'
<1>1. /\ Stored(ent.chunks, written') /\ ent.found \in Seq(Mentioned(written')) /\ raw \in Seq(Mentioned(written'))
  BY StoredGrows DEF EntInv
<1>2. /\ Stored(EntIdle.chunks, written') /\ EntIdle.found \in Seq(Mentioned(written'))
      /\ EntIdle.small \in Seq(1 .. Len(EntIdle.chunks)) /\ EntIdle.large \in Seq(1 .. Len(EntIdle.chunks))
  BY EntIdleType, EmptyOf
<1>3. CASE ent' = EntIdle
  BY <1>1, <1>2, <1>3, EntIdleType DEF EntInv
<1>4. CASE ent' = ent
  BY <1>1, <1>4 DEF EntInv
<1> QED BY <1>3, <1>4

(* What the model finds in a stored chunk is named in it.                  *)
LEMMA KeptMentioned ==
    ASSUME NEW W, NEW c \in Seq(Text), Stored(c, W), NEW i \in 1 .. Len(c), NEW heard
    PROVE  /\ Kept(Predict(c[i]), i) \in Seq(Mentioned(W))
           /\ Kept(MergeWindows(c[i], heard), i) \in Seq(Mentioned(W))
<1> DEFINE words == c[i]
           T == Range(words)
<1>1. words \in Seq(STRING) /\ words \in TextsAt(W, i) /\ i \in Nat
  BY StoredTexts, LenProperties DEF Text
<1>2. T \in SUBSET STRING /\ words \in Seq(T)
  <2> HIDE DEF words
  <2> QED BY <1>1, RangeOfSeq, LenProperties DEF Range
<1> HIDE DEF words
<1>3. KeptIn(T, i) \subseteq Mentioned(W)
  BY <1>1, <1>2 DEF KeptIn, Mentioned, Named
<1> HIDE DEF T
<1>4. Kept(Predict(words), i) \in Seq(KeptIn(T, i))
  BY <1>2, PredictType, KeptType
<1>5. Kept(MergeWindows(words, heard), i) \in Seq(KeptIn(T, i))
  BY <1>2, MergeWindowsType, KeptType
<1> QED BY <1>3, <1>4, <1>5, SeqMonotonic DEF words

LEMMA SeqInNat ==
    ASSUME NEW n \in Nat, NEW s \in Seq(1 .. n)
    PROVE  s \in Seq(Nat)
<1>1. 1 .. n \subseteq Nat
  OBVIOUS
<1> QED BY <1>1, SeqMonotonic

LEMMA EntInvStep ==
    ASSUME EntryInv, EntInv, EntNext
    PROVE  EntInv'
<1> USE DEF jobVars, keyVars
<1>0. /\ ent \in Ents
      /\ ent.small \in Seq(1 .. Len(ent.chunks)) /\ ent.large \in Seq(1 .. Len(ent.chunks))
      /\ Stored(ent.chunks, written)
      /\ ent.found \in Seq(Mentioned(written)) /\ raw \in Seq(Mentioned(written))
      /\ text \in Text /\ chunks \in Seq(Text) /\ Stored(chunks, written)
  BY DEF EntryInv, EntryTypes, EntryKeeps, EntInv
<1>01. UNCHANGED written
  BY OthersKeepTexts DEF EntryInv
<1>02. ent.chunks \in Seq(Text) /\ ent.text \in Text /\ Len(ent.chunks) \in Nat /\ Mentioned(written) \subseteq Named
  BY <1>0, LenProperties DEF Ents, Mentioned
(* A step that takes chunks off the lists and adds entities named in them. *)
<1>03. ASSUME NEW at \in {"predicting", "found"}, NEW small \in Seq(1 .. Len(ent.chunks)),
              NEW large \in Seq(1 .. Len(ent.chunks)), NEW more \in Seq(Mentioned(written)),
              ent' = [ent EXCEPT !.at = at, !.small = small, !.large = large, !.found = @ \o more],
              UNCHANGED raw
       PROVE  EntInv'
  <2> DEFINE found == ent.found \o more
  <2>1. found \in Seq(Mentioned(written))
    BY <1>0, ConcatProperties
  <2>2. found \in Seq(Named) /\ small \in Seq(Nat) /\ large \in Seq(Nat)
    <3> HIDE DEF found
    <3> QED BY <2>1, <1>02, SeqMonotonic, SeqInNat
  <2>3. ent' = [ent EXCEPT !.at = at, !.small = small, !.large = large, !.found = found]
    BY <1>03
  <2> HIDE DEF found
  <2>4. ent' \in Ents /\ ent'.chunks = ent.chunks /\ ent'.small = small /\ ent'.large = large /\ ent'.found = found
    BY <2>2, <2>3, <1>0 DEF Ents
  <2> QED BY <1>0, <1>01, <1>03, <2>1, <2>4 DEF EntInv
<1>04. /\ \A small, large, f : [ent EXCEPT !.small = small, !.found = f] = [ent EXCEPT !.at = ent.at, !.small = small, !.large = ent.large, !.found = f]
       /\ \A large, f : [ent EXCEPT !.large = large, !.found = f] = [ent EXCEPT !.at = ent.at, !.small = ent.small, !.large = large, !.found = f]
       /\ \A at, f : [ent EXCEPT !.at = at, !.found = f] = [ent EXCEPT !.at = at, !.small = ent.small, !.large = ent.large, !.found = f]
  BY <1>0 DEF Ents
<1>1. CASE EntTakes
  <2> DEFINE big   == {i \in DOMAIN chunks : Len(chunks[i]) > LargeChunk}
             large == Chosen(Places(chunks), big)
             small == Chosen(Places(chunks), DOMAIN chunks \ big)
  <2>1. ent' = [EntIdle EXCEPT !.at = "predicting", !.chunks = chunks, !.text = text, !.large = large, !.small = small]
        /\ UNCHANGED raw
    BY <1>1 DEF EntTakes
  <2>2. Len(chunks) \in Nat /\ Places(chunks) \in Seq(1 .. Len(chunks)) /\ Range(Places(chunks)) \subseteq 1 .. Len(chunks)
    <3>1. Places(chunks) \in Seq(1 .. Len(chunks))
      BY <1>0, PlacesType
    <3> QED BY <3>1, <1>0, LenProperties, RangeOfSeq
  <2>3. \A S : Chosen(Places(chunks), S) \in Seq(1 .. Len(chunks))
    <3> TAKE S
    <3>1. Chosen(Places(chunks), S) \in Seq(S \cap Range(Places(chunks)))
      BY <2>2, ChosenType
    <3> QED BY <3>1, <2>2, SeqMonotonic
  <2>4. large \in Seq(1 .. Len(chunks)) /\ small \in Seq(1 .. Len(chunks))
    BY <2>3
  <2> HIDE DEF large, small
  <2>5. large \in Seq(Nat) /\ small \in Seq(Nat)
    BY <2>2, <2>4, SeqInNat
  <2>6. ent' \in Ents /\ ent'.chunks = chunks /\ ent'.small = small /\ ent'.large = large /\ ent'.found = <<>>
    BY <2>1, <2>5, <1>0, EntIdleType DEF Ents
  <2>7. <<>> \in Seq(Mentioned(written))
    OBVIOUS
  <2> QED BY <1>0, <1>01, <2>1, <2>4, <2>6, <2>7 DEF EntInv
<1>2. CASE PredictsLarge
  <2> DEFINE i == Head(ent.large)
             kept(heard) == Kept(MergeWindows(ent.chunks[i], heard), i)
  <2>1. PICK heard : ent' = [ent EXCEPT !.large = Tail(@), !.found = @ \o kept(heard)]
    BY <1>2 DEF PredictsLarge
  <2>2. ent.at = "predicting" /\ UNCHANGED raw /\ ent.large # <<>>
    BY <1>2 DEF PredictsLarge
  <2>3. Tail(ent.large) \in Seq(1 .. Len(ent.chunks)) /\ i \in 1 .. Len(ent.chunks)
    BY <2>2, <1>0, HeadTailProperties
  <2> HIDE DEF i
  <2>4. kept(heard) \in Seq(Mentioned(written))
    BY <2>3, <1>0, <1>02, KeptMentioned
  <2> DEFINE more == kept(heard)
             large == Tail(ent.large)
  <2>5. ent' = [ent EXCEPT !.large = large, !.found = ent.found \o more] /\ large \in Seq(1 .. Len(ent.chunks))
    BY <2>1, <2>3
  <2> HIDE DEF more, large
  <2> DEFINE f == ent.found \o more
  <2>6. ent' = [ent EXCEPT !.at = "predicting", !.small = ent.small, !.large = large, !.found = @ \o more]
    <3>1. ent' = [ent EXCEPT !.large = large, !.found = f]
      BY <2>5
    <3> HIDE DEF f
    <3>2. [ent EXCEPT !.large = large, !.found = f] = [ent EXCEPT !.at = ent.at, !.small = ent.small, !.large = large, !.found = f]
      BY ONLY <1>04
    <3>3. ent' = [ent EXCEPT !.at = "predicting", !.small = ent.small, !.large = large, !.found = f]
      BY ONLY <3>1, <3>2, <2>2
    <3> QED BY <3>3 DEF f
  <2>7. more \in Seq(Mentioned(written))
    BY <2>4 DEF more
  <2> HIDE DEF f
  <2> QED BY <1>0, <1>03, <2>2, <2>5, <2>6, <2>7
<1>3. CASE PredictsBatch
  <2> DEFINE n == IF PredictBatch < Len(ent.small) THEN PredictBatch ELSE Len(ent.small)
             batch == SubSeq(ent.small, 1, n)
             part(heard, k) == IF batch[k] \in heard THEN Kept(Predict(ent.chunks[batch[k]]), batch[k]) ELSE <<>>
             parts(heard) == [k \in 1 .. n |-> part(heard, k)]
             small == SubSeq(ent.small, n + 1, Len(ent.small))
  <2>1. PICK heard : ent' = [ent EXCEPT !.small = SubSeq(@, n + 1, Len(@)), !.found = @ \o FlattenSeq(parts(heard))]
    BY <1>3 DEF PredictsBatch
  <2>2. ent.at = "predicting" /\ UNCHANGED raw
    BY <1>3 DEF PredictsBatch
  <2>3. /\ Len(ent.small) \in Nat /\ \A k \in 1 .. Len(ent.small) : ent.small[k] \in 1 .. Len(ent.chunks)
    BY <1>0, LenProperties
  <2>4. n \in Nat /\ n =< Len(ent.small)
    BY <2>3, WindowAssumption
  <2>5. small \in Seq(1 .. Len(ent.chunks))
    <3>1. \A k \in n + 1 .. Len(ent.small) : ent.small[k] \in 1 .. Len(ent.chunks)
      BY <2>3, <2>4
    <3> HIDE DEF n
    <3> QED BY <3>1, <2>3, <2>4, SubSeqProperties
  <2> HIDE DEF n
  <2>6. \A k \in 1 .. n : batch[k] \in 1 .. Len(ent.chunks)
    <3>1. \A k \in 1 .. n : batch[k] = ent.small[k]
      BY <2>3, <2>4
    <3> HIDE DEF batch
    <3> QED BY <3>1, <2>3, <2>4
  <2> HIDE DEF batch
  <2>7. \A k \in 1 .. n : part(heard, k) \in Seq(Mentioned(written))
    <3> TAKE k \in 1 .. n
    <3>1. Kept(Predict(ent.chunks[batch[k]]), batch[k]) \in Seq(Mentioned(written))
      BY <2>6, <1>0, <1>02, KeptMentioned
    <3> QED BY <3>1
  <2>8. parts(heard) \in Seq(Seq(Mentioned(written)))
    <3> HIDE DEF part
    <3> QED BY <2>4, <2>7
  <2> DEFINE more == FlattenSeq(parts(heard))
  <2>9. more \in Seq(Mentioned(written))
    <3> HIDE DEF parts
    <3> QED BY <2>8, FlattenType
  <2>10. ent' = [ent EXCEPT !.small = small, !.found = ent.found \o more]
    BY <2>1
  <2> HIDE DEF more, small
  <2> DEFINE f == ent.found \o more
  <2>11. ent' = [ent EXCEPT !.at = "predicting", !.small = small, !.large = ent.large, !.found = @ \o more]
    <3>1. ent' = [ent EXCEPT !.small = small, !.found = f]
      BY <2>10
    <3> HIDE DEF f
    <3>2. [ent EXCEPT !.small = small, !.found = f] = [ent EXCEPT !.at = ent.at, !.small = small, !.large = ent.large, !.found = f]
      BY ONLY <1>04
    <3>3. ent' = [ent EXCEPT !.at = "predicting", !.small = small, !.large = ent.large, !.found = f]
      BY ONLY <3>1, <3>2, <2>2
    <3> QED BY <3>3 DEF f
  <2> HIDE DEF f
  <2> QED BY <1>0, <1>03, <2>2, <2>5, <2>9, <2>11
<1>4. CASE AddsRules
  <2>1. PICK answered : ent' = [ent EXCEPT !.at = "found",
                                    !.found = @ \o IF answered /\ env.regex THEN ByRules(ent.text) ELSE <<>>]
    BY <1>4 DEF AddsRules
  <2> DEFINE more == IF answered /\ env.regex THEN ByRules(ent.text) ELSE <<>>
  <2>2. more \in Seq(Mentioned(written))
    <3>1. ByRules(ent.text) \in Seq(KeptIn(STRING, 0))
      BY <1>02, ByRulesType DEF Text
    <3>2. KeptIn(STRING, 0) \subseteq Mentioned(written)
      BY DEF KeptIn, Mentioned, Named
    <3>3. ByRules(ent.text) \in Seq(Mentioned(written))
      BY <3>1, <3>2, SeqMonotonic
    <3> QED BY <3>3
  <2>3. ent' = [ent EXCEPT !.at = "found", !.found = ent.found \o more]
    BY <2>1
  <2> HIDE DEF more
  <2> DEFINE f == ent.found \o more
  <2>4. ent' = [ent EXCEPT !.at = "found", !.small = ent.small, !.large = ent.large, !.found = @ \o more]
    <3>1. ent' = [ent EXCEPT !.at = "found", !.found = f]
      BY <2>3
    <3> HIDE DEF f
    <3>2. ent' = [ent EXCEPT !.at = "found", !.small = ent.small, !.large = ent.large, !.found = f]
      BY <3>1, <1>04
    <3> QED BY <3>2 DEF f
  <2>5. UNCHANGED raw
    BY <1>4 DEF AddsRules
  <2> QED BY <1>0, <1>03, <2>2, <2>4, <2>5
<1>5. CASE EntStores \/ EntStopsCancelled \/ EntDies
  <2>1. ent' = EntIdle \/ ent' = ent
    BY <1>5 DEF EntStores, EntStopsCancelled, EntDies, entVars
  <2>2. raw' = raw \/ raw' = ent.found
    BY <1>5 DEF EntStores, EntStopsCancelled, EntDies, entVars
  <2> QED BY <1>01, <2>1, <2>2, EntInvFrame
<1> QED BY <1>1, <1>2, <1>3, <1>4, <1>5 DEF EntNext

LEMMA EntStep ==
    ASSUME EntryInv, EntInv, [Next]_vars
    PROVE  EntInv'
<1>1. CASE Entities
  BY <1>1, EntInvStep DEF Entities
<1>2. CASE ~Entities
  <2>1. UNCHANGED entVars
    BY <1>2 DEF Next, Entry, Embedding, Inferring, Finishing, Ignores, FinReads, FinReadsVectors, FinInfers,
                FinHasThem, FinFails, FinWrites, IsCancelled, vars, othersThanFin
  <2> QED BY <2>1, WrittenGrows, EntInvFrame DEF entVars
<1> QED BY <1>1, <1>2

---------------------------------------------------------------------------
(* The completion worker.                                                  *)

(* Nothing undoes a repetition.                                            *)
LEMMA RepeatedStays ==
    ASSUME [Next]_vars, repeated
    PROVE  repeated'
<1>1. CASE Entry
  BY <1>1 DEF Entry, EntryNext, Begins, KeepsWhole, OpensPdf, FlowErrs,
    KeepsGoodPage, KeepsPageOverBudget, TimeRunsOut, Replaces, SeesNothing, CannotSee, Assembles,
    Hears, Reads, CannotHear, CannotRead, LooksAgain, StoresText, StoresMedia, Stores, Publishes, Acks,
    FindsNoText, StopsCancelled, EntryDies, Fails, jobVars, ComesBack
<1>2. CASE Embedding
  BY <1>2 DEF Embedding, EmbNext, EmbTakes, EmbIsAnswered, EmbIsRefused, EmbFails, EmbMarks, EmbStores,
    EmbLooksForInferences, EmbInfers, EmbStoresInferences, EmbTells, EmbDies, CacheExpires, jobVars, ComesBack
<1>3. CASE Entities
  BY <1>3 DEF Entities, EntNext, EntTakes, PredictsLarge, PredictsBatch, AddsRules, EntStores,
    EntStopsCancelled, EntDies, jobVars, ComesBack
<1>4. CASE Inferring
  BY <1>4 DEF Inferring, InfNext, InfTakes, LooksUp, AnswersBatch, HasNothingToAsk, CannotAskBatch,
    TakesOne, RecallsOne, AnswersOne, CannotAskOne, Assembled, InfDies, MemoExpires, jobVars, ComesBack
<1>5. CASE Finishing \/ (IsCancelled /\ UNCHANGED env)
  BY <1>5, EndKeepsTexts
<1>6. CASE UNCHANGED vars
  BY <1>6 DEF vars, jobVars
<1> QED BY <1>1, <1>2, <1>3, <1>4, <1>5, <1>6 DEF Next

(* What is in a result stays true of it.                                   *)
LEMMA StaysAbout ==
    ASSUME written \subseteq written', repeated => repeated',
           NEW r, NEW i, IsAbout(r, i)
    PROVE  IsAbout(r, i)'
<1>1. Texts(r, i) \subseteq Texts(r, i)'
  BY DEF Texts
<1>2. /\ r.chunks[i].vector \in {None} \cup {Vec(t) : t \in Texts(r, i)'}
      /\ \A f \in Range(r.chunks[i].facts) :
            /\ f.fact.of \in Texts(r, i)' /\ f.fact.confidence >= MinConfidence
            /\ f.vector = None \/ repeated' \/ f.vector = Vec(f.fact)
  BY <1>1 DEF IsAbout
<1>3. \A id \in r.chunks[i].names : \E e \in Range(r.entities) :
         e[1] = id /\ \E t \in Texts(r, i)' : e[2].word \in Range(t)
  BY <1>1 DEF IsAbout
<1> QED BY <1>2, <1>3 DEF IsAbout

LEMMA FinIdleType ==
    /\ FinIdle \in Fins
    /\ FinIdle.at = "idle" /\ FinIdle.raw = <<>> /\ FinIdle.infs = <<>> /\ FinIdle.vectors = <<>> /\ FinIdle.ivecs = <<>>
BY DEF FinIdle, Fins, None, Text

LEMMA FinInvFrame ==
    ASSUME FinInv, written \subseteq written', repeated => repeated',
           fin' = FinIdle \/ fin' = fin, UNCHANGED result
    PROVE  FinInv'
<1>1. /\ fin.raw \in Seq(Mentioned(written')) /\ OfChunks(fin.vectors, written') /\ FactsOfChunks(fin.infs, written')
  BY StoredGrows DEF FinInv
<1>2. /\ FinIdle.raw \in Seq(Mentioned(written'))
      /\ OfChunks(FinIdle.vectors, written') /\ FactsOfChunks(FinIdle.infs, written')
  BY FinIdleType, EmptyOf
<1>3. \A r \in Range(result') : \A i \in DOMAIN r.chunks : IsAbout(r, i)'
  BY StaysAbout DEF FinInv
<1>4. CASE fin' = FinIdle
  BY <1>2, <1>3, <1>4, FinIdleType DEF FinInv
<1>5. CASE fin' = fin
  BY <1>1, <1>3, <1>5 DEF FinInv
<1> QED BY <1>4, <1>5

(* What is written about a chunk: everything that was read is of a text    *)
(* that was stored in its place, and if nothing was repeated there was but *)
(* one.                                                                    *)
LEMMA WrittenIsAbout ==
    ASSUME EntryInv, FinInv, OnceInv, fin.at = "inferred",
           NEW r,
           r = [chunks   |-> [i \in DOMAIN fin.chunks |-> Enriched(i, Deduplicate(fin.raw))],
                entities |-> Deduplicate(fin.raw),
                degraded |-> degraded],
           NEW i \in DOMAIN r.chunks
    PROVE  IsAbout(r, i)
<1> DEFINE entities == Deduplicate(fin.raw)
           B == Mentioned(written)
<1>0. /\ fin \in Fins /\ fin.raw \in Seq(B)
      /\ OfChunks(fin.vectors, written) /\ FactsOfChunks(fin.infs, written)
  BY DEF FinInv
<1>1. fin.chunks \in Seq(Text) /\ Len(fin.chunks) \in Nat /\ DOMAIN fin.chunks = 1 .. Len(fin.chunks)
  BY <1>0, LenProperties DEF Fins
<1>2. /\ DOMAIN r.chunks = DOMAIN fin.chunks /\ r.entities = entities
      /\ r.chunks[i] = Enriched(i, entities)
  OBVIOUS
<1> HIDE DEF entities
<1>3. i # 0 /\ i \in DOMAIN fin.chunks
  BY <1>1, <1>2
<1>4. /\ r.chunks[i].text = fin.chunks[i] /\ r.chunks[i].vector = At(fin.vectors, i)
      /\ r.chunks[i].names = {e[1] : e \in {f \in Range(entities) : f[2].chunk = i}}
      /\ r.chunks[i].facts = [k \in DOMAIN At(fin.infs, i) |->
                                [fact |-> fin.infs[i][k], vector |-> At(At(fin.ivecs, i), k)]]
  BY <1>2 DEF Enriched
<1>5. TextsAt(written, i) \subseteq Texts(r, i)
  <2>1. CASE repeated
    BY <2>1 DEF Texts, TextsAt
  <2>2. CASE ~repeated
    <3>1. fin.chunks = chunks /\ \A w \in written : w.chunks = chunks
      BY <2>2 DEF OnceInv, EntryOnce, FinOnce
    <3>2. TextsAt(written, i) \subseteq {fin.chunks[i]}
      BY <3>1 DEF TextsAt
    <3> QED BY <3>2, <1>4 DEF Texts
  <2> QED BY <2>1, <2>2
<1>6. r.chunks[i].vector \in {None} \cup {Vec(t) : t \in Texts(r, i)}
  <2>1. CASE i \in DOMAIN fin.vectors
    BY <2>1, <1>0, <1>4, <1>5 DEF OfChunks, At
  <2>2. CASE i \notin DOMAIN fin.vectors
    BY <2>2, <1>4 DEF At
  <2> QED BY <2>1, <2>2
<1>7. ASSUME NEW f \in Range(r.chunks[i].facts)
      PROVE  /\ f.fact.of \in Texts(r, i) /\ f.fact.confidence >= MinConfidence
             /\ f.vector = None \/ repeated \/ f.vector = Vec(f.fact)
  <2>1. PICK k \in DOMAIN At(fin.infs, i) : f = [fact |-> fin.infs[i][k], vector |-> At(At(fin.ivecs, i), k)]
    BY <1>4, <1>7 DEF Range
  <2>2. i \in DOMAIN fin.infs /\ k \in DOMAIN fin.infs[i]
    BY <2>1 DEF At, None
  <2>3. f.fact = fin.infs[i][k] /\ f.vector = At(At(fin.ivecs, i), k)
    BY <2>1
  <2>4. f.fact.of \in TextsAt(written, i) /\ f.fact.confidence >= MinConfidence
    <3>1. fin.infs[i][k] \in Range(fin.infs[i])
      BY <2>2 DEF Range
    <3> QED BY <3>1, <2>2, <2>3, <1>0 DEF FactsOfChunks
  <2>5. CASE ~repeated /\ f.vector # None
    <3>1. i \in DOMAIN fin.ivecs /\ k \in DOMAIN fin.ivecs[i] /\ f.vector = fin.ivecs[i][k]
      BY <2>3, <2>5 DEF At, None
    <3>2. Aligned(fin.ivecs, fin.infs)
      BY <2>5 DEF OnceInv, FinOnce
    <3>3. f.vector \in {None, Vec(f.fact)}
      BY <3>1, <3>2, <2>2, <2>3 DEF Aligned
    <3> QED BY <3>3, <2>4, <2>5, <1>5
  <2> QED BY <2>4, <2>5, <1>5
<1>8. ASSUME NEW id \in r.chunks[i].names
      PROVE  \E e \in Range(r.entities) : e[1] = id /\ \E t \in Texts(r, i) : e[2].word \in Range(t)
  <2>1. PICK e \in Range(entities) : e[1] = id /\ e[2].chunk = i
    BY <1>4, <1>8
  <2>2. entities \in Seq({EntityId(x) : x \in B} \X B)
    BY <1>0, DeduplicateType DEF entities
  <2>3. e[2] \in B
    <3> HIDE DEF B
    <3>1. e \in {EntityId(x) : x \in B} \X B
      BY <2>2, RangeOfSeq
    <3> QED BY <3>1
  <2>4. \E t \in TextsAt(written, i) : e[2].word \in Range(t)
    BY <2>1, <2>3, <1>3 DEF Mentioned
  <2> QED BY <2>1, <2>4, <1>2, <1>5
<1> QED BY <1>6, <1>7, <1>8 DEF IsAbout

LEMMA FinStep ==
    ASSUME EntryInv, EmbInv, InfInv, EntInv, FinInv, OnceInv, [Next]_vars
    PROVE  FinInv'
<1>0. written \subseteq written' /\ (repeated => repeated')
  BY WrittenGrows, RepeatedStays
<1>1. CASE ~Finishing
  <2>1. UNCHANGED finVars
    BY <1>1 DEF Next, Entry, Embedding, Entities, Inferring, IsCancelled, vars
  <2> QED BY <1>0, <2>1, FinInvFrame DEF finVars
<1>2. CASE Finishing
  <2>0. /\ UNCHANGED <<written, repeated>>
        /\ fin \in Fins /\ fin.raw \in Seq(Mentioned(written))
        /\ OfChunks(fin.vectors, written) /\ FactsOfChunks(fin.infs, written)
        /\ \A r \in Range(result) : \A i \in DOMAIN r.chunks : IsAbout(r, i)'
    BY <1>0, <1>2, EndKeepsTexts, StaysAbout DEF FinInv
  <2>1. CASE Ignores \/ FinFails
    BY <1>0, <2>1, FinInvFrame DEF Ignores, FinFails, finVars
  <2>2. CASE FinReads
    <3>1. /\ chunks \in Seq(Text) /\ inferences \in Seq(Seq(FactOf(Text))) /\ FactsOfChunks(inferences, written)
          /\ raw \in Seq(Mentioned(written)) /\ raw \in Seq(Named)
      <4>1. Mentioned(written) \subseteq Named
        BY DEF Mentioned
      <4> QED BY <4>1, SeqMonotonic DEF EntryInv, EntryTypes, InfInv, EntInv
    <3>2. fin' = [FinIdle EXCEPT !.at = "read", !.chunks = chunks, !.raw = raw, !.infs = inferences] /\ UNCHANGED result
      BY <2>2 DEF FinReads
    <3>3. fin' \in Fins /\ fin'.raw = raw /\ fin'.infs = inferences /\ fin'.vectors = <<>>
      BY <3>1, <3>2, FinIdleType DEF Fins
    <3> QED BY <2>0, <3>1, <3>2, <3>3, EmptyOf DEF FinInv
  <2>3. CASE FinReadsVectors
    <3>1. /\ vectors \in Seq(MaybeVector) /\ inferenceVectors \in Seq(Seq(MaybeVector)) /\ OfChunks(vectors, written)
      BY DEF EmbInv
    <3>2. fin' = [fin EXCEPT !.at = "vectors", !.vectors = vectors, !.ivecs = inferenceVectors] /\ UNCHANGED result
      BY <2>3 DEF FinReadsVectors
    <3>3. fin' \in Fins /\ fin'.raw = fin.raw /\ fin'.infs = fin.infs /\ fin'.vectors = vectors
      BY <2>0, <3>1, <3>2 DEF Fins
    <3> QED BY <2>0, <3>1, <3>2, <3>3 DEF FinInv
  <2>4. CASE FinInfers
    <3>1. PICK v \in Seq(Seq(MaybeVector)) : fin' = [fin EXCEPT !.at = "inferred", !.ivecs = v]
      BY <2>0, <2>4, FinInfersType DEF Fins
    <3>2. fin' \in Fins /\ fin'.raw = fin.raw /\ fin'.infs = fin.infs /\ fin'.vectors = fin.vectors
      BY <2>0, <3>1 DEF Fins
    <3>3. UNCHANGED result
      BY <2>4 DEF FinInfers
    <3> QED BY <2>0, <3>2, <3>3 DEF FinInv
  <2>5. CASE FinHasThem
    <3>1. fin' \in Fins /\ fin'.raw = fin.raw /\ fin'.infs = fin.infs /\ fin'.vectors = fin.vectors
      BY <2>0, <2>5 DEF Fins, FinHasThem
    <3>2. UNCHANGED result
      BY <2>5 DEF FinHasThem
    <3> QED BY <2>0, <3>1, <3>2 DEF FinInv
  <2>6. CASE FinWrites
    <3>1. PICK r : /\ r = [chunks   |-> [i \in DOMAIN fin.chunks |-> Enriched(i, Deduplicate(fin.raw))],
                           entities |-> Deduplicate(fin.raw),
                           degraded |-> degraded]
                   /\ result' = <<r>>
      BY <2>6 DEF FinWrites
    <3>2. fin.at = "inferred" /\ fin' = FinIdle
      BY <2>6 DEF FinWrites
    <3>3. \A i \in DOMAIN r.chunks : IsAbout(r, i)'
      <4> TAKE i \in DOMAIN r.chunks
      <4>1. IsAbout(r, i)
        BY <3>1, <3>2, WrittenIsAbout
      <4> QED BY <4>1, <1>0, StaysAbout
    <3>4. Range(result') = {r}
      <4> HIDE <3>3
      <4>1. DOMAIN <<r>> = {1} /\ <<r>>[1] = r
        OBVIOUS
      <4> QED BY <3>1, <4>1 DEF Range
    <3> QED BY <3>2, <3>3, <3>4, FinIdleType, EmptyOf DEF FinInv
  <2> QED BY <1>2, <2>1, <2>2, <2>3, <2>4, <2>5, <2>6 DEF Finishing
<1> QED BY <1>1, <1>2

---------------------------------------------------------------------------
(* As long as nothing is repeated.                                         *)

LEMMA EntryOnceFrame ==
    ASSUME EntryOnce, UNCHANGED <<flow, chunks, written>>, queue'["entry"] = queue["entry"],
           \/ ~Unpublished
           \/ /\ UNCHANGED <<emb, inf, inferences, inferenceVectors>>
              /\ queue'["embeddings"] = queue["embeddings"] /\ queue'["inferences"] = queue["inferences"]
              /\ "embeddings" \in steps' => "embeddings" \in steps
    PROVE  EntryOnce'
<1>1. (Unpublished' <=> Unpublished) /\ (NotStored' <=> NotStored)
  BY DEF Unpublished, NotStored
<1>2. /\ queue'["entry"] \in {0, 1} /\ (queue'["entry"] = 1 => flow'.at = "idle")
      /\ NotStored' => chunks' = None /\ written' = {}
      /\ \A w \in written' : w.chunks = chunks'
  BY <1>1 DEF EntryOnce
<1>3. Unpublished' =>
          /\ queue'["embeddings"] = 0 /\ emb'.at = "idle" /\ "embeddings" \notin steps'
          /\ queue'["inferences"] = 0 /\ inf'.at = "idle"
          /\ inferences' = None /\ inferenceVectors' = None
  BY <1>1 DEF EntryOnce
<1> QED BY <1>2, <1>3 DEF EntryOnce, None

LEMMA EmbOnceFrame ==
    ASSUME EmbOnce, UNCHANGED <<chunks, emb, vectors, degraded, touched>>,
           queue'["embeddings"] = queue["embeddings"], "embeddings" \in steps' <=> "embeddings" \in steps
    PROVE  EmbOnce'
BY DEF EmbOnce, Lacks, None

LEMMA InfOnceFrame ==
    ASSUME InfOnce, UNCHANGED <<inferences, inferenceVectors, inf>>, emb' = emb \/ emb'.at # "inferring",
           queue'["inferences"] = queue["inferences"]
    PROVE  InfOnce'
BY DEF InfOnce, Aligned, None, Vec

LEMMA FinOnceFrame ==
    ASSUME FinOnce, UNCHANGED <<fin, result>>,
           fin.at = "idle" \/ UNCHANGED <<chunks, vectors>>,
           fin.infs = None \/ UNCHANGED inferences,
           "embeddings" \in steps => "embeddings" \in steps', touched => touched'
    PROVE  FinOnce'
BY DEF FinOnce, Aligned, None, Vec

(* What the entry does before it publishes is seen by nobody ...           *)
LEMMA EntryOnceStep ==
    ASSUME EntryInv, EntryOnce, EmbOnce, InfOnce, FinOnce, Entry, ~repeated'
    PROVE  EntryOnce' /\ EmbOnce' /\ InfOnce' /\ FinOnce'
<1> USE DEF jobVars, keyVars
<1>0. /\ queue \in [Stages -> Nat]
      /\ UNCHANGED <<emb, degraded, vectors, inferenceVectors, touched, inf, fin, result>>
      /\ env.stages \subseteq {"embeddings", "entities", "inferences"}
  BY EnvironmentAssumption DEF EntryInv, EntryTypes, Entry, embVars, vectorVars, infVars, finVars
<1>01. /\ queue["entry"] \in {0, 1} /\ (queue["entry"] = 1 => flow.at = "idle")
       /\ NotStored => chunks = None /\ written = {}
       /\ \A w \in written : w.chunks = chunks
       /\ Unpublished =>
          /\ queue["embeddings"] = 0 /\ emb.at = "idle" /\ "embeddings" \notin steps
          /\ queue["inferences"] = 0 /\ inf.at = "idle"
          /\ inferences = None /\ inferenceVectors = None
  BY DEF EntryOnce
(* The steps before the text is stored, and the ends of the entry.         *)
<1>02. ASSUME UNCHANGED <<chunks, written, inferences, steps>>,
              queue'["embeddings"] = queue["embeddings"], queue'["inferences"] = queue["inferences"],
              queue'["entry"] = 0,
              \/ flow'.at = "idle"
              \/ flow'.at \in {"gate", "pages", "text", "looked"} /\ NotStored
       PROVE  EntryOnce' /\ EmbOnce' /\ InfOnce' /\ FinOnce'
  <2>1. EmbOnce' /\ InfOnce' /\ FinOnce'
    BY <1>0, <1>02, EmbOnceFrame, InfOnceFrame, FinOnceFrame
  <2>2. NotStored => Unpublished
    BY DEF NotStored, Unpublished
  <2>3. (NotStored' => NotStored) /\ (Unpublished' => Unpublished)
    BY <1>02, <2>2 DEF NotStored, Unpublished
  <2>4. EntryOnce'
    BY <1>0, <1>01, <1>02, <2>3 DEF EntryOnce, None
  <2> QED BY <2>1, <2>4
<1>1. CASE Begins
  <2>1. /\ queue["entry"] > 0 /\ queue' = [queue EXCEPT !["entry"] = @ - 1]
        /\ flow' = [Rest EXCEPT !.at = "gate"] /\ UNCHANGED <<chunks, written, inferences, steps>>
    BY <1>1 DEF Begins, Takes
  <2>2. flow'.at = "gate"
    BY <2>1 DEF Rest
  <2>3. queue'["entry"] = 0 /\ queue'["embeddings"] = queue["embeddings"] /\ queue'["inferences"] = queue["inferences"]
    BY <1>0, <1>01, <2>1 DEF Stages
  <2>4. NotStored
    BY <2>1 DEF NotStored
  <2> QED BY <1>02, <2>1, <2>2, <2>3, <2>4
<1>2. CASE \/ KeepsWhole \/ OpensPdf \/ FlowErrs \/ KeepsGoodPage \/ KeepsPageOverBudget \/ TimeRunsOut
           \/ Replaces \/ SeesNothing \/ CannotSee \/ Assembles \/ Hears \/ Reads \/ LooksAgain
  <2>1. UNCHANGED <<chunks, written, inferences, steps, queue>> /\ flow.at \in {"gate", "pages", "text"}
    BY <1>2 DEF KeepsWhole, OpensPdf, FlowErrs, KeepsGoodPage, KeepsPageOverBudget, TimeRunsOut,
           Replaces, SeesNothing, CannotSee, Assembles, Hears, Reads, LooksAgain, AtPage, AsksVision
  <2>2. flow'.at \in {"gate", "pages", "text", "looked"}
    <3>1. flow \in Flows
      BY DEF EntryInv, EntryTypes
    <3> QED BY <1>2, <2>1, <3>1 DEF Flows, KeepsWhole, OpensPdf, FlowErrs, KeepsGoodPage, KeepsPageOverBudget, TimeRunsOut,
           Replaces, SeesNothing, CannotSee, Assembles, Hears, Reads, LooksAgain, Goes, Ends
  <2>3. NotStored /\ queue["entry"] = 0
    BY <1>01, <2>1 DEF NotStored
  <2> QED BY <1>02, <2>1, <2>2, <2>3
<1>3. CASE CannotHear \/ CannotRead \/ FindsNoText \/ StopsCancelled \/ Acks
  <2>1. UNCHANGED <<chunks, written, inferences, steps, queue>> /\ flow.at # "idle" /\ flow'.at = "idle"
    BY <1>3 DEF CannotHear, CannotRead, FindsNoText, StopsCancelled, Acks, Fails, Rest
  <2> QED BY <1>01, <1>02, <2>1
<1>4. CASE StoresText \/ StoresMedia
  <2>1. /\ chunks' = NewChunks /\ flow' = [flow EXCEPT !.at = "stored"] /\ steps' = steps \cup {"entry"}
        /\ written' = written \cup {[text |-> flow.text, chunks |-> NewChunks, report |-> flow.report]}
        /\ UNCHANGED <<inferences, queue>> /\ flow.at \in {"text", "looked"}
    BY <1>4 DEF StoresText, StoresMedia, Stores
  <2>2. NotStored /\ Unpublished /\ queue["entry"] = 0 /\ written = {}
    BY <1>01, <2>1 DEF NotStored, Unpublished
  <2>3. flow'.at = "stored"
    <3>1. flow \in Flows
      BY DEF EntryInv, EntryTypes
    <3> QED BY <2>1, <3>1 DEF Flows
  <2>4. \A w \in written' : w.chunks = chunks'
    BY <2>1, <2>2
  <2>5. ~NotStored'
    BY <2>1, <2>2, <2>3 DEF NotStored
  <2>6. EntryOnce'
    BY <1>0, <1>01, <2>1, <2>2, <2>3, <2>4, <2>5 DEF EntryOnce, None
  <2>7. "embeddings" \notin steps /\ "embeddings" \notin steps'
    BY <1>01, <2>1, <2>2
  <2>8. EmbOnce'
    BY <1>0, <1>01, <2>1, <2>2, <2>7 DEF EmbOnce
  <2>9. fin.at = "idle"
    BY <2>7 DEF FinOnce
  <2>10. InfOnce' /\ FinOnce'
    BY <1>0, <2>1, <2>7, <2>9, InfOnceFrame, FinOnceFrame
  <2> QED BY <2>6, <2>8, <2>10
<1>5. CASE Publishes
  <2>1. /\ flow.at = "stored" /\ flow' = [flow EXCEPT !.at = "published"]
        /\ queue' = [s \in DOMAIN queue |-> IF s \in env.stages \ Skipped THEN queue[s] + 1 ELSE queue[s]]
        /\ steps' = steps \cup (env.stages \cap Skipped)
        /\ UNCHANGED <<chunks, written, inferences>>
    BY <1>5 DEF Publishes
  <2>2. Unpublished /\ queue["entry"] = 0
    BY <1>01, <2>1 DEF Unpublished
  <2>3. flow'.at = "published"
    <3>1. flow \in Flows
      BY DEF EntryInv, EntryTypes
    <3> QED BY <2>1, <3>1 DEF Flows
  <2>4. queue'["entry"] = 0 /\ queue'["embeddings"] \in {0, 1} /\ queue'["inferences"] \in {0, 1}
    <3>1. queue'["entry"] = queue["entry"]
      BY <1>0, <2>1 DEF Stages
    <3>2. queue'["embeddings"] \in {queue["embeddings"], queue["embeddings"] + 1}
      BY <1>0, <2>1 DEF Stages
    <3>3. queue'["inferences"] \in {queue["inferences"], queue["inferences"] + 1}
      BY <1>0, <2>1 DEF Stages
    <3> QED BY <3>1, <3>2, <3>3, <1>01, <2>2
  <2>5. ~NotStored' /\ ~Unpublished'
    BY <2>3, <2>4 DEF NotStored, Unpublished
  <2>6. EntryOnce'
    BY <1>01, <2>1, <2>4, <2>5 DEF EntryOnce
  <2>7. "embeddings" \notin steps /\ "embeddings" \notin steps'
    BY <1>01, <2>1, <2>2 DEF Skipped
  <2>8. EmbOnce'
    BY <1>0, <1>01, <2>2, <2>4, <2>7 DEF EmbOnce
  <2>9. InfOnce'
    BY <1>0, <1>01, <2>1, <2>2, <2>4 DEF InfOnce, Aligned, None
  <2>10. FinOnce'
    BY <1>0, <2>1, <2>7, FinOnceFrame
  <2> QED BY <2>6, <2>8, <2>9, <2>10
<1>6. CASE EntryDies
  BY <1>6 DEF EntryDies, ComesBack
<1> QED BY <1>1, <1>2, <1>3, <1>4, <1>5, <1>6 DEF Entry, EntryNext

(* ... the vectors are made once ...                                       *)
LEMMA EmbOnceStep ==
    ASSUME EntryInv, EmbInv, InfInv, EntryOnce, EmbOnce, InfOnce, FinOnce, Embedding, ~repeated'
    PROVE  EntryOnce' /\ EmbOnce' /\ InfOnce' /\ FinOnce'
<1> USE DEF jobVars, keyVars, vectorVars
<1>0. /\ queue \in [Stages -> Nat] /\ emb \in Embs
      /\ UNCHANGED <<flow, chunks, written, inf, inferences, fin, result>>
  <2>1. UNCHANGED <<chunks, written>>
    BY OthersKeepTexts DEF EntryInv, Embedding
  <2>2. UNCHANGED <<flow, inf, fin, result>>
    BY DEF Embedding, flowVars, infVars, finVars
  <2>3. UNCHANGED inferences
    BY DEF Embedding, EmbNext, EmbTakes, EmbIsAnswered, EmbIsRefused, EmbFails, EmbMarks, EmbStores,
        EmbLooksForInferences, EmbInfers, EmbStoresInferences, EmbTells, EmbDies, CacheExpires
  <2> QED BY <2>1, <2>2, <2>3 DEF EntryInv, EntryTypes, EmbInv
<1>01. /\ queue["embeddings"] \in {0, 1} /\ (queue["embeddings"] = 1 => emb.at = "idle")
       /\ (queue["embeddings"] = 1 \/ emb.at \in {"asking", "marked"} => "embeddings" \notin steps)
       /\ emb.at \in {"asking", "marked"} => emb.texts = chunks
       /\ emb.at \in {"asking", "marked", "stored"} => emb.ivecs = <<>>
       /\ (emb.at = "marked" /\ ~touched => (degraded <=> Lacks(emb.got)))
       /\ "embeddings" \in steps =>
             /\ Len(vectors) = Len(chunks)
             /\ ~touched => (degraded <=> Lacks(vectors))
  BY DEF EmbOnce
<1>02. Unpublished => queue["embeddings"] = 0 /\ emb.at = "idle"
  BY DEF EntryOnce
(* The steps that touch neither the queue nor the steps nor the vectors    *)
(* and end neither in "asking" nor "marked".                               *)
<1>03. ASSUME ~Unpublished, queue'["entry"] = queue["entry"], queue'["inferences"] = queue["inferences"],
              "embeddings" \in steps => "embeddings" \in steps', touched => touched',
              fin.at = "idle" \/ UNCHANGED vectors
       PROVE  /\ EntryOnce' /\ FinOnce'
              /\ UNCHANGED inferenceVectors /\ emb'.at # "inferring" => InfOnce'
  <2>1. EntryOnce'
    BY <1>0, <1>03, EntryOnceFrame
  <2>2. FinOnce'
    BY <1>0, <1>03, FinOnceFrame
  <2>3. UNCHANGED inferenceVectors /\ emb'.at # "inferring" => InfOnce'
    BY <1>0, <1>03, InfOnceFrame
  <2> QED BY <2>1, <2>2, <2>3
<1>1. CASE EmbTakes
  <2>1. /\ queue["embeddings"] > 0 /\ queue' = [queue EXCEPT !["embeddings"] = @ - 1]
        /\ UNCHANGED <<steps, vectors, degraded, inferenceVectors, touched>>
    BY <1>1 DEF EmbTakes, Takes
  <2>2. emb'.at = "asking" /\ emb'.texts = chunks /\ emb'.ivecs = <<>>
    BY <1>1 DEF EmbTakes, EmbIdle
  <2>3. queue["embeddings"] = 1 /\ ~Unpublished /\ "embeddings" \notin steps
    BY <1>01, <1>02, <2>1
  <2>4. queue'["entry"] = queue["entry"] /\ queue'["inferences"] = queue["inferences"] /\ queue'["embeddings"] = 0
    BY <1>0, <2>1, <2>3 DEF Stages
  <2>5. EntryOnce' /\ FinOnce' /\ InfOnce'
    BY <1>03, <2>1, <2>2, <2>3, <2>4
  <2>6. EmbOnce'
    BY <1>0, <2>1, <2>2, <2>3, <2>4 DEF EmbOnce
  <2> QED BY <2>5, <2>6
(* The others are only taken by a worker that has taken a message.         *)
<1>04. ASSUME emb.at # "idle" PROVE ~Unpublished /\ queue["embeddings"] = 0
  BY <1>01, <1>02, <1>04
<1>2. CASE EmbIsAnswered \/ EmbIsRefused
  <2>1. /\ emb.at = "asking" /\ emb'.at = "asking" /\ emb'.texts = emb.texts /\ emb'.ivecs = emb.ivecs
        /\ UNCHANGED <<queue, steps, vectors, degraded, inferenceVectors, touched>>
    BY <1>0, <1>2 DEF EmbIsAnswered, EmbIsRefused, Embs
  <2>2. EntryOnce' /\ FinOnce' /\ InfOnce'
    BY <1>03, <1>04, <2>1
  <2>3. EmbOnce'
    BY <1>0, <1>01, <1>04, <2>1 DEF EmbOnce
  <2> QED BY <2>2, <2>3
<1>3. CASE EmbFails \/ EmbTells
  <2>1. /\ emb.at # "idle" /\ emb'.at = "idle"
        /\ UNCHANGED <<queue, steps, vectors, degraded, inferenceVectors, touched>>
    BY <1>3, EmbIdleType DEF EmbFails, EmbTells
  <2>2. EntryOnce' /\ FinOnce' /\ InfOnce'
    BY <1>03, <1>04, <2>1
  <2>3. EmbOnce'
    BY <1>0, <1>01, <1>04, <2>1 DEF EmbOnce, Lacks, None
  <2> QED BY <2>2, <2>3
<1>4. CASE EmbMarks
  <2>1. /\ emb.at = "asking" /\ emb' = [emb EXCEPT !.at = "marked"] /\ degraded' = (Missing # {})
        /\ UNCHANGED <<queue, steps, vectors, inferenceVectors, touched>>
    BY <1>4 DEF EmbMarks
  <2>2. emb'.at = "marked" /\ emb'.texts = emb.texts /\ emb'.got = emb.got /\ emb'.ivecs = emb.ivecs
    BY <1>0, <2>1 DEF Embs
  <2>3. EntryOnce' /\ FinOnce' /\ InfOnce'
    BY <1>03, <1>04, <2>1, <2>2
  <2>4. degraded' <=> Lacks(emb'.got)
    BY <2>1, <2>2 DEF Lacks, Missing
  <2>5. EmbOnce'
    <3>1. "embeddings" \notin steps'
      BY <1>01, <2>1
    <3> QED BY <1>0, <1>01, <1>04, <2>1, <2>2, <2>4, <3>1 DEF EmbOnce, Lacks, None
  <2> QED BY <2>3, <2>5
<1>5. CASE EmbStores
  <2>1. /\ emb.at = "marked" /\ emb' = [emb EXCEPT !.at = "stored"]
        /\ vectors' = emb.got /\ steps' = steps \cup {"embeddings"}
        /\ UNCHANGED <<queue, degraded, inferenceVectors, touched>>
    BY <1>5 DEF EmbStores
  <2>2. emb'.at = "stored" /\ emb'.ivecs = emb.ivecs
    BY <1>0, <2>1 DEF Embs
  <2>3. "embeddings" \notin steps /\ fin.at = "idle"
    BY <1>01, <2>1 DEF FinOnce
  <2>4. EntryOnce' /\ FinOnce' /\ InfOnce'
    BY <1>03, <1>04, <2>1, <2>2, <2>3
  <2>5. Len(vectors') = Len(chunks) /\ (~touched => (degraded <=> Lacks(vectors')))
    BY <1>01, <2>1 DEF EmbInv
  <2>6. EmbOnce'
    BY <1>0, <1>01, <1>04, <2>1, <2>2, <2>5 DEF EmbOnce, Lacks, None
  <2> QED BY <2>4, <2>6
<1>6. CASE EmbLooksForInferences
  <2>1. /\ emb.at = "stored"
        /\ emb' = [emb EXCEPT !.at = IF inferences = None THEN "told" ELSE "inferring", !.infs = inferences]
        /\ UNCHANGED <<queue, steps, vectors, degraded, inferenceVectors, touched>>
    BY <1>6 DEF EmbLooksForInferences
  <2>2. /\ emb'.at \in {"told", "inferring"} /\ (emb'.at = "inferring" => inferences # None)
        /\ emb'.infs = inferences /\ emb'.ivecs = <<>>
    BY <1>0, <1>01, <2>1 DEF Embs
  <2>3. EntryOnce' /\ FinOnce'
    BY <1>03, <1>04, <2>1
  <2>4. EmbOnce'
    BY <1>0, <1>01, <1>04, <2>1, <2>2 DEF EmbOnce, Lacks, None
  <2>5. InfOnce'
    <3>1. Aligned(emb'.ivecs, inferences)
      BY <2>2 DEF Aligned
    <3>2. Aligned(inferenceVectors, inferences)
      BY DEF InfOnce
    <3> QED BY <1>0, <2>1, <2>2, <3>1, <3>2 DEF InfOnce, None, Aligned, Vec
  <2> QED BY <2>3, <2>4, <2>5
<1>7. CASE EmbInfers
  <2> DEFINE n == Len(emb.ivecs)
             facts == emb.infs[n + 1]
             v(heard) == IF heard = {} THEN None ELSE VectorsOf(facts, heard)
  <2>1. PICK heard \in SUBSET DOMAIN facts :
            /\ degraded' = IF heard = {} THEN degraded ELSE heard # DOMAIN facts
            /\ emb' = [emb EXCEPT !.ivecs = Append(@, v(heard))]
            /\ touched' = (touched \/ heard # {})
    BY <1>7 DEF EmbInfers
  <2>2. emb.at = "inferring" /\ UNCHANGED <<queue, steps, vectors, inferenceVectors>>
    BY <1>7 DEF EmbInfers
  <2>3. emb'.at = "inferring" /\ emb'.infs = emb.infs /\ emb'.ivecs = Append(emb.ivecs, v(heard))
    BY <1>0, <2>1, <2>2 DEF Embs
  <2>4. (touched => touched') /\ (~touched' => degraded' = degraded /\ ~touched)
    BY <2>1
  <2>5. EntryOnce' /\ FinOnce'
    BY <1>03, <1>04, <2>2, <2>4
  <2>6. EmbOnce'
    BY <1>0, <1>01, <1>04, <2>2, <2>3, <2>4 DEF EmbOnce, Lacks, None
  <2>7. emb.infs = inferences /\ inferences # None /\ Aligned(emb.ivecs, inferences) /\ Aligned(inferenceVectors, inferences)
    BY <2>2 DEF InfOnce
  <2>8. Aligned(emb'.ivecs, inferences)
    <3>1. n \in Nat /\ DOMAIN emb.ivecs = 1 .. n
      BY <1>0, LenProperties DEF Embs
    <3> DEFINE w == v(heard)
    <3>2. \A k \in DOMAIN w \cap DOMAIN facts : w[k] \in {None, Vec(facts[k])}
      BY DEF VectorsOf, None
    <3> HIDE DEF w
    <3>3. /\ DOMAIN Append(emb.ivecs, w) = 1 .. n + 1 /\ Append(emb.ivecs, w)[n + 1] = w
          /\ \A i \in 1 .. n : Append(emb.ivecs, w)[i] = emb.ivecs[i]
      <4>1. emb.ivecs \in Seq(Seq(MaybeVector) \cup {w})
        <5>1. emb.ivecs \in Seq(Seq(MaybeVector)) /\ Seq(MaybeVector) \subseteq Seq(MaybeVector) \cup {w}
          BY <1>0 DEF Embs
        <5> QED BY <5>1, SeqMonotonic
      <4>2. w \in Seq(MaybeVector) \cup {w}
        OBVIOUS
      <4> QED BY <4>1, <4>2, <3>1, AppendProperties, LenProperties
    <3>4. emb'.ivecs = Append(emb.ivecs, w)
      BY <2>3 DEF w
    <3>5. facts = inferences[n + 1]
      BY <2>7
    <3> DEFINE new == Append(emb.ivecs, w)
    <3> HIDE DEF n, facts, new
    <3>6. ASSUME NEW i \in DOMAIN new \cap DOMAIN inferences, NEW k \in DOMAIN new[i] \cap DOMAIN inferences[i]
          PROVE  new[i][k] \in {None, Vec(inferences[i][k])}
      <4>1. CASE i = n + 1
        BY <4>1, <3>2, <3>3, <3>5, <3>6 DEF new
      <4>2. CASE i # n + 1
        <5>1. i \in 1 .. n /\ new[i] = emb.ivecs[i]
          BY <4>2, <3>1, <3>3, <3>6 DEF new
        <5> QED BY <5>1, <3>1, <3>6, <2>7 DEF Aligned
      <4> QED BY <4>1, <4>2
    <3> QED BY <3>4, <3>6 DEF Aligned, new
  <2>9. InfOnce'
    BY <1>0, <2>2, <2>3, <2>7, <2>8 DEF InfOnce, None, Aligned, Vec
  <2> QED BY <2>5, <2>6, <2>9
<1>8. CASE EmbStoresInferences
  <2>1. /\ emb.at = "inferring" /\ inferenceVectors' \in {emb.ivecs, inferenceVectors} /\ emb' = [emb EXCEPT !.at = "told"]
        /\ UNCHANGED <<queue, steps, vectors, degraded, touched>>
    BY <1>8 DEF EmbStoresInferences
  <2>2. emb'.at = "told"
    BY <1>0, <2>1 DEF Embs
  <2>3. EntryOnce' /\ FinOnce'
    BY <1>03, <1>04, <2>1
  <2>4. EmbOnce'
    BY <1>0, <1>01, <1>04, <2>1, <2>2 DEF EmbOnce, Lacks, None
  <2>5. inferences # None /\ Aligned(inferenceVectors', inferences)
    BY <2>1 DEF InfOnce
  <2>6. InfOnce'
    BY <1>0, <2>1, <2>2, <2>5 DEF InfOnce, None, Aligned, Vec
  <2> QED BY <2>3, <2>4, <2>6
<1>9. CASE CacheExpires
  <2>1. UNCHANGED <<emb, queue, steps, vectors, degraded, touched, inferenceVectors>>
    BY <1>9 DEF CacheExpires
  <2> QED BY <1>0, <2>1, EntryOnceFrame, EmbOnceFrame, InfOnceFrame, FinOnceFrame
<1>10. CASE EmbDies
  BY <1>10 DEF EmbDies, ComesBack
<1> QED BY <1>1, <1>2, <1>3, <1>4, <1>5, <1>6, <1>7, <1>8, <1>9, <1>10 DEF Embedding, EmbNext

(* ... the entities concern none of this ...                               *)
LEMMA EntOnceStep ==
    ASSUME EntryInv, EntryOnce, EmbOnce, InfOnce, FinOnce, Entities, ~repeated'
    PROVE  EntryOnce' /\ EmbOnce' /\ InfOnce' /\ FinOnce'
<1> USE DEF jobVars, keyVars
<1>0. queue \in [Stages -> Nat]
  BY DEF EntryInv, EntryTypes
<1>1. UNCHANGED <<flow, chunks, written, inferences, emb, degraded, vectors, inferenceVectors, touched, inf, fin, result>>
  BY DEF Entities, EntNext, EntTakes, PredictsLarge, PredictsBatch, AddsRules, EntStores,
        EntStopsCancelled, EntDies, flowVars, infVars, embVars, vectorVars, finVars
<1>2. "embeddings" \in steps' <=> "embeddings" \in steps
  BY DEF Entities, EntNext, EntTakes, PredictsLarge, PredictsBatch, AddsRules, EntStores,
        EntStopsCancelled, EntDies, Completes
<1>3. \A s \in {"entry", "embeddings", "inferences"} : queue'[s] = queue[s]
  <2>1. CASE EntTakes \/ EntStopsCancelled
    BY <1>0, <2>1 DEF EntTakes, EntStopsCancelled, Takes, Stages
  <2>2. CASE PredictsLarge \/ PredictsBatch \/ AddsRules \/ EntStores
    BY <2>2 DEF PredictsLarge, PredictsBatch, AddsRules, EntStores
  <2>3. CASE EntDies
    BY <2>3 DEF EntDies, ComesBack
  <2> QED BY <2>1, <2>2, <2>3 DEF Entities, EntNext
<1> QED BY <1>1, <1>2, <1>3, EntryOnceFrame, EmbOnceFrame, InfOnceFrame, FinOnceFrame

(* ... the inferences are made once, before their vectors ...              *)
LEMMA InfOnceStep ==
    ASSUME EntryInv, InfInv, EntryOnce, EmbOnce, InfOnce, FinOnce, Inferring, ~repeated'
    PROVE  EntryOnce' /\ EmbOnce' /\ InfOnce' /\ FinOnce'
<1> USE DEF jobVars, keyVars
<1>0. /\ queue \in [Stages -> Nat] /\ inf \in Infs
      /\ UNCHANGED <<flow, chunks, written, emb, degraded, vectors, inferenceVectors, touched, fin, result>>
  <2>1. UNCHANGED <<chunks, written>>
    BY OthersKeepTexts DEF EntryInv, Inferring
  <2>2. UNCHANGED <<flow, emb, degraded, vectors, inferenceVectors, touched, fin, result>>
    BY DEF Inferring, flowVars, embVars, vectorVars, finVars
  <2> QED BY <2>1, <2>2 DEF EntryInv, EntryTypes, InfInv
<1>01. /\ queue["inferences"] \in {0, 1} /\ (queue["inferences"] = 1 => inf.at = "idle")
       /\ inferences # None => queue["inferences"] = 0 /\ inf.at = "idle"
       /\ inferences = None => inferenceVectors = None
       /\ Aligned(inferenceVectors, inferences)
       /\ emb.at = "inferring" => inferences # None
  BY DEF InfOnce
<1>02. Unpublished => queue["inferences"] = 0 /\ inf.at = "idle"
  BY DEF EntryOnce
(* As long as nothing is assembled there are no inferences.                *)
<1>03. ASSUME ~Unpublished, inferences = None, UNCHANGED <<inferences, steps>>,
              queue'["entry"] = queue["entry"], queue'["embeddings"] = queue["embeddings"],
              queue'["inferences"] = 0
       PROVE  EntryOnce' /\ EmbOnce' /\ InfOnce' /\ FinOnce'
  <2>1. EntryOnce' /\ EmbOnce' /\ FinOnce'
    BY <1>0, <1>03, EntryOnceFrame, EmbOnceFrame, FinOnceFrame
  <2>2. inferenceVectors = None /\ emb.at # "inferring"
    BY <1>01, <1>03
  <2>3. InfOnce'
    BY <1>0, <1>03, <2>2 DEF InfOnce, Aligned, None
  <2> QED BY <2>1, <2>3
<1>1. CASE InfTakes
  <2>1. queue["inferences"] > 0 /\ queue' = [queue EXCEPT !["inferences"] = @ - 1] /\ UNCHANGED <<inferences, steps>>
    BY <1>1 DEF InfTakes, Takes
  <2>2. queue["inferences"] = 1 /\ ~Unpublished /\ inferences = None
    BY <1>01, <1>02, <2>1
  <2>3. queue'["entry"] = queue["entry"] /\ queue'["embeddings"] = queue["embeddings"] /\ queue'["inferences"] = 0
    BY <1>0, <2>1, <2>2 DEF Stages
  <2> QED BY <1>03, <2>1, <2>2, <2>3
<1>04. ASSUME inf.at # "idle" PROVE ~Unpublished /\ queue["inferences"] = 0 /\ inferences = None
  BY <1>01, <1>02, <1>04
<1>2. CASE \/ LooksUp \/ AnswersBatch \/ HasNothingToAsk \/ CannotAskBatch
           \/ TakesOne \/ RecallsOne \/ AnswersOne \/ CannotAskOne
  <2>1. UNCHANGED <<queue, steps, inferences>> /\ inf.at # "idle"
    BY <1>2 DEF LooksUp, AnswersBatch, HasNothingToAsk, CannotAskBatch,
           TakesOne, RecallsOne, AnswersOne, CannotAskOne
  <2> QED BY <1>03, <1>04, <2>1
<1>3. CASE Assembled
  <2>1. inf.at # "idle" /\ inf'.at = "idle" /\ steps' = steps \cup {"inferences"} /\ UNCHANGED queue
    BY <1>3, InfIdleType DEF Assembled, Completes
  <2>2. ~Unpublished /\ queue["inferences"] = 0 /\ inferences = None
    BY <1>04, <2>1
  <2>3. inferenceVectors = None /\ emb.at # "inferring" /\ fin.infs = None
    BY <1>01, <2>2 DEF FinOnce
  <2>4. "embeddings" \in steps' <=> "embeddings" \in steps
    BY <2>1
  <2>5. EntryOnce' /\ EmbOnce' /\ FinOnce'
    BY <1>0, <2>1, <2>2, <2>3, <2>4, EntryOnceFrame, EmbOnceFrame, FinOnceFrame
  <2>6. InfOnce'
    BY <1>0, <2>1, <2>2, <2>3 DEF InfOnce, Aligned, None
  <2> QED BY <2>5, <2>6
<1>4. CASE MemoExpires
  <2>1. UNCHANGED <<inf, queue, steps, inferences>>
    BY <1>4 DEF MemoExpires
  <2> QED BY <1>0, <2>1, EntryOnceFrame, EmbOnceFrame, InfOnceFrame, FinOnceFrame
<1>5. CASE InfDies
  BY <1>5 DEF InfDies, ComesBack
<1> QED BY <1>1, <1>2, <1>3, <1>4, <1>5 DEF Inferring, InfNext

(* ... and the completion worker reads what nobody changes any more.       *)
LEMMA FinOnceStep ==
    ASSUME EntryInv, FinInv, EntryOnce, EmbOnce, InfOnce, FinOnce, Finishing
    PROVE  EntryOnce' /\ EmbOnce' /\ InfOnce' /\ FinOnce'
<1> USE DEF jobVars, keyVars, vectorVars
<1>0. /\ fin \in Fins
      /\ UNCHANGED <<flow, chunks, written, inferences, queue, steps, emb, degraded, vectors, touched, inf>>
  BY DEF FinInv, Finishing, Ignores, FinReads, FinReadsVectors, FinInfers, FinHasThem, FinFails, FinWrites,
         othersThanFin, flowVars, infVars
<1>01. /\ fin.at # "idle" => "embeddings" \in steps /\ fin.chunks = chunks
       /\ fin.at \in {"vectors", "inferred"} => fin.vectors = vectors
       /\ fin.infs = None \/ fin.infs = inferences
       /\ Aligned(fin.ivecs, fin.infs)
       /\ ~touched => \A r \in Range(result) :
             r.degraded <=> \E i \in DOMAIN r.chunks : r.chunks[i].vector = None
       /\ Aligned(inferenceVectors, inferences)
  BY DEF FinOnce, InfOnce
<1>02. EmbOnce'
  BY <1>0, EmbOnceFrame
<1>03. UNCHANGED inferenceVectors => EntryOnce' /\ InfOnce'
  BY <1>0, EntryOnceFrame, InfOnceFrame
<1>04. /\ Aligned(<<>>, fin.infs) /\ Aligned(<<>>, inferences) /\ Aligned(<<>>, <<>>)
       /\ Aligned(inferenceVectors, <<>>)
  BY DEF Aligned
<1>1. CASE Ignores
  <2>1. UNCHANGED <<fin, result, inferenceVectors>>
    BY <1>1 DEF Ignores, finVars
  <2> QED BY <1>0, <1>02, <1>03, <2>1, FinOnceFrame
<1>2. CASE FinFails
  <2>1. fin' = FinIdle /\ UNCHANGED <<result, inferenceVectors>>
    BY <1>2 DEF FinFails
  <2>2. FinOnce'
    BY <1>0, <1>01, <1>04, <2>1, FinIdleType DEF FinOnce, None
  <2> QED BY <1>02, <1>03, <2>1, <2>2
<1>3. CASE FinReads
  <2>1. /\ fin' = [FinIdle EXCEPT !.at = "read", !.chunks = chunks, !.raw = raw, !.infs = inferences]
        /\ Required \subseteq steps /\ UNCHANGED <<result, inferenceVectors>>
    BY <1>3 DEF FinReads, Ready
  <2>2. fin'.at = "read" /\ fin'.chunks = chunks /\ fin'.infs = inferences /\ fin'.ivecs = <<>>
    BY <2>1 DEF FinIdle, None
  <2>3. "embeddings" \in steps
    BY <2>1, EnvironmentAssumption DEF EntryInv, EntryTypes, Required
  <2>4. FinOnce'
    BY <1>0, <1>01, <1>04, <2>1, <2>2, <2>3 DEF FinOnce, None
  <2> QED BY <1>02, <1>03, <2>1, <2>4
<1>4. CASE FinReadsVectors
  <2>1. /\ fin.at = "read" /\ fin' = [fin EXCEPT !.at = "vectors", !.vectors = vectors, !.ivecs = inferenceVectors]
        /\ UNCHANGED <<result, inferenceVectors>>
    BY <1>4 DEF FinReadsVectors
  <2>2. /\ fin'.at = "vectors" /\ fin'.chunks = fin.chunks /\ fin'.infs = fin.infs
        /\ fin'.vectors = vectors /\ fin'.ivecs = inferenceVectors
    BY <1>0, <2>1 DEF Fins
  <2>3. Aligned(fin'.ivecs, fin'.infs)
    BY <1>01, <1>04, <2>2 DEF None
  <2>4. FinOnce'
    BY <1>0, <1>01, <2>1, <2>2, <2>3 DEF FinOnce, None, Aligned, Vec
  <2> QED BY <1>02, <1>03, <2>1, <2>4
<1>5. CASE FinInfers
  <2>1. PICK v \in Seq(Seq(MaybeVector)) :
           /\ Aligned(v, fin.infs)
           /\ fin' = [fin EXCEPT !.at = "inferred", !.ivecs = v]
           /\ inferenceVectors' = v
    BY <1>0, <1>5, FinInfersType DEF Fins
  <2>2. fin.at = "vectors" /\ fin.infs # None /\ UNCHANGED result
    BY <1>5 DEF FinInfers, Asks, None
  <2>3. /\ fin'.at = "inferred" /\ fin'.chunks = fin.chunks /\ fin'.infs = fin.infs
        /\ fin'.vectors = fin.vectors /\ fin'.ivecs = v
    BY <1>0, <2>1 DEF Fins
  <2>4. FinOnce'
    BY <1>0, <1>01, <2>1, <2>2, <2>3 DEF FinOnce, None, Aligned, Vec
  <2>5. inferences # None /\ fin.infs = inferences
    BY <1>01, <2>2
  <2>6. InfOnce'
    BY <1>0, <2>1, <2>5 DEF InfOnce, None, Aligned, Vec
  <2>7. ~Unpublished
    BY <1>01, <2>2 DEF EntryOnce
  <2>8. EntryOnce'
    BY <1>0, <2>7, EntryOnceFrame
  <2> QED BY <1>02, <2>4, <2>6, <2>8
<1>6. CASE FinHasThem
  <2>1. fin.at = "vectors" /\ fin' = [fin EXCEPT !.at = "inferred"] /\ UNCHANGED <<result, inferenceVectors>>
    BY <1>6 DEF FinHasThem
  <2>2. /\ fin'.at = "inferred" /\ fin'.chunks = fin.chunks /\ fin'.infs = fin.infs
        /\ fin'.vectors = fin.vectors /\ fin'.ivecs = fin.ivecs
    BY <1>0, <2>1 DEF Fins
  <2>3. FinOnce'
    BY <1>0, <1>01, <2>1, <2>2 DEF FinOnce, None, Aligned, Vec
  <2> QED BY <1>02, <1>03, <2>1, <2>3
<1>7. CASE FinWrites
  <2>1. PICK r : /\ r = [chunks   |-> [i \in DOMAIN fin.chunks |-> Enriched(i, Deduplicate(fin.raw))],
                         entities |-> Deduplicate(fin.raw),
                         degraded |-> degraded]
                 /\ result' = <<r>>
    BY <1>7 DEF FinWrites
  <2>2. fin.at = "inferred" /\ fin' = FinIdle /\ UNCHANGED inferenceVectors
    BY <1>7 DEF FinWrites
  <2>3. /\ r.degraded = degraded /\ DOMAIN r.chunks = DOMAIN fin.chunks
        /\ \A i \in DOMAIN r.chunks : r.chunks[i].vector = At(fin.vectors, i)
    BY <2>1 DEF Enriched
  <2>4. fin.chunks = chunks /\ fin.vectors = vectors /\ Len(vectors) = Len(chunks)
        /\ (~touched => (degraded <=> Lacks(vectors)))
    BY <1>01, <2>2 DEF EmbOnce
  <2>5. DOMAIN fin.chunks = DOMAIN fin.vectors
    <3>1. fin.chunks \in Seq(Text) /\ fin.vectors \in Seq(MaybeVector)
      BY <1>0 DEF Fins
    <3>2. DOMAIN fin.chunks = 1 .. Len(fin.chunks) /\ DOMAIN fin.vectors = 1 .. Len(fin.vectors)
      BY <3>1, LenProperties
    <3> QED BY <3>2, <2>4
  <2>6. \A i \in DOMAIN r.chunks : r.chunks[i].vector = vectors[i]
    BY <2>3, <2>4, <2>5 DEF At
  <2>7. ~touched => (r.degraded <=> \E i \in DOMAIN r.chunks : r.chunks[i].vector = None)
    BY <2>3, <2>4, <2>5, <2>6 DEF Lacks
  <2>8. Range(result') = {r}
    <3>1. DOMAIN <<r>> = {1} /\ <<r>>[1] = r
      OBVIOUS
    <3> QED BY <2>1, <3>1 DEF Range
  <2>9. FinOnce'
    BY <1>0, <1>04, <2>2, <2>7, <2>8, FinIdleType DEF FinOnce, None
  <2> QED BY <1>02, <1>03, <2>2, <2>9
<1> QED BY <1>1, <1>2, <1>3, <1>4, <1>5, <1>6, <1>7 DEF Finishing

LEMMA OnceStep ==
    ASSUME EntryInv, EmbInv, InfInv, FinInv, OnceInv, [Next]_vars
    PROVE  OnceInv'
<1> SUFFICES ASSUME ~repeated' PROVE EntryOnce' /\ EmbOnce' /\ InfOnce' /\ FinOnce'
  BY DEF OnceInv
<1>0. EntryOnce /\ EmbOnce /\ InfOnce /\ FinOnce
  BY RepeatedStays DEF OnceInv
<1>1. CASE Entry
  BY <1>0, <1>1, EntryOnceStep
<1>2. CASE Embedding
  BY <1>0, <1>2, EmbOnceStep
<1>3. CASE Entities
  BY <1>0, <1>3, EntOnceStep
<1>4. CASE Inferring
  BY <1>0, <1>4, InfOnceStep
<1>5. CASE Finishing
  BY <1>0, <1>5, FinOnceStep
<1>6. CASE IsCancelled \/ UNCHANGED vars
  <2>1. UNCHANGED <<flow, chunks, written, inferences, queue, steps, emb, degraded, vectors, touched,
                    inferenceVectors, inf, fin, result>>
    BY <1>6 DEF IsCancelled, vars, jobVars, keyVars, flowVars, infVars, embVars, vectorVars, finVars
  <2> QED BY <1>0, <2>1, EntryOnceFrame, EmbOnceFrame, InfOnceFrame, FinOnceFrame
<1> QED BY <1>1, <1>2, <1>3, <1>4, <1>5, <1>6 DEF Next

---------------------------------------------------------------------------
(* The theorems.                                                           *)

LEMMA InvInit ==
    ASSUME Init
    PROVE  Inv
<1> USE DEF Init, TextInit, FlowInit, InfInit, EmbInit, EntInit
<1>0. <<>> \in Text /\ None = <<>>
  BY DEF Text, None
<1>1. EntryTypes
  <2>1. queue \in [Stages -> Nat]
    BY DEF Stages
  <2>2. chunks \in Seq(Text) /\ text \in Text
    BY <1>0
  <2> QED BY <2>1, <2>2, RestType DEF EntryTypes
<1>2. EntryKeeps
  BY EmptyOf DEF EntryKeeps, Rest, None, Stored
<1>3. EmbInv
  <2>1. vectors \in Seq(MaybeVector) /\ inferenceVectors \in Seq(Seq(MaybeVector)) /\ DOMAIN cache = {}
    BY <1>0
  <2> QED BY <1>0, <2>1, EmbIdleType, EmptyOf DEF EmbInv
<1>4. InfInv
  <2>1. inferences \in Seq(Seq(FactOf(Text))) /\ DOMAIN memo = {}
    BY <1>0
  <2>2. <<>> \in Seq(1 .. Len(<<>>)) /\ Len(<<>>) =< Len(<<>>)
    OBVIOUS
  <2> QED BY <1>0, <2>1, <2>2, InfIdleType, EmptyOf DEF InfInv
<1>5. EntInv
  <2>1. <<>> \in Seq(1 .. Len(<<>>))
    OBVIOUS
  <2> QED BY <1>0, <2>1, EntIdleType, EmptyOf DEF EntInv
<1>6. FinInv
  <2>1. Range(result) = {}
    BY <1>0 DEF Range
  <2> QED BY <1>0, <2>1, FinIdleType, EmptyOf DEF FinInv
<1>7. EntryOnce
  <2>1. queue["entry"] = 1 /\ queue["embeddings"] = 0 /\ queue["inferences"] = 0
    OBVIOUS
  <2> QED BY <2>1, <1>0, EmbIdleType, InfIdleType DEF EntryOnce, Rest
<1>8. EmbOnce /\ InfOnce
  <2>1. queue["embeddings"] = 0 /\ queue["inferences"] = 0
    OBVIOUS
  <2> QED BY <2>1, <1>0, EmbIdleType DEF EmbOnce, InfOnce, Aligned
<1>9. FinOnce
  <2>1. Range(result) = {}
    BY <1>0 DEF Range
  <2> QED BY <2>1, <1>0, FinIdleType DEF FinOnce, Aligned
<1>10. ChunksKept
  BY DEF ChunksKept, Rest
<1> QED BY <1>1, <1>2, <1>3, <1>4, <1>5, <1>6, <1>7, <1>8, <1>9, <1>10 DEF Inv, EntryInv, OnceInv

LEMMA InvStep ==
    ASSUME Inv, [Next]_vars
    PROVE  Inv'
BY EntryStep, EmbStep, InfStep, EntStep, FinStep, OnceStep DEF Inv

(* In every state of a job: whatever vectors, facts and entities there are *)
(* anywhere, in Redis, in a cache or in a worker, are of texts that were   *)
(* stored in that place; and as long as no stage was delivered twice, each *)
(* key was written once, before those who read it began.                   *)
THEOREM InvariantTheorem == Spec => []Inv
BY InvInit, InvStep, PTL DEF Spec

(* Every result, of whatever document and whatever was repeated, lost or   *)
(* late while it was made: the text is Docling's if no page was replaced;  *)
(* if one was, it is the pages in their order, each with its transcription *)
(* or with what Docling has placed on it (and so without what it has       *)
(* placed on none). Every word of the text is in a chunk, and vectors,     *)
(* facts and entities are those of the chunks they are listed under.       *)
THEOREM ResultTheorem == Spec => []ResultIsOfDocument
<1>1. Inv => ResultIsOfDocument
  BY DEF Inv, EntryInv, EntryKeeps, ChunksKept, FinInv, ResultIsOfDocument
<1> QED BY <1>1, InvariantTheorem, PTL

(* Nothing delivered twice, and the flag not used for the vectors of       *)
(* inferences: a result says that it is degraded exactly if a chunk of it  *)
(* lacks its vector.                                                       *)
THEOREM DegradedTheorem == Spec => []DegradedIsExact
<1>1. Inv => DegradedIsExact
  BY DEF Inv, OnceInv, FinOnce, DegradedIsExact
<1> QED BY <1>1, InvariantTheorem, PTL
=============================================================================
