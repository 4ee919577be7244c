---------------------- MODULE InferenceAdaptive_proofs ----------------------
(***************************************************************************)
(* Proofs about the adaptive mode of the inference worker: about its       *)
(* congestion semaphore (AdaptiveSemaphore), for every set of callers,     *)
(* window bounds, decay factor and length of a row of errors, and about    *)
(* its chunk tasks (InferenceAdaptive), for every number of chunks, set of *)
(* workers, number of dispatches and number of failures.                   *)
(***************************************************************************)
EXTENDS InferenceAdaptive, AdaptiveSemaphore, TLAPS, FiniteSetTheorems

---------------------------------------------------------------------------
(* The semaphore.                                                          *)

(* Dividing by the decay factor shrinks the window.                        *)
LEMMA DecayShrinks ==
    ASSUME NEW k \in Nat
    PROVE  k \div Decay \in Nat /\ k \div Decay <= k
BY WindowAssumption

(* The invariant: token accounting and the two bounds hold together, each  *)
(* needing the others' types.                                              *)
SInv == SemTypeOK /\ TokensMatchCalls /\ WindowBounds

(* Only finitely many calls are under way.                                 *)
LEMMA CallingFinite == IsFiniteSet(Calling)
BY WindowAssumption, FS_Subset DEF Calling

(* A caller that begins its call raises the number of calls by one.        *)
LEMMA OneMoreCall ==
    ASSUME SemTypeOK, NEW c \in Callers, phase[c] # "calling",
           phase' = [phase EXCEPT ![c] = "calling"]
    PROVE  Cardinality(Calling') = Cardinality(Calling) + 1
<1>1. Calling' = Calling \cup {c} /\ c \notin Calling
  BY DEF SemTypeOK, Calling
<1> QED BY <1>1, CallingFinite, FS_AddElement

(* A caller that ends its call lowers the number of calls by one.          *)
LEMMA OneCallLess ==
    ASSUME SemTypeOK, NEW c \in Callers, phase[c] = "calling",
           phase' = [phase EXCEPT ![c] = "idle"]
    PROVE  Cardinality(Calling') = Cardinality(Calling) - 1
<1>1. Calling' = Calling \ {c} /\ c \in Calling
  BY DEF SemTypeOK, Calling
<1> QED BY <1>1, CallingFinite, FS_RemoveElement

LEMMA CardinalityOfCalls == Cardinality(Calling) \in Nat
BY CallingFinite, FS_CardinalityType

(* A window that grows by one stays between its bounds.                    *)
LEMMA GrowthBounded ==
    ASSUME SInv, cwnd' = Smaller(MaxWindow, cwnd + 1)
    PROVE  cwnd' \in Int /\ MinWindow <= cwnd' /\ cwnd' <= MaxWindow
BY WindowAssumption DEF SInv, SemTypeOK, WindowBounds, Smaller

(* So does a window that is cut.                                           *)
LEMMA CutBounded ==
    ASSUME SInv, cwnd' = Larger(MinWindow, cwnd \div Decay)
    PROVE  cwnd' \in Int /\ MinWindow <= cwnd' /\ cwnd' <= MaxWindow
<1>1. cwnd \in Nat
  BY WindowAssumption DEF SInv, SemTypeOK, WindowBounds
<1>2. cwnd \div Decay \in Nat /\ cwnd \div Decay <= cwnd
  BY <1>1, DecayShrinks
<1> QED BY <1>1, <1>2, WindowAssumption DEF SInv, WindowBounds, Larger

LEMMA InitSInv == SemInit => SInv
<1> SUFFICES ASSUME SemInit PROVE SInv
  OBVIOUS
<1>1. Calling = {}
  BY DEF SemInit, Calling
<1>2. Cardinality(Calling) = 0
  BY <1>1, FS_EmptySet
<1>3. SemTypeOK
  <2>1. cwnd \in Int /\ inFlight \in Int /\ errors \in 0..(TripAfter - 1)
    BY WindowAssumption DEF SemInit
  <2>2. cooling \in BOOLEAN
    BY DEF SemInit
  <2>3. phase \in [Callers -> {"idle", "waiting", "calling"}]
    BY DEF SemInit
  <2> QED BY <2>1, <2>2, <2>3 DEF SemTypeOK
<1> QED BY <1>2, <1>3, WindowAssumption DEF SemInit, SInv, TokensMatchCalls, WindowBounds

LEMMA NextSInv == SInv /\ [SemNext]_semVars => SInv'
<1> SUFFICES ASSUME SInv, [SemNext]_semVars PROVE SInv'
  OBVIOUS
<1> USE DEF SInv
<1>1. ASSUME NEW c \in Callers, Arrive(c) \/ GiveUp(c) PROVE SInv'
  <2>1. Calling' = Calling
    BY <1>1 DEF Arrive, GiveUp, SemTypeOK, Calling
  <2>2. SemTypeOK'
    BY <1>1 DEF Arrive, GiveUp, SemTypeOK
  <2>3. UNCHANGED <<cwnd, inFlight>>
    BY <1>1 DEF Arrive, GiveUp
  <2> QED BY <2>1, <2>2, <2>3 DEF TokensMatchCalls, WindowBounds
<1>2. ASSUME NEW c \in Callers, Acquire(c) PROVE SInv'
  <2>1. Cardinality(Calling') = Cardinality(Calling) + 1
    BY <1>2, OneMoreCall DEF Acquire
  <2>2. SemTypeOK'
    BY <1>2 DEF Acquire, SemTypeOK
  <2>3. WindowBounds'
    BY <1>2, WindowAssumption DEF Acquire, SemTypeOK, WindowBounds
  <2>4. inFlight' = inFlight + 1
    BY <1>2 DEF Acquire
  <2> QED BY <2>1, <2>2, <2>3, <2>4 DEF TokensMatchCalls
<1>3. ASSUME NEW c \in Callers, CallEnds(c) PROVE SInv'
  <2>1. Leave(c)
    BY <1>3 DEF CallEnds, Succeed, CallFails
  <2>2. Cardinality(Calling') = Cardinality(Calling) - 1
    BY <2>1, OneCallLess DEF Leave
  <2>3. cwnd' \in Int /\ MinWindow <= cwnd' /\ cwnd' <= MaxWindow
    BY <1>3, GrowthBounded, CutBounded DEF CallEnds, Succeed, CallFails
  <2>4. errors' \in 0..(TripAfter - 1)
    <3>1. CASE Succeed(c)
      BY <3>1, WindowAssumption DEF Succeed
    <3>2. CASE CallFails(c)
      BY <3>2, WindowAssumption DEF CallFails, SemTypeOK
    <3> QED BY <1>3, <3>1, <3>2 DEF CallEnds
  <2>5. cooling' \in BOOLEAN
    <3>1. CASE Succeed(c)
      BY <3>1 DEF Succeed, SemTypeOK
    <3>2. CASE CallFails(c) /\ UNCHANGED cooling
      BY <3>2 DEF SemTypeOK
    <3>3. CASE cooling' = TRUE
      BY <3>3
    <3> QED BY <1>3, <3>1, <3>2, <3>3 DEF CallEnds, CallFails
  <2>6. inFlight' = inFlight - 1 /\ phase' = [phase EXCEPT ![c] = "idle"]
    BY <2>1 DEF Leave
  <2>7. inFlight' \in Int /\ phase' \in [Callers -> {"idle", "waiting", "calling"}]
    BY <2>6 DEF SemTypeOK
  <2>8. SemTypeOK'
    BY <2>3, <2>4, <2>5, <2>7 DEF SemTypeOK
  <2>9. WindowBounds'
    BY <2>3, <2>6, WindowAssumption DEF SemTypeOK, WindowBounds
  <2> QED BY <2>2, <2>6, <2>8, <2>9 DEF TokensMatchCalls
<1>4. CASE CooldownOver \/ UNCHANGED semVars
  <2>1. UNCHANGED <<cwnd, inFlight, errors, phase>> /\ cooling' \in BOOLEAN
    BY <1>4 DEF CooldownOver, semVars, SemTypeOK
  <2>2. Calling' = Calling
    BY <2>1 DEF Calling
  <2>3. SemTypeOK'
    BY <2>1 DEF SemTypeOK
  <2> QED BY <2>1, <2>2, <2>3 DEF TokensMatchCalls, WindowBounds
<1> QED BY <1>1, <1>2, <1>3, <1>4 DEF SemNext

(* The semaphore's accounting holds in every state, whatever the callers,  *)
(* the bounds and the errors.                                              *)
THEOREM SemaphoreInvariant == SemSpec => []SInv
BY InitSInv, NextSInv, PTL DEF SemSpec

(* SemTypeOK for every instance.                                              *)
THEOREM SemaphoreTypeCorrect == SemSpec => []SemTypeOK
<1>1. SInv => SemTypeOK
  BY DEF SInv
<1> QED BY <1>1, SemaphoreInvariant, PTL

(* The tokens in use are exactly the calls under way (release() runs once  *)
(* per acquired token, and never for a timed out acquire).                 *)
THEOREM TokensAreCalls == SemSpec => []TokensMatchCalls
<1>1. SInv => TokensMatchCalls
  BY DEF SInv
<1> QED BY <1>1, SemaphoreInvariant, PTL

(* The window stays between min_concurrency and max_concurrency, and never *)
(* more than max_concurrency calls run, even right after a cut.            *)
THEOREM WindowIsBounded == SemSpec => []WindowBounds
<1>1. SInv => WindowBounds
  BY DEF SInv
<1> QED BY <1>1, SemaphoreInvariant, PTL

---------------------------------------------------------------------------
(* Errors in a row.                                                        *)

(* Induction over a set of numbers: were n the first outside of it, the    *)
(* successor would map those below n into themselves and miss 0, which no  *)
(* injection of a finite set does.                                         *)
LEMMA SetInduction ==
    ASSUME NEW S \in SUBSET Nat, 0 \in S, \A n \in S : n + 1 \in S
    PROVE  S = Nat
<1> SUFFICES ASSUME NEW n \in Nat, n \notin S PROVE FALSE
  OBVIOUS
<1> DEFINE T == S \cap (0..n)
           f == [k \in T |-> k + 1]
<1>1. \A k \in T : k + 1 \in T
  BY SMT
<1>2. f \in Injection(T, T)
  BY <1>1 DEF Injection, IsInjective
<1>3. IsFiniteSet(T)
  <2>1. IsFiniteSet(0..n) /\ T \in SUBSET (0..n)
    BY FS_Interval
  <2> QED BY <2>1, FS_Subset
<1>4. f \in Surjection(T, T)
  BY <1>2, <1>3, FS_Injection
<1>5. 0 \in T
  OBVIOUS
<1>6. PICK k \in T : f[k] = 0
  BY <1>4, <1>5 DEF Surjection
<1> QED BY <1>6

(* A window that is cut once more.                                         *)
Cut(w) == Larger(MinWindow, w \div Decay)

(* The first n cuts of the largest window.                                 *)
Cuts(f, n) ==
    /\ f \in [0..n -> Nat]
    /\ f[0] = MaxWindow
    /\ \A i \in 0..n : i > 0 => f[i] = Cut(f[i - 1])

LEMMA CutIsNat == \A w \in Nat : Cut(w) \in Nat
BY WindowAssumption, DecayShrinks DEF Cut, Larger

LEMMA CutsExist == \A n \in Nat : \E f : Cuts(f, n)
<1> DEFINE S == {n \in Nat : \E f : Cuts(f, n)}
<1>1. 0 \in S
  <2>1. Cuts([i \in 0..0 |-> MaxWindow], 0)
    BY WindowAssumption DEF Cuts
  <2> QED BY <2>1
<1>2. ASSUME NEW n \in S PROVE n + 1 \in S
  <2>1. PICK f : Cuts(f, n)
    OBVIOUS
  <2> DEFINE g == [i \in 0..(n + 1) |-> IF i = n + 1 THEN Cut(f[n]) ELSE f[i]]
  <2>2. n \in Nat /\ f[n] \in Nat
    BY <2>1 DEF Cuts
  <2>3. g \in [0..(n + 1) -> Nat]
    <3>1. Cut(f[n]) \in Nat
      BY <2>2, CutIsNat
    <3>2. \A i \in 0..(n + 1) : i = n + 1 \/ i \in 0..n
      BY <2>2
    <3>3. \A i \in 0..n : f[i] \in Nat
      BY <2>1 DEF Cuts
    <3> QED BY <3>1, <3>2, <3>3
  <2>4. g[0] = MaxWindow
    BY <2>1, <2>2 DEF Cuts
  <2>5. ASSUME NEW i \in 0..(n + 1), i > 0 PROVE g[i] = Cut(g[i - 1])
    <3>1. CASE i = n + 1
      BY <3>1, <2>2
    <3>2. CASE i # n + 1
      <4>1. i \in 0..n /\ i - 1 \in 0..n /\ i - 1 # n + 1
        BY <3>2, <2>2, <2>5
      <4>2. f[i] = Cut(f[i - 1])
        BY <4>1, <2>1, <2>5 DEF Cuts
      <4> QED BY <4>1, <4>2, <3>2, <2>2
    <3> QED BY <3>1, <3>2
  <2>6. Cuts(g, n + 1)
    BY <2>3, <2>4, <2>5 DEF Cuts
  <2> QED BY <2>2, <2>6
<1> HIDE DEF S
<1>3. S = Nat
  <2>1. S \in SUBSET Nat
    BY DEF S
  <2> QED BY <2>1, <1>1, <1>2, SetInduction
<1> QED BY <1>3 DEF S

(* Two rows of cuts agree as far as both go.                               *)
LEMMA CutsAgree ==
    ASSUME NEW m \in Nat, NEW n \in Nat, NEW f, NEW g, Cuts(f, m), Cuts(g, n)
    PROVE  \A k \in Nat : k <= m /\ k <= n => f[k] = g[k]
<1> DEFINE S == {k \in Nat : k <= m /\ k <= n => f[k] = g[k]}
<1>1. 0 \in S
  BY DEF Cuts
<1>2. ASSUME NEW k \in S PROVE k + 1 \in S
  <2> SUFFICES ASSUME k + 1 <= m, k + 1 <= n PROVE f[k + 1] = g[k + 1]
    OBVIOUS
  <2>1. f[k] = g[k] /\ k \in Nat
    OBVIOUS
  <2>2. k + 1 \in 0..m /\ k + 1 \in 0..n /\ k + 1 > 0 /\ (k + 1) - 1 = k
    BY <2>1
  <2>3. f[k + 1] = Cut(f[k]) /\ g[k + 1] = Cut(g[k])
    BY <2>2 DEF Cuts
  <2> QED BY <2>1, <2>3
<1> HIDE DEF S
<1>3. S = Nat
  <2>1. S \in SUBSET Nat
    BY DEF S
  <2> QED BY <2>1, <1>1, <1>2, SetInduction
<1> QED BY <1>3 DEF S

(* WindowAfter is what its definition says.                                *)
LEMMA WindowAfterDef ==
    WindowAfter = [n \in Nat |-> IF n = 0 THEN MaxWindow ELSE Larger(MinWindow, WindowAfter[n - 1] \div Decay)]
<1> DEFINE row == [n \in Nat |-> CHOOSE f : Cuts(f, n)]
           w == [n \in Nat |-> row[n][n]]
<1>1. \A n \in Nat : Cuts(row[n], n)
  BY CutsExist
<1>2. ASSUME NEW n \in Nat PROVE w[n] = IF n = 0 THEN MaxWindow ELSE Cut(w[n - 1])
  <2>1. CASE n = 0
    BY <1>1, <2>1 DEF Cuts
  <2>2. CASE n # 0
    <3>1. n - 1 \in Nat /\ n \in 0..n /\ n > 0
      BY <2>2
    <3>2. row[n][n] = Cut(row[n][n - 1])
      BY <1>1, <3>1 DEF Cuts
    <3>3. row[n][n - 1] = row[n - 1][n - 1]
      <4>1. Cuts(row[n], n) /\ Cuts(row[n - 1], n - 1)
        BY <1>1, <3>1
      <4>2. n - 1 <= n /\ n - 1 <= n - 1
        OBVIOUS
      <4> HIDE DEF row
      <4> QED BY <4>1, <4>2, <3>1, CutsAgree
    <3> QED BY <3>1, <3>2, <3>3, <2>2
  <2> QED BY <2>1, <2>2
<1> HIDE DEF row
<1>3. w = [n \in Nat |-> IF n = 0 THEN MaxWindow ELSE Cut(w[n - 1])]
  BY <1>2
<1> HIDE DEF w
<1>4. w = [n \in Nat |-> IF n = 0 THEN MaxWindow ELSE Larger(MinWindow, w[n - 1] \div Decay)]
  BY <1>3 DEF Cut
<1> QED BY <1>4 DEF WindowAfter

LEMMA WindowAfterType == \A n \in Nat : WindowAfter[n] \in Nat
<1> DEFINE S == {n \in Nat : WindowAfter[n] \in Nat}
<1>1. 0 \in S
  BY WindowAfterDef, WindowAssumption
<1>2. ASSUME NEW n \in S PROVE n + 1 \in S
  <2>1. n \in Nat /\ WindowAfter[n] \in Nat /\ n + 1 # 0 /\ (n + 1) - 1 = n
    OBVIOUS
  <2>2. WindowAfter[n + 1] = Cut(WindowAfter[n])
    BY <2>1, WindowAfterDef DEF Cut
  <2> QED BY <2>1, <2>2, CutIsNat
<1> HIDE DEF S
<1>3. S = Nat
  <2>1. S \in SUBSET Nat
    BY DEF S
  <2> QED BY <2>1, <1>1, <1>2, SetInduction
<1> QED BY <1>3 DEF S

(* A smaller window is not cut to a larger one.                            *)
LEMMA CutMonotone ==
    ASSUME NEW a \in Nat, NEW b \in Nat, a <= b
    PROVE  Cut(a) <= Cut(b)
<1> DEFINE p == a \div Decay
           q == b \div Decay
<1>1. Decay \in Nat \ {0}
  BY WindowAssumption
<1>2. p \in Nat /\ q \in Nat /\ Decay * p <= a /\ b < Decay * (q + 1)
  BY <1>1
<1>3. p <= q
  <2> HIDE DEF p, q
  <2> SUFFICES ASSUME p >= q + 1 PROVE FALSE
    BY <1>2
  <2>1. Decay * p >= Decay * (q + 1)
    BY <1>1, <1>2
  <2>2. Decay * p \in Int /\ Decay * (q + 1) \in Int
    BY <1>1, <1>2
  <2> QED BY <2>1, <2>2, <1>2
<1> HIDE DEF p, q
<1>4. MinWindow \in Nat
  BY WindowAssumption
<1>5. Larger(MinWindow, p) <= Larger(MinWindow, q)
  BY <1>2, <1>3, <1>4 DEF Larger
<1> QED BY <1>5 DEF Cut, p, q

(* The window may be as large as a row of no errors allows, and an error   *)
(* cuts what the row before it allowed.                                    *)
LEMMA NextCuts ==
    ASSUME SInv, ErrorsCutWindow, [SemNext]_semVars
    PROVE  ErrorsCutWindow'
<1> USE DEF ErrorsCutWindow
<1>0. /\ errors \in Nat /\ cwnd \in Nat
      /\ WindowAfter[0] = MaxWindow
      /\ WindowAfter[errors + 1] = Cut(WindowAfter[errors])
  <2>1. errors \in Nat /\ cwnd \in Nat /\ errors + 1 # 0 /\ (errors + 1) - 1 = errors /\ errors + 1 \in Nat
    BY WindowAssumption DEF SInv, SemTypeOK, WindowBounds
  <2> QED BY <2>1, WindowAfterDef DEF Cut
<1>1. ASSUME NEW c \in Callers, Arrive(c) \/ GiveUp(c) \/ Acquire(c) PROVE ErrorsCutWindow'
  BY <1>1 DEF Arrive, GiveUp, Acquire
<1>2. ASSUME NEW c \in Callers, Succeed(c) PROVE ErrorsCutWindow'
  BY <1>0, <1>2, GrowthBounded DEF Succeed
<1>3. ASSUME NEW c \in Callers, CallFails(c) PROVE ErrorsCutWindow'
  <2>1. cwnd' = Cut(cwnd) /\ (errors' = 0 \/ errors' = errors + 1)
    BY <1>3 DEF CallFails, Cut
  <2>2. CASE errors' = 0
    BY <2>1, <2>2, <1>0, CutBounded DEF Cut
  <2>3. CASE errors' = errors + 1
    BY <2>1, <2>3, <1>0, CutMonotone, WindowAfterType
  <2> QED BY <2>1, <2>2, <2>3
<1>4. CASE CooldownOver \/ UNCHANGED semVars
  BY <1>4 DEF CooldownOver, semVars
<1> QED BY <1>1, <1>2, <1>3, <1>4 DEF SemNext, CallEnds

(* A row of errors has cut the window each time, whatever the calls that   *)
(* come and go between them, for every decay factor and every length of a  *)
(* row.                                                                    *)
THEOREM ErrorsHaveCut == SemSpec => []ErrorsCutWindow
<1>1. SemInit => ErrorsCutWindow
  BY WindowAfterDef, WindowAssumption DEF SemInit, ErrorsCutWindow
<1> QED BY <1>1, NextCuts, SemaphoreInvariant, PTL DEF SemSpec


---------------------------------------------------------------------------
(* The chunk tasks.                                                        *)

USE SizeAssumption, FailureAssumption

---------------------------------------------------------------------------
(* Type correctness.                                                       *)

(* Every step of the entry worker keeps the types.                         *)
LEMMA EntryType == TypeOK /\ Entry => TypeOK'
<1> SUFFICES ASSUME TypeOK, Entry PROVE TypeOK'
    OBVIOUS
<1> USE DEF TypeOK, JobTypeOK, Entry, brokerVars, countVars, resultVars
<1>1. CASE SetRemaining
    BY <1>1 DEF SetRemaining
<1>2. CASE SetTotal
    BY <1>2 DEF SetTotal
<1>3. CASE PublishChunk
    BY <1>3 DEF PublishChunk, Msgs, Chunks
<1>4. CASE EntryAck
    BY <1>4 DEF EntryAck
<1>5. CASE EntryFail
    BY <1>5 DEF EntryFail
<1>6. CASE EntryRedelivered
    BY <1>6 DEF EntryRedelivered
<1> QED
    BY <1>1, <1>2, <1>3, <1>4, <1>5, <1>6 DEF EntryStep

(* So does every step that stores a chunk result or assembles the job's.   *)
LEMMA ResultType ==
    ASSUME NEW w \in Workers, TypeOK, HasMessage, ResultStep(w),
           StoreFinal(w) => final' \in Seq(Chunks)
    PROVE  JobTypeOK'
<1> USE DEF TypeOK, JobTypeOK, Pcs, Assembling, entryVars, brokerVars, countVars, resultVars
<1>0. pc[w] # "idle" => Chunk(cur[w]) \in Chunks
    BY DEF HasMessage, Msgs, Chunk
<1>1. CASE ClaimChunk(w)
    BY <1>0, <1>1 DEF ClaimChunk
<1>2. CASE IgnoreDuplicate(w)
    BY <1>2 DEF IgnoreDuplicate
<1>3. CASE PushResult(w)
    BY <1>0, <1>3 DEF PushResult
<1>4. CASE CountChunk(w)
    BY <1>4 DEF CountChunk
<1>5. CASE ReportChunk(w)
    BY <1>5 DEF ReportChunk
<1>6. CASE AcquireLock(w)
    BY <1>6 DEF AcquireLock
<1>7. CASE StoreFinal(w)
    BY <1>7 DEF StoreFinal
<1>8. CASE CleanKeys(w)
    BY <1>8 DEF CleanKeys
<1>9. CASE CompleteStep(w)
    BY <1>9 DEF CompleteStep
<1>10. CASE Announce(w)
    BY <1>10 DEF Announce
<1> QED
    BY <1>1, <1>2, <1>3, <1>4, <1>5, <1>6, <1>7, <1>8, <1>9, <1>10 DEF ResultStep

(* So does taking a message,                                               *)
LEMMA TakeType ==
    ASSUME NEW w \in Workers, NEW m \in queue, TypeOK, Take(w, m)
    PROVE  JobTypeOK' /\ UNCHANGED <<counted, cancelled>>
<1> USE DEF TypeOK, JobTypeOK, Pcs, entryVars, countVars, resultVars
<1>1. m \in Msgs
    OBVIOUS
<1>2. /\ queue' \subseteq Msgs
      /\ unacked' \in [Workers -> SUBSET Msgs]
      /\ cur' \in [Workers -> Msgs \cup {NoMsg}]
      /\ pc' \in [Workers -> Pcs]
    BY <1>1 DEF Take
<1> QED
    BY <1>2 DEF Take

(* and every failure.                                                      *)
LEMMA FailureType ==
    ASSUME NEW w \in Workers, TypeOK, Failure(w)
    PROVE  TypeOK'
<1> USE DEF TypeOK, JobTypeOK, Pcs, Assembling, Return, Fail,
            entryVars, brokerVars, countVars, resultVars
<1>1. CASE TaskFault(w)
    BY <1>1 DEF TaskFault
<1>2. CASE CaughtFault(w)
    BY <1>2 DEF CaughtFault, AssemblyFault
<1>3. CASE ConnectionLost(w)
    BY <1>3 DEF ConnectionLost
<1>4. CASE Crash(w)
    BY <1>4 DEF Crash
<1>5. ASSUME NEW m \in queue, TakeUnchecked(w, m)
      PROVE  TypeOK'
    <2>1. JobTypeOK' /\ UNCHANGED <<counted, cancelled>>
        BY <1>5, TakeType DEF TakeUnchecked
    <2>2. failures' \in 0..MaxFailures
        BY <1>5 DEF TakeUnchecked
    <2> QED
        BY <2>1, <2>2 DEF TypeOK
<1> QED
    BY <1>1, <1>2, <1>3, <1>4, <1>5 DEF Failure

(* And every step of a worker that handles messages without failing.       *)
LEMMA WorkerType ==
    ASSUME NEW w \in Workers, TypeOK, HasMessage, WorkerStep(w),
           StoreFinal(w) => final' \in Seq(Chunks)
    PROVE  TypeOK'
<1> USE DEF TypeOK
<1>1. CASE \E m \in queue : TakeChunk(w, m) \/ SkipCancelled(w, m)
    <2>1. PICK m \in queue : TakeChunk(w, m) \/ SkipCancelled(w, m)
        BY <1>1
    <2>2. CASE TakeChunk(w, m)
        BY <2>2, TakeType DEF TakeChunk
    <2>3. CASE SkipCancelled(w, m)
        BY <2>3 DEF SkipCancelled, JobTypeOK, entryVars, countVars, resultVars
    <2> QED
        BY <2>1, <2>2, <2>3
<1>2. CASE StoreStep(w)
    <2>1. JobTypeOK'
        BY <1>2, ResultType DEF StoreStep
    <2>2. pc[w] = "count" => Chunk(cur[w]) \in Chunks
        BY DEF HasMessage, Msgs, Chunk
    <2>3. counted' \subseteq Chunks
        BY <1>2, <2>2 DEF StoreStep
    <2>4. cancelled' \in BOOLEAN /\ failures' \in 0..MaxFailures
        BY <1>2 DEF StoreStep
    <2> QED
        BY <2>1, <2>3, <2>4
<1>3. CASE AckChunk(w)
    <2>1. Chunk(cur[w]) \in Chunks
        BY <1>3 DEF AckChunk, HasMessage, Msgs, Chunk
    <2> QED
        BY <1>3, <2>1 DEF AckChunk, Return, JobTypeOK, Pcs,
               entryVars, countVars, resultVars
<1> QED
    BY <1>1, <1>2, <1>3 DEF WorkerStep

(* A worker that is not idle has a message in hand.                        *)
LEMMA KeepsMessage == TypeOK /\ HasMessage /\ [Next]_vars => HasMessage'
<1> SUFFICES ASSUME TypeOK, HasMessage, [Next]_vars PROVE HasMessage'
    OBVIOUS
<1> USE DEF TypeOK, JobTypeOK, HasMessage
<1>1. CASE UNCHANGED <<pc, cur>>
    BY <1>1
<1>2. ASSUME NEW w \in Workers, WorkerStep(w)
      PROVE  HasMessage'
    <2>1. CASE \E m \in queue : TakeChunk(w, m) \/ SkipCancelled(w, m)
        BY <2>1 DEF TakeChunk, Take, SkipCancelled
    <2>2. CASE StoreStep(w)
        BY <2>2 DEF StoreStep, ResultStep, ClaimChunk, IgnoreDuplicate,
                    PushResult, CountChunk, ReportChunk, AcquireLock,
                    StoreFinal, CleanKeys, CompleteStep, Announce, Assembling
    <2>3. CASE AckChunk(w)
        BY <2>3 DEF AckChunk, Return
    <2> QED
        BY <1>2, <2>1, <2>2, <2>3 DEF WorkerStep
<1>3. ASSUME NEW w \in Workers, Failure(w)
      PROVE  HasMessage'
    BY <1>3 DEF Failure, TakeUnchecked, Take, TaskFault, CaughtFault, AssemblyFault, Assembling,
                ConnectionLost, Crash, Return
<1>4. CASE Entry
    BY <1>1, <1>4 DEF Entry, EntryStep, SetRemaining, SetTotal, PublishChunk,
                      EntryAck, EntryFail, EntryRedelivered
<1>5. CASE Cancel
    BY <1>1, <1>5 DEF Cancel, jobVars
<1>6. CASE UNCHANGED vars
    BY <1>1, <1>6 DEF vars, jobVars
<1> QED
    BY <1>2, <1>3, <1>4, <1>5, <1>6 DEF Next

LEMMA InitType == Init => TypeOK /\ HasMessage
<1> SUFFICES ASSUME Init PROVE TypeOK /\ HasMessage
    OBVIOUS
<1> USE DEF Init, JobInit
<1>1. /\ unacked \in [Workers -> SUBSET Msgs]
      /\ cur \in [Workers -> Msgs \cup {NoMsg}]
      /\ pc \in [Workers -> Pcs]
    BY DEF Pcs
<1>2. raw \in Seq(Chunks) /\ final \in Seq(Chunks)
    OBVIOUS
<1>3. /\ dispatch \in 1..MaxDispatch /\ failures \in 0..MaxFailures
      /\ sent \in 0..N /\ remaining \in Int /\ total \in {0, N}
    OBVIOUS
<1> QED
    BY <1>1, <1>2, <1>3, Zenon DEF TypeOK, JobTypeOK, HasMessage

---------------------------------------------------------------------------
(* Sequences without repetitions.                                          *)

NoRepeats(s) == \A i, j \in DOMAIN s : s[i] = s[j] => i = j

(* A sequence without repetitions is as long as its set of elements.       *)
LEMMA DistinctLength ==
    ASSUME NEW S, NEW s \in Seq(S), NoRepeats(s)
    PROVE  IsFiniteSet(ElementsOf(s)) /\ Cardinality(ElementsOf(s)) = Len(s)
<1>1. Len(s) \in Nat /\ DOMAIN s = 1..Len(s) /\ s \in [1..Len(s) -> S]
    OBVIOUS
<1>2. s \in Bijection(1..Len(s), ElementsOf(s))
    BY <1>1 DEF Bijection, Injection, Surjection, IsInjective, ElementsOf, NoRepeats
<1>3. ExistsBijection(1..Len(s), ElementsOf(s))
    BY <1>2 DEF ExistsBijection
<1>4. IsFiniteSet(1..Len(s)) /\ Cardinality(1..Len(s)) = Len(s)
    BY <1>1, FS_Interval
<1> QED
    BY <1>3, <1>4, FS_Bijection

LEMMA AppendElements ==
    ASSUME NEW S, NEW s \in Seq(S), NEW x \in S
    PROVE  ElementsOf(Append(s, x)) = ElementsOf(s) \cup {x}
<1>1. /\ DOMAIN Append(s, x) = 1..(Len(s) + 1)
      /\ DOMAIN s = 1..Len(s)
      /\ Len(s) \in Nat
      /\ \A i \in 1..Len(s) : Append(s, x)[i] = s[i]
      /\ Append(s, x)[Len(s) + 1] = x
    OBVIOUS
<1>2. 1..(Len(s) + 1) = (1..Len(s)) \cup {Len(s) + 1}
    BY <1>1
<1> QED
    BY <1>1, <1>2 DEF ElementsOf

LEMMA AppendDistinct ==
    ASSUME NEW S, NEW s \in Seq(S), NEW x \in S, NoRepeats(s), x \notin ElementsOf(s)
    PROVE  NoRepeats(Append(s, x))
<1>1. /\ DOMAIN Append(s, x) = 1..(Len(s) + 1)
      /\ DOMAIN s = 1..Len(s)
      /\ Len(s) \in Nat
      /\ \A i \in 1..Len(s) : Append(s, x)[i] = s[i] /\ s[i] # x
      /\ Append(s, x)[Len(s) + 1] = x
    BY DEF ElementsOf
<1>2. 1..(Len(s) + 1) = (1..Len(s)) \cup {Len(s) + 1}
    BY <1>1
<1> QED
    BY <1>1, <1>2 DEF NoRepeats

(* The chunks are a finite set of N elements.                              *)
LEMMA ChunkCount == IsFiniteSet(Chunks) /\ Cardinality(Chunks) = N
BY FS_Interval DEF Chunks

(* A list of all chunks without repetitions lists each of them once.       *)
LEMMA ListingOfAll ==
    ASSUME NEW s \in Seq(Chunks), NoRepeats(s), Chunks \subseteq ElementsOf(s)
    PROVE  Len(s) = N /\ ElementsOf(s) = Chunks
<1>1. ElementsOf(s) \subseteq Chunks
    BY DEF ElementsOf
<1> QED
    BY <1>1, DistinctLength, ChunkCount

(* In such a list exactly c entries are for a chunk up to c,               *)
LEMMA UpToIsChunk ==
    ASSUME NEW s \in Seq(Chunks), NoRepeats(s), ElementsOf(s) = Chunks, NEW c \in 0..N
    PROVE  UpTo(s, c) = c
<1> DEFINE J == {j \in DOMAIN s : s[j] <= c}
           f == [j \in J |-> s[j]]
<1>1. f \in Bijection(J, 1..c)
    BY DEF Bijection, Injection, Surjection, IsInjective, ElementsOf, NoRepeats, Chunks
<1>2. f \in Surjection(J, 1..c) /\ f \in Injection(J, 1..c)
    BY <1>1 DEF Bijection
<1>3. IsFiniteSet(1..c) /\ Cardinality(1..c) = c
    BY FS_Interval
<1>4. IsFiniteSet(J) /\ (Cardinality(J) = c <=> f \in Surjection(J, 1..c))
    BY <1>2, <1>3, FS_Injection
<1> QED
    BY <1>2, <1>4 DEF UpTo

(* so sorting it by chunk id gives the chunks in order.                    *)
LEMMA SortedListing ==
    ASSUME NEW s \in Seq(Chunks), NoRepeats(s), Len(s) = N, ElementsOf(s) = Chunks
    PROVE  ByChunkId(s) = Complete
<1>1. DOMAIN s = Chunks
    BY DEF Chunks
<1>2. ASSUME NEW i \in Chunks
      PROVE  (CHOOSE c \in Chunks : UpTo(s, c - 1) < i /\ i <= UpTo(s, c)) = i
    <2>1. ASSUME NEW c \in Chunks
          PROVE  (UpTo(s, c - 1) < i /\ i <= UpTo(s, c)) <=> c = i
        <3>1. c \in 0..N /\ c - 1 \in 0..N /\ i \in Nat
            BY DEF Chunks
        <3>2. UpTo(s, c) = c /\ UpTo(s, c - 1) = c - 1
            BY <3>1, UpToIsChunk
        <3> QED
            BY <3>1, <3>2
    <2> QED
        BY <2>1
<1> QED
    BY <1>1, <1>2 DEF ByChunkId, Complete

LEMMA CompleteListsAll ==
    /\ Complete \in Seq(Chunks) /\ Complete # <<>> /\ Len(Complete) = N
    /\ ElementsOf(Complete) = Chunks
<1>1. Complete \in Seq(Chunks) /\ Len(Complete) = N
    BY DEF Complete, Chunks
<1> QED
    BY <1>1 DEF Complete, ElementsOf

---------------------------------------------------------------------------
(* Which steps touch the stored results.                                   *)

(* No chunk is claimed, stored or counted, and no worker comes to do so.   *)
StorageQuiet ==
    /\ UNCHANGED <<claimed, counted, raw, final>>
    /\ \A v \in Workers : pc'[v] \in Storing => pc'[v] = pc[v] /\ cur'[v] = cur[v]

(* A step of StoreStep that is one of the five that touch storage.         *)
StorageStep(w) ==
    /\ ClaimChunk(w) \/ PushResult(w) \/ CountChunk(w) \/ StoreFinal(w) \/ CleanKeys(w)
    /\ StoreStep(w)

LEMMA StorageSteps ==
    ASSUME TypeOK, [Next]_vars
    PROVE  StorageQuiet \/ \E w \in Workers : StorageStep(w)
<1> USE DEF StorageQuiet, Storing
<1>0. pc \in [Workers -> Pcs] /\ cur \in [Workers -> Msgs \cup {NoMsg}]
    BY DEF TypeOK, JobTypeOK
<1>1. CASE Entry
    BY <1>1 DEF Entry, EntryStep, SetRemaining, SetTotal, PublishChunk, EntryAck,
                EntryFail, EntryRedelivered, countVars, resultVars
<1>2. CASE Cancel \/ UNCHANGED vars
    BY <1>2 DEF Cancel, vars, jobVars, countVars, resultVars
<1>3. ASSUME NEW w \in Workers, Failure(w)
      PROVE  StorageQuiet
    BY <1>0, <1>3 DEF Failure, TakeUnchecked, Take, TaskFault, CaughtFault, AssemblyFault, ConnectionLost,
                      Crash, Return, countVars, resultVars
<1>4. ASSUME NEW w \in Workers, WorkerStep(w)
      PROVE  StorageQuiet \/ StorageStep(w)
    <2>1. CASE \E m \in queue : TakeChunk(w, m) \/ SkipCancelled(w, m)
        BY <1>0, <2>1 DEF TakeChunk, Take, SkipCancelled, countVars, resultVars
    <2>2. CASE AckChunk(w)
        BY <1>0, <2>2 DEF AckChunk, Return, countVars, resultVars
    <2>3. ASSUME StoreStep(w), ~StorageStep(w)
          PROVE  StorageQuiet
        <3>1. /\ \/ IgnoreDuplicate(w) \/ ReportChunk(w)
                 \/ AcquireLock(w) \/ CompleteStep(w) \/ Announce(w)
              /\ pc[w] # "count"
            BY <2>3 DEF StorageStep, StoreStep, ResultStep, IgnoreDuplicate, ReportChunk,
                        AcquireLock, CompleteStep, Announce
        <3>2. counted' = counted
            BY <2>3, <3>1 DEF StoreStep
        <3>3. /\ UNCHANGED <<claimed, raw, final, cur>>
              /\ \E p \in {"ack", "read", "announce"} : pc' = [pc EXCEPT ![w] = p]
            BY <3>1 DEF IgnoreDuplicate, ReportChunk, AcquireLock, CompleteStep, Announce,
                        countVars, resultVars
        <3> QED
            BY <1>0, <3>2, <3>3
    <2> QED
        BY <1>4, <2>1, <2>2, <2>3 DEF WorkerStep
<1> QED
    BY <1>1, <1>2, <1>3, <1>4 DEF Next

---------------------------------------------------------------------------
(* The assembler finds everything.                                         *)

(* A worker about to assemble sees the result of every chunk, once.        *)
LEMMA ReadFindsAll ==
    ASSUME IInv, NEW w \in Workers, pc[w] = "read"
    PROVE  /\ Len(raw) = N /\ ElementsOf(raw) = Chunks /\ NoRepeats(raw)
           /\ final = <<>> /\ counted = Chunks
<1>1. counted = Chunks /\ final = <<>>
    BY DEF IInv, AssemblyPhase, Assembling
<1>2. ElementsOf(final) = {}
    BY <1>1 DEF ElementsOf
<1>3. Chunks \subseteq ElementsOf(raw)
    BY <1>1, <1>2 DEF IInv, PushBeforeCount, Stored
<1>4. raw \in Seq(Chunks) /\ NoRepeats(raw)
    BY DEF IInv, TypeOK, JobTypeOK, ListedOnce, NoRepeats
<1> QED
    BY <1>1, <1>3, <1>4, ListingOfAll

(* So assembly is never deferred.                                          *)
LEMMA NeverDefers ==
    ASSUME IInv, NEW w \in Workers, StoreFinal(w)
    PROVE  /\ pc[w] = "read"
           /\ final' = Complete
           /\ lock' = lock
           /\ pc' = [pc EXCEPT ![w] = "clean"]
           /\ UNCHANGED <<claimed, raw, remaining, cur, step, announced>>
<1>1. pc[w] = "read"
    BY DEF StoreFinal
<1>2. /\ Len(raw) = N /\ ElementsOf(raw) = Chunks /\ NoRepeats(raw)
      /\ raw \in Seq(Chunks)
    BY <1>1, ReadFindsAll DEF IInv, TypeOK, JobTypeOK
<1>3. ~(total # 0 /\ Len(raw) < total)
    BY <1>2 DEF IInv, TypeOK, JobTypeOK
<1>4. ByChunkId(raw) = Complete
    BY <1>2, SortedListing
<1> QED
    BY <1>1, <1>3, <1>4 DEF StoreFinal, countVars

(* From the moment the final result is stored it lists every chunk.        *)
LEMMA StoredIsAll ==
    ASSUME IInv, NEW w \in Workers, pc[w] \in Assembling \ {"read"}
    PROVE  final = Complete /\ counted = Chunks
BY DEF IInv, AssemblyPhase, FinalComplete, Assembling

---------------------------------------------------------------------------
(* The storage part of the invariant is kept.                              *)

StorageInv == ClaimIsExclusive /\ PushBeforeCount /\ ListedOnce

LEMMA KeepsStorage == IInv /\ [Next]_vars => StorageInv'
<1> SUFFICES ASSUME IInv, [Next]_vars PROVE StorageInv'
    OBVIOUS
<1> USE DEF StorageInv, ClaimIsExclusive, PushBeforeCount, ListedOnce, Stored, Storing
<1>0. /\ pc \in [Workers -> Pcs] /\ cur \in [Workers -> Msgs \cup {NoMsg}]
      /\ raw \in Seq(Chunks) /\ final \in Seq(Chunks)
      /\ ClaimIsExclusive /\ PushBeforeCount /\ ListedOnce
      /\ counted \subseteq Chunks /\ claimed \subseteq Chunks
    BY DEF IInv, TypeOK, JobTypeOK
<1>1. CASE StorageQuiet
    BY <1>0, <1>1 DEF StorageQuiet
<1>2. ASSUME NEW w \in Workers, ClaimChunk(w), StoreStep(w)
      PROVE  StorageInv'
    BY <1>0, <1>2 DEF ClaimChunk, StoreStep, resultVars
<1>3. ASSUME NEW w \in Workers, PushResult(w), StoreStep(w)
      PROVE  StorageInv'
    <2>1. /\ pc[w] = "push" /\ raw' = Append(raw, Chunk(cur[w]))
          /\ pc' = [pc EXCEPT ![w] = "count"]
          /\ UNCHANGED <<claimed, counted, final, cur>>
        BY <1>3 DEF PushResult, StoreStep, resultVars
    <2>2. Chunk(cur[w]) \in Chunks
        BY <2>1 DEF IInv, HasMessage, Msgs, Chunk
    <2>3. Chunk(cur[w]) \in claimed /\ Chunk(cur[w]) \notin counted
          /\ Chunk(cur[w]) \notin ElementsOf(raw)
        BY <1>0, <2>1
    <2>4. ElementsOf(raw)' = ElementsOf(raw) \cup {Chunk(cur[w])}
        BY <1>0, <2>1, <2>2, AppendElements
    <2>5. NoRepeats(raw')
        BY <1>0, <2>1, <2>2, <2>3, AppendDistinct DEF NoRepeats
    <2>6. ListedOnce'
        BY <2>5 DEF NoRepeats
    <2>7. ElementsOf(final)' = ElementsOf(final)
        BY <2>1 DEF ElementsOf
    <2>8. PushBeforeCount'
        BY <1>0, <2>1, <2>3, <2>4, <2>7
    <2>9. ClaimIsExclusive'
        BY <1>0, <2>1, <2>3
    <2> QED
        BY <2>6, <2>8, <2>9
<1>4. ASSUME NEW w \in Workers, CountChunk(w), StoreStep(w)
      PROVE  StorageInv'
    <2>1. /\ pc[w] = "count"
          /\ \E p \in {"lock", "report"} : pc' = [pc EXCEPT ![w] = p]
          /\ counted' = counted \cup {Chunk(cur[w])}
          /\ UNCHANGED <<claimed, raw, final, cur>>
        BY <1>4 DEF CountChunk, StoreStep, resultVars
    <2> QED
        BY <1>0, <2>1
<1>5. ASSUME NEW w \in Workers, StoreFinal(w), StoreStep(w)
      PROVE  StorageInv'
    <2>1. /\ pc[w] = "read" /\ final = <<>> /\ counted = Chunks
          /\ ElementsOf(raw) = Chunks /\ ElementsOf(Complete) = Chunks
        BY <1>5, NeverDefers, ReadFindsAll, CompleteListsAll
    <2>2. /\ pc' = [pc EXCEPT ![w] = "clean"] /\ final' = Complete
          /\ UNCHANGED <<claimed, counted, raw, cur>>
        BY <1>5, <2>1, NeverDefers DEF StoreStep
    <2>3. ElementsOf(final) = {} /\ ElementsOf(raw') = Chunks
        BY <2>1, <2>2 DEF ElementsOf
    <2>4. ElementsOf(final') = Chunks
        BY <2>1, <2>2
    <2> QED
        BY <1>0, <2>1, <2>2, <2>3, <2>4
<1>6. ASSUME NEW w \in Workers, CleanKeys(w), StoreStep(w)
      PROVE  StorageInv'
    <2>1. /\ pc[w] = "clean" /\ raw' = <<>>
          /\ pc' = [pc EXCEPT ![w] = "complete"]
          /\ UNCHANGED <<claimed, counted, final, cur>>
        BY <1>6 DEF CleanKeys, StoreStep, resultVars
    <2>2. ElementsOf(final) = Chunks /\ counted = Chunks
        BY <2>1, StoredIsAll, CompleteListsAll DEF Assembling
    <2> QED
        BY <1>0, <2>1, <2>2 DEF ElementsOf
<1> QED
    BY <1>1, <1>2, <1>3, <1>4, <1>5, <1>6, StorageSteps DEF StorageStep, IInv

---------------------------------------------------------------------------
(* The counter part.                                                       *)

LEMMA CountedFinite ==
    ASSUME counted \subseteq Chunks
    PROVE  IsFiniteSet(counted) /\ Cardinality(counted) \in 0..N
BY ChunkCount, FS_Subset, FS_CardinalityType

LEMMA KeepsCounter == IInv /\ [Next]_vars => CounterBounds'
<1> SUFFICES ASSUME IInv, [Next]_vars PROVE CounterBounds'
    OBVIOUS
<1> USE DEF CounterBounds, NothingPublished
<1>0. /\ CounterBounds /\ remaining \in Int /\ counted \subseteq Chunks
      /\ IsFiniteSet(counted) /\ Cardinality(counted) \in 0..N
    BY CountedFinite DEF IInv, TypeOK, JobTypeOK
<1>1. CASE Entry
    <2>1. CASE SetRemaining
        BY <1>0, <1>1, <2>1 DEF Entry, SetRemaining
    <2>2. CASE SetTotal
        BY <1>0, <1>1, <2>2 DEF Entry, SetTotal
    <2>3. CASE PublishChunk
        BY <1>0, <1>1, <2>3 DEF Entry, PublishChunk, countVars
    <2>4. CASE EntryAck
        BY <1>0, <1>1, <2>4 DEF Entry, EntryAck, countVars
    <2>5. CASE EntryFail
        BY <1>0, <1>1, <2>5 DEF Entry, EntryFail, countVars, brokerVars
    <2>6. CASE EntryRedelivered
        BY <1>0, <1>1, <2>6 DEF Entry, EntryRedelivered, countVars, brokerVars
    <2> QED
        BY <1>1, <2>1, <2>2, <2>3, <2>4, <2>5, <2>6 DEF Entry, EntryStep
<1>2. CASE Cancel \/ UNCHANGED vars
    BY <1>0, <1>2 DEF Cancel, vars, jobVars, entryVars, brokerVars, countVars
<1>3. ASSUME NEW w \in Workers, Failure(w)
      PROVE  CounterBounds'
    <2>1. ~NothingPublished
        BY <1>3 DEF Failure, TakeUnchecked, Take, TaskFault, CaughtFault, AssemblyFault, Assembling,
                    ConnectionLost, Crash
    <2>2. UNCHANGED <<remaining, counted>>
        BY <1>3 DEF Failure, TakeUnchecked, Take, TaskFault, CaughtFault, AssemblyFault,
                    ConnectionLost, Crash, countVars
    <2> QED
        BY <1>0, <2>1, <2>2
<1>4. ASSUME NEW w \in Workers, WorkerStep(w)
      PROVE  CounterBounds'
    <2>1. ~NothingPublished
        BY <1>4 DEF WorkerStep, TakeChunk, Take, SkipCancelled, AckChunk, StoreStep, ResultStep,
                    ClaimChunk, IgnoreDuplicate, PushResult, CountChunk, ReportChunk,
                    AcquireLock, StoreFinal, CleanKeys, CompleteStep, Announce
    <2>2. CASE CountChunk(w) /\ StoreStep(w)
        <3>1. pc[w] = "count" /\ remaining' = remaining - 1
              /\ counted' = counted \cup {Chunk(cur[w])}
            BY <2>2 DEF CountChunk, StoreStep
        <3>2. Chunk(cur[w]) \notin counted
            BY <3>1 DEF IInv, ClaimIsExclusive, Storing
        <3>3. Cardinality(counted') = Cardinality(counted) + 1
            BY <1>0, <3>1, <3>2, FS_AddElement
        <3> QED
            BY <1>0, <2>1, <3>1, <3>3
    <2>3. CASE CleanKeys(w) /\ StoreStep(w)
        <3>1. remaining' = 0 /\ counted' = counted /\ pc[w] = "clean"
            BY <2>3 DEF CleanKeys, StoreStep
        <3>2. Cardinality(counted') = N
            BY <3>1, StoredIsAll, ChunkCount DEF Assembling
        <3> QED
            BY <3>1, <3>2
    <2>4. ASSUME ~(CountChunk(w) /\ StoreStep(w)), ~(CleanKeys(w) /\ StoreStep(w))
          PROVE  UNCHANGED <<remaining, counted>>
        <3>1. CASE \E m \in queue : TakeChunk(w, m) \/ SkipCancelled(w, m)
            BY <3>1 DEF TakeChunk, Take, SkipCancelled, countVars
        <3>2. CASE AckChunk(w)
            BY <3>2 DEF AckChunk, countVars
        <3>3. CASE StoreStep(w)
            BY <2>4, <3>3 DEF StoreStep, ResultStep, ClaimChunk, IgnoreDuplicate, PushResult,
                   ReportChunk, AcquireLock, StoreFinal, CompleteStep, Announce, countVars
        <3> QED
            BY <1>4, <3>1, <3>2, <3>3 DEF WorkerStep
    <2> QED
        BY <1>0, <2>1, <2>2, <2>3, <2>4
<1> QED
    BY <1>1, <1>2, <1>3, <1>4 DEF Next

---------------------------------------------------------------------------
(* The assembly part.                                                      *)

AssemblyInv == AssemblyPhase /\ OneAssembler /\ FinalComplete /\ CompletedHasResult

(* No worker moves on towards or within assembly, and what assembly writes *)
(* is left alone, but for the status of the step, which may become failed. *)
AssemblyQuiet ==
    /\ UNCHANGED <<lock, final, announced, counted>>
    /\ step' = step \/ step' = "failed"
    /\ \A v \in Workers : pc'[v] \in {"lock"} \cup Assembling => pc'[v] = pc[v]

AssemblyStep(w) ==
    /\ \/ CountChunk(w) \/ AcquireLock(w) \/ StoreFinal(w)
       \/ CleanKeys(w) \/ CompleteStep(w) \/ Announce(w)
    /\ StoreStep(w)

LEMMA AssemblySteps ==
    ASSUME TypeOK, [Next]_vars
    PROVE  AssemblyQuiet \/ \E w \in Workers : AssemblyStep(w)
<1> USE DEF AssemblyQuiet, Assembling
<1>0. pc \in [Workers -> Pcs]
    BY DEF TypeOK, JobTypeOK
<1>1. CASE Entry
    BY <1>1 DEF Entry, EntryStep, SetRemaining, SetTotal, PublishChunk, EntryAck,
                EntryFail, EntryRedelivered, resultVars
<1>2. CASE Cancel \/ UNCHANGED vars
    BY <1>2 DEF Cancel, vars, jobVars, resultVars
<1>3. ASSUME NEW w \in Workers, Failure(w)
      PROVE  AssemblyQuiet
    BY <1>0, <1>3 DEF Failure, TakeUnchecked, Take, TaskFault, CaughtFault, AssemblyFault, ConnectionLost,
                      Crash, Return, resultVars
<1>4. ASSUME NEW w \in Workers, WorkerStep(w)
      PROVE  AssemblyQuiet \/ AssemblyStep(w)
    <2>1. CASE \E m \in queue : TakeChunk(w, m) \/ SkipCancelled(w, m)
        BY <1>0, <2>1 DEF TakeChunk, Take, SkipCancelled, resultVars
    <2>2. CASE AckChunk(w)
        BY <1>0, <2>2 DEF AckChunk, Return, resultVars
    <2>3. ASSUME StoreStep(w), ~AssemblyStep(w)
          PROVE  AssemblyQuiet
        <3>1. /\ ClaimChunk(w) \/ IgnoreDuplicate(w) \/ PushResult(w) \/ ReportChunk(w)
              /\ pc[w] # "count"
            BY <2>3 DEF AssemblyStep, StoreStep, ResultStep, ClaimChunk, IgnoreDuplicate,
                        PushResult, ReportChunk
        <3>2. /\ UNCHANGED <<lock, final, step, announced>>
              /\ \E p \in {"ack", "push", "count"} : pc' = [pc EXCEPT ![w] = p]
            BY <3>1 DEF ClaimChunk, IgnoreDuplicate, PushResult, ReportChunk, resultVars
        <3>3. counted' = counted
            BY <2>3, <3>1 DEF StoreStep
        <3> QED
            BY <1>0, <3>2, <3>3
    <2> QED
        BY <1>4, <2>1, <2>2, <2>3 DEF WorkerStep
<1> QED
    BY <1>1, <1>2, <1>3, <1>4 DEF Next

(* A worker that counts the counter down to zero has counted the last of   *)
(* all chunks.                                                             *)
LEMMA ZeroMeansAll ==
    ASSUME IInv, NEW w \in Workers, CountChunk(w), StoreStep(w), remaining' <= 0
    PROVE  counted' = Chunks
<1>1. /\ pc[w] = "count" /\ remaining' = remaining - 1
      /\ counted' = counted \cup {Chunk(cur[w])}
    BY DEF CountChunk, StoreStep
<1>2. Chunk(cur[w]) \in Chunks /\ Chunk(cur[w]) \notin counted
    BY <1>1 DEF IInv, HasMessage, Msgs, Chunk, ClaimIsExclusive, Storing
<1>3. remaining >= N - Cardinality(counted) /\ remaining \in Int
    BY <1>1 DEF IInv, CounterBounds, NothingPublished, TypeOK, JobTypeOK
<1>4. counted \subseteq Chunks /\ counted' \subseteq Chunks
    BY <1>1, <1>2 DEF IInv, TypeOK
<1>5. IsFiniteSet(counted) /\ Cardinality(counted) \in Nat
    BY <1>4, CountedFinite
<1>6. Cardinality(counted') = Cardinality(counted) + 1
    BY <1>1, <1>2, <1>5, FS_AddElement
<1>7. Cardinality(counted') <= N
    BY <1>4, ChunkCount, FS_Subset
<1>8. Cardinality(counted') = N
    BY <1>1, <1>3, <1>5, <1>6, <1>7
<1> QED
    BY <1>4, <1>8, ChunkCount, FS_Subset

LEMMA KeepsAssembly == IInv /\ [Next]_vars => AssemblyInv'
<1> SUFFICES ASSUME IInv, [Next]_vars PROVE AssemblyInv'
    OBVIOUS
<1> USE DEF AssemblyInv, AssemblyPhase, OneAssembler, FinalComplete,
            CompletedHasResult, Assembling
<1>0. /\ pc \in [Workers -> Pcs]
      /\ AssemblyPhase /\ OneAssembler /\ FinalComplete /\ CompletedHasResult
    BY DEF IInv, TypeOK, JobTypeOK
<1>1. CASE AssemblyQuiet
    BY <1>0, <1>1 DEF AssemblyQuiet
<1>2. ASSUME NEW w \in Workers, CountChunk(w), StoreStep(w)
      PROVE  AssemblyInv'
    <2>1. /\ pc[w] = "count" /\ UNCHANGED <<lock, final, step, announced>>
          /\ pc' = [pc EXCEPT ![w] = IF remaining' <= 0 THEN "lock" ELSE "report"]
        BY <1>2 DEF CountChunk, resultVars
    <2>2. remaining' <= 0 => counted' = Chunks
        BY <1>2, ZeroMeansAll
    <2>3. counted = Chunks => counted' = Chunks
        BY <1>2, <2>1 DEF StoreStep, IInv, HasMessage, Msgs, Chunk
    <2> QED
        BY <1>0, <2>1, <2>2, <2>3
<1>3. ASSUME NEW w \in Workers, AcquireLock(w), StoreStep(w)
      PROVE  AssemblyInv'
    <2>1. /\ pc[w] = "lock" /\ lock' = TRUE
          /\ pc' = [pc EXCEPT ![w] = IF lock THEN "ack" ELSE "read"]
          /\ UNCHANGED <<final, step, announced, counted>>
        BY <1>3 DEF AcquireLock, StoreStep
    <2>2. CASE lock
        BY <1>0, <2>1, <2>2
    <2>3. CASE ~lock
        BY <1>0, <2>1, <2>3
    <2> QED
        BY <2>2, <2>3
<1>4. ASSUME NEW w \in Workers, StoreFinal(w), StoreStep(w)
      PROVE  AssemblyInv'
    <2>1. /\ pc[w] = "read" /\ counted = Chunks
          /\ pc' = [pc EXCEPT ![w] = "clean"]
          /\ final' = Complete /\ UNCHANGED <<lock, step, announced, counted>>
        BY <1>4, NeverDefers, ReadFindsAll DEF StoreStep
    <2>2. final' # <<>>
        BY <2>1, CompleteListsAll
    <2>3. lock
        BY <1>0, <2>1
    <2> QED
        BY <1>0, <2>1, <2>2, <2>3
<1>5. ASSUME NEW w \in Workers, StoreStep(w),
             CleanKeys(w) \/ CompleteStep(w) \/ Announce(w)
      PROVE  AssemblyInv'
    <2>1. /\ pc[w] \in Assembling \ {"read"}
          /\ \E p \in {"complete", "announce", "ack"} : pc' = [pc EXCEPT ![w] = p]
          /\ UNCHANGED <<lock, final, counted>>
        BY <1>5 DEF CleanKeys, CompleteStep, Announce, StoreStep, resultVars
    <2>2. final = Complete /\ final # <<>>
        BY <1>0, <2>1, StoredIsAll
    <2> QED
        BY <1>0, <2>1, <2>2
<1> QED
    BY <1>1, <1>2, <1>3, <1>4, <1>5, AssemblySteps DEF AssemblyStep, IInv

---------------------------------------------------------------------------
(* The invariant.                                                          *)

(* The steps of the specification keep the types: the stored final result  *)
(* is a list of chunks because it is complete.                             *)
LEMMA KeepsTypes == IInv /\ [Next]_vars => TypeOK' /\ HasMessage'
<1> SUFFICES ASSUME IInv, [Next]_vars PROVE TypeOK' /\ HasMessage'
    OBVIOUS
<1>0. TypeOK /\ HasMessage
    BY DEF IInv
<1>1. CASE Cancel
    BY <1>0, <1>1, KeepsMessage DEF Cancel, TypeOK, JobTypeOK, jobVars, entryVars,
                brokerVars, countVars, resultVars
<1>2. CASE UNCHANGED vars
    BY <1>0, <1>2, KeepsMessage DEF vars, TypeOK, JobTypeOK, jobVars, entryVars,
                brokerVars, countVars, resultVars
<1>3. ASSUME NEW w \in Workers, StoreFinal(w)
      PROVE  final' \in Seq(Chunks)
    BY <1>3, NeverDefers, CompleteListsAll
<1> QED
    BY <1>0, <1>1, <1>2, <1>3, EntryType, WorkerType, FailureType, KeepsMessage DEF Next

LEMMA InitInvariant == Init => IInv
<1> SUFFICES ASSUME Init PROVE IInv
    OBVIOUS
<1>1. TypeOK /\ HasMessage
    BY InitType
<1>2. \A w \in Workers : pc[w] = "idle"
    BY DEF Init, JobInit
<1>3. raw = <<>> /\ final = <<>> /\ counted = {} /\ claimed = {}
    BY DEF Init, JobInit
<1>4. ElementsOf(raw) = {} /\ ElementsOf(final) = {}
    BY <1>3 DEF ElementsOf
<1>5. ClaimIsExclusive /\ PushBeforeCount /\ ListedOnce
    BY <1>2, <1>3, <1>4 DEF ClaimIsExclusive, PushBeforeCount, ListedOnce, Stored, Storing
<1>6. CounterBounds
    BY <1>2 DEF Init, JobInit, CounterBounds, NothingPublished
<1>7. AssemblyPhase /\ OneAssembler
    BY <1>2, <1>3 DEF AssemblyPhase, OneAssembler, Assembling
<1>8. FinalComplete /\ CompletedHasResult
    BY <1>3 DEF Init, JobInit, FinalComplete, CompletedHasResult
<1> QED
    BY <1>1, <1>5, <1>6, <1>7, <1>8 DEF IInv

(* The inductive invariant: types, exclusive claims, results stored before *)
(* they are counted, and assembly only after the last chunk.               *)
THEOREM Invariant == Spec => []IInv
<1>1. IInv /\ [Next]_vars => IInv'
    <2> SUFFICES ASSUME IInv, [Next]_vars PROVE IInv'
        OBVIOUS
    <2> QED
        BY KeepsTypes, KeepsStorage, KeepsCounter, KeepsAssembly
           DEF IInv, StorageInv, AssemblyInv
<1> QED
    BY <1>1, InitInvariant, PTL DEF Spec

(* All variables keep their types.                                         *)
THEOREM TypeCorrect == Spec => []TypeOK
<1>1. IInv => TypeOK
    BY DEF IInv
<1> QED
    BY <1>1, Invariant, PTL

(* The final result of the inference stage lists every chunk of the job    *)
(* exactly once (_do_assemble_locked), whatever connections are lost,      *)
(* threads die, Redis calls fail or entry messages come twice.             *)
THEOREM FinalIsComplete == Spec => []FinalComplete
<1>1. IInv => FinalComplete
    BY DEF IInv
<1> QED
    BY <1>1, Invariant, PTL

(* The SETNX lock admits one assembler at a time.                          *)
THEOREM AssemblerIsUnique == Spec => []OneAssembler
<1>1. IInv => OneAssembler
    BY DEF IInv
<1> QED
    BY <1>1, Invariant, PTL

(* The step is only completed, and its end only announced to the           *)
(* completion worker, when the complete result is stored.                  *)
THEOREM CompletionIsHonest == Spec => []CompletedHasResult
<1>1. IInv => CompletedHasResult
    BY DEF IInv
<1> QED
    BY <1>1, Invariant, PTL

(* The counter never runs ahead of the results that are in the list.       *)
THEOREM CounterIsCovered == Spec => []CounterCovered
<1>1. IInv => CounterCovered
    <2> SUFFICES ASSUME IInv, counted # {}, final = <<>>
                 PROVE  N - remaining <= Len(raw)
        BY DEF CounterCovered
    <2>1. remaining >= N - Cardinality(counted) /\ remaining \in Int
        BY DEF IInv, CounterBounds, NothingPublished, TypeOK, JobTypeOK
    <2>2. counted \subseteq ElementsOf(raw)
        BY DEF IInv, PushBeforeCount, Stored, ElementsOf
    <2>3. raw \in Seq(Chunks) /\ NoRepeats(raw) /\ counted \subseteq Chunks
        BY DEF IInv, TypeOK, JobTypeOK, ListedOnce, NoRepeats
    <2>4. /\ IsFiniteSet(ElementsOf(raw)) /\ Cardinality(ElementsOf(raw)) = Len(raw)
          /\ Len(raw) \in Nat
        BY <2>3, DistinctLength
    <2>5. Cardinality(counted) <= Len(raw) /\ Cardinality(counted) \in Nat
        BY <2>2, <2>3, <2>4, FS_Subset, CountedFinite
    <2> QED
        BY <2>1, <2>4, <2>5
<1> QED
    BY <1>1, Invariant, PTL

(* No delivery of a chunk executes the DECR of a chunk counted before: the *)
(* SET NX of _persist_chunk_result_once lets one of them through.          *)
THEOREM ChunksCountedOnce == Spec => CountedOnce
<1>1. IInv => (\A w \in Workers : (pc[w] = "count" /\ pc'[w] \in {"lock", "report"})
                                   => Chunk(cur[w]) \notin counted)
    BY DEF IInv, ClaimIsExclusive, Storing
<1> QED
    BY <1>1, Invariant, PTL DEF CountedOnce

(* A stored final result is never replaced.                                *)
THEOREM FinalIsStable == Spec => FinalStable
<1>1. IInv /\ [Next]_vars => (final # <<>> => final' = final)
    <2> SUFFICES ASSUME IInv, [Next]_vars, final # <<>>
                 PROVE  final' = final
        OBVIOUS
    <2>1. CASE StorageQuiet
        BY <2>1 DEF StorageQuiet
    <2>2. ASSUME NEW w \in Workers, StorageStep(w)
          PROVE  final' = final
        <3>1. ~StoreFinal(w)
            BY NeverDefers, ReadFindsAll
        <3> QED
            BY <2>2, <3>1 DEF StorageStep, ClaimChunk, PushResult, CountChunk,
                              CleanKeys, resultVars
    <2> QED
        BY <2>1, <2>2, StorageSteps DEF IInv
<1> QED
    BY <1>1, Invariant, PTL DEF Spec, FinalStable

---------------------------------------------------------------------------
(* The refinement of ChunkAssembly.                                        *)

LEMMA SameListing == Abstract!Listing = Complete /\ Abstract!Chunks = Chunks
BY DEF Abstract!Listing, Abstract!Chunks, Complete, Chunks

LEMMA InitRefines == Init => Abstract!AbsInit
BY DEF Init, JobInit, Abstract!AbsInit, Stored, ElementsOf

LEMMA StepRefines ==
    IInv /\ IInv' /\ [Next]_vars => [Abstract!AbsNext]_Abstract!absVars
<1> SUFFICES ASSUME IInv, IInv', [Next]_vars
             PROVE  Abstract!AbsNext \/ UNCHANGED <<Stored, final, announced>>
    BY DEF Abstract!absVars
<1> USE DEF Stored
<1>1. ASSUME NEW w \in Workers, PushResult(w)
      PROVE  Abstract!AbsNext
    <2>1. /\ pc[w] = "push" /\ raw' = Append(raw, Chunk(cur[w]))
          /\ UNCHANGED <<final, announced>>
        BY <1>1 DEF PushResult, resultVars
    <2>2. Chunk(cur[w]) \in Chunks /\ Chunk(cur[w]) \notin Stored
          /\ raw \in Seq(Chunks)
        BY <2>1 DEF IInv, HasMessage, Msgs, Chunk, PushBeforeCount, TypeOK, JobTypeOK
    <2>3. ElementsOf(raw') = ElementsOf(raw) \cup {Chunk(cur[w])}
        BY <2>1, <2>2, AppendElements
    <2>4. Stored' = Stored \cup {Chunk(cur[w])}
        BY <2>1, <2>3 DEF ElementsOf
    <2>5. Abstract!Finish(Chunk(cur[w]))
        BY <2>1, <2>2, <2>4 DEF Abstract!Finish
    <2> QED
        BY <2>2, <2>5 DEF Abstract!AbsNext, Abstract!Chunks, Chunks
<1>2. ASSUME NEW w \in Workers, StoreFinal(w)
      PROVE  Abstract!AbsNext
    <2>1. /\ ElementsOf(raw) = Chunks /\ final = <<>> /\ final' = Complete
          /\ UNCHANGED <<raw, announced>>
        BY <1>2, NeverDefers, ReadFindsAll
    <2>2. ElementsOf(final) = {}
        BY <2>1 DEF ElementsOf
    <2>3. Stored = Chunks /\ Stored' = Stored
        BY <2>1, <2>2, CompleteListsAll
    <2>4. Abstract!Assemble
        BY <2>1, <2>3, SameListing DEF Abstract!Assemble
    <2> QED
        BY <2>4 DEF Abstract!AbsNext
<1>3. ASSUME NEW w \in Workers, Announce(w)
      PROVE  Abstract!AbsNext
    <2>1. /\ pc[w] = "announce" /\ announced' = TRUE /\ UNCHANGED <<raw, final>>
        BY <1>3 DEF Announce, countVars
    <2>2. final = Complete
        BY <2>1, StoredIsAll DEF Assembling
    <2>3. Abstract!Tell
        BY <2>1, <2>2, SameListing DEF Abstract!Tell, ElementsOf
    <2> QED
        BY <2>3 DEF Abstract!AbsNext
<1>4. ASSUME NEW w \in Workers, CleanKeys(w)
      PROVE  UNCHANGED <<Stored, final, announced>>
    <2>1. pc[w] = "clean" /\ raw' = <<>> /\ UNCHANGED <<final, announced>>
        BY <1>4 DEF CleanKeys, resultVars
    <2>2. ElementsOf(final) = Chunks
        BY <2>1, StoredIsAll, CompleteListsAll DEF Assembling
    <2>3. ElementsOf(raw) \subseteq Chunks
        BY DEF ElementsOf, IInv, TypeOK, JobTypeOK
    <2>4. ElementsOf(raw') = {} /\ ElementsOf(final') = ElementsOf(final)
        BY <2>1 DEF ElementsOf
    <2> QED
        BY <2>1, <2>2, <2>3, <2>4
<1>5. ASSUME ~ \E w \in Workers : PushResult(w) \/ StoreFinal(w) \/ Announce(w) \/ CleanKeys(w)
      PROVE  UNCHANGED <<raw, final, announced>>
    <2>1. UNCHANGED <<raw, final>>
        BY <1>5, StorageSteps DEF IInv, StorageQuiet, StorageStep, ClaimChunk, CountChunk,
                                  resultVars
    <2>2. announced' = announced
        BY <1>5, AssemblySteps DEF IInv, AssemblyQuiet, AssemblyStep, CountChunk,
                                   AcquireLock, CompleteStep, resultVars
    <2> QED
        BY <2>1, <2>2
<1>6. UNCHANGED <<raw, final, announced>> => UNCHANGED <<Stored, final, announced>>
    BY DEF ElementsOf
<1> QED
    BY <1>1, <1>2, <1>3, <1>4, <1>5, <1>6

(* The inference stage in adaptive mode implements ChunkAssembly: chunks   *)
(* are finished once, put together when all are finished, and announced    *)
(* after that.                                                             *)
THEOREM Refinement == Spec => ImplementsAssembly
<1>1. Init => Abstract!AbsInit
    BY InitRefines
<1>2. IInv /\ IInv' /\ [Next]_vars => [Abstract!AbsNext]_Abstract!absVars
    BY StepRefines
<1> QED
    BY <1>1, <1>2, Invariant, PTL DEF Spec, ImplementsAssembly, Abstract!AbsSpec
=============================================================================
