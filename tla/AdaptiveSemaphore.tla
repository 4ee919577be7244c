------------------------- MODULE AdaptiveSemaphore -------------------------
(***************************************************************************)
(* The congestion window that gates the LLM calls of an adaptive inference *)
(* worker (AdaptiveSemaphore), and the calls that pass it (_call_llm).     *)
(*                                                                         *)
(* Every method holds the lock, so a step is a whole critical section.     *)
(* Time is left out: a cooldown is on or off, and a waiting caller may run *)
(* into its timeout at any moment.                                         *)
(***************************************************************************)
EXTENDS Integers, FiniteSets

CONSTANTS
    Callers,            \* executor threads
    MinWindow,          \* min_concurrency
    MaxWindow,          \* max_concurrency
    Decay,              \* decay_factor
    TripAfter           \* consecutive_errors_for_cooldown

ASSUME WindowAssumption ==
    /\ IsFiniteSet(Callers)
    /\ MinWindow \in Nat \ {0} /\ MaxWindow \in Nat /\ MinWindow <= MaxWindow
    /\ Decay \in Nat \ {0, 1}
    /\ TripAfter \in Nat \ {0}

VARIABLES
    cwnd, inFlight, errors, cooling,   \* the semaphore
    phase                              \* the callers

semVars == <<cwnd, inFlight, errors, cooling, phase>>

Calling == {c \in Callers : phase[c] = "calling"}

Larger(a, b)  == IF a > b THEN a ELSE b
Smaller(a, b) == IF a < b THEN a ELSE b

SemInit ==
    /\ cwnd = MinWindow
    /\ inFlight = 0 /\ errors = 0 /\ cooling = FALSE
    /\ phase = [c \in Callers |-> "idle"]

(* A chunk task comes to its LLM call.                                     *)
Arrive(c) ==
    /\ phase[c] = "idle"
    /\ phase' = [phase EXCEPT ![c] = "waiting"]
    /\ UNCHANGED <<cwnd, inFlight, errors, cooling>>

(* Mutant: off by one at the edge of the window.                           *)
AcquireAtLimit(c) ==
    /\ phase[c] = "waiting"
    /\ ~cooling
    /\ inFlight <= cwnd
    /\ inFlight' = inFlight + 1
    /\ phase' = [phase EXCEPT ![c] = "calling"]
    /\ UNCHANGED <<cwnd, errors, cooling>>

Acquire(c) ==
    /\ phase[c] = "waiting"
    /\ ~cooling
    /\ inFlight < cwnd
    /\ inFlight' = inFlight + 1
    /\ phase' = [phase EXCEPT ![c] = "calling"]
    /\ UNCHANGED <<cwnd, errors, cooling>>

(* Mutant: the token is released whether or not it was acquired.           *)
GiveUpReleases(c) ==
    /\ phase[c] = "waiting"
    /\ inFlight' = inFlight - 1
    /\ phase' = [phase EXCEPT ![c] = "idle"]
    /\ UNCHANGED <<cwnd, errors, cooling>>

(* acquire() timed out: the call answers an empty result.                  *)
GiveUp(c) ==
    /\ phase[c] = "waiting"
    /\ phase' = [phase EXCEPT ![c] = "idle"]
    /\ UNCHANGED <<cwnd, inFlight, errors, cooling>>

Leave(c) ==
    /\ phase[c] = "calling"
    /\ inFlight' = inFlight - 1
    /\ phase' = [phase EXCEPT ![c] = "idle"]

(* Mutant: an answer does not end the row of errors.                       *)
SucceedKeepsErrors(c) ==
    /\ Leave(c)
    /\ cwnd' = Smaller(MaxWindow, cwnd + 1)
    /\ UNCHANGED <<errors, cooling>>

(* release() after an answer: additive increase.                           *)
Succeed(c) ==
    /\ Leave(c)
    /\ errors' = 0
    /\ cwnd' = Smaller(MaxWindow, cwnd + 1)
    /\ UNCHANGED cooling

(* Mutants: the window has no lower bound; a trip keeps the row of errors.  *)
CallFailsToZero(c) ==
    /\ Leave(c)
    /\ cwnd' = cwnd \div Decay
    /\ IF errors + 1 >= TripAfter
       THEN errors' = 0 /\ cooling' = TRUE
       ELSE errors' = errors + 1 /\ UNCHANGED cooling

(* release(is_error=True): multiplicative decrease, and a cooldown after   *)
(* TripAfter errors in a row.                                              *)
CallFails(c) ==
    /\ Leave(c)
    /\ cwnd' = Larger(MinWindow, cwnd \div Decay)
    /\ IF errors + 1 >= TripAfter
       THEN errors' = 0 /\ cooling' = TRUE
       ELSE errors' = errors + 1 /\ UNCHANGED cooling

CooldownOver ==
    /\ cooling
    /\ cooling' = FALSE
    /\ UNCHANGED <<cwnd, inFlight, errors, phase>>

CallEnds(c) == Succeed(c) \/ CallFails(c)

SemNext ==
    \/ \E c \in Callers : Arrive(c) \/ Acquire(c) \/ GiveUp(c) \/ CallEnds(c)
    \/ CooldownOver

SemSpec == SemInit /\ [][SemNext]_semVars

(* A call ends (requests time out), the cooldown runs out, and a waiting   *)
(* caller polls every 50 ms: some caller is admitted when one can be.      *)
SemFairSpec ==
    /\ SemSpec
    /\ \A c \in Callers : WF_semVars(CallEnds(c))
    /\ WF_semVars(CooldownOver)
    /\ WF_semVars(\E c \in Callers : Acquire(c))

---------------------------------------------------------------------------
(* Properties.                                                             *)

(* The types of all variables.                                             *)
SemTypeOK ==
    /\ cwnd \in Int /\ inFlight \in Int
    /\ errors \in 0..(TripAfter - 1)
    /\ cooling \in BOOLEAN
    /\ phase \in [Callers -> {"idle", "waiting", "calling"}]

(* No token is lost or minted by a failed call, a timed out acquire or a   *)
(* trip of the breaker: the semaphore counts exactly the calls under way.  *)
TokensMatchCalls == inFlight = Cardinality(Calling)

(* The window stays between its bounds, and a window cut under running     *)
(* calls never lets more of them run than the largest window allows.       *)
WindowBounds ==
    /\ MinWindow <= cwnd /\ cwnd <= MaxWindow
    /\ inFlight <= MaxWindow

(* The largest window that so many errors in a row can leave.              *)
WindowAfter[n \in Nat] ==
    IF n = 0 THEN MaxWindow ELSE Larger(MinWindow, WindowAfter[n - 1] \div Decay)

(* errors in a row have cut the window that often: no answer and no trip   *)
(* of the breaker comes between them (AdaptiveSemaphore.release).          *)
ErrorsCutWindow == cwnd <= WindowAfter[errors]

(* The window never closes for good, whatever sequence of errors and       *)
(* cooldowns: a waiting caller sees a call under way, or nobody waits.     *)
SomebodyServed ==
    (\E c \in Callers : phase[c] = "waiting")
        ~> (Calling # {} \/ \A c \in Callers : phase[c] # "waiting")
=============================================================================
