------------------------------- MODULE EchoDelay -------------------------------
(***************************************************************************)
(* How long echo_worker (EchoServiceImpl.cpp) sleeps.  Every echo thread    *)
(* adds STEP to the static int sec, without a lock: a load and a store.  It *)
(* reads sec again to compute the microseconds of USleep, an int as well,   *)
(* of which pch.h makes the milliseconds of Sleep, a DWORD.                 *)
(*                                                                         *)
(* The constants are smaller here than in the code, where int has 32 bits   *)
(* and a signed overflow wraps in the build there is.                       *)
(***************************************************************************)
EXTENDS Integers, FiniteSets

CONSTANTS
  EchoThreads,  \* the thread of each Echo
  START, STEP,  \* sec is 5 at first, and 5 more with each thread
  MICRO, MILLI, \* 1000 * 1000, and 1000
  INT_HALF          \* an int is in -INT_HALF .. INT_HALF - 1

ASSUME EchoDelayAssumption ==
  /\ IsFiniteSet(EchoThreads)
  /\ {START, STEP, MICRO, MILLI, INT_HALF} \subseteq Nat \ {0}
  /\ MILLI <= MICRO /\ (START + STEP) * MICRO < INT_HALF

VARIABLES
  sec,
  pc,      \* where each echo_worker is
  reg,     \* the sec each has loaded
  slept,   \* the argument of its Sleep
  wanted   \* history: sec when it was computed

echoVars == <<sec, pc, reg, slept, wanted>>

EchoInit ==
  /\ sec = START
  /\ pc = [t \in EchoThreads |-> "unborn"]
  /\ reg = [t \in EchoThreads |-> 0]
  /\ slept = [t \in EchoThreads |-> 0]
  /\ wanted = [t \in EchoThreads |-> 0]

(* x as an int, and as a DWORD; the quotient of C. *)
Int32(x) == ((x + INT_HALF) % (2 * INT_HALF)) - INT_HALF
Dword(x) == x % (2 * INT_HALF)
Quotient(x, y) == IF x >= 0 THEN x \div y ELSE -((-x) \div y)

USleep(x) == Dword(Quotient(x, MILLI) + 1)

Goto(t, l) == pc' = [pc EXCEPT ![t] = l]

Echo(t) ==
  /\ pc[t] = "unborn"
  /\ Goto(t, "load")
  /\ UNCHANGED <<sec, reg, slept, wanted>>

Load(t) ==
  /\ pc[t] = "load"
  /\ reg' = [reg EXCEPT ![t] = sec]
  /\ Goto(t, "store")
  /\ UNCHANGED <<sec, slept, wanted>>

SumTwice(t) == reg[t] + 2 * STEP   \* mutant: sec grows twice as fast
Sum(t) == reg[t] + STEP

Store(t) ==
  /\ pc[t] = "store"
  /\ sec' = Int32(Sum(t))
  /\ Goto(t, "compute")
  /\ UNCHANGED <<reg, slept, wanted>>

SecLoaded(t) == reg[t]   \* mutant: post-increment, the old value is used
SecNow(t) == sec

Compute(t) ==
  /\ pc[t] = "compute"
  /\ slept' = [slept EXCEPT ![t] = USleep(Int32(SecNow(t) * MICRO))]
  /\ wanted' = [wanted EXCEPT ![t] = SecNow(t)]
  /\ Goto(t, "sleep")
  /\ UNCHANGED <<sec, reg>>

EchoNext == \E t \in EchoThreads : Echo(t) \/ Load(t) \/ Store(t) \/ Compute(t)

EchoSpec == EchoInit /\ [][EchoNext]_echoVars

-----------------------------------------------------------------------------
(* Properties *)

Stored == {t \in EchoThreads : pc[t] \in {"compute", "sleep"}}
Sleepers == {t \in EchoThreads : pc[t] = "sleep"}

(* So few echoes that sec itself cannot have overflowed.                     *)
SecFits == START + Cardinality(Stored) * STEP < INT_HALF

(* Other threads may undo a thread's increment, and even set sec back, but  *)
(* never below one step: every sec that is slept on counts one at least.    *)
OneStepAtLeast ==
  SecFits => \A t \in Sleepers : wanted[t] >= START + STEP

(* How many increments it takes until the microseconds do not fit.          *)
Many == ((INT_HALF - 1) \div MICRO - START) \div STEP + 1

(* A Sleep is as long as sec says, until so many echoes have begun that     *)
(* the int overflows; lost increments only put that off.                    *)
NoOverflowBeforeMany ==
  Cardinality(Stored) < Many =>
    \A t \in Sleepers : slept[t] = (wanted[t] * MICRO) \div MILLI + 1
=============================================================================
