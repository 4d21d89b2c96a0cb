---------------------------- MODULE OverflowProofs ----------------------------
(* Theorems about the two places where arithmetic may overflow: the age of  *)
(* a call in the sweep (RequestTimeout) and the sleep of an echo thread     *)
(* (EchoDelay), for all times and widths that their assumptions admit.      *)
EXTENDS RequestTimeout, EchoDelay, FiniteSetTheorems, TLAPS

(* Who is ahead of a call that is not disturbed is not disturbed either.    *)
DisturbedBehind ==
  \A c, d \in cached : d < c /\ c \notin disturbed => d \notin disturbed

(* Ids are in the order of the calls' real ages.                            *)
OlderFirst == \A c, d \in cached : d < c => age[c] <= age[d]

(* Left to itself the long is the age, and the last sweep left only what    *)
(* was younger than LIMIT then.                                             *)
Exact ==
  \A c \in cached \ disturbed : ts[c] = age[c] /\ age[c] < LIMIT + since

Unused == \A c \in Ids \ cached : ts[c] = 0 /\ age[c] = 0

TimeInv == TypeOK /\ DisturbedBehind /\ OlderFirst /\ Exact /\ Unused

-----------------------------------------------------------------------------
(* Types *)

LEMMA TypeInit == Init => TypeOK
  BY TimeoutAssumption DEF Init, TypeOK, Ids, OLD

(* The long stays in its range, however far the clock is set.               *)
LEMMA WrapType ==
  ASSUME TypeOK, NEW n \in 1..(2 * HALF - 1), Pass(n)
  PROVE  ts' \in [Ids -> -HALF..(HALF - 1)]
<1>1. \A c \in Ids : ts[c] \in -HALF..(HALF - 1)
  BY DEF TypeOK
<1>2. \A x \in -HALF..(HALF - 1) : Wrap(x + n) \in -HALF..(HALF - 1)
  BY TimeoutAssumption DEF Wrap
<1>3. 0 \in -HALF..(HALF - 1)
  BY TimeoutAssumption
<1> QED
  BY <1>1, <1>2, <1>3 DEF Pass

LEMMA RemoveType ==
  ASSUME TypeOK, NEW ids, Remove(ids), m_id' = m_id
  PROVE  /\ cached' \subseteq 1..m_id' /\ canceled' \subseteq cached'
         /\ disturbed' \subseteq cached'
         /\ ts' \in [Ids -> -HALF..(HALF - 1)] /\ age' \in [Ids -> 0..OLD]
<1>1. 0 \in -HALF..(HALF - 1) /\ 0 \in 0..OLD
  BY TimeoutAssumption DEF OLD
<1>2. ts' \in [Ids -> -HALF..(HALF - 1)] /\ age' \in [Ids -> 0..OLD]
  BY <1>1 DEF TypeOK, Remove
<1> QED
  BY <1>2 DEF TypeOK, Remove

LEMMA CachedIds == TypeOK => \A c \in cached : c \in Ids /\ c \in Int
  BY TimeoutAssumption DEF TypeOK, Ids

LEMMA TypeNext == TypeOK /\ [Next]_vars => TypeOK'
<1> SUFFICES ASSUME TypeOK, [Next]_vars PROVE TypeOK'
  OBVIOUS
<1> USE TimeoutAssumption
<1>1. CASE CallMethod
  <2>1. m_id' \in 0..MaxCalls /\ m_id \in Nat /\ m_id' = m_id + 1
    BY <1>1 DEF CallMethod, TypeOK
  <2>2. cached' \subseteq 1..m_id'
    <3>1. \A x \in 1..m_id : x \in 1..m_id'
      BY <2>1
    <3>2. m_id' \in 1..m_id'
      BY <2>1
    <3> QED
      BY <1>1, <3>1, <3>2 DEF CallMethod, TypeOK
  <2>3. disturbed' \subseteq cached' /\ canceled' \subseteq cached'
    BY <1>1 DEF CallMethod, TypeOK
  <2> QED
    BY <1>1, <2>1, <2>2, <2>3 DEF CallMethod, TypeOK
<1>2. CASE Tick
  <2>1. ts' \in [Ids -> -HALF..(HALF - 1)]
    BY <1>2, WrapType DEF Tick
  <2>2. age' \in [Ids -> 0..OLD]
    BY <1>2 DEF Tick, TypeOK, OLD
  <2> QED
    BY <1>2, <2>1, <2>2 DEF Tick, TypeOK
<1>3. CASE RequestTimeCb
  BY <1>3, RemoveType DEF RequestTimeCb, TypeOK
<1>4. ASSUME NEW c \in Ids, StartCancel(c) PROVE TypeOK'
  BY <1>4 DEF StartCancel, TypeOK
<1>5. ASSUME NEW c \in Ids, Decode(c) PROVE TypeOK'
  BY <1>5, RemoveType DEF Decode, TypeOK
<1>6. ASSUME NEW n \in 1..(2 * HALF - 1), ClockSet(n) PROVE TypeOK'
  <2>1. ts' \in [Ids -> -HALF..(HALF - 1)]
    BY <1>6, WrapType DEF ClockSet
  <2> QED
    BY <1>6, <2>1 DEF ClockSet, TypeOK
<1>7. CASE UNCHANGED vars
  BY <1>7 DEF vars, TypeOK
<1> QED
  BY <1>1, <1>2, <1>3, <1>4, <1>5, <1>6, <1>7 DEF Next

(* Every variable stays in its type: the long never leaves its range.       *)
THEOREM TimeTypeCorrect == Spec => []TypeOK
  BY TypeInit, TypeNext, PTL DEF Spec

-----------------------------------------------------------------------------
(* Ages *)

LEMMA TimeInit == Init => TimeInv
  BY TypeInit DEF Init, TimeInv, DisturbedBehind, OlderFirst, Exact, Unused

LEMMA TimeCall == TimeInv /\ CallMethod => TimeInv'
<1> SUFFICES ASSUME TimeInv, CallMethod PROVE TimeInv'
  OBVIOUS
<1> USE TimeoutAssumption DEF TimeInv
<1>1. TypeOK'
  BY TypeNext DEF Next
<1>2. m_id' \in Ids \ cached /\ \A c \in cached : c \in Ids /\ c < m_id'
  BY DEF CallMethod, TypeOK, Ids
<1>3. ts[m_id'] = 0 /\ age[m_id'] = 0
  BY <1>2 DEF Unused
<1>4. \A c \in cached : age[c] \in Nat
  BY <1>2 DEF TypeOK, OLD
<1>5. DisturbedBehind'
  BY <1>2 DEF CallMethod, DisturbedBehind, TypeOK
<1>6. OlderFirst'
  BY <1>2, <1>3, <1>4 DEF CallMethod, OlderFirst, TypeOK
<1>7. Exact'
  BY <1>2, <1>3 DEF CallMethod, Exact, TypeOK
<1>8. Unused'
  BY <1>2 DEF CallMethod, Unused
<1> QED
  BY <1>1, <1>5, <1>6, <1>7, <1>8

LEMMA TimeTick == TimeInv /\ Tick => TimeInv'
<1> SUFFICES ASSUME TimeInv, Tick PROVE TimeInv'
  OBVIOUS
<1> USE TimeoutAssumption DEF TimeInv
<1>1. TypeOK'
  BY TypeNext DEF Next
<1>2. \A c \in cached : /\ c \in Ids /\ age[c] \in 0..OLD
                        /\ age'[c] = IF age[c] < OLD THEN age[c] + 1 ELSE OLD
                        /\ ts'[c] = Wrap(ts[c] + 1)
  BY DEF Tick, Pass, TypeOK, Ids
<1>3. OlderFirst'
  <2> SUFFICES ASSUME NEW c \in cached, NEW d \in cached, d < c
               PROVE  age'[c] <= age'[d]
    BY DEF OlderFirst, Tick
  <2>1. age[c] <= age[d]
    BY DEF OlderFirst
  <2> QED
    BY <1>2, <2>1 DEF OLD
<1>4. Exact'
  <2> SUFFICES ASSUME NEW c \in cached \ disturbed
               PROVE  ts'[c] = age'[c] /\ age'[c] < LIMIT + since'
    BY DEF Exact, Tick
  <2>1. ts[c] = age[c] /\ age[c] < LIMIT + since
    BY DEF Exact
  <2>2. since \in Nat /\ since < PERIOD + LAG /\ since' = since + 1
    BY DEF Tick, TypeOK
  <2>3. age[c] + 1 < HALF /\ age[c] < OLD
    BY <1>2, <2>1, <2>2 DEF OLD
  <2> QED
    BY <1>2, <2>1, <2>2, <2>3 DEF Wrap
<1>5. Unused'
  BY DEF Tick, Pass, Unused
<1>6. DisturbedBehind'
  BY DEF Tick, DisturbedBehind
<1> QED
  BY <1>1, <1>3, <1>4, <1>5, <1>6

(* Whoever a sweep leaves is younger than LIMIT: so is one it stopped at.   *)
LEMMA LeftYoung ==
  ASSUME TimeInv, NEW c \in cached \ disturbed, c \notin Swept
  PROVE  age[c] < LIMIT
<1> USE TimeoutAssumption DEF TimeInv
<1>1. PICK d \in cached : d <= c /\ ~IsOver(d)
  BY DEF Swept
<1>2. c \in Ids /\ d \in Ids /\ c \in Int /\ d \in Int
  BY DEF TypeOK, Ids
<1>3. d \notin disturbed
  BY <1>1, <1>2 DEF DisturbedBehind
<1>4. ts[d] = age[d] /\ ts[d] \in Int
  BY <1>2, <1>3 DEF Exact, TypeOK
<1>5. ts[d] < LIMIT
  BY <1>1, <1>4 DEF IsOver
<1>6. age[c] <= age[d]
  <2>1. age[d] \in Int
    BY <1>4
  <2> QED
    BY <1>1, <1>2, <2>1 DEF OlderFirst
<1>7. age[c] \in Int
  BY <1>2 DEF TypeOK
<1> QED
  BY <1>4, <1>5, <1>6, <1>7

LEMMA TimeRemove ==
  ASSUME TimeInv, NEW ids, Remove(ids)
  PROVE  DisturbedBehind' /\ OlderFirst' /\ Unused'
<1> USE DEF TimeInv
<1>1. \A c \in cached' : c \in Ids /\ c \in cached /\ c \notin ids
  BY CachedIds DEF Remove
<1>2. DisturbedBehind'
  BY <1>1 DEF Remove, DisturbedBehind
<1>3. OlderFirst'
  BY <1>1 DEF Remove, OlderFirst
<1>4. Unused'
  BY DEF Remove, Unused
<1> QED
  BY <1>2, <1>3, <1>4

LEMMA TimeSweep == TimeInv /\ RequestTimeCb => TimeInv'
<1> SUFFICES ASSUME TimeInv, RequestTimeCb PROVE TimeInv'
  OBVIOUS
<1>1. TypeOK'
  BY TypeNext DEF Next, TimeInv
<1>2. DisturbedBehind' /\ OlderFirst' /\ Unused'
  BY TimeRemove DEF RequestTimeCb
<1>3. Exact'
  <2> SUFFICES ASSUME NEW c \in cached' \ disturbed'
               PROVE  ts'[c] = age'[c] /\ age'[c] < LIMIT + since'
    BY DEF Exact
  <2>1. c \in cached \ disturbed /\ c \notin Swept /\ c \in Ids
    BY CachedIds DEF RequestTimeCb, Remove, TimeInv
  <2>2. ts'[c] = ts[c] /\ age'[c] = age[c] /\ since' = 0
    BY <2>1 DEF RequestTimeCb, Remove
  <2>3. ts[c] = age[c]
    BY <2>1 DEF TimeInv, Exact
  <2>4. age[c] < LIMIT
    BY <2>1, LeftYoung
  <2> QED
    BY <2>2, <2>3, <2>4, TimeoutAssumption
<1> QED
  BY <1>1, <1>2, <1>3 DEF TimeInv

LEMMA TimeDecode ==
  ASSUME TimeInv, NEW c \in Ids, Decode(c)
  PROVE  TimeInv'
<1>1. TypeOK'
  BY TypeNext DEF Next, TimeInv
<1>2. DisturbedBehind' /\ OlderFirst' /\ Unused'
  BY TimeRemove DEF Decode
<1>3. Exact'
  BY CachedIds DEF Decode, Remove, Exact, TimeInv
<1> QED
  BY <1>1, <1>2, <1>3 DEF TimeInv

LEMMA TimeClock ==
  ASSUME TimeInv, NEW n \in 1..(2 * HALF - 1), ClockSet(n)
  PROVE  TimeInv'
<1>1. TypeOK'
  BY TypeNext DEF Next, TimeInv
<1>2. DisturbedBehind' /\ Exact'
  BY DEF ClockSet, DisturbedBehind, Exact
<1>3. OlderFirst' /\ Unused'
  BY DEF ClockSet, Pass, OlderFirst, Unused, TimeInv
<1> QED
  BY <1>1, <1>2, <1>3 DEF TimeInv

LEMMA TimeNext == TimeInv /\ [Next]_vars => TimeInv'
<1> SUFFICES ASSUME TimeInv, [Next]_vars PROVE TimeInv'
  OBVIOUS
<1>1. ASSUME NEW c \in Ids, StartCancel(c) PROVE TimeInv'
  <2>1. TypeOK'
    BY <1>1, TypeNext DEF Next, TimeInv
  <2> QED
    BY <1>1, <2>1 DEF StartCancel, TimeInv, DisturbedBehind, OlderFirst, Exact,
                      Unused
<1>2. CASE UNCHANGED vars
  BY <1>2 DEF vars, TimeInv, TypeOK, DisturbedBehind, OlderFirst, Exact, Unused
<1> QED
  BY <1>1, <1>2, TimeCall, TimeTick, TimeSweep, TimeDecode, TimeClock DEF Next

LEMMA TimeAlways == Spec => []TimeInv
  BY TimeInit, TimeNext, PTL DEF Spec

(* Without a clock set behind its back, no call waits longer than 12 s and  *)
(* the time between two sweeps, in spite of the 32 bits and of the sweep's  *)
(* stopping at the first young call.                                        *)
THEOREM NoneOverdue == Spec => []InTime
<1>1. TimeInv => InTime
  <2> SUFFICES ASSUME TimeInv, NEW c \in cached \ disturbed
               PROVE  age[c] < LIMIT + PERIOD + LAG
    BY DEF InTime
  <2>1. age[c] < LIMIT + since /\ since \in 0..(PERIOD + LAG)
    BY DEF TimeInv, Exact, TypeOK
  <2>2. age[c] \in Int
    BY CachedIds DEF TimeInv, TypeOK, OLD
  <2> QED
    BY <2>1, <2>2, TimeoutAssumption
<1> QED
  BY <1>1, TimeAlways, PTL

(* And none is given up before.                                             *)
THEOREM NoneEarly == Spec => NotEarly
<1>1. TimeInv /\ [Next]_vars =>
        (since' < since =>
           \A c \in cached \ (cached' \cup canceled \cup disturbed) :
             age[c] >= LIMIT) \/ UNCHANGED vars
  <2> SUFFICES ASSUME TimeInv, Next, since' < since,
                      NEW c \in cached \ (cached' \cup canceled \cup disturbed)
               PROVE  age[c] >= LIMIT
    BY DEF vars
  <2>1. since \in Nat
    BY TimeoutAssumption DEF TimeInv, TypeOK
  <2>2. RequestTimeCb
    <3>1. ~CallMethod /\ ~Tick
      BY <2>1 DEF CallMethod, Tick
    <3>2. \A d \in Ids : ~StartCancel(d) /\ ~Decode(d)
      BY <2>1 DEF StartCancel, Decode
    <3>3. \A n \in 1..(2 * HALF - 1) : ~ClockSet(n)
      BY <2>1 DEF ClockSet
    <3> QED
      BY <3>1, <3>2, <3>3 DEF Next
  <2>3. c \in Swept /\ c \in Ids
    BY <2>2, CachedIds DEF RequestTimeCb, Remove, TimeInv
  <2>4. IsOver(c)
    BY <2>3 DEF Swept, Ids
  <2>5. ts[c] = age[c]
    BY DEF TimeInv, Exact
  <2> QED
    BY <2>4, <2>5 DEF IsOver
<1> QED
  BY <1>1, TimeAlways, PTL DEF Spec, NotEarly

-----------------------------------------------------------------------------
(* The sleep of an echo thread (EchoDelay)                                  *)

Pcs == {"unborn", "load", "store", "compute", "sleep"}

EchoTypes ==
  /\ sec \in Int /\ pc \in [EchoThreads -> Pcs]
  /\ reg \in [EchoThreads -> Int] /\ slept \in [EchoThreads -> Int]
  /\ wanted \in [EchoThreads -> Int]

(* What sec can be after n stores: lost increments only keep it lower.      *)
Reached(n) == START..START + n * STEP

SecInv ==
  SecFits =>
    LET n == Cardinality(Stored) IN
    /\ sec \in Reached(n) /\ (Stored # {} => sec >= START + STEP)
    /\ \A t \in EchoThreads : pc[t] = "store" => reg[t] \in Reached(n)
    /\ \A t \in Sleepers :
         /\ wanted[t] \in Reached(n) /\ wanted[t] >= START + STEP
         /\ slept[t] = USleep(Int32(wanted[t] * MICRO))

EchoInv == EchoTypes /\ SecInv

-----------------------------------------------------------------------------
(* Arithmetic *)

LEMMA Constants ==
  /\ IsFiniteSet(EchoThreads)
  /\ START \in Nat \ {0} /\ STEP \in Nat \ {0} /\ INT_HALF \in Nat \ {0}
  /\ MICRO \in Nat \ {0} /\ MILLI \in Nat \ {0}
  /\ (START + STEP) * MICRO < INT_HALF
BY EchoDelayAssumption

LEMMA Quotients ==
  ASSUME NEW a \in Nat, NEW b \in Nat \ {0}
  PROVE  a \div b \in Nat /\ b * (a \div b) <= a /\ a < b * (a \div b + 1)
OBVIOUS

LEMMA TimesMonotone ==
  ASSUME NEW a \in Nat, NEW b \in Nat, NEW n \in Nat, a <= b
  PROVE  a * n <= b * n
OBVIOUS

(* A number that fits is itself as an int, and as a DWORD.                  *)
LEMMA Fitting ==
  ASSUME NEW x \in 0..INT_HALF - 1
  PROVE  Int32(x) = x /\ Dword(x) = x
<1>1. \A y \in Nat, m \in Nat \ {0} : y < m => y % m = y
  OBVIOUS
<1>2. /\ x + INT_HALF \in Nat /\ 2 * INT_HALF \in Nat \ {0}
      /\ x + INT_HALF < 2 * INT_HALF
  BY Constants
<1>3. (x + INT_HALF) % (2 * INT_HALF) = x + INT_HALF /\ x % (2 * INT_HALF) = x
  BY <1>1, <1>2, Constants
<1> QED
  BY <1>3, Constants DEF Int32, Dword

LEMMA Wrapped == \A x \in Int : Int32(x) \in Int /\ Dword(x) \in Int
  BY Constants DEF Int32, Dword

LEMMA SleepIsInt == \A x \in Int : USleep(Int32(x)) \in Int
<1>1. \A x \in Int : Quotient(x, MILLI) \in Int
  BY Constants DEF Quotient
<1> QED
  BY <1>1, Wrapped DEF USleep

-----------------------------------------------------------------------------
(* Steps *)

LEMMA Counted ==
  /\ IsFiniteSet(Stored) /\ Cardinality(Stored) \in Nat
  /\ Cardinality(Stored) * STEP \in Nat
<1>1. Stored \subseteq EchoThreads
  BY DEF Stored
<1>2. IsFiniteSet(Stored) /\ Cardinality(Stored) \in Nat
  BY <1>1, Constants, FS_Subset, FS_CardinalityType
<1> QED
  BY <1>2, Constants

LEMMA EchoTypeNext == EchoTypes /\ [EchoNext]_echoVars => EchoTypes'
<1> SUFFICES ASSUME EchoTypes, [EchoNext]_echoVars PROVE EchoTypes'
  OBVIOUS
<1>1. ASSUME NEW t \in EchoThreads, Echo(t) PROVE EchoTypes'
  BY <1>1 DEF Echo, Goto, EchoTypes, Pcs
<1>2. ASSUME NEW t \in EchoThreads, Load(t) PROVE EchoTypes'
  BY <1>2 DEF Load, Goto, EchoTypes, Pcs
<1>3. ASSUME NEW t \in EchoThreads, Store(t) PROVE EchoTypes'
  <2>1. Int32(Sum(t)) \in Int
    BY Wrapped, Constants DEF Sum, EchoTypes
  <2> QED
    BY <1>3, <2>1 DEF Store, Goto, EchoTypes, Pcs
<1>4. ASSUME NEW t \in EchoThreads, Compute(t) PROVE EchoTypes'
  <2>1. USleep(Int32(SecNow(t) * MICRO)) \in Int /\ SecNow(t) \in Int
    BY SleepIsInt, Constants DEF SecNow, EchoTypes
  <2> QED
    BY <1>4, <2>1 DEF Compute, Goto, EchoTypes, Pcs
<1> QED
  BY <1>1, <1>2, <1>3, <1>4 DEF EchoNext, echoVars, EchoTypes

(* A store counts one more echo, and raises sec by one step of what the     *)
(* thread has loaded, before however many other stores.                     *)
LEMMA StoreKeeps ==
  ASSUME EchoInv, NEW t \in EchoThreads, Store(t)
  PROVE  SecInv'
<1> DEFINE n == Cardinality(Stored)
<1>1. Stored' = Stored \cup {t} /\ t \notin Stored /\ Sleepers' = Sleepers
  BY DEF EchoInv, EchoTypes, Store, Goto, Stored, Sleepers
<1>2. n \in Nat /\ Cardinality(Stored') = n + 1
  BY <1>1, Counted, FS_AddElement
<1> HIDE DEF n
<1>3. (n + 1) * STEP = n * STEP + STEP /\ n * STEP \in Nat
  BY <1>2, Constants
<1> SUFFICES ASSUME SecFits' PROVE SecInv'
  BY DEF SecInv
<1>4. START + n * STEP + STEP < INT_HALF
  BY <1>2, <1>3, Constants DEF SecFits
<1>5. SecFits
  BY <1>3, <1>4, Constants DEF SecFits, n
<1>6. /\ reg[t] \in Reached(n)
      /\ \A u \in EchoThreads : pc[u] = "store" => reg[u] \in Reached(n)
      /\ \A u \in Sleepers :
           /\ wanted[u] \in Reached(n) /\ wanted[u] >= START + STEP
           /\ slept[u] = USleep(Int32(wanted[u] * MICRO))
  BY <1>5 DEF EchoInv, SecInv, Store, n
<1>7. \A x : x \in Reached(n) => x \in Reached(n + 1)
  BY <1>3, Constants DEF Reached
<1>8. sec' = reg[t] + STEP /\ sec' \in Reached(n + 1) /\ sec' >= START + STEP
  <2>1. reg[t] + STEP \in 0..INT_HALF - 1 /\ reg[t] \in Int
    BY <1>3, <1>4, <1>6, Constants DEF Reached
  <2>2. sec' = reg[t] + STEP
    BY <2>1, Fitting DEF Store, Sum
  <2> QED
    BY <2>1, <2>2, <1>3, <1>6, Constants DEF Reached
<1>9. \A u \in EchoThreads : pc'[u] = "store" => pc[u] = "store"
  BY DEF EchoInv, EchoTypes, Store, Goto
<1>10. Cardinality(Stored)' = n + 1
  BY <1>2
<1>11. UNCHANGED <<reg, slept, wanted>>
  BY DEF Store
<1> QED
  BY <1>1, <1>6, <1>7, <1>8, <1>9, <1>10, <1>11
  DEF SecInv, USleep, Int32, Dword, Reached, Quotient

LEMMA SecNext == EchoInv /\ [EchoNext]_echoVars => SecInv'
<1> SUFFICES ASSUME EchoInv, [EchoNext]_echoVars PROVE SecInv'
  OBVIOUS
<1> USE DEF EchoInv, EchoTypes, Stored, Sleepers, Goto
<1>1. ASSUME NEW t \in EchoThreads, Echo(t) PROVE SecInv'
  <2>1. /\ Stored' = Stored /\ Sleepers' = Sleepers
        /\ UNCHANGED <<sec, reg, slept, wanted>>
        /\ \A u \in EchoThreads : pc'[u] = "store" => pc[u] = "store"
    BY <1>1 DEF Echo
  <2> QED
    BY <2>1 DEF SecInv, SecFits, Reached, USleep, Int32, Dword, Quotient
<1>2. ASSUME NEW t \in EchoThreads, Load(t) PROVE SecInv'
  <2>1. /\ Stored' = Stored /\ Sleepers' = Sleepers
        /\ UNCHANGED <<sec, slept, wanted>>
        /\ \A u \in EchoThreads :
             pc'[u] = "store" => (pc[u] = "store" /\ reg'[u] = reg[u])
                                   \/ reg'[u] = sec
    BY <1>2 DEF Load
  <2> QED
    BY <2>1 DEF SecInv, SecFits, Reached, USleep, Int32, Dword, Quotient
<1>3. ASSUME NEW t \in EchoThreads, Store(t) PROVE SecInv'
  BY <1>3, StoreKeeps
<1>4. ASSUME NEW t \in EchoThreads, Compute(t) PROVE SecInv'
  <2>1. /\ Stored' = Stored /\ t \in Stored /\ Sleepers' = Sleepers \cup {t}
        /\ UNCHANGED <<sec, reg>>
        /\ \A u \in EchoThreads : pc'[u] = "store" => pc[u] = "store"
        /\ wanted' = [wanted EXCEPT ![t] = sec]
        /\ slept' = [slept EXCEPT ![t] = USleep(Int32(sec * MICRO))]
    BY <1>4 DEF Compute, SecNow
  <2> QED
    BY <2>1 DEF SecInv, SecFits, Reached, USleep, Int32, Dword, Quotient
<1>5. CASE UNCHANGED echoVars
  BY <1>5 DEF echoVars, SecInv, SecFits, Reached, USleep, Int32, Dword, Quotient
<1> QED
  BY <1>1, <1>2, <1>3, <1>4, <1>5 DEF EchoNext

-----------------------------------------------------------------------------
(* Theorems *)

LEMMA EchoInvariant == EchoSpec => []EchoInv
<1>1. EchoInit => EchoInv
  <2> SUFFICES ASSUME EchoInit PROVE EchoInv
    OBVIOUS
  <2>1. EchoTypes
    BY Constants DEF EchoInit, EchoTypes, Pcs
  <2>2. Stored = {} /\ Sleepers = {} /\ \A t \in EchoThreads : pc[t] # "store"
    BY DEF EchoInit, Stored, Sleepers
  <2>3. Cardinality(Stored) = 0
    BY <2>2, FS_EmptySet
  <2>4. sec \in Reached(0)
    BY Constants DEF EchoInit, Reached
  <2> QED
    BY <2>1, <2>2, <2>3, <2>4 DEF EchoInv, SecInv
<1>2. EchoInv /\ [EchoNext]_echoVars => EchoInv'
  BY EchoTypeNext, SecNext DEF EchoInv
<1> QED
  BY <1>1, <1>2, PTL DEF EchoSpec

(* No interleaving of the unlocked increments takes back a thread's own.    *)
THEOREM StepKept == EchoSpec => []OneStepAtLeast
<1>1. EchoInv => OneStepAtLeast
  BY DEF EchoInv, SecInv, OneStepAtLeast
<1> QED
  BY <1>1, EchoInvariant, PTL

(* Before so many echoes that the microseconds overflow, Sleep waits as     *)
(* long as sec says.                                                        *)
THEOREM NoEarlyOverflow == EchoSpec => []NoOverflowBeforeMany
<1>1. EchoInv => NoOverflowBeforeMany
  <2> DEFINE n == Cardinality(Stored)
             max == (INT_HALF - 1) \div MICRO
  <2> SUFFICES ASSUME EchoInv, n < Many, NEW t \in Sleepers
               PROVE  slept[t] = (wanted[t] * MICRO) \div MILLI + 1
    BY DEF NoOverflowBeforeMany
  <2>1. n \in Nat /\ n * STEP \in Nat
    BY Counted
  <2> HIDE DEF n
  <2>2. INT_HALF - 1 \in Nat
    BY Constants
  <2>3. /\ max \in Nat /\ MICRO * max <= INT_HALF - 1
        /\ INT_HALF - 1 < MICRO * (max + 1)
    BY <2>2, Constants, Quotients
  <2> HIDE DEF max
  <2>4. START + STEP <= max
    <3>1. START + STEP \in Nat /\ (START + STEP) * MICRO <= INT_HALF - 1
      BY Constants
    <3>2. CASE START + STEP > max
      <4>1. max + 1 <= START + STEP
        BY <3>1, <3>2, <2>3
      <4>2. (max + 1) * MICRO <= (START + STEP) * MICRO
        BY <4>1, <3>1, <2>3, Constants, TimesMonotone
      <4>3. MICRO * (max + 1) = (max + 1) * MICRO
        BY <2>3, Constants
      <4> QED
        BY <4>2, <4>3, <3>1, <2>3, Constants
    <3> QED
      BY <3>1, <3>2, <2>3
  <2>5. START + n * STEP <= max
    <3> DEFINE q == (max - START) \div STEP
    <3>1. max - START \in Nat
      BY <2>3, <2>4, Constants
    <3>2. q \in Nat /\ STEP * q <= max - START
      BY <3>1, Constants, Quotients
    <3>3. Many = q + 1
      BY DEF Many, max
    <3> HIDE DEF q
    <3>4. n <= q
      BY <3>2, <3>3, <2>1
    <3>5. n * STEP <= q * STEP /\ q * STEP = STEP * q
      BY <3>2, <3>4, <2>1, Constants, TimesMonotone
    <3> QED
      BY <3>2, <3>5, <2>1, <2>3, Constants
  <2>6. max <= INT_HALF - 1
    <3>1. 1 \in Nat /\ MICRO \in Nat /\ 1 <= MICRO
      BY Constants
    <3>2. 1 * max <= MICRO * max
      BY ONLY <3>1, <2>3, TimesMonotone
    <3>3. 1 * max = max /\ MICRO * max \in Nat
      BY <2>3, Constants
    <3> QED
      BY <3>2, <3>3, <2>3, <2>2
  <2>7. SecFits
    BY <2>1, <2>2, <2>3, <2>5, <2>6, Constants DEF SecFits, n
  <2>8. /\ wanted[t] \in Nat /\ wanted[t] <= max
        /\ slept[t] = USleep(Int32(wanted[t] * MICRO))
    BY <2>1, <2>3, <2>5, <2>7, Constants DEF EchoInv, SecInv, Reached, n
  <2> DEFINE x == wanted[t] * MICRO
  <2>9. x \in 0..INT_HALF - 1
    <3>1. wanted[t] * MICRO <= max * MICRO /\ max * MICRO = MICRO * max
      BY <2>3, <2>8, Constants, TimesMonotone
    <3>2. x \in Nat /\ max * MICRO \in Nat
      BY <2>3, <2>8, Constants
    <3>3. x <= max * MICRO /\ max * MICRO <= INT_HALF - 1
      BY <3>1, <2>3
    <3> QED
      BY <3>2, <3>3, <2>2
  <2> HIDE DEF x
  <2>10. x \div MILLI \in Nat /\ x \div MILLI <= x
    <3>1. x \in Nat /\ x \div MILLI \in Nat /\ MILLI * (x \div MILLI) <= x
      BY <2>9, <2>2, Constants, Quotients
    <3>2. \A y \in Nat : 1 * y <= MILLI * y /\ 1 * y = y /\ MILLI * y \in Nat
      BY Constants, TimesMonotone
    <3> QED
      BY <3>1, <3>2
  <2>11. Dword(x \div MILLI + 1) = x \div MILLI + 1
    <3>1. \A y \in Nat, m \in Nat \ {0} : y < m => y % m = y
      OBVIOUS
    <3> DEFINE y == x \div MILLI + 1
    <3>2. y \in Nat /\ y < 2 * INT_HALF /\ 2 * INT_HALF \in Nat \ {0}
      BY <2>9, <2>10, Constants
    <3> HIDE DEF y
    <3>3. Dword(y) = y
      BY <3>1, <3>2 DEF Dword
    <3> QED
      BY <3>3 DEF y
  <2> QED
    BY <2>8, <2>9, <2>10, <2>11, Fitting DEF USleep, Quotient, x
<1> QED
  BY <1>1, EchoInvariant, PTL
=============================================================================
