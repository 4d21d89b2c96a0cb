---------------------------- MODULE RequestTimeout ----------------------------
(***************************************************************************)
(* When the sweep of RpcChannelImpl.cpp (guess_callback_cache) gives a call *)
(* up.  CallMethod stamps a call with the wall clock; every PERIOD, by      *)
(* libevent's monotonic clock, the sweep compares the age of each call, in  *)
(* order of ids, with LIMIT and stops at the first that is too young.       *)
(*                                                                         *)
(* The age is the long ts.tv_sec * 1000000L + ts.tv_usec.  long has 32 bits *)
(* in the Windows build, so it wraps every 71 minutes; and whoever sets the *)
(* clock moves it.  One tick stands for some seconds.                       *)
(***************************************************************************)
EXTENDS Integers

CONSTANTS
  MaxCalls,   \* bound: calls made, with the ids 1..MaxCalls
  PERIOD,     \* tv_request
  LIMIT,      \* 12000000L
  HALF,       \* the long is in -HALF .. HALF - 1, in ticks
  LAG,        \* bound: how late the loop comes to a timer that is due
  MaxSteps    \* bound: how often the clock is set

ASSUME TimeoutAssumption ==
  /\ MaxCalls \in Nat /\ LAG \in Nat /\ MaxSteps \in Nat
  /\ PERIOD \in Nat \ {0} /\ LIMIT \in Nat \ {0}
  /\ HALF \in Nat /\ LIMIT + PERIOD + LAG <= HALF

Ids == 1..MaxCalls
OLD == LIMIT + PERIOD + LAG   \* real ages are counted to here

VARIABLES
  m_id,       \* the id of the last call
  cached,     \* ids in m_callback_cache
  canceled,   \* ids whose controller is canceled
  since,      \* time since the request timer was armed
  ts,         \* of each call: wall clock minus stamp, as a long
  steps,      \* how often the clock was set
  age,        \* history: time since the call was made
  disturbed   \* history: cached calls whose time is not what the clock says,
              \* and those made behind one of them

vars == <<m_id, cached, canceled, since, ts, steps, age, disturbed>>

Init ==
  /\ m_id = 0 /\ cached = {} /\ canceled = {}
  /\ since = 0 /\ steps = 0
  /\ ts = [c \in Ids |-> 0] /\ age = [c \in Ids |-> 0]
  /\ disturbed = {}

Wrap(x) == IF x >= HALF THEN x - 2 * HALF ELSE x

CallMethod ==
  /\ m_id < MaxCalls
  /\ m_id' = m_id + 1
  /\ cached' = cached \cup {m_id'}
  /\ disturbed' = IF disturbed = {} THEN {} ELSE disturbed \cup {m_id'}
  /\ UNCHANGED <<canceled, since, ts, steps, age>>

StartCancel(c) ==
  /\ c \in cached
  /\ canceled' = canceled \cup {c}
  /\ UNCHANGED <<m_id, cached, since, ts, steps, age, disturbed>>

Remove(ids) ==
  /\ cached' = cached \ ids
  /\ canceled' = canceled \ ids
  /\ disturbed' = disturbed \ ids
  /\ ts' = [c \in Ids |-> IF c \in ids THEN 0 ELSE ts[c]]
  /\ age' = [c \in Ids |-> IF c \in ids THEN 0 ELSE age[c]]

Decode(c) ==
  /\ c \in cached
  /\ Remove({c})
  /\ UNCHANGED <<m_id, since, steps>>

Pass(n) == ts' = [c \in Ids |-> IF c \in cached THEN Wrap(ts[c] + n) ELSE 0]

Tick ==
  /\ since < PERIOD + LAG
  /\ since' = since + 1
  /\ Pass(1)
  /\ age' = [c \in Ids |-> IF c \notin cached THEN 0
                         ELSE IF age[c] < OLD THEN age[c] + 1 ELSE OLD]
  /\ UNCHANGED <<m_id, cached, canceled, steps, disturbed>>

(* Forward, or back as far as the long reaches. *)
ClockSet(n) ==
  /\ steps < MaxSteps
  /\ steps' = steps + 1
  /\ Pass(n)
  /\ disturbed' = disturbed \cup cached
  /\ UNCHANGED <<m_id, cached, canceled, since, age>>

IsOverCanceled(c) == c \in canceled              \* mutant: no timeouts
IsOverLate(c) == c \in canceled \/ ts[c] > LIMIT   \* mutant: <= for <
IsOver(c) == c \in canceled \/ ts[c] >= LIMIT

SweptThrough == {c \in cached : \E d \in cached : d <= c /\ IsOver(d)}
                       \* mutant: goes on past a call that is too young
Swept == {c \in cached : \A d \in cached : d <= c => IsOver(d)}

RequestTimeCb ==
  /\ since >= PERIOD
  /\ Remove(Swept)
  /\ since' = 0
  /\ UNCHANGED <<m_id, steps>>

Next ==
  \/ CallMethod \/ Tick \/ RequestTimeCb
  \/ \E c \in Ids : StartCancel(c) \/ Decode(c)
  \/ \E n \in 1..(2 * HALF - 1) : ClockSet(n)

Spec == Init /\ [][Next]_vars

(* Time passes, and the loop comes to the timer. *)
FairSpec == Spec /\ WF_vars(Tick) /\ WF_vars(RequestTimeCb)

-----------------------------------------------------------------------------
(* Properties *)

(* Every variable stays in its type; the long never leaves its range. *)
TypeOK ==
  /\ m_id \in 0..MaxCalls
  /\ cached \subseteq 1..m_id
  /\ canceled \subseteq cached /\ disturbed \subseteq cached
  /\ since \in 0..(PERIOD + LAG)
  /\ ts \in [Ids -> -HALF..(HALF - 1)]
  /\ steps \in 0..MaxSteps
  /\ age \in [Ids -> 0..OLD]

(* No call is given up before it is LIMIT old, whatever calls are ahead of  *)
(* it, unless it is canceled or the clock was set while it, or a call ahead *)
(* of it, waited.                                                           *)
NotEarly ==
  [][since' < since =>
       \A c \in cached \ (cached' \cup canceled \cup disturbed) :
         age[c] >= LIMIT]_vars

(* Nor does one wait longer than LIMIT and the time between two sweeps: the *)
(* sweep's stopping at the first young call, and the long's few bits, do no *)
(* harm as long as nobody sets the clock.                                   *)
InTime == \A c \in cached \ disturbed : age[c] < LIMIT + PERIOD + LAG

(* However the clock is set, and however long the wrapped age makes a call  *)
(* look young, the call and those behind it leave the cache.                *)
OverInTheEnd == \A c \in Ids : c \in cached ~> c \notin cached
=============================================================================
