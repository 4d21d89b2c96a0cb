---------------------------- MODULE LifecycleProofs ----------------------------
(* Theorems about Lifecycle, for every number of calls, and whether threads *)
(* and dispatch fail or not.                                                *)
EXTENDS Lifecycle, TLAPS

(* The constructor of o is over. *)
Constructed(o) ==
  stage \notin {"create", "store"} \/ (o = "server" /\ obj = "channel")

(* A callback of the channel works on a call that is not completed. *)
Working == \A c \in working["channel"] : done[c] = 0

TypeInv == TypeOK /\ Working

(* Before its constructor is over an object is not freed, and has a thread  *)
(* only between the thread's creation and the store of its id.              *)
BeforeBirth ==
  \A o \in Objects : ~Constructed(o) =>
    /\ memory[o] # "freed"
    /\ worker[o] # "unborn" => stage = "store" /\ obj = o /\ returned

(* After that m_threadid is not 0 as long as the thread runs: 0 may be      *)
(* wrong only the other way round (ThreadidStale).                          *)
Announced ==
  \A o \in Objects :
    Constructed(o) /\ worker[o] \notin {"unborn", "exited"} => m_threadid[o]

LifeInv == BeforeBirth /\ Announced /\ FreedAfterWorker

-----------------------------------------------------------------------------
(* Types *)

LEMMA TypeInit == Init => TypeInv
<1> SUFFICES ASSUME Init PROVE TypeInv
  OBVIOUS
<1> USE DEF Init, Objects
<1>1. Working
  BY DEF Working
<1>2. TypeOK
  BY DEF TypeOK
<1> QED
  BY <1>1, <1>2 DEF TypeInv

LEMMA MainTypes ==
  TypeInv /\ (Main \/ Delete \/ \E c \in Calls : CallMethod(c)) => TypeInv'
<1> SUFFICES ASSUME TypeInv, Main \/ Delete \/ \E c \in Calls : CallMethod(c)
             PROVE  TypeInv'
  OBVIOUS
<1> USE DEF TypeInv, TypeOK, Working, Set, Objects, mainVars, objVars, loopVars,
            callVars
<1>1. CASE CreateThread
  <2>1. Working'
    BY <1>1 DEF CreateThread
  <2>2. /\ memory' \in [Objects -> {"none", "allocated", "freed"}]
        /\ worker' \in [Objects -> {"unborn", "started", "looping", "callback",
                                   "leaving", "exited"}]
    BY <1>1 DEF CreateThread
  <2> QED
    BY <1>1, <2>1, <2>2 DEF CreateThread
<1>2. CASE StoreThreadid
  BY <1>2 DEF StoreThreadid, ReturnedThread
<1>3. CASE Loopbreak
  BY <1>3 DEF Loopbreak
<1>4. CASE Free
  BY <1>4 DEF Free
<1>5. CASE Delete
  BY <1>5 DEF Delete
<1>6. CASE \E c \in Calls : CallMethod(c)
  BY <1>6 DEF CallMethod
<1> QED
  BY <1>1, <1>2, <1>3, <1>4, <1>5, <1>6 DEF Main

LEMMA CallbackTypes ==
  ASSUME TypeInv, NEW o \in Objects, NEW c \in Calls,
         BeginCallback(o, c)
           \/ (c \in working[o] /\ o = "server" /\ ServerCallback(c))
           \/ (c \in working[o] /\ o = "channel" /\ ChannelCallback(c))
  PROVE  TypeInv'
<1> USE DEF TypeInv, TypeOK, Working, Set, Objects, mainVars, objVars, loopVars,
            callVars, EndCallback
<1>1. CASE BeginCallback(o, c)
  BY <1>1 DEF BeginCallback, Due
<1>2. CASE c \in working[o] /\ o = "server" /\ ServerCallback(c)
  BY <1>2 DEF ServerCallback
<1>3. CASE c \in working[o] /\ o = "channel" /\ ChannelCallback(c)
  BY <1>3 DEF ChannelCallback, RunDone
<1> QED
  BY <1>1, <1>2, <1>3

LEMMA WorkerTypes ==
  ASSUME TypeInv, NEW o \in Objects, Worker(o)
  PROVE  TypeInv'
<1> USE DEF TypeInv, TypeOK, Working, Set, mainVars, objVars, loopVars, callVars
<1>1. CASE Dispatch(o)
  BY <1>1 DEF Dispatch
<1>2. CASE LoopEnds(o)
  BY <1>2 DEF LoopEnds
<1>3. CASE WorkerEnds(o)
  BY <1>3 DEF WorkerEnds, ClearThreadid
<1>4. CASE \E c \in Calls : BeginCallback(o, c)
  BY <1>4, CallbackTypes
<1>5. CASE \E c \in working[o] : IF o = "server" THEN ServerCallback(c)
                                                 ELSE ChannelCallback(c)
  BY <1>5, CallbackTypes DEF Objects
<1> QED
  BY <1>1, <1>2, <1>3, <1>4, <1>5 DEF Worker

LEMMA TypeNext == TypeInv /\ [Next]_vars => TypeInv'
<1> SUFFICES ASSUME TypeInv, [Next]_vars PROVE TypeInv'
  OBVIOUS
<1>1. CASE \E c \in Calls : EchoWakes(c)
  BY <1>1 DEF EchoWakes, TypeInv, TypeOK, Working, mainVars, objVars, loopVars
<1>2. CASE UNCHANGED vars
  BY <1>2 DEF vars, TypeInv, TypeOK, Working, mainVars, objVars, loopVars, callVars
<1> QED
  BY <1>1, <1>2, MainTypes, WorkerTypes DEF Next

(* Every variable of the two objects' lives stays in its type, and no       *)
(* callback finds a call again whose closure has run.                       *)
THEOREM LifeTypeCorrect == Spec => []TypeOK
<1>1. TypeInv => TypeOK
  BY DEF TypeInv
<1> QED
  BY <1>1, TypeInit, TypeNext, PTL DEF Spec

-----------------------------------------------------------------------------
(* The destructor and the thread *)

LEMMA LifeInit == Init => LifeInv
  BY DEF Init, LifeInv, BeforeBirth, Announced, FreedAfterWorker, Constructed,
         Objects

LEMMA MainLife ==
  TypeOK /\ LifeInv /\ (Main \/ Delete) => LifeInv'
<1> SUFFICES ASSUME TypeOK, LifeInv, Main \/ Delete
             PROVE  LifeInv'
  OBVIOUS
<1> USE DEF TypeOK, LifeInv, BeforeBirth, Announced, FreedAfterWorker,
            Constructed, Set, Objects, mainVars, objVars, loopVars, callVars
<1>1. CASE CreateThread
  BY <1>1 DEF CreateThread
<1>2. CASE StoreThreadid
  BY <1>2 DEF StoreThreadid, ReturnedThread
<1>3. CASE Loopbreak
  BY <1>3 DEF Loopbreak
<1>4. CASE Free
  BY <1>4 DEF Free, ThreadGone
<1>5. CASE Delete
  BY <1>5 DEF Delete
<1> QED
  BY <1>1, <1>2, <1>3, <1>4, <1>5 DEF Main

LEMMA WorkerLife ==
  ASSUME TypeOK, LifeInv, NEW o \in Objects, Worker(o)
  PROVE  LifeInv'
<1> USE DEF TypeOK, LifeInv, BeforeBirth, Announced, FreedAfterWorker,
            Constructed, Set, mainVars, objVars, loopVars, callVars
<1>1. CASE Dispatch(o)
  BY <1>1 DEF Dispatch
<1>2. CASE LoopEnds(o)
  BY <1>2 DEF LoopEnds
<1>3. CASE WorkerEnds(o)
  BY <1>3 DEF WorkerEnds, ClearThreadid
<1>4. CASE \E c \in Calls : BeginCallback(o, c)
  BY <1>4 DEF BeginCallback
<1>5. CASE \E c \in working[o] : IF o = "server" THEN ServerCallback(c)
                                                 ELSE ChannelCallback(c)
  BY <1>5 DEF ServerCallback, ChannelCallback, EndCallback, Objects
<1> QED
  BY <1>1, <1>2, <1>3, <1>4, <1>5 DEF Worker

LEMMA LifeNext == TypeInv /\ LifeInv /\ [Next]_vars => LifeInv'
<1> SUFFICES ASSUME TypeOK, LifeInv, [Next]_vars PROVE LifeInv'
  BY DEF TypeInv
<1>1. CASE \E c \in Calls : CallMethod(c) \/ EchoWakes(c)
  BY <1>1 DEF CallMethod, EchoWakes, LifeInv, BeforeBirth, Announced,
              FreedAfterWorker, Constructed, mainVars, objVars, loopVars
<1>2. CASE UNCHANGED vars
  BY <1>2 DEF vars, LifeInv, BeforeBirth, Announced, FreedAfterWorker,
              Constructed, mainVars, objVars, loopVars
<1> QED
  BY <1>1, <1>2, MainLife, WorkerLife DEF Next

(* The destructors never free an object, or its event base, under a thread  *)
(* that can still get at it, however creation, dispatch and deletion race:  *)
(* m_threadid may say that a thread runs that does not, never the contrary. *)
THEOREM FreedLast == Spec => []FreedAfterWorker
<1>1. LifeInv => FreedAfterWorker
  BY DEF LifeInv
<1> QED
  BY <1>1, TypeInit, TypeNext, LifeInit, LifeNext, PTL DEF Spec
=============================================================================
