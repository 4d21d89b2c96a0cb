------------------------------- MODULE Lifecycle -------------------------------
(***************************************************************************)
(* How a server and a channel come and go: the constructors of RpcServer   *)
(* and RpcChannelImpl start a thread on worker, the destructors stop it,   *)
(* and main.cpp constructs both, makes calls of Echo, and deletes first    *)
(* the server and then the channel, whatever is still going on.            *)
(*                                                                         *)
(* The classes do the same with m_base and m_threadid.  What a loop does   *)
(* is reduced to callbacks that move a call along, each of which has the   *)
(* object in its hands while it runs; RpcChannel and RpcServer have the    *)
(* rest.                                                                   *)
(***************************************************************************)
EXTENDS Naturals, FiniteSets

CONSTANTS
  Calls,           \* calls of Echo that main makes
  ThreadsMayFail,  \* whether sys_os_create_thread may return 0
  DispatchMayFail  \* whether event_base_dispatch may return an error

Objects == {"server", "channel"}

ASSUME LifecycleAssumption ==
  /\ IsFiniteSet(Calls)
  /\ {ThreadsMayFail, DispatchMayFail} \subseteq BOOLEAN

VARIABLES
  stage, obj,     \* what main is doing, and to which object
  returned,       \* what sys_os_create_thread returned: 0 or not
  memory,         \* of each object and its event_base
  m_threadid,     \* of each object: 0 or not
  break,          \* event_base's event_break
  worker,         \* where the thread of each object is
  working,        \* the call its callback is working on
  request,        \* where the request of a call and its answer are
  echo,           \* where the echo_worker of a call is
  done            \* how often the closure of a call ran

mainVars == <<stage, obj, returned>>
objVars  == <<memory, m_threadid, break>>
loopVars == <<worker, working>>
callVars == <<request, echo, done>>
vars == <<mainVars, objVars, loopVars, callVars>>

Set(f, o, v) == [f EXCEPT ![o] = v]

Init ==
  /\ stage = "create" /\ obj = "server" /\ returned = FALSE
  /\ memory = [o \in Objects |-> "none"]
  /\ m_threadid = [o \in Objects |-> FALSE]
  /\ break = [o \in Objects |-> FALSE]
  /\ worker = [o \in Objects |-> "unborn"]
  /\ working = [o \in Objects |-> {}]
  /\ request = [c \in Calls |-> "none"]
  /\ echo = [c \in Calls |-> "unborn"]
  /\ done = [c \in Calls |-> 0]

-----------------------------------------------------------------------------
(* The constructors and the destructors, on main's thread. *)

(* From here on the thread runs, while m_threadid is still 0.               *)
CreateThread ==
  /\ stage = "create"
  /\ memory' = Set(memory, obj, "allocated")
  /\ \/ /\ returned' = TRUE
        /\ worker' = Set(worker, obj, "started")
     \/ /\ ThreadsMayFail
        /\ returned' = FALSE
        /\ UNCHANGED worker
  /\ stage' = "store"
  /\ UNCHANGED <<obj, m_threadid, break, working, callVars>>

ReturnedAlways == TRUE    \* mutant: a failed CreateThread is not noticed
ReturnedThread == returned

StoreThreadid ==
  /\ stage = "store"
  /\ m_threadid' = Set(m_threadid, obj, ReturnedThread)
  /\ IF obj = "server" THEN stage' = "create" /\ obj' = "channel"
                       ELSE stage' = "run" /\ UNCHANGED obj
  /\ UNCHANGED <<returned, memory, break, loopVars, callVars>>

(* main sleeps for three seconds first; whether that is enough for the      *)
(* loops to run is left open, here and for Delete.                          *)
CallMethod(c) ==
  /\ stage = "run"
  /\ request[c] = "none"
  /\ request' = [request EXCEPT ![c] = "sent"]
  /\ UNCHANGED <<mainVars, objVars, loopVars, echo, done>>

Delete ==
  /\ stage = "run"
  /\ stage' = "break" /\ obj' = "server"
  /\ UNCHANGED <<returned, objVars, loopVars, callVars>>

Loopbreak ==
  /\ stage = "break"
  /\ break' = Set(break, obj, TRUE)
  /\ stage' = "wait"
  /\ UNCHANGED <<obj, returned, memory, m_threadid, loopVars, callVars>>

NobodyWaits == TRUE    \* mutant: the destructor does not wait
ThreadGone == ~m_threadid[obj]

(* while (m_threadid != 0) ends, then timers, bufferevent or listener, and  *)
(* the base are freed.  The server's bufferevents are not.                  *)
Free ==
  /\ stage = "wait"
  /\ ThreadGone
  /\ memory' = Set(memory, obj, "freed")
  /\ IF obj = "server" THEN stage' = "break" /\ obj' = "channel"
                       ELSE stage' = "end" /\ UNCHANGED obj
  /\ UNCHANGED <<returned, m_threadid, break, loopVars, callVars>>

-----------------------------------------------------------------------------
(* worker *)

(* event_base_dispatch begins with event_break = 0.                         *)
Dispatch(o) ==
  /\ worker[o] = "started"
  /\ worker' = Set(worker, o, "looping")
  /\ break' = Set(break, o, FALSE)
  /\ UNCHANGED <<mainVars, memory, m_threadid, working, callVars>>

LoopEnds(o) ==
  /\ \/ worker[o] = "looping" /\ break[o]
     \/ worker[o] \in {"started", "looping"} /\ DispatchMayFail
  /\ worker' = Set(worker, o, "leaving")
  /\ UNCHANGED <<mainVars, objVars, working, callVars>>

KeepThreadid(o) == UNCHANGED m_threadid   \* mutant: worker leaves it alone
ClearThreadid(o) == m_threadid' = Set(m_threadid, o, FALSE)

WorkerEnds(o) ==
  /\ worker[o] = "leaving"
  /\ worker' = Set(worker, o, "exited")
  /\ ClearThreadid(o)
  /\ UNCHANGED <<mainVars, memory, break, working, callVars>>

(* What a callback may have to do: a request at the server, an answer or a  *)
(* call past its timeout at the channel.                                    *)
Due(o) == {c \in Calls : IF o = "server" THEN request[c] = "sent"
                         ELSE request[c] # "none" /\ done[c] = 0}

BeginCallback(o, c) ==
  /\ worker[o] = "looping" /\ ~break[o]
  /\ c \in Due(o)
  /\ worker' = Set(worker, o, "callback")
  /\ working' = Set(working, o, {c})
  /\ UNCHANGED <<mainVars, objVars, callVars>>

EndCallback(o) ==
  /\ worker[o] = "callback"
  /\ worker' = Set(worker, o, "looping")
  /\ working' = Set(working, o, {})

(* decode, and EchoServiceImpl::Echo, whose thread may not start.           *)
ServerCallback(c) ==
  /\ working["server"] = {c}
  /\ EndCallback("server")
  /\ request' = [request EXCEPT ![c] = "received"]
  /\ \/ echo' = [echo EXCEPT ![c] = "sleep"]
     \/ ThreadsMayFail /\ UNCHANGED echo
  /\ UNCHANGED <<mainVars, objVars, done>>

RunDone(c) == done' = [done EXCEPT ![c] = @ + 1]

(* decode, or the sweep when there is no answer. *)
ChannelCallback(c) ==
  /\ working["channel"] = {c}
  /\ EndCallback("channel")
  /\ RunDone(c)
  /\ UNCHANGED <<mainVars, objVars, request, echo>>

-----------------------------------------------------------------------------
(* echo_worker: nobody waits for its thread. *)

EchoWakes(c) ==
  /\ echo[c] = "sleep"
  /\ echo' = [echo EXCEPT ![c] = "exited"]
  /\ request' = [request EXCEPT ![c] = "answered"]
  /\ UNCHANGED <<mainVars, objVars, loopVars, done>>

(* What main does without being told to. *)
Main == CreateThread \/ StoreThreadid \/ Loopbreak \/ Free

Worker(o) ==
  \/ Dispatch(o) \/ LoopEnds(o) \/ WorkerEnds(o)
  \/ \E c \in Calls : BeginCallback(o, c)
  \/ \E c \in working[o] : IF o = "server" THEN ServerCallback(c)
                                           ELSE ChannelCallback(c)

Next ==
  \/ Main \/ Delete
  \/ \E o \in Objects : Worker(o)
  \/ \E c \in Calls : CallMethod(c) \/ EchoWakes(c)

Spec == Init /\ [][Next]_vars

(* Threads are scheduled.  Deleting takes a key press (main.cpp: getchar).  *)
Fairness == WF_vars(Main) /\ \A o \in Objects : WF_vars(Worker(o))

FairSpec == Spec /\ Fairness

-----------------------------------------------------------------------------
(* Properties *)

(* Every variable stays in its type; no closure is run twice. *)
TypeOK ==
  /\ stage \in {"create", "store", "run", "break", "wait", "end"}
  /\ obj \in Objects /\ returned \in BOOLEAN
  /\ memory \in [Objects -> {"none", "allocated", "freed"}]
  /\ m_threadid \in [Objects -> BOOLEAN]
  /\ break \in [Objects -> BOOLEAN]
  /\ worker \in [Objects -> {"unborn", "started", "looping", "callback",
                            "leaving", "exited"}]
  /\ working \in [Objects -> SUBSET Calls]
  /\ request \in [Calls -> {"none", "sent", "received", "answered"}]
  /\ echo \in [Calls -> {"unborn", "sleep", "exited"}]
  /\ done \in [Calls -> {0, 1}]

(* Neither class frees its members or its base while its thread can still   *)
(* get at them: before dispatch, in the loop, in a callback, or on its way  *)
(* to m_threadid.                                                           *)
FreedAfterWorker ==
  \A o \in Objects :
    memory[o] = "freed" => worker[o] \in {"unborn", "exited"}

(* Every worker that was started is in its loop, or has left it after its   *)
(* m_threadid was stored.                                                   *)
LoopsRan ==
  \A o \in Objects :
    worker[o] # "started" /\ (worker[o] = "exited" => ~m_threadid[o])

(* When main's sleep was long enough both destructors return, whatever      *)
(* threads and dispatches failed: neither waits for a thread that does not  *)
(* run, nor for one that was not told.                                      *)
DestructorsReturn == (stage = "break" /\ obj = "server" /\ LoopsRan) ~> stage = "end"

(* event_base_loopbreak came before event_base_dispatch and is forgotten.   *)
BreakForgotten ==
  /\ stage = "wait"
  /\ worker[obj] \in {"looping", "callback"} /\ ~break[obj]

(* The constructor stored m_threadid after worker had set it to 0.          *)
ThreadidStale ==
  stage = "wait" /\ worker[obj] = "exited" /\ m_threadid[obj]

(* In every case the destructors return, except in these two; each takes a  *)
(* start that is overtaken by the destructor or by the end of the thread.   *)
ReturnUnlessOvertaken ==
  stage = "break" ~> (stage = "end" \/ BreakForgotten \/ ThreadidStale)

-----------------------------------------------------------------------------
(* What documents and programs of the repository say, and the code does not *)
(* do: each is checked by a run that finds it violated.                     *)

(* service.h: "done" will be called when the method is complete, now or at  *)
(* some point in the future; so not never.                                  *)
NoCallDropped ==
  memory["channel"] = "freed" =>
    \A c \in Calls : request[c] # "none" => done[c] = 1

(* main.cpp deletes the server after its calls: no echo_worker then still   *)
(* has a closure that answers through a bufferevent of the freed base.      *)
NoEchoOnFreedBase ==
  memory["server"] = "freed" => \A c \in Calls : echo[c] # "sleep"
=============================================================================
