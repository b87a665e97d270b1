------------------------------- MODULE Monitor -------------------------------
(***************************************************************************)
(* What the thread library promises its clients: threads, mutexes and      *)
(* condition variables whose operations take effect at once.  A thread     *)
(* that was created and has not finished can run or waits in the queue of  *)
(* one object.  Nothing here knows of CPUs, interrupts, the guard, stacks  *)
(* or the order in which runnable threads get a CPU.                       *)
(***************************************************************************)
EXTENDS Naturals, Sequences

CONSTANTS
    Threads,     \* all threads there may be
    Mutexes,     \* mutex objects
    CVs,         \* cv objects
    MainThread,  \* the thread the program starts with
    None         \* no thread, no mutex

Objects == Mutexes \cup CVs \cup Threads

VARIABLES
    life,      \* each thread: "new", "live" or "finished"
    runnable,  \* the threads that have, or wait for, a CPU
    owner,     \* the owner of each mutex
    queue,     \* the threads that wait for each object, longest first
    relock     \* the mutex a thread has to lock before its cv::wait returns

vars == <<life, runnable, owner, queue, relock>>

Init ==
    /\ life = [t \in Threads |-> "new"]
    /\ runnable = {}
    /\ owner = [m \in Mutexes |-> None]
    /\ queue = [o \in Objects |-> <<>>]
    /\ relock = [t \in Threads |-> None]

Calls(t) == t \in runnable /\ relock[t] = None

First(o) == IF queue[o] = <<>> THEN <<>> ELSE <<Head(queue[o])>>
Rest(o) == IF queue[o] = <<>> THEN <<>> ELSE Tail(queue[o])
All(s) == {s[i] : i \in DOMAIN s}

HandOver(m) == owner' = [owner EXCEPT ![m] = IF queue[m] = <<>> THEN None ELSE Head(queue[m])]

-----------------------------------------------------------------------------
Start ==
    /\ life[MainThread] = "new"
    /\ life' = [life EXCEPT ![MainThread] = "live"]
    /\ runnable' = runnable \cup {MainThread}
    /\ UNCHANGED <<owner, queue, relock>>

Create(t, u) ==
    /\ Calls(t) /\ life[u] = "new" /\ u # MainThread
    /\ life' = [life EXCEPT ![u] = "live"]
    /\ runnable' = runnable \cup {u}
    /\ UNCHANGED <<owner, queue, relock>>

(* Wait for the end of a thread that has not ended. *)
Join(t, u) ==
    /\ Calls(t) /\ life[u] = "live"
    /\ queue' = [queue EXCEPT ![u] = Append(@, t)]
    /\ runnable' = runnable \ {t}
    /\ UNCHANGED <<life, owner, relock>>

Lock(t, m) ==
    /\ t \in runnable /\ relock[t] \in {None, m}
    /\ \/ /\ owner[m] = None
          /\ owner' = [owner EXCEPT ![m] = t]
          /\ UNCHANGED <<queue, runnable>>
       \/ /\ owner[m] # None
          /\ queue' = [queue EXCEPT ![m] = Append(@, t)]
          /\ runnable' = runnable \ {t}
          /\ UNCHANGED owner
    /\ relock' = [relock EXCEPT ![t] = None]
    /\ UNCHANGED life

Unlock(t, m) ==
    /\ Calls(t) /\ owner[m] = t
    /\ HandOver(m)
    /\ queue' = [queue EXCEPT ![m] = Rest(m)]
    /\ runnable' = runnable \cup All(First(m))
    /\ UNCHANGED <<life, relock>>

Wait(t, v, m) ==
    /\ Calls(t) /\ owner[m] = t
    /\ HandOver(m)
    /\ queue' = [queue EXCEPT ![m] = Rest(m), ![v] = Append(@, t)]
    /\ runnable' = (runnable \ {t}) \cup All(First(m))
    /\ relock' = [relock EXCEPT ![t] = m]
    /\ UNCHANGED life

Signal(t, v) ==
    /\ Calls(t)
    /\ queue' = [queue EXCEPT ![v] = Rest(v)]
    /\ runnable' = runnable \cup All(First(v))
    /\ UNCHANGED <<life, owner, relock>>

Broadcast(t, v) ==
    /\ Calls(t)
    /\ queue' = [queue EXCEPT ![v] = <<>>]
    /\ runnable' = runnable \cup All(queue[v])
    /\ UNCHANGED <<life, owner, relock>>

Finish(t) ==
    /\ Calls(t)
    /\ life' = [life EXCEPT ![t] = "finished"]
    /\ queue' = [queue EXCEPT ![t] = <<>>]
    /\ runnable' = (runnable \ {t}) \cup All(queue[t])
    /\ UNCHANGED <<owner, relock>>

Next ==
    \/ Start
    \/ \E t \in Threads :
         \/ \E u \in Threads : Create(t, u) \/ Join(t, u)
         \/ \E m \in Mutexes : Lock(t, m) \/ Unlock(t, m)
         \/ \E v \in CVs : Signal(t, v) \/ Broadcast(t, v) \/ \E m \in Mutexes : Wait(t, v, m)
         \/ Finish(t)

Spec == Init /\ [][Next]_vars
=============================================================================
