------------------------------ MODULE ThreadLib ------------------------------
(***************************************************************************)
(* The user-level thread library of threadlib/: threads, mutexes and       *)
(* condition variables multiplexed on several simulated CPUs.              *)
(*                                                                         *)
(* Every entry point of the library runs under os_guard: it disables       *)
(* interrupts on its CPU and spins on the one global atomic cpu::guard, so *)
(* the body of an operation is one step that takes the guard.  What is     *)
(* NOT atomic with the body is modelled by steps of its own: the           *)
(* swapcontext that leaves the old stack (Switch), the release of the      *)
(* guard by whichever context runs next on that CPU (ReleaseGuard), and    *)
(* the idle loop of a CPU without work (IdleLoop, Suspend, WakeUp,         *)
(* IdleEnter).  User code is the most general client: a running thread may *)
(* call any operation with any argument at any moment, misuse included.    *)
(***************************************************************************)
EXTENDS Naturals, FiniteSets, SequencesExt

CONSTANTS
    Threads,     \* identities of thread_info objects (never reused)
    CPUs,        \* the simulated processors
    Mutexes,     \* mutex objects of the application
    CVs,         \* cv objects of the application
    MainThread,  \* the thread cpu::boot creates on BootCpu
    BootCpu,     \* the CPU whose constructor is given a function to run
    Idle,        \* executing_thread of a CPU that runs its own waiting_thread
    None         \* no thread, no mutex (an empty pointer)

(***************************************************************************)
(* Objects that keep a queue of waiting threads: mutex::waiting_threads,   *)
(* cv::waiting_threads and thread_info::threads_waiting.                   *)
(***************************************************************************)
Objects == Mutexes \cup CVs \cup Threads

ASSUME ConstantsAssumption ==
    /\ MainThread \in Threads /\ BootCpu \in CPUs
    /\ Mutexes \cap CVs = {} /\ Mutexes \cap Threads = {} /\ CVs \cap Threads = {}
    /\ Idle \notin Threads \cup {None}
    /\ None \notin Threads \cup Mutexes

(* A machine has finitely many CPUs. *)
ASSUME CpusAssumption == IsFiniteSet(CPUs)

VARIABLES
    guard,             \* cpu::guard, the global spin lock
    pc,                \* where each CPU is in the library, see PCs
    executing_thread,  \* cpu::executing_thread, Idle for the waiting_thread
    stack,             \* the thread whose stack the CPU really runs on
    ready_threads,     \* cpu::ready_threads
    suspended_cpus,    \* cpu::suspended_cpus
    ipi,               \* CPUs with an inter-processor interrupt pending
    finished_threads,  \* cpu::finished_threads, stacks waiting to be freed
    life,              \* lifetime of each thread_info, see Lives
    free,              \* mutex::free
    owned_thread,      \* mutex::owned_thread
    waiting_threads,   \* the waiting queue of each object
    locking,           \* the mutex a thread is inside mutex::lock for
    relock,            \* the mutex a thread inside cv::wait has to lock again
    held               \* the mutexes a thread's lock() calls have returned for

wakeVars == <<suspended_cpus, ipi>>
lifeVars == <<finished_threads, life>>
mutexVars == <<free, owned_thread>>
callVars == <<locking, relock, held>>
vars == <<guard, pc, executing_thread, stack, ready_threads, waiting_threads,
          wakeVars, lifeVars, mutexVars, callVars>>

(***************************************************************************)
(* A CPU is booting, in user code ("user"), in the idle loop with the      *)
(* guard ("idle") or without it ("suspending", "suspended", "woken"), or   *)
(* inside an operation and holding the guard, before ("switch") or after   *)
(* ("locked") its swapcontext.  Interrupts are enabled exactly in "user",  *)
(* "suspended" and "woken".                                                *)
(***************************************************************************)
PCs == {"boot", "user", "switch", "locked", "idle",
        "suspending", "suspended", "woken"}
HoldsGuard(c) == pc[c] \in {"switch", "locked", "idle"}

(* thread_info: not yet created, running or blocked, finished (stack still *)
(* allocated, in finished_threads), deallocated (thread::info expired).    *)
Lives == {"new", "live", "finished", "freed"}

Init ==
    /\ guard = FALSE
    /\ pc = [c \in CPUs |-> "boot"]
    /\ executing_thread = [c \in CPUs |-> None]
    /\ stack = [c \in CPUs |-> None]
    /\ ready_threads = <<>>
    /\ suspended_cpus = <<>>
    /\ ipi = {}
    /\ finished_threads = <<>>
    /\ life = [t \in Threads |-> "new"]
    /\ free = [m \in Mutexes |-> TRUE]
    /\ owned_thread = [m \in Mutexes |-> None]
    /\ waiting_threads = [o \in Objects |-> <<>>]
    /\ locking = [t \in Threads |-> None]
    /\ relock = [t \in Threads |-> None]
    /\ held = [t \in Threads |-> {}]

-----------------------------------------------------------------------------
(* Fragments shared by the operations.                                     *)

(* os_guard::os_guard -- spin until guard.exchange(true) returns false.    *)
AcquireGuard == ~guard /\ guard' = TRUE

(* A thread in user code, not on its way back into a mutex from cv::wait,  *)
(* calls an operation of the library.                                      *)
Call(c) ==
    /\ pc[c] = "user"
    /\ relock[executing_thread[c]] = None
    /\ AcquireGuard

(* The operation returns to its caller without a context switch. *)
Return(c) ==
    /\ pc' = [pc EXCEPT ![c] = "locked"]
    /\ UNCHANGED executing_thread

(* push_and_signal, n times: every thread made ready takes one CPU off     *)
(* suspended_cpus, if there is one, and sends it an interrupt.             *)
CpusToWake(n) == IF n < Len(suspended_cpus) THEN n ELSE Len(suspended_cpus)

(* Mutant: a thread is made ready and no suspended CPU is interrupted. *)
NoIpiMutant(n) == UNCHANGED wakeVars

SignalCpus(n) ==
    /\ suspended_cpus' = SubSeq(suspended_cpus, CpusToWake(n) + 1, Len(suspended_cpus))
    /\ ipi' = ipi \cup {suspended_cpus[i] : i \in 1 .. CpusToWake(n)}

(* Mutant: the front of the ready queue is run but not popped. *)
KeepFrontMutant(rq) == rq

(* ready_threads.pop(), after front() *)
Popped(rq) == IF rq = <<>> THEN rq ELSE Tail(rq)

(* wait_and_pop, with rq the ready queue it finds: run the first ready     *)
(* thread, or the CPU's own waiting_thread when there is none.             *)
WaitAndPop(c, rq) ==
    /\ pc' = [pc EXCEPT ![c] = "switch"]
    /\ executing_thread' = [executing_thread EXCEPT ![c] =
                              IF rq = <<>> THEN Idle ELSE Head(rq)]
    /\ ready_threads' = Popped(rq)

(* mutex::unlock_mutex: the caller must own the mutex.  The first waiting  *)
(* thread, if any, becomes the owner at once and is made ready.            *)
Owns(t, m) == ~free[m] /\ owned_thread[m] = t

HandedTo(m) == IF waiting_threads[m] = <<>> THEN <<>> ELSE <<Head(waiting_threads[m])>>

(* Mutant: the mutex handed to a waiter stays marked free. *)
HandOffStaysFreeMutant(m) == TRUE

FreeAfter(m) == waiting_threads[m] = <<>>

UnlockMutex(m) ==
    /\ free' = [free EXCEPT ![m] = FreeAfter(m)]
    /\ owned_thread' = [owned_thread EXCEPT ![m] =
                          IF waiting_threads[m] = <<>> THEN None
                          ELSE Head(waiting_threads[m])]

AfterHandOff(m) == Popped(waiting_threads[m])

-----------------------------------------------------------------------------
(* cpu::cpu -- one CPU is given the main thread, the others go and look    *)
(* for ready threads.                                                      *)
Boot(c) ==
    /\ pc[c] = "boot"
    /\ AcquireGuard
    /\ \/ /\ c = BootCpu
          /\ life' = [life EXCEPT ![MainThread] = "live"]
          /\ executing_thread' = [executing_thread EXCEPT ![c] = MainThread]
          /\ pc' = [pc EXCEPT ![c] = "switch"]
          /\ UNCHANGED ready_threads
       \/ /\ c # BootCpu
          /\ WaitAndPop(c, ready_threads)
          /\ UNCHANGED life
    /\ UNCHANGED <<stack, waiting_threads, wakeVars, finished_threads,
                   mutexVars, callVars>>

(* thread::thread -- the new thread is made ready. *)
Create(c, t) ==
    /\ Call(c)
    /\ life[t] = "new" /\ t # MainThread
    /\ life' = [life EXCEPT ![t] = "live"]
    /\ ready_threads' = Append(ready_threads, t)
    /\ SignalCpus(1)
    /\ Return(c)
    /\ UNCHANGED <<stack, waiting_threads, finished_threads, mutexVars,
                   callVars>>

(* Mutants of yield's early returns: without the test for the CPU's own    *)
(* waiting_thread; returning also when another thread is ready.            *)
YieldIdleMutant(c) == ready_threads = <<>>
YieldNobodyMutant(c) == TRUE

KeepsRunning(c) == executing_thread[c] = Idle \/ ready_threads = <<>>

(* thread::yield, called by a thread or by timer_interrupt_handler.  The   *)
(* timer may interrupt a thread between the two halves of cv::wait, and a  *)
(* CPU that was just woken in its idle loop.                               *)
Yield(c) ==
    /\ pc[c] \in {"user", "woken"}
    /\ AcquireGuard
    /\ \/ /\ KeepsRunning(c)
          /\ Return(c)
          /\ UNCHANGED ready_threads
       \/ /\ ~KeepsRunning(c)
          /\ ready_threads' = Tail(Append(ready_threads, executing_thread[c]))
          /\ executing_thread' = [executing_thread EXCEPT ![c] = Head(ready_threads)]
          /\ pc' = [pc EXCEPT ![c] = "switch"]
    /\ UNCHANGED <<stack, waiting_threads, wakeVars, lifeVars, mutexVars,
                   callVars>>

(* Mutant: join without the test of thread_info::finished. *)
JoinFinishedMutant(t) == FALSE

HasFinished(t) == life[t] \in {"finished", "freed"}

(* thread::join on a thread object whose thread_info is t; the main thread *)
(* has no thread object.                                                   *)
Join(c, t) ==
    /\ Call(c)
    /\ life[t] # "new" /\ t # MainThread
    /\ \/ /\ HasFinished(t)
          /\ Return(c)
          /\ UNCHANGED <<ready_threads, waiting_threads>>
       \/ /\ ~HasFinished(t)
          /\ waiting_threads' = [waiting_threads EXCEPT ![t] =
                                   Append(@, executing_thread[c])]
          /\ WaitAndPop(c, ready_threads)
    /\ UNCHANGED <<stack, wakeVars, lifeVars, mutexVars, callVars>>

(* mutex::lock, called by user code or by cv::wait on its way out. *)
Lock(c, m) ==
    LET t == executing_thread[c] IN
    /\ pc[c] = "user"
    /\ relock[t] \in {None, m}
    /\ AcquireGuard
    /\ \/ /\ free[m]
          /\ free' = [free EXCEPT ![m] = FALSE]
          /\ owned_thread' = [owned_thread EXCEPT ![m] = t]
          /\ Return(c)
          /\ UNCHANGED <<ready_threads, waiting_threads>>
       \/ /\ ~free[m]
          /\ waiting_threads' = [waiting_threads EXCEPT ![m] = Append(@, t)]
          /\ WaitAndPop(c, ready_threads)
          /\ UNCHANGED <<mutexVars>>
    /\ locking' = [locking EXCEPT ![t] = m]
    /\ relock' = [relock EXCEPT ![t] = None]
    /\ UNCHANGED <<stack, wakeVars, lifeVars, held>>

(* mutex::unlock -- throws, changing nothing, unless the caller is the     *)
(* owner.                                                                  *)
Unlock(c, m) ==
    LET t == executing_thread[c] IN
    /\ Call(c)
    /\ \/ /\ Owns(t, m)
          /\ UnlockMutex(m)
          /\ waiting_threads' = [waiting_threads EXCEPT ![m] = AfterHandOff(m)]
          /\ ready_threads' = ready_threads \o HandedTo(m)
          /\ SignalCpus(Len(HandedTo(m)))
          /\ held' = [held EXCEPT ![t] = @ \ {m}]
       \/ /\ ~Owns(t, m)
          /\ UNCHANGED <<ready_threads, waiting_threads, wakeVars, mutexVars,
                         held>>
    /\ Return(c)
    /\ UNCHANGED <<stack, lifeVars, locking, relock>>

(* cv::wait, up to the point where the thread is switched away: unlock the *)
(* mutex, join the cv's queue.  The mutex is locked again by Lock.         *)
Wait(c, v, m) ==
    LET t == executing_thread[c] IN
    /\ Call(c)
    /\ \/ /\ Owns(t, m)
          /\ UnlockMutex(m)
          /\ waiting_threads' = [waiting_threads EXCEPT ![m] = AfterHandOff(m),
                                                        ![v] = Append(@, t)]
          /\ SignalCpus(Len(HandedTo(m)))
          /\ WaitAndPop(c, ready_threads \o HandedTo(m))
          /\ held' = [held EXCEPT ![t] = @ \ {m}]
          /\ relock' = [relock EXCEPT ![t] = m]
       \/ /\ ~Owns(t, m)
          /\ Return(c)
          /\ UNCHANGED <<ready_threads, waiting_threads, wakeVars, mutexVars,
                         relock, held>>
    /\ UNCHANGED <<stack, lifeVars, locking>>

(* cv::signal -- the longest waiting thread, if any, is made ready. *)
Signal(c, v) ==
    /\ Call(c)
    /\ ready_threads' = ready_threads \o HandedTo(v)
    /\ waiting_threads' = [waiting_threads EXCEPT ![v] = AfterHandOff(v)]
    /\ SignalCpus(Len(HandedTo(v)))
    /\ Return(c)
    /\ UNCHANGED <<stack, lifeVars, mutexVars, callVars>>

(* Mutant: broadcast empties the queue and makes only its front ready. *)
BroadcastOneMutant(v) == HandedTo(v)

Drained(o) == waiting_threads[o]

(* cv::broadcast -- all waiting threads are made ready, in order. *)
Broadcast(c, v) ==
    /\ Call(c)
    /\ ready_threads' = ready_threads \o Drained(v)
    /\ waiting_threads' = [waiting_threads EXCEPT ![v] = <<>>]
    /\ SignalCpus(Len(Drained(v)))
    /\ Return(c)
    /\ UNCHANGED <<stack, lifeVars, mutexVars, callVars>>

(* Mutant: the finishing thread is put on finished_threads before that     *)
(* queue is emptied, so it frees the stack it runs on.                     *)
FreeOwnStackMutant(t) == [life EXCEPT ![t] = "freed"]

LifeAfterFinish(t) ==
    [u \in Threads |-> IF u = t THEN "finished"
                       ELSE IF u \in ToSet(finished_threads) THEN "freed"
                       ELSE life[u]]

(* The end of thread::func_with_swap: free the stacks of threads that      *)
(* finished before, make the joining threads ready, hand the own stack to  *)
(* the next thread that finishes.                                          *)
Finish(c) ==
    LET t == executing_thread[c] IN
    /\ Call(c)
    /\ life' = LifeAfterFinish(t)
    /\ finished_threads' = <<t>>
    /\ waiting_threads' = [waiting_threads EXCEPT ![t] = <<>>]
    /\ SignalCpus(Len(Drained(t)))
    /\ WaitAndPop(c, ready_threads \o Drained(t))
    /\ UNCHANGED <<stack, mutexVars, callVars>>

-----------------------------------------------------------------------------
(* The steps between the bodies of the operations.                         *)

(* swapcontext or setcontext: the CPU leaves its old stack. *)
Switch(c) ==
    /\ pc[c] = "switch"
    /\ stack' = [stack EXCEPT ![c] = executing_thread[c]]
    /\ pc' = [pc EXCEPT ![c] = IF executing_thread[c] = Idle THEN "idle" ELSE "locked"]
    /\ UNCHANGED <<guard, executing_thread, ready_threads, waiting_threads,
                   wakeVars, lifeVars, mutexVars, callVars>>

(* os_guard::~os_guard, or the first lines of func_with_swap in a thread   *)
(* that runs for the first time: release the guard, enable interrupts and  *)
(* go on in the running context.  A thread inside mutex::lock returns.     *)
ReleaseGuard(c) ==
    LET t == executing_thread[c] IN
    /\ pc[c] = "locked"
    /\ guard' = FALSE
    /\ \/ /\ t = Idle
          /\ pc' = [pc EXCEPT ![c] = "woken"]
          /\ UNCHANGED <<locking, held>>
       \/ /\ t # Idle
          /\ pc' = [pc EXCEPT ![c] = "user"]
          /\ held' = [held EXCEPT ![t] = @ \cup ({locking[t]} \ {None})]
          /\ locking' = [locking EXCEPT ![t] = None]
    /\ UNCHANGED <<executing_thread, stack, ready_threads, waiting_threads,
                   wakeVars, lifeVars, mutexVars, relock>>

(* wait_for_ready_thread with the guard held: take a ready thread, or      *)
(* announce the CPU as suspended and release the guard.                    *)
IdleLoop(c) ==
    /\ pc[c] = "idle"
    /\ \/ /\ ready_threads # <<>>
          /\ WaitAndPop(c, ready_threads)
          /\ UNCHANGED <<guard, suspended_cpus>>
       \/ /\ ready_threads = <<>>
          /\ suspended_cpus' = Append(suspended_cpus, c)
          /\ guard' = FALSE
          /\ pc' = [pc EXCEPT ![c] = "suspending"]
          /\ UNCHANGED <<executing_thread, ready_threads>>
    /\ UNCHANGED <<stack, waiting_threads, ipi, lifeVars, mutexVars,
                   callVars>>

(* cpu::interrupt_enable_suspend: enable interrupts and suspend.           *)
Suspend(c) ==
    /\ pc[c] = "suspending"
    /\ pc' = [pc EXCEPT ![c] = "suspended"]
    /\ UNCHANGED <<guard, executing_thread, stack, ready_threads,
                   waiting_threads, wakeVars, lifeVars, mutexVars, callVars>>

(* An inter-processor interrupt, possibly one saved while interrupts were  *)
(* disabled, ends the suspension; ipi_interrupt_handler does nothing.      *)
WakeUp(c) ==
    /\ pc[c] = "suspended" /\ c \in ipi
    /\ ipi' = ipi \ {c}
    /\ pc' = [pc EXCEPT ![c] = "woken"]
    /\ UNCHANGED <<guard, executing_thread, stack, ready_threads,
                   waiting_threads, suspended_cpus, lifeVars, mutexVars,
                   callVars>>

(* wait_for_ready_thread disables interrupts and takes the guard again. *)
IdleEnter(c) ==
    /\ pc[c] = "woken"
    /\ AcquireGuard
    /\ pc' = [pc EXCEPT ![c] = "idle"]
    /\ UNCHANGED <<executing_thread, stack, ready_threads, waiting_threads,
                   wakeVars, lifeVars, mutexVars, callVars>>

UserCall(c) ==
    \/ \E t \in Threads : Create(c, t) \/ Join(c, t)
    \/ \E m \in Mutexes : Lock(c, m) \/ Unlock(c, m)
    \/ \E v \in CVs : Signal(c, v) \/ Broadcast(c, v) \/ \E m \in Mutexes : Wait(c, v, m)
    \/ Finish(c)

CpuStep(c) ==
    \/ Boot(c) \/ Switch(c) \/ ReleaseGuard(c)
    \/ IdleLoop(c) \/ Suspend(c) \/ WakeUp(c) \/ IdleEnter(c)

Next == \E c \in CPUs : CpuStep(c) \/ Yield(c) \/ UserCall(c)


Spec == Init /\ [][Next]_vars

(***************************************************************************)
(* Fairness, for cpu::boot with async = true.  A CPU that can go on with   *)
(* what it does goes on; the timer interrupts user code every millisecond; *)
(* and a CPU that spins on cpu::guard gets it if the guard becomes free    *)
(* again and again, which the code leaves to the hardware's test-and-set.  *)
(* User code need not call anything.                                       *)
(***************************************************************************)
FairSpec ==
    /\ Spec
    /\ \A c \in CPUs : /\ WF_vars(CpuStep(c))
                       /\ SF_vars(Yield(c))
                       /\ SF_vars(IdleEnter(c))

-----------------------------------------------------------------------------
(* Properties.                                                             *)

(* Type invariant: every variable has the type its declaration gives it;   *)
(* in particular the queues only ever hold user threads, never a CPU's own *)
(* waiting_thread.                                                         *)
TypeOK ==
    /\ guard \in BOOLEAN
    /\ pc \in [CPUs -> PCs]
    /\ executing_thread \in [CPUs -> Threads \cup {Idle, None}]
    /\ stack \in [CPUs -> Threads \cup {Idle, None}]
    /\ ready_threads \in Seq(Threads)
    /\ suspended_cpus \in Seq(CPUs)
    /\ ipi \in SUBSET CPUs
    /\ finished_threads \in Seq(Threads)
    /\ life \in [Threads -> Lives]
    /\ free \in [Mutexes -> BOOLEAN]
    /\ owned_thread \in [Mutexes -> Threads \cup {None}]
    /\ waiting_threads \in [Objects -> Seq(Threads)]
    /\ locking \in [Threads -> Mutexes \cup {None}]
    /\ relock \in [Threads -> Mutexes \cup {None}]
    /\ held \in [Threads -> SUBSET Mutexes]

Running(t) == \E c \in CPUs : executing_thread[c] = t
Ready(t) == t \in ToSet(ready_threads)
WaitsOn(t, o) == t \in ToSet(waiting_threads[o])

(* No thread is in two places at once: not on two CPUs, not twice in a     *)
(* queue, not in two of the ready queue, the CPUs and the waiting queues.  *)
(* Two owners of the same thread_ptr would run one stack twice.            *)
NoThreadTwice ==
    /\ \A c, d \in CPUs : executing_thread[c] = executing_thread[d]
                            /\ executing_thread[c] \in Threads => c = d
    /\ IsInjective(ready_threads)
    /\ \A o \in Objects : IsInjective(waiting_threads[o])
    /\ \A t \in Threads :
         /\ Running(t) => ~Ready(t)
         /\ \A o \in Objects : WaitsOn(t, o) => ~Running(t) /\ ~Ready(t)
         /\ \A o, p \in Objects : WaitsOn(t, o) /\ WaitsOn(t, p) => o = p

(* No thread is lost: a thread that was created and has not finished runs  *)
(* on a CPU, is ready, or waits in the queue of some object that can make  *)
(* it ready again; a thread that has finished is in none of these places.  *)
NoThreadLost ==
    \A t \in Threads :
        life[t] = "live" <=> \/ Running(t)
                            \/ Ready(t)
                            \/ \E o \in Objects : WaitsOn(t, o)

(* The switch invariant of cpu.h: a context switch happens under the       *)
(* guard, so no CPU takes a thread from a queue before the CPU that put it *)
(* there has left its stack, and func_with_swap never frees a stack that   *)
(* some CPU still runs on.                                                 *)
StackExclusive ==
    /\ \A c, d \in CPUs : stack[c] = stack[d] /\ stack[c] \in Threads => c = d
    /\ \A c \in CPUs : stack[c] \in Threads => life[stack[c]] # "freed"

(* Mutual exclusion: a thread whose lock(m) has returned, and that has not *)
(* called unlock(m) or wait(m) since, is the owner of m; so no two such    *)
(* threads exist.  The handed-over owner of mutex::unlock_mutex is made    *)
(* ready before it runs, and may be preempted before lock() returns.       *)
MutualExclusion ==
    \A m \in Mutexes, t \in Threads : m \in held[t] => Owns(t, m)

(* thread::join cannot miss the end of the thread it waits for: nobody is  *)
(* in the queue of a thread that has finished, whose func_with_swap will   *)
(* not look at that queue again.                                           *)
NobodyWaitsForFinished ==
    \A t \in Threads : life[t] # "live" => waiting_threads[t] = <<>>

(* No wakeup is lost: while some CPU is announced as suspended, every      *)
(* ready thread has an idle CPU of its own on the way to take it (one that *)
(* was taken off suspended_cpus, interrupted or not yet).                  *)
NoLostWakeup ==
    suspended_cpus # <<>> =>
        Len(ready_threads) <=
            Cardinality({c \in CPUs : /\ executing_thread[c] = Idle
                                      /\ c \notin ToSet(suspended_cpus)})

(* No starvation: a ready thread eventually runs, even if every running    *)
(* thread loops without ever calling the library, and however the CPUs     *)
(* race for the guard.                                                     *)
ReadyRuns == \A t \in Threads : Ready(t) ~> Running(t)

(* FIFO locks: a mutex gets a new owner only by a call of lock() that      *)
(* found it free with nobody waiting, or by handing it to the thread that  *)
(* has waited longest; a thread that calls lock() cannot overtake one that *)
(* waits.                                                                  *)
LockFIFO ==
    [][\A m \in Mutexes :
         ~free'[m] /\ owned_thread'[m] # owned_thread[m] =>
            IF waiting_threads[m] = <<>>
            THEN free[m]
            ELSE waiting_threads[m] = <<owned_thread'[m]>> \o waiting_threads'[m]]_vars

(* What is left of the library when CPUs, stacks, the guard and the ready  *)
(* queue are hidden.                                                       *)
Mon == INSTANCE Monitor WITH
    life <- [t \in Threads |-> IF life[t] = "freed" THEN "finished" ELSE life[t]],
    runnable <- {t \in Threads : Running(t) \/ Ready(t)},
    owner <- [m \in Mutexes |-> IF free[m] THEN None ELSE owned_thread[m]],
    queue <- waiting_threads

(* The library implements monitors: on several CPUs, with preemption       *)
(* between any two steps, with wakeups that travel through the ready       *)
(* queue, the idle loops and interrupts, every operation takes effect at   *)
(* one moment, makes exactly the threads runnable that it should, and no   *)
(* other step does.                                                        *)
ImplementsMonitor == Mon!Spec
=============================================================================
