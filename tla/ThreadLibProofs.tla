--------------------------- MODULE ThreadLibProofs ---------------------------
(* Proofs about the thread library, for every number of threads, CPUs,     *)
(* mutexes and condition variables.                                        *)
EXTENDS ThreadLib, QueueProofs

USE DEF wakeVars, lifeVars, mutexVars, callVars, Popped, Drained, FreeAfter,
        HasFinished, KeepsRunning, LifeAfterFinish

-----------------------------------------------------------------------------
(* Queues: what popping and draining do to their elements.                 *)

(* The queue an operation takes at most one thread from (unlock, signal):  *)
(* HandedTo and AfterHandOff split it in two.                              *)
LEMMA HandOffLemma ==
    ASSUME TypeOK, NEW o \in Objects
    PROVE  /\ HandedTo(o) \in Seq(Threads) /\ AfterHandOff(o) \in Seq(Threads)
           /\ ToSet(waiting_threads[o]) = ToSet(HandedTo(o)) \cup ToSet(AfterHandOff(o))
           /\ IsInjective(HandedTo(o))
           /\ IsInjective(waiting_threads[o]) =>
                /\ IsInjective(AfterHandOff(o))
                /\ ToSet(HandedTo(o)) \cap ToSet(AfterHandOff(o)) = {}
           /\ waiting_threads[o] # <<>> =>
                /\ Head(waiting_threads[o]) \in Threads
                /\ ToSet(HandedTo(o)) = {Head(waiting_threads[o])}
<1> DEFINE s == waiting_threads[o]
<1>1. s \in Seq(Threads)
  BY DEF TypeOK
<1>2. CASE s = <<>>
  BY <1>2, EmptyLemma DEF HandedTo, AfterHandOff
<1>3. CASE s # <<>>
  <2>1. /\ Head(s) \in Threads /\ Tail(s) \in Seq(Threads)
        /\ ToSet(s) = {Head(s)} \cup ToSet(Tail(s))
        /\ IsInjective(s) => Head(s) \notin ToSet(Tail(s)) /\ IsInjective(Tail(s))
    BY <1>1, <1>3, HeadTailLemma
  <2>2. /\ <<Head(s)>> \in Seq(Threads) /\ ToSet(<<Head(s)>>) = {Head(s)}
        /\ IsInjective(<<Head(s)>>)
    BY <2>1 DEF ToSet, IsInjective
  <2>3. HandedTo(o) = <<Head(s)>> /\ AfterHandOff(o) = Tail(s)
    BY <1>3 DEF HandedTo, AfterHandOff
  <2> QED
    BY <2>1, <2>2, <2>3, <1>3
<1> QED
  BY <1>2, <1>3

(* wait_and_pop: the CPU runs Idle or a thread it took from the queue, and *)
(* that queue loses exactly this thread.                                   *)
LEMMA WaitAndPopLemma ==
    ASSUME TypeOK, NEW c \in CPUs, NEW rq \in Seq(Threads), WaitAndPop(c, rq)
    PROVE  \E n \in Threads \cup {Idle} :
             /\ executing_thread' = [executing_thread EXCEPT ![c] = n]
             /\ pc' = [pc EXCEPT ![c] = "switch"]
             /\ ready_threads' \in Seq(Threads)
             /\ ToSet(rq) = ToSet(ready_threads') \cup ({n} \ {Idle})
             /\ IsInjective(rq) => IsInjective(ready_threads') /\ n \notin ToSet(ready_threads')
<1>1. CASE rq = <<>>
  <2>1. Idle \notin Threads
    BY ConstantsAssumption
  <2> QED
    BY <1>1, <2>1, EmptyLemma DEF WaitAndPop
<1>2. CASE rq # <<>>
  <2>1. Head(rq) \in Threads /\ Head(rq) # Idle
    BY <1>2, HeadTailLemma, ConstantsAssumption
  <2>2. /\ ready_threads' = Tail(rq)
        /\ executing_thread' = [executing_thread EXCEPT ![c] = Head(rq)]
        /\ pc' = [pc EXCEPT ![c] = "switch"]
    BY <1>2 DEF WaitAndPop
  <2>3. /\ Tail(rq) \in Seq(Threads)
        /\ ToSet(rq) = {Head(rq)} \cup ToSet(Tail(rq))
        /\ IsInjective(rq) => Head(rq) \notin ToSet(Tail(rq)) /\ IsInjective(Tail(rq))
    BY <1>2, HeadTailLemma
  <2> QED
    BY <2>1, <2>2, <2>3
<1> QED
  BY <1>1, <1>2

(* mutex::unlock_mutex: the mutex is freed or has a thread as its owner.   *)
LEMMA UnlockMutexLemma ==
    ASSUME TypeOK, NEW m \in Mutexes, UnlockMutex(m)
    PROVE  /\ free' \in [Mutexes -> BOOLEAN]
           /\ owned_thread' \in [Mutexes -> Threads \cup {None}]
<1>1. (waiting_threads[m] = <<>>) \in BOOLEAN
  OBVIOUS
<1>2. free' \in [Mutexes -> BOOLEAN]
  BY <1>1, Zenon DEF UnlockMutex, TypeOK
<1>3. waiting_threads[m] # <<>> => Head(waiting_threads[m]) \in Threads
  BY HandOffLemma DEF Objects
<1>4. owned_thread' \in [Mutexes -> Threads \cup {None}]
  BY <1>3 DEF UnlockMutex, TypeOK
<1> QED
  BY <1>2, <1>4

(* push_and_signal only moves CPUs from suspended_cpus to ipi. *)
LEMMA SignalCpusLemma ==
    ASSUME TypeOK, NEW n \in Nat, SignalCpus(n)
    PROVE  suspended_cpus' \in Seq(CPUs) /\ ipi' \in SUBSET CPUs
<1>1. suspended_cpus \in Seq(CPUs) /\ Len(suspended_cpus) \in Nat
  BY DEF TypeOK
<1>2. CpusToWake(n) \in 0 .. Len(suspended_cpus)
  BY <1>1 DEF CpusToWake
<1>3. suspended_cpus' \in Seq(CPUs)
  BY <1>1, <1>2 DEF SignalCpus
<1>4. \A i \in 1 .. CpusToWake(n) : suspended_cpus[i] \in CPUs
  BY <1>1, <1>2
<1> QED
  BY <1>3, <1>4 DEF SignalCpus, TypeOK

-----------------------------------------------------------------------------
(* Type correctness.                                                       *)

(* What a CPU executes follows from where it is in the library: user code  *)
(* is run by a thread, the idle loop by the CPU's own waiting_thread.      *)
ExecInv ==
    \A c \in CPUs :
        /\ pc[c] = "boot" => executing_thread[c] = None
        /\ pc[c] \in {"switch", "locked"} => executing_thread[c] \in Threads \cup {Idle}
        /\ pc[c] = "user" => executing_thread[c] \in Threads
        /\ pc[c] \in {"idle", "suspending", "suspended", "woken"}
             => executing_thread[c] = Idle

TypeInv == TypeOK /\ ExecInv

LEMMA TypeInit ==
    Init => TypeInv
<1> USE ConstantsAssumption
<1> SUFFICES ASSUME Init PROVE TypeInv
  OBVIOUS
<1>1. TypeOK
  BY EmptyLemma DEF Init, TypeOK, PCs, Lives
<1>2. ExecInv
  BY DEF Init, ExecInv
<1> QED
  BY <1>1, <1>2 DEF TypeInv

(* A call runs in a thread, which the queues may hold. *)
LEMMA TypeStep ==
    TypeInv /\ [Next]_vars => TypeInv'
<1> USE ConstantsAssumption
<1> SUFFICES ASSUME TypeInv, [Next]_vars PROVE TypeInv'
  OBVIOUS
<1>0. TypeOK /\ ExecInv
  BY DEF TypeInv
<1> USE <1>0
<1>1. CASE UNCHANGED vars
  BY <1>1 DEF TypeInv, TypeOK, ExecInv, vars
<1>2. ASSUME NEW c \in CPUs, Boot(c) PROVE TypeInv'
  <2>1. CASE c = BootCpu
    <3>1. /\ guard' = TRUE
          /\ life' = [life EXCEPT ![MainThread] = "live"]
          /\ executing_thread' = [executing_thread EXCEPT ![c] = MainThread]
          /\ pc' = [pc EXCEPT ![c] = "switch"]
          /\ UNCHANGED <<ready_threads, stack, suspended_cpus, ipi, finished_threads,
                         free, owned_thread, waiting_threads, locking, relock, held>>
      BY <1>2, <2>1 DEF Boot, AcquireGuard
    <3>2. TypeOK'
      BY <3>1 DEF TypeOK, PCs, Lives
    <3>3. ExecInv'
      BY <3>1 DEF TypeOK, ExecInv
    <3> QED
      BY <3>2, <3>3 DEF TypeInv
  <2>2. CASE c # BootCpu
    <3>1. WaitAndPop(c, ready_threads)
      BY <1>2, <2>2 DEF Boot
    <3>2. PICK n \in Threads \cup {Idle} :
             /\ executing_thread' = [executing_thread EXCEPT ![c] = n]
             /\ pc' = [pc EXCEPT ![c] = "switch"]
             /\ ready_threads' \in Seq(Threads)
      BY <3>1, WaitAndPopLemma DEF TypeOK
    <3> QED
      BY <1>2, <2>2, <3>2 DEF Boot, AcquireGuard, TypeInv, TypeOK, ExecInv, PCs, Lives
  <2> QED
    BY <2>1, <2>2
<1>3. ASSUME NEW c \in CPUs, NEW t \in Threads, Create(c, t) PROVE TypeInv'
  <2>1. ready_threads' \in Seq(Threads)
    BY <1>3, AppendLemma DEF Create, TypeOK
  <2>2. suspended_cpus' \in Seq(CPUs) /\ ipi' \in SUBSET CPUs
    BY <1>3, SignalCpusLemma DEF Create
  <2> QED
    BY <1>3, <2>1, <2>2 DEF Create, Call, Return, AcquireGuard, TypeInv, TypeOK, ExecInv, PCs, Lives
<1>4. ASSUME NEW c \in CPUs, NEW t \in Threads, Join(c, t) PROVE TypeInv'
  <2>1. executing_thread[c] \in Threads
    BY <1>4 DEF Join, Call, ExecInv
  <2>2. CASE life[t] \in {"finished", "freed"}
    BY <1>4, <2>2, ZenonT(40) DEF Join, Call, Return, AcquireGuard, TypeInv, TypeOK, ExecInv, PCs
  <2>3. CASE life[t] = "live"
    <3>1. WaitAndPop(c, ready_threads)
      BY <1>4, <2>3 DEF Join
    <3>2. PICK n \in Threads \cup {Idle} :
             /\ executing_thread' = [executing_thread EXCEPT ![c] = n]
             /\ pc' = [pc EXCEPT ![c] = "switch"]
             /\ ready_threads' \in Seq(Threads)
      BY <3>1, WaitAndPopLemma DEF TypeOK
    <3>3. waiting_threads' \in [Objects -> Seq(Threads)]
      <4>1. Append(waiting_threads[t], executing_thread[c]) \in Seq(Threads)
        BY <2>1, AppendLemma DEF TypeOK, Objects
      <4>2. waiting_threads' = [waiting_threads EXCEPT ![t] =
                                  Append(waiting_threads[t], executing_thread[c])]
        BY <1>4, <2>3 DEF Join, TypeOK, Objects
      <4> QED
        BY <4>1, <4>2 DEF TypeOK, Objects
    <3> QED
      BY <1>4, <2>3, <3>2, <3>3 DEF Join, Call, AcquireGuard, TypeInv, TypeOK, ExecInv, PCs
  <2> QED
    BY <1>4, <2>2, <2>3 DEF Join, TypeOK, Lives
<1>5. ASSUME NEW c \in CPUs, NEW m \in Mutexes, Lock(c, m) PROVE TypeInv'
  <2>1. executing_thread[c] \in Threads
    BY <1>5 DEF Lock, ExecInv
  <2>2. CASE free[m]
    <3>1. /\ guard' = TRUE
          /\ free' = [free EXCEPT ![m] = FALSE]
          /\ owned_thread' = [owned_thread EXCEPT ![m] = executing_thread[c]]
          /\ locking' = [locking EXCEPT ![executing_thread[c]] = m]
          /\ relock' = [relock EXCEPT ![executing_thread[c]] = None]
          /\ pc' = [pc EXCEPT ![c] = "locked"]
          /\ UNCHANGED <<executing_thread, ready_threads, waiting_threads, stack,
                         suspended_cpus, ipi, finished_threads, life, held>>
      BY <1>5, <2>2 DEF Lock, Return, AcquireGuard
    <3>2. TypeOK'
      BY <3>1, <2>1 DEF TypeOK, PCs
    <3>3. ExecInv'
      BY <3>1, <2>1 DEF TypeOK, ExecInv
    <3> QED
      BY <3>2, <3>3 DEF TypeInv
  <2>3. CASE ~free[m]
    <3>1. WaitAndPop(c, ready_threads)
      BY <1>5, <2>3 DEF Lock
    <3>2. PICK n \in Threads \cup {Idle} :
             /\ executing_thread' = [executing_thread EXCEPT ![c] = n]
             /\ pc' = [pc EXCEPT ![c] = "switch"]
             /\ ready_threads' \in Seq(Threads)
      BY <3>1, WaitAndPopLemma DEF TypeOK
    <3>3. waiting_threads' \in [Objects -> Seq(Threads)]
      <4>1. Append(waiting_threads[m], executing_thread[c]) \in Seq(Threads)
        BY <2>1, AppendLemma DEF TypeOK, Objects
      <4>2. waiting_threads' = [waiting_threads EXCEPT ![m] =
                                  Append(waiting_threads[m], executing_thread[c])]
        BY <1>5, <2>3 DEF Lock, TypeOK, Objects
      <4> QED
        BY <4>1, <4>2 DEF TypeOK, Objects
    <3> QED
      BY <1>5, <2>1, <2>3, <3>2, <3>3 DEF Lock, AcquireGuard, TypeInv, TypeOK, ExecInv, PCs
  <2> QED
    BY <2>2, <2>3
<1>6. ASSUME NEW c \in CPUs, NEW m \in Mutexes, Unlock(c, m) PROVE TypeInv'
  <2>1. executing_thread[c] \in Threads /\ m \in Objects
    BY <1>6 DEF Unlock, Call, ExecInv, Objects
  <2>2. CASE Owns(executing_thread[c], m)
    <3>1. /\ HandedTo(m) \in Seq(Threads) /\ AfterHandOff(m) \in Seq(Threads)
          /\ waiting_threads[m] # <<>> => Head(waiting_threads[m]) \in Threads
      BY <2>1, HandOffLemma
    <3>2. ready_threads' \in Seq(Threads)
      <4>1. ready_threads' = ready_threads \o HandedTo(m)
        BY <1>6, <2>2 DEF Unlock
      <4> QED
        BY <3>1, <4>1, ConcatLemma DEF TypeOK
    <3>3. suspended_cpus' \in Seq(CPUs) /\ ipi' \in SUBSET CPUs
      <4>1. Len(HandedTo(m)) \in Nat /\ SignalCpus(Len(HandedTo(m)))
        BY <1>6, <2>2, <3>1 DEF Unlock
      <4> QED
        BY <4>1, SignalCpusLemma
    <3>4. /\ free' \in [Mutexes -> BOOLEAN]
          /\ owned_thread' \in [Mutexes -> Threads \cup {None}]
      BY <1>6, <2>2, <3>1, UnlockMutexLemma DEF Unlock
    <3>5. waiting_threads' \in [Objects -> Seq(Threads)]
      BY <1>6, <2>2, <3>1, ZenonT(40) DEF Unlock, TypeOK
    <3> QED
      <4>1. /\ guard' = TRUE
            /\ held' = [held EXCEPT ![executing_thread[c]] = @ \ {m}]
            /\ pc' = [pc EXCEPT ![c] = "locked"]
            /\ UNCHANGED <<executing_thread, stack, finished_threads, life, locking, relock>>
        BY <1>6, <2>2 DEF Unlock, Call, Return, AcquireGuard
      <4>2. TypeOK'
        BY <2>1, <3>2, <3>3, <3>4, <3>5, <4>1 DEF TypeOK, PCs
      <4>3. ExecInv'
        BY <2>1, <4>1 DEF TypeOK, ExecInv
      <4> QED
        BY <4>2, <4>3 DEF TypeInv
  <2>3. CASE ~Owns(executing_thread[c], m)
    BY <1>6, <2>1, <2>3 DEF Unlock, Call, Return, AcquireGuard, TypeInv, TypeOK, ExecInv, PCs
  <2> QED
    BY <2>2, <2>3
<1>7. ASSUME NEW c \in CPUs, NEW v \in CVs, NEW m \in Mutexes, Wait(c, v, m) PROVE TypeInv'
  <2>1. executing_thread[c] \in Threads /\ m \in Objects /\ v \in Objects
    BY <1>7 DEF Wait, Call, ExecInv, Objects
  <2>2. CASE Owns(executing_thread[c], m)
    <3>1. /\ HandedTo(m) \in Seq(Threads) /\ AfterHandOff(m) \in Seq(Threads)
          /\ waiting_threads[m] # <<>> => Head(waiting_threads[m]) \in Threads
      BY <2>1, HandOffLemma
    <3>2. ready_threads \o HandedTo(m) \in Seq(Threads)
      BY <3>1, ConcatLemma DEF TypeOK
    <3>3. suspended_cpus' \in Seq(CPUs) /\ ipi' \in SUBSET CPUs
      <4>1. Len(HandedTo(m)) \in Nat /\ SignalCpus(Len(HandedTo(m)))
        BY <1>7, <2>2, <3>1 DEF Wait
      <4> QED
        BY <4>1, SignalCpusLemma
    <3>4. /\ free' \in [Mutexes -> BOOLEAN]
          /\ owned_thread' \in [Mutexes -> Threads \cup {None}]
      BY <1>7, <2>2, <3>1, UnlockMutexLemma DEF Wait
    <3>5. waiting_threads' \in [Objects -> Seq(Threads)]
      <4>1. Append(waiting_threads[v], executing_thread[c]) \in Seq(Threads)
        BY <2>1, AppendLemma DEF TypeOK
      <4>2. v # m
        BY <1>7
      <4>3. waiting_threads' = [waiting_threads EXCEPT ![m] = AfterHandOff(m),
                                   ![v] = Append(waiting_threads[v], executing_thread[c])]
        BY <1>7, <2>2, <4>2 DEF Wait
      <4> QED
        BY <2>1, <3>1, <4>1, <4>3 DEF TypeOK
    <3>6. WaitAndPop(c, ready_threads \o HandedTo(m))
      BY <1>7, <2>2 DEF Wait
    <3>7. PICK n \in Threads \cup {Idle} :
             /\ executing_thread' = [executing_thread EXCEPT ![c] = n]
             /\ pc' = [pc EXCEPT ![c] = "switch"]
             /\ ready_threads' \in Seq(Threads)
      BY <3>2, <3>6, WaitAndPopLemma
    <3> QED
      <4>1. /\ guard' = TRUE
            /\ held' = [held EXCEPT ![executing_thread[c]] = @ \ {m}]
            /\ relock' = [relock EXCEPT ![executing_thread[c]] = m]
            /\ UNCHANGED <<stack, finished_threads, life, locking>>
        BY <1>7, <2>2 DEF Wait, Call, AcquireGuard
      <4>2. TypeOK'
        BY <2>1, <3>3, <3>4, <3>5, <3>7, <4>1 DEF TypeOK, PCs
      <4>3. ExecInv'
        BY <2>1, <3>7 DEF TypeOK, ExecInv
      <4> QED
        BY <4>2, <4>3 DEF TypeInv
  <2>3. CASE ~Owns(executing_thread[c], m)
    <3>1. /\ guard' = TRUE
          /\ pc' = [pc EXCEPT ![c] = "locked"]
          /\ UNCHANGED <<executing_thread, ready_threads, stack, suspended_cpus, ipi,
                         finished_threads, life, free, owned_thread, waiting_threads,
                         locking, relock, held>>
      BY <1>7, <2>3 DEF Wait, Call, Return, AcquireGuard
    <3> QED
      BY <2>1, <3>1 DEF TypeInv, TypeOK, ExecInv, PCs
  <2> QED
    BY <2>2, <2>3
<1>8. ASSUME NEW c \in CPUs, NEW v \in CVs, Signal(c, v) PROVE TypeInv'
  <2>1. executing_thread[c] \in Threads /\ v \in Objects
    BY <1>8 DEF Signal, Call, ExecInv, Objects
  <2>2. HandedTo(v) \in Seq(Threads) /\ AfterHandOff(v) \in Seq(Threads)
    BY <2>1, HandOffLemma
  <2>3. ready_threads' \in Seq(Threads)
    BY <1>8, <2>2, ConcatLemma DEF Signal, TypeOK
  <2>4. suspended_cpus' \in Seq(CPUs) /\ ipi' \in SUBSET CPUs
    <3>1. Len(HandedTo(v)) \in Nat /\ SignalCpus(Len(HandedTo(v)))
      BY <1>8, <2>2 DEF Signal
    <3> QED
      BY <3>1, SignalCpusLemma
  <2> QED
    BY <1>8, <2>1, <2>2, <2>3, <2>4
    DEF Signal, Call, Return, AcquireGuard, TypeInv, TypeOK, ExecInv, PCs
<1>9. ASSUME NEW c \in CPUs, NEW v \in CVs, Broadcast(c, v) PROVE TypeInv'
  <2>1. executing_thread[c] \in Threads /\ v \in Objects
    BY <1>9 DEF Broadcast, Call, ExecInv, Objects
  <2>2. waiting_threads[v] \in Seq(Threads) /\ <<>> \in Seq(Threads)
    BY <2>1 DEF TypeOK
  <2>3. ready_threads' \in Seq(Threads)
    BY <1>9, <2>2, ConcatLemma DEF Broadcast, TypeOK
  <2>4. suspended_cpus' \in Seq(CPUs) /\ ipi' \in SUBSET CPUs
    <3>1. Len(waiting_threads[v]) \in Nat /\ SignalCpus(Len(waiting_threads[v]))
      BY <1>9, <2>2 DEF Broadcast
    <3> QED
      BY <3>1, SignalCpusLemma
  <2> QED
    BY <1>9, <2>1, <2>2, <2>3, <2>4
    DEF Broadcast, Call, Return, AcquireGuard, TypeInv, TypeOK, ExecInv, PCs
<1>10. ASSUME NEW c \in CPUs, Finish(c) PROVE TypeInv'
  <2> DEFINE t == executing_thread[c]
  <2>1. t \in Threads /\ t \in Objects
    BY <1>10 DEF Finish, Call, ExecInv, Objects
  <2>2. waiting_threads[t] \in Seq(Threads) /\ <<>> \in Seq(Threads) /\ <<t>> \in Seq(Threads)
    BY <2>1 DEF TypeOK
  <2>3. ready_threads \o waiting_threads[t] \in Seq(Threads)
    BY <2>2, ConcatLemma DEF TypeOK
  <2>4. suspended_cpus' \in Seq(CPUs) /\ ipi' \in SUBSET CPUs
    <3>1. Len(waiting_threads[t]) \in Nat /\ SignalCpus(Len(waiting_threads[t]))
      BY <1>10, <2>2 DEF Finish
    <3> QED
      BY <3>1, SignalCpusLemma
  <2>5. WaitAndPop(c, ready_threads \o waiting_threads[t])
    BY <1>10 DEF Finish
  <2>6. PICK n \in Threads \cup {Idle} :
             /\ executing_thread' = [executing_thread EXCEPT ![c] = n]
             /\ pc' = [pc EXCEPT ![c] = "switch"]
             /\ ready_threads' \in Seq(Threads)
    BY <2>3, <2>5, WaitAndPopLemma
  <2>7. life' \in [Threads -> Lives]
    BY <1>10, <2>1 DEF Finish, TypeOK, Lives
  <2> QED
    BY <1>10, <2>1, <2>2, <2>4, <2>6, <2>7
    DEF Finish, Call, AcquireGuard, TypeInv, TypeOK, ExecInv, PCs
<1>11. ASSUME NEW c \in CPUs, Yield(c) PROVE TypeInv'
  <2>1. CASE executing_thread[c] = Idle \/ ready_threads = <<>>
    <3>1. /\ pc[c] \in {"user", "woken"} /\ guard' = TRUE
          /\ pc' = [pc EXCEPT ![c] = "locked"]
          /\ UNCHANGED <<executing_thread, ready_threads, stack, suspended_cpus, ipi,
                         finished_threads, life, free, owned_thread, waiting_threads,
                         locking, relock, held>>
      BY <1>11, <2>1 DEF Yield, Return, AcquireGuard
    <3> QED
      BY <3>1 DEF TypeInv, TypeOK, ExecInv, PCs
  <2>2. CASE executing_thread[c] # Idle /\ ready_threads # <<>>
    <3>1. executing_thread[c] \in Threads
      BY <1>11, <2>2 DEF Yield, ExecInv
    <3>2. Append(ready_threads, executing_thread[c]) \in Seq(Threads)
      BY <3>1, AppendLemma DEF TypeOK
    <3>3. ready_threads' \in Seq(Threads)
      <4>1. Append(ready_threads, executing_thread[c]) # <<>>
        <5>1. executing_thread[c] \in ToSet(Append(ready_threads, executing_thread[c]))
          BY <3>1, AppendLemma DEF TypeOK
        <5>2. executing_thread[c] \notin ToSet(<<>>)
          BY EmptyLemma
        <5> QED
          BY <5>1, <5>2
      <4>2. Tail(Append(ready_threads, executing_thread[c])) \in Seq(Threads)
        BY <3>2, <4>1, HeadTailLemma
      <4> QED
        BY <1>11, <2>2, <4>2 DEF Yield
    <3>4. Head(ready_threads) \in Threads
      BY <2>2, HeadTailLemma DEF TypeOK
    <3> QED
      <4>1. /\ guard' = TRUE
            /\ pc' = [pc EXCEPT ![c] = "switch"]
            /\ executing_thread' = [executing_thread EXCEPT ![c] = Head(ready_threads)]
            /\ UNCHANGED <<stack, suspended_cpus, ipi, finished_threads, life, free,
                           owned_thread, waiting_threads, locking, relock, held>>
        BY <1>11, <2>2 DEF Yield, AcquireGuard
      <4> QED
        BY <3>3, <3>4, <4>1 DEF TypeInv, TypeOK, ExecInv, PCs
  <2> QED
    BY <2>1, <2>2
<1>12. ASSUME NEW c \in CPUs, Switch(c) PROVE TypeInv'
  BY <1>12 DEF Switch, TypeInv, TypeOK, ExecInv, PCs
<1>13. ASSUME NEW c \in CPUs, ReleaseGuard(c) PROVE TypeInv'
  <2>1. CASE executing_thread[c] = Idle
    BY <1>13, <2>1 DEF ReleaseGuard, TypeInv, TypeOK, ExecInv, PCs
  <2>2. CASE executing_thread[c] # Idle
    <3> DEFINE t == executing_thread[c]
    <3>1. t \in Threads
      BY <1>13, <2>2 DEF ReleaseGuard, ExecInv
    <3>2. /\ guard' = FALSE
          /\ pc' = [pc EXCEPT ![c] = "user"]
          /\ held' = [held EXCEPT ![t] = @ \cup ({locking[t]} \ {None})]
          /\ locking' = [locking EXCEPT ![t] = None]
          /\ UNCHANGED <<executing_thread, stack, ready_threads, suspended_cpus, ipi,
                         finished_threads, life, free, owned_thread, waiting_threads,
                         relock>>
      BY <1>13, <2>2 DEF ReleaseGuard
    <3>3. held' \in [Threads -> SUBSET Mutexes]
      BY <3>1, <3>2 DEF TypeOK
    <3> QED
      BY <3>1, <3>2, <3>3 DEF TypeInv, TypeOK, ExecInv, PCs
  <2> QED
    BY <2>1, <2>2
<1>14. ASSUME NEW c \in CPUs, IdleLoop(c) PROVE TypeInv'
  <2>1. CASE ready_threads # <<>>
    <3>1. WaitAndPop(c, ready_threads)
      BY <1>14, <2>1 DEF IdleLoop
    <3>2. PICK n \in Threads \cup {Idle} :
             /\ executing_thread' = [executing_thread EXCEPT ![c] = n]
             /\ pc' = [pc EXCEPT ![c] = "switch"]
             /\ ready_threads' \in Seq(Threads)
      BY <3>1, WaitAndPopLemma DEF TypeOK
    <3> QED
      BY <1>14, <2>1, <3>2 DEF IdleLoop, TypeInv, TypeOK, ExecInv, PCs
  <2>2. CASE ready_threads = <<>>
    <3>1. suspended_cpus' \in Seq(CPUs)
      <4>1. suspended_cpus' = Append(suspended_cpus, c)
        BY <1>14, <2>2 DEF IdleLoop
      <4> QED
        BY <4>1, AppendLemma DEF TypeOK
    <3> QED
      BY <1>14, <2>2, <3>1 DEF IdleLoop, TypeInv, TypeOK, ExecInv, PCs
  <2> QED
    BY <2>1, <2>2
<1>15. ASSUME NEW c \in CPUs, Suspend(c) PROVE TypeInv'
  BY <1>15 DEF Suspend, TypeInv, TypeOK, ExecInv, PCs
<1>16. ASSUME NEW c \in CPUs, WakeUp(c) PROVE TypeInv'
  BY <1>16 DEF WakeUp, TypeInv, TypeOK, ExecInv, PCs
<1>17. ASSUME NEW c \in CPUs, IdleEnter(c) PROVE TypeInv'
  BY <1>17 DEF IdleEnter, AcquireGuard, TypeInv, TypeOK, ExecInv, PCs
<1> QED
  BY <1>1, <1>2, <1>3, <1>4, <1>5, <1>6, <1>7, <1>8, <1>9, <1>10, <1>11,
     <1>12, <1>13, <1>14, <1>15, <1>16, <1>17
  DEF Next, CpuStep, UserCall

(* Type correctness: in particular thread::yield never pushes a CPU's own  *)
(* waiting_thread on the ready queue, whatever the interrupts do.          *)
THEOREM TypeCorrect == Spec => []TypeOK
<1>1. Spec => []TypeInv
  BY TypeInit, TypeStep, PTL DEF Spec
<1>2. TypeInv => TypeOK
  BY DEF TypeInv
<1> QED
  BY <1>1, <1>2, PTL

-----------------------------------------------------------------------------
(* Where the threads are.  Placement says of any CPUs' threads ex, ready   *)
(* queue rq, waiting queues wt and lifetimes lf what NoThreadTwice and     *)
(* NoThreadLost say of the variables; an operation is a few moves, and     *)
(* each move keeps it.  Between two moves a CPU may execute None, as in    *)
(* the code executing_thread is null once it was moved to a queue.         *)

Apart(ex, rq, wt) ==
    /\ \A c, d \in CPUs : ex[c] = ex[d] /\ ex[c] \in Threads => c = d
    /\ IsInjective(rq)
    /\ \A o \in Objects : IsInjective(wt[o])
    /\ \A c \in CPUs : ex[c] \notin ToSet(rq)
    /\ \A o \in Objects : \A c \in CPUs : ex[c] \notin ToSet(wt[o])
    /\ \A o \in Objects : ToSet(wt[o]) \cap ToSet(rq) = {}
    /\ \A o, p \in Objects : o # p => ToSet(wt[o]) \cap ToSet(wt[p]) = {}

Somewhere(t, ex, rq, wt) ==
    \/ \E c \in CPUs : ex[c] = t
    \/ t \in ToSet(rq)
    \/ \E o \in Objects : t \in ToSet(wt[o])

Placement(ex, rq, wt, lf) ==
    /\ Apart(ex, rq, wt)
    /\ \A t \in Threads : lf[t] = "live" <=> Somewhere(t, ex, rq, wt)

PlaceType(ex, rq, wt, lf) ==
    /\ ex \in [CPUs -> Threads \cup {Idle, None}]
    /\ rq \in Seq(Threads)
    /\ wt \in [Objects -> Seq(Threads)]
    /\ lf \in [Threads -> Lives]

LEMMA PlacementMeaning ==
    ASSUME TypeOK
    PROVE  /\ Placement(executing_thread, ready_threads, waiting_threads, life)
                <=> NoThreadTwice /\ NoThreadLost
           /\ PlaceType(executing_thread, ready_threads, waiting_threads, life)
<1> USE ConstantsAssumption
<1>1. PlaceType(executing_thread, ready_threads, waiting_threads, life)
  BY DEF TypeOK, PlaceType
<1>2. ToSet(ready_threads) \subseteq Threads
      /\ \A o \in Objects : ToSet(waiting_threads[o]) \subseteq Threads
  BY ToSetType DEF TypeOK
<1>3. Placement(executing_thread, ready_threads, waiting_threads, life)
         => NoThreadTwice /\ NoThreadLost
  BY DEF Placement, Apart, Somewhere, NoThreadTwice, NoThreadLost, Running, Ready, WaitsOn
<1>4. NoThreadTwice /\ NoThreadLost
         => Placement(executing_thread, ready_threads, waiting_threads, life)
  BY <1>2 DEF Placement, Apart, Somewhere, NoThreadTwice, NoThreadLost, Running, Ready, WaitsOn
<1> QED
  BY <1>1, <1>3, <1>4

(* waiting_threads.push(move(executing_thread)) *)
LEMMA ParkMove ==
    ASSUME NEW ex, NEW rq, NEW wt, NEW lf, PlaceType(ex, rq, wt, lf),
           Placement(ex, rq, wt, lf),
           NEW c \in CPUs, ex[c] \in Threads, NEW o \in Objects
    PROVE  LET ex2 == [ex EXCEPT ![c] = None]
               wt2 == [wt EXCEPT ![o] = Append(wt[o], ex[c])]
           IN  PlaceType(ex2, rq, wt2, lf) /\ Placement(ex2, rq, wt2, lf)
<1> USE ConstantsAssumption
<1> DEFINE ex2 == [ex EXCEPT ![c] = None]
           wt2 == [wt EXCEPT ![o] = Append(wt[o], ex[c])]
<1>1. ex[c] \notin ToSet(wt[o]) /\ IsInjective(wt[o])
  BY DEF Placement, Apart, Somewhere
<1>2. /\ Append(wt[o], ex[c]) \in Seq(Threads)
      /\ ToSet(Append(wt[o], ex[c])) = ToSet(wt[o]) \cup {ex[c]}
      /\ IsInjective(Append(wt[o], ex[c]))
  BY <1>1, AppendLemma DEF PlaceType
<1>3. PlaceType(ex2, rq, wt2, lf)
  BY <1>2 DEF PlaceType
<1>4. /\ \A p \in Objects : ToSet(wt2[p]) = IF p = o THEN ToSet(wt[o]) \cup {ex[c]} ELSE ToSet(wt[p])
      /\ \A p \in Objects : IsInjective(wt2[p])
  BY <1>2, ZenonT(40) DEF PlaceType, Placement, Apart, Somewhere
<1>5. \A d \in CPUs : ex2[d] = IF d = c THEN None ELSE ex[d]
  BY DEF PlaceType
<1>6. /\ ToSet(rq) \subseteq Threads
      /\ \A p \in Objects : ToSet(wt[p]) \subseteq Threads
  BY ToSetType DEF PlaceType
<1> HIDE DEF ex2, wt2
<1>7. Placement(ex2, rq, wt2, lf)
  BY <1>4, <1>5, <1>6 DEF Placement, Apart, Somewhere
<1> QED
  BY <1>3, <1>7 DEF ex2, wt2

(* ready_threads.push(move(executing_thread)), in thread::yield *)
LEMMA YieldMove ==
    ASSUME NEW ex, NEW rq, NEW wt, NEW lf, PlaceType(ex, rq, wt, lf),
           Placement(ex, rq, wt, lf),
           NEW c \in CPUs, ex[c] \in Threads
    PROVE  LET ex2 == [ex EXCEPT ![c] = None]
               rq2 == Append(rq, ex[c])
           IN  PlaceType(ex2, rq2, wt, lf) /\ Placement(ex2, rq2, wt, lf)
<1> USE ConstantsAssumption
<1> DEFINE ex2 == [ex EXCEPT ![c] = None]
           rq2 == Append(rq, ex[c])
<1>1. ex[c] \notin ToSet(rq) /\ IsInjective(rq)
  BY DEF Placement, Apart, Somewhere
<1>2. rq2 \in Seq(Threads) /\ ToSet(rq2) = ToSet(rq) \cup {ex[c]} /\ IsInjective(rq2)
  BY <1>1, AppendLemma DEF PlaceType
<1>3. PlaceType(ex2, rq2, wt, lf)
  BY <1>2 DEF PlaceType
<1>5. \A d \in CPUs : ex2[d] = IF d = c THEN None ELSE ex[d]
  BY DEF PlaceType
<1>6. /\ ToSet(rq) \subseteq Threads
      /\ \A p \in Objects : ToSet(wt[p]) \subseteq Threads
  BY ToSetType DEF PlaceType
<1> HIDE DEF ex2, rq2
<1>7. Apart(ex2, rq2, wt)
  <2>1. /\ \A d, e \in CPUs : ex2[d] = ex2[e] /\ ex2[d] \in Threads => d = e
        /\ \A d \in CPUs : ex2[d] \notin ToSet(rq2)
    BY <1>2, <1>5, <1>6 DEF Placement, Apart
  <2>2. /\ \A o \in Objects : \A d \in CPUs : ex2[d] \notin ToSet(wt[o])
        /\ \A o \in Objects : ToSet(wt[o]) \cap ToSet(rq2) = {}
    BY <1>2, <1>5, <1>6 DEF Placement, Apart
  <2>3. /\ \A o \in Objects : IsInjective(wt[o])
        /\ \A o, p \in Objects : o # p => ToSet(wt[o]) \cap ToSet(wt[p]) = {}
    BY DEF Placement, Apart
  <2> QED
    BY <1>2, <2>1, <2>2, <2>3 DEF Apart
<1>8. \A t \in Threads : Somewhere(t, ex2, rq2, wt) <=> Somewhere(t, ex, rq, wt)
  BY <1>2, <1>5 DEF Somewhere
<1> QED
  BY <1>3, <1>7, <1>8 DEF ex2, rq2, Placement

(* push_and_signal of the threads a of a waiting queue, which keeps b *)
LEMMA WakeMove ==
    ASSUME NEW ex, NEW rq, NEW wt, NEW lf, PlaceType(ex, rq, wt, lf),
           Placement(ex, rq, wt, lf),
           NEW o \in Objects, NEW a \in Seq(Threads), NEW b \in Seq(Threads),
           ToSet(wt[o]) = ToSet(a) \cup ToSet(b), ToSet(a) \cap ToSet(b) = {},
           IsInjective(a), IsInjective(b)
    PROVE  LET rq2 == rq \o a
               wt2 == [wt EXCEPT ![o] = b]
           IN  PlaceType(ex, rq2, wt2, lf) /\ Placement(ex, rq2, wt2, lf)
<1> DEFINE rq2 == rq \o a
           wt2 == [wt EXCEPT ![o] = b]
<1>1. ToSet(rq) \cap ToSet(a) = {} /\ IsInjective(rq)
  BY DEF Placement, Apart, Somewhere
<1>2. rq2 \in Seq(Threads) /\ ToSet(rq2) = ToSet(rq) \cup ToSet(a) /\ IsInjective(rq2)
  BY <1>1, ConcatLemma DEF PlaceType
<1>3. PlaceType(ex, rq2, wt2, lf)
  BY <1>2 DEF PlaceType
<1>4. /\ \A p \in Objects : ToSet(wt2[p]) = IF p = o THEN ToSet(b) ELSE ToSet(wt[p])
      /\ \A p \in Objects : IsInjective(wt2[p])
  BY DEF PlaceType, Placement, Apart, Somewhere
<1> HIDE DEF rq2, wt2
<1>7. Placement(ex, rq2, wt2, lf)
  BY <1>2, <1>4, ZenonT(40) DEF Placement, Apart, Somewhere
<1> QED
  BY <1>3, <1>7 DEF rq2, wt2

(* wait_and_pop on a CPU that executes no thread *)
LEMMA PopMove ==
    ASSUME NEW ex, NEW rq, NEW wt, NEW lf, PlaceType(ex, rq, wt, lf),
           Placement(ex, rq, wt, lf),
           NEW c \in CPUs, ex[c] \notin Threads,
           NEW n \in Threads \cup {Idle}, NEW rq2 \in Seq(Threads),
           ToSet(rq) = ToSet(rq2) \cup ({n} \ {Idle}),
           IsInjective(rq) => IsInjective(rq2) /\ n \notin ToSet(rq2)
    PROVE  LET ex2 == [ex EXCEPT ![c] = n]
           IN  PlaceType(ex2, rq2, wt, lf) /\ Placement(ex2, rq2, wt, lf)
<1> USE ConstantsAssumption
<1> DEFINE ex2 == [ex EXCEPT ![c] = n]
<1>2. IsInjective(rq2) /\ n \notin ToSet(rq2)
  BY DEF Placement, Apart, Somewhere
<1>3. PlaceType(ex2, rq2, wt, lf)
  BY DEF PlaceType
<1>5. \A d \in CPUs : ex2[d] = IF d = c THEN n ELSE ex[d]
  BY DEF PlaceType
<1>6. /\ ToSet(rq) \subseteq Threads
      /\ \A p \in Objects : ToSet(wt[p]) \subseteq Threads
  BY ToSetType DEF PlaceType
<1> HIDE DEF ex2
<1>7. Apart(ex2, rq2, wt)
  <2>1. \A o \in Objects : ToSet(wt[o]) \cap ToSet(rq) = {}
    BY DEF Placement, Apart
  <2>2. n \in Threads => n \in ToSet(rq)
    OBVIOUS
  <2>3. \A d \in CPUs : n \in Threads => ex[d] # n
    BY <2>2 DEF Placement, Apart
  <2>4. \A o \in Objects : n \notin ToSet(wt[o])
    BY <2>1, <2>2, <1>6
  <2>5. \A d, e \in CPUs : ex2[d] = ex2[e] /\ ex2[d] \in Threads => d = e
    BY <2>3, <1>5 DEF Placement, Apart
  <2>6. \A d \in CPUs : ex2[d] \notin ToSet(rq2)
    BY <1>2, <1>5 DEF Placement, Apart
  <2>7. \A o \in Objects : \A d \in CPUs : ex2[d] \notin ToSet(wt[o])
    BY <2>4, <1>5 DEF Placement, Apart
  <2>8. \A o \in Objects : ToSet(wt[o]) \cap ToSet(rq2) = {}
    BY <2>1
  <2>9. /\ \A o \in Objects : IsInjective(wt[o])
        /\ \A o, p \in Objects : o # p => ToSet(wt[o]) \cap ToSet(wt[p]) = {}
    BY DEF Placement, Apart
  <2> QED
    BY <1>2, <2>5, <2>6, <2>7, <2>8, <2>9 DEF Apart
<1>8. \A t \in Threads : Somewhere(t, ex2, rq2, wt) <=> Somewhere(t, ex, rq, wt)
  <2> SUFFICES ASSUME NEW t \in Threads
               PROVE  (\E d \in CPUs : ex2[d] = t) \/ t \in ToSet(rq2)
                      <=> (\E d \in CPUs : ex[d] = t) \/ t \in ToSet(rq)
    BY DEF Somewhere
  <2> QED
    BY <1>5
<1> QED
  BY <1>3, <1>7, <1>8 DEF ex2, Placement

(* A new thread becomes ready (thread::thread) *)
LEMMA NewMove ==
    ASSUME NEW ex, NEW rq, NEW wt, NEW lf, PlaceType(ex, rq, wt, lf),
           Placement(ex, rq, wt, lf),
           NEW t \in Threads, lf[t] # "live"
    PROVE  LET rq2 == Append(rq, t)
               lf2 == [lf EXCEPT ![t] = "live"]
           IN  PlaceType(ex, rq2, wt, lf2) /\ Placement(ex, rq2, wt, lf2)
<1> USE ConstantsAssumption
<1> DEFINE rq2 == Append(rq, t)
           lf2 == [lf EXCEPT ![t] = "live"]
<1>1. /\ t \notin ToSet(rq) /\ IsInjective(rq)
      /\ \A c \in CPUs : ex[c] # t
      /\ \A o \in Objects : t \notin ToSet(wt[o])
  BY DEF Placement, Apart, Somewhere
<1>2. rq2 \in Seq(Threads) /\ ToSet(rq2) = ToSet(rq) \cup {t} /\ IsInjective(rq2)
  BY <1>1, AppendLemma DEF PlaceType
<1>3. PlaceType(ex, rq2, wt, lf2)
  BY <1>2 DEF PlaceType, Lives
<1>4. \A u \in Threads : lf2[u] = IF u = t THEN "live" ELSE lf[u]
  BY DEF PlaceType
<1> HIDE DEF rq2, lf2
<1>5. Apart(ex, rq2, wt)
  BY <1>1, <1>2 DEF Placement, Apart
<1>6. \A u \in Threads : Somewhere(u, ex, rq2, wt) <=> u = t \/ Somewhere(u, ex, rq, wt)
  BY <1>2 DEF Somewhere
<1>7. Placement(ex, rq2, wt, lf2)
  BY <1>4, <1>5, <1>6 DEF Placement
<1> QED
  BY <1>3, <1>7 DEF rq2, lf2

(* The main thread is started on its CPU (cpu::cpu) *)
LEMMA StartMove ==
    ASSUME NEW ex, NEW rq, NEW wt, NEW lf, PlaceType(ex, rq, wt, lf),
           Placement(ex, rq, wt, lf),
           NEW c \in CPUs, ex[c] \notin Threads, NEW t \in Threads, lf[t] # "live"
    PROVE  LET ex2 == [ex EXCEPT ![c] = t]
               lf2 == [lf EXCEPT ![t] = "live"]
           IN  PlaceType(ex2, rq, wt, lf2) /\ Placement(ex2, rq, wt, lf2)
<1> USE ConstantsAssumption
<1> DEFINE ex2 == [ex EXCEPT ![c] = t]
           lf2 == [lf EXCEPT ![t] = "live"]
<1>1. /\ t \notin ToSet(rq)
      /\ \A d \in CPUs : ex[d] # t
      /\ \A o \in Objects : t \notin ToSet(wt[o])
  BY DEF Placement, Apart, Somewhere
<1>3. PlaceType(ex2, rq, wt, lf2)
  BY DEF PlaceType, Lives
<1>4. /\ \A u \in Threads : lf2[u] = IF u = t THEN "live" ELSE lf[u]
      /\ \A d \in CPUs : ex2[d] = IF d = c THEN t ELSE ex[d]
  BY DEF PlaceType
<1> HIDE DEF ex2, lf2
<1>7. Placement(ex2, rq, wt, lf2)
  BY <1>1, <1>4 DEF Placement, Apart, Somewhere
<1> QED
  BY <1>3, <1>7 DEF ex2, lf2

(* The running thread finishes (func_with_swap) *)
LEMMA FinishMove ==
    ASSUME NEW ex, NEW rq, NEW wt, NEW lf, PlaceType(ex, rq, wt, lf),
           Placement(ex, rq, wt, lf),
           NEW c \in CPUs, ex[c] \in Threads,
           NEW lf2 \in [Threads -> Lives], lf2[ex[c]] # "live",
           \A u \in Threads \ {ex[c]} : lf2[u] = "live" <=> lf[u] = "live"
    PROVE  LET ex2 == [ex EXCEPT ![c] = None]
           IN  PlaceType(ex2, rq, wt, lf2) /\ Placement(ex2, rq, wt, lf2)
<1> USE ConstantsAssumption
<1> DEFINE ex2 == [ex EXCEPT ![c] = None]
<1>1. PlaceType(ex2, rq, wt, lf2)
  BY DEF PlaceType
<1>2. \A d \in CPUs : ex2[d] = IF d = c THEN None ELSE ex[d]
  BY DEF PlaceType
<1>6. /\ ToSet(rq) \subseteq Threads
      /\ \A p \in Objects : ToSet(wt[p]) \subseteq Threads
  BY ToSetType DEF PlaceType
<1> HIDE DEF ex2
<1>7. Placement(ex2, rq, wt, lf2)
  BY <1>2, <1>6 DEF Placement, Apart, Somewhere
<1> QED
  BY <1>1, <1>7 DEF ex2

(* What Placement needs of the rest: the main thread is not created before *)
(* its CPU boots, and only finished threads are in finished_threads.       *)
LifeInv ==
    /\ pc[BootCpu] = "boot" => life[MainThread] = "new"
    /\ \A t \in ToSet(finished_threads) : life[t] = "finished"

PlaceInv == NoThreadTwice /\ NoThreadLost /\ LifeInv

LEMMA PlaceInit ==
    Init => PlaceInv
<1> USE ConstantsAssumption
<1> SUFFICES ASSUME Init PROVE PlaceInv
  OBVIOUS
<1>1. ToSet(<<>>) = {} /\ IsInjective(<<>>)
  BY EmptyLemma
<1>2. NoThreadTwice /\ NoThreadLost
  BY <1>1 DEF Init, NoThreadTwice, NoThreadLost, Running, Ready, WaitsOn
<1>3. LifeInv
  BY <1>1 DEF Init, LifeInv
<1> QED
  BY <1>2, <1>3 DEF PlaceInv

(* LifeInv is kept by every step. *)
LEMMA LifeStep ==
    ASSUME TypeInv, PlaceInv, [Next]_vars
    PROVE  LifeInv'
<1> USE ConstantsAssumption
<1>0. /\ TypeOK /\ ExecInv /\ NoThreadLost
      /\ pc[BootCpu] = "boot" => life[MainThread] = "new"
      /\ \A t \in ToSet(finished_threads) : life[t] = "finished"
  BY DEF TypeInv, PlaceInv, LifeInv
<1>1. CASE UNCHANGED <<pc, life, finished_threads>>
  BY <1>0, <1>1 DEF LifeInv
<1>2. ASSUME NEW c \in CPUs, pc' = [pc EXCEPT ![c] = pc'[c]], pc'[c] # "boot",
             UNCHANGED <<life, finished_threads>>
      PROVE  LifeInv'
  BY <1>0, <1>2 DEF LifeInv, TypeOK
<1>3. ASSUME NEW c \in CPUs, Boot(c) PROVE LifeInv'
  <2>1. CASE c # BootCpu
    BY <1>2, <1>3, <2>1, <1>0 DEF Boot, WaitAndPop, TypeOK
  <2>2. CASE c = BootCpu
    <3>1. /\ life' = [life EXCEPT ![MainThread] = "live"]
          /\ pc' = [pc EXCEPT ![c] = "switch"] /\ UNCHANGED finished_threads
      BY <1>3, <2>2 DEF Boot
    <3>2. MainThread \notin ToSet(finished_threads)
      BY <1>0, <1>3, <2>2 DEF Boot
    <3>3. ToSet(finished_threads) \subseteq Threads
      BY <1>0, ToSetType DEF TypeOK
    <3> QED
      BY <1>0, <2>2, <3>1, <3>2, <3>3 DEF LifeInv, TypeOK
  <2> QED
    BY <2>1, <2>2
<1>4. ASSUME NEW c \in CPUs, NEW t \in Threads, Create(c, t) PROVE LifeInv'
  <2>1. /\ life' = [life EXCEPT ![t] = "live"] /\ life[t] = "new" /\ t # MainThread
        /\ pc' = [pc EXCEPT ![c] = "locked"] /\ UNCHANGED finished_threads
    BY <1>4 DEF Create, Return
  <2>2. t \notin ToSet(finished_threads)
    BY <1>0, <2>1
  <2>3. ToSet(finished_threads) \subseteq Threads
    BY <1>0, ToSetType DEF TypeOK
  <2> QED
    BY <1>0, <2>1, <2>2, <2>3 DEF LifeInv, TypeOK
<1>5. ASSUME NEW c \in CPUs, Finish(c) PROVE LifeInv'
  <2> DEFINE t == executing_thread[c]
  <2>1. t \in Threads
    BY <1>0, <1>5 DEF Finish, Call, ExecInv
  <2>2. life[t] = "live"
    BY <1>0, <2>1 DEF NoThreadLost, Running
  <2>3. finished_threads' = <<t>> /\ pc' = [pc EXCEPT ![c] = "switch"] /\ pc[c] = "user"
    BY <1>5 DEF Finish, WaitAndPop, Call
  <2>4. life' = [u \in Threads |-> IF u = t THEN "finished"
                                  ELSE IF u \in ToSet(finished_threads) THEN "freed"
                                  ELSE life[u]]
    BY <1>5 DEF Finish
  <2>5. ToSet(finished_threads') = {t}
    BY <2>3 DEF ToSet
  <2>6. pc'[BootCpu] = "boot" => life'[MainThread] = "new"
    BY <1>0, <2>2, <2>3, <2>4 DEF TypeOK
  <2> QED
    BY <2>1, <2>4, <2>5, <2>6 DEF LifeInv
<1>6. ASSUME NEW c \in CPUs, Yield(c) PROVE LifeInv'
  BY <1>0, <1>2, <1>6 DEF Yield, Return, TypeOK
<1>7. ASSUME NEW c \in CPUs, NEW t \in Threads, Join(c, t) PROVE LifeInv'
  BY <1>0, <1>2, <1>7 DEF Join, Return, WaitAndPop, TypeOK
<1>8. ASSUME NEW c \in CPUs, NEW m \in Mutexes, Lock(c, m) \/ Unlock(c, m) PROVE LifeInv'
  BY <1>0, <1>2, <1>8 DEF Lock, Unlock, Return, WaitAndPop, TypeOK
<1>9. ASSUME NEW c \in CPUs, NEW v \in CVs, NEW m \in Mutexes, Wait(c, v, m) PROVE LifeInv'
  BY <1>0, <1>2, <1>9 DEF Wait, Return, WaitAndPop, TypeOK
<1>10. ASSUME NEW c \in CPUs, NEW v \in CVs, Signal(c, v) \/ Broadcast(c, v) PROVE LifeInv'
  BY <1>0, <1>2, <1>10 DEF Signal, Broadcast, Return, TypeOK
<1>11. ASSUME NEW c \in CPUs,
              Switch(c) \/ ReleaseGuard(c) \/ IdleLoop(c) \/ Suspend(c) \/ WakeUp(c) \/ IdleEnter(c)
       PROVE  LifeInv'
  BY <1>0, <1>2, <1>11
  DEF Switch, ReleaseGuard, IdleLoop, Suspend, WakeUp, IdleEnter, WaitAndPop, TypeOK
<1> QED
  BY <1>1, <1>3, <1>4, <1>5, <1>6, <1>7, <1>8, <1>9, <1>10, <1>11
  DEF Next, CpuStep, UserCall, vars

(* A step moves threads only by the moves above. *)
LEMMA PlaceStep ==
    ASSUME TypeInv, PlaceInv, [Next]_vars
    PROVE  PlaceInv'
<1> USE ConstantsAssumption
<1> DEFINE ex == executing_thread
           rq == ready_threads
           wt == waiting_threads
           lf == life
           Goal == Placement(ex', rq', wt', lf')
<1>0. /\ TypeOK /\ ExecInv /\ LifeInv /\ TypeOK'
      /\ PlaceType(ex, rq, wt, lf) /\ Placement(ex, rq, wt, lf)
  BY TypeStep, PlacementMeaning DEF TypeInv, PlaceInv
<1> SUFFICES Goal
  <2>1. TypeOK' /\ LifeInv'
    BY <1>0, LifeStep
  <2>2. (NoThreadTwice /\ NoThreadLost)'
    BY <2>1, PlacementMeaning DEF Placement, Apart, Somewhere, NoThreadTwice,
       NoThreadLost, Running, Ready, WaitsOn
  <2> QED
    BY <2>1, <2>2 DEF PlaceInv
<1>1. CASE UNCHANGED <<executing_thread, ready_threads, waiting_threads, life>>
  BY <1>0, <1>1
<1>2. ASSUME NEW c \in CPUs, Boot(c) PROVE Goal
  <2>1. ex[c] \notin Threads
    BY <1>0, <1>2 DEF Boot, ExecInv
  <2>2. CASE c = BootCpu
    <3>1. /\ ex' = [ex EXCEPT ![c] = MainThread] /\ lf' = [lf EXCEPT ![MainThread] = "live"]
          /\ rq' = rq /\ wt' = wt
      BY <1>2, <2>2 DEF Boot
    <3>2. lf[MainThread] # "live"
      BY <1>0, <1>2, <2>2 DEF Boot, LifeInv
    <3> QED
      BY <1>0, <2>1, <3>1, <3>2, StartMove
  <2>3. CASE c # BootCpu
    <3>1. WaitAndPop(c, rq) /\ wt' = wt /\ lf' = lf
      BY <1>2, <2>3 DEF Boot
    <3>2. PICK n \in Threads \cup {Idle} :
           /\ executing_thread' = [executing_thread EXCEPT ![c] = n]
           /\ ready_threads' \in Seq(Threads)
           /\ ToSet(rq) = ToSet(ready_threads') \cup ({n} \ {Idle})
           /\ IsInjective(rq) => IsInjective(ready_threads') /\ n \notin ToSet(ready_threads')
      BY <1>0, <3>1, WaitAndPopLemma DEF TypeOK
    <3> QED
      BY <1>0, <2>1, <3>1, <3>2, PopMove
  <2> QED
    BY <2>2, <2>3
<1>3. ASSUME NEW c \in CPUs, NEW t \in Threads, Create(c, t) PROVE Goal
  <2>1. /\ rq' = Append(rq, t) /\ lf' = [lf EXCEPT ![t] = "live"] /\ lf[t] # "live"
        /\ ex' = ex /\ wt' = wt
    BY <1>3 DEF Create, Return
  <2> QED
    BY <1>0, <2>1, NewMove
<1>4. ASSUME NEW c \in CPUs, NEW o \in Objects, ex[c] \in Threads,
             WaitAndPop(c, rq), lf' = lf,
             wt' = [wt EXCEPT ![o] = Append(wt[o], ex[c])]
      PROVE  Goal
  <2> DEFINE ex2 == [ex EXCEPT ![c] = None]
  <2>1. PlaceType(ex2, rq, wt', lf) /\ Placement(ex2, rq, wt', lf)
    BY <1>0, <1>4, ParkMove
  <2>2. PICK n \in Threads \cup {Idle} :
           /\ executing_thread' = [executing_thread EXCEPT ![c] = n]
           /\ ready_threads' \in Seq(Threads)
           /\ ToSet(rq) = ToSet(ready_threads') \cup ({n} \ {Idle})
           /\ IsInjective(rq) => IsInjective(ready_threads') /\ n \notin ToSet(ready_threads')
    BY <1>0, <1>4, WaitAndPopLemma DEF TypeOK
  <2>3. ex2[c] \notin Threads
    BY <1>0 DEF TypeOK
  <2>4. Placement([ex2 EXCEPT ![c] = n], rq', wt', lf)
    BY <2>1, <2>2, <2>3, PopMove
  <2>5. [ex2 EXCEPT ![c] = n] = ex'
    BY <1>0, <2>2 DEF TypeOK
  <2> QED
    BY <1>4, <2>4, <2>5
<1>5. ASSUME NEW c \in CPUs, NEW t \in Threads, Join(c, t) PROVE Goal
  <2>1. ex[c] \in Threads /\ t \in Objects
    BY <1>0, <1>5 DEF Join, Call, ExecInv, Objects
  <2>2. CASE lf[t] \in {"finished", "freed"}
    BY <1>1, <1>5, <2>2 DEF Join, Return
  <2>3. CASE lf[t] = "live"
    <3>1. WaitAndPop(c, rq) /\ lf' = lf /\ wt' = [wt EXCEPT ![t] = Append(wt[t], ex[c])]
      BY <1>5, <2>3 DEF Join
    <3> QED
      BY <2>1, <3>1, <1>4
  <2> QED
    BY <1>0, <1>5, <2>2, <2>3 DEF Join, TypeOK, Lives
<1>6. ASSUME NEW c \in CPUs, NEW m \in Mutexes, Lock(c, m) PROVE Goal
  <2>1. ex[c] \in Threads /\ m \in Objects
    BY <1>0, <1>6 DEF Lock, ExecInv, Objects
  <2>2. CASE free[m]
    BY <1>1, <1>6, <2>2 DEF Lock, Return
  <2>3. CASE ~free[m]
    <3>1. WaitAndPop(c, rq) /\ lf' = lf /\ wt' = [wt EXCEPT ![m] = Append(wt[m], ex[c])]
      BY <1>6, <2>3 DEF Lock
    <3> QED
      BY <2>1, <3>1, <1>4
  <2> QED
    BY <2>2, <2>3
<1>7. ASSUME NEW o \in Objects, rq' = rq \o HandedTo(o), ex' = ex, lf' = lf,
             wt' = [wt EXCEPT ![o] = AfterHandOff(o)]
      PROVE  Goal
  <2>1. /\ HandedTo(o) \in Seq(Threads) /\ AfterHandOff(o) \in Seq(Threads)
        /\ ToSet(wt[o]) = ToSet(HandedTo(o)) \cup ToSet(AfterHandOff(o))
        /\ ToSet(HandedTo(o)) \cap ToSet(AfterHandOff(o)) = {}
        /\ IsInjective(HandedTo(o)) /\ IsInjective(AfterHandOff(o))
    BY <1>0, HandOffLemma DEF Placement, Apart
  <2> QED
    BY <1>0, <1>7, <2>1, WakeMove
<1>8. ASSUME NEW c \in CPUs, NEW m \in Mutexes, Unlock(c, m) PROVE Goal
  <2>1. CASE Owns(ex[c], m)
    BY <1>7, <1>8, <2>1 DEF Unlock, Return, Objects
  <2>2. CASE ~Owns(ex[c], m)
    BY <1>1, <1>8, <2>2 DEF Unlock, Return
  <2> QED
    BY <2>1, <2>2
<1>9. ASSUME NEW c \in CPUs, NEW v \in CVs, Signal(c, v) PROVE Goal
  BY <1>7, <1>9 DEF Signal, Return, Objects
<1>10. ASSUME NEW c \in CPUs, NEW v \in CVs, NEW m \in Mutexes, Wait(c, v, m) PROVE Goal
  <2>1. CASE ~Owns(ex[c], m)
    BY <1>1, <1>10, <2>1 DEF Wait, Return
  <2>2. CASE Owns(ex[c], m)
    <3> DEFINE a == HandedTo(m)
               b == AfterHandOff(m)
               rq2 == rq \o a
               wt2 == [wt EXCEPT ![m] = b]
               ex2 == [ex EXCEPT ![c] = None]
    <3>1. /\ ex[c] \in Threads /\ m \in Objects /\ v \in Objects /\ m # v
      BY <1>0, <1>10 DEF Wait, Call, ExecInv, Objects
    <3>2. /\ WaitAndPop(c, rq2) /\ lf' = lf
          /\ wt' = [wt EXCEPT ![m] = b, ![v] = Append(wt[v], ex[c])]
      BY <1>10, <2>2, <3>1 DEF Wait
    <3>3. /\ a \in Seq(Threads) /\ b \in Seq(Threads)
          /\ ToSet(wt[m]) = ToSet(a) \cup ToSet(b) /\ ToSet(a) \cap ToSet(b) = {}
          /\ IsInjective(a) /\ IsInjective(b)
      BY <1>0, <3>1, HandOffLemma DEF Placement, Apart
    <3>4. PlaceType(ex, rq2, wt2, lf) /\ Placement(ex, rq2, wt2, lf)
      BY <1>0, <3>1, <3>3, WakeMove
    <3>5. wt' = [wt2 EXCEPT ![v] = Append(wt2[v], ex[c])]
      BY <1>0, <3>1, <3>2 DEF TypeOK
    <3> HIDE DEF rq2, wt2, a, b
    <3>6. PlaceType(ex2, rq2, wt', lf) /\ Placement(ex2, rq2, wt', lf)
      BY <3>1, <3>4, <3>5, ParkMove
    <3>7. PICK n \in Threads \cup {Idle} :
           /\ executing_thread' = [executing_thread EXCEPT ![c] = n]
           /\ ready_threads' \in Seq(Threads)
           /\ ToSet(rq2) = ToSet(ready_threads') \cup ({n} \ {Idle})
           /\ IsInjective(rq2) => IsInjective(ready_threads') /\ n \notin ToSet(ready_threads')
      BY <1>0, <3>2, <3>6, WaitAndPopLemma DEF PlaceType
    <3>8. ex2[c] \notin Threads /\ [ex2 EXCEPT ![c] = n] = ex'
      BY <1>0, <3>7 DEF TypeOK
    <3>9. Placement([ex2 EXCEPT ![c] = n], rq', wt', lf)
      <4> HIDE DEF ex2
      <4> QED
        BY <3>6, <3>7, <3>8, PopMove
    <3> QED
      BY <3>2, <3>8, <3>9
  <2> QED
    BY <2>1, <2>2
<1>11. ASSUME NEW c \in CPUs, NEW v \in CVs, Broadcast(c, v) PROVE Goal
  <2>1. /\ rq' = rq \o wt[v] /\ wt' = [wt EXCEPT ![v] = <<>>] /\ ex' = ex /\ lf' = lf
        /\ v \in Objects
    BY <1>11 DEF Broadcast, Return, Objects
  <2>2. wt[v] \in Seq(Threads) /\ IsInjective(wt[v])
    BY <1>0, <2>1 DEF TypeOK, Placement, Apart
  <2>3. <<>> \in Seq(Threads) /\ ToSet(<<>>) = {} /\ IsInjective(<<>>)
    BY EmptyLemma
  <2> QED
    BY <1>0, <2>1, <2>2, <2>3, WakeMove
<1>12. ASSUME NEW c \in CPUs, Finish(c) PROVE Goal
  <2> DEFINE t == ex[c]
             rq2 == rq \o wt[t]
             wt2 == [wt EXCEPT ![t] = <<>>]
             ex2 == [ex EXCEPT ![c] = None]
  <2>1. t \in Threads /\ t \in Objects
    BY <1>0, <1>12 DEF Finish, Call, ExecInv, Objects
  <2>2. /\ WaitAndPop(c, rq2) /\ wt' = wt2
        /\ lf' = [u \in Threads |-> IF u = t THEN "finished"
                                    ELSE IF u \in ToSet(finished_threads) THEN "freed"
                                    ELSE lf[u]]
    BY <1>12 DEF Finish
  <2>3. wt[t] \in Seq(Threads) /\ IsInjective(wt[t])
    BY <1>0, <2>1 DEF TypeOK, Placement, Apart
  <2>4. <<>> \in Seq(Threads) /\ ToSet(<<>>) = {} /\ IsInjective(<<>>)
    BY EmptyLemma
  <2>5. PlaceType(ex, rq2, wt2, lf) /\ Placement(ex, rq2, wt2, lf)
    BY <1>0, <2>1, <2>3, <2>4, WakeMove
  <2>6. /\ lf' \in [Threads -> Lives] /\ lf'[t] # "live"
        /\ \A u \in Threads \ {t} : lf'[u] = "live" <=> lf[u] = "live"
    BY <1>0, <2>1, <2>2 DEF TypeOK, LifeInv
  <2> HIDE DEF rq2, wt2
  <2>7. PlaceType(ex2, rq2, wt2, lf') /\ Placement(ex2, rq2, wt2, lf')
    BY <2>1, <2>5, <2>6, FinishMove
  <2>8. PICK n \in Threads \cup {Idle} :
           /\ executing_thread' = [executing_thread EXCEPT ![c] = n]
           /\ ready_threads' \in Seq(Threads)
           /\ ToSet(rq2) = ToSet(ready_threads') \cup ({n} \ {Idle})
           /\ IsInjective(rq2) => IsInjective(ready_threads') /\ n \notin ToSet(ready_threads')
    BY <1>0, <2>2, <2>7, WaitAndPopLemma DEF PlaceType
  <2>9. ex2[c] \notin Threads /\ [ex2 EXCEPT ![c] = n] = ex'
    BY <1>0, <2>8 DEF TypeOK
  <2>10. Placement([ex2 EXCEPT ![c] = n], rq', wt2, lf')
    <3> HIDE DEF ex2
    <3> QED
      BY <2>7, <2>8, <2>9, PopMove
  <2> QED
    BY <2>2, <2>9, <2>10
<1>13. ASSUME NEW c \in CPUs, Yield(c) PROVE Goal
  <2>1. CASE ex[c] = Idle \/ rq = <<>>
    BY <1>1, <1>13, <2>1 DEF Yield, Return
  <2>2. CASE ex[c] # Idle /\ rq # <<>>
    <3> DEFINE rq2 == Append(rq, ex[c])
               ex2 == [ex EXCEPT ![c] = None]
               n == Head(rq)
    <3>1. ex[c] \in Threads
      BY <1>0, <1>13, <2>2 DEF Yield, ExecInv
    <3>2. ex' = [ex EXCEPT ![c] = n] /\ rq' = Tail(rq2) /\ wt' = wt /\ lf' = lf
      BY <1>13, <2>2 DEF Yield
    <3>3. PlaceType(ex2, rq2, wt, lf) /\ Placement(ex2, rq2, wt, lf)
      BY <1>0, <3>1, YieldMove
    <3>4. rq2 # <<>> /\ Head(rq2) = n
      <4>1. rq \in Seq(Threads) /\ Len(rq) \in Nat /\ Len(rq) # 0
        BY <1>0, <2>2 DEF TypeOK
      <4>2. Len(rq2) = Len(rq) + 1 /\ rq2[1] = rq[1]
        BY <3>1, <4>1
      <4> QED
        BY <4>1, <4>2
    <3>5. /\ n \in Threads /\ rq' \in Seq(Threads)
          /\ ToSet(rq2) = {n} \cup ToSet(rq')
          /\ IsInjective(rq2) => n \notin ToSet(rq') /\ IsInjective(rq')
      BY <3>2, <3>3, <3>4, HeadTailLemma DEF PlaceType
    <3>6. ex2[c] \notin Threads /\ [ex2 EXCEPT ![c] = n] = ex'
      BY <1>0, <3>2 DEF TypeOK
    <3>7. n \in Threads \cup {Idle} /\ {n} \ {Idle} = {n}
      BY <3>5
    <3> HIDE DEF rq2, ex2, n
    <3>8. Placement([ex2 EXCEPT ![c] = n], rq', wt, lf)
      BY <3>3, <3>5, <3>6, <3>7, PopMove
    <3> QED
      BY <3>2, <3>6, <3>8
  <2> QED
    BY <2>1, <2>2
<1>14. ASSUME NEW c \in CPUs, IdleLoop(c) PROVE Goal
  <2>1. CASE rq # <<>>
    <3>1. WaitAndPop(c, rq) /\ wt' = wt /\ lf' = lf
      BY <1>14, <2>1 DEF IdleLoop
    <3>2. PICK n \in Threads \cup {Idle} :
           /\ executing_thread' = [executing_thread EXCEPT ![c] = n]
           /\ ready_threads' \in Seq(Threads)
           /\ ToSet(rq) = ToSet(ready_threads') \cup ({n} \ {Idle})
           /\ IsInjective(rq) => IsInjective(ready_threads') /\ n \notin ToSet(ready_threads')
      BY <1>0, <3>1, WaitAndPopLemma DEF TypeOK
    <3>3. ex[c] \notin Threads
      BY <1>0, <1>14 DEF IdleLoop, ExecInv
    <3> QED
      BY <1>0, <3>1, <3>2, <3>3, PopMove
  <2>2. CASE rq = <<>>
    BY <1>1, <1>14, <2>2 DEF IdleLoop
  <2> QED
    BY <2>1, <2>2
<1>15. ASSUME NEW c \in CPUs,
              Switch(c) \/ ReleaseGuard(c) \/ Suspend(c) \/ WakeUp(c) \/ IdleEnter(c)
       PROVE  Goal
  BY <1>1, <1>15 DEF Switch, ReleaseGuard, Suspend, WakeUp, IdleEnter
<1> QED
  BY <1>1, <1>2, <1>3, <1>5, <1>6, <1>8, <1>9, <1>10, <1>11, <1>12, <1>13,
     <1>14, <1>15
  DEF Next, CpuStep, UserCall, vars

(* Every thread is in exactly one place: no thread_ptr is owned by two     *)
(* CPUs or queues, and no live thread is dropped by a hand-off between     *)
(* them, for any number of CPUs racing for the guard.                      *)
THEOREM ThreadsPlaced == Spec => [](NoThreadTwice /\ NoThreadLost)
<1>1. Init => TypeInv /\ PlaceInv
  BY TypeInit, PlaceInit
<1>2. TypeInv /\ PlaceInv /\ [Next]_vars => (TypeInv /\ PlaceInv)'
  BY TypeStep, PlaceStep
<1>3. Spec => [](TypeInv /\ PlaceInv)
  BY <1>1, <1>2, PTL DEF Spec
<1>4. PlaceInv => NoThreadTwice /\ NoThreadLost
  BY DEF PlaceInv
<1> QED
  BY <1>3, <1>4, PTL

(* No thread is lost: a live thread always runs, is ready or is in the     *)
(* queue it waits in, so that push_and_signal or wait_and_pop finds it.    *)
THEOREM ThreadsKept == Spec => []NoThreadLost
BY ThreadsPlaced, PTL

-----------------------------------------------------------------------------
(* The guard and the stacks.                                               *)

(* cpu::guard is a lock: at most one CPU is inside the library with it.    *)
GuardInv ==
    /\ \A c \in CPUs : HoldsGuard(c) => guard
    /\ \A c, d \in CPUs : HoldsGuard(c) /\ HoldsGuard(d) => c = d

(* A CPU runs on the stack of its executing_thread, except between the     *)
(* assignment of executing_thread and the swapcontext; then no other CPU   *)
(* executes the thread whose stack it is still on.                         *)
StackInv ==
    /\ \A c \in CPUs : pc[c] = "boot" => stack[c] = None
    /\ \A c \in CPUs : pc[c] \notin {"boot", "switch"} => stack[c] = executing_thread[c]
    /\ \A c, d \in CPUs : /\ pc[c] = "switch" /\ stack[c] \in Threads /\ c # d
                          => executing_thread[d] # stack[c]

StacksKept == \A c \in CPUs : stack[c] \in Threads => life[stack[c]] # "freed"

CpuInv == GuardInv /\ StackInv /\ StacksKept

LEMMA CpuInit ==
    Init => CpuInv
BY ConstantsAssumption DEF Init, CpuInv, GuardInv, StackInv, StacksKept, HoldsGuard

(* Entering the library: c takes the guard and may choose another thread.  *)
LEMMA EnterStep ==
    ASSUME TypeInv, NoThreadTwice, GuardInv, StackInv, NEW c \in CPUs,
           ~guard, guard' = TRUE, pc[c] \in PCs \ {"switch"},
           NEW q \in {"switch", "locked", "idle"}, pc' = [pc EXCEPT ![c] = q],
           NEW n, executing_thread' = [executing_thread EXCEPT ![c] = n],
           q # "switch" => pc[c] # "boot" /\ n = executing_thread[c],
           UNCHANGED stack
    PROVE  GuardInv' /\ StackInv'
<1> USE ConstantsAssumption
<1>1. \A d \in CPUs : ~HoldsGuard(d)
  BY DEF GuardInv
<1>2. /\ \A d \in CPUs : pc'[d] = IF d = c THEN q ELSE pc[d]
      /\ \A d \in CPUs : executing_thread'[d] = IF d = c THEN n ELSE executing_thread[d]
  BY DEF TypeInv, TypeOK
<1>3. GuardInv'
  BY <1>1, <1>2 DEF GuardInv, HoldsGuard
<1>4. StackInv'
  <2>1. \A d \in CPUs : pc[d] # "switch"
    BY <1>1 DEF HoldsGuard
  <2>2. pc[c] = "boot" => stack[c] = None
    BY DEF StackInv
  <2>3. pc[c] # "boot" => stack[c] = executing_thread[c]
    BY <2>1 DEF StackInv
  <2>4. \A d \in CPUs : d # c /\ stack[c] \in Threads => executing_thread[d] # stack[c]
    BY <2>2, <2>3 DEF NoThreadTwice
  <2> QED
    BY <1>2, <2>1, <2>3, <2>4 DEF StackInv
<1> QED
  BY <1>3, <1>4

LEMMA CpuStepLemma ==
    ASSUME TypeInv, PlaceInv, GuardInv, StackInv, [Next]_vars
    PROVE  GuardInv' /\ StackInv'
<1> USE ConstantsAssumption
<1>0. /\ TypeOK /\ ExecInv /\ NoThreadTwice
      /\ pc \in [CPUs -> PCs] /\ executing_thread \in [CPUs -> Threads \cup {Idle, None}]
      /\ stack \in [CPUs -> Threads \cup {Idle, None}]
  BY DEF TypeInv, PlaceInv, TypeOK
<1>1. CASE UNCHANGED vars
  BY <1>1 DEF vars, GuardInv, StackInv, HoldsGuard
<1>2. ASSUME NEW c \in CPUs, ~guard, guard' = TRUE, pc[c] # "switch", UNCHANGED stack,
             \/ pc[c] # "boot" /\ Return(c)
             \/ pc' = [pc EXCEPT ![c] = "switch"]
                  /\ executing_thread' = [executing_thread EXCEPT ![c] = executing_thread'[c]]
      PROVE  GuardInv' /\ StackInv'
  <2>1. CASE pc[c] # "boot" /\ Return(c)
    <3>1. executing_thread' = [executing_thread EXCEPT ![c] = executing_thread[c]]
      BY <1>0, <2>1 DEF Return
    <3> QED
      BY <1>0, <1>2, <2>1, <3>1, EnterStep DEF Return
  <2>2. CASE pc' = [pc EXCEPT ![c] = "switch"]
              /\ executing_thread' = [executing_thread EXCEPT ![c] = executing_thread'[c]]
    BY <1>0, <1>2, <2>2, EnterStep
  <2> QED
    BY <1>2, <2>1, <2>2
<1>3. ASSUME NEW c \in CPUs, Boot(c) PROVE GuardInv' /\ StackInv'
  BY <1>0, <1>2, <1>3 DEF Boot, AcquireGuard, WaitAndPop
<1>4. ASSUME NEW c \in CPUs, NEW t \in Threads, Create(c, t) \/ Join(c, t)
      PROVE  GuardInv' /\ StackInv'
  BY <1>0, <1>2, <1>4 DEF Create, Join, Call, AcquireGuard, WaitAndPop
<1>5. ASSUME NEW c \in CPUs, NEW m \in Mutexes, Lock(c, m) \/ Unlock(c, m)
      PROVE  GuardInv' /\ StackInv'
  BY <1>0, <1>2, <1>5 DEF Lock, Unlock, Call, AcquireGuard, WaitAndPop
<1>6. ASSUME NEW c \in CPUs, NEW v \in CVs, Signal(c, v) \/ Broadcast(c, v)
      PROVE  GuardInv' /\ StackInv'
  BY <1>0, <1>2, <1>6 DEF Signal, Broadcast, Call, AcquireGuard
<1>7. ASSUME NEW c \in CPUs, NEW v \in CVs, NEW m \in Mutexes, Wait(c, v, m)
      PROVE  GuardInv' /\ StackInv'
  BY <1>0, <1>2, <1>7 DEF Wait, Call, AcquireGuard, WaitAndPop
<1>8. ASSUME NEW c \in CPUs, Finish(c) PROVE GuardInv' /\ StackInv'
  BY <1>0, <1>2, <1>8 DEF Finish, Call, AcquireGuard, WaitAndPop
<1>9. ASSUME NEW c \in CPUs, Yield(c) PROVE GuardInv' /\ StackInv'
  BY <1>0, <1>2, <1>9 DEF Yield, AcquireGuard
<1>10. ASSUME NEW c \in CPUs, IdleEnter(c) PROVE GuardInv' /\ StackInv'
  <2>1. executing_thread' = [executing_thread EXCEPT ![c] = executing_thread[c]]
    BY <1>0, <1>10 DEF IdleEnter
  <2> QED
    BY <1>0, <1>10, <2>1, EnterStep DEF IdleEnter, AcquireGuard
<1>11. ASSUME NEW c \in CPUs, Switch(c) PROVE GuardInv' /\ StackInv'
  BY <1>0, <1>11 DEF Switch, GuardInv, StackInv, HoldsGuard
<1>12. ASSUME NEW c \in CPUs, ReleaseGuard(c) PROVE GuardInv' /\ StackInv'
  <2>1. /\ pc[c] = "locked" /\ guard' = FALSE /\ UNCHANGED <<stack, executing_thread>>
        /\ pc' = [pc EXCEPT ![c] = pc'[c]] /\ pc'[c] \in {"user", "woken"}
    BY <1>0, <1>12 DEF ReleaseGuard
  <2> QED
    BY <1>0, <2>1 DEF GuardInv, StackInv, HoldsGuard
<1>13. ASSUME NEW c \in CPUs, IdleLoop(c) PROVE GuardInv' /\ StackInv'
  <2>1. CASE ready_threads = <<>>
    <3>1. /\ pc[c] = "idle" /\ guard' = FALSE /\ UNCHANGED <<stack, executing_thread>>
          /\ pc' = [pc EXCEPT ![c] = "suspending"]
      BY <1>13, <2>1 DEF IdleLoop
    <3> QED
      BY <1>0, <3>1 DEF GuardInv, StackInv, HoldsGuard
  <2>2. CASE ready_threads # <<>>
    <3>1. /\ pc[c] = "idle" /\ UNCHANGED <<stack, guard>>
          /\ pc' = [pc EXCEPT ![c] = "switch"]
          /\ executing_thread' = [executing_thread EXCEPT ![c] = executing_thread'[c]]
      BY <1>0, <1>13, <2>2 DEF IdleLoop, WaitAndPop
    <3>2. stack[c] = Idle
      BY <1>0, <3>1 DEF StackInv, ExecInv
    <3> QED
      BY <1>0, <3>1, <3>2 DEF GuardInv, StackInv, HoldsGuard
  <2> QED
    BY <2>1, <2>2
<1>14. ASSUME NEW c \in CPUs, Suspend(c) \/ WakeUp(c) PROVE GuardInv' /\ StackInv'
  <2>1. /\ pc[c] \in {"suspending", "suspended"} /\ UNCHANGED <<stack, guard, executing_thread>>
        /\ pc' = [pc EXCEPT ![c] = pc'[c]] /\ pc'[c] \in {"suspended", "woken"}
    BY <1>0, <1>14 DEF Suspend, WakeUp
  <2> QED
    BY <1>0, <2>1 DEF GuardInv, StackInv, HoldsGuard
<1> QED
  BY <1>1, <1>3, <1>4, <1>5, <1>6, <1>7, <1>8, <1>9, <1>10, <1>11, <1>12,
     <1>13, <1>14
  DEF Next, CpuStep, UserCall

(* Only func_with_swap frees stacks, and only those of threads that        *)
(* finished earlier, which no CPU runs on any more.                        *)
LEMMA StacksKeptStep ==
    ASSUME TypeInv, PlaceInv, CpuInv, [Next]_vars
    PROVE  StacksKept'
<1> USE ConstantsAssumption
<1>0. /\ TypeOK /\ ExecInv /\ NoThreadLost /\ LifeInv /\ GuardInv /\ StackInv /\ StacksKept
      /\ stack \in [CPUs -> Threads \cup {Idle, None}] /\ life \in [Threads -> Lives]
  BY DEF TypeInv, PlaceInv, TypeOK, CpuInv
<1>1. CASE UNCHANGED <<stack, life>>
  BY <1>0, <1>1 DEF StacksKept
<1>2. ASSUME NEW t \in Threads, life' = [life EXCEPT ![t] = "live"], UNCHANGED stack
      PROVE  StacksKept'
  BY <1>0, <1>2 DEF StacksKept
<1>3. ASSUME NEW c \in CPUs, Finish(c) PROVE StacksKept'
  <2> DEFINE t == executing_thread[c]
  <2>1. /\ t \in Threads /\ pc[c] = "user" /\ ~guard /\ UNCHANGED stack
        /\ life' = [u \in Threads |-> IF u = t THEN "finished"
                                      ELSE IF u \in ToSet(finished_threads) THEN "freed"
                                      ELSE life[u]]
    BY <1>0, <1>3 DEF Finish, Call, AcquireGuard, ExecInv
  <2>2. \A d \in CPUs : pc[d] # "switch"
    BY <1>0, <2>1 DEF GuardInv, HoldsGuard
  <2>3. \A d \in CPUs : stack[d] \in Threads => stack[d] = executing_thread[d]
    BY <1>0, <2>2 DEF StackInv
  <2>4. \A d \in CPUs : stack[d] \in Threads => life[stack[d]] = "live"
    BY <2>3, <1>0 DEF NoThreadLost, Running
  <2> QED
    BY <1>0, <2>1, <2>4 DEF StacksKept, LifeInv
<1>4. ASSUME NEW c \in CPUs, Switch(c) PROVE StacksKept'
  <2>1. stack' = [stack EXCEPT ![c] = executing_thread[c]] /\ UNCHANGED life
    BY <1>4 DEF Switch
  <2>2. executing_thread[c] \in Threads => life[executing_thread[c]] = "live"
    BY <1>0 DEF NoThreadLost, Running
  <2> QED
    BY <1>0, <2>1, <2>2 DEF StacksKept
<1>5. ASSUME NEW c \in CPUs, Boot(c) PROVE StacksKept'
  BY <1>1, <1>2, <1>5 DEF Boot
<1>6. ASSUME NEW c \in CPUs, NEW t \in Threads, Create(c, t) \/ Join(c, t) PROVE StacksKept'
  BY <1>1, <1>2, <1>6 DEF Create, Join
<1>7. ASSUME NEW c \in CPUs, NEW m \in Mutexes, Lock(c, m) \/ Unlock(c, m) PROVE StacksKept'
  BY <1>1, <1>7 DEF Lock, Unlock
<1>8. ASSUME NEW c \in CPUs, NEW v \in CVs,
             Signal(c, v) \/ Broadcast(c, v) \/ \E m \in Mutexes : Wait(c, v, m)
      PROVE  StacksKept'
  BY <1>1, <1>8 DEF Signal, Broadcast, Wait
<1>9. ASSUME NEW c \in CPUs,
             Yield(c) \/ ReleaseGuard(c) \/ IdleLoop(c) \/ Suspend(c) \/ WakeUp(c) \/ IdleEnter(c)
      PROVE  StacksKept'
  BY <1>1, <1>9 DEF Yield, ReleaseGuard, IdleLoop, Suspend, WakeUp, IdleEnter
<1> QED
  BY <1>1, <1>3, <1>4, <1>5, <1>6, <1>7, <1>8, <1>9 DEF Next, CpuStep, UserCall, vars

(* The switch invariant: no stack is run by two CPUs, and none is freed    *)
(* while a CPU runs on it.                                                 *)
THEOREM StacksExclusive == Spec => []StackExclusive
<1>1. Init => TypeInv /\ PlaceInv /\ CpuInv
  BY TypeInit, PlaceInit, CpuInit
<1>2. TypeInv /\ PlaceInv /\ CpuInv /\ [Next]_vars => (TypeInv /\ PlaceInv /\ CpuInv)'
  BY TypeStep, PlaceStep, CpuStepLemma, StacksKeptStep DEF CpuInv
<1>3. TypeInv /\ PlaceInv /\ CpuInv => StackExclusive
  <2> SUFFICES ASSUME TypeInv, PlaceInv, CpuInv PROVE StackExclusive
    OBVIOUS
  <2>1. ASSUME NEW c \in CPUs, NEW d \in CPUs, stack[c] = stack[d], stack[c] \in Threads
        PROVE  c = d
    <3>1. pc[c] # "boot" /\ pc[d] # "boot"
      BY <2>1, ConstantsAssumption DEF CpuInv, StackInv
    <3>2. CASE pc[c] = "switch" \/ pc[d] = "switch"
      BY <2>1, <3>1, <3>2 DEF CpuInv, GuardInv, StackInv, HoldsGuard
    <3>3. CASE pc[c] # "switch" /\ pc[d] # "switch"
      BY <2>1, <3>1, <3>3 DEF CpuInv, StackInv, PlaceInv, NoThreadTwice
    <3> QED
      BY <3>2, <3>3
  <2> QED
    BY <2>1 DEF CpuInv, StacksKept, StackExclusive
<1> QED
  BY <1>1, <1>2, <1>3, PTL DEF Spec

-----------------------------------------------------------------------------
(* Mutexes.                                                                *)

(* MutualExclusion is kept by ReleaseGuard, where lock() returns, because  *)
(* a thread inside mutex::lock owns the mutex or is in its queue, and a    *)
(* running thread is in no queue.  Owners that were handed the mutex by    *)
(* unlock_mutex stay owners until they run: only the owner, in user code   *)
(* and not inside lock(), can unlock it.                                   *)
MutexInv ==
    /\ MutualExclusion
    /\ \A t \in Threads, m \in Mutexes : locking[t] = m => WaitsOn(t, m) \/ Owns(t, m)
    /\ \A t \in Threads, m \in Mutexes : WaitsOn(t, m) => locking[t] = m
    /\ \A c \in CPUs : pc[c] = "user" => locking[executing_thread[c]] = None
    /\ \A m \in Mutexes : free[m] => waiting_threads[m] = <<>>

LEMMA MutexInit ==
    Init => MutexInv
<1> SUFFICES ASSUME Init PROVE MutexInv
  OBVIOUS
<1>1. ToSet(<<>>) = {}
  BY EmptyLemma
<1> QED
  BY <1>1, ConstantsAssumption DEF Init, MutexInv, MutualExclusion, WaitsOn, Objects

(* The owner t on CPU c gives the mutex up (unlock, wait). *)
LEMMA HandOffStep ==
    ASSUME TypeInv, MutexInv, NoThreadTwice, NEW c \in CPUs, NEW m \in Mutexes, pc[c] = "user",
           executing_thread[c] \in Threads, Owns(executing_thread[c], m), UnlockMutex(m),
           held' = [held EXCEPT ![executing_thread[c]] = @ \ {m}],
           UNCHANGED locking,
           waiting_threads'[m] = AfterHandOff(m),
           \A l \in Mutexes \ {m} : waiting_threads'[l] = waiting_threads[l],
           \A d \in CPUs : pc'[d] = "user" => pc[d] = "user" /\ executing_thread'[d] = executing_thread[d]
    PROVE  MutexInv'
<1> USE ConstantsAssumption
<1> DEFINE t == executing_thread[c]
<1>0. TypeOK /\ m \in Objects /\ Mutexes \subseteq Objects
  BY DEF TypeInv, Objects
<1>1. /\ IsInjective(waiting_threads[m])
      /\ ToSet(waiting_threads[m]) = ToSet(HandedTo(m)) \cup ToSet(AfterHandOff(m))
      /\ ToSet(HandedTo(m)) \cap ToSet(AfterHandOff(m)) = {}
      /\ waiting_threads[m] # <<>> => /\ Head(waiting_threads[m]) \in Threads
                                      /\ ToSet(HandedTo(m)) = {Head(waiting_threads[m])}
  BY <1>0, HandOffLemma DEF NoThreadTwice
<1>2. waiting_threads[m] = <<>> => AfterHandOff(m) = <<>> /\ ToSet(waiting_threads[m]) = {}
  BY EmptyLemma DEF AfterHandOff
<1>3. /\ \A l \in Mutexes \ {m} : free'[l] = free[l] /\ owned_thread'[l] = owned_thread[l]
      /\ free'[m] <=> waiting_threads[m] = <<>>
      /\ waiting_threads[m] # <<>> => owned_thread'[m] = Head(waiting_threads[m])
  <2>1. free \in [Mutexes -> BOOLEAN] /\ owned_thread \in [Mutexes -> Threads \cup {None}]
    BY <1>0 DEF TypeOK
  <2>2. free'[m] <=> waiting_threads[m] = <<>>
    BY <2>1, Zenon DEF UnlockMutex
  <2>3. \A l \in Mutexes \ {m} : free'[l] = free[l] /\ owned_thread'[l] = owned_thread[l]
    BY <2>1 DEF UnlockMutex
  <2>4. waiting_threads[m] # <<>> => owned_thread'[m] = Head(waiting_threads[m])
    BY <2>1 DEF UnlockMutex
  <2> QED
    BY <2>2, <2>3, <2>4
<1>4. held \in [Threads -> SUBSET Mutexes] /\ t \in Threads
  BY <1>0 DEF TypeOK
<1>5. MutualExclusion'
  <2> SUFFICES ASSUME NEW l \in Mutexes, NEW u \in Threads, l \in held'[u]
               PROVE  Owns(u, l)'
    BY DEF MutualExclusion
  <2>1. l \in held[u] /\ Owns(u, l)
    BY <1>4 DEF MutexInv, MutualExclusion
  <2>2. l # m
    BY <1>4, <2>1 DEF Owns
  <2> QED
    BY <1>3, <2>1, <2>2 DEF Owns
<1>6. \A u \in Threads, l \in Mutexes : locking'[u] = l => (WaitsOn(u, l) \/ Owns(u, l))'
  <2> SUFFICES ASSUME NEW u \in Threads, NEW l \in Mutexes, locking[u] = l
               PROVE  (WaitsOn(u, l) \/ Owns(u, l))'
    OBVIOUS
  <2>1. WaitsOn(u, l) \/ Owns(u, l)
    BY DEF MutexInv
  <2>2. CASE l # m
    BY <1>3, <2>1, <2>2 DEF WaitsOn, Owns
  <2>3. CASE l = m
    <3>1. u # t
      BY <2>3 DEF MutexInv
    <3>2. u \in ToSet(waiting_threads[m])
      BY <2>1, <2>3, <3>1 DEF WaitsOn, Owns
    <3>3. waiting_threads[m] # <<>>
      BY <3>2, <1>2
    <3>4. u = Head(waiting_threads[m]) \/ u \in ToSet(AfterHandOff(m))
      BY <3>2, <3>3, <1>1
    <3> QED
      BY <1>3, <2>3, <3>3, <3>4 DEF WaitsOn, Owns
  <2> QED
    BY <2>2, <2>3
<1>7. \A u \in Threads, l \in Mutexes : WaitsOn(u, l)' => locking'[u] = l
  BY <1>1 DEF MutexInv, WaitsOn
<1>8. \A d \in CPUs : pc'[d] = "user" => locking'[executing_thread'[d]] = None
  BY DEF MutexInv
<1>9. \A l \in Mutexes : free'[l] => waiting_threads'[l] = <<>>
  BY <1>2, <1>3 DEF MutexInv
<1> QED
  BY <1>5, <1>6, <1>7, <1>8, <1>9 DEF MutexInv

LEMMA MutexStep ==
    ASSUME TypeInv, PlaceInv, MutexInv, [Next]_vars
    PROVE  MutexInv'
<1> USE ConstantsAssumption
<1>0. /\ TypeOK /\ ExecInv /\ NoThreadTwice
      /\ pc \in [CPUs -> PCs] /\ executing_thread \in [CPUs -> Threads \cup {Idle, None}]
      /\ free \in [Mutexes -> BOOLEAN]
      /\ owned_thread \in [Mutexes -> Threads \cup {None}]
      /\ waiting_threads \in [Objects -> Seq(Threads)]
      /\ locking \in [Threads -> Mutexes \cup {None}]
      /\ held \in [Threads -> SUBSET Mutexes]
      /\ Mutexes \subseteq Objects
  BY DEF TypeInv, PlaceInv, TypeOK, Objects
<1>1. ASSUME UNCHANGED <<free, owned_thread, locking, held>>,
             \A m \in Mutexes : waiting_threads'[m] = waiting_threads[m],
             \A d \in CPUs : pc'[d] = "user" =>
                 pc[d] = "user" /\ executing_thread'[d] = executing_thread[d]
      PROVE  MutexInv'
  BY <1>1 DEF MutexInv, MutualExclusion, WaitsOn, Owns
<1>2. ASSUME NEW c \in CPUs, Boot(c) PROVE MutexInv'
  BY <1>0, <1>1, <1>2 DEF Boot, WaitAndPop
<1>3. ASSUME NEW c \in CPUs, NEW t \in Threads, Create(c, t) PROVE MutexInv'
  BY <1>0, <1>1, <1>3 DEF Create, Return
<1>4. ASSUME NEW c \in CPUs, NEW t \in Threads, Join(c, t) PROVE MutexInv'
  <2>1. \A m \in Mutexes : waiting_threads'[m] = waiting_threads[m]
    BY <1>0, <1>4 DEF Join
  <2> QED
    BY <1>0, <1>1, <1>4, <2>1 DEF Join, Return, WaitAndPop
<1>5. ASSUME NEW c \in CPUs, NEW v \in CVs, Signal(c, v) \/ Broadcast(c, v) PROVE MutexInv'
  <2>1. \A m \in Mutexes : waiting_threads'[m] = waiting_threads[m]
    BY <1>0, <1>5 DEF Signal, Broadcast
  <2> QED
    BY <1>0, <1>1, <1>5, <2>1 DEF Signal, Broadcast, Return
<1>6. ASSUME NEW c \in CPUs, Finish(c) PROVE MutexInv'
  <2>1. executing_thread[c] \in Threads
    BY <1>0, <1>6 DEF Finish, Call, ExecInv
  <2>2. \A m \in Mutexes : waiting_threads'[m] = waiting_threads[m]
    BY <1>0, <1>6, <2>1 DEF Finish
  <2> QED
    BY <1>0, <1>1, <1>6, <2>2 DEF Finish, WaitAndPop
<1>7. ASSUME NEW c \in CPUs, Yield(c) PROVE MutexInv'
  BY <1>0, <1>1, <1>7 DEF Yield, Return
<1>8. ASSUME NEW c \in CPUs, Switch(c) PROVE MutexInv'
  BY <1>0, <1>1, <1>8 DEF Switch
<1>9. ASSUME NEW c \in CPUs, IdleLoop(c) PROVE MutexInv'
  BY <1>0, <1>1, <1>9 DEF IdleLoop, WaitAndPop
<1>10. ASSUME NEW c \in CPUs, Suspend(c) \/ WakeUp(c) \/ IdleEnter(c) PROVE MutexInv'
  BY <1>0, <1>1, <1>10 DEF Suspend, WakeUp, IdleEnter
<1>11. ASSUME NEW c \in CPUs, NEW m \in Mutexes, Unlock(c, m) PROVE MutexInv'
  <2>1. executing_thread[c] \in Threads /\ pc[c] = "user"
    BY <1>0, <1>11 DEF Unlock, Call, ExecInv
  <2>2. CASE Owns(executing_thread[c], m)
    <3>1. /\ UnlockMutex(m) /\ UNCHANGED locking
          /\ waiting_threads' = [waiting_threads EXCEPT ![m] = AfterHandOff(m)]
          /\ held' = [held EXCEPT ![executing_thread[c]] = @ \ {m}]
          /\ pc' = [pc EXCEPT ![c] = "locked"] /\ UNCHANGED executing_thread
      BY <1>11, <2>2 DEF Unlock, Return
    <3>2. /\ waiting_threads'[m] = AfterHandOff(m)
          /\ \A l \in Mutexes \ {m} : waiting_threads'[l] = waiting_threads[l]
          /\ \A d \in CPUs : pc'[d] = "user" =>
                 pc[d] = "user" /\ executing_thread'[d] = executing_thread[d]
      BY <1>0, <3>1
    <3> QED
      BY <1>0, <2>1, <2>2, <3>1, <3>2, HandOffStep
  <2>3. CASE ~Owns(executing_thread[c], m)
    BY <1>0, <1>1, <1>11, <2>3 DEF Unlock, Return
  <2> QED
    BY <2>2, <2>3
<1>12. ASSUME NEW c \in CPUs, NEW v \in CVs, NEW m \in Mutexes, Wait(c, v, m) PROVE MutexInv'
  <2>1. executing_thread[c] \in Threads /\ pc[c] = "user"
    BY <1>0, <1>12 DEF Wait, Call, ExecInv
  <2>2. CASE Owns(executing_thread[c], m)
    <3>1. /\ UnlockMutex(m) /\ UNCHANGED locking
          /\ waiting_threads' = [waiting_threads EXCEPT ![m] = AfterHandOff(m),
                                     ![v] = Append(@, executing_thread[c])]
          /\ held' = [held EXCEPT ![executing_thread[c]] = @ \ {m}]
          /\ pc' = [pc EXCEPT ![c] = "switch"]
          /\ executing_thread' = [executing_thread EXCEPT ![c] = executing_thread'[c]]
      BY <1>0, <1>12, <2>2 DEF Wait, WaitAndPop
    <3>2. /\ waiting_threads'[m] = AfterHandOff(m)
          /\ \A l \in Mutexes \ {m} : waiting_threads'[l] = waiting_threads[l]
      BY <1>0, <3>1
    <3>3. \A d \in CPUs : pc'[d] = "user" =>
              pc[d] = "user" /\ executing_thread'[d] = executing_thread[d]
      BY <1>0, <3>1
    <3> QED
      BY <1>0, <2>1, <2>2, <3>1, <3>2, <3>3, HandOffStep
  <2>3. CASE ~Owns(executing_thread[c], m)
    BY <1>0, <1>1, <1>12, <2>3 DEF Wait, Return
  <2> QED
    BY <2>2, <2>3
<1>13. ASSUME NEW c \in CPUs, NEW m \in Mutexes, Lock(c, m) PROVE MutexInv'
  <2> DEFINE t == executing_thread[c]
  <2>1. t \in Threads /\ pc[c] = "user" /\ locking[t] = None
    BY <1>0, <1>13 DEF Lock, ExecInv, MutexInv
  <2>2. \A d \in CPUs : d # c => executing_thread[d] # t
    BY <1>0, <2>1 DEF NoThreadTwice
  <2>3. locking' = [locking EXCEPT ![t] = m] /\ UNCHANGED held
    BY <1>13 DEF Lock
  <2>4. \A d \in CPUs : pc'[d] = "user" => locking'[executing_thread'[d]] = None
    <3>1. /\ \A d \in CPUs : pc'[d] = "user" =>
                 d # c /\ pc[d] = "user" /\ executing_thread'[d] = executing_thread[d]
      BY <1>0, <1>13 DEF Lock, Return, WaitAndPop
    <3> QED
      BY <1>0, <2>2, <2>3, <3>1 DEF MutexInv, ExecInv
  <2>5. CASE free[m]
    <3>1. /\ free' = [free EXCEPT ![m] = FALSE] /\ owned_thread' = [owned_thread EXCEPT ![m] = t]
          /\ UNCHANGED waiting_threads
      BY <1>13, <2>5 DEF Lock
    <3>2. \A u \in Threads : ~WaitsOn(u, m) /\ ~Owns(u, m) /\ m \notin held[u]
      BY <2>5, EmptyLemma DEF MutexInv, WaitsOn, Owns, MutualExclusion
    <3> QED
      BY <1>0, <2>1, <2>3, <2>4, <3>1, <3>2 DEF MutexInv, MutualExclusion, WaitsOn, Owns
  <2>6. CASE ~free[m]
    <3>1. /\ UNCHANGED <<free, owned_thread>>
          /\ waiting_threads' = [waiting_threads EXCEPT ![m] = Append(waiting_threads[m], t)]
      BY <1>13, <2>6 DEF Lock
    <3>2. ToSet(waiting_threads'[m]) = ToSet(waiting_threads[m]) \cup {t}
      BY <1>0, <2>1, <3>1, AppendLemma
    <3>3. \A l \in Mutexes \ {m} : waiting_threads'[l] = waiting_threads[l]
      BY <1>0, <3>1
    <3>4. \A u \in Threads, l \in Mutexes :
             WaitsOn(u, l)' <=> WaitsOn(u, l) \/ (u = t /\ l = m)
      BY <3>2, <3>3 DEF WaitsOn
    <3>5. \A u \in Threads, l \in Mutexes : Owns(u, l)' <=> Owns(u, l)
      BY <3>1 DEF Owns
    <3>6. \A u \in Threads : locking'[u] = IF u = t THEN m ELSE locking[u]
      BY <1>0, <2>3
    <3>7. /\ MutualExclusion'
          /\ \A l \in Mutexes : free'[l] => waiting_threads'[l] = <<>>
      BY <2>3, <2>6, <3>1, <3>3, <3>5 DEF MutexInv, MutualExclusion
    <3>8. /\ \A u \in Threads, l \in Mutexes : locking'[u] = l => (WaitsOn(u, l) \/ Owns(u, l))'
          /\ \A u \in Threads, l \in Mutexes : WaitsOn(u, l)' => locking'[u] = l
      BY <2>1, <3>4, <3>5, <3>6 DEF MutexInv
    <3> QED
      BY <2>4, <3>7, <3>8 DEF MutexInv
  <2> QED
    BY <2>5, <2>6
<1>14. ASSUME NEW c \in CPUs, ReleaseGuard(c) PROVE MutexInv'
  <2> DEFINE t == executing_thread[c]
  <2>1. CASE t = Idle
    BY <1>0, <1>1, <1>14, <2>1 DEF ReleaseGuard
  <2>2. CASE t # Idle
    <3>1. /\ held' = [held EXCEPT ![t] = @ \cup ({locking[t]} \ {None})]
          /\ locking' = [locking EXCEPT ![t] = None]
          /\ pc' = [pc EXCEPT ![c] = "user"]
          /\ UNCHANGED <<executing_thread, free, owned_thread, waiting_threads>>
      BY <1>14, <2>2 DEF ReleaseGuard
    <3>2. t \in Threads
      BY <1>0, <1>14, <2>2 DEF ReleaseGuard, ExecInv
    <3>3. \A m \in Mutexes : ~WaitsOn(t, m)
      BY <1>0, <3>2 DEF NoThreadTwice, Running
    <3>4. \A m \in Mutexes : locking[t] = m => Owns(t, m)
      BY <3>2, <3>3 DEF MutexInv
    <3>5. /\ \A u \in Threads : locking'[u] = IF u = t THEN None ELSE locking[u]
          /\ \A u \in Threads : u # t => held'[u] = held[u]
          /\ held'[t] \subseteq held[t] \cup {locking[t]}
      BY <1>0, <3>1, <3>2
    <3>6. \A u \in Threads, m \in Mutexes : /\ WaitsOn(u, m)' <=> WaitsOn(u, m)
                                            /\ Owns(u, m)' <=> Owns(u, m)
      BY <3>1 DEF WaitsOn, Owns
    <3>7. MutualExclusion'
      BY <3>2, <3>4, <3>5, <3>6 DEF MutexInv, MutualExclusion
    <3>8. \A d \in CPUs : pc'[d] = "user" => locking'[executing_thread'[d]] = None
      BY <1>0, <3>1, <3>2, <3>5 DEF MutexInv, ExecInv
    <3>9. /\ \A u \in Threads, l \in Mutexes : locking'[u] = l => (WaitsOn(u, l) \/ Owns(u, l))'
          /\ \A u \in Threads, l \in Mutexes : WaitsOn(u, l)' => locking'[u] = l
      BY <3>2, <3>3, <3>5, <3>6 DEF MutexInv
    <3> QED
      BY <3>1, <3>7, <3>8, <3>9 DEF MutexInv
  <2> QED
    BY <2>1, <2>2
<1>15. CASE UNCHANGED vars
  BY <1>1, <1>15 DEF vars
<1> QED
  BY <1>2, <1>3, <1>4, <1>5, <1>6, <1>7, <1>8, <1>9, <1>10, <1>11, <1>12,
     <1>13, <1>14, <1>15
  DEF Next, CpuStep, UserCall

(* Mutual exclusion: whoever is between the return of lock(m) and its next *)
(* unlock(m) or wait(m) owns m, for any number of threads and CPUs and any *)
(* preemption between the hand-off and the return of lock().               *)
THEOREM MutexSafe == Spec => []MutualExclusion
<1>1. Init => TypeInv /\ PlaceInv /\ MutexInv
  BY TypeInit, PlaceInit, MutexInit
<1>2. TypeInv /\ PlaceInv /\ MutexInv /\ [Next]_vars => (TypeInv /\ PlaceInv /\ MutexInv)'
  BY TypeStep, PlaceStep, MutexStep
<1>3. MutexInv => MutualExclusion
  BY DEF MutexInv
<1> QED
  BY <1>1, <1>2, <1>3, PTL DEF Spec

-----------------------------------------------------------------------------
(* Joining.                                                                *)

(* Only join adds to the queue of a thread, after it has seen that the     *)
(* thread has not finished, and the end of a thread empties its queue.     *)
(* Threads whose stack is freed have finished before (LifeInv).            *)
LEMMA JoinStep ==
    ASSUME TypeInv, PlaceInv, NobodyWaitsForFinished, [Next]_vars
    PROVE  NobodyWaitsForFinished'
<1> USE ConstantsAssumption
<1>0. /\ TypeOK /\ ExecInv
      /\ life \in [Threads -> Lives]
      /\ waiting_threads \in [Objects -> Seq(Threads)]
      /\ \A t \in ToSet(finished_threads) : life[t] = "finished"
      /\ Threads \subseteq Objects
  BY DEF TypeInv, PlaceInv, LifeInv, TypeOK, Objects
<1>1. ASSUME \A t \in Threads : waiting_threads'[t] = waiting_threads[t],
             \A t \in Threads : life'[t] # "live" => life[t] # "live"
      PROVE  NobodyWaitsForFinished'
  BY <1>1 DEF NobodyWaitsForFinished
<1>2. ASSUME NEW c \in CPUs, Boot(c) PROVE NobodyWaitsForFinished'
  BY <1>0, <1>1, <1>2 DEF Boot
<1>3. ASSUME NEW c \in CPUs, NEW t \in Threads, Create(c, t) PROVE NobodyWaitsForFinished'
  BY <1>0, <1>1, <1>3 DEF Create
<1>4. ASSUME NEW c \in CPUs, NEW t \in Threads, Join(c, t) PROVE NobodyWaitsForFinished'
  <2>1. CASE HasFinished(t)
    BY <1>1, <1>4, <2>1 DEF Join, lifeVars
  <2>2. CASE ~HasFinished(t)
    <3>1. life[t] = "live" /\ UNCHANGED life
      BY <1>0, <1>4, <2>2 DEF Join, HasFinished, Lives, lifeVars
    <3>2. \A u \in Threads \ {t} : waiting_threads'[u] = waiting_threads[u]
      BY <1>0, <1>4, <2>2 DEF Join
    <3> QED
      BY <3>1, <3>2 DEF NobodyWaitsForFinished
  <2> QED
    BY <2>1, <2>2
<1>5. ASSUME NEW c \in CPUs, NEW m \in Mutexes, Lock(c, m) \/ Unlock(c, m)
      PROVE  NobodyWaitsForFinished'
  <2>1. UNCHANGED life
    BY <1>5 DEF Lock, Unlock, lifeVars
  <2>2. \A t \in Threads : waiting_threads'[t] = waiting_threads[t]
    BY <1>0, <1>5 DEF Lock, Unlock
  <2> QED
    BY <1>1, <2>1, <2>2
<1>6. ASSUME NEW c \in CPUs, NEW v \in CVs, NEW m \in Mutexes, Wait(c, v, m)
      PROVE  NobodyWaitsForFinished'
  <2>1. UNCHANGED life
    BY <1>6 DEF Wait, lifeVars
  <2>2. \A t \in Threads : waiting_threads'[t] = waiting_threads[t]
    BY <1>0, <1>6 DEF Wait
  <2> QED
    BY <1>1, <2>1, <2>2
<1>7. ASSUME NEW c \in CPUs, NEW v \in CVs, Signal(c, v) \/ Broadcast(c, v)
      PROVE  NobodyWaitsForFinished'
  <2>1. UNCHANGED life
    BY <1>7 DEF Signal, Broadcast, lifeVars
  <2>2. \A t \in Threads : waiting_threads'[t] = waiting_threads[t]
    BY <1>0, <1>7 DEF Signal, Broadcast
  <2> QED
    BY <1>1, <2>1, <2>2
<1>8. ASSUME NEW c \in CPUs, Finish(c) PROVE NobodyWaitsForFinished'
  <2> DEFINE t == executing_thread[c]
  <2>1. t \in Threads
    BY <1>0, <1>8 DEF Finish, Call, ExecInv
  <2>2. \A u \in Threads : waiting_threads'[u] = IF u = t THEN <<>> ELSE waiting_threads[u]
    BY <1>0, <1>8, <2>1 DEF Finish
  <2>3. \A u \in Threads \ {t} : life'[u] # "live" => life[u] # "live"
    BY <1>0, <1>8 DEF Finish, LifeAfterFinish
  <2> QED
    BY <2>2, <2>3 DEF NobodyWaitsForFinished
<1>9. ASSUME NEW c \in CPUs,
             \/ Yield(c) \/ Switch(c) \/ ReleaseGuard(c)
             \/ IdleLoop(c) \/ Suspend(c) \/ WakeUp(c) \/ IdleEnter(c)
      PROVE  NobodyWaitsForFinished'
  BY <1>1, <1>9
  DEF Yield, Switch, ReleaseGuard, IdleLoop, Suspend, WakeUp, IdleEnter, lifeVars
<1>10. CASE UNCHANGED vars
  BY <1>1, <1>10 DEF vars, lifeVars
<1> QED
  BY <1>2, <1>3, <1>4, <1>5, <1>6, <1>7, <1>8, <1>9, <1>10 DEF Next, CpuStep, UserCall

(* join cannot miss the end of a thread: at no moment does anybody wait    *)
(* for a thread whose func_with_swap has emptied its queue for good.       *)
THEOREM JoinSafe == Spec => []NobodyWaitsForFinished
<1>1. Init => TypeInv /\ PlaceInv /\ NobodyWaitsForFinished
  <2>1. Init => NobodyWaitsForFinished
    BY DEF Init, NobodyWaitsForFinished, Objects
  <2> QED
    BY <2>1, TypeInit, PlaceInit
<1>2. TypeInv /\ PlaceInv /\ NobodyWaitsForFinished /\ [Next]_vars
        => (TypeInv /\ PlaceInv /\ NobodyWaitsForFinished)'
  BY TypeStep, PlaceStep, JoinStep
<1> QED
  BY <1>1, <1>2, PTL DEF Spec

-----------------------------------------------------------------------------
(* The order of locks.                                                     *)

(* What a step may do to the mutex m, see LockFIFO. *)
InOrder(m) ==
    ~free'[m] /\ owned_thread'[m] # owned_thread[m] =>
        IF waiting_threads[m] = <<>>
        THEN free[m]
        ELSE waiting_threads[m] = <<owned_thread'[m]>> \o waiting_threads'[m]

(* unlock_mutex keeps the order of the queue it takes the new owner from. *)
LEMMA HandOffInOrder ==
    ASSUME TypeOK, NEW m \in Mutexes, UnlockMutex(m), waiting_threads'[m] = AfterHandOff(m)
    PROVE  \A l \in Mutexes : InOrder(l)
<1>1. /\ waiting_threads[m] \in Seq(Threads)
      /\ free' = [free EXCEPT ![m] = (waiting_threads[m] = <<>>)]
      /\ owned_thread' = [owned_thread EXCEPT ![m] =
                            IF waiting_threads[m] = <<>> THEN None ELSE Head(waiting_threads[m])]
      /\ free \in [Mutexes -> BOOLEAN] /\ owned_thread \in [Mutexes -> Threads \cup {None}]
  BY DEF TypeOK, Objects, UnlockMutex, FreeAfter
<1>2. \A l \in Mutexes \ {m} : InOrder(l)
  BY <1>1 DEF InOrder
<1>3. CASE waiting_threads[m] = <<>>
  <2>1. free'[m]
    BY <1>1, <1>3
  <2> QED
    BY <1>2, <2>1 DEF InOrder
<1>4. CASE waiting_threads[m] # <<>>
  <2>1. owned_thread'[m] = Head(waiting_threads[m]) /\ waiting_threads'[m] = Tail(waiting_threads[m])
    BY <1>1, <1>4 DEF AfterHandOff, Popped
  <2>2. waiting_threads[m] = <<Head(waiting_threads[m])>> \o Tail(waiting_threads[m])
    BY <1>1, <1>4
  <2> QED
    BY <1>2, <1>4, <2>1, <2>2 DEF InOrder
<1> QED
  BY <1>3, <1>4

LEMMA OrderStep ==
    ASSUME TypeInv, MutexInv, [Next]_vars
    PROVE  \A m \in Mutexes : InOrder(m)
<1> USE ConstantsAssumption
<1>0. /\ TypeOK
      /\ free \in [Mutexes -> BOOLEAN] /\ owned_thread \in [Mutexes -> Threads \cup {None}]
      /\ waiting_threads \in [Objects -> Seq(Threads)]
      /\ Mutexes \subseteq Objects
      /\ \A m \in Mutexes : free[m] => waiting_threads[m] = <<>>
  BY DEF TypeInv, TypeOK, MutexInv, Objects
<1>1. CASE UNCHANGED owned_thread
  BY <1>1 DEF InOrder
<1>2. ASSUME NEW c \in CPUs, NEW m \in Mutexes, Lock(c, m) PROVE \A l \in Mutexes : InOrder(l)
  <2>1. CASE free[m]
    <3>1. owned_thread' = [owned_thread EXCEPT ![m] = executing_thread[c]]
      BY <1>2, <2>1 DEF Lock
    <3> QED
      BY <1>0, <2>1, <3>1 DEF InOrder
  <2>2. CASE ~free[m]
    BY <1>1, <1>2, <2>2 DEF Lock, mutexVars
  <2> QED
    BY <2>1, <2>2
<1>3. ASSUME NEW c \in CPUs, NEW m \in Mutexes, Unlock(c, m) PROVE \A l \in Mutexes : InOrder(l)
  <2>1. CASE Owns(executing_thread[c], m)
    <3>1. UnlockMutex(m) /\ waiting_threads'[m] = AfterHandOff(m)
      BY <1>0, <1>3, <2>1 DEF Unlock
    <3> QED
      BY <1>0, <3>1, HandOffInOrder
  <2>2. CASE ~Owns(executing_thread[c], m)
    BY <1>1, <1>3, <2>2 DEF Unlock, mutexVars
  <2> QED
    BY <2>1, <2>2
<1>4. ASSUME NEW c \in CPUs, NEW v \in CVs, NEW m \in Mutexes, Wait(c, v, m)
      PROVE  \A l \in Mutexes : InOrder(l)
  <2>1. CASE Owns(executing_thread[c], m)
    <3>1. UnlockMutex(m) /\ waiting_threads'[m] = AfterHandOff(m)
      BY <1>0, <1>4, <2>1 DEF Wait
    <3> QED
      BY <1>0, <3>1, HandOffInOrder
  <2>2. CASE ~Owns(executing_thread[c], m)
    BY <1>1, <1>4, <2>2 DEF Wait, mutexVars
  <2> QED
    BY <2>1, <2>2
<1>5. ASSUME NEW c \in CPUs,
             \/ CpuStep(c) \/ Yield(c) \/ Finish(c)
             \/ \E t \in Threads : Create(c, t) \/ Join(c, t)
             \/ \E v \in CVs : Signal(c, v) \/ Broadcast(c, v)
      PROVE  \A l \in Mutexes : InOrder(l)
  BY <1>1, <1>5
  DEF CpuStep, Boot, Switch, ReleaseGuard, IdleLoop, Suspend, WakeUp, IdleEnter,
      Yield, Finish, Create, Join, Signal, Broadcast, mutexVars
<1>6. CASE UNCHANGED vars
  BY <1>1, <1>6 DEF vars, mutexVars
<1> QED
  BY <1>2, <1>3, <1>4, <1>5, <1>6 DEF Next, UserCall

(* Locks are granted in the order of the calls: a mutex changes hands only *)
(* from the front of its queue, or to a caller of lock() who finds nobody  *)
(* there, although the new owner may run much later than others that call  *)
(* lock() in the meantime.                                                 *)
THEOREM LockOrder == Spec => LockFIFO
<1>1. Init => TypeInv /\ PlaceInv /\ MutexInv
  BY TypeInit, PlaceInit, MutexInit
<1>2. TypeInv /\ PlaceInv /\ MutexInv /\ [Next]_vars => (TypeInv /\ PlaceInv /\ MutexInv)'
  BY TypeStep, PlaceStep, MutexStep
<1>3. TypeInv /\ MutexInv /\ [Next]_vars =>
        [\A m \in Mutexes :
           ~free'[m] /\ owned_thread'[m] # owned_thread[m] =>
             IF waiting_threads[m] = <<>>
             THEN free[m]
             ELSE waiting_threads[m] = <<owned_thread'[m]>> \o waiting_threads'[m]]_vars
  BY OrderStep DEF InOrder
<1> QED
  BY <1>1, <1>2, <1>3, PTL DEF Spec, LockFIFO

-----------------------------------------------------------------------------
(***************************************************************************)
(* No wakeup is lost.                                                      *)
(*                                                                         *)
(* NoLostWakeup compares the length of the ready queue with the number of  *)
(* CPUs that are idle and not announced as suspended.  It is kept because  *)
(* push_and_signal takes one CPU off suspended_cpus for every thread it    *)
(* makes ready, a different one each time: no CPU is announced twice, and  *)
(* an announced CPU is idle, stays idle until it is taken off, and has no  *)
(* interrupt left over from an earlier announcement (WakeInv).  The other  *)
(* side of the comparison changes only when an idle CPU takes a thread.    *)
(***************************************************************************)

(* Idle CPUs on their way to look for a ready thread *)
Awake == {c \in CPUs : executing_thread[c] = Idle /\ c \notin ToSet(suspended_cpus)}

Asleep == {"suspending", "suspended"}

WakeInv ==
    /\ IsInjective(suspended_cpus)
    /\ \A c \in ToSet(suspended_cpus) : pc[c] \in Asleep /\ c \notin ipi
    /\ \A c \in ipi : pc[c] \in Asleep
    /\ NoLostWakeup

(* A set of CPUs is finite. *)
LEMMA CpusFinite ==
    ASSUME NEW A \in SUBSET CPUs
    PROVE  IsFiniteSet(A) /\ Cardinality(A) \in Nat
BY CpusAssumption, FS_Subset, FS_CardinalityType

-----------------------------------------------------------------------------
(* A step that makes n threads ready with push_and_signal and does not     *)
(* take a CPU out of its idle loop keeps the invariant.                    *)
LEMMA WakeupsKept ==
    ASSUME TypeInv, TypeOK', WakeInv, NEW n \in Nat, SignalCpus(n),
           Len(ready_threads') <= Len(ready_threads) + n,
           \A d \in CPUs : executing_thread[d] = Idle => executing_thread'[d] = Idle,
           \A d \in CPUs : pc[d] \in Asleep => pc'[d] \in Asleep
    PROVE  WakeInv'
<1> DEFINE k == CpusToWake(n)
           taken == {suspended_cpus[i] : i \in 1 .. k}
<1>0. /\ suspended_cpus \in Seq(CPUs) /\ Len(suspended_cpus) \in Nat
      /\ ready_threads \in Seq(Threads) /\ ready_threads' \in Seq(Threads)
      /\ Len(ready_threads) \in Nat /\ Len(ready_threads') \in Nat
  BY DEF TypeInv, TypeOK
<1>1. k \in 0 .. Len(suspended_cpus)  BY <1>0 DEF CpusToWake
<1>2. /\ IsInjective(suspended_cpus') /\ Len(suspended_cpus') = Len(suspended_cpus) - k
      /\ ToSet(suspended_cpus) = taken \cup ToSet(suspended_cpus')
      /\ taken \cap ToSet(suspended_cpus') = {}
      /\ IsFiniteSet(taken) /\ Cardinality(taken) = k
  <2>1. IsInjective(suspended_cpus)  BY DEF WakeInv
  <2>2. suspended_cpus' = SubSeq(suspended_cpus, k + 1, Len(suspended_cpus))
    BY DEF SignalCpus
  <2>3. CutAt(CPUs, suspended_cpus, k, taken, suspended_cpus')
    BY <1>0, <1>1, <2>1, <2>2, CutLemma
  <2> HIDE DEF k, taken
  <2>4. QED  BY <2>3 DEF CutAt
<1>3. ipi' = ipi \cup taken  BY DEF SignalCpus
<1> HIDE DEF taken
<1>4. ToSet(suspended_cpus) \subseteq CPUs /\ taken \subseteq CPUs
  BY <1>0, <1>2, ToSetType
<1>5. /\ \A c \in ToSet(suspended_cpus') : pc'[c] \in Asleep /\ c \notin ipi'
      /\ \A c \in ipi' : pc'[c] \in Asleep
  BY <1>2, <1>3, <1>4 DEF WakeInv, TypeInv, TypeOK
<1>6. ASSUME suspended_cpus' # <<>>
      PROVE  Len(ready_threads') <= Cardinality(Awake')
  <2>1. k = n /\ suspended_cpus # <<>>
    <3>1. Len(suspended_cpus') > 0  BY <1>0, <1>1, <1>2, <1>6 DEF SignalCpus
    <3>2. QED  BY <1>0, <1>1, <1>2, <3>1 DEF CpusToWake
  <2>2. Len(ready_threads) <= Cardinality(Awake)
    BY <2>1 DEF WakeInv, NoLostWakeup, Awake
  <2>3. \A c \in taken : executing_thread[c] = Idle
    BY <1>2, <1>4 DEF WakeInv, TypeInv, ExecInv, Asleep
  <2>4. Awake \cup taken \subseteq Awake' /\ Awake \cap taken = {} /\ Awake' \subseteq CPUs
    BY <1>2, <1>4, <2>3 DEF Awake
  <2>5. IsFiniteSet(Awake) /\ IsFiniteSet(Awake') /\ Cardinality(Awake) \in Nat /\ Cardinality(Awake') \in Nat
    <3>1. Awake \in SUBSET CPUs /\ Awake' \in SUBSET CPUs  BY DEF Awake
    <3>2. QED  BY <3>1, CpusFinite
  <2>6. Cardinality(Awake \cup taken) = Cardinality(Awake) + n
    <3>1. Cardinality(Awake \cup taken) =
            Cardinality(Awake) + Cardinality(taken) - Cardinality(Awake \cap taken)
      BY <1>2, <2>5, FS_Union
    <3>2. Cardinality(Awake \cap taken) = 0  BY <2>4, FS_EmptySet
    <3>3. QED  BY <1>2, <2>1, <2>5, <3>1, <3>2
  <2>7. Cardinality(Awake \cup taken) <= Cardinality(Awake')
    BY <2>4, <2>5, FS_Subset
  <2>8. QED  BY <1>0, <2>2, <2>5, <2>6, <2>7
<1>7. QED  BY <1>2, <1>5, <1>6 DEF WakeInv, NoLostWakeup, Awake

(* A step that wakes nobody *)
LEMMA NobodyWoken ==
    ASSUME TypeInv, TypeOK', WakeInv, UNCHANGED <<suspended_cpus, ipi>>,
           Len(ready_threads') <= Len(ready_threads),
           \A d \in CPUs : executing_thread[d] = Idle => executing_thread'[d] = Idle,
           \A d \in CPUs : pc[d] \in Asleep => pc'[d] \in Asleep
    PROVE  WakeInv'
<1>1. suspended_cpus \in Seq(CPUs) /\ Len(suspended_cpus) \in Nat  BY DEF TypeInv, TypeOK
<1>2. CpusToWake(0) = 0  BY <1>1 DEF CpusToWake
<1>3. {suspended_cpus[i] : i \in 1 .. 0} = {}  OBVIOUS
<1>4. SubSeq(suspended_cpus, 1, Len(suspended_cpus)) = suspended_cpus  BY <1>1
<1>5. SignalCpus(0)  BY <1>2, <1>3, <1>4 DEF SignalCpus
<1>6. Len(ready_threads') <= Len(ready_threads) + 0  BY DEF TypeInv, TypeOK
<1>7. QED  BY <1>5, <1>6, WakeupsKept

(* wait_and_pop shortens the ready queue it finds, if it is not empty. *)
LEMMA PopShortens ==
    ASSUME TypeOK, NEW c \in CPUs, NEW rq \in Seq(Threads), WaitAndPop(c, rq)
    PROVE  Len(ready_threads') <= Len(rq)
<1>1. CASE rq = <<>>  BY <1>1 DEF WaitAndPop, Popped
<1>2. CASE rq # <<>>
  <2>1. ready_threads' = Tail(rq)  BY <1>2 DEF WaitAndPop, Popped
  <2>2. QED  BY <1>2, <2>1
<1>3. QED  BY <1>1, <1>2

(* The length of a queue that others are appended to *)
LEMMA ConcatLen ==
    ASSUME TypeOK, NEW a \in Seq(Threads)
    PROVE  /\ ready_threads \o a \in Seq(Threads) /\ Len(a) \in Nat
           /\ Len(ready_threads \o a) = Len(ready_threads) + Len(a)
           /\ Len(ready_threads) \in Nat
BY DEF TypeOK

-----------------------------------------------------------------------------
(* Steps of the CPUs that keep what they execute, or did not idle before.  *)

(* The CPU c runs something else than its idle loop, and goes on. *)
NotIdle(c) ==
    /\ executing_thread[c] # Idle
    /\ \A d \in CPUs \ {c} : executing_thread'[d] = executing_thread[d] /\ pc'[d] = pc[d]

LEMMA NotIdleKeeps ==
    ASSUME TypeInv, NEW c \in CPUs, NotIdle(c)
    PROVE  /\ \A d \in CPUs : executing_thread[d] = Idle => executing_thread'[d] = Idle
           /\ \A d \in CPUs : pc[d] \in Asleep => pc'[d] \in Asleep
<1>1. pc[c] \notin Asleep  BY DEF TypeInv, ExecInv, NotIdle, Asleep
<1>2. QED  BY <1>1 DEF NotIdle

(* A call of the library comes from a thread. *)
LEMMA CallNotIdle ==
    ASSUME TypeInv, NEW c \in CPUs, pc[c] = "user"
    PROVE  executing_thread[c] # Idle
BY ConstantsAssumption DEF TypeInv, ExecInv

(* The operations of the library *)
LEMMA UserCallWakes ==
    ASSUME TypeInv, TypeOK', WakeInv, NEW c \in CPUs, UserCall(c)
    PROVE  WakeInv'
<1>0. TypeOK /\ ExecInv  BY DEF TypeInv
<1>1. ASSUME pc[c] = "user", Return(c) \/ \E rq \in Seq(Threads) : WaitAndPop(c, rq)
      PROVE  NotIdle(c)
  BY <1>0, <1>1, CallNotIdle DEF NotIdle, Return, WaitAndPop, TypeOK
<1>2. ready_threads \in Seq(Threads) /\ Len(ready_threads) \in Nat  BY <1>0 DEF TypeOK
<1>3. ASSUME NEW t \in Threads, Create(c, t) PROVE WakeInv'
  <2>1. pc[c] = "user" /\ Return(c) /\ SignalCpus(1)  BY <1>3 DEF Create, Call
  <2>2. Len(ready_threads') = Len(ready_threads) + 1  BY <1>2, <1>3 DEF Create
  <2>3. QED  BY <1>1, <1>2, <2>1, <2>2, NotIdleKeeps, WakeupsKept
<1>4. ASSUME UNCHANGED <<suspended_cpus, ipi>>, pc[c] = "user",
             \/ Return(c) /\ UNCHANGED ready_threads
             \/ WaitAndPop(c, ready_threads)
      PROVE  WakeInv'
  <2>1. NotIdle(c)  BY <1>1, <1>2, <1>4
  <2>2. Len(ready_threads') <= Len(ready_threads)  BY <1>0, <1>2, <1>4, PopShortens
  <2>3. QED  BY <1>4, <2>1, <2>2, NotIdleKeeps, NobodyWoken
<1>5. ASSUME NEW t \in Threads, Join(c, t) PROVE WakeInv'
  BY <1>4, <1>5 DEF Join, Call, wakeVars
<1>6. ASSUME NEW m \in Mutexes, Lock(c, m) PROVE WakeInv'
  BY <1>4, <1>6 DEF Lock, wakeVars
<1>7. ASSUME NEW a \in Seq(Threads), SignalCpus(Len(a)), pc[c] = "user",
             \/ Return(c) /\ ready_threads' = ready_threads \o a
             \/ WaitAndPop(c, ready_threads \o a)
      PROVE  WakeInv'
  <2>1. /\ ready_threads \o a \in Seq(Threads) /\ Len(a) \in Nat
        /\ Len(ready_threads \o a) = Len(ready_threads) + Len(a)
    BY <1>0, ConcatLen
  <2>2. NotIdle(c)  BY <1>1, <1>7, <2>1
  <2>3. Len(ready_threads') <= Len(ready_threads) + Len(a)
    <3>1. CASE ready_threads' = ready_threads \o a  BY <1>2, <2>1, <3>1
    <3>2. CASE WaitAndPop(c, ready_threads \o a)  BY <1>0, <2>1, <3>2, PopShortens
    <3>3. QED  BY <1>7, <3>1, <3>2
  <2>4. QED  BY <1>7, <2>1, <2>2, <2>3, NotIdleKeeps, WakeupsKept
<1>8. \A o \in Objects : HandedTo(o) \in Seq(Threads) /\ waiting_threads[o] \in Seq(Threads)
  BY <1>0, HandOffLemma DEF TypeOK
<1>9. ASSUME NEW m \in Mutexes, Unlock(c, m) PROVE WakeInv'
  <2>1. m \in Objects /\ pc[c] = "user" /\ Return(c)  BY <1>9 DEF Objects, Unlock, Call
  <2>2. CASE Owns(executing_thread[c], m)
    <3>1. ready_threads' = ready_threads \o HandedTo(m) /\ SignalCpus(Len(HandedTo(m)))
      BY <1>9, <2>2 DEF Unlock
    <3>2. QED  BY <1>7, <1>8, <2>1, <3>1
  <2>3. CASE ~Owns(executing_thread[c], m)
    BY <1>4, <1>9, <2>1, <2>3 DEF Unlock, wakeVars
  <2>4. QED  BY <2>2, <2>3
<1>10. ASSUME NEW v \in CVs, NEW m \in Mutexes, Wait(c, v, m) PROVE WakeInv'
  <2>1. m \in Objects /\ pc[c] = "user"  BY <1>10 DEF Objects, Wait, Call
  <2>2. CASE Owns(executing_thread[c], m)
    BY <1>7, <1>8, <1>10, <2>1, <2>2 DEF Wait
  <2>3. CASE ~Owns(executing_thread[c], m)
    BY <1>4, <1>10, <2>1, <2>3 DEF Wait, wakeVars
  <2>4. QED  BY <2>2, <2>3
<1>11. ASSUME NEW v \in CVs, Signal(c, v) \/ Broadcast(c, v) PROVE WakeInv'
  <2>1. v \in Objects /\ pc[c] = "user" /\ Return(c)
    BY <1>11 DEF Objects, Signal, Broadcast, Call
  <2>2. QED  BY <1>7, <1>8, <1>11, <2>1 DEF Signal, Broadcast, Drained
<1>12. ASSUME Finish(c) PROVE WakeInv'
  <2>1. executing_thread[c] \in Objects /\ pc[c] = "user"
    BY <1>0, <1>12 DEF Objects, Finish, Call, ExecInv
  <2>2. QED  BY <1>7, <1>8, <1>12, <2>1 DEF Finish, Drained
<1>13. QED
  BY <1>3, <1>5, <1>6, <1>9, <1>10, <1>11, <1>12 DEF UserCall

LEMMA WakeStep ==
    ASSUME TypeInv, WakeInv, [Next]_vars
    PROVE  WakeInv'
<1> USE ConstantsAssumption
<1>0. TypeOK /\ ExecInv /\ TypeOK'  BY TypeStep DEF TypeInv
<1>1. /\ ready_threads \in Seq(Threads) /\ Len(ready_threads) \in Nat
      /\ suspended_cpus \in Seq(CPUs) /\ ToSet(suspended_cpus) \subseteq CPUs
  BY <1>0, ToSetType DEF TypeOK
<1>2. CASE UNCHANGED vars
  BY <1>0, <1>1, <1>2, NobodyWoken DEF vars, wakeVars
<1>3. ASSUME NEW c \in CPUs, Boot(c) PROVE WakeInv'
  <2>1. NotIdle(c) /\ UNCHANGED <<suspended_cpus, ipi>>
    BY <1>0, <1>3 DEF Boot, NotIdle, ExecInv, WaitAndPop, TypeOK, wakeVars
  <2>2. Len(ready_threads') <= Len(ready_threads)
    BY <1>0, <1>1, <1>3, PopShortens DEF Boot
  <2>3. QED  BY <1>0, <2>1, <2>2, NotIdleKeeps, NobodyWoken
<1>4. ASSUME NEW c \in CPUs, Yield(c) PROVE WakeInv'
  <2>1. UNCHANGED <<suspended_cpus, ipi>> /\ pc[c] \notin Asleep
    BY <1>4 DEF Yield, wakeVars, Asleep
  <2>2. \A d \in CPUs : pc[d] \in Asleep => pc'[d] \in Asleep
    BY <1>0, <1>4, <2>1 DEF Yield, Return, TypeOK
  <2>3. \A d \in CPUs : executing_thread[d] = Idle => executing_thread'[d] = Idle
    BY <1>0, <1>4 DEF Yield, Return, KeepsRunning, TypeOK
  <2>4. Len(ready_threads') <= Len(ready_threads)
    <3>1. CASE UNCHANGED ready_threads  BY <1>1, <3>1
    <3>2. CASE ready_threads' = Tail(Append(ready_threads, executing_thread[c]))
      <4>1. Len(Append(ready_threads, executing_thread[c])) = Len(ready_threads) + 1
        BY <1>1
      <4>2. Append(ready_threads, executing_thread[c]) \in Seq(Threads \cup {Idle, None})
        BY <1>0 DEF TypeOK
      <4>3. QED  BY <1>1, <3>2, <4>1, <4>2
    <3>3. QED  BY <1>4, <3>1, <3>2 DEF Yield
  <2>5. QED  BY <1>0, <2>1, <2>2, <2>3, <2>4, NobodyWoken
<1>5. ASSUME NEW c \in CPUs, Switch(c) \/ ReleaseGuard(c) \/ Suspend(c) \/ IdleEnter(c)
      PROVE  WakeInv'
  <2>1. UNCHANGED <<suspended_cpus, ipi, executing_thread, ready_threads>>
    BY <1>5 DEF Switch, ReleaseGuard, Suspend, IdleEnter, wakeVars
  <2>2. \A d \in CPUs : pc[d] \in Asleep => pc'[d] \in Asleep
    BY <1>0, <1>5 DEF Switch, ReleaseGuard, Suspend, IdleEnter, Asleep, TypeOK
  <2>3. QED  BY <1>0, <1>1, <2>1, <2>2, NobodyWoken
<1>6. ASSUME NEW c \in CPUs, WakeUp(c) PROVE WakeInv'
  <2>1. /\ UNCHANGED <<suspended_cpus, executing_thread, ready_threads>>
        /\ ipi' = ipi \ {c} /\ pc' = [pc EXCEPT ![c] = "woken"] /\ c \in ipi
    BY <1>6 DEF WakeUp
  <2>2. c \notin ToSet(suspended_cpus)  BY <2>1 DEF WakeInv
  <2>3. /\ \A d \in ToSet(suspended_cpus) : pc'[d] \in Asleep /\ d \notin ipi'
        /\ \A d \in ipi' : pc'[d] \in Asleep
    BY <1>0, <1>1, <2>1, <2>2 DEF WakeInv, TypeOK
  <2>4. QED  BY <2>1, <2>3 DEF WakeInv, NoLostWakeup
<1>7. ASSUME NEW c \in CPUs, IdleLoop(c) PROVE WakeInv'
  <2>1. /\ pc[c] = "idle" /\ executing_thread[c] = Idle /\ ipi' = ipi
        /\ c \notin ToSet(suspended_cpus)
    BY <1>0, <1>7 DEF IdleLoop, ExecInv, WakeInv, Asleep
  <2>2. CASE ready_threads = <<>>
    <3>1. /\ suspended_cpus' = Append(suspended_cpus, c)
          /\ pc' = [pc EXCEPT ![c] = "suspending"]
          /\ UNCHANGED <<executing_thread, ready_threads>>
      BY <1>7, <2>2 DEF IdleLoop
    <3>2. IsInjective(suspended_cpus') /\ ToSet(suspended_cpus') = ToSet(suspended_cpus) \cup {c}
      BY <1>1, <2>1, <3>1, AppendLemma DEF WakeInv
    <3>3. c \notin ipi  BY <2>1 DEF WakeInv, Asleep
    <3>4. /\ \A d \in ToSet(suspended_cpus') : pc'[d] \in Asleep /\ d \notin ipi'
          /\ \A d \in ipi' : pc'[d] \in Asleep
      BY <1>0, <1>1, <2>1, <3>1, <3>2, <3>3 DEF WakeInv, Asleep, TypeOK
    <3>5. Len(ready_threads') <= Cardinality(Awake')
      <4>1. Awake' \in SUBSET CPUs  BY DEF Awake
      <4>2. Cardinality(Awake') \in Nat  BY <4>1, CpusFinite
      <4>3. Len(ready_threads') = 0  BY <2>2, <3>1
      <4>4. QED  BY <4>2, <4>3
    <3>6. QED  BY <3>2, <3>4, <3>5 DEF WakeInv, NoLostWakeup, Awake
  <2>3. CASE ready_threads # <<>>
    <3>1. WaitAndPop(c, ready_threads) /\ suspended_cpus' = suspended_cpus
      BY <1>7, <2>3 DEF IdleLoop
    <3>2. /\ Head(ready_threads) \in Threads /\ ready_threads' = Tail(ready_threads)
          /\ pc' = [pc EXCEPT ![c] = "switch"]
          /\ executing_thread' = [executing_thread EXCEPT ![c] = Head(ready_threads)]
      BY <1>1, <2>3, <3>1, HeadTailLemma DEF WaitAndPop, Popped
    <3>3. Len(ready_threads') = Len(ready_threads) - 1  BY <1>1, <2>3, <3>2
    <3>4. /\ \A d \in ToSet(suspended_cpus') : pc'[d] \in Asleep /\ d \notin ipi'
          /\ \A d \in ipi' : pc'[d] \in Asleep
      BY <1>0, <1>1, <2>1, <3>1, <3>2 DEF WakeInv, Asleep, TypeOK
    <3>5. Awake' = Awake \ {c} /\ c \in Awake
      BY <1>0, <2>1, <3>1, <3>2 DEF Awake, TypeOK
    <3>6. Cardinality(Awake') = Cardinality(Awake) - 1 /\ Cardinality(Awake) \in Nat
      <4>1. Awake \in SUBSET CPUs  BY DEF Awake
      <4>2. IsFiniteSet(Awake) /\ Cardinality(Awake) \in Nat  BY <4>1, CpusFinite
      <4>3. QED  BY <3>5, <4>2, FS_RemoveElement
    <3>7. suspended_cpus' # <<>> => Len(ready_threads) <= Cardinality(Awake)
      BY <3>1 DEF WakeInv, NoLostWakeup, Awake
    <3>8. suspended_cpus' # <<>> => Len(ready_threads') <= Cardinality(Awake')
      BY <1>1, <3>3, <3>6, <3>7
    <3>9. IsInjective(suspended_cpus')  BY <3>1 DEF WakeInv
    <3>10. QED  BY <3>4, <3>8, <3>9 DEF WakeInv, NoLostWakeup, Awake
  <2>4. QED  BY <2>2, <2>3
<1>8. ASSUME NEW c \in CPUs, UserCall(c) PROVE WakeInv'
  BY <1>0, <1>8, UserCallWakes
<1>9. QED
  BY <1>2, <1>3, <1>4, <1>5, <1>6, <1>7, <1>8 DEF Next, CpuStep

LEMMA WakeInit == Init => WakeInv
BY EmptyLemma DEF Init, WakeInv, NoLostWakeup

-----------------------------------------------------------------------------
(* No wakeup is lost: as long as some CPU is announced as suspended, there *)
(* are at least as many idle CPUs about to look at the ready queue as      *)
(* there are threads in it.  push_and_signal pops suspended_cpus before    *)
(* the CPU it pops has run, and the CPU may be anywhere between its        *)
(* announcement and the end of its suspension.                             *)
THEOREM WakeupsArrive == Spec => []NoLostWakeup
<1>1. Init => TypeInv /\ WakeInv  BY TypeInit, WakeInit
<1>2. TypeInv /\ WakeInv /\ [Next]_vars => (TypeInv /\ WakeInv)'  BY TypeStep, WakeStep
<1>3. WakeInv => NoLostWakeup  BY DEF WakeInv
<1>4. QED  BY <1>1, <1>2, <1>3, PTL DEF Spec

-----------------------------------------------------------------------------
(***************************************************************************)
(* The thread library implements the monitors of module Monitor, for any   *)
(* number of threads, CPUs, mutexes and condition variables.               *)
(*                                                                         *)
(* A thread is runnable if it has a CPU or is ready.  The heart of the     *)
(* proof is that what the CPUs do among themselves (yield, switch, boot,   *)
(* idle loops) moves threads between the CPUs and the ready queue and      *)
(* loses none on the way (RunnablePop, RunnableYield); an operation then   *)
(* does to the runnable threads what the monitor's operation does.         *)
(***************************************************************************)
(* The state of the monitor, as the instance Mon has it *)
AbsLife == [t \in Threads |-> IF life[t] = "freed" THEN "finished" ELSE life[t]]
Runnable == {t \in Threads : Running(t) \/ Ready(t)}
AbsOwner == [m \in Mutexes |-> IF free[m] THEN None ELSE owned_thread[m]]

(* A mutex that is not free has an owner. *)
OwnerInv == \A m \in Mutexes : ~free[m] => owned_thread[m] \in Threads

LibInv == TypeInv /\ PlaceInv /\ MutexInv /\ OwnerInv

-----------------------------------------------------------------------------
(* Owners.                                                                 *)

LEMMA OwnerStep ==
    ASSUME TypeInv, OwnerInv, [Next]_vars
    PROVE  OwnerInv'
<1>0. /\ TypeOK /\ ExecInv /\ Mutexes \subseteq Objects
      /\ free \in [Mutexes -> BOOLEAN] /\ owned_thread \in [Mutexes -> Threads \cup {None}]
  BY DEF TypeInv, TypeOK, Objects
<1>1. CASE UNCHANGED <<free, owned_thread>>
  BY <1>1 DEF OwnerInv
<1>2. ASSUME NEW m \in Mutexes, UnlockMutex(m) PROVE OwnerInv'
  <2>1. waiting_threads[m] # <<>> => Head(waiting_threads[m]) \in Threads
    BY <1>0, HandOffLemma
  <2>2. /\ free'[m] <=> waiting_threads[m] = <<>>
        /\ waiting_threads[m] # <<>> => owned_thread'[m] = Head(waiting_threads[m])
    <3>1. free'[m] <=> waiting_threads[m] = <<>>
      BY <1>0, <1>2, Zenon DEF UnlockMutex, FreeAfter
    <3>2. waiting_threads[m] # <<>> => owned_thread'[m] = Head(waiting_threads[m])
      BY <1>0, <1>2 DEF UnlockMutex
    <3>3. QED  BY <3>1, <3>2
  <2>3. \A l \in Mutexes \ {m} : free'[l] = free[l] /\ owned_thread'[l] = owned_thread[l]
    BY <1>0, <1>2 DEF UnlockMutex
  <2>4. QED  BY <2>1, <2>2, <2>3 DEF OwnerInv
<1>3. ASSUME NEW c \in CPUs, NEW m \in Mutexes, Lock(c, m) PROVE OwnerInv'
  <2>1. executing_thread[c] \in Threads  BY <1>0, <1>3 DEF Lock, ExecInv
  <2>2. CASE free[m]
    <3>1. /\ free' = [free EXCEPT ![m] = FALSE]
          /\ owned_thread' = [owned_thread EXCEPT ![m] = executing_thread[c]]
      BY <1>3, <2>2 DEF Lock
    <3>2. QED  BY <1>0, <2>1, <3>1 DEF OwnerInv
  <2>3. CASE ~free[m]
    BY <1>1, <1>3, <2>3 DEF Lock, mutexVars
  <2>4. QED  BY <2>2, <2>3
<1>4. ASSUME NEW c \in CPUs, NEW m \in Mutexes,
             Unlock(c, m) \/ \E v \in CVs : Wait(c, v, m)
      PROVE  OwnerInv'
  BY <1>1, <1>2, <1>4 DEF Unlock, Wait, mutexVars
<1>5. ASSUME NEW c \in CPUs,
             \/ CpuStep(c) \/ Yield(c) \/ Finish(c)
             \/ \E t \in Threads : Create(c, t) \/ Join(c, t)
             \/ \E v \in CVs : Signal(c, v) \/ Broadcast(c, v)
      PROVE  OwnerInv'
  BY <1>1, <1>5
  DEF CpuStep, Boot, Switch, ReleaseGuard, IdleLoop, Suspend, WakeUp, IdleEnter,
      Yield, Finish, Create, Join, Signal, Broadcast, mutexVars
<1>6. CASE UNCHANGED vars
  BY <1>1, <1>6 DEF vars, mutexVars
<1>7. QED
  BY <1>3, <1>4, <1>5, <1>6 DEF Next, UserCall

LEMMA LibInit == Init => LibInv
<1>1. Init => OwnerInv  BY DEF Init, OwnerInv
<1>2. QED  BY <1>1, TypeInit, PlaceInit, MutexInit DEF LibInv

LEMMA LibStep == LibInv /\ [Next]_vars => LibInv'
BY TypeStep, PlaceStep, MutexStep, OwnerStep DEF LibInv

-----------------------------------------------------------------------------
(* Which threads are runnable.                                             *)

(* wait_and_pop: the CPU loses what it runs, and the ready queue it finds  *)
(* has the threads a in addition; all others stay runnable.                *)
LEMMA RunnablePop ==
    ASSUME TypeOK, NoThreadTwice, NEW c \in CPUs, NEW a \in Seq(Threads),
           WaitAndPop(c, ready_threads \o a)
    PROVE  Runnable' = (Runnable \ {executing_thread[c]}) \cup ToSet(a)
<1> USE ConstantsAssumption
<1> DEFINE rq == ready_threads \o a
<1>1. rq \in Seq(Threads) /\ ToSet(rq) = ToSet(ready_threads) \cup ToSet(a)
  BY ConcatLemma DEF TypeOK
<1>2. PICK n \in Threads \cup {Idle} :
        /\ executing_thread' = [executing_thread EXCEPT ![c] = n]
        /\ ToSet(rq) = ToSet(ready_threads') \cup ({n} \ {Idle})
  BY <1>1, WaitAndPopLemma
<1>3. ToSet(a) \subseteq Threads /\ ToSet(ready_threads) \subseteq Threads
  BY ToSetType DEF TypeOK
<1>4. \A d \in CPUs : executing_thread'[d] = IF d = c THEN n ELSE executing_thread[d]
  BY <1>2 DEF TypeOK
<1>5. /\ executing_thread[c] \in Threads => executing_thread[c] \notin ToSet(ready_threads)
      /\ executing_thread[c] \in Threads =>
           \A d \in CPUs : executing_thread[c] = executing_thread[d] => c = d
  BY DEF NoThreadTwice, Running, Ready
<1> HIDE DEF rq
<1>6. ASSUME NEW t \in Threads
      PROVE  (Running(t) \/ Ready(t))' <=>
               \/ (Running(t) \/ Ready(t)) /\ t # executing_thread[c]
               \/ t \in ToSet(a)
  <2>1. (Running(t) \/ Ready(t))' <=>
          (\E d \in CPUs \ {c} : executing_thread[d] = t) \/ t \in ToSet(rq)
    BY <1>2, <1>4 DEF Running, Ready
  <2>2. (Running(t) \/ Ready(t)) /\ t # executing_thread[c] <=>
          (\E d \in CPUs \ {c} : executing_thread[d] = t) \/ t \in ToSet(ready_threads)
    BY <1>5 DEF Running, Ready
  <2>3. QED  BY <1>1, <2>1, <2>2
<1>7. QED  BY <1>3, <1>6 DEF Runnable

(* The same when nothing was made ready before *)
LEMMA RunnablePark ==
    ASSUME TypeOK, NoThreadTwice, NEW c \in CPUs, WaitAndPop(c, ready_threads)
    PROVE  Runnable' = Runnable \ {executing_thread[c]}
<1>1. ready_threads \o <<>> = ready_threads /\ <<>> \in Seq(Threads) /\ ToSet(<<>>) = {}
  BY EmptyLemma DEF TypeOK
<1>2. Runnable' = (Runnable \ {executing_thread[c]}) \cup ToSet(<<>>)
  BY <1>1, RunnablePop
<1>3. QED  BY <1>1, <1>2

(* push_and_signal of the threads a, without a switch *)
LEMMA RunnablePush ==
    ASSUME TypeOK, NEW a \in Seq(Threads), ready_threads' = ready_threads \o a,
           executing_thread' = executing_thread
    PROVE  Runnable' = Runnable \cup ToSet(a)
<1>1. ToSet(ready_threads') = ToSet(ready_threads) \cup ToSet(a)
  BY ConcatLemma DEF TypeOK
<1>2. ToSet(a) \subseteq Threads  BY ToSetType
<1>3. QED  BY <1>1, <1>2 DEF Runnable, Running, Ready

(* Nothing moved. *)
LEMMA RunnableSame ==
    ASSUME UNCHANGED <<executing_thread, ready_threads>>
    PROVE  Runnable' = Runnable
BY DEF Runnable, Running, Ready

(* thread::yield swaps the running thread with the first ready one. *)
LEMMA RunnableYield ==
    ASSUME TypeOK, NEW c \in CPUs, executing_thread[c] \in Threads, ready_threads # <<>>,
           ready_threads' = Tail(Append(ready_threads, executing_thread[c])),
           executing_thread' = [executing_thread EXCEPT ![c] = Head(ready_threads)]
    PROVE  Runnable' = Runnable
<1> DEFINE t == executing_thread[c]
           h == Head(ready_threads)
           s == Append(ready_threads, t)
<1>1. s \in Seq(Threads) /\ ToSet(s) = ToSet(ready_threads) \cup {t}
  BY AppendLemma DEF TypeOK
<1>2. s # <<>> /\ Head(s) = h
  <2>1. ready_threads \in Seq(Threads) /\ Len(ready_threads) > 0  BY DEF TypeOK
  <2>2. Len(s) = Len(ready_threads) + 1 /\ s[1] = ready_threads[1]  BY <2>1
  <2>3. QED  BY <1>1, <2>1, <2>2
<1>3. ToSet(s) = {h} \cup ToSet(Tail(s)) /\ h \in Threads
  BY <1>1, <1>2, HeadTailLemma
<1>4. \A d \in CPUs : executing_thread'[d] = IF d = c THEN h ELSE executing_thread[d]
  BY DEF TypeOK
<1>5. h \in ToSet(ready_threads)
  BY HeadTailLemma DEF TypeOK
<1>6. ToSet(ready_threads') = ToSet(Tail(s))  OBVIOUS
<1> HIDE DEF h, s
<1>7. ASSUME NEW u \in Threads
      PROVE  (Running(u) \/ Ready(u))' <=> Running(u) \/ Ready(u)
  <2>1. (Running(u) \/ Ready(u))' <=>
          (\E d \in CPUs \ {c} : executing_thread[d] = u) \/ u \in ToSet(s)
    BY <1>3, <1>4, <1>6 DEF Running, Ready
  <2>2. Running(u) \/ Ready(u) <=>
          (\E d \in CPUs \ {c} : executing_thread[d] = u) \/ u \in ToSet(s)
    BY <1>1 DEF Running, Ready
  <2>3. QED  BY <2>1, <2>2
<1>8. QED  BY <1>7 DEF Runnable

-----------------------------------------------------------------------------
(* The operations.                                                         *)

(* Lives and owners of steps that do not touch them *)
LEMMA AbsSame ==
    /\ UNCHANGED life => AbsLife' = AbsLife
    /\ UNCHANGED <<free, owned_thread>> => AbsOwner' = AbsOwner
BY DEF AbsLife, AbsOwner

(* A step that changes none of these is no step of the monitor. *)
LEMMA Stutter ==
    ASSUME Runnable' = Runnable, UNCHANGED <<life, free, owned_thread, waiting_threads, relock>>
    PROVE  UNCHANGED Mon!vars
BY AbsSame DEF Mon!vars, AbsLife, AbsOwner, Runnable

(* Whoever calls the library is runnable and not inside cv::wait. *)
LEMMA Caller ==
    ASSUME TypeInv, NEW c \in CPUs, pc[c] = "user"
    PROVE  /\ executing_thread[c] \in Threads /\ executing_thread[c] \in Runnable
           /\ Call(c) => Mon!Calls(executing_thread[c])
<1>1. executing_thread[c] \in Threads  BY DEF TypeInv, ExecInv
<1>2. executing_thread[c] \in Runnable  BY <1>1 DEF Runnable, Running
<1>3. QED  BY <1>1, <1>2 DEF Call, Mon!Calls, Runnable

(* unlock_mutex gives the mutex to the thread the monitor gives it to. *)
LEMMA HandOver ==
    ASSUME TypeOK, NEW m \in Mutexes, UnlockMutex(m)
    PROVE  /\ AbsOwner' = [AbsOwner EXCEPT ![m] = IF waiting_threads[m] = <<>> THEN None
                                                  ELSE Head(waiting_threads[m])]
           /\ Mon!HandOver(m)
<1>1. free \in [Mutexes -> BOOLEAN] /\ owned_thread \in [Mutexes -> Threads \cup {None}]
  BY DEF TypeOK
<1>2. /\ free'[m] <=> waiting_threads[m] = <<>>
      /\ owned_thread'[m] = IF waiting_threads[m] = <<>> THEN None ELSE Head(waiting_threads[m])
  <2>1. free'[m] <=> waiting_threads[m] = <<>>
    BY <1>1, Zenon DEF UnlockMutex, FreeAfter
  <2>2. owned_thread'[m] = IF waiting_threads[m] = <<>> THEN None ELSE Head(waiting_threads[m])
    BY <1>1 DEF UnlockMutex
  <2>3. QED  BY <2>1, <2>2
<1>3. \A l \in Mutexes \ {m} : free'[l] = free[l] /\ owned_thread'[l] = owned_thread[l]
  BY <1>1 DEF UnlockMutex
<1>4. AbsOwner' = [AbsOwner EXCEPT ![m] = IF waiting_threads[m] = <<>> THEN None
                                          ELSE Head(waiting_threads[m])]
  BY <1>2, <1>3 DEF AbsOwner
<1>5. QED  BY <1>4 DEF Mon!HandOver, AbsOwner

(* The threads an operation takes out of a queue *)
LEMMA TakenOut ==
    ASSUME NEW o
    PROVE  /\ Mon!All(Mon!First(o)) = ToSet(HandedTo(o))
           /\ Mon!Rest(o) = AfterHandOff(o)
           /\ Mon!All(waiting_threads[o]) = ToSet(Drained(o))
BY DEF Mon!All, Mon!First, Mon!Rest, ToSet, HandedTo, AfterHandOff, Drained, Popped

LEMMA CreateMaps ==
    ASSUME LibInv, NEW c \in CPUs, NEW u \in Threads, Create(c, u)
    PROVE  Mon!Create(executing_thread[c], u)
<1>0. TypeInv /\ TypeOK  BY DEF LibInv, TypeInv
<1>1. Mon!Calls(executing_thread[c])  BY <1>0, Caller DEF Create, Call
<1>2. Runnable' = Runnable \cup {u}
  <2>1. /\ ToSet(ready_threads') = ToSet(ready_threads) \cup {u}
        /\ executing_thread' = executing_thread
    BY <1>0, AppendLemma DEF Create, Return, TypeOK
  <2>2. QED  BY <2>1 DEF Runnable, Running, Ready
<1>3. AbsLife' = [AbsLife EXCEPT ![u] = "live"] /\ AbsLife[u] = "new"
  BY <1>0 DEF Create, AbsLife, TypeOK
<1>4. AbsOwner' = AbsOwner  BY AbsSame DEF Create, mutexVars
<1>5. QED
  BY <1>1, <1>2, <1>3, <1>4 DEF Create, callVars, Mon!Create, AbsLife, AbsOwner, Runnable

LEMMA JoinMaps ==
    ASSUME LibInv, NEW c \in CPUs, NEW u \in Threads, Join(c, u)
    PROVE  Mon!Join(executing_thread[c], u) \/ UNCHANGED Mon!vars
<1>0. TypeInv /\ TypeOK /\ NoThreadTwice  BY DEF LibInv, TypeInv, PlaceInv
<1>1. Mon!Calls(executing_thread[c])  BY <1>0, Caller DEF Join, Call
<1>2. CASE HasFinished(u)
  <2>1. /\ UNCHANGED <<executing_thread, ready_threads>>
        /\ UNCHANGED <<life, free, owned_thread, waiting_threads, relock>>
    BY <1>2 DEF Join, Return, lifeVars, mutexVars, callVars
  <2>2. QED  BY <2>1, RunnableSame, Stutter
<1>3. CASE ~HasFinished(u)
  <2>1. Runnable' = Runnable \ {executing_thread[c]}
    BY <1>0, <1>3, RunnablePark DEF Join
  <2>2. AbsLife[u] = "live"
    BY <1>0, <1>3 DEF Join, HasFinished, AbsLife, TypeOK, Lives
  <2>3. AbsLife' = AbsLife /\ AbsOwner' = AbsOwner
    BY AbsSame DEF Join, lifeVars, mutexVars
  <2>4. QED
    BY <1>1, <1>3, <2>1, <2>2, <2>3 DEF Join, callVars, Mon!Join, AbsLife, AbsOwner, Runnable
<1>4. QED  BY <1>2, <1>3

LEMMA LockMaps ==
    ASSUME LibInv, NEW c \in CPUs, NEW m \in Mutexes, Lock(c, m)
    PROVE  Mon!Lock(executing_thread[c], m)
<1> DEFINE t == executing_thread[c]
<1>0. /\ TypeInv /\ TypeOK /\ NoThreadTwice /\ OwnerInv
      /\ free \in [Mutexes -> BOOLEAN] /\ owned_thread \in [Mutexes -> Threads \cup {None}]
  BY DEF LibInv, TypeInv, PlaceInv, TypeOK
<1>1. t \in Threads /\ t \in Runnable /\ relock[t] \in {None, m}
  BY <1>0, Caller DEF Lock
<1>2. /\ AbsLife' = AbsLife /\ relock' = [relock EXCEPT ![t] = None]
  BY AbsSame DEF Lock, lifeVars
<1>3. CASE free[m]
  <2>1. /\ free' = [free EXCEPT ![m] = FALSE] /\ owned_thread' = [owned_thread EXCEPT ![m] = t]
        /\ UNCHANGED <<executing_thread, ready_threads, waiting_threads>>
    BY <1>3 DEF Lock, Return
  <2>2. AbsOwner[m] = None /\ AbsOwner' = [AbsOwner EXCEPT ![m] = t]
    BY <1>0, <1>3, <2>1 DEF AbsOwner
  <2>3. Runnable' = Runnable  BY <2>1, RunnableSame
  <2>4. QED
    BY <1>1, <1>2, <2>1, <2>2, <2>3 DEF Mon!Lock, AbsLife, AbsOwner, Runnable
<1>4. CASE ~free[m]
  <2>1. /\ waiting_threads' = [waiting_threads EXCEPT ![m] = Append(@, t)]
        /\ WaitAndPop(c, ready_threads) /\ UNCHANGED <<free, owned_thread>>
    BY <1>4 DEF Lock, mutexVars
  <2>2. AbsOwner[m] # None /\ AbsOwner' = AbsOwner
    BY <1>0, <1>4, <2>1, AbsSame, ConstantsAssumption DEF AbsOwner, OwnerInv
  <2>3. Runnable' = Runnable \ {t}  BY <1>0, <2>1, RunnablePark
  <2>4. QED
    BY <1>1, <1>2, <2>1, <2>2, <2>3 DEF Mon!Lock, AbsLife, AbsOwner, Runnable
<1>5. QED  BY <1>3, <1>4

LEMMA UnlockMaps ==
    ASSUME LibInv, NEW c \in CPUs, NEW m \in Mutexes, Unlock(c, m)
    PROVE  Mon!Unlock(executing_thread[c], m) \/ UNCHANGED Mon!vars
<1> DEFINE t == executing_thread[c]
<1>0. TypeInv /\ TypeOK /\ m \in Objects  BY DEF LibInv, TypeInv, Objects
<1>1. Mon!Calls(t) /\ executing_thread' = executing_thread
  BY <1>0, Caller DEF Unlock, Call, Return
<1>2. CASE Owns(t, m)
  <2>1. /\ UnlockMutex(m) /\ ready_threads' = ready_threads \o HandedTo(m)
        /\ waiting_threads' = [waiting_threads EXCEPT ![m] = AfterHandOff(m)]
        /\ UNCHANGED <<life, relock>>
    BY <1>2 DEF Unlock, lifeVars
  <2>2. AbsOwner[m] = t  BY <1>2 DEF Owns, AbsOwner
  <2>3. Mon!HandOver(m)  BY <1>0, <2>1, HandOver
  <2>4. Runnable' = Runnable \cup Mon!All(Mon!First(m))
    BY <1>0, <1>1, <2>1, HandOffLemma, RunnablePush, TakenOut
  <2>5. waiting_threads' = [waiting_threads EXCEPT ![m] = Mon!Rest(m)]
    BY <2>1, TakenOut
  <2>6. AbsLife' = AbsLife  BY <2>1, AbsSame
  <2>7. QED
    BY <1>1, <2>1, <2>2, <2>3, <2>4, <2>5, <2>6 DEF Mon!Unlock, AbsLife, AbsOwner, Runnable
<1>3. CASE ~Owns(t, m)
  <2>1. UNCHANGED <<ready_threads, life, free, owned_thread, waiting_threads, relock>>
    BY <1>3 DEF Unlock, lifeVars, mutexVars
  <2>2. QED  BY <1>1, <2>1, RunnableSame, Stutter
<1>4. QED  BY <1>2, <1>3

LEMMA WaitMaps ==
    ASSUME LibInv, NEW c \in CPUs, NEW v \in CVs, NEW m \in Mutexes, Wait(c, v, m)
    PROVE  Mon!Wait(executing_thread[c], v, m) \/ UNCHANGED Mon!vars
<1> DEFINE t == executing_thread[c]
<1>0. TypeInv /\ TypeOK /\ NoThreadTwice /\ m \in Objects
  BY DEF LibInv, TypeInv, PlaceInv, Objects
<1>1. Mon!Calls(t)  BY <1>0, Caller DEF Wait, Call
<1>2. CASE Owns(t, m)
  <2>1. /\ UnlockMutex(m) /\ WaitAndPop(c, ready_threads \o HandedTo(m))
        /\ waiting_threads' = [waiting_threads EXCEPT ![m] = AfterHandOff(m),
                                                      ![v] = Append(@, t)]
        /\ life' = life /\ relock' = [relock EXCEPT ![t] = m]
    BY <1>2 DEF Wait, lifeVars
  <2>2. AbsOwner[m] = t  BY <1>2 DEF Owns, AbsOwner
  <2>3. Mon!HandOver(m)  BY <1>0, <2>1, HandOver
  <2>4. Runnable' = (Runnable \ {t}) \cup Mon!All(Mon!First(m))
    BY <1>0, <2>1, HandOffLemma, RunnablePop, TakenOut
  <2>5. waiting_threads' = [waiting_threads EXCEPT ![m] = Mon!Rest(m), ![v] = Append(@, t)]
    BY <2>1, TakenOut
  <2>6. AbsLife' = AbsLife  BY <2>1, AbsSame
  <2>7. QED
    BY <1>1, <2>1, <2>2, <2>3, <2>4, <2>5, <2>6 DEF Mon!Wait, AbsLife, AbsOwner, Runnable
<1>3. CASE ~Owns(t, m)
  <2>1. UNCHANGED <<executing_thread, ready_threads, life, free, owned_thread,
                    waiting_threads, relock>>
    BY <1>3 DEF Wait, Return, lifeVars, mutexVars
  <2>2. QED  BY <2>1, RunnableSame, Stutter
<1>4. QED  BY <1>2, <1>3

LEMMA WakeMaps ==
    ASSUME LibInv, NEW c \in CPUs, NEW v \in CVs, Signal(c, v) \/ Broadcast(c, v)
    PROVE  Mon!Signal(executing_thread[c], v) \/ Mon!Broadcast(executing_thread[c], v)
<1> DEFINE t == executing_thread[c]
<1>0. TypeInv /\ TypeOK /\ v \in Objects /\ waiting_threads[v] \in Seq(Threads)
  BY DEF LibInv, TypeInv, TypeOK, Objects
<1>1. /\ Mon!Calls(t) /\ executing_thread' = executing_thread
      /\ UNCHANGED <<life, free, owned_thread, relock>>
  BY <1>0, Caller DEF Signal, Broadcast, Call, Return, lifeVars, mutexVars, callVars
<1>2. AbsLife' = AbsLife /\ AbsOwner' = AbsOwner  BY <1>1, AbsSame
<1>3. CASE Signal(c, v)
  <2>1. waiting_threads' = [waiting_threads EXCEPT ![v] = Mon!Rest(v)]
    BY <1>3, TakenOut DEF Signal
  <2>2. Runnable' = Runnable \cup Mon!All(Mon!First(v))
    BY <1>0, <1>1, <1>3, HandOffLemma, RunnablePush, TakenOut DEF Signal
  <2>3. QED
    BY <1>1, <1>2, <2>1, <2>2 DEF Mon!Signal, AbsLife, AbsOwner, Runnable
<1>4. CASE Broadcast(c, v)
  <2>1. waiting_threads' = [waiting_threads EXCEPT ![v] = <<>>]
    BY <1>4 DEF Broadcast
  <2>2. Runnable' = Runnable \cup Mon!All(waiting_threads[v])
    BY <1>0, <1>1, <1>4, RunnablePush, TakenOut DEF Broadcast, Drained
  <2>3. QED
    BY <1>1, <1>2, <2>1, <2>2 DEF Mon!Broadcast, AbsLife, AbsOwner, Runnable
<1>5. QED  BY <1>3, <1>4

LEMMA FinishMaps ==
    ASSUME LibInv, NEW c \in CPUs, NEW t \in Threads, t = executing_thread[c], Finish(c)
    PROVE  Mon!Finish(t)
<1>0. TypeInv /\ TypeOK /\ NoThreadTwice /\ LifeInv  BY DEF LibInv, TypeInv, PlaceInv
<1>1. Mon!Calls(t)  BY <1>0, Caller DEF Finish, Call
<1>2. waiting_threads[t] \in Seq(Threads)  BY <1>0, <1>1 DEF TypeOK, Objects
<1>3. waiting_threads' = [waiting_threads EXCEPT ![t] = <<>>]  BY DEF Finish
<1>4. Runnable' = (Runnable \ {t}) \cup Mon!All(waiting_threads[t])
  BY <1>0, <1>2, RunnablePop, TakenOut DEF Finish, Drained
<1>5. AbsLife' = [AbsLife EXCEPT ![t] = "finished"]
  <2>1. life' = [u \in Threads |-> IF u = t THEN "finished"
                                  ELSE IF u \in ToSet(finished_threads) THEN "freed"
                                  ELSE life[u]]
    BY DEF Finish, LifeAfterFinish
  <2>2. \A u \in ToSet(finished_threads) : life[u] = "finished"  BY <1>0 DEF LifeInv
  <2>3. QED  BY <1>1, <2>1, <2>2 DEF AbsLife
<1>6. AbsOwner' = AbsOwner /\ relock' = relock
  BY AbsSame DEF Finish, mutexVars, callVars
<1>7. QED
  BY <1>1, <1>3, <1>4, <1>5, <1>6 DEF Mon!Finish, AbsLife, AbsOwner, Runnable

LEMMA BootMaps ==
    ASSUME LibInv, NEW c \in CPUs, Boot(c)
    PROVE  Mon!Start \/ UNCHANGED Mon!vars
<1> USE ConstantsAssumption
<1>0. TypeInv /\ TypeOK /\ ExecInv /\ NoThreadTwice /\ LifeInv
  BY DEF LibInv, TypeInv, PlaceInv
<1>1. executing_thread[c] = None  BY <1>0 DEF Boot, ExecInv
<1>2. UNCHANGED <<free, owned_thread, waiting_threads, relock>>
  BY DEF Boot, mutexVars, callVars
<1>3. CASE c = BootCpu
  <2>1. /\ life' = [life EXCEPT ![MainThread] = "live"] /\ UNCHANGED ready_threads
        /\ executing_thread' = [executing_thread EXCEPT ![c] = MainThread]
    BY <1>3 DEF Boot
  <2>2. life[MainThread] = "new"  BY <1>0, <1>3 DEF Boot, LifeInv
  <2>3. AbsLife[MainThread] = "new" /\ AbsLife' = [AbsLife EXCEPT ![MainThread] = "live"]
    BY <1>0, <2>1, <2>2 DEF AbsLife, TypeOK
  <2>4. Runnable' = Runnable \cup {MainThread}
    <3>1. \A d \in CPUs : executing_thread'[d] = IF d = c THEN MainThread ELSE executing_thread[d]
      BY <1>0, <2>1 DEF TypeOK
    <3>2. \A t \in Threads : Running(t)' <=> Running(t) \/ t = MainThread
      BY <1>1, <3>1 DEF Running
    <3>3. QED  BY <2>1, <3>2 DEF Runnable, Ready
  <2>5. AbsOwner' = AbsOwner  BY <1>2, AbsSame
  <2>6. QED
    BY <1>2, <2>3, <2>4, <2>5 DEF Mon!Start, AbsLife, AbsOwner, Runnable
<1>4. CASE c # BootCpu
  <2>1. WaitAndPop(c, ready_threads) /\ UNCHANGED life  BY <1>4 DEF Boot
  <2>2. Runnable' = Runnable \ {None}  BY <1>0, <1>1, <2>1, RunnablePark
  <2>3. Runnable' = Runnable  BY <2>2 DEF Runnable
  <2>4. QED  BY <1>2, <2>1, <2>3, Stutter
<1>5. QED  BY <1>3, <1>4

(* What the CPUs do between the operations is hidden. *)
LEMMA HiddenSteps ==
    ASSUME LibInv, NEW c \in CPUs,
           \/ Yield(c) \/ Switch(c) \/ ReleaseGuard(c) \/ IdleLoop(c)
           \/ Suspend(c) \/ WakeUp(c) \/ IdleEnter(c)
    PROVE  UNCHANGED Mon!vars
<1> USE ConstantsAssumption
<1>0. TypeInv /\ TypeOK /\ ExecInv /\ NoThreadTwice  BY DEF LibInv, TypeInv, PlaceInv
<1>1. UNCHANGED <<life, free, owned_thread, waiting_threads, relock>>
  BY DEF Yield, Switch, ReleaseGuard, IdleLoop, Suspend, WakeUp, IdleEnter,
         lifeVars, mutexVars, callVars
<1>2. CASE UNCHANGED <<executing_thread, ready_threads>>
  BY <1>1, <1>2, RunnableSame, Stutter
<1>3. CASE Yield(c)
  <2>1. CASE KeepsRunning(c)  BY <1>2, <1>3, <2>1 DEF Yield, Return
  <2>2. CASE ~KeepsRunning(c)
    <3>1. executing_thread[c] \in Threads
      BY <1>0, <1>3, <2>2 DEF Yield, KeepsRunning, ExecInv
    <3>2. Runnable' = Runnable
      BY <1>0, <1>3, <2>2, <3>1, RunnableYield DEF Yield, KeepsRunning
    <3>3. QED  BY <1>1, <3>2, Stutter
  <2>3. QED  BY <2>1, <2>2
<1>4. CASE IdleLoop(c)
  <2>1. CASE ready_threads = <<>>  BY <1>2, <1>4, <2>1 DEF IdleLoop
  <2>2. CASE ready_threads # <<>>
    <3>1. WaitAndPop(c, ready_threads)  BY <1>4, <2>2 DEF IdleLoop
    <3>2. executing_thread[c] = Idle  BY <1>0, <1>4 DEF IdleLoop, ExecInv
    <3>3. Runnable' = Runnable \ {Idle}  BY <1>0, <3>1, <3>2, RunnablePark
    <3>4. Runnable' = Runnable  BY <3>3 DEF Runnable
    <3>5. QED  BY <1>1, <3>4, Stutter
  <2>3. QED  BY <2>1, <2>2
<1>5. CASE Switch(c) \/ ReleaseGuard(c) \/ Suspend(c) \/ WakeUp(c) \/ IdleEnter(c)
  BY <1>2, <1>5 DEF Switch, ReleaseGuard, Suspend, WakeUp, IdleEnter
<1>6. QED  BY <1>3, <1>4, <1>5

-----------------------------------------------------------------------------
(* The refinement.                                                         *)

LEMMA InitMaps == Init => Mon!Init
<1> SUFFICES ASSUME Init PROVE Mon!Init  OBVIOUS
<1>1. Runnable = {}
  BY EmptyLemma, ConstantsAssumption DEF Init, Runnable, Running, Ready
<1>2. AbsLife = [t \in Threads |-> "new"] /\ AbsOwner = [m \in Mutexes |-> None]
  BY DEF Init, AbsLife, AbsOwner
<1>3. waiting_threads = [o \in Mon!Objects |-> <<>>] /\ relock = [t \in Threads |-> None]
  BY DEF Init, Mon!Objects, Objects
<1>4. QED  BY <1>1, <1>2, <1>3 DEF Mon!Init, AbsLife, AbsOwner, Runnable

LEMMA StepMaps == LibInv /\ [Next]_vars => [Mon!Next]_(Mon!vars)
<1> SUFFICES ASSUME LibInv, [Next]_vars PROVE Mon!Next \/ UNCHANGED Mon!vars  OBVIOUS
<1>0. TypeInv  BY DEF LibInv
<1>1. CASE UNCHANGED vars
  BY <1>1, RunnableSame, Stutter DEF vars, lifeVars, mutexVars, callVars
<1>2. ASSUME NEW c \in CPUs, CpuStep(c) \/ Yield(c)
      PROVE  Mon!Next \/ UNCHANGED Mon!vars
  <2>1. CASE Boot(c)  BY <2>1, BootMaps DEF Mon!Next
  <2>2. QED  BY <1>2, <2>1, HiddenSteps DEF CpuStep
<1>3. ASSUME NEW c \in CPUs, UserCall(c)
      PROVE  Mon!Next \/ UNCHANGED Mon!vars
  <2>1. executing_thread[c] \in Threads
    <3>1. pc[c] = "user"
      BY <1>3 DEF UserCall, Create, Join, Lock, Unlock, Signal, Broadcast, Wait, Finish, Call
    <3>2. QED  BY <1>0, <3>1, Caller
  <2>2. CASE \E u \in Threads : Create(c, u) \/ Join(c, u)
    BY <2>1, <2>2, CreateMaps, JoinMaps DEF Mon!Next
  <2>3. CASE \E m \in Mutexes : Lock(c, m) \/ Unlock(c, m)
    BY <2>1, <2>3, LockMaps, UnlockMaps DEF Mon!Next
  <2>4. CASE \E v \in CVs : Signal(c, v) \/ Broadcast(c, v) \/ \E m \in Mutexes : Wait(c, v, m)
    <3>1. ASSUME NEW v \in CVs, Signal(c, v) \/ Broadcast(c, v) PROVE Mon!Next
      BY <2>1, <3>1, WakeMaps DEF Mon!Next
    <3>2. ASSUME NEW v \in CVs, NEW m \in Mutexes, Wait(c, v, m)
          PROVE  Mon!Next \/ UNCHANGED Mon!vars
      BY <2>1, <3>2, WaitMaps DEF Mon!Next
    <3>3. QED  BY <2>4, <3>1, <3>2
  <2>5. CASE Finish(c)
    <3>1. PICK t \in Threads : t = executing_thread[c]  BY <2>1
    <3>2. Mon!Finish(t)  BY <2>5, <3>1, FinishMaps
    <3>3. QED  BY <3>2 DEF Mon!Next
  <2>6. QED  BY <1>3, <2>2, <2>3, <2>4, <2>5 DEF UserCall
<1>4. QED  BY <1>1, <1>2, <1>3 DEF Next

(* The thread library implements monitors: with any number of CPUs,        *)
(* threads preempted between any two steps, and wakeups that travel        *)
(* through the ready queue, every call of lock, unlock, wait, signal,      *)
(* broadcast, join, the constructor of a thread and its end takes effect   *)
(* at one moment and makes exactly the right threads runnable, and no      *)
(* other step of the library does.                                         *)
THEOREM LibraryImplementsMonitor == Spec => ImplementsMonitor
<1>1. Init => LibInv  BY LibInit
<1>2. LibInv /\ [Next]_vars => LibInv'  BY LibStep
<1>3. Init => Mon!Init  BY InitMaps
<1>4. LibInv /\ [Next]_vars => [Mon!Next]_(Mon!vars)  BY StepMaps
<1>5. QED  BY <1>1, <1>2, <1>3, <1>4, PTL DEF Spec, ImplementsMonitor, Mon!Spec
=============================================================================
