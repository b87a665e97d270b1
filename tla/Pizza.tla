-------------------------------- MODULE Pizza --------------------------------
(***************************************************************************)
(* The pizza delivery program of testapp/: a manager thread matches        *)
(* available drivers with waiting customers; one thread for each driver    *)
(* and each customer; all of them in one monitor (pizza_lock, a cv for     *)
(* each thread).                                                           *)
(*                                                                         *)
(* main boots one CPU without timer interrupts, so a thread runs until it  *)
(* waits or finishes, or until a function of the pizza library lets others *)
(* run.  A step is the code up to the next call of the thread library or   *)
(* the pizza library, so that the model also says what would happen on     *)
(* other CPUs: drivers and customers announce themselves without the lock. *)
(***************************************************************************)
EXTENDS Integers, FiniteSets, SequencesExt

CONSTANTS
    Inputs,        \* the command lines: the driver argument and the files
    Coordinates,   \* coordinates that occur in request files
    UINT_MAX,      \* the largest unsigned int
    MaxDrivers,    \* bound: drivers on a command line
    MaxCustomers,  \* bound: request files on a command line
    MaxRequests,   \* bound: requests in a file
    Missing,       \* the driver argument is missing: argc < 2
    NotANumber,    \* the driver argument is one stoi throws invalid_argument for
    OutOfRange,    \* the driver argument is one stoi throws out_of_range for
    Unreadable,    \* a request file that cannot be opened
    None           \* no thread

Drivers == 1 .. MaxDrivers
Customers == 1 .. MaxCustomers
Locations == Coordinates \X Coordinates
RequestLists == UNION {[1 .. n -> Locations] : n \in 0 .. MaxRequests}
Files == {Unreadable} \cup RequestLists

Manager == <<"manager", 1>>
Driver(d) == <<"driver", d>>
Customer(c) == <<"customer", c>>
Threads == {Manager} \cup {Driver(d) : d \in Drivers} \cup {Customer(c) : c \in Customers}

pizza_lock == <<"pizza_lock", 1>>

ASSUME PizzaAssumption ==
    /\ UINT_MAX \in Nat /\ Coordinates \subseteq 0 .. UINT_MAX /\ 0 \in Coordinates
    /\ MaxDrivers \in Nat /\ MaxCustomers \in Nat /\ MaxRequests \in Nat
    /\ Unreadable \notin RequestLists
    /\ \A i \in Inputs : /\ i.files \in Seq(Files) /\ Len(i.files) <= MaxCustomers
                         /\ \/ i.drivers \in {NotANumber, OutOfRange}
                            \/ i.drivers = Missing /\ i.files = <<>>
                            \/ i.drivers \in Int /\ i.drivers <= MaxDrivers
    /\ None \notin Threads \cup {pizza_lock}

VARIABLES
    input,      \* the command line
    process,    \* "running", "exited" (exit(1)), "aborted" or "crashed"
    ready,      \* the running thread, then the ready ones in their order
    pc,         \* where each thread is, see the tables below
    owner,      \* the owner of pizza_lock
    lockq,      \* the threads in its queue
    asleep,     \* the threads that wait for their own cv
    drivers,    \* the driver objects
    customers,  \* the customer objects
    pair,       \* min_customer and min_driver of match_delivery
    requested,  \* history: calls of customer_ready by each customer
    delivered,  \* history: pizzas each customer has received
    payments    \* history: calls of pay by each customer

schedVars == <<ready, owner, lockq, asleep>>
objects == <<drivers, customers, pair>>
history == <<requested, delivered, payments>>
vars == <<input, process, schedVars, pc, objects, history>>

(* Where a thread is: "lock" and "relock" before pizza_lock.lock() (the    *)
(* second as the end of cv::wait), the others at the code they are named   *)
(* for; "new" before it is created, "end" after it has returned.           *)
PCs == {"new", "load", "spawn", "lock", "check", "wait", "relock", "match", "assign",
        "notify", "unlock", "ready", "readied", "await_match", "drive", "arrived",
        "hand_over", "await_payment", "repay", "test", "await_pizza", "paying", "leave",
        "finish", "end"}

Start == <<0, 0>>

(* driver::driver; recipient and destination are locals of run_driver. *)
NewDriver == [status |-> "Unavailable", location |-> Start, assigned_customer |-> 0,
              paid |-> FALSE, matched |-> FALSE, recipient |-> 0, destination |-> Start]

(* customer::customer, which leaves has_pizza as it finds it. *)
NewCustomer(requests, garbage) ==
    [status |-> "Unavailable", location |-> Start, requests |-> requests,
     assigned_driver |-> 0, has_pizza |-> garbage, matched |-> FALSE]

Init ==
    /\ input \in Inputs
    /\ process = "running"
    /\ ready = <<Manager>>
    /\ pc = [t \in Threads |-> IF t = Manager THEN "load" ELSE "new"]
    /\ owner = None /\ lockq = <<>> /\ asleep = {}
    /\ drivers = [d \in Drivers |-> NewDriver]
    /\ customers = [c \in Customers |-> NewCustomer(<<>>, FALSE)]
    /\ pair = <<0, 0>>
    /\ requested = [c \in Customers |-> 0]
    /\ delivered = [c \in Customers |-> 0]
    /\ payments = [c \in Customers |-> 0]

-----------------------------------------------------------------------------
(* Threads on one CPU: fragments that the steps below conjoin.             *)

(* cpu::boot(1, ..., 0, 0, 0): the thread that runs goes on. *)
MayRun(t) == ready # <<>> /\ Head(ready) = t

At(t, place) == process = "running" /\ pc[t] = place /\ MayRun(t)
Goes(t, place) == pc' = [pc EXCEPT ![t] = place]

(* The ready threads, once the running one has left the CPU *)
Others == Tail(ready)
HandedOver == IF lockq = <<>> THEN <<>> ELSE <<Head(lockq)>>
PassLock == /\ owner' = IF lockq = <<>> THEN None ELSE Head(lockq)
            /\ lockq' = IF lockq = <<>> THEN lockq ELSE Tail(lockq)

Lock(t) ==
    /\ \/ /\ owner = None
          /\ owner' = t
          /\ UNCHANGED <<ready, lockq>>
       \/ /\ owner # None
          /\ lockq' = Append(lockq, t)
          /\ ready' = Others
          /\ UNCHANGED owner
    /\ UNCHANGED asleep

Unlock(t) ==
    /\ PassLock
    /\ ready' = ready \o HandedOver
    /\ UNCHANGED asleep

Wait(t) ==
    /\ PassLock
    /\ asleep' = asleep \cup {t}
    /\ ready' = Others \o HandedOver

(* Mutant: a signal that wakes nobody. *)
NoSignalMutant(u) == UNCHANGED schedVars

(* cv::signal on the cv of thread u *)
Signal(u) ==
    /\ asleep' = asleep \ {u}
    /\ ready' = IF u \in asleep THEN Append(ready, u) ELSE ready
    /\ UNCHANGED <<owner, lockq>>

(* A function of the pizza library: it may let the other ready threads run *)
(* before it returns.                                                      *)
LibraryCall(t) ==
    /\ \/ UNCHANGED ready
       \/ Len(ready) > 1 /\ ready' = Append(Others, t)
    /\ UNCHANGED <<owner, lockq, asleep>>

Ends(how) ==
    /\ process' = how
    /\ UNCHANGED <<input, schedVars, pc, objects, history>>

(* Where the calls of pizza_lock.lock(), by the program or at the end of   *)
(* cv::wait, and of pizza_lock.unlock() lead.                              *)
Locking == [manager  |-> [lock |-> "check", relock |-> "check"],
            driver   |-> [lock |-> "await_match", relock |-> "await_match",
                          arrived |-> "hand_over", repay |-> "await_payment"],
            customer |-> [lock |-> "test", relock |-> "await_pizza"]]
Unlocking == [unlock |-> "lock", leave |-> "finish"]

TakeLock(t) ==
    /\ pc[t] \in DOMAIN Locking[t[1]]
    /\ At(t, pc[t]) /\ Lock(t) /\ Goes(t, Locking[t[1]][pc[t]])
    /\ UNCHANGED <<input, process, objects, history>>

GiveLock(t) ==
    /\ pc[t] \in DOMAIN Unlocking
    /\ At(t, pc[t]) /\ Unlock(t) /\ Goes(t, Unlocking[pc[t]])
    /\ UNCHANGED <<input, process, objects, history>>

-----------------------------------------------------------------------------
(* run_pizza_manager.                                                      *)

(* load_input: what happens to the process, if it does not go on. *)
InputErrors(i) ==
    IF i.drivers = OutOfRange THEN {"aborted"}
    ELSE IF i.drivers \in {Missing, NotANumber} \/ i.drivers <= 0 \/ i.files = <<>>
         THEN {"exited"} ELSE {}

LoadInput ==
    /\ At(Manager, "load")
    /\ \/ \E how \in InputErrors(input) : Ends(how)
       \/ /\ InputErrors(input) = {}
          /\ Goes(Manager, "spawn")
          /\ UNCHANGED <<input, process, schedVars, objects, history>>

Created(t) == pc[t] # "new"
NextDriver == Cardinality({d \in Drivers : Created(Driver(d))}) + 1
NextCustomer == Cardinality({c \in Customers : Created(Customer(c))}) + 1

(* A driver object and its thread. *)
SpawnDriver ==
    /\ At(Manager, "spawn") /\ NextDriver <= input.drivers
    /\ drivers' = [drivers EXCEPT ![NextDriver] = NewDriver]
    /\ Goes(Driver(NextDriver), "ready")
    /\ ready' = Append(ready, Driver(NextDriver))
    /\ UNCHANGED <<input, process, owner, lockq, asleep, customers, pair, history>>

(* A customer object, with the requests of its file (create_requests), and *)
(* its thread.  A file that cannot be opened ends the process.             *)
SpawnCustomer ==
    /\ At(Manager, "spawn")
    /\ NextDriver > input.drivers /\ NextCustomer <= Len(input.files)
    /\ LET file == input.files[NextCustomer] IN
       \/ file = Unreadable /\ Ends("exited")
       \/ /\ file # Unreadable
          /\ \E garbage \in BOOLEAN :
               customers' = [customers EXCEPT ![NextCustomer] = NewCustomer(file, garbage)]
          /\ Goes(Customer(NextCustomer), "ready")
          /\ ready' = Append(ready, Customer(NextCustomer))
          /\ UNCHANGED <<input, process, owner, lockq, asleep, drivers, pair, history>>

SpawnDone ==
    /\ At(Manager, "spawn")
    /\ NextDriver > input.drivers /\ NextCustomer > Len(input.files)
    /\ Goes(Manager, "lock")
    /\ UNCHANGED <<input, process, schedVars, objects, history>>

is_ready(x) == x.status = "Available"

has_available_delivery ==
    /\ \E c \in Customers : is_ready(customers[c])
    /\ \E d \in Drivers : is_ready(drivers[d])

Difference(a, b) == IF a > b THEN a - b ELSE b - a
rectilinear(start, end) == Difference(start[1], end[1]) + Difference(start[2], end[2])

(* The sum is an int, returned as an unsigned int. *)
calc_dist(start, end) == rectilinear(start, end) % (UINT_MAX + 1)

AvailablePairs ==
    {p \in Customers \X Drivers : is_ready(customers[p[1]]) /\ is_ready(drivers[p[2]])}
DistanceOf(p) == calc_dist(customers[p[1]].location, drivers[p[2]].location)

(* Pairs that beat the initial min_dist; of the nearest the first one in   *)
(* the order of the two loops is taken.                                    *)
Near == {p \in AvailablePairs : DistanceOf(p) < UINT_MAX}
Nearest == {p \in Near : \A q \in Near : DistanceOf(p) <= DistanceOf(q)}
match_delivery ==
    CHOOSE p \in Nearest : \A q \in Nearest : p[1] < q[1] \/ (p[1] = q[1] /\ p[2] <= q[2])

ManagerCheck ==
    /\ At(Manager, "check")
    /\ Goes(Manager, IF has_available_delivery THEN "match" ELSE "wait")
    /\ UNCHANGED <<input, process, schedVars, objects, history>>

ManagerWait ==
    /\ At(Manager, "wait") /\ Wait(Manager) /\ Goes(Manager, "relock")
    /\ UNCHANGED <<input, process, objects, history>>

(* match_delivery, up to and including the call of match.  Without a near  *)
(* pair a null pointer is dereferenced.                                    *)
ManagerMatch ==
    /\ At(Manager, "match")
    /\ \/ Near = {} /\ Ends("crashed")
       \/ /\ Near # {}
          /\ pair' = match_delivery
          /\ LibraryCall(Manager) /\ Goes(Manager, "assign")
          /\ UNCHANGED <<input, process, drivers, customers, history>>

(* Mutant: the matched customer stays available. *)
StaysAvailableMutant(x, d) == [x EXCEPT !.matched = TRUE, !.assigned_driver = d]

(* customer::set_unavailable and set_driver *)
TakenBy(x, d) == [x EXCEPT !.status = "Unavailable", !.matched = TRUE, !.assigned_driver = d]

(* The two objects are taken and know each other; the driver is signalled, *)
(* then the customer.                                                      *)
ManagerAssign ==
    LET c == pair[1]
        d == pair[2]
    IN  /\ At(Manager, "assign")
        /\ drivers' = [drivers EXCEPT ![d].status = "Unavailable", ![d].matched = TRUE,
                                      ![d].assigned_customer = c]
        /\ customers' = [customers EXCEPT ![c] = TakenBy(@, d)]
        /\ Signal(Driver(d)) /\ Goes(Manager, "notify")
        /\ UNCHANGED <<input, process, pair, history>>

ManagerNotify ==
    /\ At(Manager, "notify") /\ Signal(Customer(pair[1])) /\ Goes(Manager, "unlock")
    /\ UNCHANGED <<input, process, objects, history>>

ManagerStep ==
    \/ LoadInput \/ SpawnDriver \/ SpawnCustomer \/ SpawnDone
    \/ ManagerCheck \/ ManagerWait \/ ManagerMatch \/ ManagerAssign \/ ManagerNotify

-----------------------------------------------------------------------------
(* run_driver.                                                             *)

(* driver::ready_up, the call of driver_ready: without the lock the first  *)
(* time, with it later.                                                    *)
DriverReady(d) ==
    /\ At(Driver(d), "ready")
    /\ LibraryCall(Driver(d)) /\ Goes(Driver(d), "readied")
    /\ UNCHANGED <<input, process, objects, history>>

(* Mutant: the match of the last delivery is kept. *)
KeepMatchMutant(x) == [x EXCEPT !.paid = FALSE, !.status = "Available"]

ReadiedDriver(x) == [x EXCEPT !.paid = FALSE, !.matched = FALSE, !.status = "Available"]

(* The rest of ready_up, and manager_cv.signal(). *)
DriverReadied(d) ==
    /\ At(Driver(d), "readied")
    /\ drivers' = [drivers EXCEPT ![d] = ReadiedDriver(@)]
    /\ Signal(Manager)
    /\ Goes(Driver(d), IF owner = Driver(d) THEN "unlock" ELSE "lock")
    /\ UNCHANGED <<input, process, customers, pair, history>>

(* Wait for a match; then read the recipient and unlock. *)
DriverAwaitMatch(d) ==
    /\ At(Driver(d), "await_match")
    /\ \/ /\ ~drivers[d].matched
          /\ Wait(Driver(d)) /\ Goes(Driver(d), "relock")
          /\ UNCHANGED drivers
       \/ /\ drivers[d].matched
          /\ drivers' = [drivers EXCEPT ![d].recipient = drivers[d].assigned_customer]
          /\ Unlock(Driver(d)) /\ Goes(Driver(d), "drive")
    /\ UNCHANGED <<input, process, customers, pair, history>>

(* driver::deliver_pizza, without the lock: the customer's location is     *)
(* read here and once more after the drive.                                *)
DriverDrive(d) ==
    /\ At(Driver(d), "drive")
    /\ drivers' = [drivers EXCEPT ![d].destination = customers[drivers[d].recipient].location]
    /\ LibraryCall(Driver(d)) /\ Goes(Driver(d), "arrived")
    /\ UNCHANGED <<input, process, customers, pair, history>>

DriverHandOver(d) ==
    LET c == drivers[d].recipient IN
    /\ At(Driver(d), "hand_over")
    /\ drivers' = [drivers EXCEPT ![d].location = customers[c].location]
    /\ customers' = [customers EXCEPT ![c].has_pizza = TRUE]
    /\ delivered' = [delivered EXCEPT ![c] = @ + 1]
    /\ Signal(Customer(c)) /\ Goes(Driver(d), "await_payment")
    /\ UNCHANGED <<input, process, pair, requested, payments>>

is_paid(x) == x.paid

DriverAwaitPayment(d) ==
    /\ At(Driver(d), "await_payment")
    /\ \/ ~is_paid(drivers[d]) /\ Wait(Driver(d)) /\ Goes(Driver(d), "repay")
       \/ is_paid(drivers[d]) /\ Goes(Driver(d), "ready") /\ UNCHANGED schedVars
    /\ UNCHANGED <<input, process, objects, history>>

DriverStep(d) ==
    \/ DriverReady(d) \/ DriverReadied(d) \/ DriverAwaitMatch(d)
    \/ DriverDrive(d) \/ DriverHandOver(d) \/ DriverAwaitPayment(d)

-----------------------------------------------------------------------------
(* run_customer.                                                           *)

(* Mutant: run_customer goes on without pizza_lock.lock(). *)
NoLockMutant(c) == "test"

AfterReady(c) == IF owner = Customer(c) THEN "test" ELSE "lock"

(* Mutant: the pizza of the last request is kept. *)
KeepPizzaMutant(x) ==
    [x EXCEPT !.matched = FALSE, !.location = Head(x.requests), !.requests = Tail(@)]

NextRequest(x) ==
    [x EXCEPT !.has_pizza = FALSE, !.matched = FALSE,
              !.location = Head(x.requests), !.requests = Tail(@)]

(* customer::ready_up up to the call of customer_ready; without requests   *)
(* the customer has finished, and the manager is signalled.                *)
CustomerReady(c) ==
    /\ At(Customer(c), "ready")
    /\ \/ /\ customers[c].requests = <<>>
          /\ customers' = [customers EXCEPT ![c].status = "Finished"]
          /\ Signal(Manager) /\ Goes(Customer(c), AfterReady(c))
          /\ UNCHANGED requested
       \/ /\ customers[c].requests # <<>>
          /\ customers' = [customers EXCEPT ![c] = NextRequest(@)]
          /\ requested' = [requested EXCEPT ![c] = @ + 1]
          /\ LibraryCall(Customer(c)) /\ Goes(Customer(c), "readied")
    /\ UNCHANGED <<input, process, drivers, pair, delivered, payments>>

CustomerReadied(c) ==
    /\ At(Customer(c), "readied")
    /\ customers' = [customers EXCEPT ![c].status = "Available"]
    /\ Signal(Manager) /\ Goes(Customer(c), AfterReady(c))
    /\ UNCHANGED <<input, process, drivers, pair, history>>

CustomerTest(c) ==
    /\ At(Customer(c), "test")
    /\ Goes(Customer(c), IF customers[c].status = "Finished" THEN "leave" ELSE "await_pizza")
    /\ UNCHANGED <<input, process, schedVars, objects, history>>

CanPay(x) == x.has_pizza /\ x.matched

(* Wait for the pizza, then pay. *)
CustomerAwaitPizza(c) ==
    /\ At(Customer(c), "await_pizza")
    /\ \/ /\ ~CanPay(customers[c])
          /\ Wait(Customer(c)) /\ Goes(Customer(c), "relock")
          /\ UNCHANGED payments
       \/ /\ CanPay(customers[c])
          /\ payments' = [payments EXCEPT ![c] = @ + 1]
          /\ LibraryCall(Customer(c)) /\ Goes(Customer(c), "paying")
    /\ UNCHANGED <<input, process, objects, requested, delivered>>

CustomerPaid(c) ==
    LET d == customers[c].assigned_driver IN
    /\ At(Customer(c), "paying")
    /\ drivers' = [drivers EXCEPT ![d].paid = TRUE]
    /\ Signal(Driver(d)) /\ Goes(Customer(c), "ready")
    /\ UNCHANGED <<input, process, customers, pair, history>>

CustomerFinish(c) ==
    /\ At(Customer(c), "finish")
    /\ ready' = Others /\ Goes(Customer(c), "end")
    /\ UNCHANGED <<input, process, owner, lockq, asleep, objects, history>>

CustomerStep(c) ==
    \/ CustomerReady(c) \/ CustomerReadied(c) \/ CustomerTest(c)
    \/ CustomerAwaitPizza(c) \/ CustomerPaid(c) \/ CustomerFinish(c)

Next ==
    \/ \E t \in Threads : TakeLock(t) \/ GiveLock(t)
    \/ ManagerStep
    \/ \E d \in Drivers : DriverStep(d)
    \/ \E c \in Customers : CustomerStep(c)

Spec == Init /\ [][Next]_vars

(* The CPU goes on with the thread it runs. *)
FairSpec == Spec /\ WF_vars(Next)

-----------------------------------------------------------------------------
(* Properties.                                                             *)

(* Type invariant: every variable has the type its declaration gives it;   *)
(* in particular no count exceeds the number of requests in a file, and    *)
(* assigned_driver and assigned_customer are read only after they were set *)
(* to a thread of the program.                                             *)
TypeOK ==
    /\ input \in Inputs
    /\ process \in {"running", "exited", "aborted", "crashed"}
    /\ ToSet(ready) \cup ToSet(lockq) \cup asleep \subseteq Threads
    /\ pc \in [Threads -> PCs]
    /\ owner \in Threads \cup {None}
    /\ drivers \in [Drivers ->
         [status : {"Unavailable", "Available"}, location : Locations,
          assigned_customer : Customers \cup {0}, paid : BOOLEAN, matched : BOOLEAN,
          recipient : Customers \cup {0}, destination : Locations]]
    /\ \A c \in Customers :
         customers[c] \in [status : {"Unavailable", "Available", "Finished"},
                           location : Locations, requests : RequestLists,
                           assigned_driver : Drivers \cup {0}, has_pizza : BOOLEAN,
                           matched : BOOLEAN]
    /\ pair \in (Customers \cup {0}) \X (Drivers \cup {0})
    /\ \A h \in {requested, delivered, payments} : h \in [Customers -> 0 .. MaxRequests]

Delivering(d) ==
    /\ pc[Driver(d)] \in {"drive", "arrived", "hand_over", "await_payment", "repay"}
    /\ ~drivers[d].paid

(* A driver and its customer belong to each other from the match until the *)
(* payment, over all the waits and the drive without the lock: neither is  *)
(* available to the manager, and no other driver is on its way to the same *)
(* customer.  The customer's location, which run_driver reads before the   *)
(* drive and after it, is the same: the driver is where it drove to.       *)
PairedUntilPaid ==
    \A d \in Drivers : Delivering(d) =>
        LET c == drivers[d].recipient IN
        /\ drivers[d].status = "Unavailable" /\ drivers[d].assigned_customer = c
        /\ customers[c].status = "Unavailable" /\ customers[c].matched
        /\ customers[c].assigned_driver = d
        /\ \A e \in Drivers \ {d} : Delivering(e) => drivers[e].recipient # c
        /\ pc[Driver(d)] # "drive" => drivers[d].destination = customers[c].location

(* Every request is delivered once and paid for once, in this order, and   *)
(* before the customer's next request; and the driver who is paid is the   *)
(* one who brought the pizza and waits for the money.                      *)
TradeInOrder ==
    \A c \in Customers :
        /\ payments[c] <= delivered[c] /\ delivered[c] <= requested[c]
        /\ requested[c] <= payments[c] + 1
        /\ pc[Customer(c)] = "paying" =>
             LET d == customers[c].assigned_driver IN
             /\ pc[Driver(d)] \in {"await_payment", "repay"}
             /\ drivers[d].recipient = c /\ ~drivers[d].paid

Served(c) == pc[Customer(c)] = "end" /\ payments[c] = Len(input.files[c])

(* exit(1), or an exception nobody catches, for a bad command line or      *)
(* request file.                                                           *)
EndedEarly ==
    /\ process \in {"exited", "aborted"}
    /\ \A c \in Customers : requested[c] = 0
    /\ \A d \in Drivers : drivers[d].status = "Unavailable"

(* Every request is served in the end, whatever the library functions do   *)
(* with the CPU, unless the process has ended: for bad input, before any   *)
(* thread has announced itself, so that nobody asks for a pizza in vain,   *)
(* or in match_delivery, when no pair is near enough.  So no signal is     *)
(* lost, although drivers and customers first change their status and      *)
(* signal without the lock, which is safe on one CPU only.                 *)
AllServed ==
    <>(EndedEarly \/ process = "crashed" \/ \A c \in 1 .. Len(input.files) : Served(c))

CvOf(t) == <<"cv", t>>

Mon == INSTANCE Monitor WITH
    Mutexes <- {pizza_lock}, CVs <- {CvOf(t) : t \in Threads}, MainThread <- Manager,
    life <- [t \in Threads |-> IF pc[t] \in {"new", "load"} THEN "new"
                               ELSE IF pc[t] = "end" THEN "finished" ELSE "live"],
    runnable <- {t \in ToSet(ready) : pc[t] # "load"},
    owner <- [m \in {pizza_lock} |-> owner],
    queue <- [o \in {pizza_lock} \cup {CvOf(t) : t \in Threads} \cup Threads |->
                IF o = pizza_lock THEN lockq
                ELSE IF o \in {CvOf(t) : t \in asleep} THEN <<o[2]>> ELSE <<>>],
    relock <- [t \in Threads |-> IF pc[t] \in {"relock", "repay"} THEN pizza_lock ELSE None]

(* The program is a client of the thread library: each of its steps is one *)
(* legal call, or none.  It unlocks and waits only with pizza_lock, waits  *)
(* return with it, and what the fragments above say of one CPU is what     *)
(* Monitor, which ThreadLib implements, says of any number.                *)
UsesMonitor == Mon!Spec
=============================================================================
